--------------------------- MODULE ExitRulesProofs ---------------------------
(***************************************************************************)
(* For all prices, quantities and capitals: the amounts are whole numbers, *)
(* a trade that the scheduler's monitor holds is within 1% of its entry    *)
(* price, the levels a webhook stores are those the monitor acts on, its   *)
(* trade spends more than half of the capital, what is booked is what was  *)
(* shown, a target-hit earns more than it is charged, and the rules move a *)
(* trade as the abstract book of trades allows.                            *)
(***************************************************************************)
EXTENDS ExitRules, TLAPS

\* Rounding to the nearest gives whole numbers.
LEMMA RoundedWhole ==
    ASSUME NEW x \in Int, NEW y \in Nat \ {0}
    PROVE  Rounded(x, y) \subseteq Int
<1>1. x \div y \in Int /\ x % y \in Int
  OBVIOUS
<1> QED
  BY <1>1 DEF Rounded

\* A level is half a paisa at most from the exact one.
LEMMA LevelsNear ==
    ASSUME NEW price \in Nat
    PROVE  /\ \A p \in Below(price) :
                 p \in Nat /\ 100 * p >= 99 * price - 50 /\ 100 * p <= 99 * price + 50
           /\ \A p \in Above(price) :
                 p \in Nat /\ 100 * p >= 101 * price - 50 /\ 100 * p <= 101 * price + 50
<1>1. ASSUME NEW x \in Nat, NEW p \in Rounded(x, 100)
      PROVE  p \in Nat /\ 100 * p >= x - 50 /\ 100 * p <= x + 50
  <2> DEFINE q == x \div 100
             r == x % 100
  <2>1. q \in Nat /\ r \in 0 .. 99 /\ x = 100 * q + r
    OBVIOUS
  <2>2. (p = q /\ 2 * r <= 100) \/ (p = q + 1 /\ 2 * r >= 100)
    BY <1>1 DEF Rounded
  <2> QED
    BY <2>1, <2>2
<1>2. 99 * price \in Nat /\ 101 * price \in Nat
  OBVIOUS
<1> QED
  BY <1>1, <1>2 DEF Below, Above

\* Charges are whole numbers of paise.
LEMMA ChargesWhole ==
    ASSUME NEW buy \in Nat, NEW sell \in Nat
    PROVE  Charges(buy, sell) \subseteq Int
<1>1. ASSUME NEW x \in Nat, NEW rate \in Nat
      PROVE  Thousandths(x, rate) \in Int
  <2>1. x \div 1000 \in Nat /\ x % 1000 \in Nat
    OBVIOUS
  <2>2. (x \div 1000) * rate \in Nat /\ (x % 1000) * rate \in Nat
    BY <2>1
  <2>3. ((x % 1000) * rate) \div 1000 \in Nat
    BY <2>2
  <2> QED
    BY <2>2, <2>3 DEF Thousandths
<1> DEFINE legs == Least(3 * buy, 20000000) + Least(3 * sell, 20000000)
           sum == Thousandths(legs, 11800) + Thousandths(buy + sell, 4189)
                     + Thousandths(sell, 25000)
<1>2. legs \in Nat
  BY DEF Least
<1>3. sum \in Int
  <2>1. Thousandths(legs, 11800) \in Int
    BY <1>1, <1>2
  <2>2. Thousandths(buy + sell, 4189) \in Int
    BY <1>1
  <2>3. Thousandths(sell, 25000) \in Int
    BY <1>1
  <2> QED
    BY <2>1, <2>2, <2>3
<1>4. Rounded(sum, 100000) \subseteq Int /\ Rounded(sum + 3, 100000) \subseteq Int
  BY <1>3, RoundedWhole
<1> QED
  BY <1>4 DEF Charges

-----------------------------------------------------------------------------
\* The inductive invariant: before a trade is opened, no monitor has seen it.
RulesInv ==
    /\ RulesTypeOK
    /\ pos.status = "none" => pos.seen = 0
    /\ RiskBounded

\* Opening sets the entry price of a trade nobody has seen.
LEMMA OpenedKeeps ==
    ASSUME RulesInv, pos.status = "none", NEW side \in Side, NEW origin \in Origin,
           NEW price \in Nat, NEW qty \in Nat, NEW stop \in Nat, NEW target \in Nat,
           Opened(side, origin, price, qty, stop, target)
    PROVE  RulesInv'
<1>1. pos' \in PosType /\ pos'.seen = 0 /\ pos'.status = "entered"
  BY DEF RulesInv, RulesTypeOK, PosType, Opened, Status
<1> QED
  BY <1>1 DEF RulesInv, RulesTypeOK, RiskBounded

\* Closing books whole amounts and changes neither prices nor what was seen.
LEMMA CloseAtKeeps ==
    ASSUME RulesInv, NEW price \in Nat, NEW by \in Closer,
           NEW status \in Status \ {"none", "entered"}, CloseAt(price, status, by)
    PROVE  RulesInv'
<1> DEFINE move == IF pos.side = "SELL" THEN pos.entry - price ELSE price - pos.entry
           gross == move * pos.qty
<1>1. pos \in PosType /\ pos.entry \in Nat /\ pos.qty \in Nat
  BY DEF RulesInv, RulesTypeOK, PosType
<1>2. move \in Int
  BY <1>1
<1>3. gross \in Int
  BY <1>1, <1>2
<1>4. pos.entry * pos.qty \in Nat /\ price * pos.qty \in Nat
  BY <1>1
<1>5. PICK charges \in Charges(pos.entry * pos.qty, price * pos.qty) :
         pos' = [pos EXCEPT !.status = status, !.by = by, !.exit = price,
                            !.gross = gross, !.net = gross - charges]
  BY DEF CloseAt
<1>6. charges \in Int
  BY <1>4, <1>5, ChargesWhole
<1>7. gross - charges \in Int
  BY <1>3, <1>6
<1> HIDE DEF gross, move
<1>8. pos' \in PosType /\ pos'.status = status
  BY <1>1, <1>3, <1>5, <1>7 DEF PosType
<1> QED
  BY <1>8 DEF RulesInv, RulesTypeOK, RiskBounded

\* The scheduler's monitor holds a price strictly between its levels.
LEMMA TickKeeps ==
    ASSUME RulesInv, NEW price \in Nat, SchedulerTick(price)
    PROVE  RulesInv'
<1> DEFINE hit(l, u) == IF pos.side = "SELL" THEN price >= u ELSE price <= l
           won(l, u) == IF pos.side = "SELL" THEN price <= l ELSE price >= u
<1>1. PICK lower \in Below(pos.entry), upper \in Above(pos.entry) :
         \/ hit(lower, upper) /\ CloseAt(price, "sl-hit", "scheduler")
         \/ ~hit(lower, upper) /\ won(lower, upper) /\ CloseAt(price, "target-hit", "scheduler")
         \/ ~hit(lower, upper) /\ ~won(lower, upper) /\ Keep(price)
  BY DEF SchedulerTick
<1>2. pos \in PosType /\ pos.entry \in Nat /\ pos.status = "entered"
  BY DEF RulesInv, RulesTypeOK, PosType, SchedulerTick
<1>3. CASE CloseAt(price, "sl-hit", "scheduler") \/ CloseAt(price, "target-hit", "scheduler")
  BY <1>3, CloseAtKeeps DEF Status, Closer
<1>4. ASSUME ~hit(lower, upper), ~won(lower, upper), Keep(price)
      PROVE  RulesInv'
  <2>1. /\ lower \in Nat /\ 100 * lower >= 99 * pos.entry - 50
        /\ upper \in Nat /\ 100 * upper <= 101 * pos.entry + 50
    BY <1>2, LevelsNear
  <2>2. lower < price /\ price < upper
    BY <1>4, <2>1
  <2>3. /\ pos' \in PosType /\ pos'.seen = price /\ pos'.entry = pos.entry
        /\ pos'.status = "entered"
    BY <1>2, <1>4 DEF Keep, PosType
  <2>4. /\ price > pos.entry => 100 * (price - pos.entry) <= pos.entry + 50
        /\ price <= pos.entry => 100 * (pos.entry - price) <= pos.entry + 50
    BY <1>2, <2>1, <2>2
  <2> QED
    BY <1>2, <2>3, <2>4 DEF RulesInv, RulesTypeOK, RiskBounded
<1> QED
  BY <1>1, <1>3, <1>4

\* The trailing monitor closes, or reports a level.
LEMMA TrailingKeeps ==
    ASSUME RulesInv, NEW price \in Nat, TrailingTick(price)
    PROVE  RulesInv'
<1>1. PICK proposed \in Below(price) :
         \/ \E s \in {"target-hit", "trailing-sl-hit", "sl-hit"} : CloseAt(price, s, "trailing")
         \/ pos' = [pos EXCEPT !.level = Most(pos.stop, proposed)]
  BY DEF TrailingTick
<1>2. CASE \E s \in {"target-hit", "trailing-sl-hit", "sl-hit"} : CloseAt(price, s, "trailing")
  BY <1>2, CloseAtKeeps DEF Status, Closer
<1>3. CASE pos' = [pos EXCEPT !.level = Most(pos.stop, proposed)]
  <2>1. pos \in PosType /\ proposed \in Nat /\ pos.stop \in Nat
    BY LevelsNear DEF RulesInv, RulesTypeOK, PosType
  <2>2. Most(pos.stop, proposed) \in Nat
    BY <2>1 DEF Most
  <2>3. /\ pos' \in PosType /\ pos'.seen = pos.seen /\ pos'.entry = pos.entry
        /\ pos'.status = pos.status
    BY <1>3, <2>1, <2>2 DEF PosType
  <2> QED
    BY <2>3 DEF RulesInv, RulesTypeOK, RiskBounded
<1> QED
  BY <1>1, <1>2, <1>3

\* Every step keeps the invariant.
LEMMA RulesStep ==
    ASSUME RulesInv, [RulesNext]_pos
    PROVE  RulesInv'
<1>p. Price \subseteq Nat /\ Typed \subseteq Nat /\ Quantity \subseteq Nat /\ Quoted \subseteq Nat
  BY RulesAssumption DEF Quoted
<1>0. pos \in PosType /\ pos.entry \in Nat
  BY DEF RulesInv, RulesTypeOK, PosType
<1>1. ASSUME NEW side \in Side, NEW p \in Price, Enter(side, p)
      PROVE  RulesInv'
  <2>1. CASE pos' = [pos EXCEPT !.status = "skipped"]
    <3>1. pos' \in PosType /\ pos'.status = "skipped"
      BY <1>0, <2>1 DEF PosType, Status
    <3> QED
      BY <3>1 DEF RulesInv, RulesTypeOK, RiskBounded
  <2>2. CASE \E lower \in Below(p), upper \in Above(p) :
                IF side = "SELL"
                THEN Opened(side, "webhook", p, Shares(p), upper, lower)
                ELSE Opened(side, "webhook", p, Shares(p), lower, upper)
    <3>1. PICK stop \in Nat, target \in Nat :
             Opened(side, "webhook", p, Shares(p), stop, target)
      BY <1>p, <2>2, LevelsNear
    <3>2. Shares(p) \in Nat
      <4>1. Capital \in Nat /\ p \in Nat \ {0}
        BY RulesAssumption
      <4>2. Capital \div p \in Nat
        BY <4>1
      <4> QED
        BY <4>2 DEF Shares, Most
    <3>3. "webhook" \in Origin /\ p \in Nat /\ pos.status = "none"
      BY <1>1, <1>p DEF Origin, Enter
    <3> QED
      BY <3>1, <3>2, <3>3, OpenedKeeps
  <2> QED
    BY <1>1, <2>1, <2>2 DEF Enter
<1>2. ASSUME NEW side \in Side, NEW p \in Price, NEW stop \in Typed, NEW target \in Typed,
             NEW q \in Quantity, EnterManually(side, p, q, stop, target)
      PROVE  RulesInv'
  <2>1. "client" \in Origin /\ pos.status = "none"
    BY <1>2 DEF Origin, EnterManually
  <2> QED
    BY <1>2, <1>p, <2>1, OpenedKeeps DEF EnterManually
<1>3. ASSUME NEW stop \in Typed, NEW target \in Typed, UpdateTrade(stop, target)
      PROVE  RulesInv'
  <2>1. /\ pos' \in PosType /\ pos'.seen = pos.seen /\ pos'.entry = pos.entry
        /\ pos'.status = pos.status
    BY <1>0, <1>3, <1>p DEF PosType, UpdateTrade
  <2> QED
    BY <2>1 DEF RulesInv, RulesTypeOK, RiskBounded
<1>4. ASSUME NEW p \in Quoted, SchedulerTick(p) \/ TrailingTick(p)
      PROVE  RulesInv'
  BY <1>4, <1>p, TickKeeps, TrailingKeeps
<1>5. ASSUME NEW p \in Quoted, ForceExit(p)
      PROVE  RulesInv'
  BY <1>0, <1>5, <1>p, CloseAtKeeps DEF ForceExit, Status, Closer
<1>6. ASSUME NEW p \in Quoted, NEW s \in {"sl-hit", "target-hit", "trailing-sl-hit", "exited"},
             ManualExit(p, s)
      PROVE  RulesInv'
  BY <1>6, <1>p, CloseAtKeeps DEF ManualExit, Status, Closer
<1>7. ASSUME UNCHANGED pos
      PROVE  RulesInv'
  BY <1>7 DEF RulesInv, RulesTypeOK, RiskBounded
<1> QED
  BY <1>1, <1>2, <1>3, <1>4, <1>5, <1>6, <1>7 DEF RulesNext

LEMMA RulesStart ==
    ASSUME RulesInit
    PROVE  RulesInv
BY DEF RulesInit, RulesInv, RulesTypeOK, PosType, RiskBounded, Status, Side, Origin, Closer

\* While the monitor holds a trade it is within 1% of its entry price, for every
\* price, level and capital.
THEOREM HeldWithinOnePercent == RulesSpec => []RiskBounded
<1>1. RulesInit => RulesInv
  BY RulesStart
<1>2. RulesInv /\ [RulesNext]_pos => RulesInv'
  BY RulesStep
<1>3. RulesInv => RiskBounded
  BY DEF RulesInv
<1> QED
  BY <1>1, <1>2, <1>3, PTL DEF RulesSpec
-----------------------------------------------------------------------------
\* Steps, as the other invariants see them.

\* What a trade was opened with.
SameTrade ==
    /\ pos'.side = pos.side /\ pos'.origin = pos.origin
    /\ pos'.entry = pos.entry /\ pos'.qty = pos.qty

SameLevels == pos'.stop = pos.stop /\ pos'.target = pos.target /\ pos'.edited = pos.edited

\* A trade is closed at a price, and the book says what the screen did.
ClosedAt(price, status, by) ==
    /\ SameTrade /\ SameLevels /\ pos'.seen = pos.seen
    /\ pos'.status = status /\ pos'.by = by /\ pos'.exit = price
    /\ pos'.gross = Mtm(price)

LEMMA CloseAtBooks ==
    ASSUME RulesTypeOK, NEW price \in Nat, NEW by, NEW status, CloseAt(price, status, by)
    PROVE  ClosedAt(price, status, by)
<1>1. pos \in PosType /\ pos.entry \in Nat /\ pos.qty \in Nat
  BY DEF RulesTypeOK, PosType
<1> DEFINE move == IF pos.side = "SELL" THEN pos.entry - price ELSE price - pos.entry
           gross == move * pos.qty
<1>2. gross = Mtm(price)
  <2>1. (pos.entry - price) * pos.qty = -((price - pos.entry) * pos.qty)
    BY <1>1
  <2> QED
    BY <2>1 DEF Mtm
<1>3. PICK charges : pos' = [pos EXCEPT !.status = status, !.by = by, !.exit = price,
                                        !.gross = gross, !.net = gross - charges]
  BY DEF CloseAt
<1> HIDE DEF gross, move
<1> QED
  BY <1>1, <1>2, <1>3 DEF ClosedAt, SameTrade, SameLevels, PosType

\* Every step opens a trade, changes its levels, looks at it or closes it.
LEMMA StepKinds ==
    ASSUME RulesTypeOK, [RulesNext]_pos
    PROVE  \/ \E side \in Side, price \in Price : Enter(side, price)
           \/ \E side \in Side, price \in Price, stop, target \in Typed, qty \in Quantity :
                 EnterManually(side, price, qty, stop, target)
           \/ SameTrade /\ pos'.status = pos.status /\ pos'.edited = TRUE /\ pos'.seen = pos.seen
                /\ pos'.exit = pos.exit /\ pos'.gross = pos.gross /\ pos'.by = pos.by /\ pos'.net = pos.net
           \/ SameTrade /\ SameLevels /\ pos'.status = pos.status /\ pos'.seen = pos.seen
                /\ pos'.exit = pos.exit /\ pos'.gross = pos.gross /\ pos'.by = pos.by /\ pos'.net = pos.net
           \/ \E price \in Nat : SchedulerTick(price)
           \/ \E price \in Nat, status \in Status \ {"entered"}, by \in Closer \ {"scheduler"} :
                 ClosedAt(price, status, by)
<1>0. pos \in PosType /\ pos.entry \in Nat
  BY DEF RulesTypeOK, PosType
<1>1. Price \subseteq Nat /\ Quoted \subseteq Nat
  BY RulesAssumption DEF Quoted
<1>2. ASSUME NEW stop \in Typed, NEW target \in Typed, UpdateTrade(stop, target)
      PROVE  SameTrade /\ pos'.status = pos.status /\ pos'.edited = TRUE /\ pos'.seen = pos.seen
                /\ pos'.exit = pos.exit /\ pos'.gross = pos.gross /\ pos'.by = pos.by /\ pos'.net = pos.net
  BY <1>0, <1>2 DEF UpdateTrade, SameTrade, PosType
<1>3. ASSUME NEW price \in Quoted, TrailingTick(price)
      PROVE  \/ SameTrade /\ SameLevels /\ pos'.status = pos.status /\ pos'.seen = pos.seen
                  /\ pos'.exit = pos.exit /\ pos'.gross = pos.gross /\ pos'.by = pos.by /\ pos'.net = pos.net
             \/ \E p \in Nat, status \in Status \ {"entered"}, by \in Closer \ {"scheduler"} :
                   ClosedAt(p, status, by)
  <2>1. CASE \E level : pos' = [pos EXCEPT !.level = level]
    BY <1>0, <2>1 DEF SameTrade, SameLevels, PosType
  <2>2. CASE \E s \in {"target-hit", "trailing-sl-hit", "sl-hit"} : CloseAt(price, s, "trailing")
    BY <1>1, <2>2, CloseAtBooks DEF Status, Closer
  <2> QED
    BY <1>3, <2>1, <2>2 DEF TrailingTick
<1>4. ASSUME NEW price \in Quoted, ForceExit(price)
      PROVE  \E p \in Nat, status \in Status \ {"entered"}, by \in Closer \ {"scheduler"} :
                ClosedAt(p, status, by)
  BY <1>0, <1>1, <1>4, CloseAtBooks DEF ForceExit, Status, Closer
<1>5. ASSUME NEW price \in Quoted,
             NEW s \in {"sl-hit", "target-hit", "trailing-sl-hit", "exited"},
             ManualExit(price, s)
      PROVE  \E p \in Nat, status \in Status \ {"entered"}, by \in Closer \ {"scheduler"} :
                ClosedAt(p, status, by)
  BY <1>1, <1>5, CloseAtBooks DEF ManualExit, Status, Closer
<1>6. CASE UNCHANGED pos
  BY <1>6 DEF SameTrade, SameLevels
<1> QED
  BY <1>1, <1>2, <1>3, <1>4, <1>5, <1>6 DEF RulesNext

\* What the scheduler's monitor does with a price, by the levels it works out.
LEMMA TickKinds ==
    ASSUME RulesTypeOK, NEW price \in Nat, SchedulerTick(price)
    PROVE  \E lower \in Below(pos.entry), upper \in Above(pos.entry) :
              \/ /\ IF pos.side = "SELL" THEN price >= upper ELSE price <= lower
                 /\ ClosedAt(price, "sl-hit", "scheduler")
              \/ /\ IF pos.side = "SELL" THEN price <= lower ELSE price >= upper
                 /\ ClosedAt(price, "target-hit", "scheduler")
              \/ /\ lower < price /\ price < upper
                 /\ SameTrade /\ SameLevels /\ pos'.seen = price /\ pos'.status = "entered"
                 /\ pos'.by = pos.by
<1>0. pos \in PosType /\ pos.entry \in Nat /\ pos.status = "entered"
  BY DEF RulesTypeOK, PosType, SchedulerTick
<1>1. PICK lower \in Below(pos.entry), upper \in Above(pos.entry) :
         LET hit == IF pos.side = "SELL" THEN price >= upper ELSE price <= lower
             won == IF pos.side = "SELL" THEN price <= lower ELSE price >= upper
         IN  \/ hit /\ CloseAt(price, "sl-hit", "scheduler")
             \/ ~hit /\ won /\ CloseAt(price, "target-hit", "scheduler")
             \/ ~hit /\ ~won /\ Keep(price)
  BY DEF SchedulerTick
<1>2. lower \in Nat /\ upper \in Nat
  BY <1>0, LevelsNear
<1>3. Keep(price) => /\ SameTrade /\ SameLevels /\ pos'.seen = price
                     /\ pos'.status = "entered" /\ pos'.by = pos.by
  BY <1>0 DEF Keep, SameTrade, SameLevels, PosType
<1>4. \A s : CloseAt(price, s, "scheduler") => ClosedAt(price, s, "scheduler")
  BY CloseAtBooks
<1> QED
  BY <1>0, <1>1, <1>2, <1>3, <1>4

\* What a new trade holds.
LEMMA OpenedHolds ==
    ASSUME RulesTypeOK, NEW side, NEW origin, NEW price, NEW qty, NEW stop, NEW target,
           Opened(side, origin, price, qty, stop, target)
    PROVE  /\ pos'.status = "entered" /\ pos'.side = side /\ pos'.origin = origin
           /\ pos'.entry = price /\ pos'.qty = qty
           /\ pos'.stop = stop /\ pos'.target = target
           /\ pos'.seen = pos.seen /\ pos'.edited = pos.edited
  BY DEF RulesTypeOK, PosType, Opened

LEMMA RulesInvHolds == RulesSpec => []RulesInv
<1>1. RulesInit => RulesInv
  BY RulesStart
<1>2. RulesInv /\ [RulesNext]_pos => RulesInv'
  BY RulesStep
<1> QED
  BY <1>1, <1>2, PTL DEF RulesSpec

-----------------------------------------------------------------------------
\* What is shown of an open trade and what an exit books are worked out in two places
\* of the code, by the same formula (monitor_open_trades, close_trade).
THEOREM ProfitIsBookedAsShown == RulesSpec => []BookedAsShown
<1>1. RulesInit => BookedAsShown
  BY DEF RulesInit, BookedAsShown
<1>2. RulesInv /\ BookedAsShown /\ [RulesNext]_pos => BookedAsShown'
  <2> SUFFICES ASSUME RulesInv, BookedAsShown, [RulesNext]_pos PROVE BookedAsShown'
    OBVIOUS
  <2>0. RulesTypeOK /\ pos \in PosType
    BY DEF RulesInv, RulesTypeOK
  <2>1. ASSUME NEW side \in Side, NEW price \in Price, Enter(side, price)
        PROVE  BookedAsShown'
    <3>1. pos'.status \in {"skipped", "entered"}
      BY <2>0, <2>1, OpenedHolds DEF Enter, PosType
    <3> QED
      BY <3>1 DEF BookedAsShown
  <2>2. ASSUME NEW side, NEW price, NEW stop, NEW target, NEW qty,
               EnterManually(side, price, qty, stop, target)
        PROVE  BookedAsShown'
    BY <2>0, <2>2, OpenedHolds DEF EnterManually, BookedAsShown
  <2>3. ASSUME NEW price \in Nat, NEW status, NEW by, ClosedAt(price, status, by)
        PROVE  BookedAsShown'
    BY <2>3 DEF ClosedAt, SameTrade, BookedAsShown, Mtm
  <2>4. ASSUME NEW price \in Nat, SchedulerTick(price)
        PROVE  BookedAsShown'
    BY <2>0, <2>3, <2>4, TickKinds DEF BookedAsShown
  <2>5. ASSUME SameTrade, pos'.status = pos.status, pos'.exit = pos.exit, pos'.gross = pos.gross
        PROVE  BookedAsShown'
    BY <2>5 DEF SameTrade, BookedAsShown, Mtm
  <2> QED
    BY <2>0, <2>1, <2>2, <2>3, <2>4, <2>5, StepKinds
<1> QED
  BY RulesInvHolds, <1>1, <1>2, PTL DEF RulesSpec

\* A whole number of shares for a capital that buys at least one.
LEMMA SharesSpendHalf ==
    ASSUME NEW price \in Nat \ {0}, price <= Capital
    PROVE  /\ Shares(price) \in Nat
           /\ Shares(price) * price <= Capital
           /\ 2 * Shares(price) * price > Capital
<1> DEFINE q == Capital \div price
           r == Capital % price
<1>1. Capital \in Nat
  BY RulesAssumption
<1>2. q \in Nat /\ r \in 0 .. price - 1 /\ Capital = price * q + r
  BY <1>1
<1> HIDE DEF q, r
<1>3. q >= 1
  <2>1. q = 0 => price * q = 0
    OBVIOUS
  <2> QED
    BY <1>1, <1>2, <2>1
<1>4. Shares(price) = q
  BY <1>2, <1>3 DEF Shares, Most, q
<1>5. price * q >= price
  BY <1>2, <1>3
<1>6. price * q \in Nat /\ q * price = price * q /\ 2 * q * price = 2 * (price * q)
  BY <1>2
<1> QED
  BY <1>1, <1>2, <1>4, <1>5, <1>6

\* The capital guard and the quantity of a webhook's trade (receive_webhook).
THEOREM WebhookSpendsItsCapital == RulesSpec => []BudgetRespected
<1>1. RulesInit => BudgetRespected
  BY DEF RulesInit, BudgetRespected
<1>2. RulesInv /\ BudgetRespected /\ [RulesNext]_pos => BudgetRespected'
  <2> SUFFICES ASSUME RulesInv, BudgetRespected, [RulesNext]_pos PROVE BudgetRespected'
    OBVIOUS
  <2>0. RulesTypeOK /\ pos \in PosType
    BY DEF RulesInv, RulesTypeOK
  <2>1. ASSUME NEW side \in Side, NEW price \in Price, Enter(side, price)
        PROVE  BudgetRespected'
    <3>1. CASE pos' = [pos EXCEPT !.status = "skipped"]
      <4>1. pos'.origin = pos.origin /\ pos'.qty = pos.qty /\ pos'.entry = pos.entry
        BY <2>0, <3>1 DEF PosType
      <4> QED
        BY <4>1 DEF BudgetRespected
    <3>2. CASE pos' # [pos EXCEPT !.status = "skipped"]
      <4>1. /\ ~(price > Capital)
            /\ \E stop, target : Opened(side, "webhook", price, Shares(price), stop, target)
        BY <2>1, <3>2 DEF Enter
      <4>2. price \in Nat \ {0} /\ price <= Capital
        BY <4>1, RulesAssumption
      <4>3. pos'.qty = Shares(price) /\ pos'.entry = price
        BY <2>0, <4>1, OpenedHolds
      <4> QED
        BY <4>2, <4>3, SharesSpendHalf DEF BudgetRespected
    <3> QED
      BY <3>1, <3>2
  <2>2. ASSUME NEW side, NEW price, NEW stop, NEW target, NEW qty,
               EnterManually(side, price, qty, stop, target)
        PROVE  BudgetRespected'
    BY <2>0, <2>2, OpenedHolds DEF EnterManually, BudgetRespected
  <2>3. SameTrade => BudgetRespected'
    BY DEF SameTrade, BudgetRespected
  <2>4. ASSUME NEW price \in Nat, SchedulerTick(price)
        PROVE  SameTrade
    BY <2>0, <2>4, TickKinds DEF ClosedAt
  <2>5. ASSUME NEW price, NEW status, NEW by, ClosedAt(price, status, by)
        PROVE  SameTrade
    BY <2>5 DEF ClosedAt
  <2> QED
    BY <2>0, <2>1, <2>2, <2>3, <2>4, <2>5, StepKinds
<1> QED
  BY RulesInvHolds, <1>1, <1>2, PTL DEF RulesSpec

-----------------------------------------------------------------------------
\* The levels a webhook stored are those of its entry price, by direction.
LevelsStored ==
    pos.origin = "webhook" /\ ~pos.edited =>
        IF pos.side = "SELL" THEN pos.stop \in Above(pos.entry) /\ pos.target \in Below(pos.entry)
                             ELSE pos.stop \in Below(pos.entry) /\ pos.target \in Above(pos.entry)

\* Two roundings of one level are at most a paisa apart.
LEMMA LevelsAgree ==
    ASSUME NEW price \in Nat
    PROVE  /\ \A p, q \in Below(price) : p - q <= 1
           /\ \A p, q \in Above(price) : p - q <= 1
<1>1. ASSUME NEW x \in Nat, NEW p \in Rounded(x, 100), NEW q \in Rounded(x, 100)
      PROVE  p - q <= 1
  <2>1. x \div 100 \in Nat
    OBVIOUS
  <2> QED
    BY <1>1, <2>1 DEF Rounded
<1>2. 99 * price \in Nat /\ 101 * price \in Nat
  OBVIOUS
<1> QED
  BY <1>1, <1>2 DEF Below, Above

\* A price strictly between the levels is past neither of the stored ones.
LevelsInv == LevelsStored /\ ShownLevelsHold

LEMMA TickShows ==
    ASSUME RulesInv, LevelsInv, NEW price \in Nat, SchedulerTick(price)
    PROVE  LevelsInv'
<1>0. RulesTypeOK /\ pos \in PosType /\ pos.entry \in Nat
  BY DEF RulesInv, RulesTypeOK, PosType
<1>1. PICK lower \in Below(pos.entry), upper \in Above(pos.entry) :
              \/ /\ IF pos.side = "SELL" THEN price >= upper ELSE price <= lower
                 /\ ClosedAt(price, "sl-hit", "scheduler")
              \/ /\ IF pos.side = "SELL" THEN price <= lower ELSE price >= upper
                 /\ ClosedAt(price, "target-hit", "scheduler")
              \/ /\ lower < price /\ price < upper
                 /\ SameTrade /\ SameLevels /\ pos'.seen = price /\ pos'.status = "entered"
                 /\ pos'.by = pos.by
  BY <1>0, TickKinds
<1>2. SameTrade /\ SameLevels
  BY <1>1 DEF ClosedAt
<1>3. LevelsStored'
  BY <1>2 DEF LevelsStored, LevelsInv, SameTrade, SameLevels
<1>4. ASSUME pos.origin = "webhook", ~pos.edited
      PROVE  /\ pos'.status = "entered" /\ pos'.seen > 0 =>
                   PastStop(pos.seen)' <= 0 /\ PastTarget(pos.seen)' <= 0
             /\ pos'.by = "scheduler" /\ pos'.status = "sl-hit" => PastStop(pos.exit)' >= -1
             /\ pos'.by = "scheduler" /\ pos'.status = "target-hit" => PastTarget(pos.exit)' >= -1
  <2>1. /\ lower \in Nat /\ upper \in Nat /\ pos.stop \in Nat /\ pos.target \in Nat
    BY <1>0, LevelsNear DEF PosType
  <2>2. IF pos.side = "SELL"
        THEN /\ pos.stop - upper <= 1 /\ upper - pos.stop <= 1
             /\ pos.target - lower <= 1 /\ lower - pos.target <= 1
        ELSE /\ pos.stop - lower <= 1 /\ lower - pos.stop <= 1
             /\ pos.target - upper <= 1 /\ upper - pos.target <= 1
    BY <1>0, <1>4, LevelsAgree DEF LevelsInv, LevelsStored
  <2>3. /\ PastStop(price)' = PastStop(price) /\ PastTarget(price)' = PastTarget(price)
    BY <1>2 DEF PastStop, PastTarget, SameTrade, SameLevels
  <2>4. CASE ClosedAt(price, "sl-hit", "scheduler")
             /\ IF pos.side = "SELL" THEN price >= upper ELSE price <= lower
    <3>1. pos'.exit = price /\ pos'.status = "sl-hit"
      BY <2>4 DEF ClosedAt
    <3>2. PastStop(price) >= -1
      BY <2>1, <2>2, <2>4 DEF PastStop
    <3>3. PastStop(pos.exit)' = PastStop(price)'
      BY <3>1 DEF PastStop
    <3> QED
      BY <2>3, <3>1, <3>2, <3>3
  <2>5. CASE ClosedAt(price, "target-hit", "scheduler")
             /\ IF pos.side = "SELL" THEN price <= lower ELSE price >= upper
    <3>1. pos'.exit = price /\ pos'.status = "target-hit"
      BY <2>5 DEF ClosedAt
    <3>2. PastTarget(price) >= -1
      BY <2>1, <2>2, <2>5 DEF PastTarget
    <3>3. PastTarget(pos.exit)' = PastTarget(price)'
      BY <3>1 DEF PastTarget
    <3> QED
      BY <2>3, <3>1, <3>2, <3>3
  <2>6. CASE lower < price /\ price < upper /\ pos'.seen = price /\ pos'.status = "entered"
    <3>1. PastStop(price) <= 0 /\ PastTarget(price) <= 0
      BY <2>1, <2>2, <2>6 DEF PastStop, PastTarget
    <3>2. /\ PastStop(pos.seen)' = PastStop(price)' /\ PastTarget(pos.seen)' = PastTarget(price)'
      BY <2>6 DEF PastStop, PastTarget
    <3> QED
      BY <2>3, <2>6, <3>1, <3>2
  <2> QED
    BY <1>1, <2>4, <2>5, <2>6
<1>5. ShownLevelsHold'
  BY <1>2, <1>4 DEF ShownLevelsHold, SameTrade, SameLevels
<1> QED
  BY <1>3, <1>5 DEF LevelsInv

\* The levels a webhook stores and shows are those its monitor works out anew, to a
\* paisa of rounding (receive_webhook, monitor_open_trades).
THEOREM StoredLevelsAreActedOn == RulesSpec => []ShownLevelsHold
<1>1. RulesInit => LevelsInv
  BY DEF RulesInit, LevelsInv, LevelsStored, ShownLevelsHold
<1>2. RulesInv /\ LevelsInv /\ [RulesNext]_pos => LevelsInv'
  <2> SUFFICES ASSUME RulesInv, LevelsInv, [RulesNext]_pos PROVE LevelsInv'
    OBVIOUS
  <2>0. RulesTypeOK /\ pos \in PosType
    BY DEF RulesInv, RulesTypeOK
  <2>1. ASSUME NEW side \in Side, NEW price \in Price, Enter(side, price)
        PROVE  LevelsInv'
    <3>1. CASE pos' = [pos EXCEPT !.status = "skipped"]
      <4>1. SameTrade /\ SameLevels /\ pos'.status = "skipped"
        BY <2>0, <3>1 DEF PosType, SameTrade, SameLevels
      <4> QED
        BY <4>1 DEF LevelsInv, LevelsStored, ShownLevelsHold, SameTrade, SameLevels
    <3>2. CASE pos' # [pos EXCEPT !.status = "skipped"]
      <4>1. PICK lower \in Below(price), upper \in Above(price) :
               IF side = "SELL"
               THEN Opened(side, "webhook", price, Shares(price), upper, lower)
               ELSE Opened(side, "webhook", price, Shares(price), lower, upper)
        BY <2>1, <3>2 DEF Enter
      <4>2. /\ pos'.status = "entered" /\ pos'.entry = price /\ pos'.side = side
            /\ pos'.seen = pos.seen
            /\ IF side = "SELL" THEN pos'.stop = upper /\ pos'.target = lower
                                ELSE pos'.stop = lower /\ pos'.target = upper
        BY <2>0, <4>1, OpenedHolds
      <4>3. pos.seen = 0
        BY <2>1 DEF Enter, RulesInv
      <4> QED
        BY <4>2, <4>3 DEF LevelsInv, LevelsStored, ShownLevelsHold
    <3> QED
      BY <3>1, <3>2
  <2>2. ASSUME NEW side, NEW price, NEW stop, NEW target, NEW qty,
               EnterManually(side, price, qty, stop, target)
        PROVE  LevelsInv'
    <3>1. pos'.origin = "client"
      BY <2>0, <2>2, OpenedHolds DEF EnterManually
    <3> QED
      BY <3>1 DEF LevelsInv, LevelsStored, ShownLevelsHold
  <2>3. ASSUME NEW price \in Nat, NEW status, NEW by \in Closer \ {"scheduler"},
               ClosedAt(price, status, by), status # "entered"
        PROVE  LevelsInv'
    BY <2>3 DEF ClosedAt, SameTrade, SameLevels, LevelsInv, LevelsStored, ShownLevelsHold
  <2>4. ASSUME pos'.edited = TRUE PROVE LevelsInv'
    BY <2>4 DEF LevelsInv, LevelsStored, ShownLevelsHold
  <2>5. ASSUME SameTrade, SameLevels, pos'.status = pos.status, pos'.seen = pos.seen,
               pos'.exit = pos.exit, pos'.by = pos.by
        PROVE  LevelsInv'
    BY <2>5 DEF SameTrade, SameLevels, LevelsInv, LevelsStored, ShownLevelsHold, PastStop, PastTarget
  <2> QED
    BY <2>0, <2>1, <2>2, <2>3, <2>4, <2>5, TickShows, StepKinds
<1>3. LevelsInv => ShownLevelsHold
  BY DEF LevelsInv
<1> QED
  BY RulesInvHolds, <1>1, <1>2, <1>3, PTL DEF RulesSpec

-----------------------------------------------------------------------------
\* The charges of a trade that moved by 1% are less than what it earned.
LEMMA ChargesSmall ==
    ASSUME NEW buy \in Nat, NEW sell \in Nat, NEW gain \in Nat \ {0},
           sell <= buy + gain, buy <= 150 * gain
    PROVE  \A c \in Charges(buy, sell) : c < gain
<1>1. \A x \in Nat : /\ 1000 * Thousandths(x, 11800) <= 11800 * x
                     /\ Thousandths(x, 11800) \in Nat
  BY DEF Thousandths
<1>2. \A x \in Nat : /\ 1000 * Thousandths(x, 4189) <= 4189 * x
                     /\ Thousandths(x, 4189) \in Nat
  BY DEF Thousandths
<1>3. \A x \in Nat : /\ 1000 * Thousandths(x, 25000) <= 25000 * x
                     /\ Thousandths(x, 25000) \in Nat
  BY DEF Thousandths
<1>r. ASSUME NEW x \in Nat
      PROVE  /\ x \div 100000 \in Nat /\ x % 100000 \in Nat
             /\ x = 100000 * (x \div 100000) + (x % 100000)
  OBVIOUS
<1>4. ASSUME NEW x \in Nat, NEW c \in Rounded(x, 100000)
      PROVE  c \in Int /\ 100000 * c <= x + 50000
  <2> DEFINE q == x \div 100000
             r == x % 100000
  <2>1. q \in Nat /\ r \in Nat /\ x = 100000 * q + r
    BY <1>r
  <2>2. c = q \/ (c = q + 1 /\ 2 * r >= 100000)
    BY DEF Rounded
  <2> HIDE DEF q, r
  <2> QED
    BY <2>1, <2>2
<1> DEFINE legs == Least(3 * buy, 20000000) + Least(3 * sell, 20000000)
           sum == Thousandths(legs, 11800) + Thousandths(buy + sell, 4189)
                     + Thousandths(sell, 25000)
<1>5. legs \in Nat /\ legs <= 3 * (buy + sell)
  BY DEF Least
<1>6. sum \in Nat /\ 1000 * sum <= 11800 * legs + 4189 * (buy + sell) + 25000 * sell
  <2> HIDE DEF legs
  <2> DEFINE t == Thousandths(legs, 11800)
             u == Thousandths(buy + sell, 4189)
             v == Thousandths(sell, 25000)
  <2>1. t \in Nat /\ 1000 * t <= 11800 * legs
    BY <1>1, <1>5
  <2>2. u \in Nat /\ 1000 * u <= 4189 * (buy + sell)
    <3>1. buy + sell \in Nat
      OBVIOUS
    <3> QED
      BY <1>2, <3>1
  <2>3. v \in Nat /\ 1000 * v <= 25000 * sell
    BY <1>3
  <2> HIDE DEF t, u, v
  <2>4. t + u + v \in Nat /\ 1000 * (t + u + v) <= 11800 * legs + 4189 * (buy + sell) + 25000 * sell
    BY <1>5, <2>1, <2>2, <2>3
  <2> QED
    BY <2>4 DEF t, u, v
<1>7. 1000 * (sum + 50003) < 100000000 * gain
  <2> HIDE DEF legs, sum
  <2> QED
    BY <1>5, <1>6
<1>8. \A c \in Charges(buy, sell) : c \in Int /\ 100000 * c <= sum + 50003
  <2>1. sum + 3 \in Nat
    BY <1>6
  <2> HIDE DEF sum
  <2>2. \A c \in Rounded(sum, 100000) \cup Rounded(sum + 3, 100000) :
           c \in Int /\ 100000 * c <= sum + 50003
    BY <1>4, <1>6, <2>1
  <2> QED
    BY <2>2 DEF Charges, sum
<1> HIDE DEF sum
<1> QED
  BY <1>6, <1>7, <1>8

\* Products of a quantity.
LEMMA Products ==
    ASSUME NEW x \in Int, NEW y \in Int, NEW q \in Nat
    PROVE  /\ x <= y => x * q <= y * q
           /\ (x - y) * q = x * q - y * q
           /\ (150 * x) * q = 150 * (x * q)
           /\ q >= 1 /\ x >= 1 => x * q >= 1
           /\ q >= 1 /\ x <= -1 => x * q <= -1
OBVIOUS

\* A verdict of the scheduler's monitor on a trade with a spread has its sign.
LEMMA TickSigns ==
    ASSUME RulesTypeOK, pos.qty >= 1, NEW price \in Nat, SchedulerTick(price)
    PROVE  VerdictHasItsSign' \/ pos'.status = "entered"
<1>0. /\ pos \in PosType /\ pos.entry \in Nat /\ pos.qty \in Nat \ {0}
      /\ pos.status = "entered"
  BY DEF RulesTypeOK, PosType, SchedulerTick
<1> DEFINE e == pos.entry
           q == pos.qty
           move == IF pos.side = "SELL" THEN e - price ELSE price - e
           gain == move * q
<1>1. PICK lower \in Below(e), upper \in Above(e) :
         \/ /\ IF pos.side = "SELL" THEN price >= upper ELSE price <= lower
            /\ CloseAt(price, "sl-hit", "scheduler")
         \/ /\ IF pos.side = "SELL" THEN price <= lower ELSE price >= upper
            /\ CloseAt(price, "target-hit", "scheduler")
         \/ Keep(price)
  BY DEF SchedulerTick
<1>2. /\ lower \in Nat /\ 100 * lower <= 99 * e + 50
      /\ upper \in Nat /\ 100 * upper >= 101 * e - 50
  BY <1>0, LevelsNear
<1>3. ASSUME NEW s, CloseAt(price, s, "scheduler")
      PROVE  /\ pos'.entry = e /\ pos'.status = s /\ pos'.gross = gain
             /\ \E c \in Charges(e * q, price * q) : pos'.net = gain - c
  <2>1. PICK c \in Charges(e * q, price * q) :
           pos' = [pos EXCEPT !.status = s, !.by = "scheduler", !.exit = price,
                              !.gross = gain, !.net = gain - c]
    BY <1>3 DEF CloseAt
  <2> HIDE DEF gain, move
  <2> QED
    BY <1>0, <2>1 DEF PosType
<1>4. move \in Int /\ gain \in Int
  <2>1. move \in Int
    BY <1>0
  <2> HIDE DEF move
  <2> QED
    BY <1>0, <2>1
<1>5. CASE Keep(price)
  BY <1>0, <1>5 DEF Keep, PosType
<1>6. CASE CloseAt(price, "sl-hit", "scheduler")
           /\ IF pos.side = "SELL" THEN price >= upper ELSE price <= lower
  <2>1. e > 50 => move <= -1
    BY <1>0, <1>2, <1>6
  <2>2. e > 50 => gain <= -1
    <3> HIDE DEF move
    <3> QED
      BY <1>0, <1>4, <2>1, Products
  <2> QED
    BY <1>3, <1>4, <1>6, <2>2 DEF VerdictHasItsSign, Spread
<1>7. CASE CloseAt(price, "target-hit", "scheduler")
           /\ IF pos.side = "SELL" THEN price <= lower ELSE price >= upper
  <2>1. ASSUME e > 50
        PROVE  move >= 1 /\ e <= 150 * move /\ price - e <= move
    BY <1>0, <1>2, <1>7, <2>1
  <2>2. ASSUME e > 50
        PROVE  /\ gain \in Nat \ {0} /\ e * q \in Nat /\ price * q \in Nat
               /\ e * q <= 150 * gain /\ price * q <= e * q + gain
    <3> HIDE DEF move
    <3>1. gain >= 1 /\ (150 * move) * q = 150 * gain
      BY <1>0, <1>4, <2>1, <2>2, Products
    <3>2. e * q <= (150 * move) * q
      <4>1. 150 * move \in Int /\ e <= 150 * move
        BY <1>4, <2>1, <2>2
      <4> QED
        BY <1>0, <4>1, Products
    <3>3. price * q - e * q <= gain
      <4>1. price - e \in Int /\ price - e <= move
        BY <1>0, <2>1, <2>2
      <4>2. (price - e) * q <= gain
        BY <1>0, <1>4, <4>1, Products
      <4>3. (price - e) * q = price * q - e * q
        BY <1>0, Products
      <4> QED
        BY <4>2, <4>3
    <3>4. e * q \in Nat /\ price * q \in Nat
      BY <1>0
    <3> HIDE DEF gain
    <3> QED
      BY <1>4, <3>1, <3>2, <3>3, <3>4
  <2>3. ASSUME e > 50
        PROVE  pos'.net > 0
    <3> HIDE DEF gain
    <3>1. PICK c \in Charges(e * q, price * q) : pos'.net = gain - c
      BY <1>3, <1>7
    <3>2. c < gain
      BY <2>2, <2>3, ChargesSmall
    <3>3. c \in Int
      BY <2>2, <2>3, ChargesWhole
    <3> QED
      BY <1>4, <3>1, <3>2, <3>3
  <2> QED
    BY <1>3, <1>7, <2>3 DEF VerdictHasItsSign, Spread
<1> QED
  BY <1>1, <1>5, <1>6, <1>7

\* Every trade has a share, and a monitor's verdict ends it.
SignInv ==
    /\ pos.status = "none" => pos.by # "scheduler"
    /\ pos.status = "entered" => pos.qty >= 1 /\ pos.by # "scheduler"
    /\ VerdictHasItsSign

\* Direction, levels, rounding, quantity and charges together (monitor_open_trades,
\* close_trade, calc_charges): a target-hit earns more than its charges, a stop-loss
\* hit loses.
THEOREM VerdictsPay == RulesSpec => []VerdictHasItsSign
<1>1. RulesInit => SignInv
  BY DEF RulesInit, SignInv, VerdictHasItsSign
<1>2. RulesInv /\ SignInv /\ [RulesNext]_pos => SignInv'
  <2> SUFFICES ASSUME RulesInv, SignInv, [RulesNext]_pos PROVE SignInv'
    OBVIOUS
  <2>0. RulesTypeOK /\ pos \in PosType
    BY DEF RulesInv, RulesTypeOK
  <2>a. ASSUME NEW side, NEW origin, NEW price, NEW qty, NEW stop, NEW target,
               pos.status = "none", Opened(side, origin, price, qty, stop, target)
        PROVE  pos'.by # "scheduler" /\ pos'.qty = qty /\ pos'.status = "entered"
    BY <2>0, <2>a DEF Opened, PosType, SignInv
  <2>1. ASSUME NEW side \in Side, NEW price \in Price, Enter(side, price)
        PROVE  SignInv'
    <3>1. CASE pos' = [pos EXCEPT !.status = "skipped"]
      <4>1. pos'.status = "skipped" /\ pos'.by = pos.by /\ pos.by # "scheduler"
        BY <2>0, <2>1, <3>1 DEF PosType, Enter, SignInv
      <4> QED
        BY <4>1 DEF SignInv, VerdictHasItsSign
    <3>2. CASE pos' # [pos EXCEPT !.status = "skipped"]
      <4>1. /\ pos.status = "none"
            /\ \E stop, target : Opened(side, "webhook", price, Shares(price), stop, target)
        BY <2>1, <3>2 DEF Enter
      <4>2. Shares(price) >= 1
        <5>1. price \in Nat \ {0} /\ Capital \in Nat
          BY RulesAssumption
        <5>2. Capital \div price \in Nat
          BY <5>1
        <5> QED
          BY <5>2 DEF Shares, Most
      <4> QED
        BY <2>a, <4>1, <4>2 DEF SignInv, VerdictHasItsSign
    <3> QED
      BY <3>1, <3>2
  <2>2. ASSUME NEW side, NEW price, NEW stop, NEW target, NEW qty \in Quantity,
               EnterManually(side, price, qty, stop, target)
        PROVE  SignInv'
    <3>1. qty >= 1
      BY RulesAssumption
    <3> QED
      BY <2>2, <2>a, <3>1 DEF EnterManually, SignInv, VerdictHasItsSign
  <2>3. ASSUME NEW price \in Nat, NEW status \in Status \ {"entered"},
               NEW by \in Closer \ {"scheduler"}, ClosedAt(price, status, by)
        PROVE  SignInv'
    BY <2>3 DEF ClosedAt, SignInv, VerdictHasItsSign
  <2>4. ASSUME NEW price \in Nat, SchedulerTick(price)
        PROVE  SignInv'
    <3>1. pos.status = "entered" /\ pos.qty >= 1
      BY <2>4 DEF SchedulerTick, SignInv
    <3>2. /\ pos'.status # "none"
          /\ pos'.status = "entered" => pos'.qty = pos.qty /\ pos'.by = pos.by
      BY <2>0, <2>4, TickKinds DEF ClosedAt, SameTrade
    <3>3. VerdictHasItsSign' \/ pos'.status = "entered"
      BY <2>0, <2>4, <3>1, TickSigns
    <3> QED
      BY <3>1, <3>2, <3>3 DEF SignInv, VerdictHasItsSign
  <2>5. ASSUME SameTrade, pos'.status = pos.status, pos'.by = pos.by,
               pos'.gross = pos.gross, pos'.net = pos.net
        PROVE  SignInv'
    BY <2>5 DEF SameTrade, SignInv, VerdictHasItsSign, Spread
  <2> QED
    BY <2>0, <2>1, <2>2, <2>3, <2>4, <2>5, StepKinds
<1>3. SignInv => VerdictHasItsSign
  BY DEF SignInv
<1> QED
  BY RulesInvHolds, <1>1, <1>2, <1>3, PTL DEF RulesSpec

-----------------------------------------------------------------------------
\* One trade of the ledger.

\* What the ledger says of the trade: a webhook that is skipped has opened none.
StageOf ==
    CASE pos.status \in {"none", "skipped"} -> "unborn"
      [] pos.status = "entered" -> "open"
      [] OTHER -> "closed"

Book == INSTANCE TradeBook WITH Trade <- {"trade"}, position <- [t \in {"trade"} |-> StageOf]

\* A step leaves the stage alone, or opens or closes the trade.
LEMMA StageSteps ==
    ASSUME \/ StageOf' = StageOf
           \/ StageOf = "unborn" /\ StageOf' = "open"
           \/ StageOf = "open" /\ StageOf' = "closed"
    PROVE  [Book!BookNext]_([t \in {"trade"} |-> StageOf])
<1> DEFINE book == [t \in {"trade"} |-> StageOf]
<1>1. CASE StageOf' = StageOf
  <2>1. book' = book
    BY <1>1
  <2> QED
    BY <2>1
<1>2. ASSUME StageOf' # StageOf
      PROVE  Book!Open("trade") \/ Book!Close("trade")
  <2>1. book["trade"] = StageOf /\ \A v : [book EXCEPT !["trade"] = v] = [t \in {"trade"} |-> v]
    OBVIOUS
  <2>2. book' = [t \in {"trade"} |-> StageOf']
    OBVIOUS
  <2> QED
    BY <1>2, <2>1, <2>2 DEF Book!Open, Book!Close
<1> QED
  BY <1>1, <1>2 DEF Book!BookNext

\* The rules move a trade as the ledger promises: opened once, closed after that, never
\* opened again (receive_webhook, open_trade, close_trade and its callers).  A single
\* trade is even closed only once: two closers at the same time are in TradeDash.
THEOREM RulesKeepTheBook == RulesSpec => Book!BookSpec
<1>1. RulesInit => Book!BookInit
  BY DEF RulesInit, Book!BookInit, StageOf
<1>2. RulesInv /\ [RulesNext]_pos => [Book!BookNext]_([t \in {"trade"} |-> StageOf])
  <2> SUFFICES ASSUME RulesInv, [RulesNext]_pos
               PROVE  [Book!BookNext]_([t \in {"trade"} |-> StageOf])
    OBVIOUS
  <2>0. RulesTypeOK /\ pos \in PosType
    BY DEF RulesInv, RulesTypeOK
  <2>1. ASSUME pos'.status = pos.status PROVE StageOf' = StageOf
    BY <2>1 DEF StageOf
  <2>2. ASSUME NEW price, NEW status \in Status \ {"none", "skipped", "entered"}, NEW by,
               pos.status = "entered", CloseAt(price, status, by)
        PROVE  StageOf = "open" /\ StageOf' = "closed"
    <3>1. pos'.status = status
      BY <2>0, <2>2 DEF CloseAt, PosType
    <3> QED
      BY <2>2, <3>1 DEF StageOf
  <2>3. ASSUME NEW side, NEW origin, NEW price, NEW qty, NEW stop, NEW target,
               pos.status = "none", Opened(side, origin, price, qty, stop, target)
        PROVE  StageOf = "unborn" /\ StageOf' = "open"
    <3>1. pos'.status = "entered"
      BY <2>0, <2>3 DEF Opened, PosType
    <3> QED
      BY <2>3, <3>1 DEF StageOf
  <2>4. ASSUME NEW side, NEW price, Enter(side, price)
        PROVE  StageOf' = StageOf \/ (StageOf = "unborn" /\ StageOf' = "open")
    <3>1. CASE pos' = [pos EXCEPT !.status = "skipped"]
      <4>1. pos'.status = "skipped" /\ pos.status = "none"
        BY <2>0, <2>4, <3>1 DEF Enter, PosType
      <4> QED
        BY <4>1 DEF StageOf
    <3> QED
      BY <2>3, <2>4, <3>1 DEF Enter
  <2>5. ASSUME NEW price, SchedulerTick(price) \/ TrailingTick(price)
        PROVE  StageOf' = StageOf \/ (StageOf = "open" /\ StageOf' = "closed")
    <3>1. \/ Keep(price) \/ \E level : pos' = [pos EXCEPT !.level = level]
          \/ /\ pos.status = "entered"
             /\ \E s \in {"sl-hit", "target-hit", "trailing-sl-hit"}, by \in Closer :
                   CloseAt(price, s, by)
      BY <2>5 DEF SchedulerTick, TrailingTick, Closer
    <3>2. ASSUME Keep(price) \/ \E level : pos' = [pos EXCEPT !.level = level]
          PROVE  pos'.status = pos.status
      BY <2>0, <3>2 DEF Keep, PosType
    <3> QED
      BY <2>1, <2>2, <3>1, <3>2 DEF Status
  <2>6. ASSUME NEW price, ForceExit(price)
        PROVE  StageOf = "open" /\ StageOf' = "closed"
    BY <2>2, <2>6 DEF ForceExit, Status
  <2>7. ASSUME NEW price, NEW s \in {"sl-hit", "target-hit", "trailing-sl-hit", "exited"},
               ManualExit(price, s)
        PROVE  StageOf = "open" /\ StageOf' = "closed"
    BY <2>2, <2>7 DEF ManualExit, Status
  <2>8. ASSUME NEW stop, NEW target, UpdateTrade(stop, target)
        PROVE  StageOf' = StageOf
    BY <2>0, <2>1, <2>8 DEF UpdateTrade, PosType
  <2>9. ASSUME NEW side, NEW price, NEW qty, NEW stop, NEW target,
               EnterManually(side, price, qty, stop, target)
        PROVE  StageOf = "unborn" /\ StageOf' = "open"
    BY <2>3, <2>9 DEF EnterManually
  <2>10. \/ StageOf' = StageOf
         \/ StageOf = "unborn" /\ StageOf' = "open"
         \/ StageOf = "open" /\ StageOf' = "closed"
    BY <2>1, <2>4, <2>5, <2>6, <2>7, <2>8, <2>9 DEF RulesNext
  <2> QED
    BY <2>10, StageSteps
<1> QED
  BY RulesInvHolds, <1>1, <1>2, PTL DEF RulesSpec, Book!BookSpec
=============================================================================
