------------------------------ MODULE ExitRules ------------------------------
(***************************************************************************)
(* The money of one trade: what the webhook buys and at which levels, what *)
(* the monitors make of a price, and what close_trade books.               *)
(*                                                                         *)
(* Amounts are whole paise.  Python rounds binary floats, so that a level  *)
(* half-way between two paise may go to either; Rounded gives both.        *)
(***************************************************************************)
EXTENDS Integers

CONSTANTS
    Price,      \* the prices that may be quoted or typed in
    Typed,      \* the stop and target levels a client may type in
    MaxMove,    \* bound: a quote is at most so many times the entry price
    Quantity,   \* the quantities a client may ask for in POST /trades
    Capital,    \* CAPITAL_PER_TRADE
    Monitors    \* which monitors run: "scheduler", "trailing"

ASSUME RulesAssumption ==
    /\ Price \subseteq Nat \ {0}
    /\ Typed \subseteq Nat \ {0}
    /\ MaxMove \in Nat
    /\ Quantity \subseteq Nat \ {0}
    /\ Capital \in Nat
    /\ Monitors \subseteq {"scheduler", "trailing"}

VARIABLE pos

Side == {"BUY", "SELL"}
Status == {"none", "skipped", "entered", "sl-hit", "target-hit", "trailing-sl-hit", "exited"}
Origin == {"nobody", "webhook", "client"}
Closer == {"nobody", "scheduler", "trailing", "force", "client"}

\* `seen` is the last price at which the scheduler's monitor held the trade and
\* `level` the trailing stop the trailing monitor last reported (0: none yet);
\* `edited` says that a client changed the levels.
PosType ==
    [status : Status, side : Side, origin : Origin, entry : Nat, qty : Nat,
     stop : Nat, target : Nat, edited : BOOLEAN, seen : Nat, level : Nat,
     by : Closer, exit : Nat, gross : Int, net : Int]

RulesTypeOK == pos \in PosType

-----------------------------------------------------------------------------
\* Arithmetic.

\* The whole numbers nearest to x / y.
Rounded(x, y) ==
    LET q == x \div y
        r == 2 * (x % y)
    IN  (IF r <= y THEN {q} ELSE {}) \cup (IF r >= y THEN {q + 1} ELSE {})

\* round(price * 0.99, 2) and round(price * 1.01, 2).
Below(price) == Rounded(99 * price, 100)
Above(price) == Rounded(101 * price, 100)

Least(x, y) == IF x < y THEN x ELSE y
Most(x, y) == IF x > y THEN x ELSE y

\* x * rate / 1000, the fraction cut off; stays within 32 bits.
Thousandths(x, rate) ==
    (x \div 1000) * rate + ((x % 1000) * rate) \div 1000

\* calc_charges, in 1e-5 paise before rounding: brokerage of 0.03% or Rs.20 a leg,
\* exchange and SEBI fees on both legs, 18% GST on those, STT on the exit leg.  The
\* cut-off fractions make up less than 3 of those units.
Charges(buy, sell) ==
    LET legs == Least(3 * buy, 20000000) + Least(3 * sell, 20000000)
        sum == Thousandths(legs, 11800) + Thousandths(buy + sell, 4189)
                  + Thousandths(sell, 25000)
    IN  Rounded(sum, 100000) \cup Rounded(sum + 3, 100000)

-----------------------------------------------------------------------------
\* Entering.

Shares(price) == Most(1, Capital \div price)

\* A trade is opened with these values; nothing has been seen of it yet.
Opened(side, origin, price, qty, stop, target) ==
    pos' = [pos EXCEPT !.status = "entered", !.side = side, !.origin = origin,
                       !.entry = price, !.qty = qty, !.stop = stop, !.target = target]

Enter_AtLeastTwo(side, price) ==
    /\ pos.status = "none"
    /\ \E stop \in Below(price), target \in Above(price) :
          Opened(side, "webhook", price, Most(2, Capital \div price), stop, target)

Enter_OneSided(side, price) ==
    /\ pos.status = "none"
    /\ price <= Capital
    /\ \E stop \in Below(price), target \in Above(price) :
          Opened(side, "webhook", price, Shares(price), stop, target)

\* receive_webhook: the capital guard, the min-profit guard (Rs.20 at the target),
\* levels by direction, quantity.
Enter(side, price) ==
    /\ pos.status = "none"
    /\ \E gross \in Rounded(Shares(price) * price, 100) :
          IF price > Capital \/ gross < 2000
          THEN pos' = [pos EXCEPT !.status = "skipped"]
          ELSE \E lower \in Below(price), upper \in Above(price) :
                  IF side = "SELL"
                  THEN Opened(side, "webhook", price, Shares(price), upper, lower)
                  ELSE Opened(side, "webhook", price, Shares(price), lower, upper)

\* POST /trades takes what the client sends.
EnterManually(side, price, qty, stop, target) ==
    /\ pos.status = "none"
    /\ Opened(side, "client", price, qty, stop, target)

\* PUT /trades/{id}/update, in any status.
UpdateTrade(stop, target) ==
    /\ pos.status \notin {"none", "skipped"}
    /\ pos' = [pos EXCEPT !.stop = stop, !.target = target, !.edited = TRUE]

-----------------------------------------------------------------------------
\* Leaving.

CloseAt_ForgetsSide(price, status, by) ==
    LET gross == (price - pos.entry) * pos.qty
    IN  \E charges \in Charges(pos.entry * pos.qty, price * pos.qty) :
           pos' = [pos EXCEPT !.status = status, !.by = by, !.exit = price,
                              !.gross = gross, !.net = gross - charges]

\* close_trade: gross P&L by direction, minus charges.
CloseAt(price, status, by) ==
    LET move == IF pos.side = "SELL" THEN pos.entry - price ELSE price - pos.entry
        gross == move * pos.qty
    IN  \E charges \in Charges(pos.entry * pos.qty, price * pos.qty) :
           pos' = [pos EXCEPT !.status = status, !.by = by, !.exit = price,
                              !.gross = gross, !.net = gross - charges]

\* The profit that monitor_open_trades broadcasts of a trade it keeps and GET
\* /trades/open shows of an open trade.
Mtm(price) ==
    LET gain == (price - pos.entry) * pos.qty
    IN  IF pos.side = "SELL" THEN -gain ELSE gain

Keep(price) == pos' = [pos EXCEPT !.seen = price]

SchedulerTick_StoredLevels(price) ==
    /\ pos.status = "entered"
    /\ IF pos.side = "SELL"
       THEN \/ price >= pos.stop /\ CloseAt(price, "sl-hit", "scheduler")
            \/ /\ price < pos.stop /\ price <= pos.target
               /\ CloseAt(price, "target-hit", "scheduler")
            \/ price < pos.stop /\ price > pos.target /\ Keep(price)
       ELSE \/ price <= pos.stop /\ CloseAt(price, "sl-hit", "scheduler")
            \/ /\ price > pos.stop /\ price >= pos.target
               /\ CloseAt(price, "target-hit", "scheduler")
            \/ price > pos.stop /\ price < pos.target /\ Keep(price)

\* monitor_open_trades on a price: the levels are worked out anew from the entry
\* price, the trade's own stop_loss and target_price are only broadcast.
SchedulerTick(price) ==
    /\ "scheduler" \in Monitors
    /\ pos.status = "entered"
    /\ \E lower \in Below(pos.entry), upper \in Above(pos.entry) :
          LET hit == IF pos.side = "SELL" THEN price >= upper ELSE price <= lower
              won == IF pos.side = "SELL" THEN price <= lower ELSE price >= upper
          IN  \/ hit /\ CloseAt(price, "sl-hit", "scheduler")
              \/ ~hit /\ won /\ CloseAt(price, "target-hit", "scheduler")
              \/ ~hit /\ ~won /\ Keep(price)

\* monitor_open_positions_tick (nothing schedules it): the ratchet starts from
\* trade.trailing_sl, which no code stores, so from stop_loss every time; whatever
\* the direction, a high price is a won one.
TrailingTick(price) ==
    /\ "trailing" \in Monitors
    /\ pos.status = "entered"
    /\ \E proposed \in Below(price) :
          LET level == Most(pos.stop, proposed)
              trailed == price <= level /\ level > pos.stop
          IN  \/ price >= pos.target /\ CloseAt(price, "target-hit", "trailing")
              \/ price < pos.target /\ trailed /\ CloseAt(price, "trailing-sl-hit", "trailing")
              \/ /\ price < pos.target /\ ~trailed /\ price <= pos.stop
                 /\ CloseAt(price, "sl-hit", "trailing")
              \/ /\ price < pos.target /\ ~trailed /\ price > pos.stop
                 /\ pos' = [pos EXCEPT !.level = level]

\* force_exit_all and weekly_cleanup: the market price, else the entry price.
ForceExit(price) ==
    /\ pos.status = "entered"
    /\ \/ CloseAt(price, "exited", "force")
       \/ CloseAt(pos.entry, "exited", "force")

\* PUT /trades/{id}/exit: price and reason are the client's.
ManualExit(price, status) ==
    /\ pos.status = "entered"
    /\ CloseAt(price, status, "client")

-----------------------------------------------------------------------------
Quoted == {p \in Price : p <= MaxMove * pos.entry}

RulesInit ==
    pos = [status |-> "none", side |-> "BUY", origin |-> "nobody", entry |-> 0,
           qty |-> 0, stop |-> 0, target |-> 0, edited |-> FALSE, seen |-> 0,
           level |-> 0, by |-> "nobody", exit |-> 0, gross |-> 0, net |-> 0]

RulesNext ==
    \/ \E side \in Side, p \in Price : Enter(side, p)
    \/ \E side \in Side, p \in Price, stop, target \in Typed, q \in Quantity :
          EnterManually(side, p, q, stop, target)
    \/ \E stop, target \in Typed : UpdateTrade(stop, target)
    \/ \E p \in Quoted : SchedulerTick(p) \/ TrailingTick(p) \/ ForceExit(p)
    \/ \E p \in Quoted, s \in {"sl-hit", "target-hit", "trailing-sl-hit", "exited"} :
          ManualExit(p, s)

RulesSpec == RulesInit /\ [][RulesNext]_pos

-----------------------------------------------------------------------------
\* Below 51 paise the levels fall together with the entry price.
Spread == pos.entry > 50

\* A target-hit of the scheduler's monitor earns money, charges included, and an
\* sl-hit loses some: direction, rounding, quantity and charges work together.
VerdictHasItsSign ==
    pos.by = "scheduler" /\ Spread =>
        /\ pos.status = "target-hit" => pos.net > 0
        /\ pos.status = "sl-hit" => pos.gross < 0

\* A webhook's trade spends more than half of the capital and no more than all.
BudgetRespected ==
    pos.origin = "webhook" =>
        pos.qty * pos.entry <= Capital /\ 2 * pos.qty * pos.entry > Capital

\* A trade that the scheduler's monitor has just held is within 1% of its entry
\* price (and half a paisa of rounding), whatever levels clients have stored.
RiskBounded ==
    pos.status = "entered" /\ pos.seen > 0 =>
        LET move == IF pos.seen > pos.entry THEN pos.seen - pos.entry
                                            ELSE pos.entry - pos.seen
        IN  100 * move <= pos.entry + 50

\* How far a price is past the trade's own stop, and past its own target.
PastStop(price) == IF pos.side = "SELL" THEN price - pos.stop ELSE pos.stop - price
PastTarget(price) == IF pos.side = "SELL" THEN pos.target - price ELSE price - pos.target

\* The stop and target that a webhook's trade stores, broadcasts and announces are
\* the ones its monitor acts on, up to a paisa of rounding: none is passed without
\* an exit, and no exit comes before it.
ShownLevelsHold ==
    pos.origin = "webhook" /\ ~pos.edited =>
        /\ pos.status = "entered" /\ pos.seen > 0 =>
              PastStop(pos.seen) <= 0 /\ PastTarget(pos.seen) <= 0
        /\ pos.by = "scheduler" /\ pos.status = "sl-hit" => PastStop(pos.exit) >= -1
        /\ pos.by = "scheduler" /\ pos.status = "target-hit" => PastTarget(pos.exit) >= -1

\* The profit shown of an open trade at a price is the gross profit that an exit at
\* that price books.
BookedAsShown ==
    pos.status \notin {"none", "skipped", "entered"} => pos.gross = Mtm(pos.exit)
=============================================================================
