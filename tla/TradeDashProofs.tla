--------------------------- MODULE TradeDashProofs ---------------------------
(***************************************************************************)
(* What every step of every request and job keeps, for any number of them, *)
(* any payloads, any mode of the backends and any number of restarts.      *)
(*                                                                         *)
(* Each handler's database work is a transaction of TradeStore, so that    *)
(* what TradeStoreProofs shows of the transactions holds of the program;   *)
(* what the closers hold in their loops, and whose outcome is overwritten  *)
(* by whom, needs an invariant of its own.  EntryProofs is about entering. *)
(***************************************************************************)
EXTENDS TradeDash, TradeStoreProofs, FiniteSetTheorems

\* A webhook in the middle of a turn has the turn's symbol at hand.
MidTurn ==
    \A h \in Hook :
        req[h].pc \notin {"idle", "checking", "done"} => req[h].todo # <<>>

TypeInv == TypeOK /\ MidTurn

-----------------------------------------------------------------------------
\* Moves of a request.

\* Whatever a request becomes, if it is well typed and not without a symbol in
\* mid-turn.
LEMMA RecordMoves ==
    ASSUME IntakeTypeOK, MidTurn, NEW r \in Request, NEW rec \in RequestType,
           r \in Hook /\ rec.pc \notin {"idle", "checking", "done"} => rec.todo # <<>>,
           Now(r, rec)
    PROVE  IntakeTypeOK' /\ MidTurn'
BY DEF IntakeTypeOK, MidTurn, Request, Now

\* A request in no turn is well typed.
LEMMA FreshType ==
    ASSUME NEW pc \in RequestPc
    PROVE  Fresh(pc) \in RequestType
<1>1. <<>> \in Seq(Symbol) /\ 0 \in SignalNumber /\ FALSE \in BOOLEAN /\ 0 \in 0 .. SidTries - 1
  BY IntakeAssumption DEF SignalNumber
<1> QED
  BY <1>1 DEF Fresh, RequestType

\* Ending a request leaves a well-typed request that is in no turn.
LEMMA EndMoves ==
    ASSUME IntakeTypeOK, MidTurn, NEW r \in Request, End(r)
    PROVE  IntakeTypeOK' /\ MidTurn'
<1>1. Fresh("done") \in RequestType /\ Fresh("done").pc = "done"
  BY FreshType DEF RequestPc, Fresh
<1> QED
  BY <1>1, RecordMoves DEF End

\* Going on with the next symbol does too.
LEMMA NextTurnMoves ==
    ASSUME IntakeTypeOK, MidTurn, NEW r \in Request, req[r].todo # <<>>,
           NEW broken \in BOOLEAN,
           Now(r, [NextTurn(r) EXCEPT !.broken = broken])
    PROVE  IntakeTypeOK' /\ MidTurn'
<1>1. Tail(req[r].todo) \in Seq(Symbol)
  BY DEF IntakeTypeOK, RequestType
<1>2. Fresh("checking") \in RequestType
  BY FreshType DEF RequestPc
<1>3. NextTurn(r) \in RequestType /\ NextTurn(r).pc = "checking"
  BY <1>1, <1>2 DEF NextTurn, Fresh, RequestType, IntakeTypeOK
<1>4. /\ [NextTurn(r) EXCEPT !.broken = broken] \in RequestType
      /\ [NextTurn(r) EXCEPT !.broken = broken].pc = "checking"
  BY <1>3 DEF RequestType
<1> QED
  BY <1>4, RecordMoves

LEMMA ContinueMoves ==
    ASSUME IntakeTypeOK, MidTurn, NEW r \in Request, req[r].todo # <<>>, Continue(r)
    PROVE  IntakeTypeOK' /\ MidTurn'
<1>1. NextTurn(r) = [NextTurn(r) EXCEPT !.broken = req[r].broken]
  BY DEF NextTurn, Fresh
<1>2. req[r].broken \in BOOLEAN
  BY DEF IntakeTypeOK, RequestType
<1> QED
  BY <1>1, <1>2, NextTurnMoves DEF Continue

\* A move to another point of the same turn.
LEMMA GoToMoves ==
    ASSUME IntakeTypeOK, MidTurn, NEW r \in Request, NEW pc \in RequestPc,
           r \in Hook => req[r].todo # <<>>, GoTo(r, pc)
    PROVE  IntakeTypeOK' /\ MidTurn'
<1>1. /\ [req[r] EXCEPT !.pc = pc] \in RequestType
      /\ [req[r] EXCEPT !.pc = pc].todo = req[r].todo
  BY DEF IntakeTypeOK, RequestType
<1> QED
  BY <1>1, RecordMoves DEF GoTo

\* The same when the move also fetches one of the request's locals.
LEMMA FetchMoves ==
    ASSUME IntakeTypeOK, MidTurn, NEW r \in Request, NEW pc \in RequestPc,
           r \in Hook => req[r].todo # <<>>
    PROVE  /\ \A x \in SignalNumber : Now(r, [req[r] EXCEPT !.pc = pc, !.sid = x])
                                       => IntakeTypeOK' /\ MidTurn'
           /\ \A x \in Signal \cup {None} : Now(r, [req[r] EXCEPT !.pc = pc, !.sig = x])
                                            => IntakeTypeOK' /\ MidTurn'
           /\ \A x \in Nat : Now(r, [req[r] EXCEPT !.pc = pc, !.tid = x])
                              => IntakeTypeOK' /\ MidTurn'
           /\ \A x \in Trade : Now(r, [req[r] EXCEPT !.pc = pc, !.trade = x])
                                => IntakeTypeOK' /\ MidTurn'
           /\ \A x \in BOOLEAN : Now(r, [req[r] EXCEPT !.pc = pc, !.priced = x])
                                  => IntakeTypeOK' /\ MidTurn'
<1>0. req[r] \in RequestType
  BY DEF IntakeTypeOK
<1>1. ASSUME NEW x \in SignalNumber, Now(r, [req[r] EXCEPT !.pc = pc, !.sid = x])
      PROVE  IntakeTypeOK' /\ MidTurn'
  <2>1. /\ [req[r] EXCEPT !.pc = pc, !.sid = x] \in RequestType
        /\ [req[r] EXCEPT !.pc = pc, !.sid = x].todo = req[r].todo
    BY <1>0 DEF RequestType
  <2> QED
    BY <1>1, <2>1, RecordMoves
<1>2. ASSUME NEW x \in Signal \cup {None}, Now(r, [req[r] EXCEPT !.pc = pc, !.sig = x])
      PROVE  IntakeTypeOK' /\ MidTurn'
  <2>1. /\ [req[r] EXCEPT !.pc = pc, !.sig = x] \in RequestType
        /\ [req[r] EXCEPT !.pc = pc, !.sig = x].todo = req[r].todo
    BY <1>0 DEF RequestType
  <2> QED
    BY <1>2, <2>1, RecordMoves
<1>3. ASSUME NEW x \in Nat, Now(r, [req[r] EXCEPT !.pc = pc, !.tid = x])
      PROVE  IntakeTypeOK' /\ MidTurn'
  <2>1. /\ [req[r] EXCEPT !.pc = pc, !.tid = x] \in RequestType
        /\ [req[r] EXCEPT !.pc = pc, !.tid = x].todo = req[r].todo
    BY <1>0 DEF RequestType
  <2> QED
    BY <1>3, <2>1, RecordMoves
<1>4. ASSUME NEW x \in Trade, Now(r, [req[r] EXCEPT !.pc = pc, !.trade = x])
      PROVE  IntakeTypeOK' /\ MidTurn'
  <2>1. /\ [req[r] EXCEPT !.pc = pc, !.trade = x] \in RequestType
        /\ [req[r] EXCEPT !.pc = pc, !.trade = x].todo = req[r].todo
    BY <1>0 DEF RequestType
  <2> QED
    BY <1>4, <2>1, RecordMoves
<1>5. ASSUME NEW x \in BOOLEAN, Now(r, [req[r] EXCEPT !.pc = pc, !.priced = x])
      PROVE  IntakeTypeOK' /\ MidTurn'
  <2>1. /\ [req[r] EXCEPT !.pc = pc, !.priced = x] \in RequestType
        /\ [req[r] EXCEPT !.pc = pc, !.priced = x].todo = req[r].todo
    BY <1>0 DEF RequestType
  <2> QED
    BY <1>5, <2>1, RecordMoves
<1> QED
  BY <1>1, <1>2, <1>3, <1>4, <1>5

\* open_trade hands back to its caller, with or without an exception.
LEMMA OpenMoves ==
    ASSUME IntakeTypeOK, MidTurn, NEW r \in Request,
           req[r].pc \in {"naming", "opening", "caching"},
           NEW e \in BOOLEAN, OpenRaises(r, e) \/ OpenReturns(r)
    PROVE  IntakeTypeOK' /\ MidTurn'
<1>1. CASE r \in Creator
  BY <1>1, EndMoves DEF OpenRaises, OpenReturns
<1>2. CASE r \notin Creator
  <2>1. req[r].todo # <<>>
    BY <1>2 DEF MidTurn, Request
  <2> QED
    BY <1>2, <2>1, NextTurnMoves, ContinueMoves DEF OpenRaises, OpenReturns
<1> QED
  BY <1>1, <1>2

-----------------------------------------------------------------------------
\* The outcomes of a backend are outcomes.
LEMMA OutcomeTypes ==
    /\ RedisOutcomes \subseteq Outcome
    /\ DbOutcomes \subseteq Outcome
<1>1. {Ok, Refused, Unacked, Ignored} \subseteq Outcome
  <2>1. TRUE \in BOOLEAN /\ FALSE \in BOOLEAN
    OBVIOUS
  <2> QED
    BY <2>1 DEF Outcome, Ok, Refused, Unacked, Ignored
<1> QED
  BY <1>1, CallsAssumption, BackendsAssumption DEF RedisOutcomes, DbOutcomes

\* The numbers a request picks are numbers.
LEMMA NumberTypes ==
    /\ NextTradeId \in Nat
    /\ NextSignalId \in SignalNumber
<1>1. IsFiniteSet(LiveTrades) /\ IsFiniteSet(LiveSignals)
  BY StoreAssumption, FS_Subset DEF LiveTrades, LiveSignals
<1>2. Cardinality(LiveTrades) \in Nat /\ Cardinality(LiveSignals) \in Nat
  BY <1>1, FS_CardinalityType
<1> QED
  BY <1>2 DEF NextTradeId, NextSignalId, SignalNumber

\* What generate_signal_id's second query leads to.
Picked(h, pc, n, x) == [req[h] EXCEPT !.pc = pc, !.tries = n, !.sid = x]

LEMMA PickMoves ==
    ASSUME IntakeTypeOK, NEW h \in Request, PickSignalId(h)
    PROVE  \/ End(h)
           \/ \E x \in SignalNumber : Now(h, Picked(h, "marking", 0, x))
           \/ /\ req[h].tries + 1 < SidTries
              /\ Now(h, Picked(h, "numbering", req[h].tries + 1, req[h].sid))
<1>1. req[h] \in RequestType /\ req[h].sid \in SignalNumber
  BY DEF IntakeTypeOK, RequestType
<1>2. /\ [req[h] EXCEPT !.pc = "marking", !.tries = 0] = Picked(h, "marking", 0, req[h].sid)
      /\ [req[h] EXCEPT !.pc = "numbering", !.tries = @ + 1]
            = Picked(h, "numbering", req[h].tries + 1, req[h].sid)
      /\ \A late \in FallbackId :
            [req[h] EXCEPT !.pc = "marking", !.tries = 0, !.sid = late] = Picked(h, "marking", 0, late)
  BY <1>1 DEF RequestType, Picked
<1>3. FallbackId \subseteq SignalNumber
  BY DEF SignalNumber
<1>4. \/ End(h)
      \/ Now(h, [req[h] EXCEPT !.pc = "marking", !.tries = 0])
      \/ /\ req[h].tries + 1 < SidTries
         /\ Now(h, [req[h] EXCEPT !.pc = "numbering", !.tries = @ + 1])
      \/ \E late \in FallbackId :
            Now(h, [req[h] EXCEPT !.pc = "marking", !.tries = 0, !.sid = late])
  BY DEF PickSignalId
<1>5. ASSUME NEW late \in FallbackId,
             Now(h, [req[h] EXCEPT !.pc = "marking", !.tries = 0, !.sid = late])
      PROVE  \E x \in SignalNumber : Now(h, Picked(h, "marking", 0, x))
  <2>1. late \in SignalNumber /\ Now(h, Picked(h, "marking", 0, late))
    BY <1>2, <1>3, <1>5
  <2> QED
    BY <2>1
<1>6. Now(h, [req[h] EXCEPT !.pc = "marking", !.tries = 0])
        => \E x \in SignalNumber : Now(h, Picked(h, "marking", 0, x))
  BY <1>1, <1>2
<1>7. Now(h, [req[h] EXCEPT !.pc = "numbering", !.tries = @ + 1])
        => Now(h, Picked(h, "numbering", req[h].tries + 1, req[h].sid))
  BY <1>2
<1> QED
  BY <1>4, <1>5, <1>6, <1>7

-----------------------------------------------------------------------------
\* Every step of a request keeps the types and issues at most one transaction.
LEMMA IntakeSteps ==
    ASSUME TypeInv, IntakeNext
    PROVE  /\ IntakeTypeOK' /\ MidTurn'
           /\ tradedToday' \subseteq Symbol /\ openCache' \subseteq Nat
           /\ [StoreNext]_store
<1> USE DEF TypeInv, TypeOK
<1> DEFINE Good == /\ IntakeTypeOK' /\ MidTurn'
                   /\ tradedToday' \subseteq Symbol /\ openCache' \subseteq Nat
                   /\ [StoreNext]_store
<1>a. ASSUME NEW h \in Hook, req[h].pc \notin {"idle", "checking", "done"}
      PROVE  req[h].todo # <<>> /\ Sym(h) \in Symbol
  <2>1. req[h].todo # <<>> /\ req[h].todo \in Seq(Symbol)
    BY <1>a DEF MidTurn, IntakeTypeOK, RequestType, Request
  <2> QED
    BY <2>1 DEF Sym
<1>1. ASSUME NEW h \in Hook, ReceiveWebhook(h)
      PROVE  Good
  <2>1. PICK p \in Payloads : Now(h, [req[h] EXCEPT !.pc = "checking", !.todo = p])
    BY <1>1 DEF ReceiveWebhook
  <2>2. /\ [req[h] EXCEPT !.pc = "checking", !.todo = p] \in RequestType
        /\ [req[h] EXCEPT !.pc = "checking", !.todo = p].pc = "checking"
    BY IntakeAssumption DEF IntakeTypeOK, RequestType, RequestPc, Request
  <2>3. IntakeTypeOK' /\ MidTurn'
    BY <2>1, <2>2, RecordMoves DEF Request
  <2> QED
    BY <1>1, <2>3 DEF ReceiveWebhook, redis
<1>2. ASSUME NEW h \in Hook, Answer(h)
      PROVE  Good
  BY <1>2, EndMoves DEF Answer, Request, redis
<1>3. ASSUME NEW h \in Hook, CheckDuplicate(h)
      PROVE  Good
  BY <1>3, ContinueMoves, GoToMoves DEF CheckDuplicate, Request, RequestPc, redis
<1>4. ASSUME NEW h \in Hook, FetchPrice(h)
      PROVE  Good
  <2>1. PICK p \in PriceOutcome :
           \/ Continue(h)
           \/ End(h)
           \/ Now(h, [req[h] EXCEPT !.pc = "numbering", !.priced = (p = "positive")])
    BY <1>4 DEF FetchPrice
  <2>2. req[h].todo # <<>>
    BY <1>4, <1>a DEF FetchPrice
  <2>3. (p = "positive") \in BOOLEAN /\ "numbering" \in RequestPc
    BY DEF RequestPc
  <2>4. ASSUME Now(h, [req[h] EXCEPT !.pc = "numbering", !.priced = (p = "positive")])
        PROVE  IntakeTypeOK' /\ MidTurn'
    BY <2>2, <2>3, <2>4, FetchMoves DEF Request
  <2>5. IntakeTypeOK' /\ MidTurn'
    BY <2>1, <2>2, <2>4, ContinueMoves, EndMoves DEF Request
  <2> QED
    BY <1>4, <2>5 DEF FetchPrice, redis
<1>c. ASSUME NEW h \in Hook, CountSignals(h)
      PROVE  Good
  <2>1. req[h].todo # <<>> /\ "probing" \in RequestPc
    BY <1>c, <1>a DEF CountSignals, RequestPc
  <2>2. IntakeTypeOK' /\ MidTurn'
    BY <1>c, <2>1, NumberTypes, FetchMoves, EndMoves DEF CountSignals, Request
  <2> QED
    BY <1>c, <2>2 DEF CountSignals, redis
<1>5. ASSUME NEW h \in Hook, PickSignalId(h)
      PROVE  Good
  <2>1. req[h].todo # <<>> /\ {"marking", "numbering"} \subseteq RequestPc
    BY <1>5, <1>a DEF PickSignalId, RequestPc
  <2>2. ASSUME NEW pc \in {"marking", "numbering"}, NEW n \in 0 .. SidTries - 1,
               NEW x \in SignalNumber, Now(h, Picked(h, pc, n, x))
        PROVE  IntakeTypeOK' /\ MidTurn'
    <3>1. /\ Picked(h, pc, n, x) \in RequestType
          /\ Picked(h, pc, n, x).todo = req[h].todo
      BY <2>1 DEF Picked, IntakeTypeOK, RequestType, Request
    <3> QED
      BY <2>1, <2>2, <3>1, RecordMoves DEF Request
  <2>3. req[h].sid \in SignalNumber /\ req[h].tries \in 0 .. SidTries - 1
    BY DEF IntakeTypeOK, RequestType, Request
  <2>4. /\ 0 \in 0 .. SidTries - 1
        /\ req[h].tries + 1 < SidTries => req[h].tries + 1 \in 0 .. SidTries - 1
    BY <2>3, IntakeAssumption
  <2>5. IntakeTypeOK' /\ MidTurn'
    BY <1>5, <2>2, <2>3, <2>4, PickMoves, EndMoves DEF Request
  <2> QED
    BY <1>5, <2>5 DEF PickSignalId, redis
<1>6. ASSUME NEW h \in Hook, MarkTraded(h)
      PROVE  Good
  BY <1>6, <1>a, GoToMoves DEF MarkTraded, Added, Request, RequestPc
<1>7. ASSUME NEW h \in Hook, CommitSignal(h)
      PROVE  Good
  <2>1. CASE End(h) /\ UNCHANGED store
    BY <1>7, <2>1, EndMoves DEF CommitSignal, redis, Request
  <2>2. ASSUME NEW s \in Signal, InsertSignal(s, req[h].sid, Sym(h)),
               \/ End(h)
               \/ Now(h, [req[h] EXCEPT !.pc = "reading", !.sig = s])
        PROVE  Good
    <3>1. StoreNext
      <4>1. req[h].sid \in SignalNumber /\ Sym(h) \in Symbol
        BY <1>7, <1>a DEF CommitSignal, IntakeTypeOK, RequestType, Request
      <4> QED
        BY <2>2, <4>1 DEF StoreNext
    <3>2. req[h].todo # <<>> /\ "reading" \in RequestPc
      BY <1>7, <1>a DEF CommitSignal, RequestPc
    <3>3. IntakeTypeOK' /\ MidTurn'
      BY <2>2, <3>2, FetchMoves, EndMoves DEF Request
    <3> QED
      BY <1>7, <3>1, <3>3 DEF CommitSignal, redis
  <2> QED
    BY <1>7, <2>1, <2>2 DEF CommitSignal
<1>8. ASSUME NEW h \in Hook, RefreshSignal(h)
      PROVE  Good
  BY <1>8, <1>a, EndMoves, ContinueMoves, GoToMoves DEF RefreshSignal, Request, RequestPc, redis
<1>9. ASSUME NEW c \in Creator, ReceiveTrade(c)
      PROVE  Good
  <2>1. PICK s \in Signal \cup {None} : Now(c, [req[c] EXCEPT !.pc = "naming", !.sig = s])
    BY <1>9 DEF ReceiveTrade
  <2>2. c \notin Hook /\ "naming" \in RequestPc
    BY IntakeAssumption DEF RequestPc
  <2>3. IntakeTypeOK' /\ MidTurn'
    BY <2>1, <2>2, FetchMoves DEF Request
  <2> QED
    BY <1>9, <2>3 DEF ReceiveTrade, redis
<1>b. ASSUME NEW r \in Request, req[r].pc \in {"naming", "opening", "caching"}
      PROVE  r \in Hook => req[r].todo # <<>>
  BY <1>b, <1>a
<1>10. ASSUME NEW r \in Request, PickTradeId(r)
       PROVE  Good
  <2>1. TRUE \in BOOLEAN /\ "opening" \in RequestPc
    BY DEF RequestPc
  <2>2. IntakeTypeOK' /\ MidTurn'
    BY <1>10, <1>b, <2>1, NumberTypes, FetchMoves, OpenMoves DEF PickTradeId
  <2> QED
    BY <1>10, <2>2 DEF PickTradeId, redis
<1>11. ASSUME NEW r \in Request, CommitTrade(r)
       PROVE  Good
  <2>0. TRUE \in BOOLEAN
    OBVIOUS
  <2>1. CASE OpenRaises(r, TRUE) /\ UNCHANGED store
    BY <1>11, <2>0, <2>1, OpenMoves DEF CommitTrade, redis
  <2>2. ASSUME NEW t \in Trade, InsertTrade(t, req[r].tid, req[r].sig),
               \/ OpenRaises(r, TRUE)
               \/ Now(r, [req[r] EXCEPT !.pc = "caching", !.trade = t])
        PROVE  Good
    <3>1. StoreNext
      <4>1. req[r].tid \in Nat /\ req[r].sig \in Signal \cup {None}
        BY DEF IntakeTypeOK, RequestType
      <4> QED
        BY <2>2, <4>1 DEF StoreNext
    <3>2. "caching" \in RequestPc
      BY DEF RequestPc
    <3>3. IntakeTypeOK' /\ MidTurn'
      BY <1>11, <1>b, <2>0, <2>2, <3>2, FetchMoves, OpenMoves DEF CommitTrade
    <3> QED
      BY <1>11, <3>1, <3>3 DEF CommitTrade, redis
  <2> QED
    BY <1>11, <2>1, <2>2 DEF CommitTrade
<1>12. ASSUME NEW r \in Request, CacheTrade(r)
       PROVE  Good
  <2>1. ASSUME NEW e \in BOOLEAN, OpenRaises(r, e) \/ OpenReturns(r)
        PROVE  IntakeTypeOK' /\ MidTurn'
    BY <1>12, <2>1, OpenMoves DEF CacheTrade
  <2>2. \A o \in DbOutcomes : o.raised \in BOOLEAN
    BY OutcomeTypes DEF Outcome
  <2>3. FALSE \in BOOLEAN
    OBVIOUS
  <2>4. IntakeTypeOK' /\ MidTurn'
    BY <1>12, <2>1, <2>2, <2>3 DEF CacheTrade
  <2>5. openCache' \subseteq Nat
    <3>1. req[r].tid \in Nat
      BY DEF IntakeTypeOK, RequestType
    <3> QED
      BY <1>12, <3>1 DEF CacheTrade, Added
  <2> QED
    BY <1>12, <2>4, <2>5 DEF CacheTrade
<1>13. ASSUME CleanupTestSignals
       PROVE  Good
  <2>1. StoreNext
    BY <1>13 DEF CleanupTestSignals, StoreNext
  <2> QED
    BY <1>13, <2>1 DEF CleanupTestSignals, redis, IntakeTypeOK, MidTurn
<1> QED
  BY <1>1, <1>2, <1>3, <1>4, <1>c, <1>5, <1>6, <1>7, <1>8, <1>9, <1>10, <1>11, <1>12, <1>13
     DEF IntakeNext, WebhookStep, OpenTradeStep

-----------------------------------------------------------------------------
\* A caller of close_trade asks for a final status.
LEMMA VerdictsAreFinal ==
    ASSUME NEW c
    PROVE  Verdicts(c) \subseteq Final
BY DEF Verdicts, Final

\* What a job or exit request is in, at rest and in its loop, is well typed.
LEMMA RestTypes ==
    /\ \A pc \in ExitPc : Rest(pc) \in ExitType
    /\ \A T \in SUBSET Trade : Sweep(T) \in ExitType
BY DEF Rest, Sweep, ExitType, ExitPc

LEMMA LoopTypes ==
    ASSUME ExitsTypeOK, NEW c \in Closer
    PROVE  /\ \A t \in Trade : Dropping(c, t) \in ExitType
           /\ Looping(c) \in ExitType
<1>1. exit[c] \in ExitType
  BY DEF ExitsTypeOK
<1> QED
  BY <1>1 DEF Dropping, Looping, ExitType, ExitPc

LEMMA LeavesMoves ==
    ASSUME ExitsTypeOK, NEW c \in Closer, Leaves(c)
    PROVE  exit' \in [Closer -> ExitType]
<1>1. (IF c = "monitor" THEN "idle" ELSE "done") \in ExitPc
  BY DEF ExitPc
<1> QED
  BY <1>1, RestTypes DEF Leaves, Become, ExitsTypeOK

LEMMA BecomeMoves ==
    ASSUME ExitsTypeOK, NEW c \in Closer, NEW pc \in ExitPc, Become(c, pc)
    PROVE  exit' \in [Closer -> ExitType]
BY RestTypes DEF Become, ExitsTypeOK

\* Every step of a closer keeps the types and issues at most one transaction.
LEMMA ExitSteps ==
    ASSUME TypeOK, ExitsNext
    PROVE  /\ ExitsTypeOK'
           /\ tradedToday' \subseteq Symbol /\ openCache' \subseteq Nat
           /\ [StoreNext]_store
<1> USE DEF TypeOK
<1> DEFINE Good == /\ ExitsTypeOK'
                   /\ tradedToday' \subseteq Symbol /\ openCache' \subseteq Nat
                   /\ [StoreNext]_store
<1>0. OpenTrades \subseteq Trade
  BY DEF OpenTrades
<1>1. ASSUME NEW j \in Job, StartJob(j)
      PROVE  Good
  <2>1. exit' \in [Closer -> ExitType]
    BY <1>0, <1>1, LeavesMoves, RestTypes DEF StartJob, Closer, ExitsTypeOK
  <2> QED
    BY <1>1, <2>1 DEF StartJob, ExitsTypeOK, redis
<1>2. ASSUME NEW e \in Exiter, ReceiveExit(e)
      PROVE  Good
  <2>1. exit' \in [Closer -> ExitType]
    BY <1>2, BecomeMoves, RestTypes DEF ReceiveExit, Closer, ExitsTypeOK, ExitPc
  <2> QED
    BY <1>2, <2>1 DEF ReceiveExit, ExitsTypeOK, redis
<1>3. ASSUME NEW t \in Trade, "monitor" \in Job, Hold(t)
      PROVE  Good
  <2>1. exit' \in [Closer -> ExitType]
    BY <1>3 DEF Hold, ExitsTypeOK, ExitType, Closer
  <2> QED
    BY <1>3, <2>1 DEF Hold, ExitsTypeOK, redis
<1>4. ASSUME NEW c \in Closer, NEW t \in Trade, CommitExit(c, t)
      PROVE  Good
  <2>1. CASE Leaves(c) /\ UNCHANGED <<store, closedBy>>
    BY <1>4, <2>1, LeavesMoves DEF CommitExit, ExitsTypeOK, redis
  <2>2. ASSUME NEW final \in Verdicts(c), ExitTrade(t, final),
               closedBy' = [closedBy EXCEPT ![t] = @ \cup {c}],
               \/ Leaves(c)
               \/ exit' = [exit EXCEPT ![c] = Dropping(c, t)]
        PROVE  Good
    <3>1. StoreNext
      BY <2>2, VerdictsAreFinal DEF StoreNext
    <3>2. closedBy' \in [Trade -> SUBSET Closer]
      BY <2>2 DEF ExitsTypeOK
    <3>3. exit' \in [Closer -> ExitType]
      <4>1. CASE exit' = [exit EXCEPT ![c] = Dropping(c, t)]
        BY <4>1, LoopTypes DEF ExitsTypeOK
      <4>2. CASE Leaves(c)
        BY <4>2, LeavesMoves
      <4> QED
        BY <2>2, <4>1, <4>2
    <3> QED
      BY <1>4, <3>1, <3>2, <3>3 DEF CommitExit, ExitsTypeOK, redis
  <2> QED
    BY <1>4, <2>1, <2>2 DEF CommitExit
<1>5. ASSUME NEW c \in Closer, DropCache(c)
      PROVE  Good
  <2>1. exit' \in [Closer -> ExitType]
    <3>1. CASE exit' = [exit EXCEPT ![c] = Looping(c)]
      BY <3>1, LoopTypes DEF ExitsTypeOK
    <3> QED
      BY <1>5, <3>1, LeavesMoves DEF DropCache
  <2> QED
    BY <1>5, <2>1 DEF DropCache, ExitsTypeOK, Removed
<1>6. ASSUME NEW c \in Closer, FinishLoop(c)
      PROVE  Good
  <2>1. exit' \in [Closer -> ExitType]
    <3>1. CASE exit' = [exit EXCEPT ![c].pc = "wipingTrades"]
      BY <3>1 DEF ExitsTypeOK, ExitType, ExitPc
    <3> QED
      BY <1>6, <3>1, LeavesMoves DEF FinishLoop
  <2> QED
    BY <1>6, <2>1 DEF FinishLoop, ExitsTypeOK, redis
<1>7. ASSUME "cleanup" \in Job, WipeTrades
      PROVE  Good
  <2>1. exit' \in [Closer -> ExitType]
    BY <1>7, LeavesMoves, BecomeMoves DEF WipeTrades, Closer, ExitPc
  <2> QED
    BY <1>7, <2>1 DEF WipeTrades, StoreNext, ExitsTypeOK, redis
<1>8. ASSUME "cleanup" \in Job, WipeSignals
      PROVE  Good
  <2>1. exit' \in [Closer -> ExitType]
    BY <1>8, LeavesMoves, BecomeMoves DEF WipeSignals, Closer, ExitPc
  <2> QED
    BY <1>8, <2>1 DEF WipeSignals, StoreNext, ExitsTypeOK, redis
<1>9. ASSUME "cleanup" \in Job, WipeKeys
      PROVE  Good
  <2>1. exit' \in [Closer -> ExitType]
    BY <1>9, BecomeMoves DEF WipeKeys, Closer, ExitPc
  <2> QED
    BY <1>9, <2>1 DEF WipeKeys, ExitsTypeOK
<1> QED
  BY <1>1, <1>2, <1>3, <1>4, <1>5, <1>6, <1>7, <1>8, <1>9 DEF ExitsNext, CloseTradeStep

\* A restart leaves every coroutine at rest and the rows as they are.
LEMMA CrashMoves ==
    ASSUME TypeInv, Crash
    PROVE  TypeOK' /\ MidTurn' /\ UNCHANGED store
<1> USE DEF TypeInv, TypeOK
<1>1. IntakeTypeOK' /\ MidTurn'
  <2>1. Fresh("done") \in RequestType /\ Fresh("done").pc = "done"
    BY FreshType DEF RequestPc, Fresh
  <2> QED
    BY <2>1 DEF Crash, IntakeTypeOK, MidTurn, Request
<1>2. exit' \in [Closer -> ExitType]
  <2>1. \A pc \in {"idle", "done"} : Rest(pc) \in ExitType
    BY RestTypes DEF ExitPc
  <2>2. \A c \in Closer : Rest(IF c = "monitor" THEN "idle" ELSE "done") \in ExitType
    BY <2>1
  <2> QED
    BY <2>1, <2>2 DEF Crash, ExitsTypeOK
<1> QED
  BY <1>1, <1>2, DashAssumption DEF Crash, ExitsTypeOK, StoreTypeOK, store, redis

-----------------------------------------------------------------------------
\* The composition.

\* At the start every variable has its type, and the rows are those of the store.
LEMMA DashStarts ==
    ASSUME Init
    PROVE  TypeInv /\ StoreInit
<1>1. StoreInit /\ StoreTypeOK
  BY StoreStarts DEF Init, StoreInv
<1>2. Fresh("idle") \in RequestType /\ Fresh("idle").pc = "idle"
  BY FreshType DEF RequestPc, Fresh
<1>3. IntakeTypeOK /\ MidTurn
  BY <1>2 DEF Init, IntakeInit, IntakeTypeOK, MidTurn, Request
<1>4. ExitsTypeOK
  BY RestTypes DEF Init, ExitsInit, ExitsTypeOK, ExitPc
<1> QED
  BY <1>1, <1>3, <1>4 DEF Init, TypeInv, TypeOK

\* Every step of the program keeps the types and is a transaction of the store or
\* leaves the rows alone.
LEMMA DashSteps ==
    ASSUME TypeInv, [Next]_vars
    PROVE  TypeInv' /\ [StoreNext]_store
<1> USE DEF TypeInv
<1>1. ASSUME IntakeNext, UNCHANGED <<exits, crashes>>
      PROVE  TypeInv' /\ [StoreNext]_store
  BY <1>1, IntakeSteps, StoreTyping DEF TypeOK, ExitsTypeOK, exits
<1>2. ASSUME ExitsNext, UNCHANGED <<req, crashes>>
      PROVE  TypeInv' /\ [StoreNext]_store
  BY <1>2, ExitSteps, StoreTyping DEF TypeOK, IntakeTypeOK, MidTurn
<1>3. ASSUME Crash
      PROVE  TypeInv' /\ [StoreNext]_store
  BY <1>3, CrashMoves
<1>4. ASSUME UNCHANGED vars
      PROVE  TypeInv' /\ [StoreNext]_store
  BY <1>4 DEF vars, store, redis, exits, TypeOK, StoreTypeOK, IntakeTypeOK,
              ExitsTypeOK, MidTurn
<1> QED
  BY <1>1, <1>2, <1>3, <1>4 DEF Next

\* Every variable of requests, jobs, rows and keys keeps its type.
THEOREM TypeCorrect == Spec => []TypeOK
<1>1. Init => TypeInv
  BY DashStarts
<1>2. TypeInv /\ [Next]_vars => TypeInv'
  BY DashSteps
<1>3. TypeInv => TypeOK
  BY DEF TypeInv
<1> QED
  BY <1>1, <1>2, <1>3, PTL DEF Spec

\* All that requests, jobs and restarts do to the rows is a sequence of the store's
\* transactions: the detailed specification implements the store's.
THEOREM DashImplementsStore == Spec => StoreSpec
<1>1. Init => TypeInv /\ StoreInit
  BY DashStarts
<1>2. TypeInv /\ [Next]_vars => TypeInv' /\ [StoreNext]_store
  BY DashSteps
<1> QED
  BY <1>1, <1>2, PTL DEF Spec, StoreSpec

\* A signal shows the outcome of its trade whatever overlaps, fails or restarts.
THEOREM DashAgreement == Spec => []SignalFollowsTrade
BY DashImplementsStore, StoreAgreement, PTL

\* The program keeps the book of trades: opened once, never reopened, deleted only
\* all together.
THEOREM DashKeepsTheBook == Spec => KeepsTheBook
BY DashImplementsStore, StoreKeepsTheBook, PTL

-----------------------------------------------------------------------------
\* The closers' loops.  What they hold stays true although others open, close and
\* delete rows between any two of their steps, because a row that has been read
\* can never become open again: that is the invariant's second part.

\* Who closed a trade is known from the row's birth on.
NeverClosed == \A t \in Trade :
    trades[t].status \in {"unborn", "entered"} => closedBy[t] = {}

\* What a closer has read was born, and what is left to do is part of it.
ReadsAreRows == \A c \in Closer :
    /\ exit[c].todo \subseteq exit[c].read
    /\ \A t \in exit[c].read : trades[t].status # "unborn"
    /\ exit[c].pc = "wipingTrades" => exit[c].todo = {}

CloserInv == NeverClosed /\ ReadsAreRows /\ NoRepeatExit /\ SweepLeavesNothingOpen

DashInv == TypeInv /\ CloserInv

\* A row, once born, stays born and is not opened again.
LEMMA RowsAge ==
    ASSUME StoreTypeOK, [StoreNext]_store, NEW t \in Trade
    PROVE  /\ trades'[t].status = "unborn" => trades[t].status = "unborn"
           /\ trades'[t].status = "entered" => trades[t].status \in {"unborn", "entered"}
<1> DEFINE Good == /\ trades'[t].status = "unborn" => trades[t].status = "unborn"
                   /\ trades'[t].status = "entered" =>
                         trades[t].status \in {"unborn", "entered"}
<1>1. ASSUME NEW s \in Signal, NEW sid \in SignalNumber, NEW sym \in Symbol,
             InsertSignal(s, sid, sym)
      PROVE  Good
  BY <1>1 DEF InsertSignal
<1>2. ASSUME NEW u \in Trade, NEW tid \in Nat, NEW sig \in Signal \cup {None},
             InsertTrade(u, tid, sig)
      PROVE  Good
  BY <1>2 DEF InsertTrade, StoreTypeOK
<1>3. ASSUME NEW u \in Trade, NEW final \in Final, ExitTrade(u, final)
      PROVE  Good
  BY <1>3 DEF ExitTrade, StoreTypeOK, Final
<1>4. ASSUME DeleteAllTrades
      PROVE  Good
  BY <1>4 DEF DeleteAllTrades, NoTrade
<1>5. ASSUME NEW S \in SUBSET Signal, DeleteSignals(S)
      PROVE  Good
  BY <1>5 DEF DeleteSignals, StoreTypeOK
<1>6. ASSUME UNCHANGED store
      PROVE  Good
  BY <1>6 DEF store
<1> QED
  BY <1>1, <1>2, <1>3, <1>4, <1>5, <1>6 DEF StoreNext

\* A pass goes on, or ends, with no more to do than before; it puts nothing aside
\* that it has not dealt with, unless it is the monitor's.
NarrowsTo(c, new) ==
    /\ new.read \subseteq exit[c].read
    /\ new.todo \subseteq exit[c].todo \cap new.read
    /\ c # "monitor" => new.read \ new.todo \subseteq exit[c].read \ exit[c].todo
    /\ new.pc = "wipingTrades" => new.todo = {}

\* Whatever happens to the rows, the closers' view survives when passes only go on
\* or end.
LEMMA NarrowingKeeps ==
    ASSUME StoreTypeOK, ExitsTypeOK, CloserInv, [StoreNext]_store, UNCHANGED closedBy,
           \A c \in Closer : NarrowsTo(c, exit'[c])
    PROVE  CloserInv'
<1> USE DEF CloserInv
<1>1. \A t \in Trade :
         /\ trades'[t].status = "unborn" => trades[t].status = "unborn"
         /\ trades'[t].status = "entered" => trades[t].status \in {"unborn", "entered"}
  BY RowsAge
<1>2. \A c \in Closer : exit[c].read \subseteq Trade /\ exit[c].todo \subseteq Trade
  BY DEF ExitsTypeOK, ExitType
<1>4. NeverClosed'
  BY <1>1 DEF NeverClosed
<1>5. ReadsAreRows'
  BY <1>1, <1>2 DEF ReadsAreRows, NarrowsTo
<1>6. NoRepeatExit'
  <2>1. \A c \in Closer : \A t \in exit'[c].todo : c \notin closedBy'[t]
    BY DEF NoRepeatExit, NarrowsTo
  <2>2. \A t \in OpenTrades' : closedBy'[t] = {}
    BY <1>4 DEF NeverClosed, OpenTrades
  <2> QED
    BY <2>1, <2>2 DEF NoRepeatExit
<1>7. SweepLeavesNothingOpen'
  <2>1. ASSUME NEW c \in Closer \ {"monitor"}, NEW t \in exit'[c].read \ exit'[c].todo
        PROVE  t \notin OpenTrades'
    <3>1. t \in exit[c].read \ exit[c].todo
      BY <2>1 DEF NarrowsTo
    <3>2. t \in Trade /\ trades[t].status # "unborn" /\ t \notin OpenTrades
      BY <1>2, <2>1, <3>1 DEF ReadsAreRows, SweepLeavesNothingOpen
    <3> QED
      BY <1>1, <3>2 DEF OpenTrades
  <2> QED
    BY <2>1 DEF SweepLeavesNothingOpen
<1> QED
  BY <1>4, <1>5, <1>6, <1>7

\* A pass that has not changed narrows, and one that ends does.
LEMMA RestNarrows ==
    ASSUME ExitsTypeOK, CloserInv, NEW c \in Closer
    PROVE  /\ NarrowsTo(c, exit[c])
           /\ \A pc \in ExitPc \ {"wipingTrades"} : NarrowsTo(c, Rest(pc))
BY DEF ExitsTypeOK, ExitType, CloserInv, ReadsAreRows, NarrowsTo, Rest

LEMMA LeavesNarrow ==
    ASSUME ExitsTypeOK, CloserInv, NEW c \in Closer,
           Leaves(c) \/ \E pc \in ExitPc \ {"wipingTrades"} : Become(c, pc)
    PROVE  \A d \in Closer : NarrowsTo(d, exit'[d])
<1>1. PICK pc \in ExitPc \ {"wipingTrades"} : Become(c, pc)
  BY DEF Leaves, ExitPc
<1>2. exit' = [exit EXCEPT ![c] = Rest(pc)]
  BY <1>1 DEF Become
<1> QED
  BY <1>2, RestNarrows DEF ExitsTypeOK

\* One pass changes, and narrows.
LEMMA OneNarrows ==
    ASSUME ExitsTypeOK, CloserInv, NEW c \in Closer, NEW new, NarrowsTo(c, new),
           exit' = [exit EXCEPT ![c] = new]
    PROVE  \A d \in Closer : NarrowsTo(d, exit'[d])
BY RestNarrows DEF ExitsTypeOK

\* A pass starts with trades that are open, and that nobody has closed.
LEMMA SweepStarts ==
    ASSUME StoreTypeOK, ExitsTypeOK, CloserInv, UNCHANGED <<store, closedBy>>,
           NEW c \in Closer, NEW T \in SUBSET OpenTrades,
           exit' = [exit EXCEPT ![c] = Sweep(T)]
    PROVE  CloserInv'
<1> USE DEF CloserInv
<1>1. /\ exit'[c].read = T /\ exit'[c].todo = T /\ exit'[c].pc = "looping"
      /\ \A d \in Closer \ {c} : exit'[d] = exit[d]
  BY DEF Sweep, ExitsTypeOK
<1>2. trades' = trades /\ closedBy' = closedBy /\ OpenTrades' = OpenTrades
  BY DEF store, OpenTrades
<1>3. NeverClosed'
  BY <1>2 DEF NeverClosed
<1>4. ReadsAreRows'
  BY <1>1, <1>2 DEF ReadsAreRows, OpenTrades
<1>5. NoRepeatExit'
  BY <1>1, <1>2 DEF NoRepeatExit
<1>6. SweepLeavesNothingOpen'
  BY <1>1, <1>2 DEF SweepLeavesNothingOpen
<1> QED
  BY <1>3, <1>4, <1>5, <1>6

\* A closer commits an exit: the row is closed and out of the closer's hands.
LEMMA ExitCommits ==
    ASSUME StoreTypeOK, ExitsTypeOK, CloserInv, NEW c \in Closer, NEW t \in exit[c].todo,
           NEW final \in Final, ExitTrade(t, final),
           closedBy' = [closedBy EXCEPT ![t] = @ \cup {c}],
           Leaves(c) \/ exit' = [exit EXCEPT ![c] = Dropping(c, t)]
    PROVE  CloserInv'
<1> USE DEF CloserInv
<1>1. /\ trades'[t].status = final /\ final \notin {"unborn", "entered"}
      /\ \A u \in Trade \ {t} : trades'[u] = trades[u]
      /\ t \in Trade
  BY DEF ExitTrade, StoreTypeOK, LiveTrades, Final
<1>2. /\ OpenTrades' = OpenTrades \ {t}
      /\ \A u \in Trade : trades'[u].status = "unborn" => trades[u].status = "unborn"
  BY <1>1 DEF OpenTrades
<1>3. /\ closedBy'[t] = closedBy[t] \cup {c}
      /\ \A u \in Trade \ {t} : closedBy'[u] = closedBy[u]
  BY <1>1 DEF ExitsTypeOK
<1>4. /\ exit'[c].read \in {{}, exit[c].read}
      /\ exit'[c].todo \subseteq (exit[c].todo \cap exit'[c].read) \ {t}
      /\ exit'[c].read \ exit'[c].todo \subseteq (exit[c].read \ exit[c].todo) \cup {t}
      /\ exit'[c].pc # "wipingTrades"
      /\ \A d \in Closer \ {c} : exit'[d] = exit[d]
  <2>1. CASE Leaves(c)
    BY <2>1 DEF Leaves, Become, Rest, ExitsTypeOK
  <2>2. CASE exit' = [exit EXCEPT ![c] = Dropping(c, t)]
    <3>1. exit'[c] = Dropping(c, t) /\ \A d \in Closer \ {c} : exit'[d] = exit[d]
      BY <2>2 DEF ExitsTypeOK
    <3>2. exit[c] \in ExitType /\ exit[c].todo \subseteq exit[c].read
      BY DEF ExitsTypeOK, ReadsAreRows
    <3>3. /\ Dropping(c, t).read = exit[c].read
          /\ Dropping(c, t).todo = exit[c].todo \ {t}
          /\ Dropping(c, t).pc = "dropping"
      BY <3>2 DEF Dropping, ExitType
    <3> QED
      BY <3>1, <3>2, <3>3
  <2> QED
    BY <2>1, <2>2
<1>5. \A d \in Closer : exit[d].read \subseteq Trade /\ exit[d].todo \subseteq Trade
  BY DEF ExitsTypeOK, ExitType
<1>6. NeverClosed'
  BY <1>1, <1>3 DEF NeverClosed
<1>7. ReadsAreRows'
  <2>1. ASSUME NEW d \in Closer, d # c
        PROVE  /\ exit'[d].todo \subseteq exit'[d].read
               /\ \A u \in exit'[d].read : trades'[u].status # "unborn"
               /\ exit'[d].pc = "wipingTrades" => exit'[d].todo = {}
    BY <1>2, <1>4, <1>5, <2>1 DEF ReadsAreRows
  <2>2. /\ exit'[c].todo \subseteq exit'[c].read
        /\ \A u \in exit'[c].read : trades'[u].status # "unborn"
        /\ exit'[c].pc # "wipingTrades"
    BY <1>2, <1>4, <1>5 DEF ReadsAreRows
  <2> QED
    BY <2>1, <2>2 DEF ReadsAreRows
<1>8. NoRepeatExit'
  <2>1. ASSUME NEW d \in Closer, NEW u \in exit'[d].todo
        PROVE  d \notin closedBy'[u]
    <3>1. u \in Trade /\ u \in exit[d].todo /\ (d = c => u # t)
      BY <1>4, <1>5, <2>1
    <3> QED
      BY <1>3, <3>1 DEF NoRepeatExit
  <2>2. \A u \in OpenTrades' : closedBy'[u] = {}
    BY <1>2, <1>3 DEF NoRepeatExit, OpenTrades
  <2> QED
    BY <2>1, <2>2 DEF NoRepeatExit
<1>9. SweepLeavesNothingOpen'
  BY <1>2, <1>4 DEF SweepLeavesNothingOpen
<1> QED
  BY <1>6, <1>7, <1>8, <1>9

\* Every step of a closer keeps the closers' view.
LEMMA ClosersKeep ==
    ASSUME TypeOK, CloserInv, ExitsNext
    PROVE  CloserInv'
<1>0. StoreTypeOK /\ ExitsTypeOK /\ [StoreNext]_store
  BY ExitSteps DEF TypeOK
<1>t. OpenTrades \subseteq Trade
  BY DEF OpenTrades
<1>l. ASSUME NEW c \in Closer, UNCHANGED closedBy,
             Leaves(c) \/ \E pc \in ExitPc \ {"wipingTrades"} : Become(c, pc)
      PROVE  CloserInv'
  BY <1>0, <1>l, LeavesNarrow, NarrowingKeeps
<1>n. ASSUME NEW c \in Closer, NEW new, NarrowsTo(c, new), UNCHANGED closedBy,
             exit' = [exit EXCEPT ![c] = new]
      PROVE  CloserInv'
  BY <1>0, <1>n, OneNarrows, NarrowingKeeps
<1>1. ASSUME NEW j \in Job, StartJob(j)
      PROVE  CloserInv'
  <2>1. CASE Leaves(j)
    BY <1>1, <1>l, <2>1 DEF StartJob, Closer
  <2>2. CASE exit' = [exit EXCEPT ![j] = Sweep(OpenTrades)]
    BY <1>0, <1>1, <2>2, SweepStarts DEF StartJob, Closer
  <2> QED
    BY <1>1, <2>1, <2>2 DEF StartJob
<1>2. ASSUME NEW e \in Exiter, ReceiveExit(e)
      PROVE  CloserInv'
  <2>1. CASE Become(e, "done")
    BY <1>2, <1>l, <2>1 DEF ReceiveExit, Closer, ExitPc
  <2>2. ASSUME NEW t \in OpenTrades, exit' = [exit EXCEPT ![e] = Sweep({t})]
        PROVE  CloserInv'
    BY <1>0, <1>2, <2>2, SweepStarts DEF ReceiveExit, Closer
  <2> QED
    BY <1>2, <2>1, <2>2 DEF ReceiveExit
<1>3. ASSUME NEW t \in Trade, "monitor" \in Job, Hold(t)
      PROVE  CloserInv'
  <2> DEFINE new == [exit["monitor"] EXCEPT !.todo = @ \ {t}]
  <2>1. exit["monitor"] \in ExitType /\ "monitor" \in Closer
    BY <1>0, <1>3 DEF Closer, ExitsTypeOK
  <2>2. /\ new.todo = exit["monitor"].todo \ {t} /\ new.read = exit["monitor"].read
        /\ new.pc = "looping"
    BY <1>3, <2>1 DEF Hold, ExitType
  <2>3. NarrowsTo("monitor", new)
    BY <2>1, <2>2 DEF NarrowsTo, CloserInv, ReadsAreRows
  <2>4. exit' = [exit EXCEPT !["monitor"] = new]
    BY <1>3 DEF Hold
  <2> QED
    BY <1>3, <1>n, <2>1, <2>3, <2>4 DEF Hold
<1>4. ASSUME NEW c \in Closer, NEW t \in Trade, CommitExit(c, t)
      PROVE  CloserInv'
  <2>1. CASE Leaves(c) /\ UNCHANGED <<store, closedBy>>
    BY <1>4, <1>l, <2>1
  <2>2. ASSUME NEW final \in Verdicts(c), ExitTrade(t, final),
               closedBy' = [closedBy EXCEPT ![t] = @ \cup {c}],
               Leaves(c) \/ exit' = [exit EXCEPT ![c] = Dropping(c, t)]
        PROVE  CloserInv'
    BY <1>0, <1>4, <2>2, VerdictsAreFinal, ExitCommits DEF CommitExit
  <2> QED
    BY <1>4, <2>1, <2>2 DEF CommitExit
<1>p. ASSUME NEW c \in Closer, NEW pc \in ExitPc
      PROVE  /\ [exit[c] EXCEPT !.pc = pc].pc = pc
             /\ [exit[c] EXCEPT !.pc = pc].read = exit[c].read
             /\ [exit[c] EXCEPT !.pc = pc].todo = exit[c].todo
             /\ exit[c].todo \subseteq exit[c].read
  BY <1>0 DEF ExitsTypeOK, ExitType, CloserInv, ReadsAreRows
<1>5. ASSUME NEW c \in Closer, DropCache(c)
      PROVE  CloserInv'
  <2>1. CASE exit' = [exit EXCEPT ![c] = Looping(c)]
    <3>1. /\ Looping(c).read = exit[c].read /\ Looping(c).todo = exit[c].todo
          /\ Looping(c).pc = "looping"
      BY <1>0 DEF Looping, ExitsTypeOK, ExitType
    <3>2. NarrowsTo(c, Looping(c))
      BY <3>1 DEF NarrowsTo, CloserInv, ReadsAreRows
    <3> QED
      BY <1>5, <1>n, <2>1, <3>2 DEF DropCache
  <2> QED
    BY <1>5, <1>l, <2>1 DEF DropCache
<1>6. ASSUME NEW c \in Closer, FinishLoop(c)
      PROVE  CloserInv'
  <2>1. CASE exit' = [exit EXCEPT ![c].pc = "wipingTrades"]
    <3> DEFINE new == [exit[c] EXCEPT !.pc = "wipingTrades"]
    <3>1. new.read = exit[c].read /\ new.todo = {} /\ exit[c].todo = {}
      BY <1>6, <1>p DEF FinishLoop, ExitPc
    <3>2. NarrowsTo(c, new)
      BY <3>1 DEF NarrowsTo
    <3>3. exit' = [exit EXCEPT ![c] = new]
      BY <2>1
    <3> QED
      BY <1>6, <1>n, <3>2, <3>3 DEF FinishLoop
  <2> QED
    BY <1>6, <1>l, <2>1 DEF FinishLoop
<1>7. ASSUME "cleanup" \in Job, WipeTrades \/ WipeSignals \/ WipeKeys
      PROVE  CloserInv'
  BY <1>7, <1>l DEF WipeTrades, WipeSignals, WipeKeys, Closer, ExitPc
<1> QED
  BY <1>1, <1>2, <1>3, <1>4, <1>5, <1>6, <1>7 DEF ExitsNext, CloseTradeStep

\* So does every step of the program.
LEMMA DashKeeps ==
    ASSUME DashInv, [Next]_vars
    PROVE  DashInv'
<1> USE DEF DashInv
<1>0. TypeInv' /\ [StoreNext]_store /\ TypeOK /\ StoreTypeOK /\ ExitsTypeOK
  BY DashSteps DEF TypeInv, TypeOK
<1>s. ASSUME UNCHANGED exits
      PROVE  CloserInv'
  <2>1. \A c \in Closer : NarrowsTo(c, exit'[c])
    BY <1>0, <1>s, RestNarrows DEF exits
  <2> QED
    BY <1>0, <1>s, <2>1, NarrowingKeeps DEF exits
<1>1. ASSUME ExitsNext
      PROVE  CloserInv'
  BY <1>0, <1>1, ClosersKeep
<1>2. ASSUME Crash
      PROVE  CloserInv'
  <2>1. \A c \in Closer :
           exit'[c] \in {exit[c], Rest("idle"), Rest("done")}
    BY <1>2 DEF Crash
  <2>2. \A c \in Closer : NarrowsTo(c, exit'[c])
    BY <1>0, <2>1, RestNarrows DEF ExitPc
  <2> QED
    BY <1>0, <1>2, <2>2, NarrowingKeeps DEF Crash
<1> QED
  BY <1>0, <1>s, <1>1, <1>2 DEF Next, vars, exits

LEMMA DashInvStarts ==
    ASSUME Init
    PROVE  DashInv
<1>1. /\ \A c \in Closer : exit[c] = Rest("idle")
      /\ \A t \in Trade : closedBy[t] = {}
  BY DEF Init, ExitsInit
<1>2. CloserInv
  BY <1>1 DEF CloserInv, NeverClosed, ReadsAreRows, NoRepeatExit,
              SweepLeavesNothingOpen, Rest, OpenTrades
<1> QED
  BY <1>2, DashStarts DEF DashInv

\* No job and no request closes a trade a second time, and no trade that is open
\* was closed before.
THEOREM NobodyRepeats == Spec => []NoRepeatExit
<1>1. Init => DashInv
  BY DashInvStarts
<1>2. DashInv /\ [Next]_vars => DashInv'
  BY DashKeeps
<1>3. DashInv => NoRepeatExit
  BY DEF DashInv, CloserInv
<1> QED
  BY <1>1, <1>2, <1>3, PTL DEF Spec

\* What a force exit, a cleanup or an exit request has passed stays closed.
THEOREM SweepsHold == Spec => []SweepLeavesNothingOpen
<1>1. Init => DashInv
  BY DashInvStarts
<1>2. DashInv /\ [Next]_vars => DashInv'
  BY DashKeeps
<1>3. DashInv => SweepLeavesNothingOpen
  BY DEF DashInv, CloserInv
<1> QED
  BY <1>1, <1>2, <1>3, PTL DEF Spec

\* Rows are deleted by the wipe and by nothing else.
LEMMA OnlyWipeDeletes ==
    ASSUME TypeInv, [Next]_vars, NEW t \in OpenTrades, trades'[t].status = "deleted"
    PROVE  "cleanup" \in Job /\ WipeTrades
<1>0. t \in Trade /\ trades[t].status = "entered" /\ StoreTypeOK
  BY DEF OpenTrades, TypeInv, TypeOK
<1>1. \A S \in SUBSET Signal : ~DeleteSignals(S)
  BY <1>0 DEF DeleteSignals, StoreTypeOK
<1>2. ASSUME NEW u, NEW tid, NEW sig, InsertTrade(u, tid, sig)
      PROVE  FALSE
  BY <1>0, <1>2 DEF InsertTrade, StoreTypeOK
<1>3. ASSUME NEW u, NEW final \in Final, ExitTrade(u, final)
      PROVE  FALSE
  BY <1>0, <1>3 DEF ExitTrade, StoreTypeOK, Final
<1>4. trades' # trades
  BY <1>0
<1>5. ~IntakeNext
  <2>1. \A s, sid, sym : ~InsertSignal(s, sid, sym)
    BY <1>4 DEF InsertSignal
  <2>2. ~CleanupTestSignals
    <3>1. {s \in Signal : signals[s].sym \in TestSymbols} \in SUBSET Signal
      OBVIOUS
    <3> QED
      BY <1>1, <3>1 DEF CleanupTestSignals
  <2>3. \A h \in Hook : ~ReceiveWebhook(h) /\ ~WebhookStep(h)
    BY <1>4, <2>1 DEF ReceiveWebhook, WebhookStep, Answer, CheckDuplicate, FetchPrice,
       CountSignals, PickSignalId, MarkTraded, CommitSignal, RefreshSignal, store
  <2>4. \A c \in Creator : ~ReceiveTrade(c)
    BY <1>4 DEF ReceiveTrade, store
  <2>5. \A r \in Request : ~OpenTradeStep(r)
    BY <1>2, <1>4 DEF OpenTradeStep, PickTradeId, CommitTrade, CacheTrade, store
  <2> QED
    BY <2>2, <2>3, <2>4, <2>5 DEF IntakeNext
<1>6. ~Crash /\ ~UNCHANGED vars
  BY <1>4 DEF Crash, vars, store
<1>7. ExitsNext
  BY <1>5, <1>6 DEF Next
<1>8. /\ \A j \in Job : ~StartJob(j)
      /\ \A e \in Exiter : ~ReceiveExit(e)
      /\ \A u \in Trade : ~Hold(u)
  BY <1>4 DEF StartJob, ReceiveExit, Hold, store
<1>9. \A c \in Closer : ~CloseTradeStep(c)
  <2>1. \A c \in Closer : ~DropCache(c) /\ ~FinishLoop(c)
    BY <1>4 DEF DropCache, FinishLoop, store
  <2>2. \A c \in Closer, u \in Trade : ~CommitExit(c, u)
    BY <1>3, <1>4, VerdictsAreFinal DEF CommitExit, store
  <2> QED
    BY <2>1, <2>2 DEF CloseTradeStep
<1>10. ~WipeSignals /\ ~WipeKeys
  BY <1>1, <1>4 DEF WipeSignals, WipeKeys, store
<1> QED
  BY <1>7, <1>8, <1>9, <1>10 DEF ExitsNext

\* The weekly wipe deletes no open trade that its safety net had read.
THEOREM WipeIsSafe == Spec => WipeSparesRead
<1>1. Init => DashInv
  BY DashInvStarts
<1>2. DashInv /\ [Next]_vars => DashInv'
  BY DashKeeps
<1>3. DashInv /\ [Next]_vars =>
         [\A t \in exit["cleanup"].read \cap OpenTrades :
             trades'[t].status # "deleted"]_vars
  <2> SUFFICES ASSUME DashInv, [Next]_vars,
                      NEW t \in exit["cleanup"].read \cap OpenTrades,
                      trades'[t].status = "deleted"
               PROVE  FALSE
    OBVIOUS
  <2>1. "cleanup" \in Job /\ WipeTrades
    BY OnlyWipeDeletes DEF DashInv
  <2>2. exit["cleanup"].todo = {} /\ "cleanup" \in Closer \ {"monitor"}
    BY <2>1 DEF WipeTrades, DashInv, CloserInv, ReadsAreRows, Closer
  <2> QED
    BY <2>2 DEF DashInv, CloserInv, SweepLeavesNothingOpen
<1> QED
  BY <1>1, <1>2, <1>3, PTL DEF Spec, WipeSparesRead

-----------------------------------------------------------------------------
\* Who changes the outcome of a trade.

\* A trade that has an outcome has it from somebody.
ClosedBySomebody == \A t \in Trade : trades[t].status \in Final => closedBy[t] # {}

\* The life of one row: it stays as it is, is inserted, deleted with all the others, or
\* gets an outcome from a closer that had it on its list.
RowStep(t) ==
    \/ trades'[t].status = trades[t].status /\ closedBy'[t] = closedBy[t]
    \/ /\ trades[t].status = "unborn" /\ trades'[t].status = "entered"
       /\ closedBy'[t] = closedBy[t]
    \/ trades'[t].status = "deleted" /\ closedBy'[t] = closedBy[t]
    \/ /\ trades'[t].status \in Final
       /\ \E c \in Closer : t \in exit[c].todo /\ closedBy'[t] = closedBy[t] \cup {c}

LEMMA RowsLive ==
    ASSUME TypeInv, [Next]_vars, NEW t \in Trade
    PROVE  RowStep(t)
<1>0. StoreTypeOK /\ ExitsTypeOK
  BY DEF TypeInv, TypeOK
<1>u. ASSUME UNCHANGED <<trades, closedBy>>
      PROVE  RowStep(t)
  BY <1>u DEF RowStep
<1>d. ASSUME NEW S \in SUBSET Signal, DeleteSignals(S), UNCHANGED closedBy
      PROVE  RowStep(t)
  BY <1>0, <1>d DEF RowStep, DeleteSignals, StoreTypeOK
<1>1. ASSUME IntakeNext, UNCHANGED closedBy
      PROVE  RowStep(t)
  <2>1. ASSUME NEW r \in Request, OpenTradeStep(r)
        PROVE  RowStep(t)
    <3>1. \/ UNCHANGED trades
          \/ \E u \in Trade : InsertTrade(u, req[r].tid, req[r].sig)
      BY <2>1 DEF OpenTradeStep, PickTradeId, CommitTrade, CacheTrade, store
    <3>2. ASSUME NEW u \in Trade, InsertTrade(u, req[r].tid, req[r].sig)
          PROVE  RowStep(t)
      BY <1>0, <1>1, <3>2 DEF InsertTrade, RowStep, StoreTypeOK
    <3> QED
      BY <1>1, <1>u, <3>1, <3>2
  <2>2. ASSUME NEW h \in Hook, ReceiveWebhook(h) \/ WebhookStep(h)
        PROVE  UNCHANGED trades
    BY <2>2 DEF ReceiveWebhook, WebhookStep, Answer, CheckDuplicate, FetchPrice,
                CountSignals, PickSignalId, MarkTraded, CommitSignal, RefreshSignal, InsertSignal, store
  <2>3. ASSUME NEW c \in Creator, ReceiveTrade(c)
        PROVE  UNCHANGED trades
    BY <2>3 DEF ReceiveTrade, store
  <2>4. CASE CleanupTestSignals
    <3>1. {s \in Signal : signals[s].sym \in TestSymbols} \in SUBSET Signal
      OBVIOUS
    <3> QED
      BY <1>1, <1>d, <2>4, <3>1 DEF CleanupTestSignals
  <2> QED
    BY <1>1, <1>u, <2>1, <2>2, <2>3, <2>4 DEF IntakeNext
<1>2. ASSUME NEW c \in Closer, NEW u \in Trade, CommitExit(c, u)
      PROVE  RowStep(t)
  <2>1. ASSUME NEW final \in Verdicts(c), ExitTrade(u, final),
               closedBy' = [closedBy EXCEPT ![u] = @ \cup {c}]
        PROVE  RowStep(t)
    <3>1. final \in Final /\ u \in exit[c].todo
      BY <1>2, VerdictsAreFinal DEF CommitExit
    <3>2. /\ trades'[t].status = IF u = t THEN final ELSE trades[t].status
          /\ closedBy'[t] = IF u = t THEN closedBy[t] \cup {c} ELSE closedBy[t]
      BY <1>0, <2>1 DEF ExitTrade, StoreTypeOK, ExitsTypeOK
    <3> QED
      BY <3>1, <3>2 DEF RowStep
  <2>2. CASE UNCHANGED <<store, closedBy>>
    BY <1>u, <2>2 DEF store
  <2> QED
    BY <1>2, <2>1, <2>2 DEF CommitExit
<1>3. ASSUME ExitsNext
      PROVE  RowStep(t)
  <2>1. \/ \E c \in Closer, u \in Trade : CommitExit(c, u)
        \/ UNCHANGED closedBy /\ (WipeTrades \/ WipeSignals)
        \/ UNCHANGED <<trades, closedBy>>
    BY <1>3 DEF ExitsNext, StartJob, ReceiveExit, Hold, CloseTradeStep, DropCache,
                FinishLoop, WipeTrades, WipeSignals, WipeKeys, store
  <2>2. CASE WipeTrades /\ UNCHANGED closedBy
    <3>1. UNCHANGED trades \/ DeleteAllTrades
      BY <2>2 DEF WipeTrades, store
    <3>2. CASE DeleteAllTrades
      BY <2>2, <3>2 DEF DeleteAllTrades, NoTrade, RowStep
    <3> QED
      BY <1>u, <2>2, <3>1, <3>2
  <2>3. CASE WipeSignals /\ UNCHANGED closedBy
    <3>1. UNCHANGED trades \/ DeleteSignals(Signal)
      BY <2>3 DEF WipeSignals, store
    <3> QED
      BY <1>u, <1>d, <2>3, <3>1
  <2> QED
    BY <1>2, <1>u, <2>1, <2>2, <2>3
<1> QED
  BY <1>u, <1>1, <1>3 DEF Next, Crash, vars, exits, store

\* Outcomes are overwritten only by a closer that has not closed the trade before and
\* still has it on the list it read: at most once by each.
THEOREM WhoOverwrites == Spec => OverwrittenByAnother
<1>1. Init => DashInv /\ ClosedBySomebody
  <2>1. ASSUME Init
        PROVE  ClosedBySomebody
    BY <2>1 DEF Init, StoreInit, NoTrade, ClosedBySomebody, Final
  <2> QED
    BY <2>1, DashInvStarts
<1>2. DashInv /\ ClosedBySomebody /\ [Next]_vars => DashInv' /\ ClosedBySomebody'
  <2>1. ASSUME DashInv, ClosedBySomebody, [Next]_vars
        PROVE  ClosedBySomebody'
    <3>1. \A t \in Trade : RowStep(t)
      BY <2>1, RowsLive DEF DashInv
    <3>2. "entered" \notin Final /\ "deleted" \notin Final
      BY DEF Final
    <3> QED
      BY <2>1, <3>1, <3>2 DEF RowStep, ClosedBySomebody
  <2> QED
    BY <2>1, DashKeeps
<1>3. DashInv /\ ClosedBySomebody /\ [Next]_vars =>
         [\A t \in LiveTrades \ OpenTrades :
             \/ trades'[t].status \in {trades[t].status, "deleted"}
             \/ /\ closedBy[t] # {}
                /\ \E c \in Closer \ closedBy[t] :
                      t \in exit[c].todo /\ closedBy'[t] = closedBy[t] \cup {c}]_vars
  <2> SUFFICES ASSUME DashInv, ClosedBySomebody, [Next]_vars,
                      NEW t \in LiveTrades \ OpenTrades,
                      trades'[t].status \notin {trades[t].status, "deleted"}
               PROVE  /\ closedBy[t] # {}
                      /\ \E c \in Closer \ closedBy[t] :
                            t \in exit[c].todo /\ closedBy'[t] = closedBy[t] \cup {c}
    OBVIOUS
  <2>1. t \in Trade /\ trades[t].status \in Final
    BY DEF LiveTrades, OpenTrades, Live, DashInv, TypeInv, TypeOK, StoreTypeOK
  <2>2. PICK c \in Closer : t \in exit[c].todo /\ closedBy'[t] = closedBy[t] \cup {c}
    BY <2>1, RowsLive DEF DashInv, RowStep, Final
  <2>3. c \notin closedBy[t]
    BY <2>2 DEF DashInv, CloserInv, NoRepeatExit
  <2> QED
    BY <2>1, <2>2, <2>3 DEF ClosedBySomebody
<1> QED
  BY <1>1, <1>2, <1>3, PTL DEF Spec, OverwrittenByAnother

\* So an outcome is final wherever there is one closer only: the monitor and the force
\* exit of one second are what ClosedIsFinal fails for, not anything one of them does.
THEOREM OneCloserKeepsOutcomes ==
    ASSUME \A c, d \in Closer : c = d
    PROVE  Spec => ClosedIsFinal
<1>1. Spec => [](closedBy \in [Trade -> SUBSET Closer])
  BY TypeCorrect, PTL DEF TypeOK, ExitsTypeOK
<1>2. /\ closedBy \in [Trade -> SUBSET Closer]
      /\ [\A t \in LiveTrades \ OpenTrades :
             \/ trades'[t].status \in {trades[t].status, "deleted"}
             \/ /\ closedBy[t] # {}
                /\ \E c \in Closer \ closedBy[t] :
                      t \in exit[c].todo /\ closedBy'[t] = closedBy[t] \cup {c}]_vars
      => [\A t \in LiveTrades \ OpenTrades :
             trades'[t].status \in {trades[t].status, "deleted"}]_vars
  <2> SUFFICES ASSUME closedBy \in [Trade -> SUBSET Closer], NEW t \in LiveTrades,
                      closedBy[t] # {}, NEW c \in Closer \ closedBy[t]
               PROVE  FALSE
    OBVIOUS
  <2>1. closedBy[t] \subseteq Closer
    BY DEF LiveTrades
  <2> QED
    BY <2>1
<1> QED
  BY <1>1, <1>2, WhoOverwrites, PTL DEF OverwrittenByAnother, ClosedIsFinal
=============================================================================
