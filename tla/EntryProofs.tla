----------------------------- MODULE EntryProofs -----------------------------
(***************************************************************************)
(* What entering promises, on the conditions it needs: how often a symbol  *)
(* is entered and what it is lost by, that a signal gets its trade, that an *)
(* open trade has its hash; and that no step of a webhook or of a pass over*)
(* trades is in vain (whatever the conditions).                            *)
(***************************************************************************)
EXTENDS TradeDashProofs

-----------------------------------------------------------------------------
\* Webhooks one after the other.

OneAtATime == \A g, h \in Hook : g \in InFlight /\ h \in InFlight => g = h

\* A step of the intake moves one request, and one that is at rest moves only when its
\* request comes in.
LEMMA WhoMoves ==
    ASSUME IntakeTypeOK, IntakeNext, NEW g \in Hook
    PROVE  req'[g] = req[g] \/ g \in InFlight \/ ReceiveWebhook(g)
<1>0. g \in Request /\ g \notin Creator
  BY IntakeAssumption DEF Request
<1>m. ASSUME NEW r \in Request, NEW new, Now(r, new), r # g
      PROVE  req'[g] = req[g]
  BY <1>0, <1>m DEF Now, IntakeTypeOK
<1>1. ASSUME NEW h \in Hook, ReceiveWebhook(h)
      PROVE  h = g \/ req'[g] = req[g]
  BY <1>1, <1>m DEF ReceiveWebhook, Request
<1>2. ASSUME NEW h \in Hook, WebhookStep(h)
      PROVE  h \in InFlight /\ (h = g \/ req'[g] = req[g])
  <2>1. h \in InFlight
    BY <1>2 DEF WebhookStep, Answer, CheckDuplicate, FetchPrice, CountSignals, PickSignalId, MarkTraded,
                CommitSignal, RefreshSignal, InFlight, Resting, Request
  <2>2. \E new : Now(h, new)
    BY <1>2 DEF WebhookStep, Answer, CheckDuplicate, FetchPrice, CountSignals, PickSignalId, MarkTraded,
                CommitSignal, RefreshSignal, End, Continue, GoTo
  <2> QED
    BY <2>1, <2>2, <1>m DEF Request
<1>3. ASSUME NEW c \in Creator, ReceiveTrade(c)
      PROVE  req'[g] = req[g]
  BY <1>0, <1>3, <1>m DEF ReceiveTrade, Request
<1>4. ASSUME NEW r \in Request, OpenTradeStep(r)
      PROVE  r \in InFlight /\ (r = g \/ req'[g] = req[g])
  <2>1. r \in InFlight
    BY <1>4 DEF OpenTradeStep, PickTradeId, CommitTrade, CacheTrade, InFlight, Resting
  <2>2. \E new : Now(r, new)
    BY <1>4 DEF OpenTradeStep, PickTradeId, CommitTrade, CacheTrade, OpenRaises,
                OpenReturns, End, Continue
  <2> QED
    BY <2>1, <2>2, <1>m
<1>5. ASSUME CleanupTestSignals
      PROVE  req'[g] = req[g]
  BY <1>5 DEF CleanupTestSignals
<1> QED
  BY <1>1, <1>2, <1>3, <1>4, <1>5 DEF IntakeNext

LEMMA TurnsDoNotOverlap ==
    ASSUME MaxInFlight = 1, TypeInv, OneAtATime, [Next]_vars
    PROVE  OneAtATime'
<1>0. IntakeTypeOK
  BY DEF TypeInv, TypeOK
<1>1. ASSUME NEW h \in Hook, ReceiveWebhook(h)
      PROVE  \A g \in Hook : g \notin InFlight
  <2>1. ASSUME NEW g \in Hook, g \in InFlight
        PROVE  FALSE
    <3>1. InFlight \cap Hook = {g}
      BY <2>1 DEF OneAtATime
    <3>2. Cardinality(InFlight \cap Hook) = 1
      BY <3>1, FS_Singleton
    <3> QED
      BY <1>1, <3>2 DEF ReceiveWebhook
  <2> QED
    BY <2>1
<1>2. CASE IntakeNext
  <2>1. ASSUME NEW g \in Hook, NEW h \in Hook, g \in InFlight', h \in InFlight'
        PROVE  g = h
    <3>1. \A k \in {g, h} : k \in InFlight \/ ReceiveWebhook(k)
      BY <1>0, <1>2, <2>1, WhoMoves DEF InFlight
    <3>2. ASSUME ReceiveWebhook(g), ReceiveWebhook(h), g # h
          PROVE  FALSE
      <4>1. req'[h] = req[h] /\ req[h].pc = "idle"
        BY <1>0, <3>2 DEF ReceiveWebhook, Now, IntakeTypeOK, Request
      <4> QED
        BY <2>1, <4>1 DEF InFlight, Resting
    <3> QED
      BY <1>1, <3>1, <3>2 DEF OneAtATime
  <2> QED
    BY <2>1 DEF OneAtATime
<1>3. CASE Crash
  BY <1>3 DEF Crash, OneAtATime, InFlight, Fresh, Resting
<1>4. CASE UNCHANGED req
  BY <1>4 DEF OneAtATime, InFlight
<1> QED
  BY <1>2, <1>3, <1>4 DEF Next, vars

-----------------------------------------------------------------------------
\* How often a symbol is entered, when Redis is up and nothing is wiped.

\* A webhook that has passed the duplicate check and not yet stored the signal.
Deciding == {"pricing", "numbering", "probing", "marking", "saving"}

\* Those that are about to enter the symbol y.
Deciders(y) == {h \in Hook : req[h].pc \in Deciding /\ Sym(h) = y}

HooksInFlight == InFlight \cap Hook

\* At most MaxInFlight webhooks are under way; a symbol is marked before its first signal
\* is stored; its signals, and the webhooks about to add one, are MaxInFlight at most.
OverlapInv ==
    /\ IsFiniteSet(HooksInFlight) /\ Cardinality(HooksInFlight) <= MaxInFlight
    /\ \A s \in LiveSignals : signals[s].sym \in tradedToday
    /\ \A h \in Hook : req[h].pc = "saving" => Sym(h) \in tradedToday
    /\ \A y \in Symbol :
          Cardinality(SignalsOf(y)) + Cardinality(Deciders(y)) <= MaxInFlight

\* No signal appears and none changes its symbol.
OldSignals ==
    \A s \in LiveSignals' : s \in LiveSignals /\ signals'[s].sym = signals[s].sym

LEMMA RelabelIsOld ==
    ASSUME StoreTypeOK, NEW sig, NEW status \in Live, signals' = Relabelled(sig, status)
    PROVE  OldSignals
<1>1. \A s \in Signal : Relabelled(sig, status)[s].status \in Live <=> s \in LiveSignals
  BY RelabelKeepsLive
<1>2. \A s \in Signal : Relabelled(sig, status)[s].sym = signals[s].sym
  BY DEF Relabelled, StoreTypeOK
<1> QED
  BY <1>1, <1>2 DEF OldSignals, LiveSignals

LEMMA DeletingIsOld ==
    ASSUME NEW S, DeleteSignals(S)
    PROVE  OldSignals
<1>1. "deleted" \notin Live
  BY StatusSets
<1> QED
  BY <1>1 DEF OldSignals, LiveSignals, DeleteSignals, NoSignal

\* Nothing but the commit of a signal makes one.
LEMMA OnlyCommitSignals ==
    ASSUME TypeInv, [Next]_vars
    PROVE  OldSignals \/ \E h \in Hook : CommitSignal(h)
<1>0. StoreTypeOK
  BY DEF TypeInv, TypeOK
<1>1. ASSUME UNCHANGED signals
      PROVE  OldSignals
  BY <1>1 DEF OldSignals, LiveSignals
<1>2. ASSUME NEW r \in Request, CommitTrade(r)
      PROVE  OldSignals
  <2>1. UNCHANGED signals \/ signals' = Relabelled(req[r].sig, "entered")
    BY <1>2 DEF CommitTrade, InsertTrade, store
  <2>2. "entered" \in Live
    BY StatusSets
  <2>3. CASE UNCHANGED signals
    BY <1>1, <2>3
  <2>4. CASE signals' = Relabelled(req[r].sig, "entered")
    BY <1>0, <2>2, <2>4, RelabelIsOld
  <2> QED
    BY <2>1, <2>3, <2>4
<1>3. ASSUME NEW c \in Closer, NEW t \in Trade, CommitExit(c, t)
      PROVE  OldSignals
  <2>1. \A final \in Verdicts(c) : final \in Live
    BY VerdictsAreFinal, StatusSets
  <2>2. \/ UNCHANGED signals
        \/ \E final \in Verdicts(c) : signals' = Relabelled(trades[t].sig, final)
    BY <1>3 DEF CommitExit, ExitTrade, store
  <2> QED
    BY <1>0, <1>1, <2>1, <2>2, RelabelIsOld
<1>4. ASSUME CleanupTestSignals \/ WipeSignals
      PROVE  OldSignals
  <2>1. UNCHANGED signals \/ \E S \in SUBSET Signal : DeleteSignals(S)
    BY <1>4 DEF CleanupTestSignals, WipeSignals, store
  <2> QED
    BY <1>1, <2>1, DeletingIsOld
<1>5. ASSUME IntakeNext
      PROVE  OldSignals \/ \E h \in Hook : CommitSignal(h)
  BY <1>1, <1>2, <1>4, <1>5
     DEF IntakeNext, ReceiveWebhook, WebhookStep, Answer, CheckDuplicate, FetchPrice,
         CountSignals, PickSignalId, MarkTraded, RefreshSignal, ReceiveTrade, OpenTradeStep,
         PickTradeId, CacheTrade, store
<1>6. ASSUME ExitsNext
      PROVE  OldSignals
  <2>1. \/ UNCHANGED signals \/ WipeSignals
        \/ \E c \in Closer, t \in Trade : CommitExit(c, t)
    BY <1>6
       DEF ExitsNext, StartJob, ReceiveExit, Hold, CloseTradeStep, DropCache, FinishLoop,
           WipeTrades, DeleteAllTrades, WipeKeys, store
  <2> QED
    BY <1>1, <1>3, <1>4, <2>1
<1> QED
  BY <1>1, <1>5, <1>6 DEF Next, Crash, vars, store

\* The duplicate mark of a webhook is never taken back, but by the weekly cleanup.
LEMMA MarksStay ==
    ASSUME "cleanup" \notin Job, [Next]_vars
    PROVE  tradedToday \subseteq tradedToday'
<1>1. ASSUME NEW h \in Hook, MarkTraded(h)
      PROVE  tradedToday \subseteq tradedToday'
  BY <1>1 DEF MarkTraded, Added
<1>2. CASE UNCHANGED tradedToday
  BY <1>2
<1>3. ASSUME IntakeNext
      PROVE  tradedToday \subseteq tradedToday'
  BY <1>1, <1>2, <1>3
     DEF IntakeNext, ReceiveWebhook, WebhookStep, Answer, CheckDuplicate, FetchPrice,
         CountSignals, PickSignalId, CommitSignal, RefreshSignal, ReceiveTrade, OpenTradeStep,
         PickTradeId, CommitTrade, CacheTrade, CleanupTestSignals, redis
<1>4. ASSUME ExitsNext
      PROVE  tradedToday \subseteq tradedToday'
  BY <1>2, <1>4
     DEF ExitsNext, StartJob, ReceiveExit, Hold, CloseTradeStep, CommitExit, DropCache,
         FinishLoop, redis
<1> QED
  BY <1>2, <1>3, <1>4 DEF Next, Crash, vars, redis

\* A webhook goes on with the turn it is in, or leaves it.
GoesOn(h) ==
    \/ req'[h] = req[h]
    \/ req'[h].pc \notin Deciding
    \/ /\ req'[h].pc \in Deciding \ {"saving"} /\ req[h].pc \in Deciding
       /\ req'[h].todo = req[h].todo

\* The three steps of a webhook that matter are the duplicate check, the mark and the
\* commit of the signal.
LEMMA OthersGoOn ==
    ASSUME TypeInv, [Next]_vars, NEW g \in Hook
    PROVE  \/ GoesOn(g)
           \/ CheckDuplicate(g)
           \/ MarkTraded(g)
<1>0. /\ IntakeTypeOK /\ g \in Request /\ g \notin Creator
      /\ req[g] \in RequestType
  BY IntakeAssumption DEF TypeInv, TypeOK, Request, IntakeTypeOK
<1>m. ASSUME NEW r \in Request, NEW new, Now(r, new)
      PROVE  req'[g] = IF r = g THEN new ELSE req[g]
  BY <1>0, <1>m DEF Now, IntakeTypeOK
<1>r. ASSUME NEW r \in Request, \/ End(r) \/ Continue(r)
                                \/ \E e \in BOOLEAN : OpenRaises(r, e)
                                \/ OpenReturns(r)
      PROVE  GoesOn(g)
  <2>1. Fresh("done").pc \notin Deciding
    BY DEF Fresh, Deciding
  <2>2. \A h \in Request : NextTurn(h).pc \notin Deciding
    BY DEF NextTurn, Fresh, Deciding
  <2>3. \A h \in Request, e \in BOOLEAN :
           [NextTurn(h) EXCEPT !.broken = e].pc \notin Deciding
    BY DEF NextTurn, Fresh, Deciding
  <2> QED
    BY <1>r, <1>m, <2>1, <2>2, <2>3 DEF End, Continue, OpenRaises, OpenReturns, GoesOn
<1>s. TRUE \in BOOLEAN /\ FALSE \in BOOLEAN
  OBVIOUS
<1>1. ASSUME NEW h \in Hook, ReceiveWebhook(h)
      PROVE  GoesOn(g)
  <2>1. PICK p \in Payloads : Now(h, [req[h] EXCEPT !.pc = "checking", !.todo = p])
    BY <1>1 DEF ReceiveWebhook
  <2>2. [req[g] EXCEPT !.pc = "checking", !.todo = p].pc \notin Deciding
    BY <1>0 DEF Deciding, RequestType
  <2>3. h \in Request
    BY DEF Request
  <2>4. CASE h = g
    BY <1>m, <2>1, <2>2, <2>3, <2>4 DEF GoesOn
  <2>5. CASE h # g
    BY <1>m, <2>1, <2>3, <2>5 DEF GoesOn
  <2> QED
    BY <2>4, <2>5
<1>2. ASSUME NEW h \in Hook, WebhookStep(h), ~CheckDuplicate(h), ~MarkTraded(h)
      PROVE  GoesOn(g)
  <2>0. h \in Request
    BY DEF Request
  <2>1. CASE Answer(h)
    BY <1>r, <2>0, <2>1 DEF Answer
  <2>2. CASE FetchPrice(h)
    <3>1. ASSUME NEW x \in BOOLEAN, req[g].pc = "pricing"
          PROVE  /\ [req[g] EXCEPT !.pc = "numbering", !.priced = x].pc = "numbering"
                 /\ [req[g] EXCEPT !.pc = "numbering", !.priced = x].todo = req[g].todo
      BY <1>0 DEF RequestType
    <3>2. ASSUME NEW x \in BOOLEAN,
                 Now(h, [req[h] EXCEPT !.pc = "numbering", !.priced = x])
          PROVE  GoesOn(g)
      BY <1>m, <2>0, <2>2, <3>1, <3>2 DEF FetchPrice, GoesOn, Deciding
    <3>3. \A p \in PriceOutcome : (p = "positive") \in BOOLEAN
      OBVIOUS
    <3> QED
      BY <1>r, <2>0, <2>2, <3>2, <3>3 DEF FetchPrice
  <2>3. ASSUME NEW new \in RequestType, new.pc \in {"numbering", "probing", "marking"},
               new.todo = req[h].todo, req[h].pc \in Deciding, Now(h, new)
        PROVE  GoesOn(g)
    BY <1>m, <2>0, <2>3 DEF GoesOn, Deciding
  <2>6. CASE CountSignals(h)
    <3>1. req[h].pc = "numbering" /\ req[h] \in RequestType
      BY <1>0, <2>0, <2>6 DEF CountSignals, IntakeTypeOK
    <3>2. /\ [req[h] EXCEPT !.pc = "probing", !.sid = NextSignalId] \in RequestType
          /\ [req[h] EXCEPT !.pc = "probing", !.sid = NextSignalId].pc = "probing"
          /\ [req[h] EXCEPT !.pc = "probing", !.sid = NextSignalId].todo = req[h].todo
      BY <3>1, NumberTypes DEF RequestType, RequestPc
    <3> QED
      BY <1>r, <2>0, <2>3, <2>6, <3>1, <3>2 DEF CountSignals, Deciding
  <2>7. CASE PickSignalId(h)
    <3>1. req[h].pc = "probing" /\ req[h] \in RequestType
      BY <1>0, <2>0, <2>7 DEF PickSignalId, IntakeTypeOK
    <3>2. ASSUME NEW pc \in {"numbering", "marking"}, NEW n \in 0 .. SidTries - 1,
                 NEW x \in SignalNumber, Now(h, Picked(h, pc, n, x))
          PROVE  GoesOn(g)
      <4>1. /\ Picked(h, pc, n, x) \in RequestType
            /\ Picked(h, pc, n, x).pc = pc /\ Picked(h, pc, n, x).todo = req[h].todo
        BY <3>1 DEF Picked, RequestType, RequestPc
      <4> QED
        BY <2>3, <3>1, <3>2, <4>1 DEF Deciding
    <3>3. /\ req[h].sid \in SignalNumber
          /\ 0 \in 0 .. SidTries - 1
          /\ req[h].tries + 1 < SidTries => req[h].tries + 1 \in 0 .. SidTries - 1
      BY <3>1, IntakeAssumption DEF RequestType
    <3> QED
      BY <1>0, <1>r, <2>0, <2>7, <3>2, <3>3, PickMoves
  <2>4. CASE CommitSignal(h)
    <3>1. ASSUME NEW x
          PROVE  [req[g] EXCEPT !.pc = "reading", !.sig = x].pc \notin Deciding
      BY <1>0 DEF RequestType, Deciding
    <3> QED
      BY <1>m, <1>r, <2>0, <2>4, <3>1 DEF CommitSignal, GoesOn
  <2>5. CASE RefreshSignal(h)
    <3>1. [req[g] EXCEPT !.pc = "naming"].pc \notin Deciding
      BY <1>0 DEF RequestType, Deciding
    <3> QED
      BY <1>m, <1>r, <2>0, <2>5, <3>1 DEF RefreshSignal, GoTo, GoesOn
  <2> QED
    BY <1>2, <2>1, <2>2, <2>4, <2>5, <2>6, <2>7 DEF WebhookStep
<1>3. ASSUME NEW h \in Hook, CheckDuplicate(h) \/ MarkTraded(h), h # g
      PROVE  GoesOn(g)
  <2>1. \E new : Now(h, new)
    BY <1>3 DEF CheckDuplicate, MarkTraded, GoTo, Continue
  <2> QED
    BY <1>3, <1>m, <2>1 DEF GoesOn, Request
<1>4. ASSUME NEW c \in Creator, ReceiveTrade(c)
      PROVE  GoesOn(g)
  BY <1>0, <1>4, <1>m DEF ReceiveTrade, Request, GoesOn
<1>5. ASSUME NEW r \in Request, OpenTradeStep(r)
      PROVE  GoesOn(g)
  <2>1. CASE PickTradeId(r)
    <3>1. ASSUME NEW x
          PROVE  [req[g] EXCEPT !.pc = "opening", !.tid = x].pc \notin Deciding
      BY <1>0 DEF RequestType, Deciding
    <3> QED
      BY <1>m, <1>r, <1>s, <2>1, <3>1 DEF PickTradeId, GoesOn
  <2>2. CASE CommitTrade(r)
    <3>1. ASSUME NEW x
          PROVE  [req[g] EXCEPT !.pc = "caching", !.trade = x].pc \notin Deciding
      BY <1>0 DEF RequestType, Deciding
    <3> QED
      BY <1>m, <1>r, <1>s, <2>2, <3>1 DEF CommitTrade, GoesOn
  <2>3. CASE CacheTrade(r)
    <3>1. \A o \in DbOutcomes : o.raised \in BOOLEAN
      BY OutcomeTypes DEF Outcome
    <3> QED
      BY <1>r, <1>s, <2>3, <3>1 DEF CacheTrade
  <2> QED
    BY <1>5, <2>1, <2>2, <2>3 DEF OpenTradeStep
<1>6. CASE UNCHANGED req
  BY <1>6 DEF GoesOn
<1>7. CASE Crash
  BY <1>0, <1>7 DEF Crash, GoesOn, Fresh, Deciding
<1> QED
  BY <1>1, <1>2, <1>3, <1>4, <1>5, <1>6, <1>7
     DEF Next, IntakeNext, CleanupTestSignals, vars

\* One more, and one less.
LEMMA OneMore ==
    ASSUME NEW S, IsFiniteSet(S), NEW x
    PROVE  /\ IsFiniteSet(S \cup {x}) /\ Cardinality(S) \in Nat
           /\ x \notin S => Cardinality(S \cup {x}) = Cardinality(S) + 1
           /\ Cardinality(S \cup {x}) <= Cardinality(S) + 1
<1>1. Cardinality(S) \in Nat
  BY FS_CardinalityType
<1>2. /\ IsFiniteSet(S \cup {x})
      /\ Cardinality(S \cup {x}) = IF x \in S THEN Cardinality(S) ELSE Cardinality(S) + 1
  BY FS_AddElement, Zenon
<1> QED
  BY <1>1, <1>2

LEMMA OneLess ==
    ASSUME NEW S, IsFiniteSet(S), NEW x \in S
    PROVE  /\ IsFiniteSet(S \ {x}) /\ Cardinality(S) \in Nat
           /\ Cardinality(S \ {x}) = Cardinality(S) - 1
<1>1. Cardinality(S) \in Nat
  BY FS_CardinalityType
<1>2. /\ IsFiniteSet(S \ {x})
      /\ Cardinality(S \ {x}) = IF x \in S THEN Cardinality(S) - 1 ELSE Cardinality(S)
  BY FS_RemoveElement, Zenon
<1> QED
  BY <1>1, <1>2

\* No more webhooks are under way than MaxInFlight.
LEMMA OverlapBounded ==
    ASSUME TypeInv, OverlapInv, [Next]_vars
    PROVE  IsFiniteSet(HooksInFlight)' /\ (Cardinality(HooksInFlight) <= MaxInFlight)'
<1> USE DEF OverlapInv
<1>0. /\ IntakeTypeOK /\ MaxInFlight \in Nat
      /\ Cardinality(HooksInFlight) \in Nat
  BY IntakeAssumption, FS_CardinalityType DEF TypeInv, TypeOK
<1>1. ASSUME HooksInFlight' \subseteq HooksInFlight
      PROVE  IsFiniteSet(HooksInFlight)' /\ (Cardinality(HooksInFlight) <= MaxInFlight)'
  <2>1. /\ IsFiniteSet(HooksInFlight')
        /\ Cardinality(HooksInFlight') <= Cardinality(HooksInFlight)
        /\ Cardinality(HooksInFlight') \in Nat
    BY <1>1, FS_Subset, FS_CardinalityType
  <2> QED
    BY <1>0, <2>1
<1>2. ASSUME NEW h \in Hook, ReceiveWebhook(h)
      PROVE  IsFiniteSet(HooksInFlight)' /\ (Cardinality(HooksInFlight) <= MaxInFlight)'
  <2>1. HooksInFlight' \subseteq HooksInFlight \cup {h}
    BY <1>0, <1>2 DEF ReceiveWebhook, Now, IntakeTypeOK, HooksInFlight, InFlight, Request
  <2>2. /\ IsFiniteSet(HooksInFlight \cup {h})
        /\ Cardinality(HooksInFlight \cup {h}) <= Cardinality(HooksInFlight) + 1
    BY OneMore
  <2>3. /\ IsFiniteSet(HooksInFlight')
        /\ Cardinality(HooksInFlight') <= Cardinality(HooksInFlight \cup {h})
        /\ Cardinality(HooksInFlight') \in Nat
        /\ Cardinality(HooksInFlight \cup {h}) \in Nat
    BY <2>1, <2>2, FS_Subset, FS_CardinalityType
  <2>4. Cardinality(HooksInFlight) < MaxInFlight
    BY <1>2 DEF ReceiveWebhook, HooksInFlight
  <2> QED
    BY <1>0, <2>2, <2>3, <2>4
<1>3. CASE IntakeNext
  <2>1. \A g \in Hook : g \in HooksInFlight' => g \in HooksInFlight \/ ReceiveWebhook(g)
    BY <1>0, <1>3, WhoMoves DEF HooksInFlight, InFlight
  <2> QED
    BY <1>1, <1>2, <2>1 DEF HooksInFlight
<1>4. CASE Crash
  BY <1>1, <1>4 DEF Crash, HooksInFlight, InFlight, Fresh, Resting
<1>5. CASE UNCHANGED req
  BY <1>1, <1>5 DEF HooksInFlight, InFlight
<1> QED
  BY <1>3, <1>4, <1>5 DEF Next, vars

\* A webhook about to enter a symbol was about to before, or has just found the symbol
\* unmarked.
LEMMA WhoDecides ==
    ASSUME RedisMode = "up", TypeInv, [Next]_vars, NEW g \in Hook, req'[g].pc \in Deciding
    PROVE  /\ \/ req[g].pc \in Deciding
              \/ req'[g].pc = "pricing" /\ Sym(g) \notin tradedToday
           /\ Sym(g)' = Sym(g)
           /\ req'[g].pc = "saving" => \/ req'[g] = req[g]
                                       \/ Sym(g) \in tradedToday'
<1>0. IntakeTypeOK /\ RedisOutcomes = {Ok} /\ Ok.applied
  BY DEF TypeInv, TypeOK, RedisOutcomes, Ok
<1>1. CASE GoesOn(g)
  BY <1>1 DEF GoesOn, Sym, Deciding
<1>2. CASE CheckDuplicate(g)
  <2>1. NextTurn(g).pc \notin Deciding
    BY DEF NextTurn, Fresh, Deciding
  <2>2. ~Continue(g)
    BY <1>0, <2>1 DEF Continue, Now, IntakeTypeOK, Request
  <2>3. GoTo(g, "pricing") /\ Sym(g) \notin tradedToday
    BY <1>0, <1>2, <2>2 DEF CheckDuplicate, Remembered
  <2> QED
    BY <1>0, <2>3 DEF GoTo, Now, Sym, IntakeTypeOK, RequestType, Request
<1>3. CASE MarkTraded(g)
  <2>1. req[g].pc = "marking" /\ GoTo(g, "saving") /\ Sym(g) \in tradedToday'
    BY <1>0, <1>3 DEF MarkTraded, Added
  <2>2. Sym(g)' = Sym(g)
    BY <1>0, <2>1 DEF GoTo, Now, Sym, IntakeTypeOK, RequestType, Request
  <2> QED
    BY <2>1, <2>2 DEF Deciding
<1> QED
  BY <1>1, <1>2, <1>3, OthersGoOn

\* Signals and deciders are finitely many.
LEMMA DecidersFinite ==
    ASSUME OverlapInv, NEW y
    PROVE  /\ Deciders(y) \subseteq HooksInFlight /\ IsFiniteSet(Deciders(y))
           /\ Cardinality(Deciders(y)) \in Nat
           /\ Cardinality(Deciders(y)) <= Cardinality(HooksInFlight)
           /\ Cardinality(HooksInFlight) \in Nat
           /\ IsFiniteSet(SignalsOf(y)) /\ Cardinality(SignalsOf(y)) \in Nat
<1>1. Deciders(y) \subseteq HooksInFlight
  BY DEF Deciders, Deciding, HooksInFlight, InFlight, Resting, Request
<1>2. SignalsOf(y) \subseteq Signal
  BY DEF SignalsOf, LiveSignals
<1> QED
  BY <1>1, <1>2, StoreAssumption, FS_Subset, FS_CardinalityType DEF OverlapInv

\* Sets that do not grow keep their bound.
LEMMA SumShrinks ==
    ASSUME NEW A, NEW B, NEW C, NEW D, IsFiniteSet(A), IsFiniteSet(B),
           C \subseteq A, D \subseteq B, NEW n \in Nat,
           Cardinality(A) + Cardinality(B) <= n
    PROVE  Cardinality(C) + Cardinality(D) <= n
<1>1. /\ Cardinality(C) <= Cardinality(A) /\ Cardinality(D) <= Cardinality(B)
      /\ Cardinality(A) \in Nat /\ Cardinality(B) \in Nat
      /\ Cardinality(C) \in Nat /\ Cardinality(D) \in Nat
  BY FS_Subset, FS_CardinalityType
<1> QED
  BY <1>1

\* A webhook that stores its signal is one decider less.
LEMMA CommitCounts ==
    ASSUME TypeInv, OverlapInv, [Next]_vars, RedisMode = "up",
           NEW h \in Hook, CommitSignal(h), ~OldSignals,
           NEW y \in Symbol
    PROVE  /\ Cardinality(SignalsOf(y)') + Cardinality(Deciders(y)') <= MaxInFlight
           /\ \A s \in LiveSignals' : signals'[s].sym \in tradedToday
<1> USE DEF OverlapInv
<1>0. IntakeTypeOK /\ StoreTypeOK /\ MaxInFlight \in Nat /\ h \in Request
  BY IntakeAssumption DEF TypeInv, TypeOK, Request
<1>1. PICK s \in Signal :
         /\ InsertSignal(s, req[h].sid, Sym(h))
         /\ \/ End(h)
            \/ Now(h, [req[h] EXCEPT !.pc = "reading", !.sig = s])
  <2>1. ~UNCHANGED signals
    BY DEF OldSignals, LiveSignals
  <2> QED
    BY <2>1 DEF CommitSignal, store
<1>2. /\ LiveSignals' = LiveSignals \cup {s} /\ signals'[s].sym = Sym(h)
      /\ \A u \in LiveSignals : u # s /\ signals'[u].sym = signals[u].sym
  BY <1>0, <1>1, StatusSets DEF InsertSignal, LiveSignals, StoreTypeOK
<1>3. req[h].pc = "saving" /\ Sym(h) \in tradedToday
  BY DEF CommitSignal
<1>4. req'[h].pc \notin Deciding
  <2>1. /\ Fresh("done").pc \notin Deciding
        /\ [req[h] EXCEPT !.pc = "reading", !.sig = s].pc \notin Deciding
    BY <1>0 DEF Fresh, Deciding, IntakeTypeOK, RequestType
  <2> QED
    BY <1>0, <1>1, <2>1 DEF End, Now, IntakeTypeOK
<1>5. Deciders(y)' \subseteq Deciders(y) \ {h}
  <2>1. \A g \in Hook \ {h} : req'[g] = req[g]
    BY <1>0, <1>1 DEF End, Now, IntakeTypeOK, Request
  <2> QED
    BY <1>4, <2>1 DEF Deciders, Sym
<1>6. CASE y = Sym(h)
  <2>1. h \in Deciders(y)
    BY <1>3, <1>6 DEF Deciders, Deciding
  <2>2. SignalsOf(y)' = SignalsOf(y) \cup {s} /\ s \notin SignalsOf(y)
    BY <1>2, <1>6 DEF SignalsOf
  <2>3. /\ Cardinality(SignalsOf(y)') = Cardinality(SignalsOf(y)) + 1
        /\ Cardinality(Deciders(y) \ {h}) = Cardinality(Deciders(y)) - 1
        /\ IsFiniteSet(Deciders(y) \ {h})
    <3>1. IsFiniteSet(SignalsOf(y)) /\ IsFiniteSet(Deciders(y))
      BY DecidersFinite
    <3> QED
      BY <2>1, <2>2, <3>1, OneMore, OneLess
  <2>4. /\ Cardinality(Deciders(y)') <= Cardinality(Deciders(y) \ {h})
        /\ Cardinality(Deciders(y)') \in Nat
    BY <1>5, <2>3, FS_Subset, FS_CardinalityType
  <2>5. Cardinality(SignalsOf(y)) \in Nat /\ Cardinality(Deciders(y)) \in Nat
    BY DecidersFinite
  <2>6. Cardinality(SignalsOf(y)) + Cardinality(Deciders(y)) <= MaxInFlight
    OBVIOUS
  <2> HIDE DEF OverlapInv
  <2>7. Cardinality(SignalsOf(y)') + Cardinality(Deciders(y)') <= MaxInFlight
    BY <1>0, <2>3, <2>4, <2>5, <2>6
  <2> QED
    BY <1>2, <1>3, <2>7 DEF OverlapInv
<1>7. CASE y # Sym(h)
  <2>1. SignalsOf(y)' \subseteq SignalsOf(y)
    BY <1>2, <1>7 DEF SignalsOf
  <2>2. Cardinality(SignalsOf(y)') + Cardinality(Deciders(y)') <= MaxInFlight
    BY <1>0, <1>5, <2>1, DecidersFinite, SumShrinks
  <2> QED
    BY <1>2, <1>3, <2>2
<1> QED
  BY <1>6, <1>7

LEMMA OverlapKeeps ==
    ASSUME RedisMode = "up", "cleanup" \notin Job, TypeInv, OverlapInv, [Next]_vars
    PROVE  OverlapInv'
<1> USE DEF OverlapInv
<1>0. /\ MaxInFlight \in Nat /\ tradedToday \subseteq tradedToday'
      /\ IsFiniteSet(HooksInFlight)' /\ (Cardinality(HooksInFlight) <= MaxInFlight)'
  BY IntakeAssumption, MarksStay, OverlapBounded
<1>1. \A h \in Hook : req'[h].pc = "saving" => Sym(h)' \in tradedToday'
  BY <1>0, WhoDecides DEF Deciding
<1>2. CASE OldSignals
  <2>1. \A s \in LiveSignals' : signals'[s].sym \in tradedToday'
    BY <1>0, <1>2 DEF OldSignals
  <2>2. ASSUME NEW y \in Symbol
        PROVE  Cardinality(SignalsOf(y)') + Cardinality(Deciders(y)') <= MaxInFlight
    <3>1. SignalsOf(y)' \subseteq SignalsOf(y)
      BY <1>2 DEF OldSignals, SignalsOf
    <3>2. CASE Deciders(y)' \subseteq Deciders(y)
      BY <1>0, <3>1, <3>2, DecidersFinite, SumShrinks
    <3>3. CASE ~(Deciders(y)' \subseteq Deciders(y))
      <4>1. y \notin tradedToday
        BY <3>3, WhoDecides DEF Deciders
      <4>2. SignalsOf(y)' = {}
        BY <3>1, <4>1 DEF SignalsOf
      <4>3. Deciders(y)' \subseteq HooksInFlight'
        BY DEF Deciders, Deciding, HooksInFlight, InFlight, Resting, Request
      <4>4. /\ Cardinality(SignalsOf(y)') = 0
            /\ Cardinality(Deciders(y)') <= Cardinality(HooksInFlight')
            /\ Cardinality(Deciders(y)') \in Nat /\ Cardinality(HooksInFlight') \in Nat
        BY <1>0, <4>2, <4>3, FS_EmptySet, FS_Subset, FS_CardinalityType
      <4> QED
        BY <1>0, <4>4
    <3> QED
      BY <3>2, <3>3
  <2> QED
    BY <1>0, <1>1, <2>1, <2>2
<1>3. ASSUME NEW h \in Hook, CommitSignal(h), ~OldSignals
      PROVE  OverlapInv'
  <2>1. \A y \in Symbol :
           Cardinality(SignalsOf(y)') + Cardinality(Deciders(y)') <= MaxInFlight
    BY <1>3, CommitCounts
  <2>2. \A s \in LiveSignals' : signals'[s].sym \in tradedToday'
    <3>1. Sym(h) \in Symbol
      <4>1. /\ req[h].todo \in Seq(Symbol) /\ req[h].todo # <<>>
        BY <1>3 DEF CommitSignal, TypeInv, TypeOK, IntakeTypeOK, RequestType, Request, MidTurn
      <4> QED
        BY <4>1 DEF Sym
    <3> QED
      BY <1>0, <1>3, <3>1, CommitCounts
  <2> QED
    BY <1>0, <1>1, <2>1, <2>2
<1> QED
  BY <1>2, <1>3, OnlyCommitSignals

LEMMA OverlapHolds ==
    ASSUME RedisMode = "up", "cleanup" \notin Job
    PROVE  Spec => [](TypeInv /\ OverlapInv)
<1>1. Init => TypeInv /\ OverlapInv
  <2> SUFFICES ASSUME Init
               PROVE  TypeInv /\ OverlapInv
    OBVIOUS
  <2>1. TypeInv
    BY DashStarts
  <2>2. LiveSignals = {} /\ \A h \in Hook : req[h].pc = "idle"
    BY StatusSets
       DEF Init, StoreInit, LiveSignals, NoSignal, IntakeInit, Fresh, Request
  <2>3. HooksInFlight = {} /\ \A y : SignalsOf(y) = {} /\ Deciders(y) = {}
    BY <2>2 DEF HooksInFlight, InFlight, Resting, SignalsOf, Deciders, Deciding
  <2>4. IsFiniteSet({}) /\ Cardinality({}) = 0 /\ MaxInFlight \in Nat
    BY FS_EmptySet, IntakeAssumption
  <2>5. \A y \in Symbol : Cardinality(SignalsOf(y)) + Cardinality(Deciders(y)) <= MaxInFlight
    BY <2>3, <2>4
  <2>6. IsFiniteSet(HooksInFlight) /\ Cardinality(HooksInFlight) <= MaxInFlight
    BY <2>3, <2>4
  <2> QED
    BY <2>1, <2>2, <2>5, <2>6 DEF OverlapInv
<1>2. TypeInv /\ OverlapInv /\ [Next]_vars => TypeInv' /\ OverlapInv'
  BY DashSteps, OverlapKeeps
<1> QED
  BY <1>1, <1>2, PTL DEF Spec

\* However many webhooks overlap, and whatever the guards, prices, database errors and
\* restarts: receive_webhook enters a symbol no more often than webhooks were under way
\* at once.  Redis has to answer, and nothing may take the marks away.
THEOREM OverlapBoundsEntries ==
    ASSUME RedisMode = "up", "cleanup" \notin Job
    PROVE  Spec => []SignalsBoundedByOverlap
<1>1. OverlapInv => SignalsBoundedByOverlap
  <2> SUFFICES ASSUME OverlapInv, NEW y \in Symbol
               PROVE  Cardinality(SignalsOf(y)) <= MaxInFlight
    BY DEF SignalsBoundedByOverlap
  <2>1. Cardinality(SignalsOf(y)) + Cardinality(Deciders(y)) <= MaxInFlight
    BY DEF OverlapInv
  <2> QED
    BY <2>1, DecidersFinite, IntakeAssumption
<1> QED
  BY <1>1, OverlapHolds, PTL

\* Where webhooks do not overlap, a symbol is entered once a day.
THEOREM OneSignalWithoutOverlap ==
    ASSUME RedisMode = "up", MaxInFlight = 1, "cleanup" \notin Job
    PROVE  Spec => []OneSignalPerSymbol
<1>1. TypeInv /\ OverlapInv => OneSignalPerSymbol
  <2> SUFFICES ASSUME TypeInv, OverlapInv, NEW s \in LiveSignals, NEW u \in LiveSignals,
                      signals[s].sym = signals[u].sym, s # u
               PROVE  FALSE
    BY DEF OneSignalPerSymbol
  <2> DEFINE y == signals[s].sym
  <2>1. y \in Symbol
    BY DEF OverlapInv, TypeInv, TypeOK
  <2>2. {s, u} \subseteq SignalsOf(y)
    BY DEF SignalsOf
  <2>3. Cardinality({s, u}) = 2
    <3>1. IsFiniteSet({s}) /\ Cardinality({s}) = 1
      BY FS_Singleton
    <3>2. Cardinality({s} \cup {u}) = 2
      BY <3>1, OneMore
    <3>3. {s, u} = {s} \cup {u}
      OBVIOUS
    <3> QED
      BY <3>2, <3>3
  <2>4. Cardinality(SignalsOf(y)) + Cardinality(Deciders(y)) <= 1
    BY <2>1 DEF OverlapInv
  <2>5. /\ IsFiniteSet(SignalsOf(y)) /\ Cardinality(SignalsOf(y)) \in Nat
        /\ Cardinality(Deciders(y)) \in Nat
    BY DecidersFinite
  <2>6. Cardinality({s, u}) <= Cardinality(SignalsOf(y))
    BY <2>2, <2>5, FS_Subset
  <2> HIDE DEF y
  <2> QED
    BY <2>3, <2>4, <2>5, <2>6
<1> QED
  BY <1>1, OverlapHolds, PTL

-----------------------------------------------------------------------------
\* What a symbol is lost by, whatever fails and whoever else is served.

\* Only the mark of a webhook adds to the symbols of the day.
LEMMA OnlyMarksAdd ==
    ASSUME [Next]_vars, NEW y, y \in tradedToday' \ tradedToday
    PROVE  \E h \in Hook : MarkTraded(h) /\ Sym(h) = y
<1>1. ASSUME NEW h \in Hook, MarkTraded(h)
      PROVE  Sym(h) = y
  BY <1>1 DEF MarkTraded, Added
<1>2. CASE tradedToday' \subseteq tradedToday
  BY <1>2
<1>3. CASE IntakeNext
  BY <1>1, <1>2, <1>3
     DEF IntakeNext, ReceiveWebhook, WebhookStep, Answer, CheckDuplicate, FetchPrice,
         CountSignals, PickSignalId, CommitSignal, RefreshSignal, ReceiveTrade, OpenTradeStep,
         PickTradeId, CommitTrade, CacheTrade, CleanupTestSignals, redis
<1>4. CASE ExitsNext
  BY <1>2, <1>4
     DEF ExitsNext, StartJob, ReceiveExit, Hold, CloseTradeStep, CommitExit, DropCache,
         FinishLoop, WipeTrades, WipeSignals, WipeKeys, redis
<1> QED
  BY <1>2, <1>3, <1>4 DEF Next, Crash, vars, redis

\* A webhook about to store its signal does that, or is killed.
LEMMA SavingEnds ==
    ASSUME TypeInv, [Next]_vars, NEW h \in Hook, req[h].pc = "saving"
    PROVE  req'[h] = req[h] \/ CommitSignal(h) \/ req'[h].pc = "done"
<1>0. /\ IntakeTypeOK /\ h \in Request /\ h \in InFlight
  BY DEF TypeInv, TypeOK, Request, InFlight, Resting
<1>m. ASSUME NEW r \in Request, NEW new, Now(r, new), r # h
      PROVE  req'[h] = req[h]
  BY <1>0, <1>m DEF Now, IntakeTypeOK
<1>1. ASSUME NEW r \in Request,
             \/ r \in Hook /\ (ReceiveWebhook(r) \/ WebhookStep(r))
             \/ r \in Creator /\ ReceiveTrade(r)
             \/ OpenTradeStep(r)
      PROVE  req'[h] = req[h] \/ CommitSignal(h)
  <2>1. \E new : Now(r, new)
    BY <1>1 DEF ReceiveWebhook, WebhookStep, Answer, CheckDuplicate, FetchPrice,
                CountSignals, PickSignalId, MarkTraded, CommitSignal, RefreshSignal, ReceiveTrade,
                OpenTradeStep, PickTradeId, CommitTrade, CacheTrade, OpenRaises,
                OpenReturns, End, Continue, GoTo
  <2>2. CASE r = h
    BY <1>1, <2>2
       DEF ReceiveWebhook, WebhookStep, Answer, CheckDuplicate, FetchPrice, CountSignals,
           PickSignalId, MarkTraded, RefreshSignal, ReceiveTrade, OpenTradeStep,
           PickTradeId, CommitTrade, CacheTrade
  <2> QED
    BY <1>m, <2>1, <2>2
<1>2. CASE IntakeNext
  BY <1>1, <1>2 DEF IntakeNext, CleanupTestSignals, Request
<1>3. CASE Crash
  BY <1>0, <1>3 DEF Crash, Fresh
<1> QED
  BY <1>2, <1>3 DEF Next, vars

\* Whatever fails, is skipped or is restarted: a symbol is blocked for the day without a
\* signal only after a webhook that ended between its mark and its signal's commit, or
\* after its signals were deleted.
THEOREM SymbolsAreLostUnsaved == Spec => LostOnlyUnsaved
<1>1. Init => TypeInv
  BY DashStarts
<1>2. TypeInv /\ [Next]_vars => TypeInv'
  BY DashSteps
<1>3. TypeInv /\ TypeInv' /\ [Next]_vars =>
         [\A y \in Symbol :
             Blocked(y)' => \/ Blocked(y)
                            \/ signals' # signals
                            \/ \E h \in Hook : /\ req[h].pc = "saving" /\ Sym(h) = y
                                               /\ req'[h].pc = "done"]_vars
  <2> SUFFICES ASSUME TypeInv, TypeInv', [Next]_vars, NEW y \in Symbol, Blocked(y)',
                      signals' = signals,
                      \A h \in Hook : ~(/\ req[h].pc = "saving" /\ Sym(h) = y
                                        /\ req'[h].pc = "done")
               PROVE  Blocked(y)
    OBVIOUS
  <2>0. IntakeTypeOK
    BY DEF TypeInv, TypeOK
  <2>1. y \in tradedToday
    <3>1. ASSUME NEW h \in Hook, MarkTraded(h), Sym(h) = y
          PROVE  FALSE
      <4>1. req[h] \in RequestType /\ Now(h, [req[h] EXCEPT !.pc = "saving"])
        BY <2>0, <3>1 DEF MarkTraded, GoTo, IntakeTypeOK, Request
      <4>2. req'[h].pc = "saving" /\ req'[h].todo = req[h].todo
        BY <2>0, <4>1 DEF Now, IntakeTypeOK, RequestType, Request
      <4> QED
        BY <3>1, <4>2 DEF Blocked, Sym
    <3> QED
      BY <3>1, OnlyMarksAdd DEF Blocked
  <2>2. SignalsOf(y) = {}
    BY DEF Blocked, SignalsOf, LiveSignals
  <2>3. ASSUME NEW h \in Hook, req[h].pc = "saving", Sym(h) = y
        PROVE  FALSE
    <3>1. CASE req'[h] = req[h]
      BY <2>3, <3>1 DEF Blocked, Sym
    <3>2. CASE CommitSignal(h)
      <4>1. CASE End(h)
        BY <2>0, <2>3, <4>1 DEF End, Now, Fresh, IntakeTypeOK, Request
      <4>2. ASSUME NEW s \in Signal, InsertSignal(s, req[h].sid, Sym(h))
            PROVE  FALSE
        <5>1. signals'[s].status = "pending" /\ signals[s].status = "unborn"
          BY <4>2 DEF InsertSignal, TypeInv, TypeOK, StoreTypeOK
        <5> QED
          BY <5>1
      <4> QED
        BY <3>2, <4>1, <4>2 DEF CommitSignal
    <3> QED
      BY <2>3, <3>1, <3>2, SavingEnds
  <2> QED
    BY <2>1, <2>2, <2>3 DEF Blocked
<1> QED
  BY <1>1, <1>2, <1>3, PTL DEF Spec, LostOnlyUnsaved

-----------------------------------------------------------------------------
\* Every signal gets its trade, when webhooks do not overlap, the database is up, every
\* price is there and nobody else opens trades or wipes them.

\* Before its signal is stored, a webhook has none in hand.
Before == {"idle", "checking", "pricing", "numbering", "probing", "marking", "saving"}

HookInv(h) ==
    /\ req[h].pc \in Before => req[h].sig = None
    /\ req[h].pc \in {"numbering", "probing", "marking", "saving", "reading"} => req[h].priced
    /\ req[h].pc = "opening" => req[h].tid = NextTradeId
    /\ req[h].pc = "caching" /\ req[h].sig \in Signal =>
          signals[req[h].sig].status \notin {"pending", "unborn"}

\* Today's numbers are those counted.
TradesCounted == \A t \in LiveTrades : trades[t].tid <= Cardinality(LiveTrades)

EntryInv == OneAtATime /\ TradesCounted /\ SignalGetsTrade /\ \A h \in Hook : HookInv(h)

\* A signal, once stored, is not stored again, and one that has left "pending" does not
\* come back to it.
LEMMA SignalsAge ==
    ASSUME StoreTypeOK, [StoreNext]_store, NEW s \in Signal
    PROVE  /\ signals'[s].status = "unborn" => signals[s].status = "unborn"
           /\ signals'[s].status = "pending" => signals[s].status \in {"unborn", "pending"}
<1> DEFINE Good == /\ signals'[s].status = "unborn" => signals[s].status = "unborn"
                   /\ signals'[s].status = "pending" =>
                         signals[s].status \in {"unborn", "pending"}
<1>1. ASSUME NEW u \in Signal, NEW sid \in SignalNumber, NEW sym \in Symbol,
             InsertSignal(u, sid, sym)
      PROVE  Good
  BY <1>1 DEF InsertSignal, StoreTypeOK
<1>r. ASSUME NEW sig, NEW status \in {"entered"} \cup Final,
             signals' = Relabelled(sig, status)
      PROVE  Good
  <2>1. status \notin {"unborn", "pending"}
    BY DEF Final
  <2> QED
    BY <1>r, <2>1 DEF Relabelled, StoreTypeOK
<1>2. ASSUME NEW t \in Trade, NEW tid \in Nat, NEW sig \in Signal \cup {None},
             InsertTrade(t, tid, sig)
      PROVE  Good
  BY <1>2, <1>r DEF InsertTrade
<1>3. ASSUME NEW t \in Trade, NEW final \in Final, ExitTrade(t, final)
      PROVE  Good
  BY <1>3, <1>r DEF ExitTrade
<1>4. ASSUME DeleteAllTrades
      PROVE  Good
  BY <1>4 DEF DeleteAllTrades
<1>5. ASSUME NEW S \in SUBSET Signal, DeleteSignals(S)
      PROVE  Good
  BY <1>5 DEF DeleteSignals, NoSignal
<1>6. ASSUME UNCHANGED store
      PROVE  Good
  BY <1>6 DEF store
<1> QED
  BY <1>1, <1>2, <1>3, <1>4, <1>5, <1>6 DEF StoreNext

\* No trade appears, disappears or changes its number.
SameTrades ==
    /\ LiveTrades' = LiveTrades
    /\ \A t \in LiveTrades : trades'[t].tid = trades[t].tid

LEMMA OnlyCommitTrades ==
    ASSUME TypeInv, [Next]_vars
    PROVE  \/ SameTrades
           \/ \E r \in Request : CommitTrade(r)
           \/ "cleanup" \in Job /\ DeleteAllTrades
<1>0. StoreTypeOK
  BY DEF TypeInv, TypeOK
<1>1. ASSUME UNCHANGED trades
      PROVE  SameTrades
  BY <1>1 DEF SameTrades, LiveTrades
<1>2. ASSUME NEW c \in Closer, NEW t \in Trade, CommitExit(c, t)
      PROVE  SameTrades
  <2>1. ASSUME NEW final \in Verdicts(c), ExitTrade(t, final)
        PROVE  SameTrades
    <3>1. final \in Live
      BY VerdictsAreFinal, StatusSets
    <3>2. /\ t \in LiveTrades /\ trades'[t].status = final /\ trades'[t].tid = trades[t].tid
          /\ \A u \in Trade : u # t => trades'[u] = trades[u]
      BY <1>0, <2>1 DEF ExitTrade, StoreTypeOK, LiveTrades
    <3> QED
      BY <3>1, <3>2 DEF SameTrades, LiveTrades
  <2> QED
    BY <1>1, <1>2, <2>1 DEF CommitExit, store
<1>3. ASSUME CleanupTestSignals
      PROVE  SameTrades
  <2>1. PICK S \in SUBSET Signal : DeleteSignals(S)
    BY <1>3 DEF CleanupTestSignals
  <2>2. \A t \in Trade : /\ trades'[t].status = trades[t].status
                         /\ trades'[t].tid = trades[t].tid
    BY <1>0, <2>1 DEF DeleteSignals, StoreTypeOK
  <2> QED
    BY <2>2 DEF SameTrades, LiveTrades
<1>4. ASSUME IntakeNext
      PROVE  SameTrades \/ \E r \in Request : CommitTrade(r)
  <2>1. \/ UNCHANGED trades \/ CleanupTestSignals
        \/ \E r \in Request : CommitTrade(r)
    BY <1>4
       DEF IntakeNext, ReceiveWebhook, WebhookStep, Answer, CheckDuplicate, FetchPrice,
           CountSignals, PickSignalId, MarkTraded, CommitSignal, InsertSignal, RefreshSignal,
           ReceiveTrade, OpenTradeStep, PickTradeId, CacheTrade, store
  <2> QED
    BY <1>1, <1>3, <2>1
<1>5. ASSUME "cleanup" \in Job, WipeSignals
      PROVE  SameTrades
  <2>1. CASE UNCHANGED store
    BY <1>1, <2>1 DEF store
  <2>2. CASE DeleteSignals(Signal)
    <3>1. \A t \in Trade : /\ trades'[t].status = trades[t].status
                           /\ trades'[t].tid = trades[t].tid
      BY <1>0, <2>2 DEF DeleteSignals, StoreTypeOK
    <3> QED
      BY <3>1 DEF SameTrades, LiveTrades
  <2> QED
    BY <1>5, <2>1, <2>2 DEF WipeSignals
<1>6. ASSUME ExitsNext
      PROVE  SameTrades \/ ("cleanup" \in Job /\ DeleteAllTrades)
  <2>1. \/ UNCHANGED trades \/ \E c \in Closer, t \in Trade : CommitExit(c, t)
        \/ "cleanup" \in Job /\ (WipeSignals \/ DeleteAllTrades)
    BY <1>6
       DEF ExitsNext, StartJob, ReceiveExit, Hold, CloseTradeStep, DropCache, FinishLoop,
           WipeTrades, WipeKeys, store
  <2> QED
    BY <1>1, <1>2, <1>5, <2>1
<1> QED
  BY <1>1, <1>4, <1>6 DEF Next, Crash, vars, store

LEMMA TradesAreCounted ==
    /\ Cardinality(LiveTrades) \in Nat /\ IsFiniteSet(LiveTrades)
    /\ NextTradeId = Cardinality(LiveTrades) + 1
<1>1. IsFiniteSet(LiveTrades)
  BY StoreAssumption, FS_Subset DEF LiveTrades
<1> QED
  BY <1>1, FS_CardinalityType DEF NextTradeId

\* What a request writes of a new trade.
LEMMA TradeInserted ==
    ASSUME StoreTypeOK, NEW t \in Trade, NEW tid \in Nat, NEW sig \in Signal \cup {None},
           InsertTrade(t, tid, sig)
    PROVE  /\ t \notin LiveTrades /\ LiveTrades' = LiveTrades \cup {t}
           /\ trades'[t].tid = tid /\ trades'[t].status = "entered"
           /\ \A u \in Trade : u # t => trades'[u] = trades[u]
           /\ Cardinality(LiveTrades') = Cardinality(LiveTrades) + 1
<1>1. /\ trades'[t].tid = tid /\ trades'[t].status = "entered"
      /\ trades[t].status = "unborn"
      /\ \A u \in Trade : u # t => trades'[u] = trades[u]
  BY DEF InsertTrade, StoreTypeOK
<1>2. t \notin LiveTrades /\ LiveTrades' = LiveTrades \cup {t}
  BY <1>1, StatusSets DEF LiveTrades
<1>3. Cardinality(LiveTrades') = Cardinality(LiveTrades) + 1
  BY <1>2, TradesAreCounted, FS_AddElement
<1> QED
  BY <1>1, <1>2, <1>3

\* A webhook that is not moving keeps what is known of it.
LEMMA WaitingKeeps ==
    ASSUME StoreTypeOK, [StoreNext]_store, NEW h \in Hook, HookInv(h), req'[h] = req[h],
           SameTrades \/ req[h].pc # "opening"
    PROVE  HookInv(h)'
<1>1. NextTradeId' = NextTradeId \/ req[h].pc # "opening"
  BY DEF SameTrades, NextTradeId
<1>2. req[h].sig \in Signal /\ signals[req[h].sig].status \notin {"pending", "unborn"} =>
         signals'[req[h].sig].status \notin {"pending", "unborn"}
  BY SignalsAge
<1> QED
  BY <1>1, <1>2 DEF HookInv

\* A webhook keeps a signal in hand as long as it is pending.
HoldsOn(h) ==
    \A s \in Signal : /\ signals[s].status = "pending" /\ signals'[s].status = "pending"
                      /\ req[h].sig = s
                      => req'[h].sig = s

\* It may drop one that is not.
LEMMA DroppingKeeps ==
    ASSUME NEW h \in Hook, NEW e,
           \/ req'[h] = Fresh("done")
           \/ req'[h] = NextTurn(h)
           \/ req'[h] = [NextTurn(h) EXCEPT !.broken = e],
           req[h].sig \in Signal => \/ signals[req[h].sig].status # "pending"
                                    \/ signals'[req[h].sig].status # "pending"
    PROVE  HookInv(h)' /\ HoldsOn(h)
<1>1. /\ Fresh("done").pc = "done" /\ Fresh("done").sig = None
      /\ NextTurn(h).pc = "checking" /\ NextTurn(h).sig = None
  BY DEF Fresh, NextTurn
<1>2. /\ [NextTurn(h) EXCEPT !.broken = e].pc = "checking"
      /\ [NextTurn(h) EXCEPT !.broken = e].sig = None
  BY DEF Fresh, NextTurn
<1>3. req'[h].pc \in {"done", "checking"} /\ req'[h].sig = None
  BY <1>1, <1>2
<1> QED
  BY <1>3 DEF HookInv, HoldsOn

\* A move that keeps the signal in hand holds on.
LEMMA SameSigHolds ==
    ASSUME NEW h \in Hook, req'[h].sig = req[h].sig
    PROVE  HoldsOn(h)
BY DEF HoldsOn

\* Whatever step a webhook takes, it keeps its signal until that has left "pending".
LEMMA MoverKeeps ==
    ASSUME DbFaults = FALSE, "zero" \notin PriceOutcome,
           TypeInv, TradesCounted, NEW h \in Hook, h \notin Creator, HookInv(h),
           ReceiveWebhook(h) \/ WebhookStep(h) \/ OpenTradeStep(h)
    PROVE  HookInv(h)' /\ HoldsOn(h)
<1>0. /\ IntakeTypeOK /\ StoreTypeOK /\ h \in Request /\ req[h] \in RequestType
      /\ DbOutcomes = {Ok} /\ Ok.applied /\ ~Ok.raised /\ Refused \notin DbOutcomes
      /\ None \notin Signal
  BY StoreAssumption
     DEF TypeInv, TypeOK, IntakeTypeOK, Request, DbOutcomes, Ok, Refused
<1>m. ASSUME NEW new, Now(h, new)
      PROVE  req'[h] = new
  BY <1>0, <1>m DEF Now, IntakeTypeOK
<1>b. req[h].pc \in Before => req[h].sig \notin Signal
  BY <1>0 DEF HookInv
<1>e. ASSUME End(h) \/ Continue(h) \/ OpenReturns(h) \/ \E e \in BOOLEAN : OpenRaises(h, e),
             req[h].sig \in Signal => \/ signals[req[h].sig].status # "pending"
                                      \/ signals'[req[h].sig].status # "pending"
      PROVE  HookInv(h)' /\ HoldsOn(h)
  <2>1. \/ req'[h] = Fresh("done") \/ req'[h] = NextTurn(h)
        \/ \E e \in BOOLEAN : req'[h] = [NextTurn(h) EXCEPT !.broken = e]
    BY <1>e, <1>m DEF End, Continue, OpenReturns, OpenRaises
  <2> QED
    BY <1>e, <2>1, DroppingKeeps
<1>1. ASSUME ReceiveWebhook(h)
      PROVE  HookInv(h)' /\ HoldsOn(h)
  <2>1. PICK p \in Payloads : req'[h] = [req[h] EXCEPT !.pc = "checking", !.todo = p]
    BY <1>1, <1>m DEF ReceiveWebhook
  <2>2. req'[h].pc = "checking" /\ req'[h].sig = req[h].sig
    BY <1>0, <2>1 DEF RequestType
  <2>3. req[h].sig = None
    BY <1>1 DEF ReceiveWebhook, HookInv, Before
  <2> QED
    BY <2>2, <2>3, SameSigHolds DEF HookInv
<1>2. ASSUME Answer(h)
      PROVE  HookInv(h)' /\ HoldsOn(h)
  BY <1>2, <1>b, <1>e DEF Answer, Before
<1>g. ASSUME NEW pc \in RequestPc, GoTo(h, pc)
      PROVE  /\ req'[h].pc = pc /\ req'[h].sig = req[h].sig
             /\ req'[h].priced = req[h].priced /\ req'[h].tid = req[h].tid
  <2>1. req'[h] = [req[h] EXCEPT !.pc = pc]
    BY <1>g, <1>m DEF GoTo
  <2> QED
    BY <1>0, <2>1 DEF RequestType
<1>3. ASSUME CheckDuplicate(h)
      PROVE  HookInv(h)' /\ HoldsOn(h)
  <2>1. CASE Continue(h)
    BY <1>3, <1>b, <1>e, <2>1 DEF CheckDuplicate, Before
  <2>2. CASE GoTo(h, "pricing")
    <3>1. req'[h].pc = "pricing" /\ req'[h].sig = req[h].sig /\ req[h].sig = None
      BY <1>3, <1>g, <2>2 DEF CheckDuplicate, HookInv, Before, RequestPc
    <3> QED
      BY <3>1, SameSigHolds DEF HookInv
  <2> QED
    BY <1>3, <2>1, <2>2 DEF CheckDuplicate
<1>4. ASSUME FetchPrice(h)
      PROVE  HookInv(h)' /\ HoldsOn(h)
  <2>1. CASE Continue(h) \/ End(h)
    BY <1>4, <1>b, <1>e, <2>1 DEF FetchPrice, Before
  <2>2. ASSUME NEW p \in {"positive"},
               Now(h, [req[h] EXCEPT !.pc = "numbering", !.priced = (p = "positive")])
        PROVE  HookInv(h)' /\ HoldsOn(h)
    <3>1. req'[h] = [req[h] EXCEPT !.pc = "numbering", !.priced = TRUE]
      BY <1>m, <2>2
    <3>2. /\ req'[h].pc = "numbering" /\ req'[h].sig = req[h].sig /\ req'[h].priced
          /\ req[h].sig = None
      BY <1>0, <1>4, <3>1 DEF RequestType, FetchPrice, HookInv, Before
    <3> QED
      BY <3>2, SameSigHolds DEF HookInv
  <2>3. \A p \in PriceOutcome : p \in {"positive", "zero"} => p \in {"positive"}
    OBVIOUS
  <2> QED
    BY <1>4, <2>1, <2>2, <2>3 DEF FetchPrice
<1>p. ASSUME NEW pc \in {"numbering", "probing", "marking"}, req[h].pc \in {"numbering", "probing"},
             NEW new, new.pc = pc, new.sig = req[h].sig, new.priced = req[h].priced, Now(h, new)
      PROVE  HookInv(h)' /\ HoldsOn(h)
  <2>1. req'[h] = new
    BY <1>m, <1>p
  <2>2. /\ req'[h].pc = pc /\ req'[h].sig = req[h].sig
        /\ req'[h].priced /\ req[h].sig = None
    BY <1>p, <2>1 DEF HookInv, Before
  <2> QED
    BY <2>2, SameSigHolds DEF HookInv
<1>c. ASSUME CountSignals(h)
      PROVE  HookInv(h)' /\ HoldsOn(h)
  <2>1. CASE End(h)
    BY <1>c, <1>b, <1>e, <2>1 DEF CountSignals, Before
  <2>2. CASE Now(h, [req[h] EXCEPT !.pc = "probing", !.sid = NextSignalId])
    <3>1. /\ [req[h] EXCEPT !.pc = "probing", !.sid = NextSignalId].pc = "probing"
          /\ [req[h] EXCEPT !.pc = "probing", !.sid = NextSignalId].sig = req[h].sig
          /\ [req[h] EXCEPT !.pc = "probing", !.sid = NextSignalId].priced = req[h].priced
      BY <1>0 DEF RequestType
    <3>2. req[h].pc = "numbering"
      BY <1>c DEF CountSignals
    <3> QED
      BY <1>p, <2>2, <3>1, <3>2
  <2> QED
    BY <1>c, <2>1, <2>2 DEF CountSignals
<1>5. ASSUME PickSignalId(h)
      PROVE  HookInv(h)' /\ HoldsOn(h)
  <2>1. CASE End(h)
    BY <1>5, <1>b, <1>e, <2>1 DEF PickSignalId, Before
  <2>2. ASSUME NEW pc \in {"numbering", "marking"}, NEW n, NEW x, Now(h, Picked(h, pc, n, x))
        PROVE  HookInv(h)' /\ HoldsOn(h)
    <3>1. /\ Picked(h, pc, n, x).pc = pc /\ Picked(h, pc, n, x).sig = req[h].sig
          /\ Picked(h, pc, n, x).priced = req[h].priced
      BY <1>0 DEF RequestType, Picked
    <3>2. req[h].pc = "probing"
      BY <1>5 DEF PickSignalId
    <3> QED
      BY <1>p, <2>2, <3>1, <3>2
  <2> QED
    BY <1>0, <1>5, <2>1, <2>2, PickMoves
<1>6. ASSUME MarkTraded(h)
      PROVE  HookInv(h)' /\ HoldsOn(h)
  <2>1. /\ req'[h].pc = "saving" /\ req'[h].sig = req[h].sig
        /\ req'[h].priced = req[h].priced
    BY <1>6, <1>g DEF MarkTraded, RequestPc
  <2>2. req[h].sig = None /\ req[h].priced
    BY <1>6 DEF MarkTraded, HookInv, Before
  <2> QED
    BY <2>1, <2>2, SameSigHolds DEF HookInv
<1>7. ASSUME CommitSignal(h)
      PROVE  HookInv(h)' /\ HoldsOn(h)
  <2>1. CASE End(h)
    BY <1>7, <1>b, <1>e, <2>1 DEF CommitSignal, Before
  <2>2. ASSUME NEW s \in Signal, Now(h, [req[h] EXCEPT !.pc = "reading", !.sig = s])
        PROVE  HookInv(h)' /\ HoldsOn(h)
    <3>1. req'[h] = [req[h] EXCEPT !.pc = "reading", !.sig = s]
      BY <1>m, <2>2
    <3>2. req'[h].pc = "reading" /\ req'[h].priced = req[h].priced
      BY <1>0, <3>1 DEF RequestType
    <3>3. req[h].sig \notin Signal /\ req[h].priced
      BY <1>0, <1>7 DEF CommitSignal, HookInv, Before
    <3>4. HookInv(h)'
      BY <3>2, <3>3 DEF HookInv, Before
    <3> QED
      BY <3>3, <3>4 DEF HoldsOn
  <2> QED
    BY <1>7, <2>1, <2>2 DEF CommitSignal
<1>8. ASSUME RefreshSignal(h)
      PROVE  HookInv(h)' /\ HoldsOn(h)
  <2>1. req[h].priced
    BY <1>8 DEF RefreshSignal, HookInv
  <2>2. CASE End(h) /\ req[h].sig \notin LiveSignals
    <3>1. req[h].sig \in Signal => signals[req[h].sig].status # "pending"
      BY <2>2, StatusSets DEF LiveSignals
    <3> QED
      BY <1>e, <2>2, <3>1
  <2>3. CASE GoTo(h, "naming")
    <3>1. req'[h].pc = "naming" /\ req'[h].sig = req[h].sig
      BY <1>g, <2>3 DEF RequestPc
    <3> QED
      BY <3>1, SameSigHolds DEF HookInv, Before
  <2> QED
    BY <1>0, <1>8, <2>1, <2>2, <2>3 DEF RefreshSignal
<1>9. ASSUME PickTradeId(h)
      PROVE  HookInv(h)' /\ HoldsOn(h)
  <2>1. Now(h, [req[h] EXCEPT !.pc = "opening", !.tid = NextTradeId])
    BY <1>0, <1>9 DEF PickTradeId
  <2>2. req'[h] = [req[h] EXCEPT !.pc = "opening", !.tid = NextTradeId]
    BY <1>m, <2>1
  <2>3. /\ req'[h].pc = "opening" /\ req'[h].tid = NextTradeId
        /\ req'[h].sig = req[h].sig
    BY <1>0, <2>2 DEF RequestType
  <2>4. NextTradeId' = NextTradeId
    BY <1>9 DEF PickTradeId, store, NextTradeId, LiveTrades
  <2> QED
    BY <2>3, <2>4, SameSigHolds DEF HookInv, Before
<1>10. ASSUME CommitTrade(h)
       PROVE  HookInv(h)' /\ HoldsOn(h)
  <2>1. ~TradeIdTaken(req[h].tid)
    <3>1. req[h].tid = Cardinality(LiveTrades) + 1
      BY <1>10, TradesAreCounted DEF CommitTrade, HookInv
    <3>2. \A t \in LiveTrades : trades[t].tid \in Nat
      BY <1>0 DEF StoreTypeOK, LiveTrades
    <3> QED
      BY <3>1, <3>2, TradesAreCounted DEF TradeIdTaken, TradesCounted
  <2>2. CASE OpenRaises(h, TRUE) /\ req[h].sig \notin LiveSignals \cup {None}
    <3>1. req[h].sig \in Signal => signals[req[h].sig].status # "pending"
      BY <2>2, StatusSets DEF LiveSignals
    <3> QED
      BY <1>e, <2>2, <3>1
  <2>3. ASSUME NEW t \in Trade, InsertTrade(t, req[h].tid, req[h].sig),
               Now(h, [req[h] EXCEPT !.pc = "caching", !.trade = t])
        PROVE  HookInv(h)' /\ HoldsOn(h)
    <3>1. req'[h] = [req[h] EXCEPT !.pc = "caching", !.trade = t]
      BY <1>m, <2>3
    <3>2. req'[h].pc = "caching" /\ req'[h].sig = req[h].sig
      BY <1>0, <3>1 DEF RequestType
    <3>3. req[h].sig \in Signal => signals'[req[h].sig].status = "entered"
      BY <1>0, <2>3 DEF InsertTrade, Relabelled, StoreTypeOK
    <3> QED
      BY <3>2, <3>3, SameSigHolds DEF HookInv, Before
  <2> QED
    BY <1>0, <1>10, <2>1, <2>2, <2>3 DEF CommitTrade
<1>11. ASSUME CacheTrade(h)
       PROVE  HookInv(h)' /\ HoldsOn(h)
  <2>1. req[h].sig \in Signal => signals[req[h].sig].status # "pending"
    BY <1>11 DEF CacheTrade, HookInv
  <2>2. FALSE \in BOOLEAN /\ \A o \in DbOutcomes : o.raised \in BOOLEAN
    BY OutcomeTypes DEF Outcome
  <2>3. OpenReturns(h) \/ \E e \in BOOLEAN : OpenRaises(h, e)
    BY <1>11, <2>2 DEF CacheTrade
  <2> QED
    BY <1>e, <2>1, <2>3
<1> QED
  BY <1>1, <1>2, <1>3, <1>4, <1>5, <1>6, <1>7, <1>8, <1>9, <1>10, <1>11, <1>c
     DEF WebhookStep, OpenTradeStep

\* The other webhooks wait, and the daily numbers are counted on.
LEMMA EntryKeeps ==
    ASSUME DbFaults = FALSE, MaxInFlight = 1, Creator = {}, "zero" \notin PriceOutcome,
           "cleanup" \notin Job, TypeInv, EntryInv, [Next]_vars
    PROVE  EntryInv'
<1> USE DEF EntryInv
<1>0. /\ IntakeTypeOK /\ StoreTypeOK /\ StoreTypeOK' /\ crashes \in Nat
      /\ [StoreNext]_store /\ OneAtATime' /\ Request = Hook
      /\ DbOutcomes = {Ok} /\ ~Ok.raised
  BY DashSteps, TurnsDoNotOverlap DEF TypeInv, TypeOK, Request, DbOutcomes, Ok
<1>1. ASSUME NEW r \in Request, CommitTrade(r)
      PROVE  /\ \A h \in Hook \ {r} : req[h].pc # "opening"
             /\ TradesCounted'
  <2>1. r \in Hook /\ req[r].pc = "opening" /\ req[r].tid = NextTradeId
    BY <1>0, <1>1 DEF CommitTrade, HookInv
  <2>2. \A h \in Hook : req[h].pc = "opening" => h \in InFlight
    BY <1>0 DEF InFlight, Resting
  <2>3. ASSUME UNCHANGED store
        PROVE  TradesCounted'
    BY <2>3 DEF store, TradesCounted, LiveTrades
  <2>4. ASSUME NEW t \in Trade, InsertTrade(t, req[r].tid, req[r].sig)
        PROVE  TradesCounted'
    <3>1. req[r].tid \in Nat /\ req[r].sig \in Signal \cup {None}
      BY <1>0 DEF IntakeTypeOK, RequestType
    <3>2. \A u \in LiveTrades : trades[u].tid \in Nat
      BY <1>0 DEF StoreTypeOK, LiveTrades
    <3>3. /\ LiveTrades' = LiveTrades \cup {t} /\ trades'[t].tid = NextTradeId
          /\ \A u \in LiveTrades : trades'[u].tid = trades[u].tid
          /\ Cardinality(LiveTrades') = Cardinality(LiveTrades) + 1
      BY <1>0, <2>1, <2>4, <3>1, TradeInserted DEF LiveTrades
    <3> QED
      BY <3>2, <3>3, TradesAreCounted DEF TradesCounted
  <2>5. UNCHANGED store \/ \E t \in Trade : InsertTrade(t, req[r].tid, req[r].sig)
    BY <1>1 DEF CommitTrade
  <2> QED
    BY <2>1, <2>2, <2>3, <2>4, <2>5 DEF OneAtATime
<1>2. TradesCounted'
  <2>1. CASE SameTrades
    BY <2>1 DEF SameTrades, TradesCounted
  <2> QED
    BY <1>1, <2>1, OnlyCommitTrades
<1>3. ASSUME NEW h \in Hook
      PROVE  \/ req'[h] = req[h]
             \/ ReceiveWebhook(h) \/ WebhookStep(h) \/ OpenTradeStep(h)
             \/ Crash
  <2>m. ASSUME NEW r \in Request, NEW new, Now(r, new), r # h
        PROVE  req'[h] = req[h]
    BY <1>0, <2>m DEF Now, IntakeTypeOK
  <2>1. ASSUME NEW r \in Request,
               ReceiveWebhook(r) \/ WebhookStep(r) \/ OpenTradeStep(r)
        PROVE  \E new : Now(r, new)
    BY <2>1 DEF ReceiveWebhook, WebhookStep, Answer, CheckDuplicate, FetchPrice,
                CountSignals, PickSignalId, MarkTraded, CommitSignal, RefreshSignal, OpenTradeStep,
                PickTradeId, CommitTrade, CacheTrade, OpenRaises, OpenReturns, End,
                Continue, GoTo
  <2> QED
    BY <1>0, <2>m, <2>1 DEF Next, IntakeNext, CleanupTestSignals, vars
<1>4. ASSUME NEW h \in Hook
      PROVE  HookInv(h)' /\ (HoldsOn(h) \/ Crash)
  <2>1. CASE req'[h] = req[h]
    <3>1. SameTrades \/ req[h].pc # "opening" \/ CommitTrade(h)
      BY <1>0, <1>1, OnlyCommitTrades
    <3>2. ~CommitTrade(h)
      <4>1. ASSUME CommitTrade(h)
            PROVE  FALSE
        <5>1. req[h].pc = "opening" /\ req[h] \in RequestType /\ h \notin Creator
          BY <1>0, <4>1 DEF CommitTrade, IntakeTypeOK
        <5>2. \/ \E t \in Trade : req'[h] = [req[h] EXCEPT !.pc = "caching", !.trade = t]
              \/ req'[h] = [NextTurn(h) EXCEPT !.broken = TRUE]
          BY <1>0, <4>1, <5>1 DEF CommitTrade, OpenRaises, Now, IntakeTypeOK
        <5>3. [NextTurn(h) EXCEPT !.broken = TRUE].pc = "checking"
          BY DEF NextTurn, Fresh
        <5> QED
          BY <2>1, <5>1, <5>2, <5>3 DEF RequestType
      <4> QED
        BY <4>1
    <3> QED
      BY <1>0, <2>1, <3>1, <3>2, WaitingKeeps, SameSigHolds
  <2>2. CASE ReceiveWebhook(h) \/ WebhookStep(h) \/ OpenTradeStep(h)
    BY <1>0, <2>2, MoverKeeps
  <2>3. CASE Crash
    <3>1. req'[h] = req[h] \/ req'[h] = Fresh("done")
      BY <1>0, <2>3 DEF Crash
    <3>2. ASSUME req'[h] = Fresh("done")
          PROVE  HookInv(h)'
      BY <3>2 DEF HookInv, Fresh
    <3> QED
      BY <2>1, <2>3, <3>1, <3>2
  <2> QED
    BY <1>3, <2>1, <2>2, <2>3
<1>5. SignalGetsTrade'
  <2> SUFFICES ASSUME crashes' = 0, NEW s \in Signal, signals'[s].status = "pending"
               PROVE  \E h \in Hook : req'[h].sig = s
    BY DEF SignalGetsTrade, LiveSignals
  <2>1. crashes = 0 /\ ~Crash
    BY <1>0 DEF Next, Crash, vars
  <2>2. CASE signals[s].status = "pending"
    <3>1. s \in LiveSignals
      BY <2>2, StatusSets DEF LiveSignals
    <3>2. PICK h \in Hook : req[h].sig = s
      BY <2>1, <2>2, <3>1 DEF SignalGetsTrade
    <3> QED
      BY <1>4, <2>1, <2>2, <3>2 DEF HoldsOn
  <2>3. CASE signals[s].status = "unborn"
    <3>1. s \notin LiveSignals /\ s \in LiveSignals'
      BY <2>3, StatusSets DEF LiveSignals
    <3>2. PICK h \in Hook : CommitSignal(h)
      BY <3>1, OnlyCommitSignals DEF OldSignals
    <3>3. PICK u \in Signal : /\ InsertSignal(u, req[h].sid, Sym(h))
                              /\ Now(h, [req[h] EXCEPT !.pc = "reading", !.sig = u])
      BY <1>0, <2>3, <3>2 DEF CommitSignal, store
    <3>4. s = u
      BY <1>0, <2>3, <3>3 DEF InsertSignal, StoreTypeOK
    <3>5. req'[h].sig = u
      BY <1>0, <3>3 DEF Now, IntakeTypeOK, RequestType
    <3> QED
      BY <3>4, <3>5
  <2> QED
    BY <1>0, <2>2, <2>3, SignalsAge
<1> QED
  BY <1>0, <1>2, <1>4, <1>5

\* receive_webhook leaves no signal behind without its trade: as long as the database
\* answers, webhooks do not overlap, no client posts trades, no price is zero and the
\* weekly cleanup is not under way, whatever Redis, the exits and the test cleanup do.
THEOREM EverySignalGetsTrade ==
    ASSUME DbFaults = FALSE, MaxInFlight = 1, Creator = {}, "zero" \notin PriceOutcome,
           "cleanup" \notin Job
    PROVE  Spec => []SignalGetsTrade
<1>1. Init => TypeInv /\ EntryInv
  <2> SUFFICES ASSUME Init
               PROVE  TypeInv /\ EntryInv
    OBVIOUS
  <2>1. TypeInv
    BY DashStarts
  <2>2. LiveSignals = {} /\ LiveTrades = {}
    BY StatusSets DEF Init, StoreInit, LiveSignals, LiveTrades, NoSignal, NoTrade
  <2>3. \A h \in Hook : req[h].pc = "idle" /\ req[h].sig = None
    BY DEF Init, IntakeInit, Fresh, Request
  <2>4. None \notin Signal
    BY StoreAssumption
  <2>5. OneAtATime /\ \A h \in Hook : HookInv(h)
    BY <2>3, <2>4 DEF OneAtATime, InFlight, Resting, HookInv
  <2> QED
    BY <2>1, <2>2, <2>5 DEF EntryInv, TradesCounted, SignalGetsTrade
<1>2. TypeInv /\ EntryInv /\ [Next]_vars => TypeInv' /\ EntryInv'
  BY DashSteps, EntryKeeps
<1>3. EntryInv => SignalGetsTrade
  BY DEF EntryInv
<1> QED
  BY <1>1, <1>2, <1>3, PTL DEF Spec

-----------------------------------------------------------------------------
\* Every open trade has its hash in Redis, or a request about to write it, when the
\* backends answer: the numbers of live trades differ, so that whoever drops the hash
\* of a closed trade does not take that of an open one.

NumbersDiffer ==
    \A t, u \in LiveTrades : trades[t].tid = trades[u].tid => t = u

\* What a request has in hand is the row it committed.
InHand(r) ==
    IF req[r].pc = "caching"
    THEN /\ req[r].trade \in Trade
         /\ trades[req[r].trade].status # "unborn"
         /\ req[r].trade \in LiveTrades => trades[req[r].trade].tid = req[r].tid
    ELSE req[r].trade = None

\* The trade whose hash a closer is dropping is not open.
DropsClosed(c) ==
    exit[c].pc = "dropping" => /\ exit[c].cur \in Trade
                               /\ trades[exit[c].cur].status \notin {"unborn", "entered"}

CacheInv ==
    /\ NumbersDiffer
    /\ \A r \in Request : InHand(r)
    /\ \A c \in Closer : DropsClosed(c)
    /\ OpenTradeCached

\* A request goes its way with no trade in hand.
GoesEmpty(r) ==
    req[r].pc # "caching" /\ req'[r].pc # "caching" /\ req'[r].trade \in {None, req[r].trade}

\* A turn or a request that ends leaves no trade in hand.
LEMMA EndsEmpty ==
    ASSUME IntakeTypeOK, NEW r \in Request,
           \/ End(r) \/ Continue(r) \/ OpenReturns(r)
           \/ \E e \in BOOLEAN : OpenRaises(r, e)
    PROVE  req'[r].pc \in {"done", "checking"} /\ req'[r].trade = None
<1>1. \/ req'[r] = Fresh("done") \/ req'[r] = NextTurn(r)
      \/ \E e \in BOOLEAN : req'[r] = [NextTurn(r) EXCEPT !.broken = e]
  BY DEF End, Continue, OpenReturns, OpenRaises, Now, IntakeTypeOK
<1>2. /\ Fresh("done").pc = "done" /\ Fresh("done").trade = None
      /\ NextTurn(r).pc = "checking" /\ NextTurn(r).trade = None
  BY DEF Fresh, NextTurn
<1>3. \A e \in BOOLEAN : /\ [NextTurn(r) EXCEPT !.broken = e].pc = "checking"
                         /\ [NextTurn(r) EXCEPT !.broken = e].trade = None
  BY DEF Fresh, NextTurn
<1> QED
  BY <1>1, <1>2, <1>3

LEMMA WhoHasTrades ==
    ASSUME IntakeTypeOK, IntakeNext, NEW r \in Request
    PROVE  req'[r] = req[r] \/ GoesEmpty(r) \/ CommitTrade(r) \/ CacheTrade(r)
<1>0. req[r] \in RequestType /\ TRUE \in BOOLEAN
  BY DEF IntakeTypeOK
<1>m. ASSUME NEW g \in Request, NEW new, Now(g, new)
      PROVE  req'[r] = IF g = r THEN new ELSE req[r]
  BY <1>m DEF Now, IntakeTypeOK
<1>1. ASSUME NEW pc \in RequestPc \ {"caching"}, req[r].pc # "caching"
      PROVE  /\ GoTo(r, pc) => GoesEmpty(r)
             /\ \A x : Now(r, [req[r] EXCEPT !.pc = pc, !.todo = x]) => GoesEmpty(r)
             /\ \A x : Now(r, [req[r] EXCEPT !.pc = pc, !.priced = x]) => GoesEmpty(r)
             /\ \A x : Now(r, [req[r] EXCEPT !.pc = pc, !.sid = x]) => GoesEmpty(r)
             /\ \A x : Now(r, [req[r] EXCEPT !.pc = pc, !.sig = x]) => GoesEmpty(r)
             /\ \A x : Now(r, [req[r] EXCEPT !.pc = pc, !.tid = x]) => GoesEmpty(r)
             /\ \A n, x : Now(r, Picked(r, pc, n, x)) => GoesEmpty(r)
  <2>1. /\ [req[r] EXCEPT !.pc = pc].pc = pc
        /\ [req[r] EXCEPT !.pc = pc].trade = req[r].trade
    BY <1>0 DEF RequestType
  <2>2. \A x : /\ [req[r] EXCEPT !.pc = pc, !.todo = x].pc = pc
               /\ [req[r] EXCEPT !.pc = pc, !.todo = x].trade = req[r].trade
    BY <1>0 DEF RequestType
  <2>3. \A x : /\ [req[r] EXCEPT !.pc = pc, !.priced = x].pc = pc
               /\ [req[r] EXCEPT !.pc = pc, !.priced = x].trade = req[r].trade
    BY <1>0 DEF RequestType
  <2>4. \A x : /\ [req[r] EXCEPT !.pc = pc, !.sid = x].pc = pc
               /\ [req[r] EXCEPT !.pc = pc, !.sid = x].trade = req[r].trade
    BY <1>0 DEF RequestType
  <2>5. \A x : /\ [req[r] EXCEPT !.pc = pc, !.sig = x].pc = pc
               /\ [req[r] EXCEPT !.pc = pc, !.sig = x].trade = req[r].trade
    BY <1>0 DEF RequestType
  <2>6. \A x : /\ [req[r] EXCEPT !.pc = pc, !.tid = x].pc = pc
               /\ [req[r] EXCEPT !.pc = pc, !.tid = x].trade = req[r].trade
    BY <1>0 DEF RequestType
  <2>7. ASSUME NEW new, new.pc = pc, new.trade = req[r].trade, Now(r, new)
        PROVE  GoesEmpty(r)
    BY <1>1, <1>m, <2>7 DEF GoesEmpty
  <2>8. \A n, x : Picked(r, pc, n, x).pc = pc /\ Picked(r, pc, n, x).trade = req[r].trade
    BY <1>0 DEF RequestType, Picked
  <2> QED
    BY <2>1, <2>2, <2>3, <2>4, <2>5, <2>6, <2>7, <2>8, Zenon DEF GoTo
<1>2. {"checking", "pricing", "numbering", "probing", "marking", "saving", "reading", "naming",
       "opening"} \subseteq RequestPc \ {"caching"}
  BY DEF RequestPc
<1>e. ASSUME req[r].pc # "caching",
             \/ End(r) \/ Continue(r) \/ OpenReturns(r)
             \/ \E e \in BOOLEAN : OpenRaises(r, e)
      PROVE  GoesEmpty(r)
  BY <1>e, EndsEmpty DEF GoesEmpty
<1>3. ASSUME ReceiveWebhook(r) \/ ReceiveTrade(r) \/ WebhookStep(r) \/ PickTradeId(r)
      PROVE  GoesEmpty(r)
  <2>1. CASE ReceiveWebhook(r)
    BY <1>1, <1>2, <2>1 DEF ReceiveWebhook
  <2>2. CASE ReceiveTrade(r)
    BY <1>1, <1>2, <2>2 DEF ReceiveTrade
  <2>3. CASE Answer(r)
    BY <1>e, <2>3 DEF Answer
  <2>4. CASE CheckDuplicate(r)
    BY <1>1, <1>2, <1>e, <2>4 DEF CheckDuplicate
  <2>5. CASE FetchPrice(r)
    BY <1>1, <1>2, <1>e, <2>5 DEF FetchPrice
  <2>6. CASE PickSignalId(r)
    BY <1>0, <1>1, <1>2, <1>e, <2>6, PickMoves DEF PickSignalId
  <2>11. CASE CountSignals(r)
    BY <1>1, <1>2, <1>e, <2>11 DEF CountSignals
  <2>7. CASE MarkTraded(r)
    BY <1>1, <1>2, <2>7 DEF MarkTraded
  <2>8. CASE CommitSignal(r)
    BY <1>1, <1>2, <1>e, <2>8 DEF CommitSignal
  <2>9. CASE RefreshSignal(r)
    BY <1>1, <1>2, <1>e, <2>9 DEF RefreshSignal
  <2>10. CASE PickTradeId(r)
    BY <1>0, <1>1, <1>2, <1>e, <2>10 DEF PickTradeId
  <2> QED
    BY <1>3, <2>1, <2>2, <2>3, <2>4, <2>5, <2>6, <2>7, <2>8, <2>9, <2>10, <2>11 DEF WebhookStep
<1>4. ASSUME NEW g \in Request,
             \/ ReceiveWebhook(g) \/ ReceiveTrade(g) \/ WebhookStep(g) \/ OpenTradeStep(g)
      PROVE  \E new : Now(g, new)
  BY <1>4 DEF ReceiveWebhook, WebhookStep, Answer, CheckDuplicate, FetchPrice,
              CountSignals, PickSignalId, MarkTraded, CommitSignal, RefreshSignal, ReceiveTrade,
              OpenTradeStep, PickTradeId, CommitTrade, CacheTrade, OpenRaises,
              OpenReturns, End, Continue, GoTo
<1>5. ASSUME NEW g \in Request,
             \/ ReceiveWebhook(g) \/ ReceiveTrade(g) \/ WebhookStep(g) \/ OpenTradeStep(g)
      PROVE  req'[r] = req[r] \/ GoesEmpty(r) \/ CommitTrade(r) \/ CacheTrade(r)
  <2>1. CASE g = r
    BY <1>3, <1>5, <2>1 DEF OpenTradeStep
  <2>2. CASE g # r
    BY <1>4, <1>5, <1>m, <2>2
  <2> QED
    BY <2>1, <2>2
<1>6. CASE CleanupTestSignals
  BY <1>6 DEF CleanupTestSignals
<1> QED
  BY <1>5, <1>6 DEF IntakeNext, Request

\* The numbers of live trades stay different: a taken one is refused.
LEMMA NumbersStayApart ==
    ASSUME TypeInv, NumbersDiffer, [Next]_vars
    PROVE  NumbersDiffer'
<1>0. StoreTypeOK /\ IntakeTypeOK
  BY DEF TypeInv, TypeOK
<1>1. CASE SameTrades
  BY <1>1 DEF SameTrades, NumbersDiffer
<1>2. ASSUME NEW r \in Request, CommitTrade(r), ~SameTrades
      PROVE  NumbersDiffer'
  <2>1. PICK t \in Trade : InsertTrade(t, req[r].tid, req[r].sig)
    BY <1>2 DEF CommitTrade, SameTrades, LiveTrades, store
  <2>2. req[r].tid \in Nat /\ req[r].sig \in Signal \cup {None}
    BY <1>0 DEF IntakeTypeOK, RequestType
  <2>3. /\ LiveTrades' = LiveTrades \cup {t} /\ trades'[t].tid = req[r].tid
        /\ \A u \in LiveTrades : trades'[u].tid = trades[u].tid
    BY <1>0, <2>1, <2>2, TradeInserted DEF LiveTrades
  <2>4. \A u \in LiveTrades : trades[u].tid # req[r].tid
    BY <2>1 DEF InsertTrade, TradeIdTaken
  <2> QED
    BY <2>3, <2>4 DEF NumbersDiffer
<1>3. CASE DeleteAllTrades
  <2>1. LiveTrades' = {}
    BY <1>3, StatusSets DEF DeleteAllTrades, LiveTrades, NoTrade
  <2> QED
    BY <2>1 DEF NumbersDiffer
<1> QED
  BY <1>1, <1>2, <1>3, OnlyCommitTrades

\* A row that a request or a closer has in hand stays that row.
LEMMA RowsStay ==
    ASSUME TypeInv, [Next]_vars, NEW t \in Trade, trades[t].status # "unborn"
    PROVE  /\ trades'[t].status # "unborn"
           /\ t \in LiveTrades' => t \in LiveTrades /\ trades'[t].tid = trades[t].tid
           /\ trades[t].status # "entered" => trades'[t].status # "entered"
<1>0. StoreTypeOK /\ IntakeTypeOK /\ [StoreNext]_store
  BY DashSteps DEF TypeInv, TypeOK
<1>1. /\ trades'[t].status # "unborn"
      /\ trades[t].status # "entered" => trades'[t].status # "entered"
  BY <1>0, RowsAge
<1>2. CASE SameTrades
  BY <1>1, <1>2 DEF SameTrades
<1>3. ASSUME NEW r \in Request, CommitTrade(r)
      PROVE  t \in LiveTrades' => t \in LiveTrades /\ trades'[t].tid = trades[t].tid
  <2>1. CASE UNCHANGED store
    BY <2>1 DEF store, LiveTrades
  <2>2. ASSUME NEW u \in Trade, InsertTrade(u, req[r].tid, req[r].sig)
        PROVE  trades'[t] = trades[t]
    BY <1>0, <2>2 DEF InsertTrade, StoreTypeOK
  <2> QED
    BY <1>3, <2>1, <2>2 DEF CommitTrade, LiveTrades
<1>4. CASE DeleteAllTrades
  <2>1. LiveTrades' = {}
    BY <1>4, StatusSets DEF DeleteAllTrades, LiveTrades, NoTrade
  <2> QED
    BY <1>1, <2>1
<1> QED
  BY <1>1, <1>2, <1>3, <1>4, OnlyCommitTrades

\* What CommitTrade puts in a request's hands is the row it inserted.
LEMMA CommitHands ==
    ASSUME TypeInv, NEW r \in Request, CommitTrade(r)
    PROVE  InHand(r)'
<1>0. StoreTypeOK /\ IntakeTypeOK /\ req[r] \in RequestType
  BY DEF TypeInv, TypeOK, IntakeTypeOK
<1>1. CASE OpenRaises(r, TRUE)
  <2>1. req'[r].pc \in {"done", "checking"} /\ req'[r].trade = None
    BY <1>0, <1>1, EndsEmpty
  <2> QED
    BY <2>1 DEF InHand
<1>2. ASSUME NEW t \in Trade, InsertTrade(t, req[r].tid, req[r].sig),
             Now(r, [req[r] EXCEPT !.pc = "caching", !.trade = t])
      PROVE  InHand(r)'
  <2>1. req'[r].pc = "caching" /\ req'[r].trade = t /\ req'[r].tid = req[r].tid
    BY <1>0, <1>2 DEF Now, IntakeTypeOK, RequestType
  <2>2. trades'[t].status # "unborn" /\ trades'[t].tid = req[r].tid
    BY <1>0, <1>2, TradeInserted DEF RequestType
  <2> QED
    BY <2>1, <2>2 DEF InHand
<1> QED
  BY <1>1, <1>2 DEF CommitTrade

LEMMA HandsKeep ==
    ASSUME TypeInv, [Next]_vars, NEW r \in Request, InHand(r)
    PROVE  InHand(r)'
<1>0. IntakeTypeOK /\ StoreTypeOK
  BY DEF TypeInv, TypeOK
<1>1. CASE req'[r] = req[r]
  BY <1>1, RowsStay DEF InHand
<1>2. CASE GoesEmpty(r)
  BY <1>2 DEF GoesEmpty, InHand
<1>3. CASE CacheTrade(r)
  <2>1. TRUE \in BOOLEAN /\ FALSE \in BOOLEAN /\ \A o \in DbOutcomes : o.raised \in BOOLEAN
    BY OutcomeTypes DEF Outcome
  <2>2. OpenReturns(r) \/ \E e \in BOOLEAN : OpenRaises(r, e)
    BY <1>3, <2>1 DEF CacheTrade
  <2>3. req'[r].pc \in {"done", "checking"} /\ req'[r].trade = None
    BY <1>0, <2>2, EndsEmpty
  <2> QED
    BY <2>3 DEF InHand
<1>4. CASE Crash
  <2>1. req'[r] = req[r] \/ req'[r] = Fresh("done")
    BY <1>4 DEF Crash
  <2>2. Fresh("done").pc = "done" /\ Fresh("done").trade = None
    BY DEF Fresh
  <2> QED
    BY <1>1, <2>1, <2>2 DEF InHand
<1>5. CASE CommitTrade(r)
  BY <1>5, CommitHands
<1> QED
  BY <1>0, <1>1, <1>2, <1>3, <1>4, <1>5, WhoHasTrades DEF Next, vars

\* A closer that starts to drop a hash has just closed its trade.
LEMMA DropsKeep ==
    ASSUME TypeInv, [Next]_vars, NEW c \in Closer, DropsClosed(c)
    PROVE  DropsClosed(c)'
<1>0. ExitsTypeOK /\ StoreTypeOK
  BY DEF TypeInv, TypeOK
<1>1. CASE exit'[c] = exit[c]
  BY <1>1, RowsStay DEF DropsClosed
<1>2. CASE exit'[c].pc # "dropping"
  BY <1>2 DEF DropsClosed
<1>3. ASSUME NEW t \in Trade, CommitExit(c, t)
      PROVE  DropsClosed(c)'
  <2>1. CASE Leaves(c)
    BY <1>0, <1>2, <2>1 DEF Leaves, Become, Rest, ExitsTypeOK
  <2>2. ASSUME NEW final \in Verdicts(c), ExitTrade(t, final),
               exit' = [exit EXCEPT ![c] = Dropping(c, t)]
        PROVE  DropsClosed(c)'
    <3>1. exit'[c].cur = t
      BY <1>0, <2>2 DEF Dropping, ExitsTypeOK, ExitType
    <3>2. trades'[t].status = final /\ final \notin {"unborn", "entered"}
      BY <1>0, <2>2, VerdictsAreFinal, StatusSets DEF ExitTrade, StoreTypeOK, Final
    <3> QED
      BY <3>1, <3>2 DEF DropsClosed
  <2> QED
    BY <1>3, <2>1, <2>2 DEF CommitExit
<1>4. ASSUME NEW d \in Closer, NEW new, new.pc # "dropping",
             exit' = [exit EXCEPT ![d] = new]
      PROVE  exit'[c] = exit[c] \/ exit'[c].pc # "dropping"
  BY <1>0, <1>4 DEF ExitsTypeOK
<1>5. /\ \A pc \in ExitPc \ {"dropping"} : Rest(pc).pc # "dropping"
      /\ \A T : Sweep(T).pc # "dropping"
      /\ \A d \in Closer : Looping(d).pc # "dropping"
  BY <1>0 DEF Rest, Sweep, Looping, ExitsTypeOK, ExitType
<1>6. ASSUME NEW d \in Closer, Leaves(d) \/ \E pc \in ExitPc \ {"dropping"} : Become(d, pc)
      PROVE  exit'[c] = exit[c] \/ exit'[c].pc # "dropping"
  <2>1. PICK pc \in ExitPc \ {"dropping"} : Become(d, pc)
    BY <1>6 DEF Leaves, ExitPc
  <2> QED
    BY <1>4, <1>5, <2>1 DEF Become
<1>7. ASSUME ExitsNext
      PROVE  \/ exit'[c] = exit[c] \/ exit'[c].pc # "dropping"
             \/ \E t \in Trade : CommitExit(c, t)
  <2>0. {"done", "wipingSignals", "wipingKeys"} \subseteq ExitPc \ {"dropping"}
    BY DEF ExitPc
  <2>1. ASSUME NEW j \in Job, StartJob(j)
        PROVE  exit'[c] = exit[c] \/ exit'[c].pc # "dropping"
    BY <1>4, <1>5, <1>6, <2>1 DEF StartJob, Closer
  <2>2. ASSUME NEW e \in Exiter, ReceiveExit(e)
        PROVE  exit'[c] = exit[c] \/ exit'[c].pc # "dropping"
    BY <1>4, <1>5, <1>6, <2>0, <2>2 DEF ReceiveExit, Closer
  <2>3. ASSUME NEW t \in Trade, "monitor" \in Job, Hold(t)
        PROVE  exit'[c] = exit[c] \/ exit'[c].pc # "dropping"
    BY <1>0, <2>3 DEF Hold, ExitsTypeOK, ExitType, Closer
  <2>4. ASSUME NEW d \in Closer, NEW t \in Trade, CommitExit(d, t), d # c
        PROVE  exit'[c] = exit[c] \/ exit'[c].pc # "dropping"
    <3>1. CASE exit' = [exit EXCEPT ![d] = Dropping(d, t)]
      BY <1>0, <2>4, <3>1 DEF ExitsTypeOK
    <3> QED
      BY <1>6, <2>4, <3>1 DEF CommitExit
  <2>5. ASSUME NEW d \in Closer, DropCache(d)
        PROVE  exit'[c] = exit[c] \/ exit'[c].pc # "dropping"
    BY <1>4, <1>5, <1>6, <2>5 DEF DropCache
  <2>6. ASSUME NEW d \in Closer, FinishLoop(d)
        PROVE  exit'[c] = exit[c] \/ exit'[c].pc # "dropping"
    <3>1. CASE exit' = [exit EXCEPT ![d].pc = "wipingTrades"]
      BY <1>0, <2>6, <3>1 DEF ExitsTypeOK, ExitType
    <3> QED
      BY <1>6, <2>6, <3>1 DEF FinishLoop
  <2>7. ASSUME "cleanup" \in Job, WipeTrades \/ WipeSignals \/ WipeKeys
        PROVE  exit'[c] = exit[c] \/ exit'[c].pc # "dropping"
    BY <1>6, <2>0, <2>7 DEF WipeTrades, WipeSignals, WipeKeys, Closer
  <2> QED
    BY <1>7, <2>1, <2>2, <2>3, <2>4, <2>5, <2>6, <2>7 DEF ExitsNext, CloseTradeStep
<1>8. CASE Crash
  <2>1. \/ exit'[c] = exit[c]
        \/ \E pc \in {"idle", "done"} : exit'[c] = Rest(pc)
    BY <1>8 DEF Crash
  <2> QED
    BY <1>1, <1>2, <2>1 DEF Rest
<1> QED
  BY <1>1, <1>2, <1>3, <1>7, <1>8 DEF Next, vars, exits

\* Only the hash of a closed trade is dropped.
LEMMA HashesStay ==
    ASSUME TypeInv, NumbersDiffer, \A c \in Closer : DropsClosed(c), [Next]_vars,
           NEW t \in OpenTrades, trades[t].tid \in openCache
    PROVE  trades[t].tid \in openCache'
<1>1. ASSUME NEW c \in Closer, DropCache(c)
      PROVE  trades[t].tid \in openCache'
  <2>1. CASE UNCHANGED openCache
    BY <2>1
  <2>2. ASSUME NEW o, exit[c].cur \in LiveTrades,
               openCache' = Removed(openCache, trades[exit[c].cur].tid, o)
        PROVE  trades[t].tid \in openCache'
    <3>1. exit[c].cur # t
      BY <1>1 DEF DropCache, DropsClosed, OpenTrades
    <3>2. t \in LiveTrades
      BY StatusSets DEF OpenTrades, LiveTrades
    <3>3. trades[exit[c].cur].tid # trades[t].tid
      BY <2>2, <3>1, <3>2 DEF NumbersDiffer
    <3> QED
      BY <2>2, <3>3 DEF Removed
  <2> QED
    BY <1>1, <2>1, <2>2 DEF DropCache
<1>2. ASSUME NEW r \in Request, CacheTrade(r)
      PROVE  trades[t].tid \in openCache'
  BY <1>2 DEF CacheTrade, Added
<1>3. CASE UNCHANGED openCache
  BY <1>3
<1>4. CASE IntakeNext
  BY <1>2, <1>3, <1>4
     DEF IntakeNext, ReceiveWebhook, WebhookStep, Answer, CheckDuplicate, FetchPrice,
         CountSignals, PickSignalId, MarkTraded, CommitSignal, RefreshSignal, ReceiveTrade,
         OpenTradeStep, PickTradeId, CommitTrade, CleanupTestSignals, redis
<1>5. CASE ExitsNext
  BY <1>1, <1>3, <1>5
     DEF ExitsNext, StartJob, ReceiveExit, Hold, CloseTradeStep, CommitExit, FinishLoop,
         WipeTrades, WipeSignals, WipeKeys, redis
<1> QED
  BY <1>3, <1>4, <1>5 DEF Next, Crash, vars, redis

LEMMA CacheKeeps ==
    ASSUME RedisMode = "up", DbFaults = FALSE, TypeInv, CacheInv, [Next]_vars
    PROVE  CacheInv'
<1> USE DEF CacheInv
<1>0. /\ IntakeTypeOK /\ StoreTypeOK /\ [StoreNext]_store /\ crashes \in Nat
      /\ DbOutcomes = {Ok} /\ RedisOutcomes = {Ok} /\ Ok.applied /\ ~Ok.raised
      /\ None \notin Trade /\ Refused \notin DbOutcomes
  BY DashSteps, IntakeAssumption
     DEF TypeInv, TypeOK, DbOutcomes, RedisOutcomes, Ok, Refused
<1>1. NumbersDiffer' /\ (\A r \in Request : InHand(r)') /\ \A c \in Closer : DropsClosed(c)'
  BY NumbersStayApart, HandsKeep, DropsKeep
<1>2. OpenTradeCached'
  <2> SUFFICES ASSUME crashes' = 0, NEW t \in OpenTrades'
               PROVE  \/ trades'[t].tid \in openCache'
                      \/ \E r \in Request : req'[r].trade = t
    BY DEF OpenTradeCached
  <2>1. crashes = 0 /\ ~Crash /\ t \in Trade
    BY <1>0 DEF Next, Crash, vars, OpenTrades
  <2>2. trades[t].status \in {"unborn", "entered"}
    BY <1>0, <2>1, RowsAge DEF OpenTrades
  <2>3. CASE trades[t].status = "unborn"
    <3>1. t \notin LiveTrades /\ t \in LiveTrades'
      BY <2>1, <2>3, StatusSets DEF LiveTrades, OpenTrades
    <3>2. ~DeleteAllTrades
      BY <2>1, <2>3 DEF DeleteAllTrades, OpenTrades, LiveTrades, NoTrade
    <3>3. PICK r \in Request : CommitTrade(r)
      BY <3>1, <3>2, OnlyCommitTrades DEF SameTrades
    <3>4. PICK u \in Trade : /\ InsertTrade(u, req[r].tid, req[r].sig)
                             /\ Now(r, [req[r] EXCEPT !.pc = "caching", !.trade = u])
      BY <1>0, <3>1, <3>3 DEF CommitTrade, store, LiveTrades
    <3>5. t = u
      BY <1>0, <3>1, <3>4 DEF InsertTrade, StoreTypeOK, LiveTrades
    <3>6. req'[r].trade = u
      BY <1>0, <3>4 DEF Now, IntakeTypeOK, RequestType
    <3> QED
      BY <3>5, <3>6
  <2>4. CASE trades[t].status = "entered"
    <3>1. t \in OpenTrades /\ t \in LiveTrades /\ t \in LiveTrades'
      BY <2>1, <2>4, StatusSets DEF OpenTrades, LiveTrades
    <3>2. trades'[t].tid = trades[t].tid
      BY <2>1, <2>4, <3>1, RowsStay
    <3>3. CASE trades[t].tid \in openCache
      BY <3>1, <3>2, <3>3, HashesStay
    <3>4. ASSUME NEW r \in Request, req[r].trade = t
          PROVE  trades[t].tid \in openCache' \/ req'[r].trade = t
      <4>1. req[r].pc = "caching" /\ req[r].tid = trades[t].tid
        BY <1>0, <2>1, <3>1, <3>4 DEF InHand
      <4>2. CASE CacheTrade(r)
        BY <1>0, <3>1, <3>4, <4>1, <4>2 DEF CacheTrade, Added
      <4>3. CASE req'[r] = req[r]
        BY <3>4, <4>3
      <4> QED
        BY <1>0, <2>1, <4>1, <4>2, <4>3, WhoHasTrades
           DEF Next, vars, GoesEmpty, CommitTrade
    <3> QED
      BY <2>1, <3>1, <3>2, <3>3, <3>4 DEF OpenTradeCached
  <2> QED
    BY <2>2, <2>3, <2>4
<1> QED
  BY <1>1, <1>2

\* open_trade and close_trade keep the hashes of the open trades: whatever webhooks,
\* manual trades, exits and jobs overlap, the weekly wipe included, as long as Redis and
\* the database answer.
THEOREM OpenTradesAreCached ==
    ASSUME RedisMode = "up", DbFaults = FALSE
    PROVE  Spec => []OpenTradeCached
<1>1. Init => TypeInv /\ CacheInv
  <2> SUFFICES ASSUME Init
               PROVE  TypeInv /\ CacheInv
    OBVIOUS
  <2>1. TypeInv
    BY DashStarts
  <2>2. LiveTrades = {} /\ OpenTrades = {}
    BY StatusSets DEF Init, StoreInit, LiveTrades, OpenTrades, NoTrade
  <2>3. \A r \in Request : req[r].pc = "idle" /\ req[r].trade = None
    BY DEF Init, IntakeInit, Fresh
  <2>4. \A c \in Closer : exit[c].pc = "idle"
    BY DEF Init, ExitsInit, Rest
  <2> QED
    BY <2>1, <2>2, <2>3, <2>4
       DEF CacheInv, NumbersDiffer, InHand, DropsClosed, OpenTradeCached
<1>2. TypeInv /\ CacheInv /\ [Next]_vars => TypeInv' /\ CacheInv'
  BY DashSteps, CacheKeeps
<1>3. CacheInv => OpenTradeCached
  BY DEF CacheInv
<1> QED
  BY <1>1, <1>2, <1>3, PTL DEF Spec

-----------------------------------------------------------------------------
\* A request is worked off.

\* A request that is under way ends, goes on to its next symbol, or is further in its turn.
Forward(old, new) ==
    \/ new = Fresh("done") /\ old.pc \notin Resting
    \/ /\ new.pc = "checking" /\ old.pc \notin Resting
       /\ old.todo # <<>> /\ new.todo = Tail(old.todo)
    \/ new.todo = old.todo /\ TurnLeft(new) < TurnLeft(old)

\* What is left of a turn: less from one stage to the next, and from one number to the next.
LEMMA TurnsShorten ==
    /\ SidTries \in Nat \ {0} /\ 2 * SidTries \in Nat /\ 2 <= 2 * SidTries
    /\ \A x \in RequestType : TurnLeft(x) \in Nat /\ (x.pc \notin Resting => TurnLeft(x) > 0)
    /\ \A x \in RequestType : TurnLeft(x) = CASE x.pc = "checking"  -> 2 * SidTries + 8
                                             [] x.pc = "pricing"   -> 2 * SidTries + 7
                                             [] x.pc = "numbering" -> 2 * SidTries + 6 - 2 * x.tries
                                             [] x.pc = "probing"   -> 2 * SidTries + 5 - 2 * x.tries
                                             [] x.pc = "marking"   -> 6
                                             [] x.pc = "saving"    -> 5
                                             [] x.pc = "reading"   -> 4
                                             [] x.pc = "naming"    -> 3
                                             [] x.pc = "opening"   -> 2
                                             [] x.pc = "caching"   -> 1
                                             [] OTHER              -> 0
<1>1. SidTries \in Nat \ {0}
  BY IntakeAssumption
<1>2. 2 * SidTries \in Nat /\ 2 <= 2 * SidTries
  BY <1>1
<1>3. ASSUME NEW x \in RequestType
      PROVE  x.pc \in RequestPc /\ 2 * x.tries \in Nat /\ 2 * x.tries + 2 <= 2 * SidTries
  BY <1>1, <1>3 DEF RequestType
<1> QED
  BY <1>1, <1>2, <1>3, SMT DEF RequestPc, TurnSteps, TurnLeft, Resting

LEMMA ForwardIsNearer ==
    ASSUME NEW old \in RequestType, NEW new \in RequestType, Forward(old, new)
    PROVE  Nearer(new, old)
<1>0. /\ old.todo \in Seq(Symbol) /\ new.todo \in Seq(Symbol)
      /\ Len(old.todo) \in Nat /\ Len(new.todo) \in Nat
  BY DEF RequestType
<1>1. CASE new = Fresh("done") /\ old.pc \notin Resting
  <2>1. new.pc = "done" /\ Len(new.todo) = 0
    BY <1>1 DEF Fresh
  <2>2. TurnLeft(new) = 0 /\ TurnLeft(old) > 0
    BY <1>1, <2>1, TurnsShorten DEF Resting
  <2> QED
    BY <1>0, <2>1, <2>2 DEF Nearer
<1>2. CASE /\ new.pc = "checking" /\ old.pc \notin Resting
           /\ old.todo # <<>> /\ new.todo = Tail(old.todo)
  <2>1. Len(new.todo) = Len(old.todo) - 1
    BY <1>0, <1>2
  <2> QED
    BY <1>0, <2>1 DEF Nearer
<1>3. CASE new.todo = old.todo /\ TurnLeft(new) < TurnLeft(old)
  BY <1>3 DEF Nearer
<1> QED
  BY <1>1, <1>2, <1>3 DEF Forward

\* What a request becomes when it ends, goes on with its next symbol, or goes on.
LEMMA EndIsForward ==
    ASSUME NEW r \in InFlight, End(r)
    PROVE  \E new : Now(r, new) /\ Forward(req[r], new)
BY DEF End, Forward, InFlight

LEMMA NextTurnIsForward ==
    ASSUME NEW r \in InFlight, req[r].todo # <<>>,
           Continue(r) \/ \E e \in BOOLEAN : Now(r, [NextTurn(r) EXCEPT !.broken = e])
    PROVE  \E new : Now(r, new) /\ Forward(req[r], new)
<1>1. NextTurn(r).pc = "checking" /\ NextTurn(r).todo = Tail(req[r].todo)
  BY DEF NextTurn, Fresh
<1>2. ASSUME NEW e \in BOOLEAN
      PROVE  /\ [NextTurn(r) EXCEPT !.broken = e].pc = "checking"
             /\ [NextTurn(r) EXCEPT !.broken = e].todo = Tail(req[r].todo)
  BY DEF NextTurn, Fresh
<1> QED
  BY <1>1, <1>2 DEF Continue, Forward, InFlight

LEMMA RaiseIsForward ==
    ASSUME NEW r \in InFlight, r \in Hook => req[r].todo # <<>>,
           OpenReturns(r) \/ \E e \in BOOLEAN : OpenRaises(r, e)
    PROVE  \E new : Now(r, new) /\ Forward(req[r], new)
<1>1. r \in Request
  BY DEF InFlight
<1>2. CASE r \in Creator
  BY <1>2, EndIsForward DEF OpenReturns, OpenRaises
<1>3. CASE r \notin Creator
  BY <1>1, <1>3, NextTurnIsForward DEF OpenReturns, OpenRaises, Request
<1> QED
  BY <1>2, <1>3

LEMMA GoToIsForward ==
    ASSUME NEW r \in InFlight, req[r] \in RequestType, NEW pc \in RequestPc, GoTo(r, pc),
           <<req[r].pc, pc>> \in {<<"checking", "pricing">>, <<"marking", "saving">>,
                                 <<"reading", "naming">>}
    PROVE  \E new : Now(r, new) /\ Forward(req[r], new)
<1> DEFINE new == [req[r] EXCEPT !.pc = pc]
<1>1. new \in RequestType /\ new.pc = pc /\ new.todo = req[r].todo
  BY DEF RequestType
<1> HIDE DEF new
<1>2. TurnLeft(new) < TurnLeft(req[r])
  BY <1>1, TurnsShorten, SMT
<1>3. Now(r, new)
  BY DEF GoTo, new
<1> QED
  BY <1>1, <1>2, <1>3 DEF Forward

\* Every step of a webhook and of open_trade is one of these.
LEMMA StepsGoForward ==
    ASSUME IntakeTypeOK, MidTurn, NEW r \in Request,
           \/ r \in Hook /\ WebhookStep(r)
           \/ OpenTradeStep(r)
    PROVE  \E new : Now(r, new) /\ Forward(req[r], new)
<1> DEFINE Done == \E new : Now(r, new) /\ Forward(req[r], new)
<1>0. /\ req[r] \in RequestType
      /\ r \in InFlight
      /\ r \in Hook /\ req[r].pc # "checking" => req[r].todo # <<>>
  <2>1. r \in InFlight
    BY DEF WebhookStep, Answer, CheckDuplicate, FetchPrice, CountSignals, PickSignalId, MarkTraded,
           CommitSignal, RefreshSignal, OpenTradeStep, PickTradeId, CommitTrade,
           CacheTrade, InFlight, Resting
  <2> QED
    BY <2>1 DEF IntakeTypeOK, MidTurn, InFlight, Resting
<1>f. ASSUME NEW new, new \in RequestType, new.todo = req[r].todo, Now(r, new),
             \/ req[r].pc = "pricing" /\ new.pc = "numbering"
             \/ req[r].pc = "numbering" /\ new.pc = "probing" /\ new.tries = req[r].tries
             \/ req[r].pc = "probing" /\ new.pc = "numbering" /\ new.tries = req[r].tries + 1
             \/ req[r].pc = "probing" /\ new.pc = "marking"
             \/ req[r].pc = "saving" /\ new.pc = "reading"
             \/ req[r].pc = "naming" /\ new.pc = "opening"
             \/ req[r].pc = "opening" /\ new.pc = "caching"
      PROVE  Done
  <2>1. /\ req[r].tries \in Nat /\ req[r].tries + 1 <= SidTries
        /\ new.tries \in Nat /\ new.tries + 1 <= SidTries
    BY <1>0, <1>f, TurnsShorten DEF RequestType
  <2>2. TurnLeft(new) < TurnLeft(req[r])
    <3>1. ASSUME NEW x \in {new, req[r]}
          PROVE  /\ x.pc = "pricing"   => TurnLeft(x) = 2 * SidTries + 7
                 /\ x.pc = "numbering" => TurnLeft(x) = 2 * SidTries + 6 - 2 * x.tries
                 /\ x.pc = "probing"   => TurnLeft(x) = 2 * SidTries + 5 - 2 * x.tries
                 /\ x.pc = "marking"   => TurnLeft(x) = 6
                 /\ x.pc = "saving"    => TurnLeft(x) = 5
                 /\ x.pc = "reading"   => TurnLeft(x) = 4
                 /\ x.pc = "naming"    => TurnLeft(x) = 3
                 /\ x.pc = "opening"   => TurnLeft(x) = 2
                 /\ x.pc = "caching"   => TurnLeft(x) = 1
      BY <1>0, <1>f, <2>1, TurnsShorten DEF TurnLeft, TurnSteps
    <3>2. SidTries \in Nat
      BY TurnsShorten
    <3> DEFINE a == TurnLeft(new)
               b == TurnLeft(req[r])
               k == req[r].tries
               l == new.tries
    <3>3. \/ b = 2 * SidTries + 7 /\ a = 2 * SidTries + 6 - 2 * l
          \/ b = 2 * SidTries + 6 - 2 * k /\ a = 2 * SidTries + 5 - 2 * l /\ l = k
          \/ b = 2 * SidTries + 5 - 2 * k /\ a = 2 * SidTries + 6 - 2 * l /\ l = k + 1
          \/ b = 2 * SidTries + 5 - 2 * k /\ a = 6
          \/ b = 5 /\ a = 4
          \/ b = 3 /\ a = 2
          \/ b = 2 /\ a = 1
      BY <1>f, <3>1
    <3>4. k \in Nat /\ k + 1 <= SidTries /\ l \in Nat
      BY <2>1
    <3> HIDE DEF a, b, k, l
    <3>5. a < b
      BY <3>2, <3>3, <3>4
    <3> QED
      BY <3>5 DEF a, b
  <2> QED
    BY <1>f, <2>2 DEF Forward
<1>t. {"pricing", "saving", "naming"} \subseteq RequestPc
  BY DEF RequestPc
<1>b. TRUE \in BOOLEAN /\ FALSE \in BOOLEAN /\ \A o \in DbOutcomes : o.raised \in BOOLEAN
  BY OutcomeTypes DEF Outcome
<1>1. CASE r \in Hook /\ Answer(r)
  BY <1>0, <1>1, EndIsForward DEF Answer
<1>2. CASE r \in Hook /\ CheckDuplicate(r)
  <2>1. req[r].pc = "checking" /\ req[r].todo # <<>> /\ (Continue(r) \/ GoTo(r, "pricing"))
    BY <1>2 DEF CheckDuplicate
  <2> QED
    BY <1>0, <1>t, <2>1, NextTurnIsForward, GoToIsForward
<1>3. CASE r \in Hook /\ FetchPrice(r)
  <2>1. ASSUME NEW x \in BOOLEAN
        PROVE  /\ [req[r] EXCEPT !.pc = "numbering", !.priced = x] \in RequestType
               /\ [req[r] EXCEPT !.pc = "numbering", !.priced = x].pc = "numbering"
               /\ [req[r] EXCEPT !.pc = "numbering", !.priced = x].todo = req[r].todo
    BY <1>0 DEF RequestType, RequestPc
  <2>2. /\ req[r].pc = "pricing"
        /\ \/ Continue(r) \/ End(r)
           \/ \E x \in BOOLEAN : Now(r, [req[r] EXCEPT !.pc = "numbering", !.priced = x])
    BY <1>3 DEF FetchPrice
  <2>3. ASSUME NEW x \in BOOLEAN, Now(r, [req[r] EXCEPT !.pc = "numbering", !.priced = x])
        PROVE  Done
    BY <1>f, <2>1, <2>2, <2>3
  <2> QED
    BY <1>0, <1>3, <2>2, <2>3, NextTurnIsForward, EndIsForward
<1>c. CASE r \in Hook /\ CountSignals(r)
  <2> DEFINE new == [req[r] EXCEPT !.pc = "probing", !.sid = NextSignalId]
  <2>1. /\ new \in RequestType /\ new.pc = "probing" /\ new.todo = req[r].todo
        /\ new.tries = req[r].tries
    BY <1>0, NumberTypes DEF RequestType, RequestPc
  <2>2. req[r].pc = "numbering" /\ (End(r) \/ Now(r, new))
    BY <1>c DEF CountSignals
  <2> HIDE DEF new
  <2> QED
    BY <1>0, <1>f, <2>1, <2>2, EndIsForward
<1>4. CASE r \in Hook /\ PickSignalId(r)
  <2>0. req[r].pc = "probing"
    BY <1>4 DEF PickSignalId
  <2>1. ASSUME NEW pc \in {"numbering", "marking"}, NEW n \in 0 .. SidTries - 1,
               NEW x \in SignalNumber, Now(r, Picked(r, pc, n, x)),
               pc = "numbering" => n = req[r].tries + 1
        PROVE  Done
    <3>1. /\ Picked(r, pc, n, x) \in RequestType
          /\ Picked(r, pc, n, x).pc = pc /\ Picked(r, pc, n, x).todo = req[r].todo
          /\ Picked(r, pc, n, x).tries = n
      BY <1>0 DEF Picked, RequestType, RequestPc
    <3> QED
      BY <1>f, <2>0, <2>1, <3>1
  <2>2. /\ req[r].sid \in SignalNumber
        /\ 0 \in 0 .. SidTries - 1
        /\ req[r].tries + 1 < SidTries => req[r].tries + 1 \in 0 .. SidTries - 1
    BY <1>0, IntakeAssumption DEF RequestType
  <2> QED
    BY <1>0, <1>4, <2>1, <2>2, EndIsForward, PickMoves
<1>5. CASE r \in Hook /\ MarkTraded(r)
  BY <1>0, <1>5, <1>t, GoToIsForward DEF MarkTraded
<1>6. CASE r \in Hook /\ CommitSignal(r)
  <2>1. ASSUME NEW x \in Signal
        PROVE  /\ [req[r] EXCEPT !.pc = "reading", !.sig = x] \in RequestType
               /\ [req[r] EXCEPT !.pc = "reading", !.sig = x].pc = "reading"
               /\ [req[r] EXCEPT !.pc = "reading", !.sig = x].todo = req[r].todo
    BY <1>0 DEF RequestType, RequestPc
  <2>2. /\ req[r].pc = "saving"
        /\ End(r) \/ \E x \in Signal : Now(r, [req[r] EXCEPT !.pc = "reading", !.sig = x])
    BY <1>6 DEF CommitSignal
  <2>3. ASSUME NEW x \in Signal, Now(r, [req[r] EXCEPT !.pc = "reading", !.sig = x])
        PROVE  Done
    BY <1>f, <2>1, <2>2, <2>3
  <2> QED
    BY <1>0, <2>2, <2>3, EndIsForward
<1>7. CASE r \in Hook /\ RefreshSignal(r)
  <2>1. req[r].pc = "reading" /\ (End(r) \/ GoTo(r, "naming") \/ Continue(r))
    BY <1>7 DEF RefreshSignal
  <2> QED
    BY <1>0, <1>7, <1>t, <2>1, NextTurnIsForward, GoToIsForward, EndIsForward
<1>8. CASE PickTradeId(r)
  <2>1. ASSUME NEW x \in Nat
        PROVE  /\ [req[r] EXCEPT !.pc = "opening", !.tid = x] \in RequestType
               /\ [req[r] EXCEPT !.pc = "opening", !.tid = x].pc = "opening"
               /\ [req[r] EXCEPT !.pc = "opening", !.tid = x].todo = req[r].todo
    BY <1>0 DEF RequestType, RequestPc
  <2>2. /\ req[r].pc = "naming"
        /\ \/ OpenRaises(r, TRUE)
           \/ \E x \in Nat : Now(r, [req[r] EXCEPT !.pc = "opening", !.tid = x])
    BY <1>8, NumberTypes DEF PickTradeId
  <2>3. ASSUME NEW x \in Nat, Now(r, [req[r] EXCEPT !.pc = "opening", !.tid = x])
        PROVE  Done
    BY <1>f, <2>1, <2>2, <2>3
  <2> QED
    BY <1>0, <1>b, <2>2, <2>3, RaiseIsForward
<1>9. CASE CommitTrade(r)
  <2>1. ASSUME NEW x \in Trade
        PROVE  /\ [req[r] EXCEPT !.pc = "caching", !.trade = x] \in RequestType
               /\ [req[r] EXCEPT !.pc = "caching", !.trade = x].pc = "caching"
               /\ [req[r] EXCEPT !.pc = "caching", !.trade = x].todo = req[r].todo
    BY <1>0 DEF RequestType, RequestPc
  <2>2. /\ req[r].pc = "opening"
        /\ \/ OpenRaises(r, TRUE)
           \/ \E x \in Trade : Now(r, [req[r] EXCEPT !.pc = "caching", !.trade = x])
    BY <1>9 DEF CommitTrade
  <2>3. ASSUME NEW x \in Trade, Now(r, [req[r] EXCEPT !.pc = "caching", !.trade = x])
        PROVE  Done
    BY <1>f, <2>1, <2>2, <2>3
  <2> QED
    BY <1>0, <1>b, <2>2, <2>3, RaiseIsForward
<1>10. CASE CacheTrade(r)
  <2>1. req[r].pc = "caching" /\ (OpenReturns(r) \/ \E e \in BOOLEAN : OpenRaises(r, e))
    BY <1>10, <1>b DEF CacheTrade
  <2> QED
    BY <1>0, <2>1, RaiseIsForward
<1> QED
  BY <1>1, <1>2, <1>3, <1>c, <1>4, <1>5, <1>6, <1>7, <1>8, <1>9, <1>10
     DEF WebhookStep, OpenTradeStep

\* A webhook takes a bounded number of steps for each symbol, whatever fails, whatever the
\* guards skip and whoever else takes the numbers it tries: with the event loop's fairness
\* this is why it ends.
THEOREM RequestsAreWorkedOff == Spec => RequestsAdvance
<1>1. Init => TypeInv
  BY DashStarts
<1>2. TypeInv /\ [Next]_vars => TypeInv'
  BY DashSteps
<1>3. TypeInv /\ TypeInv' /\ [Next]_vars =>
         [\A r \in Request :
             req[r].pc = "idle" \/ req'[r] = req[r] \/ Nearer(req'[r], req[r])]_vars
  <2> SUFFICES ASSUME TypeInv, TypeInv', [Next]_vars, NEW r \in Request,
                      req[r].pc # "idle", req'[r] # req[r]
               PROVE  Nearer(req'[r], req[r])
    OBVIOUS
  <2>0. IntakeTypeOK /\ MidTurn /\ req[r] \in RequestType /\ req'[r] \in RequestType
    BY DEF TypeInv, TypeOK, IntakeTypeOK
  <2>m. ASSUME NEW q \in Request, NEW new, Now(q, new)
        PROVE  q = r /\ req'[r] = new
    BY <2>0, <2>m DEF Now, IntakeTypeOK
  <2>1. ASSUME NEW q \in Request, \E new : Now(q, new) /\ Forward(req[q], new)
        PROVE  Forward(req[r], req'[r])
    BY <2>1, <2>m
  <2>2. ASSUME NEW h \in Hook, ReceiveWebhook(h)
        PROVE  FALSE
    BY <2>2, <2>m DEF ReceiveWebhook, Request
  <2>3. ASSUME NEW c \in Creator, ReceiveTrade(c)
        PROVE  FALSE
    BY <2>3, <2>m DEF ReceiveTrade, Request
  <2>4. ASSUME IntakeNext
        PROVE  Forward(req[r], req'[r])
    <3>1. ASSUME NEW q \in Request, (q \in Hook /\ WebhookStep(q)) \/ OpenTradeStep(q)
          PROVE  Forward(req[r], req'[r])
      BY <2>0, <2>1, <3>1, StepsGoForward
    <3> QED
      BY <2>2, <2>3, <2>4, <3>1 DEF IntakeNext, CleanupTestSignals, Request
  <2>5. ASSUME Crash
        PROVE  Forward(req[r], req'[r])
    BY <2>5 DEF Crash, InFlight, Resting, Forward
  <2>6. Forward(req[r], req'[r])
    BY <2>4, <2>5 DEF Next, vars
  <2> QED
    BY <2>0, <2>6, ForwardIsNearer
<1> QED
  BY <1>1, <1>2, <1>3, PTL DEF Spec, RequestsAdvance

-----------------------------------------------------------------------------
\* A pass is worked off.

\* A pass that is under way ends or goes to its next stage with nothing more to visit, or
\* visits a trade.
PassForward(old, new) ==
    \/ /\ PassSteps[new.pc] < PassSteps[old.pc]
       /\ new.todo = {} \/ new.todo = old.todo
    \/ /\ PassSteps[new.pc] <= PassSteps[old.pc] + 1
       /\ \E t \in old.todo : new.todo = old.todo \ {t}

LEMMA PassForwardIsLess ==
    ASSUME NEW old \in ExitType, NEW new \in ExitType, PassForward(old, new)
    PROVE  StepsToGo(new) < StepsToGo(old)
<1>0. /\ PassSteps[old.pc] \in Nat /\ PassSteps[new.pc] \in Nat
      /\ IsFiniteSet(old.todo)
  BY StoreAssumption, FS_Subset DEF ExitType, ExitPc, PassSteps
<1>1. Cardinality(old.todo) \in Nat
  BY <1>0, FS_CardinalityType
<1>2. CASE PassSteps[new.pc] < PassSteps[old.pc] /\ new.todo = {}
  <2>1. Cardinality(new.todo) = 0
    BY <1>2, FS_EmptySet
  <2> QED
    BY <1>0, <1>1, <1>2, <2>1 DEF StepsToGo
<1>3. CASE PassSteps[new.pc] < PassSteps[old.pc] /\ new.todo = old.todo
  <2>1. Cardinality(new.todo) = Cardinality(old.todo)
    BY <1>3
  <2> QED
    BY <1>0, <1>1, <1>3, <2>1 DEF StepsToGo
<1>4. CASE /\ PassSteps[new.pc] <= PassSteps[old.pc] + 1
           /\ \E t \in old.todo : new.todo = old.todo \ {t}
  <2>1. Cardinality(new.todo) = Cardinality(old.todo) - 1
    BY <1>0, <1>4, OneLess
  <2> QED
    BY <1>0, <1>1, <1>4, <2>1 DEF StepsToGo
<1> QED
  BY <1>2, <1>3, <1>4 DEF PassForward

LEMMA StagesDescend ==
    /\ \A pc \in ExitPc \ {"idle", "done"} : PassSteps["idle"] < PassSteps[pc]
                                             /\ PassSteps["done"] < PassSteps[pc]
    /\ PassSteps["dropping"] = PassSteps["looping"] + 1
    /\ PassSteps["wipingTrades"] < PassSteps["looping"]
    /\ PassSteps["wipingSignals"] < PassSteps["wipingTrades"]
    /\ PassSteps["wipingKeys"] < PassSteps["wipingSignals"]
    /\ PassSteps["looping"] \in Nat
BY DEF ExitPc, PassSteps

\* A pass that ends is at rest.
LEMMA EndOfPass ==
    ASSUME ExitsTypeOK, NEW c \in Closer, exit[c].pc \notin {"idle", "done"},
           NEW pc \in ExitPc, Become(c, pc), PassSteps[pc] < PassSteps[exit[c].pc]
    PROVE  /\ PassForward(exit[c], exit'[c])
           /\ \A d \in Closer \ {c} : exit'[d] = exit[d]
<1>1. exit'[c] = Rest(pc) /\ \A d \in Closer \ {c} : exit'[d] = exit[d]
  BY DEF Become, ExitsTypeOK
<1>2. Rest(pc).pc = pc /\ Rest(pc).todo = {}
  BY DEF Rest
<1> QED
  BY <1>1, <1>2 DEF PassForward

LEMMA LeavingIsForward ==
    ASSUME ExitsTypeOK, NEW c \in Closer, exit[c].pc \notin {"idle", "done"}, Leaves(c)
    PROVE  /\ PassForward(exit[c], exit'[c])
           /\ \A d \in Closer \ {c} : exit'[d] = exit[d]
<1>1. PICK pc \in {"idle", "done"} : Become(c, pc)
  BY DEF Leaves
<1>2. pc \in ExitPc /\ PassSteps[pc] < PassSteps[exit[c].pc]
  BY StagesDescend DEF ExitPc, ExitsTypeOK, ExitType
<1> QED
  BY <1>1, <1>2, EndOfPass

\* A step of a closer starts its pass or brings it forward.
LEMMA ClosersGoForward ==
    ASSUME ExitsTypeOK, ExitsNext, NEW d \in Closer, exit[d].pc # "idle"
    PROVE  exit'[d] = exit[d] \/ PassForward(exit[d], exit'[d])
<1> DEFINE Goes == exit'[d] = exit[d] \/ PassForward(exit[d], exit'[d])
<1>0. /\ \A c \in Closer : exit[c] \in ExitType
      /\ {"looping", "dropping", "wipingTrades", "wipingSignals", "wipingKeys", "done"}
            \subseteq ExitPc
  BY DEF ExitsTypeOK, ExitPc
<1>o. ASSUME NEW c \in Closer, NEW new, exit' = [exit EXCEPT ![c] = new],
             c = d => PassForward(exit[c], new)
      PROVE  Goes
  BY <1>o DEF ExitsTypeOK
<1>l. ASSUME NEW c \in Closer, exit[c].pc \notin {"idle", "done"}, Leaves(c)
      PROVE  Goes
  BY <1>l, LeavingIsForward
<1>1. ASSUME NEW j \in Job, StartJob(j)
      PROVE  Goes
  <2>1. \E new : exit' = [exit EXCEPT ![j] = new] /\ exit[j].pc = "idle"
    BY <1>1 DEF StartJob, Leaves, Become
  <2> QED
    BY <1>o, <2>1 DEF Closer
<1>2. ASSUME NEW e \in Exiter, ReceiveExit(e)
      PROVE  Goes
  <2>1. \E new : exit' = [exit EXCEPT ![e] = new] /\ exit[e].pc = "idle"
    BY <1>2 DEF ReceiveExit, Become
  <2> QED
    BY <1>o, <2>1 DEF Closer
<1>3. ASSUME NEW t \in Trade, "monitor" \in Job, Hold(t)
      PROVE  Goes
  <2> DEFINE new == [exit["monitor"] EXCEPT !.todo = @ \ {t}]
  <2>1. "monitor" \in Closer /\ t \in exit["monitor"].todo
    BY <1>3 DEF Hold, Closer
  <2>2. new.pc = exit["monitor"].pc /\ new.todo = exit["monitor"].todo \ {t}
    BY <1>0, <2>1 DEF ExitType
  <2>3. exit' = [exit EXCEPT !["monitor"] = new]
    BY <1>3 DEF Hold
  <2>4. PassForward(exit["monitor"], new)
    BY <1>3, <2>1, <2>2, StagesDescend DEF PassForward, Hold
  <2> QED
    BY <1>o, <2>1, <2>3, <2>4
<1>4. ASSUME NEW c \in Closer, NEW t \in Trade, CommitExit(c, t)
      PROVE  Goes
  <2>1. /\ exit[c].pc = "looping" /\ t \in exit[c].todo
        /\ Leaves(c) \/ exit' = [exit EXCEPT ![c] = Dropping(c, t)]
    BY <1>4 DEF CommitExit
  <2>2. Dropping(c, t).pc = "dropping" /\ Dropping(c, t).todo = exit[c].todo \ {t}
    BY <1>0 DEF Dropping, ExitType
  <2>3. PassForward(exit[c], Dropping(c, t))
    BY <2>1, <2>2, StagesDescend DEF PassForward
  <2> QED
    BY <1>l, <1>o, <2>1, <2>3
<1>5. ASSUME NEW c \in Closer, DropCache(c)
      PROVE  Goes
  <2>1. exit[c].pc = "dropping" /\ (Leaves(c) \/ exit' = [exit EXCEPT ![c] = Looping(c)])
    BY <1>5 DEF DropCache
  <2>2. Looping(c).pc = "looping" /\ Looping(c).todo = exit[c].todo
    BY <1>0 DEF Looping, ExitType
  <2>3. PassForward(exit[c], Looping(c))
    BY <2>1, <2>2, StagesDescend DEF PassForward
  <2> QED
    BY <1>l, <1>o, <2>1, <2>3
<1>6. ASSUME NEW c \in Closer, FinishLoop(c)
      PROVE  Goes
  <2> DEFINE new == [exit[c] EXCEPT !.pc = "wipingTrades"]
  <2>1. exit[c].pc = "looping" /\ (Leaves(c) \/ exit' = [exit EXCEPT ![c] = new])
    BY <1>6 DEF FinishLoop
  <2>2. new.pc = "wipingTrades" /\ new.todo = exit[c].todo
    BY <1>0 DEF ExitType
  <2>3. PassForward(exit[c], new)
    BY <2>1, <2>2, StagesDescend DEF PassForward
  <2> HIDE DEF new
  <2> QED
    BY <1>l, <1>o, <2>1, <2>3
<1>7. ASSUME "cleanup" \in Job, WipeTrades \/ WipeSignals \/ WipeKeys
      PROVE  Goes
  <2>1. "cleanup" \in Closer
    BY <1>7 DEF Closer
  <2>2. /\ exit["cleanup"].pc \notin {"idle", "done"}
        /\ \/ Leaves("cleanup")
           \/ \E pc \in ExitPc :
                 Become("cleanup", pc) /\ PassSteps[pc] < PassSteps[exit["cleanup"].pc]
    BY <1>0, <1>7, StagesDescend DEF WipeTrades, WipeSignals, WipeKeys, ExitPc
  <2> QED
    BY <1>l, <2>1, <2>2, EndOfPass
<1> QED
  BY <1>1, <1>2, <1>3, <1>4, <1>5, <1>6, <1>7 DEF ExitsNext, CloseTradeStep

\* A pass takes two steps for each trade it has read at most, and the wipe's three: no
\* other closer, new trade or failure keeps it going.
THEOREM PassesAreWorkedOff == Spec => PassesAdvance
<1>1. Init => TypeInv
  BY DashStarts
<1>2. TypeInv /\ [Next]_vars => TypeInv'
  BY DashSteps
<1>3. TypeInv /\ TypeInv' /\ [Next]_vars =>
         [\A c \in Closer :
             exit[c].pc = "idle" \/ exit'[c] = exit[c] \/ StepsToGo(exit'[c]) < StepsToGo(exit[c])]_vars
  <2> SUFFICES ASSUME TypeInv, TypeInv', [Next]_vars, NEW c \in Closer,
                      exit[c].pc # "idle", exit'[c] # exit[c]
               PROVE  StepsToGo(exit'[c]) < StepsToGo(exit[c])
    OBVIOUS
  <2>0. ExitsTypeOK /\ exit[c] \in ExitType /\ exit'[c] \in ExitType
    BY DEF TypeInv, TypeOK, ExitsTypeOK
  <2>1. ASSUME Crash
        PROVE  PassForward(exit[c], exit'[c])
    <3>1. exit'[c] \in {exit[c], Rest("idle"), Rest("done")}
      BY <2>1 DEF Crash
    <3>2. exit[c].pc \notin {"idle", "done"}
      BY <2>1 DEF Crash
    <3>3. PICK pc \in {"idle", "done"} : exit'[c] = Rest(pc)
      BY <3>1
    <3>4. PassSteps[pc] < PassSteps[exit[c].pc]
      BY <2>0, <3>2, StagesDescend DEF ExitType
    <3> QED
      BY <3>3, <3>4 DEF PassForward, Rest
  <2>2. PassForward(exit[c], exit'[c])
    BY <2>0, <2>1, ClosersGoForward DEF Next, vars, exits
  <2> QED
    BY <2>0, <2>2, PassForwardIsLess
<1> QED
  BY <1>1, <1>2, <1>3, PTL DEF Spec, PassesAdvance
=============================================================================
