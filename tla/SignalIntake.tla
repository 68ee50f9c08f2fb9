----------------------------- MODULE SignalIntake -----------------------------
(***************************************************************************)
(* Entering trades: POST /webhook/chartink (receive_webhook, one signal and *)
(* one paper trade per symbol of the payload), POST /trades (open_trade    *)
(* alone), and DELETE /signals/cleanup.                                    *)
(*                                                                         *)
(* Each request is a coroutine of the one event loop with a database       *)
(* session of its own; it can be overtaken at every await.  One action is  *)
(* the code between two awaits that others can tell apart.                 *)
(***************************************************************************)
EXTENDS TradeStore, Backends, Sequences

CONSTANTS
    Hook,         \* webhook requests
    Creator,      \* POST /trades requests
    Payloads,     \* the symbol lists a webhook may carry
    PriceOutcome, \* what get_price and the two guards make of a symbol
    TestSymbols,  \* the symbols DELETE /signals/cleanup takes for garbage
    SidTries,     \* how often generate_signal_id counts (20 in the code)
    MaxInFlight   \* bound: webhooks under way at once

ASSUME IntakeAssumption ==
    /\ Payloads \subseteq Seq(Symbol)
    /\ PriceOutcome \subseteq {"positive", "zero", "guarded", "missing"}
    /\ TestSymbols \subseteq Symbol
    /\ SidTries \in Nat \ {0}
    /\ MaxInFlight \in Nat
    /\ Hook \cap Creator = {}
    /\ None \notin Trade

VARIABLE req

Request == Hook \cup Creator

\* Where a request stands: what it does next.
RequestPc == {"idle", "checking", "pricing", "numbering", "probing", "marking",
              "saving", "reading", "naming", "opening", "caching", "done"}

\* The locals of a request that is in no turn; what else it has in hand is dropped.
Fresh(pc) ==
    [pc |-> pc, todo |-> <<>>, tries |-> 0, sid |-> 0, sig |-> None, tid |-> 0,
     trade |-> None, priced |-> FALSE, broken |-> FALSE]

RequestType ==
    [pc : RequestPc, todo : Seq(Symbol), tries : 0 .. SidTries - 1, sid : SignalNumber,
     sig : Signal \cup {None}, tid : Nat, trade : Trade \cup {None},
     priced : BOOLEAN, broken : BOOLEAN]

IntakeTypeOK == req \in [Request -> RequestType]

Resting == {"idle", "done"}
InFlight == {r \in Request : req[r].pc \notin Resting}

Sym(r) == Head(req[r].todo)

\* The request's next state; GoTo changes nothing but where it stands.
Now(r, locals) == req' = [req EXCEPT ![r] = locals]
GoTo(r, pc) == Now(r, [req[r] EXCEPT !.pc = pc])

\* A request ends, with an answer or with an error.
End(r) == Now(r, Fresh("done"))

\* The next turn of `for i, symbol in enumerate(symbols)`.
NextTurn(r) == [Fresh("checking") EXCEPT !.todo = Tail(req[r].todo),
                                         !.broken = req[r].broken]
Continue(r) == Now(r, NextTurn(r))

-----------------------------------------------------------------------------
\* receive_webhook, one symbol after the other.

ReceiveWebhook(h) ==
    /\ req[h].pc = "idle"
    /\ Cardinality(InFlight \cap Hook) < MaxInFlight
    /\ \E p \in Payloads : Now(h, [req[h] EXCEPT !.pc = "checking", !.todo = p])
    /\ UNCHANGED <<store, redis>>

\* No symbol left, or none at all: the answer goes out.
Answer(h) ==
    /\ req[h].pc = "checking"
    /\ req[h].todo = <<>>
    /\ End(h)
    /\ UNCHANGED <<store, redis>>

CheckDuplicate_MarksAtOnce(h) ==
    /\ req[h].pc = "checking"
    /\ req[h].todo # <<>>
    /\ \E o \in RedisOutcomes :
          /\ tradedToday' = Added(tradedToday, Sym(h), o)
          /\ IF Remembered(tradedToday, Sym(h), o) THEN Continue(h)
                                                   ELSE GoTo(h, "pricing")
    /\ UNCHANGED <<store, openCache>>

CheckDuplicate(h) ==
    /\ req[h].pc = "checking"
    /\ req[h].todo # <<>>
    /\ \E o \in RedisOutcomes :
          IF Remembered(tradedToday, Sym(h), o) THEN Continue(h)
                                                ELSE GoTo(h, "pricing")
    /\ UNCHANGED <<store, redis>>

FetchPrice_RetriesGuarded(h) ==
    /\ req[h].pc = "pricing"
    /\ \E p \in PriceOutcome :
          IF p = "guarded" THEN GoTo(h, "checking")
          ELSE Now(h, [req[h] EXCEPT !.pc = "numbering", !.priced = TRUE])
    /\ UNCHANGED <<store, redis>>

\* get_price and what follows up to the Signal: the capital and min-profit guards
\* skip the symbol, a price that is not there (None * 1.01) ends the request, and
\* a price of zero or below makes a signal without a trade.
FetchPrice(h) ==
    /\ req[h].pc = "pricing"
    /\ \E p \in PriceOutcome :
          \/ p = "guarded" /\ Continue(h)
          \/ p = "missing" /\ End(h)
          \/ /\ p \in {"positive", "zero"}
             /\ Now(h, [req[h] EXCEPT !.pc = "numbering", !.priced = (p = "positive")])
    /\ UNCHANGED <<store, redis>>

\* generate_signal_id counts today's rows, the first query of the turn: a session whose
\* last flush failed refuses it (PendingRollbackError) and the request ends.
CountSignals(h) ==
    /\ req[h].pc = "numbering"
    /\ \E o \in DbOutcomes :
          IF req[h].broken \/ o.raised
          THEN End(h)
          ELSE Now(h, [req[h] EXCEPT !.pc = "probing", !.sid = NextSignalId])
    /\ UNCHANGED <<store, redis>>

\* Then it looks whether that number is in use: if so it counts again, and the last time
\* falls back on a timestamp suffix.
PickSignalId(h) ==
    /\ req[h].pc = "probing"
    /\ \/ \E o \in DbOutcomes : o.raised /\ End(h)
       \/ ~SignalIdTaken(req[h].sid) /\ Now(h, [req[h] EXCEPT !.pc = "marking", !.tries = 0])
       \/ /\ SignalIdTaken(req[h].sid) /\ req[h].tries + 1 < SidTries
          /\ Now(h, [req[h] EXCEPT !.pc = "numbering", !.tries = @ + 1])
       \/ /\ SignalIdTaken(req[h].sid) /\ req[h].tries + 1 = SidTries
          /\ \E late \in FallbackId :
                Now(h, [req[h] EXCEPT !.pc = "marking", !.tries = 0, !.sid = late])
    /\ UNCHANGED <<store, redis>>

MarkTraded_OtherKey(h) ==
    /\ req[h].pc = "marking"
    /\ GoTo(h, "saving")
    /\ UNCHANGED <<store, redis>>

\* sadd and expireat: a failure is swallowed.  The mark is made before the commit.
MarkTraded(h) ==
    /\ req[h].pc = "marking"
    /\ \E o \in RedisOutcomes : tradedToday' = Added(tradedToday, Sym(h), o)
    /\ GoTo(h, "saving")
    /\ UNCHANGED <<store, openCache>>

\* A number that was taken in the meantime (IntegrityError) or a database error
\* ends the request; the mark stays.
CommitSignal(h) ==
    /\ req[h].pc = "saving"
    /\ \/ /\ SignalIdTaken(req[h].sid) \/ Refused \in DbOutcomes
          /\ End(h)
          /\ UNCHANGED store
       \/ \E o \in DbOutcomes, s \in Signal :
             /\ o.applied
             /\ InsertSignal(s, req[h].sid, Sym(h))
             /\ IF o.raised
                THEN End(h)
                ELSE Now(h, [req[h] EXCEPT !.pc = "reading", !.sig = s])
    /\ UNCHANGED redis

\* refresh(signal): the row may be gone, and then the request ends.
RefreshSignal(h) ==
    /\ req[h].pc = "reading"
    /\ \E o \in DbOutcomes :
          \/ /\ o.raised \/ req[h].sig \notin LiveSignals
             /\ End(h)
          \/ /\ ~o.raised /\ req[h].sig \in LiveSignals
             /\ IF req[h].priced THEN GoTo(h, "naming") ELSE Continue(h)
    /\ UNCHANGED <<store, redis>>

-----------------------------------------------------------------------------
\* POST /trades: the client may name a signal of its own.
ReceiveTrade(c) ==
    /\ req[c].pc = "idle"
    /\ \E s \in {None} \cup {x \in Signal : signals[x].status # "unborn"} :
          Now(c, [req[c] EXCEPT !.pc = "naming", !.sig = s])
    /\ UNCHANGED <<store, redis>>

-----------------------------------------------------------------------------
\* open_trade, for a webhook and for POST /trades.

\* The webhook catches what open_trade raises, notes it in its answer and goes on
\* to the next symbol; after a database error its session is unusable.
OpenRaises(r, dbError) ==
    IF r \in Creator
    THEN End(r)
    ELSE Now(r, [NextTurn(r) EXCEPT !.broken = dbError])

OpenReturns(r) == IF r \in Creator THEN End(r) ELSE Continue(r)

PickTradeId(r) ==
    /\ req[r].pc = "naming"
    /\ \E o \in DbOutcomes :
          IF o.raised
          THEN OpenRaises(r, TRUE)
          ELSE Now(r, [req[r] EXCEPT !.pc = "opening", !.tid = NextTradeId])
    /\ UNCHANGED <<store, redis>>

CommitTrade(r) ==
    /\ req[r].pc = "opening"
    /\ \/ /\ \/ TradeIdTaken(req[r].tid)
             \/ req[r].sig \notin LiveSignals \cup {None}
             \/ Refused \in DbOutcomes
          /\ OpenRaises(r, TRUE)
          /\ UNCHANGED store
       \/ \E o \in DbOutcomes, t \in Trade :
             /\ o.applied
             /\ InsertTrade(t, req[r].tid, req[r].sig)
             /\ IF o.raised
                THEN OpenRaises(r, TRUE)
                ELSE Now(r, [req[r] EXCEPT !.pc = "caching", !.trade = t])
    /\ UNCHANGED redis

\* refresh(trade) and the six hsets of its hash (the key is there from the first
\* one on); what follows in the webhook, signal.status = "entered" and a commit,
\* writes nothing: the session already holds that value.
CacheTrade(r) ==
    /\ req[r].pc = "caching"
    /\ \/ \E o \in DbOutcomes :
             /\ o.raised \/ req[r].trade \notin LiveTrades
             /\ OpenRaises(r, o.raised)
             /\ UNCHANGED openCache
       \/ \E o \in RedisOutcomes :
             /\ req[r].trade \in LiveTrades
             /\ openCache' = Added(openCache, req[r].tid, o)
             /\ IF o.raised THEN OpenRaises(r, FALSE) ELSE OpenReturns(r)
    /\ UNCHANGED <<store, tradedToday>>

-----------------------------------------------------------------------------
\* DELETE /signals/cleanup: thirteen DELETEs and one commit.
CleanupTestSignals ==
    /\ DeleteSignals({s \in Signal : signals[s].sym \in TestSymbols})
    /\ UNCHANGED <<redis, req>>

-----------------------------------------------------------------------------
IntakeInit == req = [r \in Request |-> Fresh("idle")]

OpenTradeStep(r) == PickTradeId(r) \/ CommitTrade(r) \/ CacheTrade(r)

WebhookStep(h) ==
    \/ Answer(h) \/ CheckDuplicate(h) \/ FetchPrice(h)
    \/ CountSignals(h) \/ PickSignalId(h) \/ MarkTraded(h) \/ CommitSignal(h) \/ RefreshSignal(h)

IntakeNext ==
    \/ \E h \in Hook : ReceiveWebhook(h) \/ WebhookStep(h)
    \/ \E c \in Creator : ReceiveTrade(c)
    \/ \E r \in Request : OpenTradeStep(r)
    \/ CleanupTestSignals
=============================================================================
