----------------------------- MODULE PositionExits -----------------------------
(***************************************************************************)
(* Leaving trades: the scheduled jobs monitor_open_trades, force_exit_all  *)
(* and weekly_cleanup, and PUT /trades/{id}/exit, all through close_trade. *)
(*                                                                         *)
(* A job reads the open trades once, waits for their prices, and closes    *)
(* them one by one from the rows it read: nobody looks at a row's status   *)
(* again.  Jobs and requests are coroutines of one event loop and overtake *)
(* one another at every await.                                             *)
(***************************************************************************)
EXTENDS TradeStore, Backends

CONSTANTS
    Job,    \* the scheduled jobs of the instance
    Exiter  \* PUT /trades/{id}/exit requests

ASSUME ExitsAssumption ==
    /\ Job \subseteq {"monitor", "force", "cleanup"}
    /\ Job \cap Exiter = {}
    /\ None \notin Trade

VARIABLES
    exit,     \* where each job and exit request stands
    closedBy  \* history: who committed an exit of the trade

exits == <<exit, closedBy>>

Closer == Job \cup Exiter

ExitPc == {"idle", "looping", "dropping", "wipingTrades", "wipingSignals",
           "wipingKeys", "done"}

\* `read` is the list the job read, `todo` what its loop has yet to visit, `cur`
\* the trade it is busy with.
ExitType == [pc : ExitPc, read : SUBSET Trade, todo : SUBSET Trade,
             cur : Trade \cup {None}]

ExitsTypeOK ==
    /\ exit \in [Closer -> ExitType]
    /\ closedBy \in [Trade -> SUBSET Closer]

Rest(pc) == [pc |-> pc, read |-> {}, todo |-> {}, cur |-> None]
Sweep(T) == [pc |-> "looping", read |-> T, todo |-> T, cur |-> None]
Dropping(c, t) == [exit[c] EXCEPT !.pc = "dropping", !.cur = t, !.todo = @ \ {t}]
Looping(c) == [exit[c] EXCEPT !.pc = "looping", !.cur = None]
Become(c, pc) == exit' = [exit EXCEPT ![c] = Rest(pc)]

\* The end of a pass: the monitor comes back with the next minute, the others run
\* once.  An exception ends it just the same (`try` is around the loop, not inside)
\* and leaves what the loop had yet to visit.
Leaves(c) == Become(c, IF c = "monitor" THEN "idle" ELSE "done")

Verdicts_Unmapped(c) == {"force-exit-eod", "exited"}

\* The final statuses a caller of close_trade can ask for (status_map).  The
\* reason of a manual exit is the client's own text.
Verdicts(c) ==
    CASE c = "monitor"             -> {"sl-hit", "target-hit"}
      [] c \in {"force", "cleanup"} -> {"exited"}
      [] OTHER                     -> Final

-----------------------------------------------------------------------------
StartJob_ReadsAll(j) ==
    /\ exit[j].pc = "idle"
    /\ exit' = [exit EXCEPT ![j] = Sweep(LiveTrades)]
    /\ UNCHANGED <<store, redis, closedBy>>

\* select(Trade).where(status == "entered"), and a job with nothing to close.
StartJob(j) ==
    /\ exit[j].pc = "idle"
    /\ \/ /\ OpenTrades = {} /\ j # "cleanup"
          /\ Leaves(j)
       \/ /\ OpenTrades # {} \/ j = "cleanup"
          /\ exit' = [exit EXCEPT ![j] = Sweep(OpenTrades)]
       \/ /\ Refused \in DbOutcomes
          /\ Leaves(j)
    /\ UNCHANGED <<store, redis, closedBy>>

\* exit_trade: find the row and its status, 404 and 400 otherwise.
ReceiveExit(e) ==
    /\ exit[e].pc = "idle"
    /\ \E t \in Trade :
          \/ /\ t \in OpenTrades
             /\ exit' = [exit EXCEPT ![e] = Sweep({t})]
          \/ /\ trades[t].status \notin {"unborn", "entered"}
             /\ Become(e, "done")
    /\ UNCHANGED <<store, redis, closedBy>>

Hold_SavesRow(t) ==
    /\ t \in exit["monitor"].todo
    /\ exit["monitor"].pc = "looping"
    /\ exit' = [exit EXCEPT !["monitor"].todo = @ \ {t}]
    /\ trades' = [trades EXCEPT ![t].status = "entered"]
    /\ UNCHANGED <<signals, redis, closedBy>>

\* The monitor leaves a trade alone: no price for its symbol, or one between the
\* stop loss and the target.
Hold(t) ==
    /\ t \in exit["monitor"].todo
    /\ exit["monitor"].pc = "looping"
    /\ exit' = [exit EXCEPT !["monitor"].todo = @ \ {t}]
    /\ UNCHANGED <<store, redis, closedBy>>

CommitExit_SkipsUnpriced(c, t) ==
    /\ exit[c].pc = "looping"
    /\ t \in exit[c].todo
    /\ exit' = [exit EXCEPT ![c].todo = @ \ {t}]
    /\ UNCHANGED <<store, redis, closedBy>>

CommitExit_SwallowsErrors(c, t) ==
    /\ exit[c].pc = "looping"
    /\ t \in exit[c].todo
    /\ exit' = [exit EXCEPT ![c].todo = @ \ {t}]
    /\ \/ UNCHANGED <<store, closedBy>>
       \/ \E final \in Verdicts(c) :
             /\ ExitTrade(t, final)
             /\ closedBy' = [closedBy EXCEPT ![t] = @ \cup {c}]
    /\ UNCHANGED redis

\* close_trade up to its commit.  A row that is gone fails the UPDATE
\* (StaleDataError).
CommitExit(c, t) ==
    /\ exit[c].pc = "looping"
    /\ t \in exit[c].todo
    /\ \/ /\ t \notin LiveTrades \/ Refused \in DbOutcomes
          /\ Leaves(c)
          /\ UNCHANGED <<store, closedBy>>
       \/ \E o \in DbOutcomes, final \in Verdicts(c) :
             /\ o.applied
             /\ ExitTrade(t, final)
             /\ closedBy' = [closedBy EXCEPT ![t] = @ \cup {c}]
             /\ IF o.raised
                THEN Leaves(c)
                ELSE exit' = [exit EXCEPT ![c] = Dropping(c, t)]
    /\ UNCHANGED redis

DropCache_DropsAll(c) ==
    /\ exit[c].pc = "dropping"
    /\ openCache' = {}
    /\ exit' = [exit EXCEPT ![c] = Looping(c)]
    /\ UNCHANGED <<store, tradedToday, closedBy>>

\* refresh(trade), redis.delete and the notifications, which raise nothing.
DropCache(c) ==
    /\ exit[c].pc = "dropping"
    /\ \/ /\ exit[c].cur \notin LiveTrades \/ Refused \in DbOutcomes
          /\ Leaves(c)
          /\ UNCHANGED openCache
       \/ \E o \in RedisOutcomes :
             /\ exit[c].cur \in LiveTrades
             /\ openCache' = Removed(openCache, trades[exit[c].cur].tid, o)
             /\ IF o.raised
                THEN Leaves(c)
                ELSE exit' = [exit EXCEPT ![c] = Looping(c)]
    /\ UNCHANGED <<store, tradedToday, closedBy>>

\* Every trade of the pass is dealt with.
FinishLoop(c) ==
    /\ exit[c].pc = "looping"
    /\ exit[c].todo = {}
    /\ IF c = "cleanup" THEN exit' = [exit EXCEPT ![c].pc = "wipingTrades"]
                        ELSE Leaves(c)
    /\ UNCHANGED <<store, redis, closedBy>>

-----------------------------------------------------------------------------
\* weekly_cleanup after its safety net: two commits and the dedup keys.

WipeTrades ==
    /\ exit["cleanup"].pc = "wipingTrades"
    /\ \/ /\ Refused \in DbOutcomes
          /\ Leaves("cleanup")
          /\ UNCHANGED store
       \/ \E o \in DbOutcomes :
             /\ o.applied
             /\ DeleteAllTrades
             /\ IF o.raised THEN Leaves("cleanup")
                            ELSE Become("cleanup", "wipingSignals")
    /\ UNCHANGED <<redis, closedBy>>

WipeSignals ==
    /\ exit["cleanup"].pc = "wipingSignals"
    /\ \/ /\ Refused \in DbOutcomes
          /\ Leaves("cleanup")
          /\ UNCHANGED store
       \/ \E o \in DbOutcomes :
             /\ o.applied
             /\ DeleteSignals(Signal)
             /\ IF o.raised THEN Leaves("cleanup")
                            ELSE Become("cleanup", "wipingKeys")
    /\ UNCHANGED <<redis, closedBy>>

\* A failure is swallowed; the open_trade hashes are not touched.
WipeKeys ==
    /\ exit["cleanup"].pc = "wipingKeys"
    /\ \E o \in RedisOutcomes : tradedToday' = IF o.applied THEN {} ELSE tradedToday
    /\ Become("cleanup", "done")
    /\ UNCHANGED <<store, openCache, closedBy>>

-----------------------------------------------------------------------------
ExitsInit ==
    /\ exit = [c \in Closer |-> Rest("idle")]
    /\ closedBy = [t \in Trade |-> {}]

CloseTradeStep(c) ==
    \/ \E t \in Trade : CommitExit(c, t)
    \/ DropCache(c)
    \/ FinishLoop(c)

ExitsNext ==
    \/ \E j \in Job : StartJob(j)
    \/ \E e \in Exiter : ReceiveExit(e)
    \/ \E t \in Trade : "monitor" \in Job /\ Hold(t)
    \/ \E c \in Closer : CloseTradeStep(c)
    \/ "cleanup" \in Job /\ (WipeTrades \/ WipeSignals \/ WipeKeys)
=============================================================================
