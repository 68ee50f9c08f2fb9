------------------------------ MODULE TradeDash ------------------------------
(***************************************************************************)
(* The trading core: webhooks and manual trades (SignalIntake), exits and  *)
(* scheduled jobs (PositionExits) over one database and one Redis, and a   *)
(* process that may be killed and started again.  Coroutines die with the  *)
(* process; PostgreSQL and Redis keep what was committed.                  *)
(***************************************************************************)
EXTENDS SignalIntake, PositionExits

CONSTANT MaxCrashes  \* bound: restarts of the process

ASSUME DashAssumption == MaxCrashes \in Nat

VARIABLE crashes

vars == <<store, redis, req, exits, crashes>>

TypeOK ==
    /\ StoreTypeOK
    /\ tradedToday \subseteq Symbol
    /\ openCache \subseteq Nat
    /\ IntakeTypeOK
    /\ ExitsTypeOK
    /\ crashes \in Nat

-----------------------------------------------------------------------------
\* The process is killed and starts anew (lifespan).  Requests under way are
\* lost, and so is a job that was running: the scheduler keeps its jobs in memory
\* and does not make up for a firing it missed, so a job that runs once may have
\* been due while the process was down.
Crash ==
    /\ crashes < MaxCrashes
    /\ crashes' = crashes + 1
    /\ req' = [r \in Request |-> IF r \in InFlight THEN Fresh("done") ELSE req[r]]
    /\ \E missed \in SUBSET {j \in Job \ {"monitor"} : exit[j].pc = "idle"} :
          exit' = [c \in Closer |->
                      CASE c \in missed -> Rest("done")
                        [] exit[c].pc \in {"idle", "done"} /\ c \notin missed -> exit[c]
                        [] OTHER -> Rest(IF c = "monitor" THEN "idle" ELSE "done")]
    /\ UNCHANGED <<store, redis, closedBy>>

Init ==
    /\ StoreInit
    /\ tradedToday = {}
    /\ openCache = {}
    /\ IntakeInit
    /\ ExitsInit
    /\ crashes = 0

Next ==
    \/ IntakeNext /\ UNCHANGED <<exits, crashes>>
    \/ ExitsNext /\ UNCHANGED <<req, crashes>>
    \/ Crash

Spec == Init /\ [][Next]_vars

\* Every coroutine that can go on is resumed by the event loop in the end, and
\* the scheduler fires the run-once jobs.  Nothing makes a client send a request
\* and nothing makes a price reach its levels.
Fairness ==
    /\ \A h \in Hook : WF_vars(WebhookStep(h) /\ UNCHANGED <<exits, crashes>>)
    /\ \A r \in Request : WF_vars(OpenTradeStep(r) /\ UNCHANGED <<exits, crashes>>)
    /\ \A j \in Job : WF_vars(StartJob(j) /\ UNCHANGED <<req, crashes>>)
    /\ \A c \in Job \ {"monitor"} :
          WF_vars(CloseTradeStep(c) /\ UNCHANGED <<req, crashes>>)

LiveSpec == Spec /\ Fairness

-----------------------------------------------------------------------------
\* SAFETY

\* Nobody closes the same trade twice: whoever holds a trade it has yet to close
\* has not closed it before, tick after tick of the monitor included, and a trade
\* that is still open was closed by nobody.  (Two different closers can, see
\* ClosedIsFinal.)
NoRepeatExit ==
    /\ \A c \in Closer : \A t \in exit[c].todo : c \notin closedBy[t]
    /\ \A t \in OpenTrades : closedBy[t] = {}

\* At most one live signal per symbol and day ("blocks same symbol regardless of
\* BUY/SELL direction").
OneSignalPerSymbol ==
    \A s, u \in LiveSignals : signals[s].sym = signals[u].sym => s = u

\* A symbol has at most as many live signals as webhooks were under way at once: the
\* duplicate check and the mark are parted by awaits, but whoever comes after the
\* first mark is refused, so that the damage of the race is bounded by its width.
SignalsOf(y) == {s \in LiveSignals : signals[s].sym = y}
SignalsBoundedByOverlap == \A y \in Symbol : Cardinality(SignalsOf(y)) <= MaxInFlight

\* A signal that no request works on any more has its trade ("Paper trade
\* auto-creation on every signal"); `pending` says that it has none.  A restart
\* may leave one without.
SignalGetsTrade ==
    crashes = 0 =>
        \A s \in LiveSignals :
            signals[s].status = "pending" => \E h \in Hook : req[h].sig = s

\* An open trade has its hash in Redis once the request that opened it is past
\* its hsets.  A restart may come between the commit and the hsets.
OpenTradeCached ==
    crashes = 0 =>
        \A t \in OpenTrades :
            trades[t].tid \in openCache \/ \E r \in Request : req[r].trade = t

\* Whatever force_exit_all, weekly_cleanup or an exit request has passed in its
\* loop is closed and stays closed: the pass that ends normally left nothing open
\* of what it read, whoever else closed, deleted or opened trades meanwhile.
SweepLeavesNothingOpen ==
    \A c \in Closer \ {"monitor"} :
        (exit[c].read \ exit[c].todo) \cap OpenTrades = {}

-----------------------------------------------------------------------------
\* ACTION PROPERTIES

\* The weekly wipe takes no open trade that its safety net had read, redis or
\* database errors, manual exits and restarts notwithstanding.  (A trade opened
\* after the net was cast is wiped open.)
WipeSparesRead ==
    [][\A t \in exit["cleanup"].read \cap OpenTrades :
          trades'[t].status # "deleted"]_vars

\* A closed trade keeps its outcome (exit_trade answers "Cannot exit trade with
\* status"; force_exit_all closes "all remaining open trades").
ClosedIsFinal ==
    [][\A t \in LiveTrades \ OpenTrades : trades'[t].status \in {trades[t].status, "deleted"}]_vars

\* What becomes of a closed trade after all: it is overwritten by another closer than
\* those who closed it so far, one that had the trade in its list when they did, and
\* never by one of them again.
OverwrittenByAnother ==
    [][\A t \in LiveTrades \ OpenTrades :
          \/ trades'[t].status \in {trades[t].status, "deleted"}
          \/ /\ closedBy[t] # {}
             /\ \E c \in Closer \ closedBy[t] :
                   t \in exit[c].todo /\ closedBy'[t] = closedBy[t] \cup {c}]_vars

\* A symbol is blocked for the day and nothing shows for it: no signal, and no webhook
\* about to store one.
Blocked(y) ==
    /\ y \in tradedToday /\ SignalsOf(y) = {}
    /\ \A h \in Hook : ~(req[h].pc = "saving" /\ Sym(h) = y)

\* A symbol is lost for the day only by a webhook that ends between its mark and its
\* signal's commit (a refused commit, a kill) or by deleting signals: one that is
\* skipped, by a guard or as a duplicate, or has no price, stays free ("traded_today").
LostOnlyUnsaved ==
    [][\A y \in Symbol :
          Blocked(y)' => \/ Blocked(y)
                         \/ signals' # signals
                         \/ \E h \in Hook : /\ req[h].pc = "saving" /\ Sym(h) = y
                                            /\ req'[h].pc = "done"]_vars

\* How many steps a request may still take in its turn: two for each number it may yet
\* try, and one for everything else.
TurnSteps ==
    [checking |-> 2 * SidTries + 8, pricing |-> 2 * SidTries + 7,
     numbering |-> 2 * SidTries + 6, probing |-> 2 * SidTries + 5, marking |-> 6,
     saving |-> 5, reading |-> 4, naming |-> 3, opening |-> 2, caching |-> 1,
     idle |-> 0, done |-> 0]
TurnLeft(local) ==
    TurnSteps[local.pc] - IF local.pc \in {"numbering", "probing"} THEN 2 * local.tries ELSE 0

\* A request has got on: fewer symbols are left to it, or fewer steps of its turn.
Nearer(new, old) ==
    \/ Len(new.todo) < Len(old.todo)
    \/ Len(new.todo) = Len(old.todo) /\ TurnLeft(new) < TurnLeft(old)

\* No step of a request is in vain: whatever fails or is skipped, and whatever others do
\* meanwhile, a webhook never comes back to a symbol it has dealt with and does not try
\* numbers for ever.
RequestsAdvance ==
    [][\A r \in Request :
          req[r].pc = "idle" \/ req'[r] = req[r] \/ Nearer(req'[r], req[r])]_vars

\* The same of a pass: two steps for each trade it has yet to visit, and the wipe.
PassSteps ==
    [looping |-> 4, dropping |-> 5, wipingTrades |-> 3, wipingSignals |-> 2,
     wipingKeys |-> 1, idle |-> 0, done |-> 0]
StepsToGo(pass) == 2 * Cardinality(pass.todo) + PassSteps[pass.pc]

\* A pass visits each trade it has read at most once, and ends: other closers, new trades
\* and failures do not keep it going.
PassesAdvance ==
    [][\A c \in Closer :
          exit[c].pc = "idle" \/ exit'[c] = exit[c] \/ StepsToGo(exit'[c]) < StepsToGo(exit[c])]_vars

-----------------------------------------------------------------------------
\* LIVENESS

\* A trade that is open before force_exit_all fires does not stay open.
ForcedOut ==
    \A t \in Trade :
        (t \in OpenTrades /\ exit["force"].pc = "idle") ~> t \notin OpenTrades

\* A webhook that was taken up is answered or fails.
WebhookEnds == \A h \in Hook : req[h].pc # "idle" ~> req[h].pc = "done"
=============================================================================
