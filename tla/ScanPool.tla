------------------------------- MODULE ScanPool -------------------------------
(***************************************************************************)
(* run_ema_scanner and the executor it shares with get_price.              *)
(*                                                                         *)
(* A scan asks for the market trend (cached in Redis), then starts one     *)
(* coroutine per symbol.  A semaphore lets a few of them fetch at a time,  *)
(* each in the default thread pool, and wait_for gives up on a fetch after *)
(* 15 seconds.  A fetch that is given up in the pool's queue is discarded; *)
(* one that a thread has begun cannot be stopped and keeps its thread.     *)
(* Prices for the trading code come from the same threads, with no limit   *)
(* on the wait.                                                            *)
(***************************************************************************)
EXTENDS Calls, Integers, Sequences, FiniteSets, SequencesExt

CONSTANTS
    Scan,     \* callers of run_ema_scanner: ema_scan_job, POST /scanner/run
    Symbol,   \* FNO_SYMBOLS
    Lookup,   \* callers of get_price
    Batched,  \* those of them that get_prices_batch starts
    Slots,      \* _SEM, 20 in the code
    PriceSlots, \* _PRICE_SEM, 10 in the code
    Workers     \* threads of the default executor

ASSUME ScanPoolAssumption ==
    /\ IsFiniteSet(Scan) /\ IsFiniteSet(Symbol) /\ IsFiniteSet(Lookup)
    /\ Batched \subseteq Lookup
    /\ Scan \cap Lookup = {}
    /\ "trend" \notin Symbol /\ "price" \notin Symbol
    /\ Slots \in Nat \ {0} /\ PriceSlots \in Nat \ {0} /\ Workers \in Nat \ {0}

VARIABLES
    scan,     \* where each scan stands
    fetch,    \* the coroutine _scan_one_async of each scan and symbol
    price,    \* where each get_price stands
    free,     \* value of _SEM
    queue,    \* jobs no thread has begun
    running,  \* jobs under way that somebody awaits
    stray,    \* threads busy with a fetch that was given up
    key       \* ema_scan:ad_trend and ema_scan:latest in Redis

scanVars == <<scan, fetch, free>>
pool == <<queue, running, stray>>
vars == <<scan, fetch, price, free, queue, running, stray, key>>

Fetch == Scan \X Symbol
TrendJob(s) == <<s, "trend">>
PriceJob(p) == <<p, "price">>
Job == Fetch \cup {TrendJob(s) : s \in Scan} \cup {PriceJob(p) : p \in Lookup}

ScanPc == {"idle", "asking", "trending", "keeping", "dating trend",
           "fetching", "caching", "dating result"}

\* A key is absent, stored without a time to live, or stored with one.
KeyState == {"absent", "bare", "dated"}

ScanGoes(s, pc) == scan' = [scan EXCEPT ![s] = pc]
FetchGoes(f, state) == fetch' = [fetch EXCEPT ![f] = state]
PriceGoes(p, pc) == price' = [price EXCEPT ![p] = pc]

\* loop.run_in_executor(None, ...)
Submit(j) == queue' = Append(queue, j)

\* redis.set drops the time to live; redis.expire dates a key that is there.
SetKey(k, o) == key' = [key EXCEPT ![k] = IF o.applied THEN "bare" ELSE @]
ExpireKey(k, o) ==
    key' = [key EXCEPT ![k] = IF o.applied /\ @ = "bare" THEN "dated" ELSE @]

-----------------------------------------------------------------------------
\* run_ema_scanner.

StartScan(s) ==
    /\ scan[s] = "idle"
    /\ ScanGoes(s, "asking")
    /\ UNCHANGED <<fetch, price, free, pool, key>>

\* _get_ad_trend is done: gather starts one coroutine per symbol.
GatherStarts(s) ==
    /\ ScanGoes(s, "fetching")
    /\ fetch' = [f \in Fetch |-> IF f[1] = s THEN "waiting" ELSE fetch[f]]

\* The cached trend is used; if there is none, or the call fails, it is fetched.
ReadTrend(s) ==
    /\ scan[s] = "asking"
    /\ \E o \in RedisOutcomes :
          IF o = Ok /\ key["trend"] # "absent"
          THEN GatherStarts(s) /\ UNCHANGED queue
          ELSE ScanGoes(s, "trending") /\ Submit(TrendJob(s)) /\ UNCHANGED fetch
    /\ UNCHANGED <<price, free, running, stray, key>>

\* redis.set of the trend: a failure is swallowed, with the expire after it.
KeepTrend(s) ==
    /\ scan[s] = "keeping"
    /\ \E o \in RedisOutcomes :
          /\ SetKey("trend", o)
          /\ IF o.raised THEN GatherStarts(s)
                         ELSE ScanGoes(s, "dating trend") /\ UNCHANGED fetch
    /\ UNCHANGED <<price, free, pool>>

DateTrend_OtherKey(s) ==
    /\ scan[s] = "dating trend"
    /\ \E o \in RedisOutcomes : ExpireKey("result", o)
    /\ GatherStarts(s)
    /\ UNCHANGED <<price, free, pool>>

\* redis.expire of the trend.  The stub has no such method: it raises too.
DateTrend(s) ==
    /\ scan[s] = "dating trend"
    /\ \E o \in RedisOutcomes : ExpireKey("trend", o)
    /\ GatherStarts(s)
    /\ UNCHANGED <<price, free, pool>>

\* The scan has every answer; its coroutines are gone.
Gathered(s) ==
    /\ scan[s] = "fetching"
    /\ \A x \in Symbol : fetch[<<s, x>>] = "answered"
    /\ ScanGoes(s, "caching")
    /\ fetch' = [f \in Fetch |-> IF f[1] = s THEN "none" ELSE fetch[f]]
    /\ UNCHANGED <<price, free, pool, key>>

CacheResult(s) ==
    /\ scan[s] = "caching"
    /\ \E o \in RedisOutcomes :
          /\ SetKey("result", o)
          /\ ScanGoes(s, IF o.raised THEN "idle" ELSE "dating result")
    /\ UNCHANGED <<fetch, price, free, pool>>

DateResult(s) ==
    /\ scan[s] = "dating result"
    /\ \E o \in RedisOutcomes : ExpireKey("result", o)
    /\ ScanGoes(s, "idle")
    /\ UNCHANGED <<fetch, price, free, pool>>

-----------------------------------------------------------------------------
\* _scan_one_async.

EnterSlot(f) ==
    /\ fetch[f] = "waiting"
    /\ free > 0
    /\ free' = free - 1
    /\ FetchGoes(f, "fetching")
    /\ Submit(f)
    /\ UNCHANGED <<scan, price, running, stray, key>>

\* future.cancel(): a job that is still queued is taken out ...
Cancelled(f) ==
    /\ \E i \in DOMAIN queue : queue[i] = f /\ queue' = RemoveAt(queue, i)
    /\ UNCHANGED <<running, stray>>

\* ... and one that a thread has begun runs on for nobody.
Abandoned(f) ==
    /\ f \in running
    /\ running' = running \ {f}
    /\ stray' = stray + 1
    /\ UNCHANGED queue

GiveUp_StaysQueued(f) ==
    /\ fetch[f] = "fetching"
    /\ FetchGoes(f, "answered")
    /\ free' = free + 1
    /\ (f \notin running /\ UNCHANGED pool) \/ Abandoned(f)
    /\ UNCHANGED <<scan, price, key>>

GiveUp_KeepsSlot(f) ==
    /\ fetch[f] = "fetching"
    /\ FetchGoes(f, "answered")
    /\ Cancelled(f) \/ Abandoned(f)
    /\ UNCHANGED <<scan, price, free, key>>

\* TimeoutError: the slot is released.
GiveUp(f) ==
    /\ fetch[f] = "fetching"
    /\ FetchGoes(f, "answered")
    /\ free' = free + 1
    /\ Cancelled(f) \/ Abandoned(f)
    /\ UNCHANGED <<scan, price, key>>

-----------------------------------------------------------------------------
\* get_price, called alone or by get_prices_batch behind a semaphore of its own.

PriceHolders_TakenTwice == {p \in Batched : price[p] # "idle"}

PriceHolders == {p \in Batched : price[p] \in {"making", "made", "reading"}}

StartBatch ==
    /\ Batched # {}
    /\ \A p \in Batched : price[p] = "idle"
    /\ price' = [p \in Lookup |-> IF p \in Batched THEN "waiting" ELSE price[p]]
    /\ UNCHANGED <<scanVars, pool, key>>

\* The first job makes the ticker, the second reads fast_info.
MakeTicker(p) ==
    /\ \/ p \in Batched /\ price[p] = "waiting" /\ Cardinality(PriceHolders) < PriceSlots
       \/ p \notin Batched /\ price[p] = "idle"
    /\ PriceGoes(p, "making")
    /\ Submit(PriceJob(p))
    /\ UNCHANGED <<scanVars, running, stray, key>>

ReadInfo(p) ==
    /\ price[p] = "made"
    /\ PriceGoes(p, "reading")
    /\ Submit(PriceJob(p))
    /\ UNCHANGED <<scanVars, running, stray, key>>

-----------------------------------------------------------------------------
\* The executor and Redis.

Idle == Workers - stray - Cardinality(running)

ThreadTakes ==
    /\ Idle > 0
    /\ queue # <<>>
    /\ running' = running \cup {Head(queue)}
    /\ queue' = Tail(queue)
    /\ UNCHANGED <<scanVars, price, stray, key>>

\* A job ends, with a value or an error, and its coroutine goes on.
FetchEnds(f) ==
    /\ f \in running
    /\ running' = running \ {f}
    /\ FetchGoes(f, "answered")
    /\ free' = free + 1
    /\ UNCHANGED <<scan, price, queue, stray, key>>

TrendEnds(s) ==
    /\ TrendJob(s) \in running
    /\ running' = running \ {TrendJob(s)}
    /\ ScanGoes(s, "keeping")
    /\ UNCHANGED <<fetch, price, free, queue, stray, key>>

PriceEnds(p) ==
    /\ PriceJob(p) \in running
    /\ running' = running \ {PriceJob(p)}
    /\ PriceGoes(p, IF price[p] = "making" THEN "made" ELSE "idle")
    /\ UNCHANGED <<scanVars, queue, stray, key>>

StrayEnds ==
    /\ stray > 0
    /\ stray' = stray - 1
    /\ UNCHANGED <<scanVars, price, queue, running, key>>

\* The time to live of a key is over.
Lapse(k) ==
    /\ key[k] = "dated"
    /\ key' = [key EXCEPT ![k] = "absent"]
    /\ UNCHANGED <<scanVars, price, pool>>

-----------------------------------------------------------------------------
Init ==
    /\ scan = [s \in Scan |-> "idle"]
    /\ fetch = [f \in Fetch |-> "none"]
    /\ price = [p \in Lookup |-> "idle"]
    /\ free = Slots
    /\ queue = <<>>
    /\ running = {}
    /\ stray = 0
    /\ key = [k \in {"trend", "result"} |-> "absent"]

\* What a scan does once it has begun, apart from its fetches.
ScanStep(s) ==
    \/ ReadTrend(s)
    \/ KeepTrend(s)
    \/ DateTrend(s)
    \/ Gathered(s)
    \/ CacheResult(s)
    \/ DateResult(s)

ThreadStep ==
    \/ ThreadTakes
    \/ StrayEnds
    \/ \E f \in Fetch : FetchEnds(f)
    \/ \E s \in Scan : TrendEnds(s)
    \/ \E p \in Lookup : PriceEnds(p)

Next ==
    \/ \E s \in Scan : StartScan(s) \/ ScanStep(s)
    \/ \E f \in Fetch : EnterSlot(f) \/ GiveUp(f)
    \/ StartBatch
    \/ \E p \in Lookup : MakeTicker(p) \/ ReadInfo(p)
    \/ ThreadStep
    \/ \E k \in {"trend", "result"} : Lapse(k)

\* The event loop resumes what is ready and hands slots out in the order they
\* were asked for (strong fairness of EnterSlot); a thread takes the next job
\* and its download ends, by yfinance's own timeout at the latest; Redis lets
\* dated keys lapse.  Nobody has to start a scan or a lookup, and nothing has to
\* time out.
Fairness ==
    /\ \A s \in Scan : WF_vars(ScanStep(s)) /\ WF_vars(TrendEnds(s))
    /\ \A f \in Fetch : SF_vars(EnterSlot(f)) /\ WF_vars(FetchEnds(f))
    /\ \A p \in Batched : WF_vars(MakeTicker(p))
    /\ \A p \in Lookup : WF_vars(ReadInfo(p)) /\ WF_vars(PriceEnds(p))
    /\ WF_vars(ThreadTakes) /\ WF_vars(StrayEnds)
    /\ \A k \in {"trend", "result"} : WF_vars(Lapse(k))

Spec == Init /\ [][Next]_vars /\ Fairness

-----------------------------------------------------------------------------
TypeOK ==
    /\ scan \in [Scan -> ScanPc]
    /\ fetch \in [Fetch -> {"none", "waiting", "fetching", "answered"}]
    /\ price \in [Lookup -> {"idle", "waiting", "making", "made", "reading"}]
    /\ free \in 0..Slots
    /\ queue \in Seq(Job)
    /\ running \subseteq Job
    /\ stray \in Nat
    /\ key \in [{"trend", "result"} -> KeyState]
    /\ Idle \in 0..Workers

Fetching == {f \in Fetch : fetch[f] = "fetching"}

\* No slot is lost or given twice, whether a fetch answers, fails or times out
\* with its job in the queue or in a thread (_SEM in _scan_one_async).
SlotsAddUp == free + Cardinality(Fetching) = Slots

\* The semaphore keeps the executor's queue short although the symbols are many:
\* a price lookup finds no more jobs ahead of it than slots, scans and other
\* lookups, whatever has timed out before.
QueueBounded == Len(queue) <= Slots + Cardinality(Scan) + Cardinality(Lookup)

\* A job whose coroutine waits for the executor, and the jobs that are with it.
Due(j) ==
    \/ j \in Fetch /\ fetch[j] = "fetching"
    \/ \E s \in Scan : j = TrendJob(s) /\ scan[s] = "trending"
    \/ \E p \in Lookup : j = PriceJob(p) /\ price[p] \in {"making", "reading"}

Pending == running \cup ToSet(queue)

\* Nobody waits for what cannot come, whatever has been given up: the executor has
\* exactly the jobs that coroutines wait for, a scan has a coroutine for every symbol,
\* who waits for a slot finds one or somebody who will release one, and a queue that
\* no thread works on finds a thread that is or will be idle.
NobodyWaitsForNothing ==
    /\ \A j \in Job : Due(j) <=> j \in Pending
    /\ \A s \in Scan, x \in Symbol : scan[s] = "fetching" <=> fetch[<<s, x>>] # "none"
    /\ \A f \in Fetch : fetch[f] = "waiting" => free > 0 \/ Fetching # {}
    /\ queue # <<>> /\ running = {} => Idle > 0 \/ stray > 0

\* A queued job gets no one ahead of it: it stays where it is or moves up, is taken by
\* a thread, or is given up.
NobodyOvertakes ==
    [][\A j \in Job, i \in DOMAIN queue : queue[i] = j =>
          \/ j \in running'
          \/ ~Due(j)'
          \/ \E k \in DOMAIN queue' : k <= i /\ queue'[k] = j]_vars

\* A key without a time to live is one that some scan is about to date ("TTL 30
\* min", "TTL 10 min"); with a Redis that is up.
BareIsBeingDated ==
    /\ key["trend"] = "bare" => \E s \in Scan : scan[s] = "dating trend"
    /\ key["result"] = "bare" => \E s \in Scan : scan[s] = "dating result"

\* Every scan ends, however many fetches hang and whoever else scans.
ScanEnds == \A s \in Scan : scan[s] # "idle" ~> scan[s] = "idle"

\* Every price that is asked for arrives, although scans compete for the threads
\* and get_price has no timeout: the executor's queue is first in, first out.
PriceArrives == \A p \in Lookup : price[p] # "idle" ~> price[p] = "idle"

\* A cached trend lapses, so that a later scan looks at the market again.
TrendLapses == key["trend"] # "absent" ~> key["trend"] = "absent"
=============================================================================
