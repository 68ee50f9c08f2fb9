---------------------------- MODULE ScanPoolProofs ----------------------------
(***************************************************************************)
(* The scanner's slots and the executor's queue, for any number of scans,  *)
(* symbols, lookups, slots and threads and any Redis: no slot is lost, the *)
(* queue stays short; and for a Redis that is up, every cached key is      *)
(* dated in the end.                                                       *)
(***************************************************************************)
EXTENDS ScanPool, TLAPS, FiniteSetTheorems, SequenceTheorems

-----------------------------------------------------------------------------
(* The jobs. *)

LEMMA JobKinds ==
  /\ \A s \in Scan : TrendJob(s) \in Job /\ TrendJob(s) \notin Fetch
  /\ \A p \in Lookup : PriceJob(p) \in Job /\ PriceJob(p) \notin Fetch
  /\ \A s \in Scan, p \in Lookup : TrendJob(s) # PriceJob(p)
  /\ \A s, t \in Scan : TrendJob(s) = TrendJob(t) => s = t
  /\ \A p, q \in Lookup : PriceJob(p) = PriceJob(q) => p = q
  /\ Fetch \subseteq Job
  BY ScanPoolAssumption DEF Job, Fetch, TrendJob, PriceJob

\* The jobs somebody awaits, by where the coroutines stand.
Awaited == {j \in Job : Due(j)}

LEMMA DueByKind ==
  /\ \A f \in Fetch : f \in Awaited <=> fetch[f] = "fetching"
  /\ \A s \in Scan : TrendJob(s) \in Awaited <=> scan[s] = "trending"
  /\ \A p \in Lookup : PriceJob(p) \in Awaited <=> price[p] \in {"making", "reading"}
  BY JobKinds DEF Awaited, Due

LEMMA NextDueByKind ==
  /\ \A f \in Fetch : f \in Awaited' <=> fetch'[f] = "fetching"
  /\ \A s \in Scan : TrendJob(s) \in Awaited' <=> scan'[s] = "trending"
  /\ \A p \in Lookup : PriceJob(p) \in Awaited' <=> price'[p] \in {"making", "reading"}
  BY JobKinds DEF Awaited, Due

\* Every job is of one of the three kinds.
LEMMA ThreeKinds ==
  ASSUME NEW j \in Job
  PROVE  \/ j \in Fetch
         \/ \E s \in Scan : j = TrendJob(s)
         \/ \E p \in Lookup : j = PriceJob(p)
  BY DEF Job

LEMMA KindsCounted ==
  LET trends == {TrendJob(s) : s \in Scan}
      prices == {PriceJob(p) : p \in Lookup}
  IN  /\ IsFiniteSet(trends) /\ Cardinality(trends) <= Cardinality(Scan)
      /\ IsFiniteSet(prices) /\ Cardinality(prices) <= Cardinality(Lookup)
      /\ Cardinality(trends) \in Nat /\ Cardinality(prices) \in Nat
  <1> DEFINE trends == {TrendJob(s) : s \in Scan}
             prices == {PriceJob(p) : p \in Lookup}
  <1>1. IsFiniteSet(trends) /\ Cardinality(trends) <= Cardinality(Scan)
    <2>1. [s \in Scan |-> TrendJob(s)] \in Surjection(Scan, trends)
      BY DEF Surjection
    <2> QED BY <2>1, ScanPoolAssumption, FS_Surjection
  <1>2. IsFiniteSet(prices) /\ Cardinality(prices) <= Cardinality(Lookup)
    <2>1. [p \in Lookup |-> PriceJob(p)] \in Surjection(Lookup, prices)
      BY DEF Surjection
    <2> QED BY <2>1, ScanPoolAssumption, FS_Surjection
  <1> QED BY <1>1, <1>2, FS_CardinalityType

LEMMA FinitelyManyJobs == IsFiniteSet(Fetch) /\ IsFiniteSet(Job)
  <1>1. IsFiniteSet(Fetch)
    BY ScanPoolAssumption, FS_Product DEF Fetch
  <1> DEFINE trends == {TrendJob(s) : s \in Scan}
             prices == {PriceJob(p) : p \in Lookup}
  <1>2. IsFiniteSet(trends) /\ IsFiniteSet(prices)
    BY KindsCounted
  <1>3. Job = (Fetch \cup trends) \cup prices
    BY DEF Job
  <1> HIDE DEF trends, prices
  <1> QED BY <1>1, <1>2, <1>3, FS_Union

-----------------------------------------------------------------------------
(* The executor. *)

\* A job waits in one place of the queue or in one thread, and is then awaited by
\* somebody; the other busy threads work for nobody.
PoolInv ==
  /\ queue \in Seq(Job)
  /\ running \subseteq Job
  /\ stray \in Nat
  /\ stray + Cardinality(running) <= Workers
  /\ \A a, b \in 1..Len(queue) : queue[a] = queue[b] => a = b
  /\ \A a \in 1..Len(queue) : queue[a] \in Awaited /\ queue[a] \notin running
  /\ running \subseteq Awaited

LEMMA RunningIsFinite ==
  ASSUME running \subseteq Job
  PROVE  IsFiniteSet(running) /\ Cardinality(running) \in Nat
  BY FinitelyManyJobs, FS_Subset, FS_CardinalityType

\* What removing a place does to a queue.
LEMMA RemovedPlace ==
  ASSUME NEW q \in Seq(Job), NEW i \in 1..Len(q)
  PROVE  /\ RemoveAt(q, i) \in Seq(Job)
         /\ Len(RemoveAt(q, i)) = Len(q) - 1
         /\ \A a \in 1..(Len(q) - 1) :
               RemoveAt(q, i)[a] = IF a < i THEN q[a] ELSE q[a + 1]
  <1> DEFINE s1 == SubSeq(q, 1, i - 1)
             s2 == SubSeq(q, i + 1, Len(q))
  <1>1. Len(q) \in Nat /\ i \in Nat /\ i >= 1 /\ i <= Len(q)
    BY LenProperties
  <1>2. \A a \in 1..Len(q) : q[a] \in Job
    BY ElementOfSeq
  <1>3. /\ s1 \in Seq(Job) /\ Len(s1) = i - 1
        /\ \A a \in 1..(i - 1) : s1[a] = q[a]
    <2>1. \A a \in 1..(i - 1) : q[a] \in Job
      BY <1>1, <1>2
    <2> HIDE DEF s1
    <2>2. /\ s1 \in Seq(Job) /\ Len(s1) = IF 1 <= i - 1 THEN (i - 1) - 1 + 1 ELSE 0
          /\ \A a \in 1..((i - 1) - 1 + 1) : s1[a] = q[1 + a - 1]
      BY <1>1, <2>1, SubSeqProperties DEF s1
    <2>3. \A a \in 1..(i - 1) : 1 + a - 1 = a
      OBVIOUS
    <2> QED BY <1>1, <2>2, <2>3
  <1>4. /\ s2 \in Seq(Job) /\ Len(s2) = Len(q) - i
        /\ \A a \in 1..(Len(q) - i) : s2[a] = q[i + a]
    <2>1. \A a \in (i + 1)..Len(q) : q[a] \in Job
      BY <1>1, <1>2
    <2> HIDE DEF s2
    <2>2. /\ s2 \in Seq(Job)
          /\ Len(s2) = IF i + 1 <= Len(q) THEN Len(q) - (i + 1) + 1 ELSE 0
          /\ \A a \in 1..(Len(q) - (i + 1) + 1) : s2[a] = q[(i + 1) + a - 1]
      BY <1>1, <2>1, SubSeqProperties DEF s2
    <2>3. \A a \in 1..(Len(q) - i) : (i + 1) + a - 1 = i + a
      BY <1>1
    <2> QED BY <1>1, <2>2, <2>3
  <1> HIDE DEF s1, s2
  <1> DEFINE rest == s1 \o s2
  <1>5. /\ rest \in Seq(Job)
        /\ Len(rest) = Len(s1) + Len(s2)
        /\ \A a \in 1..(Len(s1) + Len(s2)) :
              rest[a] = IF a <= Len(s1) THEN s1[a] ELSE s2[a - Len(s1)]
    BY <1>3, <1>4, ConcatProperties, Zenon
  <1>6. RemoveAt(q, i) = rest
    BY DEF RemoveAt, s1, s2
  <1> HIDE DEF rest
  <1>7. Len(rest) = Len(q) - 1
    BY <1>1, <1>3, <1>4, <1>5
  <1>8. ASSUME NEW a \in 1..(Len(q) - 1)
        PROVE  rest[a] = IF a < i THEN q[a] ELSE q[a + 1]
    <2>1. /\ Len(s1) = i - 1 /\ Len(s1) + Len(s2) = Len(q) - 1
          /\ i \in Int /\ a \in Int /\ a >= 1 /\ a <= Len(q) - 1
      BY <1>1, <1>3, <1>4
    <2>2. rest[a] = IF a <= i - 1 THEN s1[a] ELSE s2[a - (i - 1)]
      BY <1>5, <2>1
    <2>3. CASE a < i
      <3>1. a <= i - 1 /\ a \in 1..(i - 1)
        BY <2>1, <2>3
      <3> QED BY <1>3, <2>2, <2>3, <3>1
    <2>4. CASE ~(a < i)
      <3>1. /\ ~(a <= i - 1) /\ a - (i - 1) \in 1..(Len(q) - i)
            /\ i + (a - (i - 1)) = a + 1
        BY <1>1, <2>1, <2>4
      <3> QED BY <1>4, <2>2, <2>4, <3>1
    <2> QED BY <2>3, <2>4
  <1> QED BY <1>5, <1>6, <1>7, <1>8, Zenon

\* Nothing happens in the executor, and nobody stops waiting.
LEMMA PoolRests ==
  ASSUME PoolInv, UNCHANGED pool, Awaited \subseteq Awaited'
  PROVE  PoolInv'
  BY DEF PoolInv, pool

\* A job nobody awaited is submitted.
LEMMA PoolAccepts ==
  ASSUME PoolInv, NEW j \in Job, j \notin Awaited, Submit(j),
         running' = running, stray' = stray, Awaited \cup {j} \subseteq Awaited'
  PROVE  PoolInv'
  <1>1. /\ queue' \in Seq(Job) /\ Len(queue') = Len(queue) + 1 /\ Len(queue) \in Nat
        /\ \A a \in 1..Len(queue) : queue'[a] = queue[a]
        /\ queue'[Len(queue) + 1] = j
    BY AppendProperties, LenProperties DEF PoolInv, Submit
  <1>2. \A a \in 1..Len(queue) : queue[a] # j
    BY DEF PoolInv
  <1>3. \A a \in 1..Len(queue') : a \in 1..Len(queue) \/ a = Len(queue) + 1
    BY <1>1
  <1>4. \A a, b \in 1..Len(queue') : queue'[a] = queue'[b] => a = b
    BY <1>1, <1>2, <1>3 DEF PoolInv
  <1>5. \A a \in 1..Len(queue') : queue'[a] \in Awaited' /\ queue'[a] \notin running'
    BY <1>1, <1>3 DEF PoolInv
  <1> QED BY <1>1, <1>4, <1>5 DEF PoolInv

\* A thread takes the first job.
LEMMA PoolTakes ==
  ASSUME PoolInv, ThreadTakes
  PROVE  PoolInv'
  <1>1. /\ queue \in Seq(Job) /\ queue # <<>> /\ Len(queue) \in Nat /\ Len(queue) >= 1
        /\ queue[1] \in Job /\ Head(queue) = queue[1]
    BY EmptySeq, LenProperties, ElementOfSeq DEF PoolInv, ThreadTakes
  <1>2. /\ queue' \in Seq(Job) /\ Len(queue') = Len(queue) - 1
        /\ \A a \in 1..(Len(queue) - 1) : queue'[a] = queue[a + 1]
    BY <1>1, HeadTailProperties DEF ThreadTakes
  <1>3. running' = running \cup {queue[1]} /\ queue[1] \notin running
    BY <1>1 DEF PoolInv, ThreadTakes
  <1>4. stray' + Cardinality(running') <= Workers
    <2>1. IsFiniteSet(running) /\ Cardinality(running) \in Nat
      BY RunningIsFinite DEF PoolInv
    <2>2. Cardinality(running') = Cardinality(running) + 1
      BY <1>3, <2>1, FS_AddElement
    <2>3. stray + Cardinality(running) < Workers /\ stray' = stray /\ stray \in Nat
      BY <2>1, ScanPoolAssumption DEF ThreadTakes, Idle, PoolInv
    <2> QED BY <2>1, <2>2, <2>3, ScanPoolAssumption
  <1>5. Awaited' = Awaited
    BY DEF ThreadTakes, scanVars, Awaited, Due
  <1>6. \A a \in 1..Len(queue') : a + 1 \in 1..Len(queue) /\ a + 1 # 1
    BY <1>1, <1>2
  <1>7. \A a \in 1..Len(queue') : queue'[a] \in Awaited /\ queue'[a] \notin running'
    BY <1>1, <1>2, <1>3, <1>6 DEF PoolInv
  <1>8. \A a, b \in 1..Len(queue') : queue'[a] = queue'[b] => a = b
    BY <1>1, <1>2, <1>6 DEF PoolInv
  <1>9. running' \subseteq Awaited /\ running' \subseteq Job
    BY <1>1, <1>3 DEF PoolInv
  <1>10. stray' \in Nat
    BY DEF PoolInv, ThreadTakes
  <1> QED BY <1>2, <1>4, <1>5, <1>7, <1>8, <1>9, <1>10 DEF PoolInv

\* A job leaves its thread: it has ended, or it was abandoned.
LEMMA PoolReleases ==
  ASSUME PoolInv, NEW j \in running, running' = running \ {j}, queue' = queue,
         \/ stray' = stray
         \/ stray' = stray + 1,
         Awaited \ {j} \subseteq Awaited'
  PROVE  PoolInv'
  <1>1. IsFiniteSet(running) /\ Cardinality(running) \in Nat
    BY RunningIsFinite DEF PoolInv
  <1>2. Cardinality(running') = Cardinality(running) - 1
    BY <1>1, FS_RemoveElement
  <1>3. stray' \in Nat /\ stray' + Cardinality(running') <= Workers
    BY <1>1, <1>2, ScanPoolAssumption DEF PoolInv
  <1>4. \A a \in 1..Len(queue) : queue[a] # j
    BY DEF PoolInv
  <1> QED BY <1>3, <1>4 DEF PoolInv

\* A queued job is cancelled.
LEMMA PoolCancels ==
  ASSUME PoolInv, NEW j, Cancelled(j), Awaited \ {j} \subseteq Awaited'
  PROVE  PoolInv'
  <1>1. PICK i \in 1..Len(queue) : queue[i] = j /\ queue' = RemoveAt(queue, i)
    BY LenProperties DEF Cancelled, PoolInv
  <1>2. /\ queue' \in Seq(Job) /\ Len(queue') = Len(queue) - 1
        /\ \A a \in 1..(Len(queue) - 1) :
              queue'[a] = IF a < i THEN queue[a] ELSE queue[a + 1]
    BY <1>1, RemovedPlace DEF PoolInv
  <1>3. Len(queue) \in Nat
    BY LenProperties DEF PoolInv
  <1> DEFINE from(a) == IF a < i THEN a ELSE a + 1
  <1>4. \A a \in 1..Len(queue') :
           from(a) \in 1..Len(queue) /\ from(a) # i /\ queue'[a] = queue[from(a)]
    BY <1>2, <1>3
  <1>5. \A a, b \in 1..Len(queue') : from(a) = from(b) => a = b
    BY <1>2, <1>3
  <1> HIDE DEF from
  <1>6. \A a, b \in 1..Len(queue') : queue'[a] = queue'[b] => a = b
    BY <1>4, <1>5 DEF PoolInv
  <1>7. \A a \in 1..Len(queue') : queue'[a] # j
    BY <1>1, <1>4 DEF PoolInv
  <1>8. \A a \in 1..Len(queue') : queue'[a] \in Awaited' /\ queue'[a] \notin running'
    BY <1>4, <1>7 DEF PoolInv, Cancelled
  <1>9. running' \subseteq Awaited'
    BY <1>1 DEF PoolInv, Cancelled
  <1> QED BY <1>2, <1>6, <1>8, <1>9 DEF PoolInv, Cancelled

-----------------------------------------------------------------------------
(* The coroutines and the semaphore. *)

\* The types, and that a scan has fetches only while it gathers them.
CoroutineInv ==
  /\ scan \in [Scan -> ScanPc]
  /\ fetch \in [Fetch -> {"none", "waiting", "fetching", "answered"}]
  /\ price \in [Lookup -> {"idle", "waiting", "making", "made", "reading"}]
  /\ free \in Nat
  /\ key \in [{"trend", "result"} -> KeyState]
  /\ \A s \in Scan, x \in Symbol : scan[s] # "fetching" => fetch[<<s, x>>] = "none"

ScanInv == CoroutineInv /\ PoolInv /\ SlotsAddUp

\* Who awaits a job goes on awaiting it, X excepted.
LEMMA StillAwaited ==
  ASSUME NEW X,
         \A f \in Fetch : f \notin X /\ fetch[f] = "fetching" => fetch'[f] = "fetching",
         \A s \in Scan :
            TrendJob(s) \notin X /\ scan[s] = "trending" => scan'[s] = "trending",
         \A p \in Lookup : PriceJob(p) \notin X /\ price[p] \in {"making", "reading"}
            => price'[p] \in {"making", "reading"}
  PROVE  Awaited \ X \subseteq Awaited'
  <1> SUFFICES ASSUME NEW j \in Awaited, j \notin X PROVE j \in Awaited'
    OBVIOUS
  <1>1. j \in Job
    BY DEF Awaited
  <1>2. CASE j \in Fetch
    BY <1>2, DueByKind, NextDueByKind
  <1>3. CASE \E s \in Scan : j = TrendJob(s)
    BY <1>3, DueByKind, NextDueByKind
  <1>4. CASE \E p \in Lookup : j = PriceJob(p)
    BY <1>4, DueByKind, NextDueByKind
  <1> QED BY <1>1, <1>2, <1>3, <1>4, ThreeKinds

LEMMA AllStillAwaited ==
  ASSUME \A f \in Fetch : fetch[f] = "fetching" => fetch'[f] = "fetching",
         \A s \in Scan : scan[s] = "trending" => scan'[s] = "trending",
         \A p \in Lookup : price[p] \in {"making", "reading"}
            => price'[p] \in {"making", "reading"}
  PROVE  Awaited \subseteq Awaited'
  <1>1. Awaited \ {} \subseteq Awaited'
    BY StillAwaited, Zenon
  <1> QED BY <1>1

LEMMA FetchingIsFinite ==
  IsFiniteSet(Fetching) /\ Cardinality(Fetching) \in Nat
  BY FinitelyManyJobs, FS_Subset, FS_CardinalityType DEF Fetching

\* A fetch takes a slot, or gives it back.
LEMMA SlotTaken ==
  ASSUME CoroutineInv, SlotsAddUp, NEW f \in Fetch, fetch[f] = "waiting", free > 0,
         free' = free - 1, FetchGoes(f, "fetching")
  PROVE  SlotsAddUp' /\ free' \in Nat
  <1>1. Fetching' = Fetching \cup {f} /\ f \notin Fetching
    BY DEF Fetching, FetchGoes, CoroutineInv
  <1>2. Cardinality(Fetching') = Cardinality(Fetching) + 1
    BY <1>1, FetchingIsFinite, FS_AddElement
  <1> QED BY <1>2, FetchingIsFinite, ScanPoolAssumption DEF SlotsAddUp, CoroutineInv

LEMMA SlotReturned ==
  ASSUME CoroutineInv, SlotsAddUp, NEW f \in Fetch, fetch[f] = "fetching",
         free' = free + 1, FetchGoes(f, "answered")
  PROVE  SlotsAddUp' /\ free' \in Nat
  <1>1. Fetching' = Fetching \ {f} /\ f \in Fetching
    BY DEF Fetching, FetchGoes, CoroutineInv
  <1>2. Cardinality(Fetching') = Cardinality(Fetching) - 1
    BY <1>1, FetchingIsFinite, FS_RemoveElement
  <1> QED BY <1>2, FetchingIsFinite, ScanPoolAssumption DEF SlotsAddUp, CoroutineInv

LEMMA SlotsRest ==
  ASSUME SlotsAddUp, free' = free,
         \A f \in Fetch : fetch'[f] = "fetching" <=> fetch[f] = "fetching"
  PROVE  SlotsAddUp'
  <1>1. Fetching' = Fetching
    BY DEF Fetching
  <1> QED BY <1>1 DEF SlotsAddUp

\* A scan starts its fetches.
LEMMA Gathers ==
  ASSUME CoroutineInv, NEW s \in Scan, scan[s] # "fetching", GatherStarts(s)
  PROVE  /\ scan' \in [Scan -> ScanPc] /\ scan'[s] = "fetching"
         /\ \A t \in Scan : t # s => scan'[t] = scan[t]
         /\ fetch' \in [Fetch -> {"none", "waiting", "fetching", "answered"}]
         /\ \A t \in Scan, x \in Symbol :
               scan'[t] # "fetching" => fetch'[<<t, x>>] = "none"
         /\ \A f \in Fetch : fetch'[f] = "fetching" <=> fetch[f] = "fetching"
  <1>1. /\ scan' \in [Scan -> ScanPc] /\ scan'[s] = "fetching"
        /\ \A t \in Scan : t # s => scan'[t] = scan[t]
    BY DEF GatherStarts, ScanGoes, CoroutineInv, ScanPc
  <1>2. \A f \in Fetch : fetch'[f] = IF f[1] = s THEN "waiting" ELSE fetch[f]
    BY DEF GatherStarts
  <1>3. fetch' \in [Fetch -> {"none", "waiting", "fetching", "answered"}]
    BY DEF GatherStarts, CoroutineInv
  <1>4. \A t \in Scan, x \in Symbol : <<t, x>> \in Fetch /\ <<t, x>>[1] = t
    BY DEF Fetch
  <1>5. \A t \in Scan, x \in Symbol : scan'[t] # "fetching" => fetch'[<<t, x>>] = "none"
    BY <1>1, <1>2, <1>4 DEF CoroutineInv
  <1>6. \A f \in Fetch : f[1] = s => fetch[f] = "none"
    BY DEF CoroutineInv, Fetch
  <1>7. \A f \in Fetch : fetch'[f] = "fetching" <=> fetch[f] = "fetching"
    BY <1>2, <1>6
  <1> QED BY <1>1, <1>3, <1>5, <1>7

-----------------------------------------------------------------------------
(* The steps of a scan. *)

LEMMA KeysTyped ==
  ASSUME CoroutineInv, NEW k \in {"trend", "result"}, NEW o, SetKey(k, o) \/ ExpireKey(k, o)
  PROVE  key' \in [{"trend", "result"} -> KeyState]
  BY DEF CoroutineInv, SetKey, ExpireKey, KeyState

\* A scan goes on to something that needs neither fetches nor the trend's job.
LEMMA ScanMoves ==
  ASSUME ScanInv, NEW s \in Scan, scan[s] \notin {"fetching", "trending"},
         NEW pc \in ScanPc \ {"fetching"}, ScanGoes(s, pc),
         UNCHANGED <<fetch, price, free, pool>>,
         key' \in [{"trend", "result"} -> KeyState]
  PROVE  ScanInv'
  <1>1. /\ scan' \in [Scan -> ScanPc] /\ scan'[s] = pc
        /\ \A t \in Scan : t # s => scan'[t] = scan[t]
    BY DEF ScanGoes, ScanInv, CoroutineInv
  <1>2. CoroutineInv'
    BY <1>1 DEF ScanInv, CoroutineInv
  <1>3. Awaited \subseteq Awaited'
    BY <1>1, AllStillAwaited
  <1>4. PoolInv'
    BY <1>3, PoolRests DEF ScanInv
  <1>5. SlotsAddUp'
    BY SlotsRest DEF ScanInv
  <1> QED BY <1>2, <1>4, <1>5 DEF ScanInv

\* A scan goes on to its fetches.
LEMMA ScanGathers ==
  ASSUME ScanInv, NEW s \in Scan, scan[s] \notin {"fetching", "trending"},
         GatherStarts(s), UNCHANGED <<price, free, pool>>,
         key' \in [{"trend", "result"} -> KeyState]
  PROVE  ScanInv'
  <1>1. CoroutineInv /\ SlotsAddUp /\ PoolInv
    BY DEF ScanInv
  <1>2. CoroutineInv'
    BY <1>1, Gathers DEF CoroutineInv
  <1>3. \A f \in Fetch : fetch'[f] = "fetching" <=> fetch[f] = "fetching"
    BY <1>1, Gathers
  <1>4. \A t \in Scan : scan[t] = "trending" => scan'[t] = "trending"
    BY <1>1, Gathers
  <1>5. Awaited \subseteq Awaited'
    BY <1>3, <1>4, AllStillAwaited
  <1>6. PoolInv'
    BY <1>1, <1>5, PoolRests
  <1>7. SlotsAddUp'
    BY <1>1, <1>3, SlotsRest
  <1> QED BY <1>2, <1>6, <1>7 DEF ScanInv

\* The trend is asked of the executor.
LEMMA TrendAsked ==
  ASSUME ScanInv, NEW s \in Scan, scan[s] = "asking", ScanGoes(s, "trending"),
         Submit(TrendJob(s)), UNCHANGED <<fetch, price, free, running, stray, key>>
  PROVE  ScanInv'
  <1>1. /\ scan' \in [Scan -> ScanPc] /\ scan'[s] = "trending"
        /\ \A t \in Scan : t # s => scan'[t] = scan[t]
    BY DEF ScanGoes, ScanInv, CoroutineInv, ScanPc
  <1>2. CoroutineInv'
    BY <1>1 DEF ScanInv, CoroutineInv
  <1>3. Awaited \subseteq Awaited'
    BY <1>1, AllStillAwaited
  <1>4. TrendJob(s) \in Job /\ TrendJob(s) \notin Awaited /\ TrendJob(s) \in Awaited'
    BY <1>1, JobKinds, DueByKind, NextDueByKind
  <1>5. PoolInv'
    BY <1>3, <1>4, PoolAccepts DEF ScanInv
  <1>6. SlotsAddUp'
    BY SlotsRest DEF ScanInv
  <1> QED BY <1>2, <1>5, <1>6 DEF ScanInv

LEMMA ScanStepKeeps ==
  ASSUME ScanInv, NEW s \in Scan, StartScan(s) \/ ScanStep(s)
  PROVE  ScanInv'
  <1>0. CoroutineInv /\ key \in [{"trend", "result"} -> KeyState]
    BY DEF ScanInv, CoroutineInv
  <1>1. CASE StartScan(s)
    BY <1>0, <1>1, ScanMoves DEF StartScan, ScanPc
  <1>2. CASE ReadTrend(s)
    <2>1. CASE GatherStarts(s) /\ UNCHANGED queue
      BY <1>0, <1>2, <2>1, ScanGathers DEF ReadTrend, pool
    <2>2. CASE ScanGoes(s, "trending") /\ Submit(TrendJob(s)) /\ UNCHANGED fetch
      BY <1>2, <2>2, TrendAsked DEF ReadTrend
    <2> QED BY <1>2, <2>1, <2>2 DEF ReadTrend
  <1>3. CASE KeepTrend(s)
    <2>1. PICK o \in RedisOutcomes :
             /\ SetKey("trend", o)
             /\ IF o.raised THEN GatherStarts(s)
                            ELSE ScanGoes(s, "dating trend") /\ UNCHANGED fetch
      BY <1>3 DEF KeepTrend
    <2>2. key' \in [{"trend", "result"} -> KeyState]
      BY <1>0, <2>1, KeysTyped
    <2>3. CASE o.raised
      BY <1>3, <2>1, <2>2, <2>3, ScanGathers DEF KeepTrend
    <2>4. CASE ~o.raised
      BY <1>3, <2>1, <2>2, <2>4, ScanMoves DEF KeepTrend, ScanPc
    <2> QED BY <2>3, <2>4
  <1>4. CASE DateTrend(s)
    <2>1. key' \in [{"trend", "result"} -> KeyState]
      BY <1>0, <1>4, KeysTyped DEF DateTrend
    <2> QED BY <1>4, <2>1, ScanGathers DEF DateTrend
  <1>5. CASE Gathered(s)
    <2>1. /\ scan' \in [Scan -> ScanPc] /\ scan'[s] = "caching"
          /\ \A t \in Scan : t # s => scan'[t] = scan[t]
      BY <1>0, <1>5 DEF Gathered, ScanGoes, CoroutineInv, ScanPc
    <2>2. \A f \in Fetch : fetch'[f] = IF f[1] = s THEN "none" ELSE fetch[f]
      BY <1>5 DEF Gathered
    <2>3. fetch' \in [Fetch -> {"none", "waiting", "fetching", "answered"}]
      BY <1>0, <1>5 DEF Gathered, CoroutineInv
    <2>4. \A t \in Scan, x \in Symbol : <<t, x>> \in Fetch /\ <<t, x>>[1] = t
      BY DEF Fetch
    <2>5. \A t \in Scan, x \in Symbol : scan'[t] # "fetching" => fetch'[<<t, x>>] = "none"
      BY <1>0, <2>1, <2>2, <2>4 DEF CoroutineInv
    <2>6. \A f \in Fetch : f[1] = s => fetch[f] = "answered"
      BY <1>5 DEF Gathered, Fetch
    <2>7. \A f \in Fetch : fetch'[f] = "fetching" <=> fetch[f] = "fetching"
      BY <2>2, <2>6
    <2>8. CoroutineInv'
      BY <1>0, <1>5, <2>1, <2>3, <2>5 DEF CoroutineInv, Gathered
    <2>9. Awaited \subseteq Awaited'
      BY <1>5, <2>1, <2>7, AllStillAwaited DEF Gathered
    <2>10. PoolInv'
      BY <1>5, <2>9, PoolRests DEF ScanInv, Gathered
    <2>11. SlotsAddUp'
      BY <1>5, <2>7, SlotsRest DEF ScanInv, Gathered
    <2> QED BY <2>8, <2>10, <2>11 DEF ScanInv
  <1>6. CASE CacheResult(s)
    <2>1. PICK o \in RedisOutcomes :
             SetKey("result", o) /\ ScanGoes(s, IF o.raised THEN "idle" ELSE "dating result")
      BY <1>6 DEF CacheResult
    <2>2. key' \in [{"trend", "result"} -> KeyState]
      BY <1>0, <2>1, KeysTyped
    <2>3. (IF o.raised THEN "idle" ELSE "dating result") \in ScanPc \ {"fetching"}
      BY DEF ScanPc
    <2> QED BY <1>6, <2>1, <2>2, <2>3, ScanMoves DEF CacheResult
  <1>7. CASE DateResult(s)
    <2>1. key' \in [{"trend", "result"} -> KeyState]
      BY <1>0, <1>7, KeysTyped DEF DateResult
    <2> QED BY <1>7, <2>1, ScanMoves DEF DateResult, ScanPc
  <1> QED BY <1>1, <1>2, <1>3, <1>4, <1>5, <1>6, <1>7 DEF ScanStep

-----------------------------------------------------------------------------
(* The steps of fetches, lookups and threads. *)

LEMMA EnterSlotKeeps ==
  ASSUME ScanInv, NEW f \in Fetch, EnterSlot(f)
  PROVE  ScanInv'
  <1>1. CoroutineInv /\ SlotsAddUp /\ PoolInv
    BY DEF ScanInv
  <1>2. SlotsAddUp' /\ free' \in Nat
    BY <1>1, SlotTaken DEF EnterSlot
  <1>3. /\ fetch' \in [Fetch -> {"none", "waiting", "fetching", "answered"}]
        /\ fetch'[f] = "fetching" /\ fetch[f] = "waiting"
        /\ \A g \in Fetch : g # f => fetch'[g] = fetch[g]
    BY <1>1 DEF EnterSlot, FetchGoes, CoroutineInv
  <1>4. \A s \in Scan, x \in Symbol : <<s, x>> \in Fetch
    BY DEF Fetch
  <1>5. CoroutineInv'
    BY <1>1, <1>2, <1>3, <1>4 DEF CoroutineInv, EnterSlot
  <1>6. Awaited \subseteq Awaited'
    BY <1>3, AllStillAwaited DEF EnterSlot
  <1>7. f \in Job /\ f \notin Awaited /\ f \in Awaited'
    BY <1>3, JobKinds, DueByKind, NextDueByKind
  <1>8. PoolInv'
    BY <1>1, <1>6, <1>7, PoolAccepts DEF EnterSlot
  <1> QED BY <1>2, <1>5, <1>8 DEF ScanInv

\* A fetch is answered, by its job or by the timeout.
LEMMA Answered ==
  ASSUME ScanInv, NEW f \in Fetch, fetch[f] = "fetching", FetchGoes(f, "answered"),
         free' = free + 1, UNCHANGED <<scan, price, key>>
  PROVE  CoroutineInv' /\ SlotsAddUp' /\ Awaited \ {f} \subseteq Awaited'
  <1>1. CoroutineInv /\ SlotsAddUp
    BY DEF ScanInv
  <1>2. SlotsAddUp' /\ free' \in Nat
    BY <1>1, SlotReturned
  <1>3. /\ fetch' \in [Fetch -> {"none", "waiting", "fetching", "answered"}]
        /\ \A g \in Fetch : g # f => fetch'[g] = fetch[g]
    BY <1>1 DEF FetchGoes, CoroutineInv
  <1>4. \A s \in Scan, x \in Symbol : <<s, x>> \in Fetch
    BY DEF Fetch
  <1>5. CoroutineInv'
    BY <1>1, <1>2, <1>3, <1>4 DEF CoroutineInv
  <1>6. Awaited \ {f} \subseteq Awaited'
    BY <1>3, StillAwaited
  <1> QED BY <1>2, <1>5, <1>6

LEMMA GiveUpKeeps ==
  ASSUME ScanInv, NEW f \in Fetch, GiveUp(f)
  PROVE  ScanInv'
  <1>1. CoroutineInv' /\ SlotsAddUp' /\ Awaited \ {f} \subseteq Awaited'
    BY Answered DEF GiveUp
  <1>2. CASE Cancelled(f)
    BY <1>1, <1>2, PoolCancels DEF ScanInv
  <1>3. CASE Abandoned(f)
    BY <1>1, <1>3, PoolReleases DEF ScanInv, Abandoned
  <1> QED BY <1>2, <1>3 DEF GiveUp

LEMMA FetchEndsKeeps ==
  ASSUME ScanInv, NEW f \in Fetch, FetchEnds(f)
  PROVE  ScanInv'
  <1>1. f \in running /\ fetch[f] = "fetching"
    BY DueByKind DEF ScanInv, PoolInv, FetchEnds
  <1>2. CoroutineInv' /\ SlotsAddUp' /\ Awaited \ {f} \subseteq Awaited'
    BY <1>1, Answered DEF FetchEnds
  <1>3. PoolInv'
    BY <1>1, <1>2, PoolReleases DEF ScanInv, FetchEnds
  <1> QED BY <1>2, <1>3 DEF ScanInv

LEMMA TrendEndsKeeps ==
  ASSUME ScanInv, NEW s \in Scan, TrendEnds(s)
  PROVE  ScanInv'
  <1>1. TrendJob(s) \in running /\ scan[s] = "trending"
    BY DueByKind DEF ScanInv, PoolInv, TrendEnds
  <1>2. /\ scan' \in [Scan -> ScanPc] /\ scan'[s] = "keeping"
        /\ \A t \in Scan : t # s => scan'[t] = scan[t]
    BY DEF TrendEnds, ScanGoes, ScanInv, CoroutineInv, ScanPc
  <1>3. CoroutineInv'
    BY <1>1, <1>2 DEF ScanInv, CoroutineInv, TrendEnds
  <1>4. Awaited \ {TrendJob(s)} \subseteq Awaited'
    BY <1>2, StillAwaited DEF TrendEnds
  <1>5. PoolInv'
    BY <1>1, <1>4, PoolReleases DEF ScanInv, TrendEnds
  <1>6. SlotsAddUp'
    BY SlotsRest DEF ScanInv, TrendEnds
  <1> QED BY <1>3, <1>5, <1>6 DEF ScanInv

\* A lookup starts or goes on: everything but its place and the executor is at rest.
LEMMA LookupMoves ==
  ASSUME ScanInv, UNCHANGED <<scanVars, key>>,
         price' \in [Lookup -> {"idle", "waiting", "making", "made", "reading"}]
  PROVE  CoroutineInv' /\ SlotsAddUp'
  <1>1. CoroutineInv'
    BY DEF ScanInv, CoroutineInv, scanVars
  <1>2. SlotsAddUp'
    BY SlotsRest DEF ScanInv, scanVars
  <1> QED BY <1>1, <1>2

LEMMA LookupSubmits ==
  ASSUME ScanInv, NEW p \in Lookup, price[p] \notin {"making", "reading"},
         NEW pc \in {"making", "reading"}, PriceGoes(p, pc), Submit(PriceJob(p)),
         UNCHANGED <<scanVars, running, stray, key>>
  PROVE  ScanInv'
  <1>1. /\ price' \in [Lookup -> {"idle", "waiting", "making", "made", "reading"}]
        /\ price'[p] = pc /\ \A q \in Lookup : q # p => price'[q] = price[q]
    BY DEF PriceGoes, ScanInv, CoroutineInv
  <1>2. CoroutineInv' /\ SlotsAddUp'
    BY <1>1, LookupMoves
  <1>3. Awaited \subseteq Awaited'
    BY <1>1, AllStillAwaited DEF scanVars
  <1>4. PriceJob(p) \in Job /\ PriceJob(p) \notin Awaited /\ PriceJob(p) \in Awaited'
    BY <1>1, JobKinds, DueByKind, NextDueByKind
  <1>5. PoolInv'
    BY <1>3, <1>4, PoolAccepts DEF ScanInv
  <1> QED BY <1>2, <1>5 DEF ScanInv

LEMMA StartBatchKeeps ==
  ASSUME ScanInv, StartBatch
  PROVE  ScanInv'
  <1>1. price' \in [Lookup -> {"idle", "waiting", "making", "made", "reading"}]
    BY DEF StartBatch, ScanInv, CoroutineInv
  <1>2. CoroutineInv' /\ SlotsAddUp'
    BY <1>1, LookupMoves DEF StartBatch
  <1>3. \A p \in Lookup : price[p] \in {"making", "reading"} => price'[p] = price[p]
    BY DEF StartBatch
  <1>4. Awaited \subseteq Awaited'
    BY <1>3, AllStillAwaited DEF scanVars, StartBatch
  <1>5. PoolInv'
    BY <1>4, PoolRests DEF ScanInv, StartBatch
  <1> QED BY <1>2, <1>5 DEF ScanInv

LEMMA PriceEndsKeeps ==
  ASSUME ScanInv, NEW p \in Lookup, PriceEnds(p)
  PROVE  ScanInv'
  <1>1. /\ price' \in [Lookup -> {"idle", "waiting", "making", "made", "reading"}]
        /\ \A q \in Lookup : q # p => price'[q] = price[q]
    BY DEF PriceEnds, PriceGoes, ScanInv, CoroutineInv
  <1>2. CoroutineInv' /\ SlotsAddUp'
    BY <1>1, LookupMoves DEF PriceEnds
  <1>3. Awaited \ {PriceJob(p)} \subseteq Awaited'
    BY <1>1, StillAwaited DEF PriceEnds, scanVars
  <1>4. PoolInv'
    BY <1>3, PoolReleases DEF ScanInv, PriceEnds
  <1> QED BY <1>2, <1>4 DEF ScanInv

\* Steps that only threads and Redis take.
LEMMA OthersKeep ==
  ASSUME ScanInv, \/ ThreadTakes \/ StrayEnds
                  \/ \E k \in {"trend", "result"} : Lapse(k)
                  \/ UNCHANGED vars
  PROVE  ScanInv'
  <1>1. UNCHANGED <<scanVars, price>> /\ key' \in [{"trend", "result"} -> KeyState]
    BY DEF ThreadTakes, StrayEnds, Lapse, vars, scanVars, ScanInv, CoroutineInv, KeyState
  <1>2. CoroutineInv'
    BY <1>1 DEF ScanInv, CoroutineInv, scanVars
  <1>3. SlotsAddUp'
    BY <1>1, SlotsRest DEF ScanInv, scanVars
  <1>4. Awaited \subseteq Awaited'
    BY <1>1, AllStillAwaited DEF scanVars
  <1>5. PoolInv'
    <2>1. CASE ThreadTakes
      BY <2>1, PoolTakes DEF ScanInv
    <2>2. CASE StrayEnds
      <3>1. IsFiniteSet(running) /\ Cardinality(running) \in Nat
        BY RunningIsFinite DEF ScanInv, PoolInv
      <3> QED BY <1>4, <2>2, <3>1, ScanPoolAssumption DEF ScanInv, PoolInv, StrayEnds
    <2>3. CASE UNCHANGED pool
      BY <1>4, <2>3, PoolRests DEF ScanInv
    <2> QED BY <2>1, <2>2, <2>3 DEF Lapse, vars, pool
  <1> QED BY <1>2, <1>3, <1>5 DEF ScanInv

LEMMA ScanInvHolds == Spec => []ScanInv
  <1>1. Init => ScanInv
    <2> SUFFICES ASSUME Init PROVE ScanInv
      OBVIOUS
    <2>1. CoroutineInv
      BY ScanPoolAssumption DEF Init, CoroutineInv, ScanPc, KeyState, Fetch
    <2>2. PoolInv
      BY ScanPoolAssumption, EmptySeq, FS_EmptySet DEF Init, PoolInv
    <2>3. Fetching = {}
      BY DEF Init, Fetching
    <2>4. SlotsAddUp
      BY <2>3, FS_EmptySet, ScanPoolAssumption DEF Init, SlotsAddUp
    <2> QED BY <2>1, <2>2, <2>4 DEF ScanInv
  <1>2. ScanInv /\ [Next]_vars => ScanInv'
    <2> SUFFICES ASSUME ScanInv, [Next]_vars PROVE ScanInv'
      OBVIOUS
    <2>1. CASE \E s \in Scan : StartScan(s) \/ ScanStep(s)
      BY <2>1, ScanStepKeeps
    <2>2. CASE \E f \in Fetch : EnterSlot(f) \/ GiveUp(f)
      BY <2>2, EnterSlotKeeps, GiveUpKeeps
    <2>3. CASE StartBatch
      BY <2>3, StartBatchKeeps
    <2>4. CASE \E p \in Lookup : MakeTicker(p) \/ ReadInfo(p)
      BY <2>4, LookupSubmits DEF MakeTicker, ReadInfo
    <2>5. CASE ThreadStep
      BY <2>5, OthersKeep, FetchEndsKeeps, TrendEndsKeeps, PriceEndsKeeps DEF ThreadStep
    <2>6. CASE (\E k \in {"trend", "result"} : Lapse(k)) \/ UNCHANGED vars
      BY <2>6, OthersKeep
    <2> QED BY <2>1, <2>2, <2>3, <2>4, <2>5, <2>6 DEF Next
  <1> QED BY <1>1, <1>2, PTL DEF Spec

-----------------------------------------------------------------------------
(* What follows. *)

\* The values are of their types; the value of the semaphore is between 0 and the number
\* of slots, and no more threads are busy than there are.
THEOREM PoolIsTyped == Spec => []TypeOK
  <1>1. ScanInv => TypeOK
    <2> SUFFICES ASSUME ScanInv PROVE TypeOK
      OBVIOUS
    <2>1. free \in 0..Slots
      BY FetchingIsFinite, ScanPoolAssumption DEF ScanInv, CoroutineInv, SlotsAddUp
    <2>2. Idle \in 0..Workers
      BY RunningIsFinite, ScanPoolAssumption DEF ScanInv, PoolInv, Idle
    <2> QED BY <2>1, <2>2 DEF ScanInv, CoroutineInv, PoolInv, TypeOK
  <1> QED BY <1>1, ScanInvHolds, PTL

\* _SEM: however fetches answer, fail or time out, in the queue or in a thread, each
\* slot is either free or held by one fetch.
THEOREM NoSlotIsLost == Spec => []SlotsAddUp
  BY ScanInvHolds, PTL DEF ScanInv

\* As many jobs are awaited as there are slots, scans and lookups.
LEMMA FewAwaited ==
  ASSUME SlotsAddUp, free \in Nat
  PROVE  /\ IsFiniteSet(Awaited) /\ Cardinality(Awaited) \in Nat
         /\ Cardinality(Awaited) <= Slots + Cardinality(Scan) + Cardinality(Lookup)
  <1> DEFINE trends == {TrendJob(s) : s \in Scan}
             prices == {PriceJob(p) : p \in Lookup}
  <1>1. Awaited \subseteq (Fetching \cup trends) \cup prices
    BY DEF Awaited, Due, Fetching
  <1>2. /\ IsFiniteSet(trends) /\ Cardinality(trends) <= Cardinality(Scan)
        /\ IsFiniteSet(prices) /\ Cardinality(prices) <= Cardinality(Lookup)
        /\ Cardinality(trends) \in Nat /\ Cardinality(prices) \in Nat
    BY KindsCounted
  <1> HIDE DEF trends, prices
  <1>3. /\ IsFiniteSet(Fetching \cup trends)
        /\ Cardinality(Fetching \cup trends) \in Nat
        /\ Cardinality(Fetching \cup trends) <= Cardinality(Fetching) + Cardinality(trends)
    <2>1. /\ IsFiniteSet(Fetching \cup trends)
          /\ Cardinality(Fetching \cup trends) =
                Cardinality(Fetching) + Cardinality(trends)
                  - Cardinality(Fetching \cap trends)
      BY <1>2, FetchingIsFinite, FS_Union
    <2>2. Cardinality(Fetching \cap trends) \in Nat
      BY FetchingIsFinite, FS_Intersection, FS_CardinalityType
    <2> QED BY <1>2, <2>1, <2>2, FetchingIsFinite, FS_CardinalityType
  <1> DEFINE most == (Fetching \cup trends) \cup prices
  <1>4. /\ IsFiniteSet(most) /\ Cardinality(most) \in Nat
        /\ Cardinality(most) <= Cardinality(Fetching \cup trends) + Cardinality(prices)
    <2>1. /\ IsFiniteSet(most)
          /\ Cardinality(most) =
                Cardinality(Fetching \cup trends) + Cardinality(prices)
                  - Cardinality((Fetching \cup trends) \cap prices)
      BY <1>2, <1>3, FS_Union
    <2>2. Cardinality((Fetching \cup trends) \cap prices) \in Nat
      BY <1>3, FS_Intersection, FS_CardinalityType
    <2> QED BY <1>2, <1>3, <2>1, <2>2, FS_CardinalityType
  <1>5. /\ IsFiniteSet(Awaited) /\ Cardinality(Awaited) \in Nat
        /\ Cardinality(Awaited) <= Cardinality(most)
    BY <1>1, <1>4, FS_Subset, FS_CardinalityType
  <1>6. Cardinality(Fetching) <= Slots
    BY FetchingIsFinite, ScanPoolAssumption DEF SlotsAddUp
  <1>7. Cardinality(Scan) \in Nat /\ Cardinality(Lookup) \in Nat
    BY ScanPoolAssumption, FS_CardinalityType
  <1> HIDE DEF most
  <1> QED BY <1>2, <1>3, <1>4, <1>5, <1>6, <1>7, FetchingIsFinite, ScanPoolAssumption

\* The executor's queue: every queued job is awaited, in one place only, so that a price
\* lookup never stands behind more than slots, scans and lookups.
THEOREM QueueStaysShort == Spec => []QueueBounded
  <1>1. ScanInv => QueueBounded
    <2> SUFFICES ASSUME ScanInv PROVE QueueBounded
      OBVIOUS
    <2>1. Len(queue) \in Nat /\ queue \in [1..Len(queue) -> Job]
      BY LenProperties DEF ScanInv, PoolInv
    <2>2. queue \in Injection(1..Len(queue), Awaited)
      BY <2>1 DEF ScanInv, PoolInv, Injection, IsInjective
    <2>3. /\ IsFiniteSet(Awaited) /\ Cardinality(Awaited) \in Nat
          /\ Cardinality(Awaited) <= Slots + Cardinality(Scan) + Cardinality(Lookup)
      BY FewAwaited DEF ScanInv, CoroutineInv
    <2>4. Cardinality(1..Len(queue)) <= Cardinality(Awaited)
      BY <2>2, <2>3, FS_Injection
    <2>5. Cardinality(1..Len(queue)) = Len(queue)
      BY <2>1, FS_Interval
    <2>6. Cardinality(Scan) \in Nat /\ Cardinality(Lookup) \in Nat
      BY ScanPoolAssumption, FS_CardinalityType
    <2> QED BY <2>1, <2>3, <2>4, <2>5, <2>6, ScanPoolAssumption DEF QueueBounded
  <1> QED BY <1>1, ScanInvHolds, PTL

\* redis.set and redis.expire of the scanner's two keys: with a Redis that is up, a key
\* without a time to live is about to get one, however many scans write it.
THEOREM BareKeysAreDated ==
  ASSUME RedisMode = "up"
  PROVE  Spec => []BareIsBeingDated
  <1>1. RedisOutcomes = {Ok} /\ Ok.applied = TRUE /\ Ok.raised = FALSE
    BY DEF RedisOutcomes, Ok
  <1>2. Init => BareIsBeingDated
    BY DEF Init, BareIsBeingDated
  <1>3. ScanInv /\ BareIsBeingDated /\ [Next]_vars => BareIsBeingDated'
    <2> SUFFICES ASSUME ScanInv, BareIsBeingDated, [Next]_vars PROVE BareIsBeingDated'
      OBVIOUS
    <2>0. /\ scan \in [Scan -> ScanPc]
          /\ key \in [{"trend", "result"} -> KeyState]
      BY DEF ScanInv, CoroutineInv
    <2> DEFINE Dating(k) == IF k = "trend" THEN "dating trend" ELSE "dating result"
    <2>1. ASSUME UNCHANGED key,
                 \A s \in Scan : scan[s] \in {"dating trend", "dating result"}
                                    => scan'[s] = scan[s]
          PROVE  BareIsBeingDated'
      BY <2>1 DEF BareIsBeingDated
    <2>2. ASSUME NEW s \in Scan, ScanStep(s) PROVE BareIsBeingDated'
      <3>1. CASE ReadTrend(s)
        <4>1. UNCHANGED key /\ \A t \in Scan : t # s => scan'[t] = scan[t]
          BY <2>0, <3>1 DEF ReadTrend, GatherStarts, ScanGoes
        <4> QED BY <2>1, <3>1, <4>1 DEF ReadTrend
      <3>2. CASE KeepTrend(s)
        <4>1. /\ key' = [key EXCEPT !["trend"] = "bare"]
              /\ scan' = [scan EXCEPT ![s] = "dating trend"]
          BY <1>1, <3>2 DEF KeepTrend, SetKey, ScanGoes
        <4>2. scan[s] = "keeping"
          BY <3>2 DEF KeepTrend
        <4> QED BY <2>0, <4>1, <4>2 DEF BareIsBeingDated
      <3>3. CASE DateTrend(s)
        <4>1. /\ key'["trend"] # "bare" /\ key'["result"] = key["result"]
              /\ \A t \in Scan : t # s => scan'[t] = scan[t]
          BY <1>1, <2>0, <3>3 DEF DateTrend, ExpireKey, GatherStarts, ScanGoes
        <4>2. scan[s] = "dating trend"
          BY <3>3 DEF DateTrend
        <4> QED BY <4>1, <4>2 DEF BareIsBeingDated
      <3>4. CASE Gathered(s)
        <4>1. /\ UNCHANGED key /\ scan[s] = "fetching"
              /\ \A t \in Scan : t # s => scan'[t] = scan[t]
          BY <2>0, <3>4 DEF Gathered, ScanGoes
        <4> QED BY <2>1, <4>1
      <3>5. CASE CacheResult(s)
        <4>1. /\ key' = [key EXCEPT !["result"] = "bare"]
              /\ scan' = [scan EXCEPT ![s] = "dating result"]
          BY <1>1, <3>5 DEF CacheResult, SetKey, ScanGoes
        <4>2. scan[s] = "caching"
          BY <3>5 DEF CacheResult
        <4> QED BY <2>0, <4>1, <4>2 DEF BareIsBeingDated
      <3>6. CASE DateResult(s)
        <4>1. /\ key'["result"] # "bare" /\ key'["trend"] = key["trend"]
              /\ \A t \in Scan : t # s => scan'[t] = scan[t]
          BY <1>1, <2>0, <3>6 DEF DateResult, ExpireKey, ScanGoes
        <4>2. scan[s] = "dating result"
          BY <3>6 DEF DateResult
        <4> QED BY <4>1, <4>2 DEF BareIsBeingDated
      <3> QED BY <2>2, <3>1, <3>2, <3>3, <3>4, <3>5, <3>6 DEF ScanStep
    <2>3. ASSUME NEW s \in Scan, StartScan(s) PROVE BareIsBeingDated'
      <3>1. /\ UNCHANGED key /\ scan[s] = "idle"
            /\ \A t \in Scan : t # s => scan'[t] = scan[t]
        BY <2>0, <2>3 DEF StartScan, ScanGoes
      <3> QED BY <2>1, <3>1
    <2>4. ASSUME NEW s \in Scan, TrendEnds(s) PROVE BareIsBeingDated'
      <3>1. /\ UNCHANGED key /\ scan[s] = "trending"
            /\ \A t \in Scan : t # s => scan'[t] = scan[t]
        BY <2>0, <2>4, DueByKind DEF TrendEnds, ScanGoes, ScanInv, PoolInv
      <3> QED BY <2>1, <3>1
    <2>5. ASSUME NEW k \in {"trend", "result"}, Lapse(k) PROVE BareIsBeingDated'
      BY <2>0, <2>5 DEF Lapse, scanVars, BareIsBeingDated
    <2>6. CASE UNCHANGED <<scan, key>>
      BY <2>1, <2>6
    <2>7. CASE \E f \in Fetch : EnterSlot(f) \/ GiveUp(f) \/ FetchEnds(f)
      BY <2>6, <2>7 DEF EnterSlot, GiveUp, FetchEnds
    <2>8. CASE StartBatch \/ \E p \in Lookup : MakeTicker(p) \/ ReadInfo(p) \/ PriceEnds(p)
      BY <2>6, <2>8 DEF StartBatch, MakeTicker, ReadInfo, PriceEnds, scanVars
    <2>9. CASE ThreadTakes \/ StrayEnds \/ UNCHANGED vars
      BY <2>6, <2>9 DEF ThreadTakes, StrayEnds, vars, scanVars
    <2> QED BY <2>2, <2>3, <2>4, <2>5, <2>7, <2>8, <2>9 DEF Next, ThreadStep
  <1> QED BY <1>2, <1>3, ScanInvHolds, PTL DEF Spec

-----------------------------------------------------------------------------
(* The other direction: what is awaited is with the executor. *)

\* Every job that is awaited is queued or under way, and a scan that gathers its fetches
\* has one for every symbol.
WaitInv ==
  /\ Awaited \subseteq Pending
  /\ \A s \in Scan, x \in Symbol : scan[s] = "fetching" => fetch[<<s, x>>] # "none"

LEMMA PendingByPlace ==
  ASSUME queue \in Seq(Job)
  PROVE  \A j : j \in Pending <=> j \in running \/ \E a \in 1..Len(queue) : queue[a] = j
  BY LenProperties DEF Pending, ToSet

LEMMA NextPendingByPlace ==
  ASSUME queue' \in Seq(Job)
  PROVE  \A j : j \in Pending' <=> j \in running' \/ \E a \in 1..Len(queue') : queue'[a] = j
  BY LenProperties DEF Pending, ToSet

\* Nobody begins to wait for a job outside of X.
LEMMA NoNewWaiter ==
  ASSUME NEW X,
         \A f \in Fetch : f \notin X /\ fetch'[f] = "fetching" => fetch[f] = "fetching",
         \A s \in Scan :
            TrendJob(s) \notin X /\ scan'[s] = "trending" => scan[s] = "trending",
         \A p \in Lookup : PriceJob(p) \notin X /\ price'[p] \in {"making", "reading"}
            => price[p] \in {"making", "reading"}
  PROVE  Awaited' \ X \subseteq Awaited
  <1> SUFFICES ASSUME NEW j \in Awaited', j \notin X PROVE j \in Awaited
    OBVIOUS
  <1>1. j \in Job
    BY DEF Awaited
  <1>2. CASE j \in Fetch
    BY <1>2, DueByKind, NextDueByKind
  <1>3. CASE \E s \in Scan : j = TrendJob(s)
    BY <1>3, DueByKind, NextDueByKind
  <1>4. CASE \E p \in Lookup : j = PriceJob(p)
    BY <1>4, DueByKind, NextDueByKind
  <1> QED BY <1>1, <1>2, <1>3, <1>4, ThreeKinds

\* What the executor is given it has, and it loses nothing but what ends or is given up.
LEMMA SubmittedIsPending ==
  ASSUME PoolInv, PoolInv', NEW j \in Job, Submit(j), running' = running
  PROVE  Pending \cup {j} \subseteq Pending'
  <1>1. /\ Len(queue') = Len(queue) + 1 /\ Len(queue) \in Nat
        /\ \A a \in 1..Len(queue) : queue'[a] = queue[a]
        /\ queue'[Len(queue) + 1] = j
    BY AppendProperties, LenProperties DEF PoolInv, Submit
  <1>2. 1..Len(queue) \subseteq 1..Len(queue') /\ Len(queue) + 1 \in 1..Len(queue')
    BY <1>1
  <1>3. queue \in Seq(Job) /\ queue' \in Seq(Job)
    BY DEF PoolInv
  <1>4. j \in Pending'
    BY <1>1, <1>2, <1>3, NextPendingByPlace
  <1>5. ASSUME NEW k \in Pending PROVE k \in Pending'
    BY <1>1, <1>2, <1>3, <1>5, PendingByPlace, NextPendingByPlace
  <1> QED BY <1>4, <1>5

LEMMA TakenIsPending ==
  ASSUME PoolInv, PoolInv', ThreadTakes
  PROVE  Pending \subseteq Pending'
  <1>1. /\ queue \in Seq(Job) /\ queue # <<>> /\ Len(queue) \in Nat /\ Len(queue) >= 1
        /\ Head(queue) = queue[1]
    BY EmptySeq, LenProperties DEF PoolInv, ThreadTakes
  <1>2. /\ queue' \in Seq(Job) /\ Len(queue') = Len(queue) - 1
        /\ \A a \in 1..(Len(queue) - 1) : queue'[a] = queue[a + 1]
    BY <1>1, HeadTailProperties DEF ThreadTakes
  <1>3. running' = running \cup {queue[1]}
    BY <1>1 DEF ThreadTakes
  <1>4. ASSUME NEW k, NEW a \in 1..Len(queue), queue[a] = k
        PROVE  k \in Pending'
    <2>1. CASE a = 1
      BY <1>2, <1>3, <1>4, <2>1, NextPendingByPlace
    <2>2. CASE a # 1
      <3>1. a - 1 \in 1..(Len(queue) - 1) /\ (a - 1) + 1 = a
        BY <1>1, <2>2
      <3>2. a - 1 \in 1..Len(queue') /\ queue'[a - 1] = k
        BY <1>2, <1>4, <3>1
      <3> QED BY <1>2, <3>2, NextPendingByPlace
    <2> QED BY <2>1, <2>2
  <1>5. running \subseteq Pending'
    BY <1>2, <1>3, NextPendingByPlace
  <1> QED BY <1>1, <1>4, <1>5, PendingByPlace

LEMMA OthersStayPending ==
  ASSUME PoolInv, PoolInv', NEW j,
         \/ Cancelled(j)
         \/ running' = running \ {j} /\ queue' = queue
  PROVE  Pending \ {j} \subseteq Pending'
  <1>0. queue \in Seq(Job) /\ queue' \in Seq(Job) /\ Len(queue) \in Nat
    BY LenProperties DEF PoolInv
  <1>1. CASE Cancelled(j)
    <2>1. PICK i \in 1..Len(queue) : queue[i] = j /\ queue' = RemoveAt(queue, i)
      BY <1>0, <1>1, LenProperties DEF Cancelled
    <2>2. /\ Len(queue') = Len(queue) - 1
          /\ \A a \in 1..(Len(queue) - 1) :
                queue'[a] = IF a < i THEN queue[a] ELSE queue[a + 1]
      BY <1>0, <2>1, RemovedPlace
    <2>3. ASSUME NEW k, k # j, NEW a \in 1..Len(queue), queue[a] = k
          PROVE  \E b \in 1..Len(queue') : queue'[b] = k
      <3>1. a # i
        BY <2>1, <2>3
      <3>2. CASE a < i
        <4>1. a \in 1..(Len(queue) - 1)
          BY <1>0, <3>2
        <4> QED BY <2>2, <2>3, <3>2, <4>1
      <3>3. CASE ~(a < i)
        <4>1. a - 1 \in 1..(Len(queue) - 1) /\ ~(a - 1 < i) /\ (a - 1) + 1 = a
          BY <1>0, <3>1, <3>3
        <4>2. queue'[a - 1] = k
          BY <2>2, <2>3, <4>1
        <4> QED BY <2>2, <4>1, <4>2
      <3> QED BY <3>2, <3>3
    <2>4. running' = running
      BY <1>1 DEF Cancelled
    <2> QED BY <1>0, <2>3, <2>4, PendingByPlace, NextPendingByPlace
  <1>2. CASE running' = running \ {j} /\ queue' = queue
    BY <1>0, <1>2, PendingByPlace, NextPendingByPlace
  <1> QED BY <1>1, <1>2

\* Nobody begins to wait and the executor loses nothing.
LEMMA WaitersRest ==
  ASSUME WaitInv, Pending \subseteq Pending',
         \A f \in Fetch : fetch'[f] = "fetching" => fetch[f] = "fetching",
         \A s \in Scan : scan'[s] = "trending" => scan[s] = "trending",
         \A p \in Lookup : price'[p] \in {"making", "reading"}
            => price[p] \in {"making", "reading"}
  PROVE  Awaited' \subseteq Pending'
  <1>1. Awaited' \ {} \subseteq Awaited
    BY NoNewWaiter, Zenon
  <1> QED BY <1>1 DEF WaitInv

LEMMA PoolUntouched ==
  ASSUME UNCHANGED <<queue, running>>
  PROVE  Pending' = Pending
  BY DEF Pending

\* The steps of a scan.
LEMMA ScanWaits ==
  ASSUME ScanInv, ScanInv', WaitInv, NEW s \in Scan, StartScan(s) \/ ScanStep(s)
  PROVE  WaitInv'
  <1>0. /\ CoroutineInv /\ PoolInv /\ PoolInv'
        /\ scan \in [Scan -> ScanPc]
        /\ \A t \in Scan, x \in Symbol : <<t, x>> \in Fetch /\ <<t, x>>[1] = t
    BY DEF ScanInv, CoroutineInv, Fetch
  <1>1. ASSUME NEW pc \in ScanPc \ {"fetching", "trending"}, ScanGoes(s, pc),
               UNCHANGED <<fetch, price, pool>>
        PROVE  WaitInv'
    <2>1. scan'[s] = pc /\ \A t \in Scan : t # s => scan'[t] = scan[t]
      BY <1>0, <1>1 DEF ScanGoes
    <2>2. Pending' = Pending
      BY <1>1, PoolUntouched DEF pool
    <2>3. Awaited' \subseteq Pending'
      BY <1>1, <2>1, <2>2, WaitersRest
    <2> QED BY <1>1, <2>1, <2>3 DEF WaitInv
  <1>2. ASSUME scan[s] # "fetching", GatherStarts(s), UNCHANGED <<price, pool>>
        PROVE  WaitInv'
    <2>1. /\ scan'[s] = "fetching" /\ \A t \in Scan : t # s => scan'[t] = scan[t]
          /\ \A f \in Fetch : fetch'[f] = "fetching" <=> fetch[f] = "fetching"
      BY <1>0, <1>2, Gathers
    <2>2. \A f \in Fetch : fetch'[f] = IF f[1] = s THEN "waiting" ELSE fetch[f]
      BY <1>2 DEF GatherStarts
    <2>3. Pending' = Pending
      BY <1>2, PoolUntouched DEF pool
    <2>4. Awaited' \subseteq Pending'
      BY <1>2, <2>1, <2>3, WaitersRest
    <2>5. \A t \in Scan, x \in Symbol : scan'[t] = "fetching" => fetch'[<<t, x>>] # "none"
      BY <1>0, <2>1, <2>2 DEF WaitInv
    <2> QED BY <2>4, <2>5 DEF WaitInv
  <1>3. CASE StartScan(s)
    BY <1>1, <1>3 DEF StartScan, ScanPc
  <1>4. CASE ReadTrend(s)
    <2>1. CASE GatherStarts(s) /\ UNCHANGED queue
      BY <1>2, <1>4, <2>1 DEF ReadTrend, pool
    <2>2. CASE ScanGoes(s, "trending") /\ Submit(TrendJob(s)) /\ UNCHANGED fetch
      <3>1. scan'[s] = "trending" /\ \A t \in Scan : t # s => scan'[t] = scan[t]
        BY <1>0, <2>2 DEF ScanGoes, ScanPc
      <3>2. UNCHANGED <<price, fetch, running>>
        BY <1>4, <2>2 DEF ReadTrend
      <3>3. Pending \cup {TrendJob(s)} \subseteq Pending'
        BY <1>0, <2>2, <3>2, JobKinds, SubmittedIsPending
      <3>4. Awaited' \ {TrendJob(s)} \subseteq Awaited
        <4>1. \A t \in Scan :
                 TrendJob(t) \notin {TrendJob(s)} /\ scan'[t] = "trending" => scan[t] = "trending"
          BY <3>1
        <4> QED BY <3>2, <4>1, NoNewWaiter
      <3> QED BY <3>1, <3>2, <3>3, <3>4 DEF WaitInv
    <2> QED BY <1>4, <2>1, <2>2 DEF ReadTrend
  <1>5. CASE KeepTrend(s)
    BY <1>1, <1>2, <1>5 DEF KeepTrend, ScanPc
  <1>6. CASE DateTrend(s)
    BY <1>2, <1>6 DEF DateTrend
  <1>7. CASE Gathered(s)
    <2>1. /\ scan'[s] = "caching" /\ \A t \in Scan : t # s => scan'[t] = scan[t]
          /\ \A f \in Fetch : fetch'[f] = IF f[1] = s THEN "none" ELSE fetch[f]
          /\ UNCHANGED <<price, pool>>
      BY <1>0, <1>7 DEF Gathered, ScanGoes, ScanPc
    <2>2. Pending' = Pending
      BY <2>1, PoolUntouched DEF pool
    <2>3. Awaited' \subseteq Pending'
      BY <2>1, <2>2, WaitersRest
    <2> QED BY <1>0, <2>1, <2>3 DEF WaitInv
  <1>8. CASE CacheResult(s)
    <2>1. \E pc \in {"idle", "dating result"} : ScanGoes(s, pc)
      BY <1>8 DEF CacheResult
    <2> QED BY <1>1, <1>8, <2>1 DEF CacheResult, ScanPc
  <1>9. CASE DateResult(s)
    BY <1>1, <1>9 DEF DateResult, ScanPc
  <1> QED BY <1>3, <1>4, <1>5, <1>6, <1>7, <1>8, <1>9 DEF ScanStep

\* A fetch takes a slot and waits for its job, or it is answered.
LEMMA FetchWaits ==
  ASSUME ScanInv, ScanInv', WaitInv, NEW f \in Fetch,
         EnterSlot(f) \/ GiveUp(f) \/ FetchEnds(f)
  PROVE  WaitInv'
  <1>0. /\ PoolInv /\ PoolInv' /\ f \in Job
        /\ fetch \in [Fetch -> {"none", "waiting", "fetching", "answered"}]
        /\ \A t \in Scan, x \in Symbol : <<t, x>> \in Fetch
    BY JobKinds DEF ScanInv, CoroutineInv, Fetch
  <1>1. UNCHANGED <<scan, price>>
    BY DEF EnterSlot, GiveUp, FetchEnds
  <1>2. /\ fetch'[f] # "none" /\ \A g \in Fetch : g # f => fetch'[g] = fetch[g]
    BY <1>0 DEF EnterSlot, GiveUp, FetchEnds, FetchGoes
  <1>3. \A s \in Scan, x \in Symbol : scan'[s] = "fetching" => fetch'[<<s, x>>] # "none"
    BY <1>0, <1>1, <1>2 DEF WaitInv
  <1>4. Awaited' \ {f} \subseteq Awaited
    BY <1>1, <1>2, NoNewWaiter
  <1>5. CASE EnterSlot(f)
    <2>1. Pending \cup {f} \subseteq Pending'
      BY <1>0, <1>5, SubmittedIsPending DEF EnterSlot
    <2> QED BY <1>3, <1>4, <2>1 DEF WaitInv
  <1>6. CASE GiveUp(f) \/ FetchEnds(f)
    <2>1. fetch'[f] = "answered"
      BY <1>0, <1>6 DEF GiveUp, FetchEnds, FetchGoes
    <2>2. f \notin Awaited'
      BY <2>1, NextDueByKind
    <2>3. Pending \ {f} \subseteq Pending'
      BY <1>0, <1>6, OthersStayPending DEF GiveUp, FetchEnds, Abandoned
    <2> QED BY <1>3, <1>4, <2>2, <2>3 DEF WaitInv
  <1> QED BY <1>5, <1>6

\* The trend is there, or a price.
LEMMA TrendWaits ==
  ASSUME ScanInv, ScanInv', WaitInv, NEW s \in Scan, TrendEnds(s)
  PROVE  WaitInv'
  <1>0. PoolInv /\ PoolInv' /\ scan \in [Scan -> ScanPc]
    BY DEF ScanInv, CoroutineInv
  <1>1. scan'[s] = "keeping" /\ \A t \in Scan : t # s => scan'[t] = scan[t]
    BY <1>0 DEF TrendEnds, ScanGoes, ScanPc
  <1>2. TrendJob(s) \notin Awaited'
    BY <1>1, NextDueByKind
  <1>3. Awaited' \ {TrendJob(s)} \subseteq Awaited
    BY <1>1, NoNewWaiter DEF TrendEnds
  <1>4. Pending \ {TrendJob(s)} \subseteq Pending'
    BY <1>0, OthersStayPending DEF TrendEnds
  <1> QED BY <1>1, <1>2, <1>3, <1>4 DEF WaitInv, TrendEnds

LEMMA PriceWaits ==
  ASSUME ScanInv, ScanInv', WaitInv, NEW p \in Lookup,
         MakeTicker(p) \/ ReadInfo(p) \/ PriceEnds(p)
  PROVE  WaitInv'
  <1>0. /\ PoolInv /\ PoolInv' /\ UNCHANGED <<scan, fetch>>
        /\ price \in [Lookup -> {"idle", "waiting", "making", "made", "reading"}]
    BY DEF ScanInv, CoroutineInv, MakeTicker, ReadInfo, PriceEnds, scanVars
  <1>1. \A q \in Lookup : q # p => price'[q] = price[q]
    BY <1>0 DEF MakeTicker, ReadInfo, PriceEnds, PriceGoes
  <1>2. Awaited' \ {PriceJob(p)} \subseteq Awaited
    BY <1>0, <1>1, NoNewWaiter
  <1>3. CASE MakeTicker(p) \/ ReadInfo(p)
    <2>1. Pending \cup {PriceJob(p)} \subseteq Pending'
      BY <1>0, <1>3, JobKinds, SubmittedIsPending DEF MakeTicker, ReadInfo
    <2> QED BY <1>0, <1>2, <2>1 DEF WaitInv
  <1>4. CASE PriceEnds(p)
    <2>1. price'[p] \in {"made", "idle"}
      BY <1>0, <1>4 DEF PriceEnds, PriceGoes
    <2>2. PriceJob(p) \notin Awaited'
      BY <2>1, NextDueByKind
    <2>3. Pending \ {PriceJob(p)} \subseteq Pending'
      BY <1>0, <1>4, OthersStayPending DEF PriceEnds
    <2> QED BY <1>0, <1>2, <2>2, <2>3 DEF WaitInv
  <1> QED BY <1>3, <1>4

\* The batch is started, a thread takes a job or gets free, a key lapses.
LEMMA OthersWait ==
  ASSUME ScanInv, ScanInv', WaitInv,
         \/ StartBatch \/ ThreadTakes \/ StrayEnds
         \/ \E k \in {"trend", "result"} : Lapse(k)
         \/ UNCHANGED vars
  PROVE  WaitInv'
  <1>0. /\ PoolInv /\ PoolInv' /\ UNCHANGED <<scan, fetch>>
    BY DEF ScanInv, StartBatch, ThreadTakes, StrayEnds, Lapse, vars, scanVars
  <1>1. \A p \in Lookup : price'[p] \in {"making", "reading"} => price[p] \in {"making", "reading"}
    BY DEF StartBatch, ThreadTakes, StrayEnds, Lapse, vars
  <1>2. Pending \subseteq Pending'
    <2>1. CASE ThreadTakes
      BY <1>0, <2>1, TakenIsPending
    <2>2. CASE UNCHANGED <<queue, running>>
      BY <2>2, PoolUntouched
    <2> QED BY <2>1, <2>2 DEF StartBatch, StrayEnds, Lapse, vars, pool
  <1>3. Awaited' \subseteq Pending'
    BY <1>0, <1>1, <1>2, WaitersRest
  <1> QED BY <1>0, <1>3 DEF WaitInv

\* _SEM, gather, the default executor and wait_for together, whatever is given up when:
\* every job a coroutine waits for is with the executor and the executor has no other,
\* so that nobody waits for what cannot come.
THEOREM NobodyIsForgotten == Spec => []NobodyWaitsForNothing
  <1>1. Init => WaitInv
    <2> SUFFICES ASSUME Init PROVE WaitInv
      OBVIOUS
    <2>1. ASSUME NEW j \in Awaited PROVE FALSE
      <3>1. j \in Job
        BY <2>1 DEF Awaited
      <3> QED BY <2>1, <3>1, ThreeKinds, DueByKind DEF Init
    <2> QED BY <2>1 DEF Init, WaitInv
  <1>2. ScanInv /\ ScanInv' /\ WaitInv /\ [Next]_vars => WaitInv'
    <2> SUFFICES ASSUME ScanInv, ScanInv', WaitInv, [Next]_vars PROVE WaitInv'
      OBVIOUS
    <2> QED BY ScanWaits, FetchWaits, TrendWaits, PriceWaits, OthersWait DEF Next, ThreadStep
  <1>3. ScanInv /\ WaitInv => NobodyWaitsForNothing
    <2> SUFFICES ASSUME ScanInv, WaitInv PROVE NobodyWaitsForNothing
      OBVIOUS
    <2>1. \A j \in Job : Due(j) <=> j \in Pending
      <3>1. Pending \subseteq Awaited
        BY PendingByPlace DEF ScanInv, PoolInv
      <3> QED BY <3>1 DEF WaitInv, Awaited
    <2>2. \A s \in Scan, x \in Symbol : scan[s] = "fetching" <=> fetch[<<s, x>>] # "none"
      BY DEF ScanInv, CoroutineInv, WaitInv
    <2>3. free > 0 \/ Fetching # {}
      BY FS_EmptySet, FetchingIsFinite, ScanPoolAssumption
         DEF ScanInv, CoroutineInv, SlotsAddUp
    <2>4. running = {} => Idle > 0 \/ stray > 0
      BY FS_EmptySet, ScanPoolAssumption DEF ScanInv, PoolInv, Idle
    <2> QED BY <2>1, <2>2, <2>3, <2>4 DEF NobodyWaitsForNothing
  <1> QED BY <1>1, <1>2, <1>3, ScanInvHolds, PTL DEF Spec

-----------------------------------------------------------------------------
(* The order of the queue. *)

\* Where a job of the queue is after a step.
MovesUp(j, i) ==
  \/ j \in running'
  \/ ~Due(j)'
  \/ \E k \in DOMAIN queue' : k <= i /\ queue'[k] = j

\* The executor's queue is first in, first out, and a fetch that is given up leaves no
\* gap and moves nobody back (run_in_executor, Future.cancel).
THEOREM QueueIsFair == Spec => NobodyOvertakes
  <1>1. ASSUME ScanInv, ScanInv', [Next]_vars, NEW j \in Job, NEW i \in DOMAIN queue,
               queue[i] = j
        PROVE  MovesUp(j, i)
    <2>0. /\ PoolInv /\ queue \in Seq(Job) /\ queue' \in Seq(Job)
          /\ DOMAIN queue = 1..Len(queue) /\ DOMAIN queue' = 1..Len(queue')
          /\ Len(queue) \in Nat /\ i \in 1..Len(queue)
      BY <1>1, LenProperties DEF ScanInv, PoolInv
    <2>1. CASE queue' = queue
      BY <1>1, <2>0, <2>1 DEF MovesUp
    <2>2. ASSUME NEW job \in Job, Submit(job)
          PROVE  MovesUp(j, i)
      <3>1. Len(queue') = Len(queue) + 1 /\ queue'[i] = queue[i]
        BY <2>0, <2>2, AppendProperties DEF Submit
      <3>2. i \in DOMAIN queue' /\ i <= i
        BY <2>0, <3>1
      <3> QED BY <1>1, <3>1, <3>2 DEF MovesUp
    <2>3. CASE ThreadTakes
      <3>1. /\ queue # <<>> /\ Len(queue) >= 1 /\ Head(queue) = queue[1]
            /\ Len(queue') = Len(queue) - 1
            /\ \A a \in 1..(Len(queue) - 1) : queue'[a] = queue[a + 1]
        BY <2>0, <2>3, EmptySeq, LenProperties, HeadTailProperties DEF ThreadTakes
      <3>2. CASE i = 1
        BY <1>1, <2>3, <3>1, <3>2 DEF ThreadTakes, MovesUp
      <3>3. CASE i # 1
        <4>1. i - 1 \in 1..(Len(queue) - 1) /\ (i - 1) + 1 = i /\ i - 1 <= i
          BY <2>0, <3>3
        <4>2. i - 1 \in DOMAIN queue' /\ queue'[i - 1] = j
          BY <1>1, <2>0, <3>1, <4>1
        <4> QED BY <4>1, <4>2 DEF MovesUp
      <3> QED BY <3>2, <3>3
    <2>4. ASSUME NEW f \in Fetch, GiveUp(f), Cancelled(f)
          PROVE  MovesUp(j, i)
      <3>1. PICK gap \in 1..Len(queue) : queue[gap] = f /\ queue' = RemoveAt(queue, gap)
        BY <2>0, <2>4 DEF Cancelled
      <3>2. /\ Len(queue') = Len(queue) - 1
            /\ \A a \in 1..(Len(queue) - 1) :
                  queue'[a] = IF a < gap THEN queue[a] ELSE queue[a + 1]
        BY <2>0, <3>1, RemovedPlace
      <3>3. CASE j = f
        <4>1. fetch'[f] = "answered"
          BY <1>1, <2>4 DEF GiveUp, FetchGoes, ScanInv, CoroutineInv
        <4>2. ~Due(f)'
          BY <4>1, JobKinds DEF Due
        <4> QED BY <3>3, <4>2 DEF MovesUp
      <3>4. CASE j # f /\ i < gap
        <4>1. i \in 1..(Len(queue) - 1) /\ i <= i
          BY <2>0, <3>4
        <4>2. i \in DOMAIN queue' /\ queue'[i] = j
          BY <1>1, <2>0, <3>2, <3>4, <4>1
        <4> QED BY <4>1, <4>2 DEF MovesUp
      <3>5. CASE j # f /\ ~(i < gap)
        <4>1. i # gap
          BY <1>1, <3>1, <3>5
        <4>2. /\ i - 1 \in 1..(Len(queue) - 1) /\ ~(i - 1 < gap)
              /\ (i - 1) + 1 = i /\ i - 1 <= i
          BY <2>0, <3>5, <4>1
        <4>3. i - 1 \in DOMAIN queue' /\ queue'[i - 1] = j
          BY <1>1, <2>0, <3>2, <4>2
        <4> QED BY <4>2, <4>3 DEF MovesUp
      <3> QED BY <3>3, <3>4, <3>5
    <2>5. ASSUME NEW s \in Scan, StartScan(s) \/ ScanStep(s)
          PROVE  MovesUp(j, i)
      <3>1. queue' = queue \/ Submit(TrendJob(s))
        BY <2>5 DEF StartScan, ScanStep, ReadTrend, KeepTrend, DateTrend, Gathered,
                    CacheResult, DateResult, pool
      <3> QED BY <2>1, <2>2, <3>1, JobKinds
    <2>6. ASSUME NEW f \in Fetch, EnterSlot(f) \/ GiveUp(f)
          PROVE  MovesUp(j, i)
      <3>1. f \in Job
        BY JobKinds
      <3>2. Submit(f) \/ queue' = queue \/ (GiveUp(f) /\ Cancelled(f))
        BY <2>6 DEF EnterSlot, GiveUp, Abandoned
      <3> QED BY <2>1, <2>2, <2>4, <3>1, <3>2
    <2>7. ASSUME NEW p \in Lookup, MakeTicker(p) \/ ReadInfo(p)
          PROVE  MovesUp(j, i)
      BY <2>2, <2>7, JobKinds DEF MakeTicker, ReadInfo
    <2>8. CASE \/ StartBatch \/ UNCHANGED vars
               \/ \E k \in {"trend", "result"} : Lapse(k)
      BY <2>1, <2>8 DEF StartBatch, Lapse, vars, pool
    <2>9. CASE ThreadStep
      <3>1. ThreadTakes \/ queue' = queue
        BY <2>9 DEF ThreadStep, StrayEnds, FetchEnds, TrendEnds, PriceEnds
      <3> QED BY <2>1, <2>3, <3>1
    <2> QED BY <1>1, <2>5, <2>6, <2>7, <2>8, <2>9 DEF Next
  <1>2. ScanInv /\ ScanInv' /\ [Next]_vars =>
           [\A j \in Job, i \in DOMAIN queue : queue[i] = j =>
              \/ j \in running'
              \/ ~Due(j)'
              \/ \E k \in DOMAIN queue' : k <= i /\ queue'[k] = j]_vars
    BY <1>1 DEF MovesUp
  <1> QED BY <1>2, ScanInvHolds, PTL DEF Spec, NobodyOvertakes
=============================================================================
