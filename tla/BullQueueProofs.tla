--------------------------- MODULE BullQueueProofs ---------------------------
(***************************************************************************)
(* Proofs about BullQueue, for any numbers of jobs and workers, any        *)
(* concurrency and every choice of faults: a job is accounted for at all   *)
(* times and dispatched at most once, and a worker keeps within its        *)
(* concurrency.                                                            *)
(*                                                                         *)
(* That a job is never dispatched twice rests on what is accounted for: a  *)
(* job that becomes active was waiting, a waiting job was never active     *)
(* (CountedOnce), and nothing returns a job to the wait list.              *)
(***************************************************************************)
EXTENDS BullQueue, FiniteSetTheorems, SequenceTheorems, TLAPS

\* The two halves of Accounted: the wait list, and the hands of the workers.
Queued ==
    /\ {wait[n] : n \in 1..Len(wait)} = {j \in Jobs : place[j] = "wait"}
    /\ \A m, n \in 1..Len(wait) : wait[m] = wait[n] => m = n

InOneHand ==
    \A v, w \in Workers : \A j \in hand[v] \union runs[v] :
        /\ place[j] = "active"
        /\ j \in hand[w] \union runs[w] => v = w
        /\ ~(j \in hand[v] /\ j \in runs[v])

\* A job is counted when it leaves the wait list, and not before.
CountedOnce ==
    \A j \in Jobs : /\ place[j] \in {"new", "wait"} => made[j] = 0
                    /\ made[j] <= 1

Mine(w) == hand[w] \union runs[w]

\* Each job of a worker has its promise in the run loop's map, and a process that ended
\* has none.
Bounded ==
    \A w \in Workers : /\ IsFiniteSet(Mine(w)) /\ Cardinality(Mine(w)) <= processing[w]
                       /\ life[w] = "down" => processing[w] = 0

IInv == TypeOK /\ Queued /\ InOneHand /\ CountedOnce /\ Bounded

-----------------------------------------------------------------------------
(* The wait list *)

\* Queue.add puts a new job at the end (queue/index.ts:58).
LEMMA AddQueues ==
    ASSUME TypeOK, Queued, NEW j \in Jobs, Add(j)
    PROVE  wait' \in Seq(Jobs) /\ Queued'
<1>1. place[j] = "new" /\ wait' = Append(wait, j) /\ place' = [place EXCEPT ![j] = "wait"]
    BY DEF Add
<1>2. /\ wait \in Seq(Jobs) /\ Len(wait) \in Nat
      /\ wait' \in Seq(Jobs)
      /\ Len(wait') = Len(wait) + 1
      /\ \A i \in 1..Len(wait) : wait'[i] = wait[i]
      /\ wait'[Len(wait) + 1] = j
    BY <1>1, AppendProperties DEF TypeOK
<1>3. \A i \in 1..Len(wait) : wait[i] # j
    BY <1>1, <1>2 DEF Queued
<1>4. \A m, n \in 1..Len(wait') : wait'[m] = wait'[n] => m = n
    BY <1>2, <1>3 DEF Queued
<1>5. {wait'[n] : n \in 1..Len(wait')} = {wait[n] : n \in 1..Len(wait)} \union {j}
    <2>1. \A n \in 1..Len(wait') : wait'[n] \in {wait[i] : i \in 1..Len(wait)} \union {j}
        BY <1>2
    <2>2. \A n \in 1..Len(wait) : wait[n] \in {wait'[i] : i \in 1..Len(wait')}
        BY <1>2
    <2>3. j \in {wait'[i] : i \in 1..Len(wait')}
        BY <1>2
    <2> QED
        BY <2>1, <2>2, <2>3
<1>6. {k \in Jobs : place'[k] = "wait"} = {k \in Jobs : place[k] = "wait"} \union {j}
    BY <1>1 DEF TypeOK
<1> QED
    BY <1>2, <1>4, <1>5, <1>6 DEF Queued

\* moveJobFromWaitToActive takes the oldest job, which is a waiting one; what p says of
\* the other jobs stays.
LEMMA ToActiveTakesHead ==
    ASSUME TypeOK, Queued, NEW p \in [Jobs -> Places], ToActive(p),
           \A j \in Jobs : p[j] = "wait" <=> place[j] = "wait"
    PROVE  /\ Head(wait) \in Jobs /\ place[Head(wait)] = "wait"
           /\ wait' \in Seq(Jobs) /\ Queued'
           /\ place' = [p EXCEPT ![Head(wait)] = "active"]
           /\ made' = [made EXCEPT ![Head(wait)] = @ + 1]
<1> DEFINE h == Head(wait)
<1>1. /\ wait # <<>> /\ wait' = Tail(wait)
      /\ place' = [p EXCEPT ![h] = "active"]
      /\ made' = [made EXCEPT ![h] = @ + 1]
    BY DEF ToActive
<1>2. /\ wait \in Seq(Jobs) /\ Len(wait) \in Nat \ {0} /\ h = wait[1] /\ h \in Jobs
      /\ wait' \in Seq(Jobs) /\ Len(wait') = Len(wait) - 1
      /\ \A i \in 1..Len(wait') : wait'[i] = wait[i + 1]
    BY <1>1, HeadTailProperties, EmptySeq DEF TypeOK
<1>3. place[h] = "wait"
    BY <1>2 DEF Queued
<1>4. \A m, n \in 1..Len(wait') : wait'[m] = wait'[n] => m = n
    BY <1>2 DEF Queued
<1>5. {wait'[n] : n \in 1..Len(wait')} = {wait[n] : n \in 1..Len(wait)} \ {h}
    <2>1. \A n \in 1..Len(wait') : n + 1 \in 1..Len(wait) /\ wait'[n] = wait[n + 1] /\ wait[n + 1] # h
        BY <1>2 DEF Queued
    <2>2. \A n \in 1..Len(wait) : wait[n] # h => n - 1 \in 1..Len(wait') /\ wait[n] = wait'[n - 1]
        BY <1>2
    <2>3. \A n \in 1..Len(wait') : wait'[n] \in {wait[i] : i \in 1..Len(wait)} \ {h}
        BY <2>1
    <2>4. \A n \in 1..Len(wait) : wait[n] # h => wait[n] \in {wait'[i] : i \in 1..Len(wait')}
        BY <2>2
    <2> QED
        BY <2>3, <2>4
<1>6. {k \in Jobs : place'[k] = "wait"} = {k \in Jobs : place[k] = "wait"} \ {h}
    BY <1>1, <1>2
<1> QED
    BY <1>1, <1>2, <1>3, <1>4, <1>5, <1>6 DEF Queued

\* As long as no job starts or stops waiting, the wait list stays right.
LEMMA QueuedStays ==
    ASSUME Queued, UNCHANGED wait, \A j \in Jobs : place'[j] = "wait" <=> place[j] = "wait"
    PROVE  Queued'
<1>1. {j \in Jobs : place'[j] = "wait"} = {j \in Jobs : place[j] = "wait"}
    OBVIOUS
<1> QED
    BY <1>1 DEF Queued

-----------------------------------------------------------------------------
(* The jobs in a worker's hands *)

\* A worker that is handed one job while a getNextJob is open still has a promise for
\* each (worker.js:132).
LEMMA OneMoreFits ==
    ASSUME TypeOK, Bounded, NEW w \in Workers, NEW x, Asks(w), UNCHANGED <<processing, life>>,
           \A v \in Workers : Mine(v)' = IF v = w THEN Mine(v) \union {x} ELSE Mine(v)
    PROVE  Bounded'
<1>1. IsFiniteSet(Mine(w)) /\ Cardinality(Mine(w)) \in Nat /\ Cardinality(Mine(w)) < processing[w]
    BY FS_CardinalityType DEF Bounded, Mine, Asks
<1>2. /\ IsFiniteSet(Mine(w) \union {x})
      /\ Cardinality(Mine(w) \union {x}) =
            IF x \in Mine(w) THEN Cardinality(Mine(w)) ELSE Cardinality(Mine(w)) + 1
    BY <1>1, FS_AddElement
<1>3. processing[w] \in Nat
    BY ConcurrencyAssumption DEF TypeOK
<1>4. IsFiniteSet(Mine(w)') /\ Cardinality(Mine(w)') <= processing[w]
    BY <1>1, <1>2, <1>3
<1> QED
    BY <1>4 DEF Bounded

\* A worker that gives up jobs has a promise for each of the others.
LEMMA FewerFit ==
    ASSUME TypeOK, Bounded, NEW w \in Workers, Mine(w)' \subseteq Mine(w), processing[w] <= processing'[w],
           processing'[w] \in Nat
    PROVE  IsFiniteSet(Mine(w)') /\ Cardinality(Mine(w)') <= processing'[w]
<1>1. IsFiniteSet(Mine(w)) /\ Cardinality(Mine(w)) \in Nat /\ Cardinality(Mine(w)) <= processing[w]
    BY FS_CardinalityType DEF Bounded
<1>2. IsFiniteSet(Mine(w)') /\ Cardinality(Mine(w)') <= Cardinality(Mine(w))
    BY <1>1, FS_Subset
<1>3. Cardinality(Mine(w)') \in Nat /\ processing[w] \in Nat
    BY <1>2, FS_CardinalityType, ConcurrencyAssumption DEF TypeOK
<1> QED
    BY <1>1, <1>2, <1>3

\* A promise that is settled with one of the worker's jobs leaves one for each other job
\* (worker.js:143-149).
LEMMA OneFewerFits ==
    ASSUME TypeOK, Bounded, NEW w \in Workers, NEW j \in Mine(w), Settled(w), UNCHANGED life,
           life[w] # "down",
           \A v \in Workers : Mine(v)' = IF v = w THEN Mine(v) \ {j} ELSE Mine(v)
    PROVE  processing' \in [Workers -> 0..Concurrency] /\ Bounded'
<1>1. IsFiniteSet(Mine(w)) /\ Cardinality(Mine(w)) \in Nat /\ Cardinality(Mine(w)) <= processing[w]
    BY FS_CardinalityType DEF Bounded
<1>2. IsFiniteSet(Mine(w) \ {j}) /\ Cardinality(Mine(w) \ {j}) = Cardinality(Mine(w)) - 1
    BY <1>1, FS_RemoveElement
<1>3. Cardinality(Mine(w) \ {j}) \in Nat
    BY <1>2, FS_CardinalityType
<1>4. processing[w] \in 0..Concurrency /\ processing[w] - 1 \in 0..Concurrency
    BY <1>1, <1>2, <1>3, ConcurrencyAssumption DEF TypeOK
<1>5. processing' \in [Workers -> 0..Concurrency]
    BY <1>4 DEF Settled, TypeOK
<1>6. /\ processing'[w] = processing[w] \/ processing'[w] = processing[w] - 1
      /\ \A v \in Workers \ {w} : processing'[v] = processing[v]
    BY DEF Settled, TypeOK
<1>7. Cardinality(Mine(w)') <= processing'[w] /\ IsFiniteSet(Mine(w)')
    BY <1>1, <1>2, <1>3, <1>4, <1>6
<1>8. \A v \in Workers \ {w} : Mine(v)' = Mine(v)
    OBVIOUS
<1> QED
    BY <1>5, <1>6, <1>7, <1>8 DEF Bounded

\* A job that brings another one along when it is done leaves it its promise
\* (worker.js:312-317).
LEMMA SwapFits ==
    ASSUME TypeOK, Bounded, NEW w \in Workers, NEW j \in Mine(w), NEW x, UNCHANGED <<processing, life>>,
           \A v \in Workers : Mine(v)' = IF v = w THEN (Mine(v) \ {j}) \union {x} ELSE Mine(v)
    PROVE  Bounded'
<1>1. /\ IsFiniteSet(Mine(w)) /\ Cardinality(Mine(w)) \in Nat /\ Cardinality(Mine(w)) <= processing[w]
      /\ processing[w] \in Nat
    BY FS_CardinalityType, ConcurrencyAssumption DEF Bounded, TypeOK
<1> DEFINE rest == Mine(w) \ {j}
<1>2. IsFiniteSet(rest) /\ Cardinality(rest) = Cardinality(Mine(w)) - 1
    BY <1>1, FS_RemoveElement
<1>3. /\ IsFiniteSet(rest \union {x})
      /\ Cardinality(rest \union {x}) = IF x \in rest THEN Cardinality(rest) ELSE Cardinality(rest) + 1
    BY <1>2, FS_AddElement
<1>4. Mine(w)' = rest \union {x}
    OBVIOUS
<1>5. IsFiniteSet(Mine(w)') /\ Cardinality(Mine(w)') <= processing[w]
    <2> HIDE DEF rest
    <2> QED
        BY <1>1, <1>2, <1>3, <1>4
<1> QED
    BY <1>5 DEF Bounded

\* A process that is down holds no jobs.
LEMMA DownIsEmpty ==
    ASSUME TypeOK, Bounded, NEW w \in Workers, Mine(w) # {}
    PROVE  life[w] # "down" /\ processing[w] # 0
<1>1. IsFiniteSet(Mine(w)) /\ Cardinality(Mine(w)) \in Nat /\ Cardinality(Mine(w)) <= processing[w]
    BY FS_CardinalityType DEF Bounded
<1>2. Cardinality(Mine(w)) # 0
    BY <1>1, FS_EmptySet
<1>3. processing[w] # 0
    BY <1>1, <1>2
<1> QED
    BY <1>3 DEF Bounded

-----------------------------------------------------------------------------
(* The inductive invariant *)

\* The queue starts empty.
LEMMA InitInv == ASSUME Init PROVE IInv
BY FS_EmptySet, ConcurrencyAssumption
   DEF Init, IInv, TypeOK, Places, Queued, InOneHand, CountedOnce, Bounded, Mine

\* Each Lua script and each step of a worker keeps the invariant.
LEMMA NextInv == ASSUME IInv, [Next]_vars PROVE IInv'
<1> USE DEF IInv
<1>1. ASSUME NEW j \in Jobs, Add(j) PROVE IInv'
    <2>1. TypeOK' /\ Queued'
        BY <1>1, AddQueues DEF Add, TypeOK, Places
    <2>2. InOneHand' /\ CountedOnce'
        BY <1>1 DEF Add, TypeOK, InOneHand, CountedOnce
    <2>3. Bounded'
        BY <1>1 DEF Add, Bounded, Mine
    <2> QED
        BY <2>1, <2>2, <2>3
<1>2. ASSUME NEW j \in Jobs, LoseLock(j) PROVE IInv'
    <2>1. TypeOK' /\ Queued'
        BY <1>2, QueuedStays DEF LoseLock, TypeOK, Places
    <2>2. InOneHand' /\ CountedOnce'
        BY <1>2 DEF LoseLock, TypeOK, InOneHand, CountedOnce
    <2>3. Bounded'
        BY <1>2 DEF LoseLock, Bounded, Mine
    <2> QED
        BY <2>1, <2>2, <2>3
<1>3. ASSUME NEW w \in Workers, Fetch(w) PROVE IInv'
    <2>0. /\ Head(wait) \in Jobs /\ place[Head(wait)] = "wait"
          /\ wait' \in Seq(Jobs) /\ Queued'
          /\ place' = [place EXCEPT ![Head(wait)] = "active"]
          /\ made' = [made EXCEPT ![Head(wait)] = @ + 1]
        BY <1>3, ToActiveTakesHead DEF Fetch, TypeOK
    <2>1. TypeOK' /\ Queued'
        BY <1>3, <2>0 DEF Fetch, Receives, TypeOK, Places
    <2>2. InOneHand' /\ CountedOnce'
        BY <1>3, <2>0 DEF Fetch, Receives, TypeOK, InOneHand, CountedOnce
    <2>3. Bounded'
        <3>1. \A v \in Workers :
                Mine(v)' = IF v = w THEN Mine(v) \union {Head(wait)} ELSE Mine(v)
            BY <1>3 DEF Fetch, Receives, Mine, TypeOK
        <3> QED
            BY <1>3, <3>1, OneMoreFits DEF Fetch
    <2> QED
        BY <2>1, <2>2, <2>3
<1>4. ASSUME NEW w \in Workers, FetchLost(w) PROVE IInv'
    <2>0. /\ Head(wait) \in Jobs /\ place[Head(wait)] = "wait"
          /\ wait' \in Seq(Jobs) /\ Queued'
          /\ place' = [place EXCEPT ![Head(wait)] = "active"]
          /\ made' = [made EXCEPT ![Head(wait)] = @ + 1]
        BY <1>4, ToActiveTakesHead DEF FetchLost, TypeOK
    <2>1. TypeOK' /\ Queued'
        BY <1>4, <2>0 DEF FetchLost, TypeOK, Places
    <2>2. InOneHand' /\ CountedOnce'
        BY <1>4, <2>0 DEF FetchLost, TypeOK, InOneHand, CountedOnce
    <2>3. Bounded'
        BY <1>4 DEF FetchLost, Bounded, Mine
    <2> QED
        BY <2>1, <2>2, <2>3
<1>5. ASSUME NEW w \in Workers, Close(w) PROVE IInv'
    <2>1. TypeOK' /\ Queued'
        BY <1>5, QueuedStays DEF Close, TypeOK, Places
    <2>2. InOneHand' /\ CountedOnce'
        BY <1>5 DEF Close, TypeOK, InOneHand, CountedOnce
    <2>3. Bounded'
        <3>1. /\ UNCHANGED processing /\ life[w] = "up" /\ life' = [life EXCEPT ![w] = "closing"]
              /\ \A v \in Workers : Mine(v)' \subseteq Mine(v) /\ processing[v] \in Nat
            BY <1>5, ConcurrencyAssumption DEF Close, Mine, TypeOK
        <3>2. \A v \in Workers : IsFiniteSet(Mine(v)') /\ Cardinality(Mine(v)') <= processing'[v]
            BY <3>1, FewerFit
        <3> QED
            BY <3>1, <3>2 DEF Bounded, TypeOK
    <2> QED
        BY <2>1, <2>2, <2>3
<1>6. ASSUME NEW w \in Workers, Exit(w) PROVE IInv'
    <2>1. TypeOK' /\ Queued'
        BY <1>6, QueuedStays DEF Exit, TypeOK, Places
    <2>2. InOneHand' /\ CountedOnce'
        BY <1>6 DEF Exit, TypeOK, InOneHand, CountedOnce
    <2>3. Bounded'
        BY <1>6 DEF Exit, Bounded, Mine, TypeOK
    <2> QED
        BY <2>1, <2>2, <2>3
<1>7. ASSUME NEW w \in Workers, Crash(w) PROVE IInv'
    <2>1. TypeOK' /\ Queued'
        BY <1>7, QueuedStays, ConcurrencyAssumption DEF Crash, TypeOK, Places
    <2>2. InOneHand' /\ CountedOnce'
        BY <1>7 DEF Crash, TypeOK, InOneHand, CountedOnce
    <2>3. Bounded'
        <3>1. Mine(w)' = {} /\ processing'[w] = 0
            BY <1>7 DEF Crash, Mine, TypeOK
        <3>2. \A v \in Workers \ {w} : Mine(v)' = Mine(v) /\ processing'[v] = processing[v] /\ life'[v] = life[v]
            BY <1>7 DEF Crash, Mine, TypeOK
        <3>3. IsFiniteSet(Mine(w))' /\ Cardinality(Mine(w))' <= processing'[w]
            <4>1. IsFiniteSet({}) /\ Cardinality({}) = 0
                BY FS_EmptySet
            <4> QED
                BY <3>1, <4>1
        <3> QED
            BY <3>1, <3>2, <3>3 DEF Bounded
    <2> QED
        BY <2>1, <2>2, <2>3
<1>8. ASSUME NEW w \in Workers, Restart(w) PROVE IInv'
    <2>1. TypeOK' /\ Queued'
        BY <1>8, QueuedStays, ConcurrencyAssumption DEF Restart, TypeOK, Places
    <2>2. InOneHand' /\ CountedOnce'
        BY <1>8 DEF Restart, TypeOK, InOneHand, CountedOnce
    <2>3. Bounded'
        <3>1. life[w] = "down" /\ life'[w] = "up" /\ processing'[w] = 1 /\ Mine(w)' = Mine(w)
            BY <1>8 DEF Restart, Mine, TypeOK
        <3>2. Cardinality(Mine(w)) <= 0 /\ Cardinality(Mine(w)) \in Nat
            BY <3>1, FS_CardinalityType DEF Bounded
        <3>3. \A v \in Workers \ {w} : Mine(v)' = Mine(v) /\ processing'[v] = processing[v] /\ life'[v] = life[v]
            BY <1>8 DEF Restart, Mine, TypeOK
        <3> QED
            BY <3>1, <3>2, <3>3 DEF Bounded
    <2> QED
        BY <2>1, <2>2, <2>3
<1>9. ASSUME NEW w \in Workers, NEW j \in Jobs, Begin(w, j) PROVE IInv'
    <2>0. /\ life' = life /\ processing' \in [Workers -> 0..Concurrency]
          /\ \A v \in Workers : processing[v] <= processing'[v] /\ processing'[v] \in Nat
          /\ \A v \in Workers \ {w} : processing'[v] = processing[v]
        BY <1>9, ConcurrencyAssumption DEF Begin, TypeOK
    <2>1. TypeOK' /\ Queued'
        BY <1>9, <2>0, QueuedStays DEF Begin, TypeOK, Places
    <2>2. InOneHand' /\ CountedOnce'
        BY <1>9 DEF Begin, TypeOK, InOneHand, CountedOnce
    <2>3. Bounded'
        <3>1. life[w] = "up" /\ \A v \in Workers : Mine(v)' \subseteq Mine(v)
            BY <1>9 DEF Begin, Mine, TypeOK
        <3>2. \A v \in Workers : IsFiniteSet(Mine(v)') /\ Cardinality(Mine(v)') <= processing'[v]
            BY <2>0, <3>1, FewerFit
        <3> QED
            BY <2>0, <3>1, <3>2 DEF Bounded
    <2> QED
        BY <2>1, <2>2, <2>3
<1>10. ASSUME NEW w \in Workers, NEW j \in Jobs, Drop(w, j) PROVE IInv'
    <2>0. processing' \in [Workers -> 0..Concurrency] /\ Bounded'
        <3>1. /\ j \in Mine(w) /\ Settled(w) /\ life' = life
              /\ \A v \in Workers : Mine(v)' = IF v = w THEN Mine(v) \ {j} ELSE Mine(v)
            BY <1>10 DEF Drop, Mine, TypeOK, InOneHand
        <3>2. life[w] # "down"
            BY <3>1, DownIsEmpty
        <3> QED
            BY <3>1, <3>2, OneFewerFits
    <2>1. TypeOK' /\ Queued'
        BY <1>10, <2>0, QueuedStays DEF Drop, TypeOK, Places
    <2>2. InOneHand' /\ CountedOnce'
        BY <1>10 DEF Drop, TypeOK, InOneHand, CountedOnce
    <2> QED
        BY <2>0, <2>1, <2>2
<1>11. ASSUME NEW w \in Workers, NEW j \in Jobs, Complete(w, j) PROVE IInv'
    <2> DEFINE done == Completed(j)
    <2>0. /\ j \in runs[w] /\ j \notin hand[w] /\ place[j] = "active" /\ life' = life
          /\ runs' = [runs EXCEPT ![w] = @ \ {j}]
          /\ done \in [Jobs -> Places] /\ \A k \in Jobs : done[k] = "wait" <=> place[k] = "wait"
        BY <1>11 DEF Complete, FinishNext, FinishLast, Finish, Completed, TypeOK, Places, InOneHand
    <2>1. j \in Mine(w) /\ life[w] # "down"
        BY <2>0, DownIsEmpty DEF Mine
    <2>2. CASE FinishNext(w, j) /\ Receives(w) /\ UNCHANGED processing
        <3>1. /\ Head(wait) \in Jobs /\ place[Head(wait)] = "wait"
              /\ wait' \in Seq(Jobs) /\ Queued'
              /\ place' = [done EXCEPT ![Head(wait)] = "active"]
              /\ made' = [made EXCEPT ![Head(wait)] = @ + 1]
            <4> HIDE DEF done
            <4>1. ToActive(done)
                BY <2>2 DEF FinishNext, done
            <4> QED
                BY <2>0, <4>1, ToActiveTakesHead
        <3>2. lock' \in [Jobs -> Workers \union {NoWorker}] /\ runs' \in [Workers -> SUBSET Jobs]
            BY <2>0, <2>2, <3>1 DEF FinishNext, TypeOK
        <3>3. made' \in [Jobs -> Nat] /\ place' \in [Jobs -> Places]
            <4> HIDE DEF done
            <4> QED
                BY <2>0, <3>1 DEF TypeOK, Places
        <3>4. hand' \in [Workers -> SUBSET Jobs]
            BY <2>2, <3>1 DEF Receives, TypeOK
        <3>5. processing' \in [Workers -> 0..Concurrency] /\ Bounded'
            <4>1. \A v \in Workers :
                    Mine(v)' = IF v = w THEN (Mine(v) \ {j}) \union {Head(wait)} ELSE Mine(v)
                BY <2>0, <2>2, <3>1 DEF Receives, Mine, TypeOK
            <4> QED
                BY <2>0, <2>1, <2>2, <4>1, SwapFits DEF TypeOK
        <3>6. InOneHand' /\ CountedOnce'
            BY <2>0, <2>2, <3>1 DEF Receives, Completed, TypeOK, InOneHand, CountedOnce
        <3> QED
            BY <2>0, <3>1, <3>2, <3>3, <3>4, <3>5, <3>6 DEF TypeOK
    <2>3. CASE FinishLast(w, j) /\ UNCHANGED hand /\ Settled(w)
        <3>1. UNCHANGED <<wait, made>> /\ place' = done
            BY <2>3 DEF FinishLast
        <3>2. processing' \in [Workers -> 0..Concurrency] /\ Bounded'
            <4>1. \A v \in Workers : Mine(v)' = IF v = w THEN Mine(v) \ {j} ELSE Mine(v)
                BY <2>0, <2>3 DEF Mine, TypeOK
            <4> QED
                BY <2>0, <2>1, <2>3, <4>1, OneFewerFits
        <3>3. lock' \in [Jobs -> Workers \union {NoWorker}] /\ runs' \in [Workers -> SUBSET Jobs]
            BY <2>0, <2>3 DEF FinishLast, TypeOK
        <3>4. TypeOK'
            <4> HIDE DEF done
            <4> QED
                BY <2>0, <2>3, <3>1, <3>2, <3>3 DEF TypeOK
        <3>5. Queued'
            BY <2>0, <3>1, QueuedStays
        <3>6. InOneHand' /\ CountedOnce'
            BY <2>0, <2>3, <3>1 DEF Completed, TypeOK, InOneHand, CountedOnce
        <3> QED
            BY <3>2, <3>4, <3>5, <3>6
    <2> QED
        BY <1>11, <2>2, <2>3 DEF Complete
<1>12. ASSUME NEW w \in Workers, NEW j \in Jobs, CompleteLost(w, j) PROVE IInv'
    <2> DEFINE done == Completed(j)
    <2>0. /\ j \in runs[w] /\ j \notin hand[w] /\ place[j] = "active" /\ life' = life
          /\ runs' = [runs EXCEPT ![w] = @ \ {j}]
          /\ done \in [Jobs -> Places] /\ \A k \in Jobs : done[k] = "wait" <=> place[k] = "wait"
        BY <1>12 DEF CompleteLost, FinishNext, FinishLast, Finish, Completed, TypeOK, Places, InOneHand
    <2>1. j \in Mine(w) /\ life[w] # "down"
        BY <2>0, DownIsEmpty DEF Mine
    <2>2. CASE FinishNext(w, j) /\ UNCHANGED hand /\ Settled(w)
        <3>1. /\ Head(wait) \in Jobs /\ place[Head(wait)] = "wait"
              /\ wait' \in Seq(Jobs) /\ Queued'
              /\ place' = [done EXCEPT ![Head(wait)] = "active"]
              /\ made' = [made EXCEPT ![Head(wait)] = @ + 1]
            <4> HIDE DEF done
            <4>1. ToActive(done)
                BY <2>2 DEF FinishNext, done
            <4> QED
                BY <2>0, <4>1, ToActiveTakesHead
        <3>2. lock' \in [Jobs -> Workers \union {NoWorker}] /\ runs' \in [Workers -> SUBSET Jobs]
            BY <2>0, <2>2, <3>1 DEF FinishNext, TypeOK
        <3>3. made' \in [Jobs -> Nat] /\ place' \in [Jobs -> Places]
            <4> HIDE DEF done
            <4> QED
                BY <2>0, <3>1 DEF TypeOK, Places
        <3>4. hand' \in [Workers -> SUBSET Jobs]
            BY <2>2, <3>1 DEF TypeOK
        <3>5. processing' \in [Workers -> 0..Concurrency] /\ Bounded'
            <4>1. \A v \in Workers :
                    Mine(v)' = IF v = w THEN Mine(v) \ {j} ELSE Mine(v)
                BY <2>0, <2>2, <3>1 DEF Mine, TypeOK
            <4> QED
                BY <2>0, <2>1, <2>2, <4>1, OneFewerFits DEF TypeOK
        <3>6. InOneHand' /\ CountedOnce'
            BY <2>0, <2>2, <3>1 DEF Completed, TypeOK, InOneHand, CountedOnce
        <3> QED
            BY <2>0, <3>1, <3>2, <3>3, <3>4, <3>5, <3>6 DEF TypeOK
    <2>3. CASE FinishLast(w, j) /\ UNCHANGED hand /\ Settled(w)
        <3>1. UNCHANGED <<wait, made>> /\ place' = done
            BY <2>3 DEF FinishLast
        <3>2. processing' \in [Workers -> 0..Concurrency] /\ Bounded'
            <4>1. \A v \in Workers : Mine(v)' = IF v = w THEN Mine(v) \ {j} ELSE Mine(v)
                BY <2>0, <2>3 DEF Mine, TypeOK
            <4> QED
                BY <2>0, <2>1, <2>3, <4>1, OneFewerFits
        <3>3. lock' \in [Jobs -> Workers \union {NoWorker}] /\ runs' \in [Workers -> SUBSET Jobs]
            BY <2>0, <2>3 DEF FinishLast, TypeOK
        <3>4. TypeOK'
            <4> HIDE DEF done
            <4> QED
                BY <2>0, <2>3, <3>1, <3>2, <3>3 DEF TypeOK
        <3>5. Queued'
            BY <2>0, <3>1, QueuedStays
        <3>6. InOneHand' /\ CountedOnce'
            BY <2>0, <2>3, <3>1 DEF Completed, TypeOK, InOneHand, CountedOnce
        <3> QED
            BY <3>2, <3>4, <3>5, <3>6
    <2> QED
        BY <1>12, <2>2, <2>3 DEF CompleteLost
<1>13. ASSUME NEW w \in Workers, NEW j \in Jobs, Delay(w, j) PROVE IInv'
    <2>0. processing' \in [Workers -> 0..Concurrency] /\ Bounded'
        <3>1. /\ j \in Mine(w) /\ Settled(w) /\ life' = life
              /\ \A v \in Workers : Mine(v)' = IF v = w THEN Mine(v) \ {j} ELSE Mine(v)
            BY <1>13 DEF Delay, Mine, TypeOK, InOneHand
        <3>2. life[w] # "down"
            BY <3>1, DownIsEmpty
        <3> QED
            BY <3>1, <3>2, OneFewerFits
    <2>1. TypeOK' /\ Queued'
        <3>1. TypeOK'
            BY <1>13, <2>0 DEF Delay, TypeOK, Places
        <3>2. UNCHANGED wait /\ \A k \in Jobs : place'[k] = "wait" <=> place[k] = "wait"
            BY <1>13 DEF Delay, TypeOK, InOneHand
        <3> QED
            BY <3>1, <3>2, QueuedStays
    <2>2. InOneHand' /\ CountedOnce'
        BY <1>13 DEF Delay, TypeOK, InOneHand, CountedOnce
    <2> QED
        BY <2>0, <2>1, <2>2
<1>14. ASSUME NEW w \in Workers, NEW j \in Jobs, Forget(w, j) PROVE IInv'
    <2>0. processing' \in [Workers -> 0..Concurrency] /\ Bounded'
        <3>1. /\ j \in Mine(w) /\ Settled(w) /\ life' = life
              /\ \A v \in Workers : Mine(v)' = IF v = w THEN Mine(v) \ {j} ELSE Mine(v)
            BY <1>14 DEF Forget, Mine, TypeOK, InOneHand
        <3>2. life[w] # "down"
            BY <3>1, DownIsEmpty
        <3> QED
            BY <3>1, <3>2, OneFewerFits
    <2>1. TypeOK' /\ Queued'
        BY <1>14, <2>0, QueuedStays DEF Forget, TypeOK, Places
    <2>2. InOneHand' /\ CountedOnce'
        BY <1>14 DEF Forget, TypeOK, InOneHand, CountedOnce
    <2> QED
        BY <2>0, <2>1, <2>2
<1>15. CASE UNCHANGED vars
    BY <1>15, QueuedStays DEF vars, TypeOK, InOneHand, CountedOnce, Bounded, Mine
<1>16. ASSUME NEW w \in Workers, NoJob(w) PROVE IInv'
    <2>1. /\ IsFiniteSet(Mine(w)) /\ Cardinality(Mine(w)) \in Nat /\ Cardinality(Mine(w)) < processing[w]
          /\ processing[w] \in 0..Concurrency
        BY <1>16, FS_CardinalityType DEF NoJob, Asks, Mine, Bounded, TypeOK
    <2>2. processing' = [processing EXCEPT ![w] = @ - 1] /\ life[w] = "closing"
        BY <1>16 DEF NoJob, Settled
    <2>3. processing[w] - 1 \in 0..Concurrency /\ Cardinality(Mine(w)) <= processing[w] - 1
        BY <2>1, ConcurrencyAssumption
    <2>4. TypeOK' /\ Queued'
        BY <1>16, <2>2, <2>3, QueuedStays DEF NoJob, TypeOK, Places
    <2>5. InOneHand' /\ CountedOnce'
        BY <1>16 DEF NoJob, InOneHand, CountedOnce
    <2>6. Bounded'
        BY <1>16, <2>1, <2>2, <2>3 DEF NoJob, Bounded, Mine, TypeOK
    <2> QED
        BY <2>4, <2>5, <2>6
<1> QED
    BY <1>1, <1>2, <1>3, <1>4, <1>5, <1>6, <1>7, <1>8, <1>9, <1>10, <1>11, <1>12, <1>13, <1>14,
       <1>15, <1>16 DEF Next, Idle

\* The invariant holds at all times.
LEMMA Invariance == Spec => []IInv
BY InitInv, NextInv, PTL DEF Spec

-----------------------------------------------------------------------------
(* What the queue promises *)

\* The variables keep their types.
THEOREM TypeCorrect == Spec => []TypeOK
<1>1. IInv => TypeOK
    BY DEF IInv
<1> QED
    BY <1>1, Invariance, PTL

\* Every job is where the lists, the sets and the workers' hands say, once
\* (moveToFinished-12.lua, moveJobFromWaitToActive.lua, worker.js:130-149).
THEOREM AccountedFor == Spec => []Accounted
<1>1. IInv => Accounted
    BY DEF IInv, Queued, InOneHand, Accounted
<1> QED
    BY <1>1, Invariance, PTL

\* A job is given to a processor at most once, whatever the option attempts says
\* (queue/index.ts:35, 59).
THEOREM NeverTwice == Spec => []DispatchedOnce
<1>1. IInv => DispatchedOnce
    BY DEF IInv, CountedOnce, DispatchedOnce
<1> QED
    BY <1>1, Invariance, PTL

\* A worker keeps within its concurrency (worker.js:132, 312-317).
THEOREM KeepsWithinConcurrency == Spec => []WithinConcurrency
<1>1. ASSUME IInv PROVE WithinConcurrency
    <2> SUFFICES ASSUME NEW w \in Workers PROVE Cardinality(Mine(w)) <= Concurrency
        BY DEF WithinConcurrency, Mine
    <2>1. Cardinality(Mine(w)) \in Nat /\ Cardinality(Mine(w)) <= processing[w]
        BY <1>1, FS_CardinalityType DEF IInv, Bounded
    <2> QED
        BY <1>1, <2>1, ConcurrencyAssumption DEF IInv, TypeOK
<1>2. IInv => WithinConcurrency
    BY <1>1
<1> QED
    BY <1>2, Invariance, PTL

-----------------------------------------------------------------------------
(* Shutdown *)

\* What ClosingDrains says of a step for one worker.
Drains(w) ==
    life[w] # "up" =>
        /\ runs'[w] \subseteq runs[w]
        /\ life'[w] = "closing" => /\ Room(w)' <= Room(w)
                                   /\ ~(hand'[w] \subseteq hand[w]) => Room(w)' < Room(w)
        /\ life'[w] # "closing" => hand'[w] \union runs'[w] = {}

\* The jobs in hand are finitely many, and with no promise there are none.
LEMMA HandCounts ==
    ASSUME IInv, NEW w \in Workers
    PROVE  /\ IsFiniteSet(hand[w]) /\ Cardinality(hand[w]) \in Nat /\ processing[w] \in Nat
           /\ Room(w) \in Int
           /\ processing[w] = 0 => Mine(w) = {}
<1>1. IsFiniteSet(Mine(w)) /\ hand[w] \subseteq Mine(w) /\ processing[w] \in Nat
    <2>1. IsFiniteSet(Mine(w))
        BY DEF IInv, Bounded
    <2>2. hand[w] \subseteq Mine(w)
        BY DEF Mine
    <2>3. processing[w] \in Nat
        BY ConcurrencyAssumption DEF IInv, TypeOK
    <2> QED
        BY <2>1, <2>2, <2>3
<1>2. IsFiniteSet(hand[w]) /\ Cardinality(hand[w]) \in Nat
    BY <1>1, FS_Subset, FS_CardinalityType
<1> QED
    BY <1>1, <1>2, DownIsEmpty DEF IInv, Room

\* A worker whose jobs and promises stay as they are drains.
LEMMA SameDrains ==
    ASSUME IInv, NEW v \in Workers, hand'[v] = hand[v], runs'[v] = runs[v],
           life'[v] = life[v], processing'[v] = processing[v]
    PROVE  Drains(v)
<1>1. Room(v)' = Room(v) /\ Room(v) \in Int
    BY HandCounts DEF Room
<1>2. life[v] = "down" => Mine(v) = {}
    BY HandCounts DEF IInv, Bounded
<1>3. life[v] \in {"up", "closing", "down"}
    BY DEF IInv, TypeOK
<1> QED
    BY <1>1, <1>2, <1>3 DEF Drains, Mine

\* A job that is handed over takes one of the places left.
LEMMA HandedDrains ==
    ASSUME IInv, NEW w \in Workers, ToActive(place) \/ \E j \in runs[w] : ToActive(Completed(j)),
           Receives(w), life'[w] = life[w], life[w] # "down", processing'[w] = processing[w],
           runs'[w] \subseteq runs[w]
    PROVE  Drains(w)
<1> DEFINE h == Head(wait)
<1>1. h \in Jobs /\ place[h] = "wait"
    BY HeadTailProperties, EmptySeq DEF ToActive, IInv, TypeOK, Queued
<1>2. h \notin hand[w] /\ hand'[w] = hand[w] \union {h}
    BY <1>1 DEF Receives, IInv, TypeOK, InOneHand
<1>3. Cardinality(hand'[w]) = Cardinality(hand[w]) + 1
    BY <1>2, HandCounts, FS_AddElement
<1>4. Room(w)' < Room(w) /\ Room(w)' <= Room(w)
    BY <1>3, HandCounts DEF Room
<1> QED
    BY <1>4 DEF Drains, IInv, TypeOK

\* A promise that is settled, with a job or without one, leaves no more places.
LEMMA SettledDrains ==
    ASSUME IInv, NEW w \in Workers, life[w] # "down", Settled(w), life'[w] = life[w],
           runs'[w] \subseteq runs[w],
           hand'[w] = hand[w] \/ \E j \in hand[w] : hand'[w] = hand[w] \ {j}
    PROVE  Drains(w)
<1> SUFFICES ASSUME life[w] = "closing" PROVE Drains(w)
    BY DEF Drains, IInv, TypeOK
<1>1. processing'[w] = processing[w] - 1
    BY DEF Settled, IInv, TypeOK
<1>2. Cardinality(hand'[w]) = Cardinality(hand[w]) \/ Cardinality(hand'[w]) = Cardinality(hand[w]) - 1
    BY HandCounts, FS_RemoveElement
<1>3. Room(w)' <= Room(w)
    BY <1>1, <1>2, HandCounts DEF Room
<1> QED
    BY <1>3 DEF Drains

\* Every step drains.
LEMMA StepDrains ==
    ASSUME IInv, [Next]_vars, NEW v \in Workers
    PROVE  Drains(v)
<1> USE DEF IInv, TypeOK
<1>1. ASSUME NEW j \in Jobs, Add(j) \/ LoseLock(j) PROVE Drains(v)
    BY <1>1, SameDrains DEF Add, LoseLock
<1>2. ASSUME NEW w \in Workers, Fetch(w) PROVE Drains(v)
    <2>1. CASE v = w
        BY <1>2, <2>1, HandedDrains DEF Fetch, Asks
    <2> QED
        BY <1>2, <2>1, SameDrains DEF Fetch, Receives
<1>3. ASSUME NEW w \in Workers, FetchLost(w) PROVE Drains(v)
    BY <1>3, SameDrains DEF FetchLost
<1>4. ASSUME NEW w \in Workers, NoJob(w) PROVE Drains(v)
    <2>1. CASE v = w
        BY <1>4, <2>1, SettledDrains DEF NoJob
    <2> QED
        BY <1>4, <2>1, SameDrains DEF NoJob, Settled
<1>5. ASSUME NEW w \in Workers, Close(w) PROVE Drains(v)
    <2>1. CASE v = w
        BY <1>5, <2>1 DEF Close, Drains
    <2> QED
        BY <1>5, <2>1, SameDrains DEF Close
<1>6. ASSUME NEW w \in Workers, Exit(w) PROVE Drains(v)
    <2>1. CASE v = w
        BY <1>6, <2>1, HandCounts DEF Exit, Drains, Mine
    <2> QED
        BY <1>6, <2>1, SameDrains DEF Exit
<1>7. ASSUME NEW w \in Workers, Crash(w) PROVE Drains(v)
    <2>1. CASE v = w
        BY <1>7, <2>1 DEF Crash, Drains
    <2> QED
        BY <1>7, <2>1, SameDrains DEF Crash
<1>8. ASSUME NEW w \in Workers, Restart(w) PROVE Drains(v)
    <2>1. CASE v = w
        BY <1>8, <2>1, HandCounts DEF Restart, Drains, Mine, Bounded
    <2> QED
        BY <1>8, <2>1, SameDrains DEF Restart
<1>9. ASSUME NEW w \in Workers, NEW j \in Jobs, Begin(w, j) PROVE Drains(v)
    <2>1. CASE v = w
        BY <1>9, <2>1 DEF Begin, Drains
    <2> QED
        BY <1>9, <2>1, SameDrains DEF Begin
<1>10. ASSUME NEW w \in Workers, NEW j \in Jobs, Drop(w, j) PROVE Drains(v)
    <2>1. CASE v = w
        BY <1>10, <2>1, SettledDrains DEF Drop
    <2> QED
        BY <1>10, <2>1, SameDrains DEF Drop, Settled
<1>11. ASSUME NEW w \in Workers, NEW j \in Jobs, Complete(w, j) \/ CompleteLost(w, j) PROVE Drains(v)
    <2>1. j \in runs[w] /\ life' = life /\ runs' = [runs EXCEPT ![w] = @ \ {j}]
        BY <1>11 DEF Complete, CompleteLost, FinishNext, FinishLast, Finish
    <2>2. life[w] # "down"
        BY <2>1, DownIsEmpty DEF Mine
    <2>3. CASE v # w
        BY <1>11, <2>1, <2>3, SameDrains DEF Complete, CompleteLost, Receives, Settled
    <2>4. CASE v = w /\ FinishNext(w, j) /\ Receives(w) /\ UNCHANGED processing
        BY <2>1, <2>2, <2>4, HandedDrains DEF FinishNext
    <2>5. CASE v = w /\ UNCHANGED hand /\ Settled(w)
        BY <2>1, <2>2, <2>5, SettledDrains
    <2> QED
        BY <1>11, <2>3, <2>4, <2>5 DEF Complete, CompleteLost
<1>12. ASSUME NEW w \in Workers, NEW j \in Jobs, Delay(w, j) \/ Forget(w, j) PROVE Drains(v)
    <2>1. /\ j \in runs[w] /\ UNCHANGED <<life, hand>> /\ runs' = [runs EXCEPT ![w] = @ \ {j}]
          /\ Settled(w)
        BY <1>12 DEF Delay, Forget
    <2>2. life[w] # "down"
        BY <2>1, DownIsEmpty DEF Mine
    <2>3. CASE v # w
        BY <2>1, <2>3, SameDrains DEF Settled
    <2> QED
        BY <2>1, <2>2, <2>3, SettledDrains
<1>13. CASE UNCHANGED vars
    BY <1>13, SameDrains DEF vars
<1> QED
    BY <1>1, <1>2, <1>3, <1>4, <1>5, <1>6, <1>7, <1>8, <1>9, <1>10, <1>11, <1>12, <1>13
       DEF Next, Idle

\* From SIGTERM on a worker starts no job, uses up one open call with each job that it is
\* still handed, opens none, and ends with no job in its hands (worker.ts:354-360,
\* worker.js:131, 180-186, 276, 447).
THEOREM ShutdownDrains == Spec => ClosingDrains
<1>1. IInv /\ [Next]_vars => [\A w \in Workers : Drains(w)]_vars
    BY StepDrains
<1> QED
    BY <1>1, Invariance, PTL DEF Spec, ClosingDrains, Drains

=============================================================================
