--------------------------- MODULE OrderEngineProofs ---------------------------
(***************************************************************************)
(* Proofs about OrderEngine, the composition of API, queue, workers and    *)
(* processOrder, for any numbers of orders, jobs and workers and every     *)
(* choice of faults: crashes and restarts, shutdowns, lost locks, lost     *)
(* replies, resent and refused commands, one database or two.              *)
(*                                                                         *)
(* The engine's steps are steps of the queue and of the calls, so the      *)
(* invariants proved about BullQueue and OrderProcessor carry over.  What  *)
(* ties them together is that a job in a worker's hands has not been       *)
(* begun: only then does a call start with no swap behind it.              *)
(***************************************************************************)
EXTENDS OrderEngine, TLAPS

\* The proofs about the components, read over the variables of the engine.
PP == INSTANCE OrderLifecycleProofs
QP == INSTANCE BullQueueProofs

-----------------------------------------------------------------------------
(* P and PP, and Q and QP, are two instances of the same definitions. *)

\* The steps of a call are the same in both instances.
LEMMA SameStep == ASSUME NEW j PROVE P!Step(j) <=> PP!Step(j)
BY DEF P!Step, PP!Step, P!Find, PP!Find, P!Create, PP!Create, P!UpdateSave, PP!UpdateSave,
       P!UpdateProgress, PP!UpdateProgress, P!UpdatePublish, PP!UpdatePublish,
       P!AfterUpdate, PP!AfterUpdate, P!Quotes, PP!Quotes, P!SaveQuotes, PP!SaveQuotes,
       P!Build, PP!Build, P!SaveAttempt, PP!SaveAttempt, P!Swap, PP!Swap, P!SaveSwap,
       PP!SaveSwap, P!SaveError, PP!SaveError, P!GivesUp, PP!GivesUp, P!PublishFailed,
       PP!PublishFailed, P!SaveFailed, PP!SaveFailed, P!PublishRetry, PP!PublishRetry,
       P!Backoff, PP!Backoff, P!SaveUnexpected, PP!SaveUnexpected, P!Enter, PP!Enter,
       P!Hold, PP!Hold, P!Goto, PP!Goto, P!OuterCatch, PP!OuterCatch, P!InnerCatch,
       PP!InnerCatch, P!NextAttempt, PP!NextAttempt, P!SaveOk, PP!SaveOk, P!SaveFails,
       PP!SaveFails, P!Publish, PP!Publish, P!SiteStatus, PP!SiteStatus, P!SiteProgress,
       PP!SiteProgress, P!SubmitProgress, PP!SubmitProgress, P!Sites, PP!Sites,
       P!FreshOrder, PP!FreshOrder, P!NoRow, PP!NoRow, P!NoHash, PP!NoHash

\* So is its beginning.
LEMMA SameCall == ASSUME NEW j PROVE P!Call(j) <=> PP!Call(j)
BY DEF P!Call, PP!Call, P!Goto, PP!Goto, P!FreshLocals, PP!FreshLocals

\* The types of a call's variables are the same.
LEMMA SameTypes == P!TypeOK <=> PP!TypeOK
BY DEF P!TypeOK, PP!TypeOK, P!Points, PP!Points, P!Sites, PP!Sites, P!Ended, PP!Ended, P!Parts,
       PP!Parts, P!Locals, PP!Locals, P!Entities, PP!Entities, P!Statuses, PP!Statuses,
       P!Hashes, PP!Hashes, P!NoHash, PP!NoHash, P!NoRow, PP!NoRow, P!Reports,
       PP!Reports, P!Notices, PP!Notices, P!NoticeTypes, PP!NoticeTypes

\* Its initial states are the same.
LEMMA SameInit == P!Init <=> PP!Init
BY DEF P!Init, PP!Init, P!FreshLocals, PP!FreshLocals, P!FreshOrder, PP!FreshOrder, P!NoRow,
       PP!NoRow, P!NoHash, PP!NoHash

\* What rows may claim is the same.
LEMMA SameClaims == P!ConfirmedIsExecuted <=> PP!ConfirmedIsExecuted
BY DEF P!ConfirmedIsExecuted, PP!ConfirmedIsExecuted, P!NoRow, PP!NoRow, P!NoHash, PP!NoHash,
       P!SoleWriter, PP!SoleWriter

\* The constants of rows are the same.
LEMMA SameRows ==
    /\ P!FreshOrder = PP!FreshOrder /\ P!NoRow = PP!NoRow
    /\ P!Entities = PP!Entities /\ (P!SoleWriter <=> PP!SoleWriter)
BY DEF P!FreshOrder, PP!FreshOrder, P!NoRow, PP!NoRow, P!NoHash, PP!NoHash, P!Entities,
       PP!Entities, P!Statuses, PP!Statuses, P!Hashes, PP!Hashes, P!SoleWriter,
       PP!SoleWriter

\* The initial states and the steps of the lifecycle are the same.
LEMMA SameLifecycle ==
    /\ P!Lifecycle!Init <=> PP!Lifecycle!Init
    /\ [P!Lifecycle!Next]_(P!Lifecycle!vars) <=> [PP!Lifecycle!Next]_(PP!Lifecycle!vars)
<1>1. /\ P!RowStatus = PP!RowStatus /\ P!RowTries = PP!RowTries /\ P!Executed = PP!Executed
      /\ P!RowStatus' = PP!RowStatus' /\ P!RowTries' = PP!RowTries' /\ P!Executed' = PP!Executed'
    BY SameRows DEF P!RowStatus, PP!RowStatus, P!RowTries, PP!RowTries, P!Executed, PP!Executed
<1> QED
    BY <1>1 DEF P!Lifecycle!Init, PP!Lifecycle!Init, P!Lifecycle!Next, PP!Lifecycle!Next,
       P!Lifecycle!vars, PP!Lifecycle!vars, P!Lifecycle!Step, PP!Lifecycle!Step,
       P!Lifecycle!Route, PP!Lifecycle!Route, P!Lifecycle!Build, PP!Lifecycle!Build,
       P!Lifecycle!Try, PP!Lifecycle!Try, P!Lifecycle!Submit, PP!Lifecycle!Submit,
       P!Lifecycle!Execute, PP!Lifecycle!Execute, P!Lifecycle!Confirm, PP!Lifecycle!Confirm,
       P!Lifecycle!Fail, PP!Lifecycle!Fail, P!Lifecycle!Advance, PP!Lifecycle!Advance

\* The steps of the queue are the same.
LEMMA SameQueueNext == [Q!Next]_(Q!vars) <=> [QP!Next]_(QP!vars)
BY DEF Q!Next, QP!Next, Q!vars, QP!vars, Q!Add, QP!Add, Q!LoseLock, QP!LoseLock, Q!Fetch,
   QP!Fetch, Q!FetchLost, Q!NoJob, QP!FetchLost, QP!NoJob, Q!Close, QP!Close, Q!Exit, QP!Exit,
   Q!Crash, QP!Crash, Q!Restart, QP!Restart, Q!Begin, QP!Begin, Q!Drop, QP!Drop, Q!Complete,
   QP!Complete, Q!CompleteLost, QP!CompleteLost, Q!Finish, Q!FinishNext, Q!FinishLast,
   Q!Completed, QP!Finish, QP!FinishNext, QP!FinishLast, QP!Completed, Q!Settled, QP!Settled,
   Q!Asks, QP!Asks, Q!Delay, QP!Delay, Q!Forget, QP!Forget, Q!Idle, QP!Idle, Q!Held, QP!Held,
   Q!ToActive, QP!ToActive, Q!Receives, QP!Receives, Q!NoWorker, QP!NoWorker, Q!Cardinality,
   QP!Cardinality

\* Its initial states are the same.
LEMMA SameQueueInit == Q!Init <=> QP!Init
BY DEF Q!Init, QP!Init, Q!NoWorker, QP!NoWorker

\* Its types are the same.
LEMMA SameQueueTypes == Q!TypeOK <=> QP!TypeOK
BY DEF Q!TypeOK, QP!TypeOK, Q!Places, QP!Places, Q!NoWorker, QP!NoWorker

-----------------------------------------------------------------------------
(* The engine implements the queue. *)

\* Every step of the engine is a step of the queue, or none.
LEMMA QueueSteps == [Next]_vars => [Q!Next]_(Q!vars)
<1> SUFFICES ASSUME [Next]_vars PROVE [Q!Next]_(Q!vars)
    OBVIOUS
<1>1. CASE UNCHANGED queueVars
    BY <1>1 DEF queueVars, Q!vars
<1>2. CASE ~UNCHANGED queueVars
    <2>1. \/ \E j \in Jobs : Q!Add(j) \/ Q!LoseLock(j)
          \/ \E w \in Workers : \/ Q!Fetch(w) \/ Q!FetchLost(w) \/ Q!NoJob(w) \/ Q!Close(w) \/ Q!Exit(w)
                                \/ Q!Crash(w) \/ Q!Restart(w)
          \/ \E w \in Workers, j \in Jobs :
                \/ Q!Begin(w, j) \/ Q!Drop(w, j) \/ Q!Complete(w, j) \/ Q!CompleteLost(w, j)
                \/ Q!Delay(w, j) \/ Q!Forget(w, j)
        BY <1>2 DEF Next, vars, PostSave, PostEnqueue, PostResend, PostAnswer, PostRefused, Fetch,
           FetchLost, NoJob, Close, Exit, Crash, Restart, Drop, Begin, Process, Return, Throw,
           LoseLock, Idle
    <2> QED
        BY <2>1 DEF Q!Next
<1> QED
    BY <1>1, <1>2

\* The queue within the engine keeps the inductive invariant of BullQueue.
LEMMA NextQueue == ASSUME QP!IInv, [Next]_vars PROVE QP!IInv'
BY QueueSteps, SameQueueNext, QP!NextInv, ComponentAssumption
   DEF QP!ConcurrencyAssumption, QP!JobAttemptsAssumption

-----------------------------------------------------------------------------
(* The calls within the engine. *)

\* The assumptions about the components, as their proofs state them.
LEMMA Assumptions ==
    /\ PP!OrderOfAssumption /\ PP!AttemptsAssumption /\ PP!FailureAssumption
    /\ QP!ConcurrencyAssumption /\ QP!JobAttemptsAssumption
BY ComponentAssumption
   DEF PP!OrderOfAssumption, PP!AttemptsAssumption, PP!FailureAssumption,
       QP!ConcurrencyAssumption, QP!JobAttemptsAssumption

\* A job that no worker has begun: it is not yet active, or in a worker's hand.
NotBegun(j) == place[j] \in {"new", "wait"} \/ \E w \in Workers : j \in hand[w]

\* Calls end where a crash leaves them, so SwapAt is claimed of running ones; the
\* others, which are not begun again, keep the swaps they made.
CallsInv == \A j \in Jobs :
    /\ NotBegun(j) => pc[j] = "idle" /\ swaps[j] = 0
    /\ \A w \in Workers : j \in runs[w] => PP!SwapAt(j)
    /\ swaps[j] <= 1

DataInv == PP!TypeOK /\ PP!AttemptsCounted /\ PP!HashInv

\* What the API knows of a job that is in the queue.
RequestInv == \A j \in Jobs : place[j] # "new" =>
    /\ request[OrderOf[j]] \notin {"none", "500"}
    /\ "resend" \notin Faults => request[OrderOf[j]] \notin {"saved", "503"}

ApiTypes ==
    /\ request \in [Orders -> {"none", "saved", "queued"} \union Answered]
    /\ apiRow \in [Orders -> P!Entities \union {P!NoRow}]

EngineInv == QP!IInv /\ DataInv /\ CallsInv /\ RequestInv /\ ApiTypes

\* What a job that a worker holds or has begun says of the queue.
LEMMA Holding ==
    ASSUME QP!IInv, NEW w \in Workers, NEW j \in Jobs, j \in hand[w] \union runs[w]
    PROVE  /\ place[j] = "active"
           /\ \A v \in Workers : j \in hand[v] \union runs[v] => v = w
           /\ ~(j \in hand[w] /\ j \in runs[w])
BY DEF QP!IInv, QP!InOneHand

\* A job that runs was begun.
LEMMA RunningIsBegun ==
    ASSUME QP!IInv, NEW w \in Workers, NEW j \in Jobs, j \in runs[w]
    PROVE  ~NotBegun(j)
BY Holding DEF NotBegun

\* Starting a job that was not begun is a first call of processOrder.
LEMMA BeginStarts ==
    ASSUME QP!IInv, CallsInv, NEW w \in Workers, NEW j \in Jobs, Begin(w, j)
    PROVE  PP!Start(j)
<1>1. NotBegun(j)
    BY DEF Begin, Q!Begin, NotBegun
<1>2. PP!Call(j)
    BY SameCall DEF Begin
<1> QED
    BY <1>1, <1>2 DEF CallsInv, PP!Start

\* A process that ends resets its calls and at most loses its rows.
LEMMA GoneData ==
    ASSUME DataInv, QP!IInv, NEW w \in Workers, Gone(w)
    PROVE  DataInv'
<1> USE DEF DataInv
<1>1. /\ \A j \in Jobs : pc'[j] = pc[j] \/ pc'[j] = "idle"
      /\ \A o \in Orders : row'[o] = row[o] \/ row'[o] = PP!NoRow
      /\ UNCHANGED <<local, mem, progress, announced, swaps>>
    BY SameRows DEF Gone, PP!TypeOK
<1>2. PP!TypeOK'
    <2>1. "idle" \in PP!Points /\ "save" \in PP!Parts
        BY DEF PP!Points, PP!Parts
    <2>2. pc' \in [Jobs -> PP!Points] /\ part' \in [Jobs -> PP!Parts]
        BY <2>1 DEF Gone, PP!TypeOK
    <2>3. row' \in [Orders -> PP!Entities \union {PP!NoRow}]
        BY SameRows DEF Gone, PP!TypeOK
    <2> QED
        BY <1>1, <2>2, <2>3 DEF PP!TypeOK
<1>3. PP!AttemptsCounted'
    BY <1>1 DEF PP!AttemptsCounted, PP!EarlyPoints
<1>4. PP!HashInv'
    BY <1>1 DEF PP!HashInv, PP!RowsReal, PP!RealHash
<1> QED
    BY <1>2, <1>3, <1>4

\* A stored order is fresh: its row claims nothing (routes/orders.ts:29-48).
LEMMA StoredData ==
    ASSUME DataInv, NEW o \in Orders, Stored(o),
           UNCHANGED <<pc, part, local, mem, progress, announced, swaps>>
    PROVE  DataInv'
<1> USE DEF DataInv
<1>1. row' = row \/ row' = [row EXCEPT ![o] = PP!FreshOrder]
    BY SameRows DEF Stored
<1>2. PP!FreshOrder \in PP!Entities
    BY ComponentAssumption DEF PP!FreshOrder, PP!Entities, PP!Statuses
<1>3. PP!TypeOK'
    BY <1>1, <1>2 DEF PP!TypeOK
<1>4. PP!AttemptsCounted'
    BY DEF PP!AttemptsCounted
<1>5. PP!FreshOrder.txHash = PP!NoHash /\ PP!FreshOrder.status = "pending"
    BY DEF PP!FreshOrder
<1>6. PP!RowsReal'
    <2> SUFFICES ASSUME NEW q \in Orders, row'[q] # PP!NoRow
                 PROVE  PP!RealHash(row[q], q)'
        BY DEF PP!RowsReal
    <2>1. row'[q] = row[q] \/ row'[q] = PP!FreshOrder
        BY <1>1 DEF PP!TypeOK
    <2> QED
        BY <1>5, <2>1 DEF PP!HashInv, PP!RowsReal, PP!RealHash
<1>7. PP!HashInv'
    BY <1>6 DEF PP!HashInv, PP!RealHash
<1> QED
    BY <1>3, <1>4, <1>7

\* A step of a call within the engine keeps what is proved of processOrder.
LEMMA CallData ==
    ASSUME DataInv, NEW j \in Jobs, PP!Start(j) \/ PP!Step(j)
    PROVE  DataInv'
BY Assumptions, PP!StepType, PP!StepAttempts, PP!StepHash DEF DataInv

\* Every step of the engine keeps the data of calls and rows true.
LEMMA NextData ==
    ASSUME EngineInv, [Next]_vars
    PROVE  DataInv'
<1> USE DEF EngineInv
<1>1. CASE UNCHANGED procVars
    BY <1>1 DEF procVars, DataInv, PP!TypeOK, PP!AttemptsCounted, PP!HashInv, PP!RowsReal, PP!RealHash
<1>2. ASSUME NEW o \in Orders, PostSave(o) PROVE DataInv'
    <2>1. CASE Stored(o)
        BY <1>2, <2>1, StoredData DEF PostSave
    <2>2. CASE UNCHANGED row
        BY <1>1, <1>2, <2>2 DEF PostSave, procVars
    <2> QED
        BY <1>2, <2>1, <2>2 DEF PostSave
<1>3. ASSUME NEW w \in Workers, NEW j \in Jobs, Begin(w, j) PROVE DataInv'
    BY <1>3, BeginStarts, CallData
<1>4. ASSUME NEW w \in Workers, NEW j \in Jobs, Process(w, j) PROVE DataInv'
    BY <1>4, SameStep, CallData DEF Process
<1>5. ASSUME NEW w \in Workers, Gone(w) PROVE DataInv'
    BY <1>5, GoneData
<1> QED
    BY <1>1, <1>2, <1>3, <1>4, <1>5
       DEF Next, vars, PostEnqueue, PostResend, PostAnswer, PostRefused, Fetch, FetchLost, NoJob,
           Close, Exit, Crash, Restart, Drop, Return, Throw, LoseLock, Idle

\* A worker that exits runs no job.
LEMMA ExitAtRest ==
    ASSUME QP!IInv, NEW w \in Workers, Q!Exit(w)
    PROVE  runs[w] = {}
<1>1. QP!TypeOK /\ QP!Bounded /\ processing[w] = 0
    BY DEF QP!IInv, Q!Exit
<1>2. QP!Mine(w) = {}
    BY <1>1, QP!DownIsEmpty, Assumptions
<1> QED
    BY <1>2 DEF QP!Mine

\* The queue never returns a job that was begun to those that were not, and a worker
\* runs a new job only by beginning it.
LEMMA BegunForGood ==
    ASSUME QP!IInv, [Next]_vars, NEW j \in Jobs
    PROVE  /\ NotBegun(j)' => NotBegun(j)
           /\ \A w \in Workers : j \in runs'[w] => j \in runs[w] \/ Begin(w, j)
<1> USE DEF NotBegun, QP!IInv, QP!TypeOK
<1>1. wait # <<>> => Head(wait) \in Jobs /\ place[Head(wait)] = "wait"
    BY DEF QP!Queued
<1>2. CASE UNCHANGED queueVars
    BY <1>2 DEF queueVars
<1>3. ASSUME NEW i \in Jobs, Q!Add(i) \/ Q!LoseLock(i) PROVE (NotBegun(j)' => NotBegun(j)) /\ UNCHANGED runs
    BY <1>3 DEF Q!Add, Q!LoseLock
<1>4. ASSUME NEW w \in Workers, Q!Fetch(w) \/ Q!FetchLost(w)
      PROVE  (NotBegun(j)' => NotBegun(j)) /\ UNCHANGED runs
    <2>1. /\ wait # <<>> /\ UNCHANGED runs
          /\ place' = [place EXCEPT ![Head(wait)] = "active"]
          /\ hand' = hand \/ hand' = [hand EXCEPT ![w] = @ \union {Head(wait)}]
        BY <1>4 DEF Q!Fetch, Q!FetchLost, Q!ToActive, Q!Receives
    <2>2. place'[j] \in {"new", "wait"} => place[j] \in {"new", "wait"}
        BY <1>1, <2>1
    <2>3. \A v \in Workers : j \in hand'[v] => j \in hand[v] \/ place[j] = "wait"
        BY <1>1, <2>1
    <2> QED
        BY <2>1, <2>2, <2>3
<1>5. ASSUME NEW w \in Workers, Q!NoJob(w) \/ Q!Close(w) \/ Q!Exit(w) \/ Q!Crash(w) \/ Q!Restart(w)
      PROVE  (NotBegun(j)' => NotBegun(j)) /\ \A v \in Workers : runs'[v] \subseteq runs[v]
    BY <1>5 DEF Q!NoJob, Q!Close, Q!Exit, Q!Crash, Q!Restart
<1>6. ASSUME NEW w \in Workers, NEW i \in Jobs, Begin(w, i)
      PROVE  /\ NotBegun(j)' => NotBegun(j)
             /\ \A v \in Workers : j \in runs'[v] => j \in runs[v] \/ Begin(v, j)
    BY <1>6 DEF Begin, Q!Begin
<1>7. ASSUME NEW w \in Workers, NEW i \in Jobs, Q!Complete(w, i) \/ Q!CompleteLost(w, i)
      PROVE  (NotBegun(j)' => NotBegun(j)) /\ \A v \in Workers : runs'[v] \subseteq runs[v]
    <2>1. \A v \in Workers : runs'[v] \subseteq runs[v]
        <3>1. runs' = [runs EXCEPT ![w] = @ \ {i}]
            BY <1>7 DEF Q!Complete, Q!CompleteLost, Q!Finish, Q!FinishNext, Q!FinishLast,
               Q!Completed
        <3> QED
            BY <3>1
    <2>2. place'[j] \in {"new", "wait"} => place[j] \in {"new", "wait"}
        BY <1>1, <1>7 DEF Q!Complete, Q!CompleteLost, Q!Finish, Q!FinishNext, Q!FinishLast,
           Q!Completed, Q!ToActive
    <2>3. \A v \in Workers : j \in hand'[v] => j \in hand[v] \/ place[j] = "wait"
        <3>1. hand' = hand \/ (wait # <<>> /\ hand' = [hand EXCEPT ![w] = @ \union {Head(wait)}])
            BY <1>7 DEF Q!Complete, Q!CompleteLost, Q!FinishNext, Q!FinishLast, Q!Receives,
               Q!ToActive
        <3> QED
            BY <1>1, <3>1
    <2> QED
        BY <2>1, <2>2, <2>3
<1>8. ASSUME NEW w \in Workers, NEW i \in Jobs, Q!Drop(w, i) \/ Q!Delay(w, i) \/ Q!Forget(w, i)
      PROVE  (NotBegun(j)' => NotBegun(j)) /\ \A v \in Workers : runs'[v] \subseteq runs[v]
    BY <1>8 DEF Q!Drop, Q!Delay, Q!Forget
<1> QED
    BY <1>2, <1>3, <1>4, <1>5, <1>6, <1>7, <1>8
       DEF queueVars, Next, vars, PostSave, PostEnqueue, PostResend, PostAnswer, PostRefused,
           Fetch, FetchLost, NoJob, Close, Exit, Crash, Restart, Drop, Process, Return, Throw,
           LoseLock, Idle

\* A step of one call keeps CallsInv if the call runs afterwards.
LEMMA CallCalls ==
    ASSUME EngineInv, QP!IInv', [Next]_vars, NEW w \in Workers, NEW j \in Jobs,
           PP!Start(j) \/ PP!Step(j), PP!SwapAt(j), j \in runs'[w],
           \A v \in Workers : runs'[v] \subseteq runs[v] \union {j}
    PROVE  CallsInv'
<1> USE DEF EngineInv, DataInv
<1>1. \A i \in Jobs \ {j} : pc'[i] = pc[i] /\ local'[i] = local[i] /\ swaps'[i] = swaps[i]
    BY Assumptions, PP!StepFrame
<1>2. PP!SwapAt(j)'
    BY Assumptions, PP!StepSwapAt
<1>3. ~NotBegun(j)'
    <2>1. place'[j] = "active" /\ \A v \in Workers : j \notin hand'[v]
        BY DEF QP!IInv, QP!InOneHand
    <2> QED
        BY <2>1 DEF NotBegun
<1>4. ASSUME NEW i \in Jobs \ {j}
      PROVE  /\ NotBegun(i)' => pc'[i] = "idle" /\ swaps'[i] = 0
             /\ \A v \in Workers : i \in runs'[v] => PP!SwapAt(i)'
             /\ swaps'[i] <= 1
    BY <1>1, BegunForGood DEF CallsInv, PP!SwapAt, PP!Settled
<1>5. swaps'[j] <= 1
    BY <1>2 DEF PP!SwapAt
<1> QED
    BY <1>2, <1>3, <1>4, <1>5 DEF CallsInv

\* Every step of the engine keeps the swaps of the calls: a crash ends a call, and no
\* other call of its job begins.
LEMMA NextCalls ==
    ASSUME EngineInv, QP!IInv', [Next]_vars
    PROVE  CallsInv'
<1> USE DEF EngineInv
<1>1. CASE UNCHANGED <<pc, local, swaps, runs>>
    BY <1>1, BegunForGood DEF CallsInv, PP!SwapAt, PP!Settled
<1>2. CASE UNCHANGED <<pc, local, swaps>> /\ \A w \in Workers : runs'[w] \subseteq runs[w]
    BY <1>2, BegunForGood DEF CallsInv, PP!SwapAt, PP!Settled
<1>3. ASSUME NEW w \in Workers, NEW j \in Jobs, Begin(w, j) PROVE CallsInv'
    <2>1. NotBegun(j)
        BY <1>3 DEF Begin, Q!Begin, NotBegun
    <2>2. PP!SwapAt(j)
        BY <2>1 DEF CallsInv, PP!SwapAt
    <2>3. PP!Start(j)
        BY <1>3, BeginStarts
    <2>4. j \in runs'[w] /\ \A v \in Workers : runs'[v] \subseteq runs[v] \union {j}
        BY <1>3 DEF Begin, Q!Begin, QP!IInv, QP!TypeOK
    <2> QED
        BY <2>2, <2>3, <2>4, CallCalls
<1>4. ASSUME NEW w \in Workers, NEW j \in Jobs, Process(w, j) PROVE CallsInv'
    <2>1. PP!Step(j) /\ j \in runs'[w] /\ \A v \in Workers : runs'[v] \subseteq runs[v] \union {j}
        BY <1>4, SameStep DEF Process, queueVars
    <2>2. PP!SwapAt(j)
        BY <1>4 DEF Process, CallsInv
    <2> QED
        BY <2>1, <2>2, CallCalls
<1>5. ASSUME NEW w \in Workers, Exit(w) \/ Crash(w) PROVE CallsInv'
    <2>1. runs'[w] = {} /\ \A v \in Workers : runs'[v] \subseteq runs[v]
        BY <1>5, ExitAtRest DEF Exit, Crash, Q!Exit, Q!Crash, QP!IInv, QP!TypeOK
    <2>2. /\ \A j \in Jobs : pc'[j] = IF j \in runs[w] THEN "idle" ELSE pc[j]
          /\ UNCHANGED <<local, swaps>>
        BY <1>5 DEF Exit, Crash, Gone
    <2>3. ASSUME NEW j \in Jobs, NEW v \in Workers, j \in runs'[v] PROVE PP!SwapAt(j)'
        <3>1. j \in runs[v] /\ v # w
            BY <2>1, <2>3
        <3>2. j \notin runs[w]
            BY <3>1, Holding
        <3> QED
            BY <2>2, <3>1, <3>2 DEF CallsInv, PP!SwapAt, PP!Settled
    <2>4. \A j \in Jobs : NotBegun(j)' => pc'[j] = "idle" /\ swaps'[j] = 0
        BY <2>2, BegunForGood DEF CallsInv
    <2> QED
        BY <2>2, <2>3, <2>4 DEF CallsInv
<1>6. ASSUME NEW w \in Workers, NEW j \in Jobs, Return(w, j) \/ Throw(w, j) PROVE CallsInv'
    <2>1. \A v \in Workers : runs'[v] \subseteq runs[v]
        BY <1>6 DEF Return, Throw, Q!Complete, Q!CompleteLost, Q!Finish, Q!FinishNext,
           Q!FinishLast, Q!Completed, Q!Delay, Q!Forget, QP!IInv, QP!TypeOK
    <2> QED
        BY <1>2, <1>6, <2>1 DEF Return, Throw, procVars
<1> QED
    BY <1>1, <1>3, <1>4, <1>5, <1>6
       DEF Next, vars, procVars, queueVars, PostSave, PostEnqueue, PostResend, PostAnswer,
           PostRefused, Fetch, FetchLost, NoJob, Close, Restart, Drop, LoseLock, Idle, Q!Add,
           Q!Fetch, Q!FetchLost, Q!NoJob, Q!Close, Q!Restart, Q!Drop, Q!LoseLock

\* Every step of the engine keeps what the API knows of the jobs.
LEMMA NextRequest ==
    ASSUME EngineInv, [Next]_vars
    PROVE  RequestInv' /\ ApiTypes'
<1> USE ComponentAssumption DEF EngineInv, ApiTypes, Answered
<1>0. P!FreshOrder \in P!Entities
    BY DEF P!FreshOrder, P!Entities, P!Statuses
<1>1. ASSUME UNCHANGED apiVars, \A j \in Jobs : place'[j] # "new" => place[j] # "new"
      PROVE  RequestInv' /\ ApiTypes'
    BY <1>1 DEF apiVars, RequestInv
<1>2. ASSUME NEW o \in Orders, PostSave(o) PROVE RequestInv' /\ ApiTypes'
    <2>1. ApiTypes'
        BY <1>0, <1>2 DEF PostSave, Stored
    <2>2. place' = place /\ \A q \in Orders : request'[q] # request[q] => request[q] = "none"
        BY <1>2 DEF PostSave, queueVars
    <2> QED
        BY <2>1, <2>2 DEF RequestInv
<1>3. ASSUME NEW o \in Orders, PostEnqueue(o) PROVE RequestInv' /\ ApiTypes'
    <2>1. PICK i \in Jobs : OrderOf[i] = o /\ Q!Add(i)
        BY <1>3 DEF PostEnqueue
    <2>2. request' = [request EXCEPT ![o] = "queued"] /\ apiRow' = apiRow
        BY <1>3 DEF PostEnqueue
    <2>3. \A j \in Jobs : j # i => place'[j] = place[j]
        BY <2>1 DEF Q!Add, QP!IInv, QP!TypeOK
    <2> QED
        BY <2>1, <2>2, <2>3 DEF RequestInv
<1>4. ASSUME NEW o \in Orders, PostResend(o) PROVE RequestInv' /\ ApiTypes'
    BY <1>4 DEF PostResend, queueVars, RequestInv
<1>5. ASSUME NEW o \in Orders, PostAnswer(o) PROVE RequestInv' /\ ApiTypes'
    BY <1>5 DEF PostAnswer, queueVars, RequestInv
<1>6. ASSUME NEW o \in Orders, PostRefused(o) PROVE RequestInv' /\ ApiTypes'
    BY <1>6 DEF PostRefused, queueVars, RequestInv
<1>7. ASSUME NEW w \in Workers, \/ Fetch(w) \/ FetchLost(w) \/ NoJob(w) \/ Close(w) \/ Exit(w)
                                \/ Crash(w) \/ Restart(w)
      PROVE  RequestInv' /\ ApiTypes'
    <2>1. UNCHANGED apiVars /\ \A j \in Jobs : place'[j] # "new" => place[j] # "new"
        <3>1. UNCHANGED apiVars
            BY <1>7 DEF Fetch, FetchLost, NoJob, Close, Exit, Crash, Restart, Gone, apiVars
        <3>2. \/ place' = place
              \/ wait # <<>> /\ place' = [place EXCEPT ![Head(wait)] = "active"]
            BY <1>7 DEF Fetch, FetchLost, NoJob, Close, Exit, Crash, Restart, Q!Fetch,
               Q!FetchLost, Q!NoJob, Q!Close, Q!Exit, Q!Crash, Q!Restart, Q!ToActive
        <3>3. wait # <<>> => Head(wait) \in Jobs /\ place[Head(wait)] = "wait"
            BY DEF QP!IInv, QP!TypeOK, QP!Queued
        <3>4. place \in [Jobs -> QP!Places]
            BY DEF QP!IInv, QP!TypeOK
        <3> QED
            BY <3>1, <3>2, <3>3, <3>4
    <2> QED
        BY <1>1, <2>1
<1>8. ASSUME NEW w \in Workers, NEW j \in Jobs,
             \/ Begin(w, j) \/ Drop(w, j) \/ Process(w, j) \/ Return(w, j) \/ Throw(w, j)
      PROVE  RequestInv' /\ ApiTypes'
    <2>1. place[j] # "new" \/ place' = place
        BY <1>8, Holding DEF Begin, Drop, Process, Return, Throw, queueVars, Q!Begin, Q!Drop,
           Q!Complete, Q!CompleteLost, Q!Finish, Q!FinishNext, Q!FinishLast, Q!Completed, Q!Delay,
           Q!Forget
    <2>2. UNCHANGED apiVars
        BY <1>8 DEF Begin, Drop, Process, Return, Throw
    <2>3. \A i \in Jobs : place'[i] # "new" => place[i] # "new"
        <3>1. \/ place' = place
              \/ place' = [place EXCEPT ![j] = "delayed"]
              \/ place' = [place EXCEPT ![j] = "completed"]
              \/ /\ wait # <<>>
                 /\ place' = [[place EXCEPT ![j] = "completed"] EXCEPT ![Head(wait)] = "active"]
            BY <1>8 DEF Begin, Drop, Process, Return, Throw, queueVars, Q!Begin, Q!Drop,
               Q!Complete, Q!CompleteLost, Q!Finish, Q!FinishNext, Q!FinishLast, Q!Completed,
               Q!ToActive, Q!Delay, Q!Forget
        <3>2. wait # <<>> => Head(wait) \in Jobs /\ place[Head(wait)] = "wait"
            BY DEF QP!IInv, QP!TypeOK, QP!Queued
        <3>3. place \in [Jobs -> QP!Places]
            BY DEF QP!IInv, QP!TypeOK
        <3> QED
            BY <2>1, <3>1, <3>2, <3>3
    <2> QED
        BY <1>1, <2>2, <2>3
<1>9. ASSUME NEW j \in Jobs, LoseLock(j) PROVE RequestInv' /\ ApiTypes'
    BY <1>1, <1>9 DEF LoseLock, Q!LoseLock
<1> QED
    BY <1>1, <1>2, <1>3, <1>4, <1>5, <1>6, <1>7, <1>8, <1>9 DEF Next, vars, apiVars, queueVars, Idle

-----------------------------------------------------------------------------
(* Rows and verdicts within the engine. *)

\* Entity and row of every call agree, as proved of processOrder alone, for rows in a
\* shared database of orders with one job; a completed job's call has returned.
AnswersInv == \A j \in Jobs :
    /\ PP!EntityAt(j)
    /\ SharedDb /\ PP!SoleWriter => PP!RowAt(j)
    /\ place[j] = "completed" => pc[j] \in {"success", "failure"}

\* A job becomes completed only when its call has returned.
LEMMA CompletedByReturn ==
    ASSUME QP!IInv, [Next]_vars, NEW j \in Jobs, place'[j] = "completed"
    PROVE  place[j] = "completed" \/ \E w \in Workers : j \in runs[w] /\ Return(w, j)
<1> USE DEF QP!IInv, QP!TypeOK
<1>1. wait # <<>> => Head(wait) \in Jobs
    BY DEF QP!Queued
<1>2. ASSUME NEW w \in Workers, NEW i \in Jobs, Return(w, i)
      PROVE  place[j] = "completed" \/ (i = j /\ j \in runs[w])
    BY <1>1, <1>2 DEF Return, Q!Complete, Q!CompleteLost, Q!Finish, Q!FinishNext, Q!FinishLast,
       Q!Completed, Q!Forget, Q!ToActive
<1>3. ASSUME NEW w \in Workers, NEW i \in Jobs, Begin(w, i) \/ Drop(w, i) \/ Process(w, i) \/ Throw(w, i)
      PROVE  place[j] = "completed"
    BY <1>3 DEF Begin, Drop, Process, Throw, queueVars, Q!Begin, Q!Drop, Q!Delay, Q!Forget
<1>4. ASSUME NEW w \in Workers, \/ Fetch(w) \/ FetchLost(w) \/ NoJob(w) \/ Close(w) \/ Exit(w)
                                \/ Crash(w) \/ Restart(w)
      PROVE  place[j] = "completed"
    BY <1>1, <1>4 DEF Fetch, FetchLost, NoJob, Close, Exit, Crash, Restart, Q!Fetch, Q!FetchLost,
       Q!NoJob, Q!ToActive, Q!Close, Q!Exit, Q!Crash, Q!Restart
<1>5. ASSUME NEW i \in Jobs, Q!Add(i) \/ Q!LoseLock(i) PROVE place[j] = "completed"
    BY <1>5 DEF Q!Add, Q!LoseLock
<1> QED
    BY <1>2, <1>3, <1>4, <1>5
       DEF Next, vars, queueVars, PostSave, PostEnqueue, PostResend, PostAnswer, PostRefused, LoseLock, Idle

\* Where no call is under way, row and entity are not concerned.
LEMMA IdleAnswers ==
    ASSUME NEW j, pc[j] = "idle"
    PROVE  PP!EntityAt(j) /\ PP!RowAt(j)
BY DEF PP!EntityAt, PP!RowAt, PP!Sites, PP!QuotedPoints

\* A step of a call that runs keeps the agreement.
LEMMA CallAnswers ==
    ASSUME EngineInv, EngineInv', AnswersInv, [Next]_vars, NEW w \in Workers, NEW j \in Jobs,
           PP!Start(j) \/ PP!Step(j), j \in runs'[w], UNCHANGED place
    PROVE  AnswersInv'
<1> USE DEF EngineInv, DataInv
<1>1. PP!EntityAt(j)' /\ (SharedDb /\ PP!SoleWriter => PP!RowAt(j)')
    BY Assumptions, PP!StepEntity, PP!StepRow DEF AnswersInv
<1>2. place'[j] # "completed"
    BY DEF QP!IInv, QP!InOneHand
<1>3. ASSUME NEW i \in Jobs \ {j}
      PROVE  /\ PP!EntityAt(i)'
             /\ SharedDb /\ PP!SoleWriter => PP!RowAt(i)'
             /\ place'[i] = "completed" => pc'[i] \in {"success", "failure"}
    <2>1. pc'[i] = pc[i]
        BY Assumptions, PP!StepFrame
    <2>2. PP!EntityAt(i)' /\ (PP!SoleWriter => (PP!RowAt(i) => PP!RowAt(i)'))
        BY Assumptions, PP!OthersStay DEF AnswersInv
    <2> QED
        BY <2>1, <2>2 DEF AnswersInv
<1> QED
    BY <1>1, <1>2, <1>3 DEF AnswersInv

\* Every step of the engine keeps the agreement: the API stores an order before its job
\* exists, and a crash ends only calls that have not been answered.
LEMMA NextAnswers ==
    ASSUME EngineInv, EngineInv', AnswersInv, [Next]_vars
    PROVE  AnswersInv'
<1> USE DEF EngineInv
<1>1. CASE UNCHANGED procVars
    <2> SUFFICES ASSUME NEW j \in Jobs, place'[j] = "completed" PROVE pc[j] \in {"success", "failure"}
        BY <1>1 DEF procVars, AnswersInv, PP!EntityAt, PP!RowAt
    <2> QED
        BY CompletedByReturn DEF AnswersInv, Return
<1>2. ASSUME NEW o \in Orders, PostSave(o) PROVE AnswersInv'
    <2>1. /\ UNCHANGED <<pc, part, local, mem, place>> /\ request[o] = "none"
          /\ \A q \in Orders \ {o} : row'[q] = row[q]
        BY <1>2 DEF PostSave, Stored, queueVars, DataInv, PP!TypeOK
    <2> SUFFICES ASSUME NEW j \in Jobs
                 PROVE  PP!EntityAt(j)' /\ (SharedDb /\ PP!SoleWriter => PP!RowAt(j)')
        BY <2>1 DEF AnswersInv
    <2>2. CASE OrderOf[j] = o
        <3>1. pc'[j] = "idle"
            BY <2>1, <2>2 DEF RequestInv, CallsInv, NotBegun
        <3> QED
            BY <3>1, IdleAnswers DEF PP!EntityAt, PP!RowAt, PP!Sites, PP!QuotedPoints
    <2>3. CASE OrderOf[j] # o
        <3>1. row'[OrderOf[j]] = row[OrderOf[j]]
            BY <2>1, <2>3, ComponentAssumption
        <3> QED
            BY <2>1, <3>1 DEF AnswersInv, PP!EntityAt, PP!RowAt
    <2> QED
        BY <2>2, <2>3
<1>3. ASSUME NEW w \in Workers, NEW j \in Jobs, Begin(w, j) PROVE AnswersInv'
    <2>1. j \in runs'[w] /\ UNCHANGED place
        BY <1>3 DEF Begin, Q!Begin, QP!IInv, QP!TypeOK
    <2> QED
        BY <1>3, <2>1, BeginStarts, CallAnswers
<1>4. ASSUME NEW w \in Workers, NEW j \in Jobs, Process(w, j) PROVE AnswersInv'
    <2>1. PP!Step(j) /\ j \in runs'[w] /\ UNCHANGED place
        BY <1>4, SameStep DEF Process, queueVars
    <2> QED
        BY <2>1, CallAnswers
<1>5. ASSUME NEW w \in Workers, Exit(w) \/ Crash(w) PROVE AnswersInv'
    <2>1. /\ \A j \in Jobs : /\ pc'[j] = IF j \in runs[w] THEN "idle" ELSE pc[j]
                             /\ part'[j] = IF j \in runs[w] THEN "save" ELSE part[j]
          /\ UNCHANGED <<local, mem, place>> /\ (SharedDb => row' = row)
        BY <1>5 DEF Exit, Crash, Gone, Q!Exit, Q!Crash
    <2> SUFFICES ASSUME NEW j \in Jobs
                 PROVE  /\ PP!EntityAt(j)' /\ (SharedDb /\ PP!SoleWriter => PP!RowAt(j)')
                        /\ place'[j] = "completed" => pc'[j] \in {"success", "failure"}
        BY DEF AnswersInv
    <2>2. CASE j \in runs[w]
        <3>1. pc'[j] = "idle" /\ place'[j] = "active"
            BY <2>1, <2>2, Holding
        <3> QED
            BY <3>1 DEF PP!EntityAt, PP!RowAt, PP!Sites, PP!QuotedPoints
    <2>3. CASE j \notin runs[w]
        BY <2>1, <2>3 DEF AnswersInv, PP!EntityAt, PP!RowAt
    <2> QED
        BY <2>2, <2>3
<1> QED
    BY <1>1, <1>2, <1>3, <1>4, <1>5
       DEF Next, vars, PostEnqueue, PostResend, PostAnswer, PostRefused, Fetch, FetchLost, NoJob,
           Close, Restart, Drop, Return, Throw, LoseLock, Idle

-----------------------------------------------------------------------------
(* Verdicts within the engine, in a shared database, of orders with one job. *)

\* A call that runs found no verdict, and has reached the one that the row has.
FinalInv == SharedDb /\ P!SoleWriter =>
    /\ \A j \in Jobs : /\ PP!OpenAt(j) /\ PP!FinalAt(j)
                       /\ NotBegun(j) => row[OrderOf[j]].status \notin Verdicts
    /\ \A o \in Orders : request[o] = "none" => row[o] = P!NoRow

\* Where no call is under way, FinalInv claims nothing of it.
LEMMA IdleFinal ==
    ASSUME NEW j, pc[j] = "idle"
    PROVE  PP!OpenAt(j) /\ PP!FinalAt(j)
BY DEF PP!OpenAt, PP!FinalAt

\* A row without an order, and a fresh one, have no verdict.
LEMMA NoVerdictYet ==
    P!NoRow.status \notin Verdicts /\ P!FreshOrder.status \notin Verdicts
BY DEF P!NoRow, P!FreshOrder, Verdicts

\* A request that was made is never as if it had not been.
LEMMA RequestedForGood ==
    ASSUME ApiTypes, [Next]_vars, NEW o \in Orders, request'[o] = "none"
    PROVE  request[o] = "none"
BY DEF ApiTypes, Next, vars, apiVars, PostSave, PostEnqueue, PostResend, PostAnswer, PostRefused,
   Fetch, FetchLost, NoJob, Close, Exit, Crash, Gone, Restart, Drop, Begin, Process, Return,
   Throw, LoseLock, Idle

\* A step of a call keeps it; its order has been requested.
LEMMA CallFinal ==
    ASSUME EngineInv, EngineInv', AnswersInv, FinalInv, [Next]_vars,
           SharedDb, P!SoleWriter, NEW w \in Workers, NEW j \in Jobs,
           PP!Start(j) \/ PP!Step(j), j \in runs'[w],
           pc[j] = "idle" => row[OrderOf[j]].status \notin Verdicts
    PROVE  FinalInv'
<1> USE DEF EngineInv, DataInv
<1>1. PP!OpenAt(j)' /\ PP!FinalAt(j)'
    BY Assumptions, PP!StepOpen, PP!StepFinal, SameRows DEF FinalInv, AnswersInv, Verdicts, PP!Verdicts
<1>2. ASSUME NEW i \in Jobs \ {j}
      PROVE  /\ PP!OpenAt(i)' /\ PP!FinalAt(i)'
             /\ NotBegun(i)' => row'[OrderOf[i]].status \notin Verdicts
    BY Assumptions, PP!OthersFinal, SameRows, BegunForGood DEF FinalInv
<1>3. ~NotBegun(j)' /\ place'[j] # "new"
    BY RunningIsBegun DEF NotBegun, QP!IInv, QP!InOneHand
<1>4. ASSUME NEW o \in Orders, request'[o] = "none" PROVE row'[o] = P!NoRow
    <2>1. o # OrderOf[j]
        BY <1>3, <1>4 DEF RequestInv
    <2>2. row'[o] = row[o]
        BY <2>1, Assumptions, PP!StepFrame
    <2> QED
        BY <1>4, <2>2, RequestedForGood DEF FinalInv
<1> QED
    BY <1>1, <1>2, <1>3, <1>4 DEF FinalInv

\* Every step of the engine keeps it: a crash ends a call for good, so that none comes
\* upon the verdict of an earlier one.
LEMMA NextFinal ==
    ASSUME EngineInv, EngineInv', AnswersInv, FinalInv, [Next]_vars
    PROVE  FinalInv'
<1> SUFFICES ASSUME SharedDb, P!SoleWriter PROVE FinalInv'
    BY DEF FinalInv, P!SoleWriter
<1> USE DEF EngineInv
<1>1. CASE UNCHANGED procVars
    BY <1>1, BegunForGood, RequestedForGood
       DEF procVars, FinalInv, PP!OpenAt, PP!FinalAt
<1>2. ASSUME NEW o \in Orders, PostSave(o) PROVE FinalInv'
    <2>1. /\ UNCHANGED <<pc, part, local, mem, place, hand>> /\ request[o] = "none" /\ request'[o] # "none"
          /\ \A q \in Orders \ {o} : row'[q] = row[q] /\ request'[q] = request[q]
          /\ row'[o] = row[o] \/ row'[o] = P!FreshOrder
        BY <1>2 DEF PostSave, Stored, queueVars, DataInv, PP!TypeOK, ApiTypes
    <2>2. row'[o].status \notin Verdicts
        BY <2>1, NoVerdictYet DEF FinalInv
    <2>3. ASSUME NEW j \in Jobs
          PROVE  /\ PP!OpenAt(j)' /\ PP!FinalAt(j)'
                 /\ NotBegun(j)' => row'[OrderOf[j]].status \notin Verdicts
        <3>1. CASE OrderOf[j] = o
            <4>1. pc'[j] = "idle"
                BY <2>1, <3>1 DEF RequestInv, CallsInv, NotBegun
            <4> QED
                BY <2>2, <3>1, <4>1, IdleFinal DEF PP!OpenAt, PP!FinalAt
        <3>2. CASE OrderOf[j] # o
            <4>1. row'[OrderOf[j]] = row[OrderOf[j]]
                BY <2>1, <3>2, ComponentAssumption
            <4> QED
                BY <2>1, <4>1 DEF FinalInv, NotBegun, PP!OpenAt, PP!FinalAt
        <3> QED
            BY <3>1, <3>2
    <2> QED
        BY <2>1, <2>3 DEF FinalInv
<1>3. ASSUME NEW w \in Workers, NEW j \in Jobs, Begin(w, j) PROVE FinalInv'
    <2>1. j \in runs'[w]
        BY <1>3 DEF Begin, Q!Begin, QP!IInv, QP!TypeOK
    <2>2. NotBegun(j)
        BY <1>3 DEF Begin, Q!Begin, NotBegun
    <2> QED
        BY <1>3, <2>1, <2>2, BeginStarts, CallFinal DEF FinalInv
<1>4. ASSUME NEW w \in Workers, NEW j \in Jobs, Process(w, j) PROVE FinalInv'
    <2>1. PP!Step(j) /\ j \in runs'[w]
        BY <1>4, SameStep DEF Process, queueVars
    <2>2. pc[j] # "idle"
        BY <2>1, Assumptions, PP!IdleWaits
    <2> QED
        BY <2>1, <2>2, CallFinal
<1>5. ASSUME NEW w \in Workers, Exit(w) \/ Crash(w) PROVE FinalInv'
    <2>1. /\ \A j \in Jobs : pc'[j] = IF j \in runs[w] THEN "idle" ELSE pc[j]
          /\ UNCHANGED <<local, mem, row, request>>
        BY <1>5 DEF Exit, Crash, Gone, apiVars
    <2>2. ASSUME NEW j \in Jobs PROVE PP!OpenAt(j)' /\ PP!FinalAt(j)'
        BY <2>1 DEF FinalInv, PP!OpenAt, PP!FinalAt
    <2> QED
        BY <2>1, <2>2, BegunForGood DEF FinalInv
<1> QED
    BY <1>1, <1>2, <1>3, <1>4, <1>5
       DEF Next, vars, PostEnqueue, PostResend, PostAnswer, PostRefused, Fetch, FetchLost, NoJob,
           Close, Restart, Drop, Return, Throw, LoseLock, Idle

-----------------------------------------------------------------------------
(* Statuses and traces within the engine, in a shared database, of orders with one job. *)

\* A job that a worker may yet begin, or runs.  The others' calls are over.
Pending(j) == NotBegun(j) \/ \E w \in Workers : j \in runs[w]

\* Once over, they stay over.
LEMMA PendingBefore ==
    ASSUME QP!IInv, [Next]_vars, NEW j \in Jobs, Pending(j)'
    PROVE  Pending(j)
BY BegunForGood DEF Pending, NotBegun, Begin, Q!Begin

\* A process that ends leaves alone the calls that go on.
LEMMA GoneLeaves ==
    ASSUME QP!IInv, [Next]_vars, NEW w \in Workers, Exit(w) \/ Crash(w), NEW j \in Jobs, Pending(j)'
    PROVE  pc'[j] = pc[j] /\ part'[j] = part[j]
<1>1. /\ j \notin runs[w] => pc'[j] = pc[j] /\ part'[j] = part[j]
      /\ runs'[w] = {} /\ \A v \in Workers : runs'[v] \subseteq runs[v]
    BY ExitAtRest DEF Exit, Crash, Gone, Q!Exit, Q!Crash, QP!IInv, QP!TypeOK
<1>2. CASE NotBegun(j)'
    BY <1>1, <1>2, BegunForGood, RunningIsBegun
<1>3. ASSUME NEW v \in Workers, j \in runs'[v] PROVE j \notin runs[w]
    BY <1>1, <1>3, Holding
<1> QED
    BY <1>1, <1>2, <1>3 DEF Pending

\* What was executed is on record, also of calls that a crash ended; no row is ahead of
\* the call that writes it, and none is there before the API has stored it.
RecordInv == SharedDb /\ P!SoleWriter =>
    /\ \A j \in Jobs : /\ PP!TraceAt(j)
                       /\ Pending(j) /\ place[j] # "new" => PP!RankAt(j)
                       /\ place[j] = "new" => row[OrderOf[j]] \in {P!NoRow, P!FreshOrder}
    /\ \A o \in Orders : request[o] \notin {"none", "500"} => row[o] # P!NoRow

\* A row that is there stays there, and only the API stores a new one.
LEMMA RowsRemain ==
    ASSUME EngineInv, [Next]_vars, SharedDb, NEW o \in Orders, row[o] # P!NoRow
    PROVE  row'[o] # P!NoRow
<1> USE DEF EngineInv, DataInv
<1>1. P!FreshOrder # P!NoRow
    BY DEF P!FreshOrder, P!NoRow
<1>2. ASSUME NEW q \in Orders, PostSave(q) PROVE row'[o] # P!NoRow
    BY <1>1, <1>2 DEF PostSave, Stored, PP!TypeOK
<1>3. ASSUME NEW w \in Workers, NEW j \in Jobs, Process(w, j) PROVE row'[o] # P!NoRow
    <2>1. PP!Step(j)
        BY <1>3, SameStep DEF Process
    <2>2. row' = row \/ row'[OrderOf[j]] = mem[j]
        BY <2>1, Assumptions, PP!RowSaved
    <2>3. mem[j] # P!NoRow
        BY DEF PP!TypeOK, PP!Entities, PP!Statuses, P!NoRow
    <2>4. o # OrderOf[j] => row'[o] = row[o]
        BY <2>1, Assumptions, PP!StepFrame
    <2> QED
        BY <2>2, <2>3, <2>4
<1>4. ASSUME NEW w \in Workers, Exit(w) \/ Crash(w) \/ (\E j \in Jobs : Begin(w, j)) PROVE row' = row
    BY <1>4 DEF Exit, Crash, Gone, Begin, P!Call
<1> QED
    BY <1>2, <1>3, <1>4
       DEF Next, vars, procVars, PostEnqueue, PostResend, PostAnswer, PostRefused, Fetch,
           FetchLost, NoJob, Close, Restart, Drop, Return, Throw, LoseLock, Idle

\* A request gets beyond none and 500 only with the order stored.
LEMMA AnsweredIsStored ==
    ASSUME EngineInv, RecordInv, [Next]_vars, SharedDb, P!SoleWriter, NEW o \in Orders,
           request'[o] \notin {"none", "500"}
    PROVE  row'[o] # P!NoRow
<1>1. CASE request[o] \notin {"none", "500"}
    BY <1>1, RowsRemain DEF RecordInv
<1>2. CASE request[o] \in {"none", "500"}
    <2>1. PostSave(o)
        <3>1. request'[o] # request[o]
            BY <1>2
        <3> QED
            BY <1>2, <3>1 DEF EngineInv, ApiTypes, Next, vars, apiVars, PostSave, PostEnqueue,
               PostResend, PostAnswer, PostRefused, Fetch, FetchLost, NoJob, Close, Exit, Crash,
               Gone, Restart, Drop, Begin, Process, Return, Throw, LoseLock, Idle
    <2>2. row' = [row EXCEPT ![o] = P!FreshOrder]
        BY <2>1 DEF PostSave, Stored, EngineInv, ApiTypes
    <2> QED
        BY <2>2 DEF EngineInv, DataInv, PP!TypeOK, P!FreshOrder, P!NoRow
<1> QED
    BY <1>1, <1>2

\* A job is new until the API enqueues it, and stays new until then.
LEMMA EnqueuedByApi ==
    ASSUME QP!IInv, [Next]_vars, NEW j \in Jobs
    PROVE  /\ place'[j] = "new" => place[j] = "new"
           /\ place[j] = "new" => place'[j] = "new" \/ PostEnqueue(OrderOf[j])
<1> USE ComponentAssumption DEF QP!IInv, QP!TypeOK
<1>1. wait # <<>> => Head(wait) \in Jobs /\ place[Head(wait)] = "wait"
    BY DEF QP!Queued
<1>2. ASSUME NEW w \in Workers, NEW i \in Jobs, i \in hand[w] \union runs[w] PROVE place[i] = "active"
    BY <1>2, Holding
<1>3. CASE UNCHANGED queueVars
    BY <1>3 DEF queueVars
<1>4. ASSUME NEW o \in Orders, PostEnqueue(o)
      PROVE  /\ place'[j] = "new" => place[j] = "new"
             /\ place[j] = "new" => place'[j] = "new" \/ PostEnqueue(OrderOf[j])
    BY <1>4 DEF PostEnqueue, Q!Add
<1>5. ASSUME NEW w \in Workers, \/ Q!Fetch(w) \/ Q!FetchLost(w) \/ Q!NoJob(w) \/ Q!Close(w) \/ Q!Exit(w)
                                \/ Q!Crash(w) \/ Q!Restart(w)
      PROVE  place'[j] = "new" <=> place[j] = "new"
    BY <1>1, <1>5 DEF Q!Fetch, Q!FetchLost, Q!NoJob, Q!ToActive, Q!Close, Q!Exit, Q!Crash,
       Q!Restart
<1>6. ASSUME NEW w \in Workers, NEW i \in Jobs, \/ Q!Complete(w, i) \/ Q!CompleteLost(w, i)
      PROVE  place'[j] = "new" <=> place[j] = "new"
    <2>1. place[i] = "active"
        BY <1>2, <1>6 DEF Q!Complete, Q!CompleteLost, Q!Finish, Q!FinishNext, Q!FinishLast,
           Q!Completed
    <2> QED
        BY <1>1, <1>6, <2>1 DEF Q!Complete, Q!CompleteLost, Q!Finish, Q!FinishNext, Q!FinishLast,
           Q!Completed, Q!ToActive
<1>7. ASSUME NEW w \in Workers, NEW i \in Jobs,
             Q!Begin(w, i) \/ Q!Drop(w, i) \/ Q!Delay(w, i) \/ Q!Forget(w, i)
      PROVE  place'[j] = "new" <=> place[j] = "new"
    <2>1. place[i] = "active"
        BY <1>2, <1>7 DEF Q!Begin, Q!Drop, Q!Delay, Q!Forget
    <2> QED
        BY <1>7, <2>1 DEF Q!Begin, Q!Drop, Q!Delay, Q!Forget
<1>8. ASSUME NEW i \in Jobs, Q!LoseLock(i) PROVE place' = place
    BY <1>8 DEF Q!LoseLock
<1> QED
    BY <1>3, <1>4, <1>5, <1>6, <1>7, <1>8
       DEF queueVars, Next, vars, PostSave, PostResend, PostAnswer, PostRefused, Fetch, FetchLost,
           NoJob, Close, Exit, Crash, Restart, Begin, Drop, Process, Return, Throw, LoseLock, Idle

\* A job that the API enqueues has its order stored, and untouched (routes/orders.ts:46-61).
LEMMA EnqueuedIsFresh ==
    ASSUME EngineInv, RecordInv, SharedDb, P!SoleWriter, NEW j \in Jobs, place[j] = "new",
           PostEnqueue(OrderOf[j])
    PROVE  PP!RankAt(j)
<1>1. row[OrderOf[j]] = P!FreshOrder
    BY ComponentAssumption DEF PostEnqueue, RecordInv
<1>2. pc[j] = "idle"
    BY DEF EngineInv, CallsInv, NotBegun
<1> QED
    BY <1>1, <1>2 DEF PP!RankAt, P!FreshOrder

\* A step of a call keeps it.
LEMMA CallRecord ==
    ASSUME EngineInv, EngineInv', AnswersInv, FinalInv, RecordInv, [Next]_vars, SharedDb, P!SoleWriter,
           NEW w \in Workers, NEW j \in Jobs, PP!Start(j) \/ PP!Step(j), PP!SwapAt(j), Pending(j),
           j \in runs'[w], UNCHANGED place, pc[j] = "idle" => swaps[j] = 0
    PROVE  RecordInv'
<1> USE DEF EngineInv, DataInv
<1>1. place'[j] = "active"
    BY DEF QP!IInv, QP!InOneHand
<1>2. PP!TraceAt(j)'
    BY Assumptions, SameRows, PP!StepTrace DEF AnswersInv, RecordInv
<1>3. PP!RankAt(j)'
    BY <1>1, Assumptions, PP!StepRank DEF AnswersInv, FinalInv, RecordInv
<1>4. ASSUME NEW i \in Jobs \ {j}
      PROVE  /\ PP!TraceAt(i)'
             /\ Pending(i)' /\ place'[i] # "new" => PP!RankAt(i)'
             /\ place'[i] = "new" => row'[OrderOf[i]] \in {P!NoRow, P!FreshOrder}
    <2>1. PP!TraceAt(i)'
        BY Assumptions, SameRows, PP!OthersTrace DEF RecordInv
    <2>2. Pending(i)' /\ place'[i] # "new" => PP!RankAt(i)'
        BY PendingBefore, Assumptions, SameRows, PP!OthersRank DEF RecordInv
    <2>3. row'[OrderOf[i]] = row[OrderOf[i]]
        BY Assumptions, SameRows, PP!OthersFinal
    <2> QED
        BY <2>1, <2>2, <2>3 DEF RecordInv
<1> QED
    BY <1>1, <1>2, <1>3, <1>4, AnsweredIsStored DEF RecordInv

\* Every step of the engine keeps it: a crash takes nothing from a shared database.
LEMMA NextRecord ==
    ASSUME EngineInv, EngineInv', AnswersInv, FinalInv, RecordInv, [Next]_vars
    PROVE  RecordInv'
<1> SUFFICES ASSUME SharedDb, P!SoleWriter PROVE RecordInv'
    BY DEF RecordInv, P!SoleWriter
<1> USE DEF EngineInv
<1>0. \A o \in Orders : request'[o] \notin {"none", "500"} => row'[o] # P!NoRow
    BY AnsweredIsStored
<1>1. CASE UNCHANGED procVars
    <2> SUFFICES ASSUME NEW j \in Jobs
                 PROVE  /\ PP!TraceAt(j)'
                        /\ Pending(j)' /\ place'[j] # "new" => PP!RankAt(j)'
                        /\ place'[j] = "new" => row'[OrderOf[j]] \in {P!NoRow, P!FreshOrder}
        BY <1>0 DEF RecordInv
    <2>1. PP!TraceAt(j)' /\ (PP!RankAt(j) => PP!RankAt(j)')
        BY <1>1 DEF procVars, RecordInv, PP!TraceAt, PP!RankAt
    <2>2. Pending(j)' /\ place'[j] # "new" => PP!RankAt(j)
        BY PendingBefore, EnqueuedByApi, EnqueuedIsFresh DEF RecordInv
    <2> QED
        BY <1>1, <2>1, <2>2, EnqueuedByApi DEF procVars, RecordInv
<1>2. ASSUME NEW o \in Orders, PostSave(o) PROVE RecordInv'
    <2>1. /\ UNCHANGED <<pc, local, mem, swaps, place, hand, runs>> /\ request[o] = "none"
          /\ row' = row \/ row' = [row EXCEPT ![o] = P!FreshOrder]
          /\ row \in [Orders -> PP!Entities \union {PP!NoRow}]
        BY <1>2 DEF PostSave, Stored, queueVars, DataInv, PP!TypeOK
    <2>2. row[o] = P!NoRow
        BY <2>1 DEF FinalInv
    <2> SUFFICES ASSUME NEW j \in Jobs
                 PROVE  /\ PP!TraceAt(j)'
                        /\ Pending(j)' /\ place'[j] # "new" => PP!RankAt(j)'
                        /\ place'[j] = "new" => row'[OrderOf[j]] \in {P!NoRow, P!FreshOrder}
        BY <1>0 DEF RecordInv
    <2>3. CASE OrderOf[j] = o
        <3>1. place[j] = "new" /\ pc[j] = "idle" /\ swaps[j] = 0
            BY <2>1, <2>3 DEF RequestInv, CallsInv, NotBegun
        <3>2. row'[o] \in {P!NoRow, P!FreshOrder}
            BY <2>1, <2>2
        <3> QED
            BY <2>1, <2>3, <3>1, <3>2 DEF PP!TraceAt
    <2>4. CASE OrderOf[j] # o
        <3>1. row'[OrderOf[j]] = row[OrderOf[j]]
            BY <2>1, <2>4, ComponentAssumption
        <3> QED
            BY <2>1, <3>1, PendingBefore DEF RecordInv, PP!TraceAt, PP!RankAt
    <2> QED
        BY <2>3, <2>4
<1>3. ASSUME NEW w \in Workers, NEW j \in Jobs, Begin(w, j) PROVE RecordInv'
    <2>1. NotBegun(j) /\ j \in runs'[w] /\ UNCHANGED place
        BY <1>3 DEF Begin, Q!Begin, NotBegun, QP!IInv, QP!TypeOK
    <2>2. PP!SwapAt(j) /\ swaps[j] = 0
        BY <2>1 DEF CallsInv, PP!SwapAt
    <2> QED
        BY <1>3, <2>1, <2>2, BeginStarts, CallRecord DEF Pending
<1>4. ASSUME NEW w \in Workers, NEW j \in Jobs, Process(w, j) PROVE RecordInv'
    <2>1. PP!Step(j) /\ j \in runs[w] /\ j \in runs'[w] /\ UNCHANGED place
        BY <1>4, SameStep DEF Process, queueVars
    <2>2. pc[j] # "idle" /\ PP!SwapAt(j)
        BY <2>1, Assumptions, PP!IdleWaits DEF CallsInv
    <2> QED
        BY <2>1, <2>2, CallRecord DEF Pending
<1>5. ASSUME NEW w \in Workers, Exit(w) \/ Crash(w) PROVE RecordInv'
    <2>1. /\ \A j \in Jobs : pc'[j] = pc[j] \/ pc'[j] = "idle"
          /\ UNCHANGED <<local, mem, row, swaps, place>>
        BY <1>5 DEF Exit, Crash, Gone, Q!Exit, Q!Crash
    <2>2. \A j \in Jobs : PP!TraceAt(j)'
        BY <2>1 DEF RecordInv, PP!TraceAt
    <2>3. ASSUME NEW j \in Jobs, Pending(j)', place'[j] # "new" PROVE PP!RankAt(j)'
        BY <1>5, <2>1, <2>3, PendingBefore, GoneLeaves DEF RecordInv, PP!RankAt
    <2> QED
        BY <1>0, <2>1, <2>2, <2>3 DEF RecordInv
<1> QED
    BY <1>1, <1>2, <1>3, <1>4, <1>5
       DEF Next, vars, PostEnqueue, PostResend, PostAnswer, PostRefused, Fetch, FetchLost, NoJob,
           Close, Restart, Drop, Return, Throw, LoseLock, Idle

-----------------------------------------------------------------------------
(* The lifecycle within the engine: a shared database that answers, one job per order. *)

\* Row and entity of a call are in line with the point it is at, unless it was ended.
EngineLife == SharedDb /\ P!SoleWriter /\ ~DbMayFail =>
    \A j \in Jobs : Pending(j) => PP!LifeAt(j)

\* LifeAt reads these only.
LEMMA LifeReads ==
    ASSUME NEW j \in Jobs, PP!LifeAt(j), UNCHANGED <<PP!RowStatus, PP!RowTries>>,
           pc'[j] = pc[j], part'[j] = part[j], local'[j] = local[j], mem'[j] = mem[j], swaps'[j] = swaps[j]
    PROVE  PP!LifeAt(j)'
BY DEF PP!LifeAt

\* An order that the API stores was pending before, as it is afterwards
\* (routes/orders.ts:29-48).
LEMMA StoredUnseen ==
    ASSUME EngineInv, FinalInv, SharedDb, P!SoleWriter, NEW o \in Orders, PostSave(o)
    PROVE  UNCHANGED <<PP!RowStatus, PP!RowTries, PP!Executed>>
<1>1. row[o] = PP!NoRow /\ UNCHANGED swaps
    BY SameRows DEF PostSave, FinalInv
<1>2. row' = row \/ row' = [row EXCEPT ![o] = PP!FreshOrder]
    BY SameRows DEF PostSave, Stored
<1>3. PP!FreshOrder.status = "pending" /\ PP!FreshOrder.attempts = 0
    BY DEF PP!FreshOrder
<1>4. PP!Executed' = PP!Executed
    BY <1>1 DEF PP!Executed
<1>5. row \in [Orders -> PP!Entities \union {PP!NoRow}]
    BY DEF EngineInv, DataInv, PP!TypeOK
<1>6. PP!RowStatus' = PP!RowStatus /\ PP!RowTries' = PP!RowTries
    BY <1>1, <1>2, <1>3, <1>5 DEF PP!RowStatus, PP!RowTries
<1> QED
    BY <1>4, <1>6

\* A step of a call that runs keeps its row and entity in line, and the others'.
LEMMA CallLife ==
    ASSUME EngineInv, EngineLife, [Next]_vars, SharedDb, P!SoleWriter, ~DbMayFail,
           NEW j \in Jobs, PP!Start(j) \/ PP!Step(j), Pending(j)
    PROVE  EngineLife'
<1> USE DEF EngineInv, DataInv
<1>1. PP!LifeAt(j)'
    BY Assumptions, PP!StepLife DEF EngineLife
<1>2. ASSUME NEW i \in Jobs \ {j}, Pending(i)' PROVE PP!LifeAt(i)'
    <2>1. Pending(i)
        BY <1>2, PendingBefore
    <2> QED
        BY <2>1, Assumptions, SameRows, PP!OthersLife DEF EngineLife
<1> QED
    BY <1>1, <1>2 DEF EngineLife

\* Every step of the engine keeps the calls that go on in line with their rows.
LEMMA NextEngineLife ==
    ASSUME EngineInv, FinalInv, EngineLife, [Next]_vars
    PROVE  EngineLife'
<1> SUFFICES ASSUME SharedDb, P!SoleWriter, ~DbMayFail PROVE EngineLife'
    BY DEF EngineLife, P!SoleWriter
<1> USE DEF EngineInv
<1>1. ASSUME NEW w \in Workers, NEW j \in Jobs, Begin(w, j) PROVE EngineLife'
    <2>1. Pending(j)
        BY <1>1 DEF Begin, Q!Begin, NotBegun, Pending
    <2> QED
        BY <1>1, <2>1, BeginStarts, CallLife
<1>2. ASSUME NEW w \in Workers, NEW j \in Jobs, Process(w, j) PROVE EngineLife'
    BY <1>2, SameStep, CallLife DEF Process, Pending
<1>3. CASE UNCHANGED procVars
    <2>1. UNCHANGED <<PP!RowStatus, PP!RowTries>>
        BY <1>3 DEF procVars, PP!RowStatus, PP!RowTries
    <2> QED
        BY <1>3, <2>1, PendingBefore, LifeReads DEF procVars, EngineLife
<1>4. ASSUME NEW o \in Orders, PostSave(o) PROVE EngineLife'
    <2>1. UNCHANGED <<PP!RowStatus, PP!RowTries>> /\ UNCHANGED <<pc, part, local, mem, swaps>>
        BY <1>4, StoredUnseen DEF PostSave
    <2> QED
        BY <2>1, PendingBefore, LifeReads DEF EngineLife
<1>5. ASSUME NEW w \in Workers, Exit(w) \/ Crash(w) PROVE EngineLife'
    <2>1. UNCHANGED <<local, mem, row, swaps>>
        BY <1>5 DEF Exit, Crash, Gone
    <2>2. UNCHANGED <<PP!RowStatus, PP!RowTries>>
        BY <2>1 DEF PP!RowStatus, PP!RowTries
    <2> QED
        BY <1>5, <2>1, <2>2, PendingBefore, GoneLeaves, LifeReads DEF EngineLife
<1> QED
    BY <1>1, <1>2, <1>3, <1>4, <1>5
       DEF Next, vars, PostEnqueue, PostResend, PostAnswer, PostRefused, Fetch, FetchLost, NoJob,
           Close, Restart, Drop, Return, Throw, LoseLock, Idle

\* Every step of the engine is a step of the lifecycle of some order, or is not seen there.
LEMMA EngineSteps ==
    ASSUME EngineInv, FinalInv, EngineLife, [Next]_vars, SharedDb, P!SoleWriter, ~DbMayFail
    PROVE  [PP!Lifecycle!Next]_(PP!Lifecycle!vars)
<1> USE DEF EngineInv, DataInv
<1>1. CASE UNCHANGED <<row, swaps>>
    BY <1>1, Assumptions, PP!Invisible
<1>2. ASSUME NEW o \in Orders, PostSave(o) PROVE UNCHANGED PP!Lifecycle!vars
    BY <1>2, StoredUnseen DEF PP!Lifecycle!vars
<1>3. ASSUME NEW w \in Workers, NEW j \in Jobs, Process(w, j)
      PROVE  [PP!Lifecycle!Next]_(PP!Lifecycle!vars)
    <2>1. PP!Step(j) /\ PP!LifeAt(j) /\ PP!SwapAt(j)
        BY <1>3, SameStep DEF Process, Pending, EngineLife, CallsInv
    <2> QED
        BY <2>1, Assumptions, SameRows, PP!StepImplements
<1> QED
    BY <1>1, <1>2, <1>3
       DEF Next, vars, procVars, PostEnqueue, PostResend, PostAnswer, PostRefused, Fetch,
           FetchLost, NoJob, Close, Exit, Crash, Gone, Restart, Drop, Begin, P!Call, Return,
           Throw, LoseLock, Idle

\* No job is begun at first, and no order recorded.
LEMMA InitEngineLife == Init => EngineLife /\ P!Lifecycle!Init
<1> SUFFICES ASSUME Init PROVE EngineLife /\ PP!Lifecycle!Init
    BY SameLifecycle
<1>1. PP!LifeInv /\ PP!Lifecycle!Init
    BY Assumptions, SameInit, PP!InitLife DEF Init
<1> QED
    BY <1>1 DEF PP!LifeInv, EngineLife

-----------------------------------------------------------------------------
(* The inductive invariant and the theorems. *)

\* Nothing is queued, begun or requested at first.
LEMMA InitEngine == Init => EngineInv /\ AnswersInv /\ FinalInv /\ RecordInv
<1> SUFFICES ASSUME Init PROVE EngineInv /\ AnswersInv /\ FinalInv /\ RecordInv
    OBVIOUS
<1>1. PP!IInv
    BY SameInit, Assumptions, PP!InitIInv DEF Init
<1>2. QP!IInv
    BY SameQueueInit, Assumptions, QP!InitInv DEF Init
<1>3. \A j \in Jobs : /\ pc[j] = "idle" /\ swaps[j] = 0 /\ place[j] = "new"
    BY DEF Init, P!Init, Q!Init
<1>4. CallsInv
    BY <1>3 DEF CallsInv, PP!SwapAt
<1>5. RequestInv /\ ApiTypes
    BY <1>3 DEF Init, RequestInv, ApiTypes
<1>6. AnswersInv
    BY <1>3, IdleAnswers DEF AnswersInv
<1>7. FinalInv
    <2>1. \A o \in Orders : row[o] = P!NoRow
        BY DEF Init
    <2> QED
        BY <1>3, <2>1, IdleFinal, NoVerdictYet, ComponentAssumption DEF FinalInv
<1>8. RecordInv
    <2>1. \A o \in Orders : row[o] = P!NoRow /\ request[o] = "none"
        BY DEF Init
    <2> QED
        BY <1>3, <2>1, ComponentAssumption DEF RecordInv, PP!TraceAt
<1> QED
    BY <1>1, <1>2, <1>4, <1>5, <1>6, <1>7, <1>8 DEF EngineInv, DataInv, PP!IInv

\* Every step of the engine keeps the inductive invariant.
LEMMA NextEngine ==
    EngineInv /\ AnswersInv /\ FinalInv /\ RecordInv /\ [Next]_vars
      => EngineInv' /\ AnswersInv' /\ FinalInv' /\ RecordInv'
<1> SUFFICES ASSUME EngineInv, AnswersInv, FinalInv, RecordInv, [Next]_vars
             PROVE  EngineInv' /\ AnswersInv' /\ FinalInv' /\ RecordInv'
    OBVIOUS
<1>1. QP!IInv'
    BY NextQueue DEF EngineInv
<1>2. EngineInv'
    BY <1>1, NextData, NextCalls, NextRequest DEF EngineInv
<1> QED
    BY <1>2, NextAnswers, NextFinal, NextRecord

\* The inductive invariant holds in every run of the engine.
LEMMA EngineAlways == Spec => [](EngineInv /\ AnswersInv /\ FinalInv /\ RecordInv)
BY InitEngine, NextEngine, PTL DEF Spec

\* API, queue, workers and calls keep the types of their variables together.
THEOREM TypeCorrect == Spec => []TypeOK
<1>1. EngineInv => TypeOK
    BY SameTypes, SameQueueTypes DEF EngineInv, DataInv, QP!IInv, ApiTypes, TypeOK
<1> QED
    BY <1>1, EngineAlways, PTL

\* The engine implements the queue: whatever is proved of BullQueue's steps holds of the
\* queue within the engine (queue/index.ts, queue/worker.ts:302-375).
THEOREM ImplementsQueue == Spec => Q!Init /\ [][Q!Next]_(Q!vars)
<1>1. Init => Q!Init
    BY DEF Init
<1> QED
    BY <1>1, QueueSteps, PTL DEF Spec

\* No job executes two swaps, over crashes, restarts, shutdowns, lost locks and replies
\* and resent commands, for any numbers of orders, jobs, workers and attempts.
THEOREM NoSecondSwap == Spec => []OneSwapPerJob
<1>1. EngineInv => OneSwapPerJob
    BY DEF EngineInv, CallsInv, OneSwapPerJob, P!SwapOnce
<1> QED
    BY <1>1, EngineAlways, PTL

\* The database never claims an execution that did not happen, although crashes end
\* calls anywhere, duplicates overwrite each other and tables are lost.
THEOREM RowsStayTrue == Spec => []RowsAreTrue
<1>1. EngineInv => RowsAreTrue
    BY SameClaims, Assumptions, PP!TrueRows DEF EngineInv, DataInv, RowsAreTrue
<1> QED
    BY <1>1, EngineAlways, PTL

\* An order that the API refused is not executed (routes/orders.ts:52-69).
THEOREM RefusedStaysOut == Spec => []RefusedNeverExecutes
<1>1. EngineInv => RefusedNeverExecutes
    BY DEF EngineInv, RequestInv, CallsInv, NotBegun, RefusedNeverExecutes
<1> QED
    BY <1>1, EngineAlways, PTL

\* A completed job's order has its verdict in the database, and the right one.
THEOREM CompletedIsAnswered == Spec => []CompletedHasVerdict
<1>1. AnswersInv => CompletedHasVerdict
    BY SameRows DEF AnswersInv, PP!RowAt, CompletedHasVerdict, Verdicts
<1> QED
    BY <1>1, EngineAlways, PTL

\* A swap that was executed is on record in the database, wherever a crash or a failing
\* save ended the call, for any numbers of orders, jobs, workers and attempts.
THEOREM SwapsAreOnRecord == Spec => []SwapsLeaveTrace
<1>1. RecordInv => SwapsLeaveTrace
    BY SameRows DEF RecordInv, PP!TraceAt, PP!Sent, SwapsLeaveTrace, Verdicts
<1> QED
    BY <1>1, EngineAlways, PTL

\* Both ranks put two statuses of an order in the same order.
LEMMA SameRank ==
    ASSUME NEW s \in P!Statuses, NEW t \in P!Statuses, PP!Rank(s) <= PP!Rank(t)
    PROVE  Rank(s) <= Rank(t)
BY DEF P!Statuses, PP!Rank, Rank

\* The status that GET /status shows moves forward only, whatever crashes, restarts,
\* closes or loses locks, and a verdict stays, but for a confirmed order that a failing
\* database turns into a failed one (worker.ts:187, 225).
THEOREM StatusNeverReturns == Spec => StatusMovesForward
<1> DEFINE Forward(o) == StatusShown(o) # P!NoRow =>
            /\ StatusShown(o)' # P!NoRow
            /\ Rank(StatusShown(o).status) <= Rank(StatusShown(o)'.status)
            /\ StatusShown(o).status = "confirmed" =>
                  StatusShown(o)'.status = "confirmed" \/ DbMayFail
           Forwards == SharedDb /\ P!SoleWriter => \A o \in Orders : Forward(o)
<1>1. ASSUME EngineInv, AnswersInv, FinalInv, RecordInv, [Next]_vars, SharedDb, P!SoleWriter,
             NEW o \in Orders, row[o] # P!NoRow
      PROVE  /\ PP!Rank(row[o].status) <= PP!Rank(row'[o].status)
             /\ row[o].status = "confirmed" => row'[o].status = "confirmed" \/ DbMayFail
    <2> USE DEF EngineInv, DataInv
    <2>0. PP!Rank(row[o].status) \in 0..5
        BY Assumptions, PP!RankRange
    <2>1. CASE row'[o] = row[o]
        BY <2>0, <2>1
    <2>2. ASSUME NEW q \in Orders, PostSave(q) PROVE row'[o] = row[o]
        <3>1. q # o
            BY <1>1, <2>2 DEF PostSave, FinalInv
        <3> QED
            BY <1>1, <2>2, <3>1 DEF PostSave, Stored, PP!TypeOK
    <2>3. ASSUME NEW w \in Workers, NEW j \in Jobs, Process(w, j), OrderOf[j] = o
          PROVE  /\ PP!Rank(row[o].status) <= PP!Rank(row'[o].status)
                 /\ row[o].status = "confirmed" => row'[o].status = "confirmed" \/ DbMayFail
        <3>1. PP!Step(j) /\ place[j] # "new" /\ Pending(j)
            BY <1>1, <2>3, SameStep, Holding DEF Process, Pending
        <3>2. PP!EntityAt(j) /\ PP!OpenAt(j) /\ PP!FinalAt(j) /\ PP!RankAt(j)
            BY <1>1, <3>1 DEF AnswersInv, FinalInv, RecordInv
        <3>3. PP!Rank(row[OrderOf[j]].status) <= PP!Rank(row'[OrderOf[j]].status)
            BY <1>1, <3>1, <3>2, Assumptions, PP!StepRank
        <3>4. row[OrderOf[j]].status = "confirmed" =>
                  row'[OrderOf[j]].status = "confirmed" \/ DbMayFail
            BY <1>1, <3>1, <3>2, Assumptions, PP!VerdictStays DEF PP!Verdicts
        <3> QED
            BY <2>3, <3>3, <3>4
    <2>4. ASSUME NEW w \in Workers, NEW j \in Jobs, Process(w, j), OrderOf[j] # o PROVE row'[o] = row[o]
        <3>1. PP!Step(j) /\ PP!TypeOK /\ o \in Orders \ {OrderOf[j]}
            BY <1>1, <2>4, SameStep DEF Process
        <3> QED
            BY <3>1, Assumptions, PP!StepFrame
    <2>5. ASSUME NEW w \in Workers, Exit(w) \/ Crash(w) PROVE row' = row
        BY <1>1, <2>5 DEF Exit, Crash, Gone
    <2>6. ASSUME NEW w \in Workers, NEW j \in Jobs, Begin(w, j) PROVE row' = row
        BY <2>6 DEF Begin, P!Call
    <2> QED
        BY <1>1, <2>1, <2>2, <2>3, <2>4, <2>5, <2>6
           DEF Next, vars, procVars, PostEnqueue, PostResend, PostAnswer, PostRefused, Fetch,
               FetchLost, NoJob, Close, Restart, Drop, Return, Throw, LoseLock, Idle
<1>2. ASSUME EngineInv, EngineInv', AnswersInv, FinalInv, RecordInv, [Next]_vars, SharedDb, P!SoleWriter,
             NEW o \in Orders
      PROVE  Forward(o)
    <2> SUFFICES ASSUME row[o] # P!NoRow
                 PROVE  /\ row'[o] # P!NoRow
                        /\ Rank(row[o].status) <= Rank(row'[o].status)
                        /\ row[o].status = "confirmed" => row'[o].status = "confirmed" \/ DbMayFail
        BY <1>2 DEF StatusShown
    <2>1. row'[o] # P!NoRow
        BY <1>2, RowsRemain
    <2>2. row[o].status \in P!Statuses /\ row'[o].status \in P!Statuses
        BY <1>2, <2>1, SameRows DEF EngineInv, DataInv, PP!TypeOK, P!Entities
    <2> QED
        BY <1>1, <1>2, <2>1, <2>2, SameRank
<1>3. EngineInv /\ EngineInv' /\ AnswersInv /\ FinalInv /\ RecordInv /\ [Next]_vars => [Forwards]_vars
    BY <1>2
<1> QED
    BY <1>3, EngineAlways, PTL DEF Spec, StatusMovesForward

\* The engine keeps the promise of OrderLifecycle: for orders with one job in a shared
\* database that answers, nothing that API, queue and workers go through (crashes,
\* restarts, shutdowns, lost locks and replies, refusals) makes an order move but as its
\* lifecycle says (worker.ts:36-375, routes/orders.ts:15-101).
THEOREM ImplementsLifecycleSteps ==
    ASSUME SharedDb, P!SoleWriter, ~DbMayFail
    PROVE  Spec => P!Lifecycle!Init /\ [][P!Lifecycle!Next]_(P!Lifecycle!vars)
<1>1. EngineInv /\ AnswersInv /\ FinalInv /\ EngineLife /\ [Next]_vars
         => EngineLife' /\ [P!Lifecycle!Next]_(P!Lifecycle!vars)
    BY NextEngineLife, EngineSteps, SameLifecycle
<1> QED
    BY <1>1, InitEngineLife, EngineAlways, PTL DEF Spec

=============================================================================
