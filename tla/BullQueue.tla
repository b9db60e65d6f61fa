------------------------------ MODULE BullQueue ------------------------------
(***************************************************************************)
(* The BullMQ 1.91 queue 'orders' and the worker processes that serve it,  *)
(* as src/queue/index.ts and src/queue/worker.ts configure them: lists and *)
(* sets in Redis, a lock per active job, and per worker process the jobs   *)
(* in its hands.                                                           *)
(*                                                                         *)
(* In this version of BullMQ, promoting delayed jobs and returning stalled *)
(* jobs to the wait list is the work of a QueueScheduler, which this       *)
(* repository never creates; so no action here moves a job out of          *)
(* "delayed", or out of "active" other than its holder.                    *)
(*                                                                         *)
(* Each Lua script is one action.  What the processor does with a job is   *)
(* left open here; OrderEngine says when a run completes or throws.        *)
(***************************************************************************)
EXTENDS Integers, Sequences, FiniteSets

CONSTANTS
    Jobs, Workers,
    Concurrency,  \* concurrency of the Worker, 10 in the code
    Attempts,     \* attempts of the job options, 3 in the code
    Faults        \* which of "crash", "close", "lock" and "reply" may happen

ASSUME ConcurrencyAssumption == Concurrency \in Nat \ {0}
ASSUME JobAttemptsAssumption == Attempts \in Nat \ {0, 1}

VARIABLES
    wait,   \* the wait list, oldest job first
    place,  \* place[j]: the Redis structure that holds job j
    made,   \* made[j]: attemptsMade, counted when the job becomes active
    lock,   \* lock[j]: the worker whose token is in the job's lock, or NoWorker
    hand,   \* hand[w]: jobs moved to active for w, not yet given to processJob
    runs,   \* runs[w]: jobs whose processor is running in w
    processing,  \* processing[w]: the size of the run loop's map of promises: a getNextJob
                 \* or processJob each, so that the difference to w's jobs are getNextJobs
    life    \* life[w]: "up", "closing" (worker.close was called) or "down"

vars == <<wait, place, made, lock, hand, runs, processing, life>>

NoWorker == "none"
Places == {"new", "wait", "active", "delayed", "completed"}

Init ==
    /\ wait = <<>>
    /\ place = [j \in Jobs |-> "new"]
    /\ made = [j \in Jobs |-> 0]
    /\ lock = [j \in Jobs |-> NoWorker]
    /\ hand = [w \in Workers |-> {}]
    /\ runs = [w \in Workers |-> {}]
    /\ processing = [w \in Workers |-> 1]
    /\ life = [w \in Workers |-> "up"]

Held(j) == \E w \in Workers : j \in hand[w] \union runs[w]

\* Queue.add without a jobId: a new job at the end of the wait list.
Add(j) ==
    /\ place[j] = "new"
    /\ place' = [place EXCEPT ![j] = "wait"]
    /\ wait' = Append(wait, j)
    /\ UNCHANGED <<made, lock, hand, runs, processing, life>>

\* moveJobFromWaitToActive, once job j is done as place p says (or with no job done):
\* the oldest waiting job becomes active.
ToActive(p) ==
    /\ wait # <<>>
    /\ wait' = Tail(wait)
    /\ place' = [p EXCEPT ![Head(wait)] = "active"]
    /\ made' = [made EXCEPT ![Head(wait)] = @ + 1]

\* Worker w is handed the job at the head of the wait list.
Receives(w) == hand' = [hand EXCEPT ![w] = @ \union {Head(wait)}]

\* A promise of w's run loop is settled without a job: the loop replaces it by a call of
\* getNextJob, unless the worker is closing.
Settled(w) == processing' = IF life[w] = "up" THEN processing ELSE [processing EXCEPT ![w] = @ - 1]

\* Some call of getNextJob in w is open.
Asks(w) == life[w] # "down" /\ Cardinality(hand[w] \union runs[w]) < processing[w]

\* Mutant of Fetch: the run loop asks for one job too many.
FetchOneMore(w) ==
    /\ life[w] # "down" /\ Cardinality(hand[w] \union runs[w]) <= processing[w]
    /\ ToActive(place) /\ Receives(w)
    /\ lock' = [lock EXCEPT ![Head(wait)] = w]
    /\ UNCHANGED <<runs, processing, life>>

\* Redis gives a job to an open getNextJob.  The worker may be closing by then: getNextJob
\* looks at closing only when it starts, and when close() breaks off its BRPOPLPUSH it
\* goes on to moveToActive, which takes any waiting job.
Fetch(w) ==
    /\ Asks(w)
    /\ ToActive(place) /\ Receives(w)
    /\ lock' = [lock EXCEPT ![Head(wait)] = w]
    /\ UNCHANGED <<runs, processing, life>>

\* The reply to a fetch is lost with the connection and ioredis sends the command
\* again: the job of the first one is active, in nobody's hands.  (After BRPOPLPUSH it
\* is neither locked nor counted, which no later step tells apart.)
FetchLost(w) ==
    /\ "reply" \in Faults /\ Asks(w)
    /\ ToActive(place)
    /\ lock' = [lock EXCEPT ![Head(wait)] = w]
    /\ UNCHANGED <<hand, runs, processing, life>>

\* A getNextJob of a closing worker returns without a job: there was none when its script
\* ran, maybe before the one that waits now was added.  (While the worker is up, the loop
\* calls getNextJob anew: no step.)
NoJob(w) ==
    /\ life[w] = "closing" /\ Asks(w) /\ Settled(w)
    /\ UNCHANGED <<wait, place, made, lock, hand, runs, life>>

\* processJob: the processor is called, and the loop asks for one more job while its map
\* has room.
Begin(w, j) ==
    /\ j \in hand[w] /\ life[w] = "up"
    /\ hand' = [hand EXCEPT ![w] = @ \ {j}]
    /\ runs' = [runs EXCEPT ![w] = @ \union {j}]
    /\ processing' = [processing EXCEPT ![w] = IF @ < Concurrency THEN @ + 1 ELSE @]
    /\ UNCHANGED <<wait, place, made, lock, life>>

\* Mutant of Drop: the run loop does not look at closing and asks for the next job.
DropAsksAgain(w, j) ==
    /\ j \in hand[w] /\ life[w] = "closing"
    /\ hand' = [hand EXCEPT ![w] = @ \ {j}]
    /\ UNCHANGED <<wait, place, made, lock, runs, processing, life>>

\* processJob of a closing worker returns at once: the job stays in the active list.
Drop(w, j) ==
    /\ j \in hand[w] /\ life[w] = "closing" /\ Settled(w)
    /\ hand' = [hand EXCEPT ![w] = @ \ {j}]
    /\ UNCHANGED <<wait, place, made, lock, runs, life>>

Completed(j) == [place EXCEPT ![j] = "completed"]

\* moveToFinished after the processor returned.
Finish(w, j) ==
    /\ j \in runs[w] /\ lock[j] = w
    /\ runs' = [runs EXCEPT ![w] = @ \ {j}]
    /\ UNCHANGED life

\* With fetchNext it moves the next job to active, too.  A closing worker does not ask for
\* that, but the command may have been sent before.
FinishNext(w, j) ==
    /\ Finish(w, j) /\ ToActive(Completed(j))
    /\ lock' = [lock EXCEPT ![j] = NoWorker, ![Head(wait)] = w]

FinishLast(w, j) ==
    /\ Finish(w, j) /\ (life[w] = "closing" \/ wait = <<>>)
    /\ place' = Completed(j)
    /\ lock' = [lock EXCEPT ![j] = NoWorker]
    /\ UNCHANGED <<wait, made>>

\* The script's answer hands the worker its next job.
Complete(w, j) ==
    \/ FinishNext(w, j) /\ Receives(w) /\ UNCHANGED processing
    \/ FinishLast(w, j) /\ UNCHANGED hand /\ Settled(w)

\* Mutant of CompleteLost: the worker starts over with the job it forgot.
CompleteLostRetries(w, j) ==
    /\ "reply" \in Faults /\ (FinishNext(w, j) \/ FinishLast(w, j))
    /\ hand' = [hand EXCEPT ![w] = @ \union {j}] /\ UNCHANGED processing

\* The answer is lost and the script runs again: it answers -2, for the lock is gone,
\* and the worker forgets the completed job; it never hears of the next one, which is
\* active and locked for it.
CompleteLost(w, j) ==
    /\ "reply" \in Faults /\ (FinishNext(w, j) \/ FinishLast(w, j))
    /\ UNCHANGED hand /\ Settled(w)

\* Mutants of Delay: the job goes to the failed set; it goes back to the wait list.
DelayFails(w, j) ==
    /\ j \in runs[w] /\ lock[j] = w
    /\ runs' = [runs EXCEPT ![w] = @ \ {j}]
    /\ place' = [place EXCEPT ![j] = "failed"]
    /\ lock' = [lock EXCEPT ![j] = NoWorker]
    /\ Settled(w) /\ UNCHANGED <<wait, made, hand, life>>
DelayRetries(w, j) ==
    /\ j \in runs[w] /\ lock[j] = w /\ made[j] < Attempts
    /\ runs' = [runs EXCEPT ![w] = @ \ {j}]
    /\ place' = [place EXCEPT ![j] = "wait"] /\ wait' = Append(wait, j)
    /\ lock' = [lock EXCEPT ![j] = NoWorker]
    /\ Settled(w) /\ UNCHANGED <<made, hand, life>>

\* moveToDelayed after the processor threw: attemptsMade < attempts, and the
\* exponential backoff is never 0, so the job is always delayed.
Delay(w, j) ==
    /\ j \in runs[w] /\ lock[j] = w /\ made[j] < Attempts
    /\ runs' = [runs EXCEPT ![w] = @ \ {j}]
    /\ place' = [place EXCEPT ![j] = "delayed"]
    /\ lock' = [lock EXCEPT ![j] = NoWorker]
    /\ Settled(w) /\ UNCHANGED <<wait, made, hand, life>>

\* Mutant of Forget: the worker goes on counting the job as one that runs.
ForgetKeeps(w, j) == j \in runs[w] /\ lock[j] # w /\ UNCHANGED vars

\* The lock was lost: either script answers -2, the worker emits 'error' and
\* forgets the job, which stays in the active list.
Forget(w, j) ==
    /\ j \in runs[w] /\ lock[j] # w
    /\ runs' = [runs EXCEPT ![w] = @ \ {j}]
    /\ Settled(w) /\ UNCHANGED <<wait, place, made, lock, hand, life>>

\* Mutant of LoseLock: the job counts as stalled and is put back in the wait list.
LoseLockRequeues(j) ==
    /\ "lock" \in Faults /\ lock[j] # NoWorker
    /\ lock' = [lock EXCEPT ![j] = NoWorker]
    /\ place' = [place EXCEPT ![j] = "wait"] /\ wait' = Append(wait, j)
    /\ UNCHANGED <<made, hand, runs, processing, life>>

\* A lock that is not renewed for lockDuration expires.
LoseLock(j) ==
    /\ "lock" \in Faults /\ lock[j] # NoWorker
    /\ lock' = [lock EXCEPT ![j] = NoWorker]
    /\ UNCHANGED <<wait, place, made, hand, runs, processing, life>>

\* SIGTERM: worker.close() breaks off the blocking connection.  What BRPOPLPUSH has
\* answered is lost with it: those jobs stay active, and their getNextJob goes on.
\* (Which jobs in hand came that way is not told apart: any may be lost.)
Close(w) ==
    /\ "close" \in Faults /\ life[w] = "up"
    /\ \E lost \in SUBSET hand[w] : hand' = [hand EXCEPT ![w] = @ \ lost]
    /\ life' = [life EXCEPT ![w] = "closing"]
    /\ UNCHANGED <<wait, place, made, lock, runs, processing>>

\* close() has waited for all promises of the run loop.
Exit(w) ==
    /\ life[w] = "closing" /\ processing[w] = 0
    /\ life' = [life EXCEPT ![w] = "down"]
    /\ UNCHANGED <<wait, place, made, lock, hand, runs, processing>>

Crash(w) ==
    /\ "crash" \in Faults /\ life[w] # "down"
    /\ life' = [life EXCEPT ![w] = "down"]
    /\ hand' = [hand EXCEPT ![w] = {}]
    /\ runs' = [runs EXCEPT ![w] = {}]
    /\ processing' = [processing EXCEPT ![w] = 0]
    /\ UNCHANGED <<wait, place, made, lock>>

Restart(w) ==
    /\ life[w] = "down"
    /\ life' = [life EXCEPT ![w] = "up"]
    /\ processing' = [processing EXCEPT ![w] = 1]
    /\ UNCHANGED <<wait, place, made, lock, hand, runs>>

\* Nothing is left to do: every job is finished, or where nobody will look for it.
Idle == (\A j \in Jobs : place[j] \notin {"new", "wait"} /\ ~Held(j)) /\ UNCHANGED vars

Next ==
    \/ \E j \in Jobs : Add(j) \/ LoseLock(j)
    \/ \E w \in Workers : Fetch(w) \/ FetchLost(w) \/ NoJob(w)
                        \/ Close(w) \/ Exit(w) \/ Crash(w) \/ Restart(w)
    \/ \E w \in Workers, j \in Jobs :
          \/ Begin(w, j) \/ Drop(w, j) \/ Complete(w, j) \/ CompleteLost(w, j)
          \/ Delay(w, j) \/ Forget(w, j)
    \/ Idle

\* The run loop of an up worker keeps asking for jobs and calling processJob;
\* a processor that runs ends (CallsEnd of OrderProcessor), and what ended is told
\* to the queue.
Fairness ==
    \A w \in Workers :
        /\ WF_vars(Fetch(w) \/ NoJob(w))
        /\ \A j \in Jobs : /\ WF_vars(Begin(w, j) \/ Drop(w, j))
                           /\ WF_vars(\/ Complete(w, j) \/ CompleteLost(w, j)
                                      \/ Delay(w, j) \/ Forget(w, j))

Spec == Init /\ [][Next]_vars /\ Fairness

-----------------------------------------------------------------------------

TypeOK ==
    /\ wait \in Seq(Jobs)
    /\ place \in [Jobs -> Places]
    /\ made \in [Jobs -> Nat]
    /\ lock \in [Jobs -> Workers \union {NoWorker}]
    /\ hand \in [Workers -> SUBSET Jobs]
    /\ runs \in [Workers -> SUBSET Jobs]
    /\ processing \in [Workers -> 0..Concurrency]
    /\ life \in [Workers -> {"up", "closing", "down"}]

\* However often workers crash, close, restart, lose locks or lose replies, a job is given to a
\* processor at most once: the attempts: 3 of queue/index.ts:35 and 59 never lead
\* to a second run, so a swap cannot be repeated by the queue.
DispatchedOnce == \A j \in Jobs : made[j] <= 1

\* Every job is accounted for: the wait list holds the waiting jobs, each once; a
\* job in a worker's hands is in the active list and in the hands of one worker
\* only, either waiting for processJob or running.
Accounted ==
    /\ {wait[n] : n \in 1..Len(wait)} = {j \in Jobs : place[j] = "wait"}
    /\ \A m, n \in 1..Len(wait) : wait[m] = wait[n] => m = n
    /\ \A v, w \in Workers : \A j \in hand[v] \union runs[v] :
          /\ place[j] = "active"
          /\ j \in hand[w] \union runs[w] => v = w
          /\ ~(j \in hand[v] /\ j \in runs[v])

\* A worker never holds more jobs than its concurrency, although every completed
\* job brings the next one along.
WithinConcurrency == \A w \in Workers : Cardinality(hand[w] \union runs[w]) <= Concurrency

\* The calls of w that may still bring it a job: getNextJob's, and runs whose completion
\* may bring the next one.
Room(w) == processing[w] - Cardinality(hand[w])

\* A shutdown drains the worker: from SIGTERM on it starts no job, though it may still be
\* handed some; each of these uses up a call that was open, and no call is added, so
\* that they are no more than its concurrency; and the process ends with no job in its
\* hands (worker.ts:354-360, worker.js:131, 180-186, 276, 447).
ClosingDrains ==
    [][\A w \in Workers : life[w] # "up" =>
         /\ runs'[w] \subseteq runs[w]
         /\ life'[w] = "closing" => /\ Room(w)' <= Room(w)
                                    /\ ~(hand'[w] \subseteq hand[w]) => Room(w)' < Room(w)
         /\ life'[w] # "closing" => hand'[w] \union runs'[w] = {}]_vars

\* As long as some worker stays up in the end, and whatever crashes, closes or loses
\* locks or replies meanwhile, no job waits and no job occupies a worker for ever: a
\* lost lock or reply does not cost a slot of the concurrency.  (A job that left the
\* wait list may still be lost: see NoOrdersLost.)
Served ==
    (\E w \in Workers : <>[](life[w] = "up")) =>
        \A j \in Jobs : /\ place[j] = "wait" ~> place[j] # "wait"
                       /\ Held(j) ~> ~Held(j)

=============================================================================
