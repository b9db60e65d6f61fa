----------------------------- MODULE OrderEngine -----------------------------
(***************************************************************************)
(* The engine from POST /api/orders/execute to the verdict: the API        *)
(* handler (src/routes/orders.ts), the queue and its worker processes      *)
(* (BullQueue) and processOrder (OrderProcessor), composed.                *)
(*                                                                         *)
(* The handler saves the order and enqueues a job; a worker that begins    *)
(* the job calls processOrder; when the call ends the worker tells the     *)
(* queue.  When a worker process dies, its calls are gone.                 *)
(*                                                                         *)
(* SharedDb says whether the server and the workers have one database      *)
(* (DB_TYPE=postgres) or, the default of src/db.ts, each process its own   *)
(* ':memory:' one; in the second case row is the workers' table and        *)
(* apiRow the server's, and one worker process is assumed.                 *)
(***************************************************************************)
EXTENDS Integers, Sequences, FiniteSets

CONSTANTS
    Jobs, Orders, OrderOf, MaxAttempts, DbMayFail, RedisMayFail,
    Workers, Concurrency, Attempts,
    Faults,    \* "crash", "close", "lock", "reply" (BullQueue), "resend", "refuse" (below)
    SharedDb

VARIABLES
    pc, part, local, mem, row, progress, announced, swaps,  \* OrderProcessor
    wait, place, made, lock, hand, runs, processing, life,  \* BullQueue
    request,  \* request[o]: how far POST /execute of order o is, or its answer
    apiRow    \* the server's own orders table, when it has one

P == INSTANCE OrderProcessor
Q == INSTANCE BullQueue

procVars  == <<pc, part, local, mem, row, progress, announced, swaps>>
queueVars == <<wait, place, made, lock, hand, runs, processing, life>>
apiVars   == <<request, apiRow>>
vars == <<procVars, queueVars, apiVars>>

ASSUME ComponentAssumption ==
    /\ OrderOf \in [Jobs -> Orders] /\ MaxAttempts \in Nat \ {0}
    /\ DbMayFail \in BOOLEAN /\ RedisMayFail \in BOOLEAN
    /\ Concurrency \in Nat \ {0} /\ Attempts \in Nat \ {0, 1}

ASSUME SharedAssumption ==
    /\ SharedDb \in BOOLEAN
    /\ Faults \subseteq {"crash", "close", "lock", "reply", "resend", "refuse"}
    /\ ~SharedDb => Cardinality(Workers) = 1

Init ==
    /\ P!Init /\ row = [o \in Orders |-> P!NoRow]
    /\ Q!Init
    /\ request = [o \in Orders |-> "none"]
    /\ apiRow = [o \in Orders |-> P!NoRow]

-----------------------------------------------------------------------------
(* POST /api/orders/execute *)

Stored(o) ==
    IF SharedDb
    THEN row' = [row EXCEPT ![o] = P!FreshOrder] /\ UNCHANGED apiRow
    ELSE apiRow' = [apiRow EXCEPT ![o] = P!FreshOrder] /\ UNCHANGED row

\* The order is created and saved with a fresh id; an error answers 500.
PostSave(o) ==
    /\ request[o] = "none"
    /\ \/ Stored(o) /\ request' = [request EXCEPT ![o] = "saved"]
       \/ /\ DbMayFail
          /\ Stored(o) \/ UNCHANGED <<row, apiRow>>
          /\ request' = [request EXCEPT ![o] = "500"]
    /\ UNCHANGED <<pc, part, local, mem, progress, announced, swaps, queueVars>>

\* enqueueOrder: Redis adds the job; a worker may see it before the handler goes on.
PostEnqueue(o) ==
    /\ request[o] = "saved"
    /\ \E j \in Jobs : OrderOf[j] = o /\ Q!Add(j)
    /\ request' = [request EXCEPT ![o] = "queued"]
    /\ UNCHANGED <<procVars, apiRow>>

\* The connection breaks before the reply: ioredis sends the command again on the
\* next connection, which adds another job (no jobId is given).
PostResend(o) ==
    /\ "resend" \in Faults /\ request[o] = "queued"
    /\ \E j \in Jobs : OrderOf[j] = o /\ place[j] = "new"
    /\ request' = [request EXCEPT ![o] = "saved"]
    /\ UNCHANGED <<procVars, queueVars, apiRow>>

\* Mutant of PostAnswer: the handler does not await enqueueOrder.
PostAnswerEarly(o) ==
    /\ request[o] \in {"saved", "queued"}
    /\ request' = [request EXCEPT ![o] = "201"]
    /\ UNCHANGED <<procVars, queueVars, apiRow>>

PostAnswer(o) ==
    /\ request[o] = "queued"
    /\ request' = [request EXCEPT ![o] = "201"]
    /\ UNCHANGED <<procVars, queueVars, apiRow>>

\* Mutant of PostRefused: the refusal is believed after the job was added.
PostRefusedLate(o) ==
    /\ "refuse" \in Faults /\ request[o] \in {"saved", "queued"}
    /\ request' = [request EXCEPT ![o] = "503"]
    /\ UNCHANGED <<procVars, queueVars, apiRow>>

\* Redis refuses the command: enqueueOrder throws, and the answer is 503.
PostRefused(o) ==
    /\ "refuse" \in Faults /\ request[o] = "saved"
    /\ request' = [request EXCEPT ![o] = "503"]
    /\ UNCHANGED <<procVars, queueVars, apiRow>>

-----------------------------------------------------------------------------
(* The worker processes *)

Fetch(w) == Q!Fetch(w) /\ UNCHANGED <<procVars, apiVars>>
FetchLost(w) == Q!FetchLost(w) /\ UNCHANGED <<procVars, apiVars>>
NoJob(w) == Q!NoJob(w) /\ UNCHANGED <<procVars, apiVars>>
Drop(w, j) == Q!Drop(w, j) /\ UNCHANGED <<procVars, apiVars>>

\* The worker calls processOrder, for the first time or again.
Begin(w, j) == Q!Begin(w, j) /\ P!Call(j) /\ UNCHANGED apiVars

\* An await of a call in a worker that is not down is resolved.
Process(w, j) == j \in runs[w] /\ P!Step(j) /\ UNCHANGED <<queueVars, apiVars>>

\* The call ended: the job is completed, delayed, or forgotten if its lock is lost.
Return(w, j) ==
    /\ pc[j] \in {"success", "failure"}
    /\ Q!Complete(w, j) \/ Q!CompleteLost(w, j) \/ Q!Forget(w, j)
    /\ UNCHANGED <<procVars, apiVars>>

Throw(w, j) ==
    /\ pc[j] = "threw" /\ (Q!Delay(w, j) \/ Q!Forget(w, j))
    /\ UNCHANGED <<procVars, apiVars>>

LoseLock(j) == Q!LoseLock(j) /\ UNCHANGED <<procVars, apiVars>>
Close(w) == Q!Close(w) /\ UNCHANGED <<procVars, apiVars>>
Restart(w) == Q!Restart(w) /\ UNCHANGED <<procVars, apiVars>>

\* A process that ends takes its calls with it, and its database if that is ':memory:'.
Gone(w) ==
    /\ pc' = [j \in Jobs |-> IF j \in runs[w] THEN "idle" ELSE pc[j]]
    /\ part' = [j \in Jobs |-> IF j \in runs[w] THEN "save" ELSE part[j]]
    /\ row' = IF SharedDb THEN row ELSE [o \in Orders |-> P!NoRow]
    /\ UNCHANGED <<local, mem, progress, announced, swaps, apiVars>>

Exit(w) == Q!Exit(w) /\ Gone(w)
Crash(w) == Q!Crash(w) /\ Gone(w)

Answered == {"201", "500", "503"}

\* Every request is answered, and no job will be touched again.
Idle ==
    /\ \A o \in Orders : request[o] \in Answered
    /\ \A j \in Jobs : place[j] # "wait" /\ ~Q!Held(j)
    /\ UNCHANGED vars

Next ==
    \/ \E o \in Orders : PostSave(o) \/ PostEnqueue(o) \/ PostResend(o) \/ PostAnswer(o)
                       \/ PostRefused(o)
    \/ \E w \in Workers : Fetch(w) \/ FetchLost(w) \/ NoJob(w)
                        \/ Close(w) \/ Exit(w) \/ Crash(w) \/ Restart(w)
    \/ \E w \in Workers, j \in Jobs :
          Drop(w, j) \/ Begin(w, j) \/ Process(w, j) \/ Return(w, j) \/ Throw(w, j)
    \/ \E j \in Jobs : LoseLock(j)
    \/ Idle

\* Handlers and workers that are up go on, and a process that went down is
\* restarted by whoever runs it (the operator, README_PRODUCTION.md:1514).
Fairness ==
    /\ \A o \in Orders : /\ WF_vars(PostSave(o)) /\ WF_vars(PostEnqueue(o) \/ PostRefused(o))
                         /\ WF_vars(PostAnswer(o))
    /\ \A w \in Workers :
        /\ WF_vars(Fetch(w) \/ NoJob(w)) /\ WF_vars(Restart(w))
        /\ \A j \in Jobs : WF_vars(Begin(w, j)) /\ WF_vars(Process(w, j))
                           /\ WF_vars(Return(w, j) \/ Throw(w, j))

Spec == Init /\ [][Next]_vars /\ Fairness

-----------------------------------------------------------------------------
(* What the engine promises. *)

Verdicts == {"confirmed", "failed"}

\* What GET /api/orders/status/:orderId answers from.
StatusShown(o) == IF SharedDb THEN row[o] ELSE apiRow[o]

TypeOK ==
    /\ P!TypeOK /\ Q!TypeOK
    /\ request \in [Orders -> {"none", "saved", "queued"} \union Answered]
    /\ apiRow \in [Orders -> P!Entities \union {P!NoRow}]

\* Each enqueued job executes at most one swap, over crashes, restarts, shutdowns,
\* lost locks and resent commands: the queue never calls processOrder again for a
\* job, and one call executes one swap.
OneSwapPerJob == P!SwapOnce

\* With duplicate jobs, crashes in the middle of a call and restarts, the database
\* never claims an execution that did not happen.
RowsAreTrue == P!ConfirmedIsExecuted

\* A client that was refused (500, 503) has no order that executes behind its back,
\* unless the enqueue was resent.
RefusedNeverExecutes ==
    "resend" \notin Faults => \A j \in Jobs :
        request[OrderOf[j]] \in {"none", "saved", "500", "503"} => place[j] = "new" /\ swaps[j] = 0

\* A job is completed in the queue only when the verdict of its order is in the
\* database, and the verdict is confirmed exactly if the call returned success; a
\* crash between the last save and moveToCompleted leaves the job active instead.
CompletedHasVerdict ==
    SharedDb /\ P!SoleWriter => \A j \in Jobs : place[j] = "completed" =>
        /\ row[OrderOf[j]].status \in Verdicts
        /\ row[OrderOf[j]].status = "confirmed" <=> pc[j] = "success"

\* A swap that was executed has left its trace in the database, wherever a crash, a
\* shutdown or a failing save ended the call: the order is submitted or decided, with its
\* quotes and an attempt on record (worker.ts:125-171).
SwapsLeaveTrace ==
    SharedDb /\ P!SoleWriter => \A j \in Jobs : swaps[j] > 0 =>
        LET r == row[OrderOf[j]] IN
        /\ r # P!NoRow /\ r.status \in {"submitted"} \union Verdicts
        /\ r.attempts >= 1 /\ r.quotes

Rank(status) ==
    CASE status = "pending"   -> 0
      [] status = "routing"   -> 1
      [] status = "building"  -> 2
      [] status = "submitted" -> 3
      [] status = "confirmed" -> 4
      [] OTHER                -> 5

\* The status that GET /status shows of an order with one job moves forward only, and a
\* verdict stays: no crash, restart, shutdown or lost lock sends the order back.  Only a
\* database that fails after the swap turns confirmed into failed (worker.ts:187, 225).
StatusMovesForward ==
    [][SharedDb /\ P!SoleWriter =>
         \A o \in Orders : StatusShown(o) # P!NoRow =>
            /\ StatusShown(o)' # P!NoRow
            /\ Rank(StatusShown(o).status) <= Rank(StatusShown(o)'.status)
            /\ StatusShown(o).status = "confirmed" =>
                  StatusShown(o)'.status = "confirmed" \/ DbMayFail]_vars

\* An order that was accepted gets its verdict in the table of the workers, as long as
\* these neither die nor close: lost locks, refused requests and duplicate jobs that
\* overwrite each other's row do not matter.
AcceptedGetVerdict ==
    [](\A w \in Workers : life[w] = "up") =>
    \A o \in Orders : request[o] = "201" ~> row[o] # P!NoRow /\ row[o].status \in Verdicts

=============================================================================
