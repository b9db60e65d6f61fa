--------------------------- MODULE OrderProcessor ---------------------------
(***************************************************************************)
(* processOrder of src/queue/worker.ts: what one worker does with one job. *)
(*                                                                         *)
(* processOrder is an async function: the code between two awaits runs     *)
(* without interruption, and at every await the jobs of the same process   *)
(* (concurrency 10) and of other processes may run.  pc[j] is the await at *)
(* which the call for job j is suspended; one action resolves one await    *)
(* and runs the code up to the next one.                                   *)
(*                                                                         *)
(* The order is kept twice: mem[j] is the entity object the call holds and *)
(* mutates, row[o] the database row.  repository.save(mem[j]) writes the   *)
(* whole object, so a save takes whatever the object holds at that time.   *)
(* A save, when DbMayFail, may reject; whether the write took effect is    *)
(* then unknown (the acknowledgement of a commit can be lost).             *)
(* Redis calls (updateProgress, publish), when RedisMayFail, may fail: the *)
(* code catches and ignores those errors.                                  *)
(***************************************************************************)
EXTENDS Integers

CONSTANTS
    Jobs,         \* the queue's jobs
    Orders,       \* order ids
    OrderOf,      \* OrderOf[j]: data.orderId of job j
    MaxAttempts,  \* maxAttempts, 3 in the code
    DbMayFail,    \* may a database call reject?
    RedisMayFail  \* may a progress update or a publish be lost?

ASSUME OrderOfAssumption == OrderOf \in [Jobs -> Orders]
ASSUME AttemptsAssumption == MaxAttempts \in Nat \ {0}
ASSUME FailureAssumption == DbMayFail \in BOOLEAN /\ RedisMayFail \in BOOLEAN

VARIABLES
    pc,        \* pc[j]: the await (or, inside updateOrderStatus, the call site)
    part,      \* part[j]: which await of updateOrderStatus, "save" elsewhere
    local,     \* local[j]: the variables attempt, isTransient and quotes
    mem,       \* mem[j]: the in-memory Order entity
    row,       \* row[o]: the row of table orders
    progress,  \* progress[j]: job.progress, kept in Redis
    announced, \* announced[o]: the last message published on order:<o>
    swaps      \* swaps[j]: how many swaps the DEX has executed for job j

vars == <<pc, part, local, mem, row, progress, announced, swaps>>

Statuses == {"pending", "routing", "building", "submitted", "confirmed", "failed"}

\* A txHash names the swap that produced it: the nth one executed for the job.
Hashes == [job: Jobs, nth: Nat \ {0}]
NoHash == [job |-> "none", nth |-> 0]

Entities == [status: Statuses, attempts: 0..MaxAttempts,
             txHash: Hashes \union {NoHash}, quotes: BOOLEAN, lastError: BOOLEAN]
FreshOrder == [status |-> "pending", attempts |-> 0, txHash |-> NoHash,
               quotes |-> FALSE, lastError |-> FALSE]
NoRow == [status |-> "missing"]

Locals == [attempt: 0..MaxAttempts, transient: BOOLEAN, quotes: BOOLEAN]
FreshLocals == [attempt |-> 0, transient |-> FALSE, quotes |-> FALSE]

\* What updateProgress and publish carry.
NoticeTypes == Statuses \union {"none", "execution-failed", "retry-pending"}
Reports == [status: Statuses \union {"none"}, percent: 0..100]
Notices == [type: NoticeTypes, attempt: 0..MaxAttempts]

-----------------------------------------------------------------------------
(* The call sites of updateOrderStatus, with the status and progress each reports. *)

Sites == {"routing10", "routing30", "building50", "building70",
          "submitted", "confirmed", "failed", "unexpected"}

SiteStatus(s) ==
    CASE s \in {"routing10", "routing30"}   -> "routing"
      [] s \in {"building50", "building70"} -> "building"
      [] s \in {"failed", "unexpected"}     -> "failed"
      [] OTHER                              -> s

\* Mutants of SubmitProgress: the step is not divided by maxAttempts; it counts the
\* attempts that remain.
SubmitProgressUnscaled(attempt) == 70 + 30 * attempt
SubmitProgressRemaining(attempt) == (70 * MaxAttempts + 30 * (MaxAttempts - attempt)) \div MaxAttempts

\* Math.floor(70 + (30 / maxAttempts) * attempt)
SubmitProgress(attempt) == (70 * MaxAttempts + 30 * attempt) \div MaxAttempts

SiteProgress(s, attempt) ==
    CASE s = "routing10"  -> 10
      [] s = "routing30"  -> 30
      [] s = "building50" -> 50
      [] s = "building70" -> 70
      [] s = "submitted"  -> SubmitProgress(attempt)
      [] s = "confirmed"  -> 100
      [] OTHER            -> 0

\* The awaits of updateOrderStatus.
Parts == {"save", "progress", "publish"}

Ended == {"success", "failure", "threw"}

Points == Sites \union Ended \union
    {"idle", "find", "create", "quotes", "saveQuotes", "build", "saveAttempt",
     "swap", "saveSwap", "saveError", "pubFailed", "saveFailed", "pubRetry",
     "backoff", "saveUnexpected"}

-----------------------------------------------------------------------------
(* Moving a call from one await to the next. *)

Goto(j, p) == pc' = [pc EXCEPT ![j] = p] /\ part' = [part EXCEPT ![j] = "save"]

\* Entering updateOrderStatus at site s sets order.status before the first await.
Enter(j, s, m) ==
    /\ Goto(j, s)
    /\ mem' = [mem EXCEPT ![j] = [m EXCEPT !.status = SiteStatus(s)]]

\* The call goes on to await p holding entity m.
Hold(j, p, m) == Goto(j, p) /\ mem' = [mem EXCEPT ![j] = m]

\* repository.save(order) resolves, or rejects with the write applied or not.
SaveOk(j) == row' = [row EXCEPT ![OrderOf[j]] = mem[j]]
SaveFails(j) == DbMayFail /\ (UNCHANGED row \/ SaveOk(j))

\* The outer catch block up to its save.
OuterCatch(j) ==
    Hold(j, "saveUnexpected", [mem[j] EXCEPT !.status = "failed", !.lastError = TRUE])

\* Mutant of InnerCatch: every error counts as transient.
InnerCatchAlwaysRetries(j, transient) ==
    /\ Hold(j, "saveError", [mem[j] EXCEPT !.lastError = TRUE])
    /\ local' = [local EXCEPT ![j].transient = TRUE]

\* The catch block of the attempt loop up to its save.
InnerCatch(j, transient) ==
    /\ Hold(j, "saveError", [mem[j] EXCEPT !.lastError = TRUE])
    /\ local' = [local EXCEPT ![j].transient = transient]

\* The head of the loop: count the attempt and save it.
NextAttempt(j) ==
    /\ Hold(j, "saveAttempt", [mem[j] EXCEPT !.attempts = local[j].attempt + 1])
    /\ local' = [local EXCEPT ![j].attempt = @ + 1]

\* publish never fails the caller: the message is sent or lost.
Publish(j, type) ==
    \/ announced' = [announced EXCEPT ![OrderOf[j]] = [type |-> type, attempt |-> local[j].attempt]]
    \/ RedisMayFail /\ UNCHANGED announced

-----------------------------------------------------------------------------
(* The steps of processOrder. *)

Init ==
    /\ pc = [j \in Jobs |-> "idle"]
    /\ part = [j \in Jobs |-> "save"]
    /\ local = [j \in Jobs |-> FreshLocals]
    /\ mem = [j \in Jobs |-> FreshOrder]
    /\ row \in [Orders -> {NoRow, FreshOrder}]
    /\ progress = [j \in Jobs |-> [status |-> "none", percent |-> 0]]
    /\ announced = [o \in Orders |-> [type |-> "none", attempt |-> 0]]
    /\ swaps = [j \in Jobs |-> 0]

\* The worker calls processOrder(job), which runs up to findOneBy.
Call(j) ==
    /\ Goto(j, "find")
    /\ local' = [local EXCEPT ![j] = FreshLocals]
    /\ UNCHANGED <<mem, row, progress, announced, swaps>>

Start(j) == pc[j] = "idle" /\ Call(j)

\* findOneBy answers: the row, or none (then the order is created), or an error.
Find(j) ==
    /\ pc[j] = "find"
    /\ \/ row[OrderOf[j]] # NoRow /\ Enter(j, "routing10", row[OrderOf[j]])
       \/ row[OrderOf[j]] = NoRow /\ Hold(j, "create", FreshOrder)
       \/ DbMayFail /\ Goto(j, "threw") /\ UNCHANGED mem
    /\ UNCHANGED <<local, row, progress, announced, swaps>>

Create(j) ==
    /\ pc[j] = "create"
    /\ \/ SaveOk(j) /\ Enter(j, "routing10", mem[j])
       \/ SaveFails(j) /\ Goto(j, "threw") /\ UNCHANGED mem
    /\ UNCHANGED <<local, progress, announced, swaps>>

\* Mutants of UpdateSave: the save is not awaited and comes to nothing; its error is
\* ignored.
UpdateSaveNotAwaited(j) ==
    /\ pc[j] \in Sites /\ part[j] = "save"
    /\ part' = [part EXCEPT ![j] = "progress"]
    /\ UNCHANGED <<pc, local, mem, row, progress, announced, swaps>>
UpdateSaveIgnoresErrors(j) ==
    /\ pc[j] \in Sites /\ part[j] = "save"
    /\ SaveOk(j) \/ SaveFails(j)
    /\ part' = [part EXCEPT ![j] = "progress"]
    /\ UNCHANGED <<pc, local, mem, progress, announced, swaps>>

\* updateOrderStatus, first await: save the status.
UpdateSave(j) ==
    /\ pc[j] \in Sites /\ part[j] = "save"
    /\ UNCHANGED <<progress, announced, swaps>>
    /\ \/ /\ SaveOk(j)
          /\ part' = [part EXCEPT ![j] = "progress"]
          /\ UNCHANGED <<pc, local, mem>>
       \/ /\ SaveFails(j)
          /\ CASE pc[j] = "confirmed"  -> InnerCatch(j, FALSE)
               [] pc[j] = "unexpected" -> Goto(j, "threw") /\ UNCHANGED <<local, mem>>
               [] OTHER                -> OuterCatch(j) /\ UNCHANGED local

\* Mutant of UpdateProgress: an error of job.updateProgress is not caught.
UpdateProgressThrows(j) ==
    /\ pc[j] \in Sites /\ part[j] = "progress"
    /\ \/ /\ progress' = [progress EXCEPT ![j] =
               [status |-> SiteStatus(pc[j]), percent |-> SiteProgress(pc[j], local[j].attempt)]]
          /\ part' = [part EXCEPT ![j] = "publish"]
          /\ UNCHANGED <<pc, local, mem>>
       \/ /\ RedisMayFail /\ pc[j] = "confirmed"
          /\ InnerCatch(j, FALSE) /\ UNCHANGED progress
    /\ UNCHANGED <<row, announced, swaps>>

\* Second await: job.updateProgress stores the progress in Redis, or fails silently.
UpdateProgress(j) ==
    /\ pc[j] \in Sites /\ part[j] = "progress"
    /\ part' = [part EXCEPT ![j] = "publish"]
    /\ \/ progress' = [progress EXCEPT ![j] =
             [status |-> SiteStatus(pc[j]), percent |-> SiteProgress(pc[j], local[j].attempt)]]
       \/ RedisMayFail /\ UNCHANGED progress
    /\ UNCHANGED <<pc, local, mem, row, announced, swaps>>

\* Third await: publish; then the code after the call runs up to its next await.
AfterUpdate(j) ==
    IF pc[j] = "building70" THEN NextAttempt(j)
    ELSE /\ UNCHANGED local
         /\ CASE pc[j] = "routing10"  -> Hold(j, "quotes", mem[j])
              [] pc[j] = "routing30"  -> IF local[j].quotes
                    THEN Hold(j, "saveQuotes", [mem[j] EXCEPT !.quotes = TRUE])
                    ELSE OuterCatch(j)              \* No valid quotes received
              [] pc[j] = "building50" -> Hold(j, "build", mem[j])
              [] pc[j] = "submitted"  -> Hold(j, "swap", mem[j])
              [] pc[j] = "confirmed"  -> Hold(j, "success", mem[j])
              [] OTHER                -> Hold(j, "failure", mem[j])

\* Mutant of UpdatePublish: publishOrderUpdate does not catch the error of publish.
UpdatePublishThrows(j) ==
    /\ pc[j] \in Sites /\ part[j] = "publish"
    /\ \/ Publish(j, SiteStatus(pc[j])) /\ AfterUpdate(j)
       \/ RedisMayFail /\ pc[j] = "confirmed" /\ InnerCatch(j, FALSE) /\ UNCHANGED announced
    /\ UNCHANGED <<row, progress, swaps>>

UpdatePublish(j) ==
    /\ pc[j] \in Sites /\ part[j] = "publish"
    /\ Publish(j, SiteStatus(pc[j]))
    /\ AfterUpdate(j)
    /\ UNCHANGED <<row, progress, swaps>>

\* Promise.all of the quotes: it never rejects; some quote is valid, or none is.
Quotes(j) ==
    /\ pc[j] = "quotes"
    /\ \E valid \in BOOLEAN : local' = [local EXCEPT ![j].quotes = valid]
    /\ Enter(j, "routing30", mem[j])
    /\ UNCHANGED <<row, progress, announced, swaps>>

SaveQuotes(j) ==
    /\ pc[j] = "saveQuotes"
    /\ \/ SaveOk(j) /\ Enter(j, "building50", mem[j])
       \/ SaveFails(j) /\ OuterCatch(j)
    /\ UNCHANGED <<local, progress, announced, swaps>>

\* await sleep(500): the transaction is "built".
Build(j) ==
    /\ pc[j] = "build"
    /\ Enter(j, "building70", mem[j])
    /\ UNCHANGED <<local, row, progress, announced, swaps>>

SaveAttempt(j) ==
    /\ pc[j] = "saveAttempt"
    /\ \/ SaveOk(j) /\ Enter(j, "submitted", mem[j])
       \/ SaveFails(j) /\ OuterCatch(j)
    /\ UNCHANGED <<local, progress, announced, swaps>>

\* Mutants of Swap: the order is marked confirmed before executeSwap answers; the
\* hash is not taken from the result.
SwapMarksFirst(j) ==
    /\ pc[j] = "swap"
    /\ \/ /\ swaps' = [swaps EXCEPT ![j] = @ + 1]
          /\ Hold(j, "saveSwap", [mem[j] EXCEPT !.txHash = [job |-> j, nth |-> swaps[j] + 1],
                                                !.status = "confirmed"])
          /\ UNCHANGED local
       \/ /\ Hold(j, "saveError", [mem[j] EXCEPT !.status = "confirmed", !.lastError = TRUE])
          /\ local' = [local EXCEPT ![j].transient = TRUE] /\ UNCHANGED swaps
    /\ UNCHANGED <<row, progress, announced>>
SwapForgetsHash(j) ==
    /\ pc[j] = "swap"
    /\ \/ /\ swaps' = [swaps EXCEPT ![j] = @ + 1]
          /\ Hold(j, "saveSwap", [mem[j] EXCEPT !.status = "confirmed"])
          /\ UNCHANGED local
       \/ InnerCatch(j, TRUE) /\ UNCHANGED swaps
    /\ UNCHANGED <<row, progress, announced>>

\* executeSwap executes the swap and returns its hash, or fails with err.transient.
Swap(j) ==
    LET hash == [job |-> j, nth |-> swaps[j] + 1] IN
    /\ pc[j] = "swap"
    /\ \/ /\ swaps' = [swaps EXCEPT ![j] = @ + 1]
          /\ Hold(j, "saveSwap", [mem[j] EXCEPT !.txHash = hash, !.status = "confirmed"])
          /\ UNCHANGED local
       \/ InnerCatch(j, TRUE) /\ UNCHANGED swaps
    /\ UNCHANGED <<row, progress, announced>>

SaveSwap(j) ==
    /\ pc[j] = "saveSwap"
    /\ \/ SaveOk(j) /\ Enter(j, "confirmed", mem[j]) /\ UNCHANGED local
       \/ SaveFails(j) /\ InnerCatch(j, FALSE)
    /\ UNCHANGED <<progress, announced, swaps>>

\* The inner catch: save lastError, publish execution-failed, give up or back off.
SaveError(j) ==
    /\ pc[j] = "saveError"
    /\ \/ SaveOk(j) /\ Goto(j, "pubFailed") /\ UNCHANGED mem
       \/ SaveFails(j) /\ OuterCatch(j)
    /\ UNCHANGED <<local, progress, announced, swaps>>

\* Mutant of GivesUp: the last attempt is not made.
GivesUpEarly(j) == ~local[j].transient \/ local[j].attempt >= MaxAttempts - 1

GivesUp(j) == ~local[j].transient \/ local[j].attempt >= MaxAttempts

PublishFailed(j) ==
    /\ pc[j] = "pubFailed"
    /\ Publish(j, "execution-failed")
    /\ IF GivesUp(j)
       THEN Hold(j, "saveFailed", [mem[j] EXCEPT !.status = "failed"])
       ELSE Hold(j, "pubRetry", mem[j])
    /\ UNCHANGED <<local, row, progress, swaps>>

SaveFailed(j) ==
    /\ pc[j] = "saveFailed"
    /\ \/ SaveOk(j) /\ Enter(j, "failed", mem[j])
       \/ SaveFails(j) /\ OuterCatch(j)
    /\ UNCHANGED <<local, progress, announced, swaps>>

PublishRetry(j) ==
    /\ pc[j] = "pubRetry"
    /\ Publish(j, "retry-pending")
    /\ Goto(j, "backoff")
    /\ UNCHANGED <<local, mem, row, progress, swaps>>

\* Mutant of Backoff: the loop goes on without counting the attempt.
BackoffUncounted(j) ==
    /\ pc[j] = "backoff"
    /\ Hold(j, "saveAttempt", mem[j])
    /\ UNCHANGED <<local, row, progress, announced, swaps>>

\* await sleep(delay), then the loop head: attempt < maxAttempts holds here.
Backoff(j) ==
    /\ pc[j] = "backoff" /\ local[j].attempt < MaxAttempts
    /\ NextAttempt(j)
    /\ UNCHANGED <<row, progress, announced, swaps>>

\* Mutant of SaveUnexpected: the outer catch swallows the error of its own save.
SaveUnexpectedSwallows(j) ==
    /\ pc[j] = "saveUnexpected"
    /\ \/ SaveOk(j) /\ Enter(j, "unexpected", mem[j])
       \/ SaveFails(j) /\ Goto(j, "failure") /\ UNCHANGED mem
    /\ UNCHANGED <<local, progress, announced, swaps>>

SaveUnexpected(j) ==
    /\ pc[j] = "saveUnexpected"
    /\ \/ SaveOk(j) /\ Enter(j, "unexpected", mem[j])
       \/ SaveFails(j) /\ Goto(j, "threw") /\ UNCHANGED mem
    /\ UNCHANGED <<local, progress, announced, swaps>>

\* One await of the call for job j is resolved.
Step(j) ==
    \/ Find(j) \/ Create(j) \/ UpdateSave(j) \/ UpdateProgress(j) \/ UpdatePublish(j)
    \/ Quotes(j) \/ SaveQuotes(j) \/ Build(j) \/ SaveAttempt(j) \/ Swap(j) \/ SaveSwap(j)
    \/ SaveError(j) \/ PublishFailed(j) \/ SaveFailed(j) \/ PublishRetry(j) \/ Backoff(j)
    \/ SaveUnexpected(j)

\* Every call has ended: the worker waits for jobs that do not come.
Idle == (\A j \in Jobs : pc[j] \in Ended) /\ UNCHANGED vars

Next == (\E j \in Jobs : Start(j) \/ Step(j)) \/ Idle

\* Node's event loop resolves every timer and every answered call; Redis retries
\* for ever (maxRetriesPerRequest null), a database call answers or rejects.
Fairness == \A j \in Jobs : WF_vars(Start(j)) /\ WF_vars(Step(j))

Spec == Init /\ [][Next]_vars /\ Fairness

-----------------------------------------------------------------------------
(* What the code promises. *)

\* The shape of the state: worker.ts keeps every variable within these sets.
TypeOK ==
    /\ pc \in [Jobs -> Points]
    /\ part \in [Jobs -> Parts]
    /\ local \in [Jobs -> Locals]
    /\ mem \in [Jobs -> Entities]
    /\ row \in [Orders -> Entities \union {NoRow}]
    /\ progress \in [Jobs -> Reports]
    /\ announced \in [Orders -> Notices]
    /\ swaps \in [Jobs -> Nat]

\* One run of processOrder executes at most one swap, whatever saves, quotes and
\* publishes fail around it: only an error marked transient, which executeSwap
\* throws instead of executing, is retried (worker.ts:200, 223).
SwapOnce == \A j \in Jobs : swaps[j] <= 1

\* No two jobs of the same order.
SoleWriter == \A i, j \in Jobs : OrderOf[i] = OrderOf[j] => i = j

\* A row never claims an execution that did not happen: a hash in the row is that
\* of an executed swap of a job of this order, a confirmed row belongs to an order
\* one of whose jobs executed a swap, and the row of a lone job is confirmed only
\* together with its hash.  The first two hold for duplicate jobs of an order too,
\* although these overwrite each other's row.
ConfirmedIsExecuted ==
    \A o \in Orders : row[o] # NoRow =>
        /\ row[o].txHash # NoHash => /\ OrderOf[row[o].txHash.job] = o
                                     /\ row[o].txHash.nth <= swaps[row[o].txHash.job]
        /\ row[o].status = "confirmed" => \E j \in Jobs : OrderOf[j] = o /\ swaps[j] > 0
        /\ SoleWriter /\ row[o].status = "confirmed" => row[o].txHash # NoHash

\* What processOrder returns agrees with the row it leaves behind: success with
\* a confirmed row that holds the hash of this job's swap, failure with a failed
\* row, even when saves fail on the way.
VerdictMatchesRow == SoleWriter => \A j \in Jobs :
    /\ pc[j] = "success" => /\ row[OrderOf[j]].status = "confirmed"
                            /\ row[OrderOf[j]].txHash.job = j
    /\ pc[j] = "failure" => row[OrderOf[j]].status = "failed"

\* A rejection of processOrder (which hands the job back to BullMQ) comes from the
\* database only, and no order fails after its swap was executed, as long as the
\* database answers.
FailureIsHonest == ~DbMayFail =>
    /\ \A j \in Jobs : pc[j] # "threw"
    /\ SoleWriter => \A j \in Jobs : swaps[j] > 0 =>
          pc[j] # "failure" /\ row[OrderOf[j]].status # "failed"

\* Write-ahead: a swap is sent only when the row already says that this attempt of
\* this order was submitted, with the quotes it was chosen from (worker.ts:125-163).
WriteAhead ==
    [][SoleWriter => \A j \in Jobs : swaps'[j] # swaps[j] =>
         LET r == row[OrderOf[j]] IN
         r # NoRow /\ r.status = "submitted" /\ r.attempts = local[j].attempt /\ r.quotes]_vars

\* A status is told to clients only when the row already has it: whoever reads a
\* status from the channel or from job.progress finds it, or a later one, in the
\* database.
ToldAfterSaved ==
    [][SoleWriter =>
         /\ \A o \in Orders : announced'[o] # announced[o] /\ announced'[o].type \in Statuses
               => row[o].status = announced'[o].type
         /\ \A j \in Jobs : progress'[j] # progress[j]
               => row[OrderOf[j]].status = progress'[j].status]_vars

\* A verdict reported through job.progress is final: nothing is reported and the
\* row's status does not change after it.  (The row itself may say confirmed and
\* then failed: see ConfirmedIsFinal.)
ReportedVerdictIsFinal ==
    [][SoleWriter => \A j \in Jobs : progress[j].status \in {"confirmed", "failed"} =>
         /\ progress'[j] = progress[j]
         /\ row'[OrderOf[j]].status = progress[j].status]_vars

\* Clients see the percentage grow until a failure resets it to 0.
ProgressGrows ==
    [][\A j \in Jobs : \/ progress'[j].percent >= progress[j].percent
                       \/ progress'[j].status = "failed"]_vars

\* The most awaits the call for job j may still come to, the current one included:
\* an attempt that is retried is nine of them, updateOrderStatus is three.
AwaitsLeft(j) ==
    LET retries == 9 * (MaxAttempts - local[j].attempt)
        here == CASE part[j] = "save" -> 3 [] part[j] = "progress" -> 2 [] OTHER -> 1
    IN  CASE pc[j] = "idle"           -> 24 + 9 * MaxAttempts
          [] pc[j] = "find"           -> 23 + retries
          [] pc[j] = "create"         -> 22 + retries
          [] pc[j] = "routing10"      -> 18 + here + retries
          [] pc[j] = "quotes"         -> 18 + retries
          [] pc[j] = "routing30"      -> 14 + here + retries
          [] pc[j] = "saveQuotes"     -> 14 + retries
          [] pc[j] = "building50"     -> 10 + here + retries
          [] pc[j] = "build"          -> 10 + retries
          [] pc[j] = "building70"     -> 6 + here + retries
          [] pc[j] = "saveAttempt"    -> 15 + retries
          [] pc[j] = "submitted"      -> 11 + here + retries
          [] pc[j] = "swap"           -> 11 + retries
          [] pc[j] = "saveSwap"       -> 10
          [] pc[j] = "confirmed"      -> IF part[j] = "save" THEN 9 ELSE here
          [] pc[j] = "saveError"      -> IF GivesUp(j) THEN 8 ELSE 10 + retries
          [] pc[j] = "pubFailed"      -> IF GivesUp(j) THEN 7 ELSE 9 + retries
          [] pc[j] = "pubRetry"       -> 8 + retries
          [] pc[j] = "backoff"        -> 7 + retries
          [] pc[j] = "saveFailed"     -> 6
          [] pc[j] = "failed"         -> IF part[j] = "save" THEN 5 ELSE here
          [] pc[j] = "saveUnexpected" -> 4
          [] pc[j] = "unexpected"     -> here
          [] OTHER                    -> 0

\* A call cannot loop: every await it comes to leaves fewer ahead, whatever is
\* retried and whatever fails, so that it is over after at most 23 + 9 * MaxAttempts
\* of them (worker.ts:152-300; 50 with the code's three attempts).
EveryAwaitCounts ==
    [][\A j \in Jobs : Start(j) \/ Step(j) => AwaitsLeft(j)' \in 0..(AwaitsLeft(j) - 1)]_vars

\* Every call of processOrder ends, retries and failures included.
CallsEnd == \A j \in Jobs : pc[j] # "idle" ~> pc[j] \in Ended

-----------------------------------------------------------------------------
(* The abstract specification it implements. *)

\* The order of OrderLifecycle, read off the row (a missing row is a pending order)
\* and off the DEX.
RowStatus == [o \in Orders |-> IF row[o] = NoRow THEN "pending" ELSE row[o].status]
RowTries  == [o \in Orders |-> IF row[o] = NoRow THEN 0 ELSE row[o].attempts]
Executed  == {OrderOf[j] : j \in {i \in Jobs : swaps[i] > 0}}

Lifecycle == INSTANCE OrderLifecycle
                 WITH status <- RowStatus, tries <- RowTries, executed <- Executed

\* processOrder (worker.ts:36-300) implements the lifecycle an order is promised:
\* statuses in order, attempts counted before they are sent and at most
\* MaxAttempts, one execution, confirmed and never failed after it, and a verdict
\* in the end.
ImplementsLifecycle == Lifecycle!Spec

=============================================================================
