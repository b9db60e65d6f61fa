-------------------------- MODULE OrderVerdictProofs --------------------------
(***************************************************************************)
(* Proofs that a call of processOrder, its entity, the row and what it     *)
(* tells agree: the verdict with the row, the row with what was told, the  *)
(* row with the swap that is sent.  For every number of jobs, orders and   *)
(* attempts, and whatever the database and Redis lose.                     *)
(*                                                                         *)
(* Statements about a row are about orders with one job: SoleWriter.       *)
(***************************************************************************)
EXTENDS OrderProcessorProofs

\* From the saving of the quotes to the end of the loop.
QuotedPoints == {"saveQuotes", "building50", "build", "building70", "saveAttempt", "submitted",
                 "swap", "saveSwap", "confirmed", "saveError", "pubFailed", "pubRetry", "backoff"}

\* What the entity of a call holds at each point.
EntityAt(j) ==
    /\ pc[j] \in Sites => mem[j].status = SiteStatus(pc[j])
    /\ pc[j] \in {"saveSwap", "confirmed"} => mem[j].txHash.job = j /\ mem[j].status = "confirmed"
    /\ pc[j] \in {"saveAttempt", "submitted", "swap"} => mem[j].attempts = local[j].attempt
    /\ pc[j] \in QuotedPoints => mem[j].quotes

\* What the row of a call's order holds at each point.
RowAt(j) ==
    LET r == row[OrderOf[j]] IN
    /\ pc[j] \in Sites /\ part[j] # "save" => r = mem[j]
    /\ pc[j] = "swap" => r = mem[j]
    /\ pc[j] \in {"swap", "saveSwap"} => r.status = "submitted"
    /\ pc[j] \in {"confirmed", "success"} => r.status = "confirmed"
    /\ pc[j] = "success" => r.txHash.job = j
    /\ pc[j] = "failure" => r.status = "failed"

\* A verdict is in job.progress only when the row has it and the call is about to end.
ReportAt(j) ==
    progress[j].status \in {"confirmed", "failed"} =>
        /\ row[OrderOf[j]].status = progress[j].status
        /\ \/ pc[j] \in {"success", "failure"}
           \/ pc[j] \in {"confirmed", "failed", "unexpected"} /\ part[j] = "publish"

\* With a database that answers, a call that has swapped is on its way to success.
HonestAt(j) ==
    ~DbMayFail => /\ pc[j] # "threw"
                  /\ swaps[j] > 0 => pc[j] \in {"saveSwap", "confirmed", "success"}

VerdictInv == \A j \in Jobs : EntityAt(j) /\ HonestAt(j)
                              /\ (SoleWriter => RowAt(j) /\ ReportAt(j))

-----------------------------------------------------------------------------

\* Every step keeps what the entity of the call holds (worker.ts:66, 125, 153, 171).
LEMMA StepEntity ==
    ASSUME TypeOK, NEW j \in Jobs, EntityAt(j), Start(j) \/ Step(j)
    PROVE  EntityAt(j)'
<1> USE DEF EntityAt, QuotedPoints, Sites, Hold, Enter, Goto, TypeOK, Entities, Locals
<1>1. CASE Start(j)
    BY <1>1 DEF Start, Call
<1>2. CASE Find(j) \/ Create(j)
    BY <1>2, OrderOfAssumption DEF Find, Create
<1>3. CASE UpdateSave(j)
    BY <1>3 DEF UpdateSave, OuterCatch, InnerCatch
<1>4. CASE UpdateProgress(j)
    BY <1>4 DEF UpdateProgress
<1>5. CASE UpdatePublish(j)
    BY <1>5 DEF UpdatePublish, AfterUpdate, OuterCatch, NextAttempt
<1>6. CASE Quotes(j) \/ SaveQuotes(j) \/ Build(j) \/ SaveAttempt(j)
    <2>1. CASE OuterCatch(j)
        BY <1>6, <2>1 DEF Quotes, SaveQuotes, Build, SaveAttempt, OuterCatch
    <2>2. CASE ~OuterCatch(j)
        BY <1>6, <2>2 DEF Quotes, SaveQuotes, Build, SaveAttempt
    <2> QED
        BY <2>1, <2>2
<1>7. CASE Swap(j)
    <2>1. CASE Hold(j, "saveSwap", [mem[j] EXCEPT !.txHash = [job |-> j, nth |-> swaps[j] + 1],
                                                  !.status = "confirmed"])
        BY <1>7, <2>1 DEF Swap
    <2>2. CASE InnerCatch(j, TRUE)
        BY <1>7, <2>2 DEF Swap, InnerCatch
    <2> QED
        BY <1>7, <2>1, <2>2 DEF Swap
<1>8. CASE SaveSwap(j)
    <2>1. CASE SaveOk(j) /\ Enter(j, "confirmed", mem[j]) /\ UNCHANGED local
        BY <1>8, <2>1 DEF SaveSwap, SiteStatus
    <2>2. CASE InnerCatch(j, FALSE)
        BY <1>8, <2>2 DEF SaveSwap, InnerCatch
    <2> QED
        BY <1>8, <2>1, <2>2 DEF SaveSwap
<1>9. CASE SaveError(j) \/ PublishFailed(j) \/ SaveFailed(j)
    BY <1>9 DEF SaveError, PublishFailed, SaveFailed, OuterCatch
<1>10. CASE PublishRetry(j) \/ Backoff(j) \/ SaveUnexpected(j)
    BY <1>10 DEF PublishRetry, Backoff, SaveUnexpected, NextAttempt
<1> QED
    BY <1>1, <1>2, <1>3, <1>4, <1>5, <1>6, <1>7, <1>8, <1>9, <1>10 DEF Step

\* Every step keeps the row in agreement with the entity and with the verdict.
LEMMA StepRow ==
    ASSUME TypeOK, NEW j \in Jobs, EntityAt(j), RowAt(j), Start(j) \/ Step(j)
    PROVE  RowAt(j)'
<1> USE OrderOfAssumption
    DEF EntityAt, RowAt, Sites, SiteStatus, Hold, Enter, Goto, TypeOK, Entities, SaveOk, SaveFails
<1>1. CASE Start(j)
    BY <1>1 DEF Start, Call
<1>2. CASE Find(j) \/ Create(j)
    BY <1>2 DEF Find, Create, Ended
<1>3. CASE UpdateSave(j)
    BY <1>3 DEF UpdateSave, OuterCatch, InnerCatch
<1>4. CASE UpdateProgress(j)
    BY <1>4 DEF UpdateProgress
<1>5. CASE UpdatePublish(j)
    BY <1>5 DEF UpdatePublish, AfterUpdate, OuterCatch, NextAttempt
<1>6. CASE Quotes(j) \/ SaveQuotes(j) \/ Build(j) \/ SaveAttempt(j)
    BY <1>6 DEF Quotes, SaveQuotes, Build, SaveAttempt, OuterCatch
<1>7. CASE Swap(j)
    <2>1. CASE Hold(j, "saveSwap", [mem[j] EXCEPT !.txHash = [job |-> j, nth |-> swaps[j] + 1],
                                                  !.status = "confirmed"])
        BY <1>7, <2>1 DEF Swap
    <2>2. CASE InnerCatch(j, TRUE)
        BY <1>7, <2>2 DEF Swap, InnerCatch
    <2> QED
        BY <1>7, <2>1, <2>2 DEF Swap
<1>8. CASE SaveSwap(j)
    <2>1. CASE SaveOk(j) /\ Enter(j, "confirmed", mem[j]) /\ UNCHANGED local
        BY <1>8, <2>1 DEF SaveSwap
    <2>2. CASE InnerCatch(j, FALSE)
        BY <1>8, <2>2 DEF SaveSwap, InnerCatch
    <2> QED
        BY <1>8, <2>1, <2>2 DEF SaveSwap
<1>9. CASE SaveError(j) \/ PublishFailed(j) \/ SaveFailed(j)
    BY <1>9 DEF SaveError, PublishFailed, SaveFailed, OuterCatch
<1>10. CASE PublishRetry(j) \/ Backoff(j) \/ SaveUnexpected(j)
    BY <1>10 DEF PublishRetry, Backoff, SaveUnexpected, NextAttempt
<1> QED
    BY <1>1, <1>2, <1>3, <1>4, <1>5, <1>6, <1>7, <1>8, <1>9, <1>10 DEF Step

\* A verdict reaches job.progress after the row and just before the end of the call
\* (worker.ts:73, 76).
LEMMA StepReport ==
    ASSUME TypeOK, NEW j \in Jobs, EntityAt(j), RowAt(j), ReportAt(j), Start(j) \/ Step(j)
    PROVE  ReportAt(j)'
<1> USE OrderOfAssumption DEF EntityAt, RowAt, ReportAt, Sites, SiteStatus, TypeOK
<1>1. CASE UpdateSave(j)
    BY <1>1 DEF UpdateSave
<1>2. CASE UpdateProgress(j)
    BY <1>2 DEF UpdateProgress
<1>3. CASE UpdatePublish(j)
    BY <1>3 DEF UpdatePublish, AfterUpdate, Hold, Goto
<1>4. CASE ~(UpdateSave(j) \/ UpdateProgress(j) \/ UpdatePublish(j))
    <2>1. progress' = progress /\ pc[j] \notin Sites \union {"success", "failure"}
        BY <1>4 DEF Start, Call, Step, Find, Create, Quotes, SaveQuotes, Build, SaveAttempt, Swap, SaveSwap,
           SaveError, PublishFailed, SaveFailed, PublishRetry, Backoff, SaveUnexpected
    <2> QED
        BY <2>1
<1> QED
    BY <1>1, <1>2, <1>3, <1>4

\* Without failing saves nothing leads a call away from success after its swap
\* (worker.ts:171-197), and nothing makes processOrder throw.
LEMMA StepHonest ==
    ASSUME TypeOK, NEW j \in Jobs, SwapInv, HonestAt(j), Start(j) \/ Step(j)
    PROVE  HonestAt(j)'
<1> SUFFICES ASSUME ~DbMayFail
             PROVE  pc'[j] # "threw" /\ (swaps'[j] > 0 => pc'[j] \in {"saveSwap", "confirmed", "success"})
    BY DEF HonestAt
<1>1. CASE Swap(j)
    BY <1>1 DEF TypeOK, HonestAt, Swap, InnerCatch, Hold, Goto
<1>2. CASE ~Swap(j)
    <2>1. swaps' = swaps
        BY <1>2 DEF Start, Call, Step, Find, Create, UpdateSave, UpdateProgress, UpdatePublish, Quotes, SaveQuotes,
           Build, SaveAttempt, SaveSwap, SaveError, PublishFailed, SaveFailed, PublishRetry, Backoff,
           SaveUnexpected
    <2>2. pc'[j] # "threw"
        BY <1>2 DEF TypeOK, HonestAt, Sites, Start, Call, Step, Find, Create, UpdateSave, UpdateProgress, UpdatePublish,
           AfterUpdate, Quotes, SaveQuotes, Build, SaveAttempt, SaveSwap, SaveError, PublishFailed,
           SaveFailed, PublishRetry, Backoff, SaveUnexpected, SaveFails, Enter, Hold, Goto, OuterCatch,
           NextAttempt
    <2>3. ASSUME pc[j] \in {"saveSwap", "confirmed", "success"}
          PROVE  pc'[j] \in {"saveSwap", "confirmed", "success"}
        BY <1>2, <2>3 DEF TypeOK, Sites, Start, Call, Step, Find, Create, UpdateSave, UpdateProgress, UpdatePublish,
           AfterUpdate, Quotes, SaveQuotes, Build, SaveAttempt, SaveSwap, SaveError, PublishFailed,
           SaveFailed, PublishRetry, Backoff, SaveUnexpected, SaveFails, Enter, Hold, Goto
    <2> QED
        BY <2>1, <2>2, <2>3 DEF HonestAt
<1> QED
    BY <1>1, <1>2

\* A call of another order leaves entity, row, report and swaps of this one alone.
LEMMA OthersStay ==
    ASSUME TypeOK, NEW j \in Jobs, Start(j) \/ Step(j), NEW i \in Jobs \ {j}
    PROVE  /\ EntityAt(i) => EntityAt(i)'
           /\ HonestAt(i) => HonestAt(i)'
           /\ SoleWriter => (RowAt(i) => RowAt(i)') /\ (ReportAt(i) => ReportAt(i)')
<1>1. /\ pc'[i] = pc[i] /\ part'[i] = part[i] /\ local'[i] = local[i]
      /\ mem'[i] = mem[i] /\ swaps'[i] = swaps[i]
    BY StepFrame
<1>2. progress'[i] = progress[i]
    BY DEF TypeOK, Start, Call, Step, Find, Create, UpdateSave, UpdateProgress, UpdatePublish, Quotes, SaveQuotes,
       Build, SaveAttempt, Swap, SaveSwap, SaveError, PublishFailed, SaveFailed, PublishRetry, Backoff,
       SaveUnexpected
<1>3. SoleWriter => row'[OrderOf[i]] = row[OrderOf[i]]
    BY StepFrame, OrderOfAssumption DEF SoleWriter
<1>4. (EntityAt(i) => EntityAt(i)') /\ (HonestAt(i) => HonestAt(i)')
    BY <1>1 DEF EntityAt, HonestAt
<1>5. SoleWriter => (RowAt(i) => RowAt(i)') /\ (ReportAt(i) => ReportAt(i)')
    BY <1>1, <1>2, <1>3 DEF RowAt, ReportAt
<1> QED
    BY <1>4, <1>5

-----------------------------------------------------------------------------

\* Before any call no entity, row or report is concerned.
LEMMA InitVerdict == Init => VerdictInv
<1> SUFFICES ASSUME Init, NEW j \in Jobs
             PROVE  EntityAt(j) /\ RowAt(j) /\ ReportAt(j) /\ HonestAt(j)
    BY DEF VerdictInv
<1>1. pc[j] = "idle" /\ swaps[j] = 0 /\ progress[j].status = "none"
    BY DEF Init
<1> QED
    BY <1>1 DEF EntityAt, RowAt, ReportAt, HonestAt, Sites, QuotedPoints

\* Every step of every call keeps the agreement.
LEMMA NextVerdict == IInv /\ VerdictInv /\ [Next]_vars => VerdictInv'
<1> SUFFICES ASSUME IInv, VerdictInv, [Next]_vars PROVE VerdictInv'
    OBVIOUS
<1>1. CASE UNCHANGED vars
    BY <1>1 DEF vars, VerdictInv, EntityAt, RowAt, ReportAt, HonestAt
<1>2. ASSUME NEW j \in Jobs, Start(j) \/ Step(j) PROVE VerdictInv'
    <2>1. EntityAt(j)' /\ HonestAt(j)'
        BY <1>2, StepEntity, StepHonest DEF IInv, VerdictInv
    <2>2. SoleWriter => RowAt(j)' /\ ReportAt(j)'
        BY <1>2, StepRow, StepReport DEF IInv, VerdictInv
    <2>3. \A i \in Jobs \ {j} : EntityAt(i)' /\ HonestAt(i)' /\ (SoleWriter => RowAt(i)' /\ ReportAt(i)')
        BY <1>2, OthersStay DEF IInv, VerdictInv
    <2> QED
        BY <2>1, <2>2, <2>3 DEF VerdictInv
<1> QED
    BY <1>1, <1>2 DEF Next, Idle

\* Both invariants hold in every run of processOrder (worker.ts:36-300).
LEMMA Agreement == Spec => [](IInv /\ VerdictInv)
<1>1. IInv /\ VerdictInv /\ [Next]_vars => IInv' /\ VerdictInv'
    BY NextIInv, NextVerdict
<1> QED
    BY InitIInv, InitVerdict, <1>1, PTL DEF Spec

\* What processOrder returns is what the row says, for every number of attempts and
\* however many saves fail (worker.ts:194-197, 225-235, 282-299).
THEOREM VerdictTold == Spec => []VerdictMatchesRow
<1>1. VerdictInv => VerdictMatchesRow
    BY DEF VerdictInv, RowAt, VerdictMatchesRow
<1> QED
    BY <1>1, Agreement, PTL

\* As long as the database answers, processOrder neither throws nor fails an order
\* whose swap was executed.
THEOREM FailuresAreHonest == Spec => []FailureIsHonest
<1>1. IInv /\ VerdictInv => FailureIsHonest
    <2> SUFFICES ASSUME IInv, VerdictInv, ~DbMayFail, SoleWriter, NEW j \in Jobs, swaps[j] > 0
                 PROVE  pc[j] # "failure" /\ row[OrderOf[j]].status # "failed"
        BY DEF FailureIsHonest, VerdictInv, HonestAt
    <2>1. pc[j] \in {"saveSwap", "confirmed", "success"} /\ RowAt(j)
        BY DEF VerdictInv, HonestAt
    <2> QED
        BY <2>1 DEF RowAt
<1> QED
    BY <1>1, Agreement, PTL

\* No swap is sent before the row says so (worker.ts:125-163).
THEOREM SwapIsWrittenAhead == Spec => WriteAhead
<1>1. ASSUME IInv, VerdictInv, [Next]_vars, SoleWriter, NEW j \in Jobs, swaps'[j] # swaps[j]
      PROVE  LET r == row[OrderOf[j]] IN
             r # NoRow /\ r.status = "submitted" /\ r.attempts = local[j].attempt /\ r.quotes
    <2>1. pc[j] = "swap"
        <3>1. PICK i \in Jobs : Start(i) \/ Step(i)
            BY <1>1 DEF Next, Idle, vars
        <3>2. i = j
            BY <1>1, <3>1, StepFrame DEF IInv
        <3> QED
            BY <1>1, <3>1, <3>2 DEF Start, Call, Step, Find, Create, UpdateSave, UpdateProgress, UpdatePublish,
               Quotes, SaveQuotes, Build, SaveAttempt, Swap, SaveSwap, SaveError, PublishFailed, SaveFailed,
               PublishRetry, Backoff, SaveUnexpected
    <2>2. EntityAt(j) /\ RowAt(j)
        BY <1>1 DEF VerdictInv
    <2>3. row[OrderOf[j]].status = "submitted" /\ NoRow.status = "missing"
        BY <2>1, <2>2 DEF RowAt, NoRow
    <2> QED
        BY <2>1, <2>2, <2>3 DEF EntityAt, RowAt, QuotedPoints
<1>2. IInv /\ VerdictInv /\ [Next]_vars =>
        [SoleWriter => \A j \in Jobs : swaps'[j] # swaps[j] =>
            LET r == row[OrderOf[j]] IN
            r # NoRow /\ r.status = "submitted" /\ r.attempts = local[j].attempt /\ r.quotes]_vars
    BY <1>1
<1> QED
    BY <1>2, Agreement, PTL DEF Spec, WriteAhead

\* A status is in the row before it is in job.progress or on the channel
\* (worker.ts:69-76).
THEOREM RowsComeFirst == Spec => ToldAfterSaved
<1> DEFINE Told == SoleWriter =>
         /\ \A o \in Orders : announced'[o] # announced[o] /\ announced'[o].type \in Statuses
               => row[o].status = announced'[o].type
         /\ \A j \in Jobs : progress'[j] # progress[j]
               => row[OrderOf[j]].status = progress'[j].status
<1>1. ASSUME IInv, VerdictInv, SoleWriter, NEW j \in Jobs, Start(j) \/ Step(j)
      PROVE  Told
    <2> USE OrderOfAssumption DEF TypeOK
    <2>1. EntityAt(j) /\ RowAt(j) /\ TypeOK
        BY <1>1 DEF VerdictInv, IInv
    <2>2. CASE UpdateProgress(j)
        BY <2>1, <2>2 DEF UpdateProgress, EntityAt, RowAt
    <2>3. CASE UpdatePublish(j)
        <3>1. row[OrderOf[j]].status = SiteStatus(pc[j])
            BY <2>1, <2>3 DEF UpdatePublish, EntityAt, RowAt
        <3> QED
            BY <2>1, <2>3, <3>1 DEF UpdatePublish, Publish
    <2>4. CASE PublishFailed(j) \/ PublishRetry(j)
        BY <2>1, <2>4 DEF PublishFailed, PublishRetry, Publish, Statuses
    <2>5. CASE ~(UpdateProgress(j) \/ UpdatePublish(j) \/ PublishFailed(j) \/ PublishRetry(j))
        <3>1. announced' = announced /\ progress' = progress
            BY <1>1, <2>5 DEF Start, Call, Step, Find, Create, UpdateSave, Quotes, SaveQuotes, Build, SaveAttempt,
               Swap, SaveSwap, SaveError, SaveFailed, Backoff, SaveUnexpected
        <3> QED
            BY <3>1
    <2> QED
        BY <2>2, <2>3, <2>4, <2>5
<1>2. IInv /\ VerdictInv /\ [Next]_vars => [Told]_vars
    BY <1>1 DEF Next, Idle
<1> QED
    BY <1>2, Agreement, PTL DEF Spec, ToldAfterSaved

\* Once the progress holds a verdict, no call changes it or the row's.
LEMMA ReportStays ==
    ASSUME IInv, VerdictInv, SoleWriter, NEW i \in Jobs, Start(i) \/ Step(i),
           NEW j \in Jobs, progress[j].status \in {"confirmed", "failed"}
    PROVE  progress'[j] = progress[j] /\ row'[OrderOf[j]].status = progress[j].status
<1>1. ReportAt(j) /\ TypeOK
    BY DEF VerdictInv, IInv
<1>2. CASE i = j
    <2>1. Start(j) \/ Step(j) => UpdatePublish(j)
        BY <1>1 DEF ReportAt, Sites, Start, Call, Step, Find, Create, UpdateSave, UpdateProgress, Quotes,
           SaveQuotes, Build, SaveAttempt, Swap, SaveSwap, SaveError, PublishFailed, SaveFailed,
           PublishRetry, Backoff, SaveUnexpected
    <2>2. progress' = progress /\ row' = row
        BY <1>2, <2>1 DEF UpdatePublish
    <2> QED
        BY <1>1, <2>2 DEF ReportAt
<1>3. CASE i # j
    <2>1. progress'[j] = progress[j]
        BY <1>1, <1>3
           DEF TypeOK, Start, Call, Step, Find, Create, UpdateSave, UpdateProgress, UpdatePublish, Quotes,
           SaveQuotes, Build, SaveAttempt, Swap, SaveSwap, SaveError, PublishFailed, SaveFailed,
           PublishRetry, Backoff, SaveUnexpected
    <2>2. row'[OrderOf[j]] = row[OrderOf[j]]
        BY <1>1, <1>3, StepFrame, OrderOfAssumption DEF SoleWriter
    <2> QED
        BY <1>1, <2>1, <2>2 DEF ReportAt
<1> QED
    BY <1>2, <1>3

\* After a reported verdict a call reports and saves nothing any more.
THEOREM ReportsAreFinal == Spec => ReportedVerdictIsFinal
<1> DEFINE Final == SoleWriter => \A j \in Jobs : progress[j].status \in {"confirmed", "failed"} =>
         /\ progress'[j] = progress[j]
         /\ row'[OrderOf[j]].status = progress[j].status
<1>1. ASSUME IInv, VerdictInv, SoleWriter, NEW i \in Jobs, Start(i) \/ Step(i),
             NEW j \in Jobs, progress[j].status \in {"confirmed", "failed"}
      PROVE  progress'[j] = progress[j] /\ row'[OrderOf[j]].status = progress[j].status
    BY <1>1, ReportStays
<1>2. IInv /\ VerdictInv /\ [Next]_vars => [Final]_vars
    BY <1>1 DEF Next, Idle
<1> QED
    BY <1>2, Agreement, PTL DEF Spec, ReportedVerdictIsFinal

-----------------------------------------------------------------------------
(* A verdict in the row stays while a call runs, whoever reads it; for the engine. *)

Verdicts == {"confirmed", "failed"}

\* What the entity says at the points outside updateOrderStatus.
OpenAt(j) ==
    LET status == mem[j].status IN
    /\ pc[j] = "create" => status = "pending"
    /\ pc[j] \in {"quotes", "saveQuotes"} => status = "routing"
    /\ pc[j] = "build" => status = "building"
    /\ pc[j] = "saveAttempt" => status \in {"building", "submitted"}
    /\ pc[j] \in {"swap", "pubRetry", "backoff"} => status = "submitted"
    /\ pc[j] \in {"saveError", "pubFailed"} =>
          status \in {"submitted", "confirmed"} /\ (status = "confirmed" => DbMayFail /\ ~local[j].transient)
    /\ pc[j] \in {"saveFailed", "saveUnexpected"} => status = "failed"

\* Where a call that runs can be when the row has a verdict.
FinalAt(j) ==
    LET v == row[OrderOf[j]].status IN
    /\ pc[j] # "idle" /\ v = "failed" =>
          pc[j] \in {"failed", "unexpected", "failure", "threw", "saveUnexpected"}
    /\ pc[j] # "idle" /\ v = "confirmed" =>
          \/ pc[j] \in {"confirmed", "success"}
          \/ DbMayFail /\ pc[j] \in {"saveFailed", "saveUnexpected", "threw"}
          \/ DbMayFail /\ pc[j] \in {"saveError", "pubFailed"} /\ ~local[j].transient
                       /\ mem[j].status = "confirmed"

\* Every step keeps what the entity says: an entity holds a verdict only at the end, or
\* when the save of a confirmed one was rejected (worker.ts:180-225).
LEMMA StepOpen ==
    ASSUME TypeOK, NEW j \in Jobs, EntityAt(j), OpenAt(j), Start(j) \/ Step(j)
    PROVE  OpenAt(j)'
<1> USE DEF EntityAt, OpenAt, Verdicts, Sites, SiteStatus, Hold, Enter, Goto, TypeOK, Entities, Locals
<1>1. CASE Start(j)
    BY <1>1 DEF Start, Call
<1>2. CASE Find(j) \/ Create(j)
    BY <1>2 DEF Find, Create, FreshOrder
<1>3. CASE UpdateSave(j)
    <2>1. CASE InnerCatch(j, FALSE) /\ pc[j] = "confirmed" /\ DbMayFail
        BY <2>1 DEF InnerCatch
    <2>2. CASE OuterCatch(j)
        BY <2>2 DEF OuterCatch
    <2>3. CASE pc'[j] \in Sites \union {"threw"}
        BY <2>3
    <2> QED
        BY <1>3, <2>1, <2>2, <2>3 DEF UpdateSave, SaveFails
<1>4. CASE UpdateProgress(j)
    BY <1>4 DEF UpdateProgress
<1>5. CASE UpdatePublish(j)
    <2>1. mem[j].status = SiteStatus(pc[j]) /\ mem[j] \in Entities
        BY <1>5 DEF UpdatePublish
    <2>2. CASE OuterCatch(j)
        BY <2>2 DEF OuterCatch
    <2>3. CASE NextAttempt(j) /\ pc[j] = "building70"
        BY <2>1, <2>3 DEF NextAttempt
    <2>4. CASE Hold(j, "saveQuotes", [mem[j] EXCEPT !.quotes = TRUE]) /\ pc[j] = "routing30"
        BY <2>1, <2>4
    <2>5. CASE \/ Hold(j, "quotes", mem[j]) /\ pc[j] = "routing10"
               \/ Hold(j, "build", mem[j]) /\ pc[j] = "building50"
               \/ Hold(j, "swap", mem[j]) /\ pc[j] = "submitted"
        <3>1. pc[j] = "routing10" => mem[j].status = "routing"
            BY <2>1
        <3>2. pc[j] = "building50" => mem[j].status = "building"
            BY <2>1
        <3>3. pc[j] = "submitted" => mem[j].status = "submitted"
            BY <2>1
        <3> QED
            BY <2>5, <3>1, <3>2, <3>3
    <2>6. CASE pc'[j] \in {"success", "failure"}
        BY <2>6
    <2> QED
        BY <1>5, <2>2, <2>3, <2>4, <2>5, <2>6 DEF UpdatePublish, AfterUpdate
<1>6. CASE Quotes(j) \/ SaveQuotes(j) \/ Build(j) \/ SaveAttempt(j)
    <2>1. CASE OuterCatch(j)
        BY <2>1 DEF OuterCatch
    <2>2. CASE pc'[j] \in Sites
        BY <2>2
    <2> QED
        BY <1>6, <2>1, <2>2 DEF Quotes, SaveQuotes, Build, SaveAttempt
<1>7. CASE Swap(j)
    <2>1. CASE pc'[j] = "saveSwap"
        BY <2>1
    <2>2. CASE InnerCatch(j, TRUE)
        BY <1>7, <2>2 DEF Swap, InnerCatch
    <2> QED
        BY <1>7, <2>1, <2>2 DEF Swap
<1>8. CASE SaveSwap(j)
    <2>1. CASE pc'[j] = "confirmed"
        BY <2>1
    <2>2. CASE InnerCatch(j, FALSE) /\ DbMayFail
        BY <1>8, <2>2 DEF SaveSwap, InnerCatch
    <2> QED
        BY <1>8, <2>1, <2>2 DEF SaveSwap, SaveFails
<1>9. CASE SaveError(j) \/ SaveFailed(j)
    <2>1. CASE OuterCatch(j)
        BY <2>1 DEF OuterCatch
    <2>2. CASE pc'[j] \in Sites
        BY <2>2
    <2>3. CASE SaveError(j) /\ Goto(j, "pubFailed") /\ UNCHANGED mem
        BY <2>3 DEF SaveError
    <2> QED
        BY <1>9, <2>1, <2>2, <2>3 DEF SaveError, SaveFailed
<1>10. CASE PublishFailed(j)
    BY <1>10 DEF PublishFailed, GivesUp
<1>11. CASE PublishRetry(j) \/ Backoff(j) \/ SaveUnexpected(j)
    BY <1>11 DEF PublishRetry, Backoff, SaveUnexpected, NextAttempt
<1> QED
    BY <1>1, <1>2, <1>3, <1>4, <1>5, <1>6, <1>7, <1>8, <1>9, <1>10, <1>11 DEF Step

\* A call that has not begun, or that a crash ended, makes no step.
LEMMA IdleWaits == ASSUME NEW j, Step(j) PROVE pc[j] # "idle"
BY DEF Sites, Step, Find, Create, UpdateSave, UpdateProgress, UpdatePublish, Quotes, SaveQuotes, Build,
   SaveAttempt, Swap, SaveSwap, SaveError, PublishFailed, SaveFailed, PublishRetry, Backoff, SaveUnexpected

\* Every step keeps it, if a first call finds no verdict: the row turns failed only from
\* an entity that failed for good (worker.ts:225, 284).
LEMMA StepFinal ==
    ASSUME TypeOK, NEW j \in Jobs, EntityAt(j), OpenAt(j), RowAt(j), FinalAt(j), Start(j) \/ Step(j),
           pc[j] = "idle" => row[OrderOf[j]].status \notin Verdicts
    PROVE  FinalAt(j)'
<1> DEFINE o == OrderOf[j]
<1> USE DEF Hold, Enter, Goto, TypeOK
<1>0. o \in Orders
    BY OrderOfAssumption
<1>1. CASE row' = row
    <2>1. CASE pc[j] = "idle" \/ row[o].status \notin Verdicts
        <3>1. row'[o].status \notin Verdicts
            BY <1>1, <2>1
        <3> QED
            BY <3>1 DEF FinalAt, Verdicts
    <2>2. CASE pc[j] # "idle" /\ row[o].status = "failed"
        <3>1. pc[j] \in {"failed", "unexpected", "failure", "threw", "saveUnexpected"}
            BY <2>2 DEF FinalAt
        <3>2. UpdateSave(j) \/ UpdateProgress(j) \/ UpdatePublish(j) \/ SaveUnexpected(j)
            BY <2>2, <3>1 DEF Start, Step, Find, Create, Quotes, SaveQuotes, Build, SaveAttempt, Swap, SaveSwap,
               SaveError, PublishFailed, SaveFailed, PublishRetry, Backoff
        <3>3. pc'[j] \in {"failed", "unexpected", "failure", "threw", "saveUnexpected"}
            BY <3>1, <3>2 DEF UpdateSave, UpdateProgress, UpdatePublish, AfterUpdate, SaveUnexpected, OuterCatch
        <3> QED
            BY <1>1, <2>2, <3>3 DEF FinalAt
    <2>3. CASE pc[j] # "idle" /\ row[o].status = "confirmed"
        <3>1. CASE pc[j] \in {"confirmed", "success"}
            <4>1. UpdateSave(j) \/ UpdateProgress(j) \/ UpdatePublish(j)
                BY <3>1 DEF Start, Step, Find, Create, Quotes, SaveQuotes, Build, SaveAttempt, Swap, SaveSwap,
                   SaveError, PublishFailed, SaveFailed, PublishRetry, Backoff, SaveUnexpected
            <4>2. \/ pc'[j] \in {"confirmed", "success"}
                  \/ DbMayFail /\ pc'[j] = "saveError" /\ ~local'[j].transient /\ mem'[j].status = "confirmed"
                BY <3>1, <4>1 DEF Entities, EntityAt, UpdateSave, UpdateProgress, UpdatePublish, AfterUpdate, InnerCatch, SaveFails, Sites, Locals
            <4> QED
                BY <1>1, <2>3, <4>2 DEF FinalAt
        <3>2. CASE DbMayFail /\ pc[j] \in {"saveFailed", "saveUnexpected", "threw"}
            <4>1. SaveFailed(j) \/ SaveUnexpected(j)
                BY <3>2 DEF Sites, Start, Step, Find, Create, UpdateSave, UpdateProgress, UpdatePublish, Quotes, SaveQuotes,
                   Build, SaveAttempt, Swap, SaveSwap, SaveError, PublishFailed, PublishRetry, Backoff
            <4>2. mem[j].status = "failed" /\ mem[j] \in Entities
                BY <3>2, <4>1 DEF OpenAt, SaveFailed, SaveUnexpected
            <4>3. pc'[j] \in {"saveUnexpected", "threw"}
                BY <1>0, <1>1, <2>3, <4>1, <4>2 DEF SaveFailed, SaveUnexpected, SaveOk, OuterCatch
            <4> QED
                BY <1>1, <2>3, <3>2, <4>3 DEF FinalAt
        <3>3. CASE DbMayFail /\ pc[j] \in {"saveError", "pubFailed"} /\ ~local[j].transient
                                                              /\ mem[j].status = "confirmed"
            <4>1. SaveError(j) \/ PublishFailed(j)
                BY <3>3 DEF Sites, Start, Step, Find, Create, UpdateSave, UpdateProgress, UpdatePublish, Quotes, SaveQuotes,
                   Build, SaveAttempt, Swap, SaveSwap, SaveFailed, PublishRetry, Backoff, SaveUnexpected
            <4>2. /\ local' = local
                  /\ \/ pc'[j] \in {"saveFailed", "saveUnexpected"}
                     \/ pc'[j] = "pubFailed" /\ mem'[j].status = "confirmed"
                BY <3>3, <4>1 DEF SaveError, PublishFailed, GivesUp, OuterCatch
            <4> QED
                BY <1>1, <2>3, <3>3, <4>2 DEF FinalAt
        <3> QED
            BY <2>3, <3>1, <3>2, <3>3 DEF FinalAt
    <2> QED
        BY <2>1, <2>2, <2>3 DEF Verdicts
<1>2. CASE row' # row
    <2>1. row'[o] = mem[j] /\ mem[j] \in Entities
        BY <1>0, <1>2 DEF SaveOk, SaveFails, Start, Call, Step, Find, Create, UpdateSave, UpdateProgress, UpdatePublish, Quotes,
           SaveQuotes, Build, SaveAttempt, Swap, SaveSwap, SaveError, PublishFailed, SaveFailed,
           PublishRetry, Backoff, SaveUnexpected
    <2>2. CASE Create(j) \/ SaveQuotes(j) \/ SaveAttempt(j)
        <3>1. mem[j].status \notin Verdicts
            BY <2>2 DEF OpenAt, Verdicts, Create, SaveQuotes, SaveAttempt
        <3> QED
            BY <2>1, <3>1 DEF FinalAt, Verdicts
    <2>3. CASE UpdateSave(j)
        <3>1. mem[j].status = SiteStatus(pc[j]) /\ pc[j] \in Sites
            BY <2>3 DEF EntityAt, UpdateSave
        <3>2. CASE pc[j] = "confirmed"
            <4>1. mem[j].status = "confirmed"
                BY <3>1, <3>2 DEF SiteStatus
            <4>2. \/ pc'[j] = "confirmed"
                  \/ DbMayFail /\ pc'[j] = "saveError" /\ ~local'[j].transient /\ mem'[j].status = "confirmed"
                BY <2>3, <3>2, <4>1 DEF UpdateSave, SaveFails, InnerCatch, Locals, Entities
            <4> QED
                BY <2>1, <4>1, <4>2 DEF FinalAt
        <3>3. CASE pc[j] \in {"failed", "unexpected"}
            <4>1. pc'[j] \in {"failed", "unexpected", "threw", "saveUnexpected"}
                BY <2>3, <3>3 DEF UpdateSave, OuterCatch
            <4>2. mem[j].status = "failed"
                BY <3>1, <3>3 DEF SiteStatus
            <4> QED
                BY <2>1, <4>1, <4>2 DEF FinalAt
        <3>4. CASE pc[j] \in Sites \ {"confirmed", "failed", "unexpected"}
            BY <2>1, <3>1, <3>4 DEF FinalAt, Sites, SiteStatus
        <3> QED
            BY <3>1, <3>2, <3>3, <3>4
    <2>4. CASE SaveSwap(j)
        <3>1. mem[j].status = "confirmed"
            BY <2>4 DEF EntityAt, SaveSwap
        <3>2. \/ pc'[j] = "confirmed"
              \/ DbMayFail /\ pc'[j] = "saveError" /\ ~local'[j].transient /\ mem'[j].status = "confirmed"
            BY <2>4, <3>1 DEF SaveSwap, SaveFails, InnerCatch, Locals, Entities
        <3> QED
            BY <2>1, <3>1, <3>2 DEF FinalAt
    <2>5. CASE SaveError(j)
        <3>1. mem[j].status # "failed" /\ (mem[j].status = "confirmed" => DbMayFail /\ ~local[j].transient)
            BY <2>5 DEF OpenAt, SaveError
        <3>2. /\ local' = local
              /\ pc'[j] = "saveUnexpected" \/ (pc'[j] = "pubFailed" /\ mem' = mem)
            BY <2>5 DEF SaveError, OuterCatch
        <3> QED
            BY <2>1, <3>1, <3>2 DEF FinalAt
    <2>6. CASE SaveFailed(j) \/ SaveUnexpected(j)
        <3>1. mem[j].status = "failed"
            BY <2>6 DEF OpenAt, SaveFailed, SaveUnexpected
        <3>2. pc'[j] \in {"failed", "unexpected", "threw", "saveUnexpected"}
            BY <2>6 DEF SaveFailed, SaveUnexpected, OuterCatch
        <3> QED
            BY <2>1, <3>1, <3>2 DEF FinalAt
    <2> QED
        BY <1>2, <2>2, <2>3, <2>4, <2>5, <2>6
           DEF Start, Call, Step, Find, UpdateProgress, UpdatePublish, Quotes, Build, Swap, PublishFailed,
               PublishRetry, Backoff
<1> QED
    BY <1>1, <1>2

\* So a step changes a verdict at most from confirmed to failed, and only when the
\* database may fail.
LEMMA VerdictStays ==
    ASSUME TypeOK, NEW j \in Jobs, EntityAt(j), FinalAt(j), OpenAt(j), Step(j),
           row[OrderOf[j]].status \in Verdicts
    PROVE  \/ row'[OrderOf[j]].status = row[OrderOf[j]].status
           \/ DbMayFail /\ row[OrderOf[j]].status = "confirmed" /\ row'[OrderOf[j]].status = "failed"
<1>1. row' = row \/ row' = [row EXCEPT ![OrderOf[j]] = mem[j]]
    BY DEF Step, Find, Create, UpdateSave, UpdateProgress, UpdatePublish, Quotes, SaveQuotes, Build, SaveAttempt,
           Swap, SaveSwap, SaveError, PublishFailed, SaveFailed, PublishRetry, Backoff, SaveUnexpected,
           SaveOk, SaveFails
<1>2. CASE row' = row
    BY <1>2
<1>3. CASE row' # row
    <2>1. row'[OrderOf[j]] = mem[j]
        BY <1>1, <1>3, OrderOfAssumption DEF TypeOK
    <2>2. pc[j] \in Sites \union {"create", "saveQuotes", "saveAttempt", "saveSwap", "saveError", "saveFailed",
                                  "saveUnexpected"}
        BY <1>3 DEF Step, Find, Create, UpdateSave, UpdateProgress, UpdatePublish, Quotes, SaveQuotes, Build,
           SaveAttempt, Swap, SaveSwap, SaveError, PublishFailed, SaveFailed, PublishRetry, Backoff,
           SaveUnexpected
    <2> QED
        BY <2>1, <2>2, IdleWaits DEF FinalAt, OpenAt, EntityAt, Verdicts, Sites, SiteStatus
<1> QED
    BY <1>2, <1>3

\* A call of another order changes none of this.
LEMMA OthersFinal ==
    ASSUME TypeOK, SoleWriter, NEW j \in Jobs, Start(j) \/ Step(j), NEW i \in Jobs \ {j}
    PROVE  /\ OpenAt(i) => OpenAt(i)'
           /\ FinalAt(i) => FinalAt(i)'
           /\ row'[OrderOf[i]] = row[OrderOf[i]]
<1>1. /\ pc'[i] = pc[i] /\ local'[i] = local[i] /\ mem'[i] = mem[i]
      /\ row'[OrderOf[i]] = row[OrderOf[i]]
    BY StepFrame, OrderOfAssumption DEF SoleWriter
<1> QED
    BY <1>1 DEF OpenAt, FinalAt

-----------------------------------------------------------------------------
(* The trace that a swap leaves; for the engine. *)

\* The entity of an order whose swap was sent: submitted or later, after an attempt.
Sent(e) == e.status \in {"submitted", "confirmed", "failed"} /\ e.attempts >= 1 /\ e.quotes

\* A swap that was executed is on record, and the loop counts attempts from one.
TraceAt(j) ==
    /\ pc[j] \in {"saveAttempt", "submitted", "swap"} => local[j].attempt >= 1
    /\ swaps[j] > 0 => Sent(mem[j]) /\ row[OrderOf[j]] # NoRow /\ Sent(row[OrderOf[j]])

\* A step of a settled call leaves in the entity what was there of an attempt.
LEMMA SettledSent ==
    ASSUME TypeOK, NEW j \in Jobs, Start(j) \/ Step(j), Settled(j), pc[j] # "idle", Sent(mem[j])
    PROVE  Sent(mem'[j])
<1> DEFINE m == mem[j]
           n == mem'[j]
<1>1. m \in Entities
    BY DEF TypeOK
<1>2. \/ n = m
      \/ n = [m EXCEPT !.status = "failed"]
      \/ n = [m EXCEPT !.status = "confirmed"]
      \/ n = [m EXCEPT !.lastError = TRUE]
      \/ n = [m EXCEPT !.status = "failed", !.lastError = TRUE]
    <2>1. CASE UpdateSave(j) \/ UpdateProgress(j) \/ UpdatePublish(j)
        BY <2>1 DEF TypeOK, UpdateSave, UpdateProgress, UpdatePublish, AfterUpdate, Hold, Goto, OuterCatch, InnerCatch,
           Settled, Ended, Sites
    <2>2. CASE SaveSwap(j) \/ SaveError(j) \/ PublishFailed(j) \/ SaveFailed(j) \/ SaveUnexpected(j)
        BY <2>2 DEF TypeOK, SaveSwap, SaveError, PublishFailed, SaveFailed, SaveUnexpected, Enter, Hold, Goto,
           OuterCatch, InnerCatch, SiteStatus
    <2> QED
        BY <2>1, <2>2 DEF Start, Call, Step, Find, Create, Quotes, SaveQuotes, Build, SaveAttempt, Swap,
           PublishRetry, Backoff, Settled, Ended
<1>3. n.attempts = m.attempts /\ n.quotes = m.quotes /\ n.status \in {m.status, "failed", "confirmed"}
    BY <1>1, <1>2 DEF Entities
<1> HIDE DEF m, n
<1> QED
    BY <1>3 DEF Sent, m, n

\* The row has the attempt before the swap is sent, and no step takes it away
\* (worker.ts:153-171).
LEMMA StepTrace ==
    ASSUME TypeOK, NEW j \in Jobs, EntityAt(j), RowAt(j), SwapAt(j), TraceAt(j), Start(j) \/ Step(j),
           pc[j] = "idle" => swaps[j] = 0
    PROVE  TraceAt(j)'
<1> DEFINE Looping == {"saveAttempt", "submitted", "swap"}
<1>1. pc'[j] \in Looping => local'[j].attempt >= 1
    <2>1. local[j].attempt \in 0..MaxAttempts
        BY DEF TypeOK, Locals
    <2>2. pc'[j] \in Looping => \/ pc[j] \in Looping /\ local'[j] = local[j]
                                \/ local'[j].attempt = local[j].attempt + 1
        BY DEF TypeOK, Start, Call, Step, Find, Create, UpdateSave, UpdateProgress, UpdatePublish, AfterUpdate,
           Quotes, SaveQuotes, Build, SaveAttempt, Swap, SaveSwap, SaveError, PublishFailed, SaveFailed,
           PublishRetry, Backoff, SaveUnexpected, Enter, Hold, Goto, OuterCatch, InnerCatch, NextAttempt, Sites,
           Locals
    <2>3. local[j].attempt + 1 >= 1
        BY <2>1, AttemptsAssumption
    <2> QED
        BY <2>2, <2>3 DEF TraceAt
<1>2. CASE swaps[j] > 0
    <2>1. Settled(j) /\ pc[j] # "idle"
        BY <1>2 DEF SwapAt, TypeOK
    <2>2. Sent(mem'[j])
        BY <1>2, <2>1, SettledSent DEF TraceAt
    <2>3. row' = row \/ row'[OrderOf[j]] = mem[j]
        BY OrderOfAssumption
           DEF TypeOK, Start, Call, Step, Find, Create, UpdateSave, UpdateProgress, UpdatePublish,
               Quotes, SaveQuotes, Build, SaveAttempt, Swap, SaveSwap, SaveError, PublishFailed, SaveFailed,
               PublishRetry, Backoff, SaveUnexpected, SaveOk, SaveFails
    <2>4. mem[j] # NoRow
        BY DEF TypeOK, Entities, NoRow, Statuses
    <2> QED
        BY <1>1, <1>2, <2>2, <2>3, <2>4 DEF TraceAt
<1>3. CASE swaps[j] = 0 /\ swaps'[j] > 0
    <2>0. swaps' # swaps
        BY <1>3
    <2>1. Swap(j)
        BY <2>0 DEF Start, Call, Step, Find, Create, UpdateSave, UpdateProgress, UpdatePublish,
           Quotes, SaveQuotes, Build, SaveAttempt, SaveSwap, SaveError, PublishFailed, SaveFailed,
           PublishRetry, Backoff, SaveUnexpected
    <2>2. /\ pc[j] = "swap" /\ row' = row
          /\ mem'[j] = [mem[j] EXCEPT !.txHash = [job |-> j, nth |-> swaps[j] + 1], !.status = "confirmed"]
        BY <1>3, <2>1 DEF TypeOK, Swap, Hold, InnerCatch
    <2>3. mem[j] \in Entities /\ mem[j] # NoRow
        BY DEF TypeOK, Entities, NoRow, Statuses
    <2>4. /\ mem'[j].status = "confirmed" /\ mem'[j].attempts = mem[j].attempts
          /\ mem'[j].quotes = mem[j].quotes
        BY <2>2, <2>3 DEF Entities
    <2>5. row[OrderOf[j]] = mem[j] /\ Sent(mem[j])
        BY <2>2 DEF RowAt, EntityAt, TraceAt, QuotedPoints, Sent
    <2>6. Sent(mem'[j])
        BY <2>4, <2>5 DEF Sent
    <2> QED
        BY <1>1, <2>2, <2>3, <2>5, <2>6 DEF TraceAt
<1>4. swaps[j] \in {0, 1} /\ swaps'[j] \in {0, 1}
    BY StepSwapAt DEF SwapAt
<1>5. CASE swaps'[j] = 0
    BY <1>1, <1>5 DEF TraceAt
<1> QED
    BY <1>2, <1>3, <1>4, <1>5

\* A call of another order does not touch it.
LEMMA OthersTrace ==
    ASSUME TypeOK, SoleWriter, NEW j \in Jobs, Start(j) \/ Step(j), NEW i \in Jobs \ {j}, TraceAt(i)
    PROVE  TraceAt(i)'
<1>1. /\ pc'[i] = pc[i] /\ local'[i] = local[i] /\ mem'[i] = mem[i] /\ swaps'[i] = swaps[i]
      /\ row'[OrderOf[i]] = row[OrderOf[i]]
    BY StepFrame, OrderOfAssumption DEF SoleWriter
<1> QED
    BY <1>1 DEF TraceAt

-----------------------------------------------------------------------------
(* The row goes through the statuses in order; for engine and notifications. *)

Rank(status) ==
    CASE status \in {"missing", "none", "pending"} -> 0
      [] status = "routing"                        -> 1
      [] status = "building"                       -> 2
      [] status = "submitted"                      -> 3
      [] status = "confirmed"                      -> 4
      [] OTHER                                     -> 5

\* No row is ahead of the entity of its call, if the row was there from the start.
RankAt(j) ==
    LET r == row[OrderOf[j]] IN
    /\ pc[j] # "create"
    /\ pc[j] \in {"idle", "find"} => r.status = "pending"
    /\ pc[j] \notin {"idle", "find"} \union Ended => Rank(r.status) <= Rank(mem[j].status)

\* Nothing comes after failed.
LEMMA RankRange == \A status : Rank(status) \in 0..5 /\ Rank(status) <= Rank("failed")
BY DEF Rank

\* No step takes the entity back (worker.ts:66-300).
LEMMA EntityGrows ==
    ASSUME TypeOK, NEW j \in Jobs, EntityAt(j), OpenAt(j), Step(j), pc[j] # "find"
    PROVE  Rank(mem[j].status) <= Rank(mem'[j].status)
<1> DEFINE m == mem[j].status
           n == mem'[j].status
<1>0. mem[j] \in Entities /\ Rank(m) \in 0..5 /\ Rank(n) \in 0..5
    BY RankRange DEF TypeOK
<1>1. CASE mem' = mem
    BY <1>0, <1>1
<1>2. CASE OuterCatch(j)
    BY <1>0, <1>2, OuterCatchEffect, RankRange
<1>3. CASE InnerCatch(j, TRUE) \/ InnerCatch(j, FALSE) \/ NextAttempt(j)
    <2>1. TRUE \in BOOLEAN /\ FALSE \in BOOLEAN
        OBVIOUS
    <2>2. n = m
        BY <1>3, <2>1, InnerCatchEffect, NextAttemptEffect
    <2> QED
        BY <1>0, <2>2
<1>4. ASSUME NEW s \in Sites, Enter(j, s, mem[j]), Rank(m) <= Rank(SiteStatus(s))
      PROVE  Rank(m) <= Rank(n)
    BY <1>0, <1>4, EnterEffect
<1>5. ASSUME NEW p, NEW e \in Entities, Hold(j, p, e), e.status = m \/ e.status = "failed"
      PROVE  Rank(m) <= Rank(n)
    <2>1. mem'[j] = e
        BY <1>5 DEF TypeOK, Hold
    <2>2. CASE e.status = m
        BY <1>0, <2>1, <2>2
    <2>3. CASE e.status = "failed"
        BY <1>0, <2>1, <2>3, RankRange
    <2> QED
        BY <1>5, <2>2, <2>3
<1>6. CASE UpdateSave(j) \/ UpdateProgress(j) \/ UpdatePublish(j)
    <2>1. \/ mem' = mem \/ OuterCatch(j) \/ InnerCatch(j, FALSE) \/ NextAttempt(j)
          \/ Hold(j, "saveQuotes", [mem[j] EXCEPT !.quotes = TRUE])
          \/ \E p \in Points : Hold(j, p, mem[j])
        BY <1>6 DEF UpdateSave, UpdateProgress, UpdatePublish, AfterUpdate, Points, Ended, Sites
    <2>2. [mem[j] EXCEPT !.quotes = TRUE] \in Entities /\ [mem[j] EXCEPT !.quotes = TRUE].status = m
        BY <1>0 DEF Entities
    <2> QED
        BY <1>0, <1>1, <1>2, <1>3, <1>5, <2>1, <2>2
<1>7. CASE Create(j) \/ Quotes(j) \/ SaveQuotes(j) \/ Build(j) \/ SaveAttempt(j) \/ SaveSwap(j)
              \/ SaveFailed(j) \/ SaveUnexpected(j)
    <2>1. CASE mem' = mem \/ OuterCatch(j) \/ InnerCatch(j, FALSE)
        BY <1>1, <1>2, <1>3, <2>1
    <2>2. CASE ~(mem' = mem \/ OuterCatch(j) \/ InnerCatch(j, FALSE))
        <3>1. \/ pc[j] = "create"      /\ Enter(j, "routing10", mem[j])
              \/ pc[j] = "quotes"      /\ Enter(j, "routing30", mem[j])
              \/ pc[j] = "saveQuotes"  /\ Enter(j, "building50", mem[j])
              \/ pc[j] = "build"       /\ Enter(j, "building70", mem[j])
              \/ pc[j] = "saveAttempt" /\ Enter(j, "submitted", mem[j])
              \/ pc[j] = "saveSwap"    /\ Enter(j, "confirmed", mem[j])
              \/ Enter(j, "failed", mem[j]) \/ Enter(j, "unexpected", mem[j])
            BY <1>7, <2>2 DEF Create, Quotes, SaveQuotes, Build, SaveAttempt, SaveSwap, SaveFailed, SaveUnexpected
        <3>2. /\ pc[j] = "create" => Rank(m) = 0
              /\ pc[j] = "quotes" => Rank(m) = 1
              /\ pc[j] = "saveQuotes" => Rank(m) = 1
              /\ pc[j] = "build" => Rank(m) = 2
              /\ pc[j] = "saveAttempt" => Rank(m) \in {2, 3}
              /\ pc[j] = "saveSwap" => Rank(m) = 4
            BY DEF EntityAt, OpenAt, Rank
        <3>3. /\ Rank(SiteStatus("routing10")) = 1 /\ Rank(SiteStatus("routing30")) = 1
              /\ Rank(SiteStatus("building50")) = 2 /\ Rank(SiteStatus("building70")) = 2
              /\ Rank(SiteStatus("submitted")) = 3 /\ Rank(SiteStatus("confirmed")) = 4
              /\ Rank(SiteStatus("failed")) = 5 /\ Rank(SiteStatus("unexpected")) = 5
            BY DEF SiteStatus, Rank
        <3> QED
            BY <1>0, <1>4, <3>1, <3>2, <3>3, SiteOf
    <2> QED
        BY <2>1, <2>2
<1>8. CASE Swap(j)
    <2> DEFINE e == [mem[j] EXCEPT !.txHash = [job |-> j, nth |-> swaps[j] + 1],
                                   !.status = "confirmed"]
    <2>1. CASE Hold(j, "saveSwap", e)
        <3>1. n = "confirmed" /\ m = "submitted"
            BY <1>0, <1>8, <2>1 DEF TypeOK, OpenAt, Swap, Hold, Entities
        <3> QED
            BY <3>1 DEF Rank
    <2> QED
        BY <1>3, <1>8, <2>1 DEF Swap
<1>9. CASE SaveError(j) \/ PublishFailed(j) \/ PublishRetry(j) \/ Backoff(j)
    <2>1. \/ mem' = mem \/ OuterCatch(j) \/ NextAttempt(j)
          \/ Hold(j, "saveFailed", [mem[j] EXCEPT !.status = "failed"])
          \/ Hold(j, "pubRetry", mem[j])
        BY <1>9 DEF SaveError, PublishFailed, PublishRetry, Backoff
    <2>2. [mem[j] EXCEPT !.status = "failed"] \in Entities /\ [mem[j] EXCEPT !.status = "failed"].status = "failed"
        BY <1>0 DEF Entities, Statuses
    <2> QED
        BY <1>0, <1>1, <1>2, <1>3, <1>5, <2>1, <2>2
<1> QED
    BY <1>6, <1>7, <1>8, <1>9 DEF Step, Find

\* A step leaves the row or saves the entity.
LEMMA RowSaved ==
    ASSUME TypeOK, NEW j \in Jobs, Start(j) \/ Step(j)
    PROVE  \/ row' = row
           \/ row'[OrderOf[j]] = mem[j] /\ Step(j) /\ pc[j] \notin {"idle", "find"} \union Ended
BY OrderOfAssumption
   DEF TypeOK, Ended, Sites, Start, Call, Step, Find, Create, UpdateSave, UpdateProgress, UpdatePublish,
       Quotes, SaveQuotes, Build, SaveAttempt, Swap, SaveSwap, SaveError, PublishFailed, SaveFailed,
       PublishRetry, Backoff, SaveUnexpected, SaveOk, SaveFails

\* No step takes the row back, or lets it get ahead of the entity.
LEMMA StepRank ==
    ASSUME TypeOK, NEW j \in Jobs, EntityAt(j), OpenAt(j), RankAt(j), Start(j) \/ Step(j)
    PROVE  RankAt(j)' /\ Rank(row[OrderOf[j]].status) <= Rank(row'[OrderOf[j]].status)
<1> DEFINE r == row[OrderOf[j]].status
           s == row'[OrderOf[j]].status
           m == mem[j].status
           n == mem'[j].status
<1>0. Rank(r) \in 0..5 /\ Rank(s) \in 0..5 /\ Rank(m) \in 0..5 /\ Rank(n) \in 0..5
    BY RankRange
<1>1. CASE Start(j)
    BY <1>0, <1>1 DEF TypeOK, Start, Call, Goto, RankAt
<1>2. CASE Step(j) /\ pc[j] = "find"
    <2>1. Find(j)
        BY <1>2 DEF Sites, Step, Create, UpdateSave, UpdateProgress, UpdatePublish, Quotes, SaveQuotes, Build,
           SaveAttempt, Swap, SaveSwap, SaveError, PublishFailed, SaveFailed, PublishRetry, Backoff,
           SaveUnexpected
    <2>2. row[OrderOf[j]] # NoRow /\ r = "pending" /\ row' = row /\ row[OrderOf[j]] \in Entities
        BY <1>2, <2>1, OrderOfAssumption DEF TypeOK, Find, RankAt, NoRow
    <2>3. \/ pc'[j] = "routing10" /\ n = "routing"
          \/ pc'[j] = "threw"
        BY <2>1, <2>2 DEF TypeOK, Find, Enter, Goto, SiteStatus, Entities
    <2> QED
        BY <1>0, <2>2, <2>3 DEF RankAt, Rank, Ended
<1>3. CASE Step(j) /\ pc[j] # "find"
    <2>1. Rank(m) <= Rank(n)
        BY <1>3, EntityGrows
    <2>2. pc[j] \notin {"idle", "find"} \union Ended /\ pc'[j] \notin {"idle", "find", "create"}
        BY <1>3 DEF TypeOK, Ended, Sites, Step, Find, Create, UpdateSave, UpdateProgress, UpdatePublish,
           AfterUpdate, Quotes, SaveQuotes, Build, SaveAttempt, Swap, SaveSwap, SaveError, PublishFailed,
           SaveFailed, PublishRetry, Backoff, SaveUnexpected, Enter, Hold, Goto, OuterCatch, InnerCatch,
           NextAttempt
    <2>3. Rank(r) <= Rank(m)
        BY <2>2 DEF RankAt
    <2>4. s = r \/ s = m
        BY RowSaved
    <2> QED
        BY <1>0, <2>1, <2>2, <2>3, <2>4 DEF RankAt
<1> QED
    BY <1>1, <1>2, <1>3

\* A call of another order changes none of this.
LEMMA OthersRank ==
    ASSUME TypeOK, SoleWriter, NEW j \in Jobs, Start(j) \/ Step(j), NEW i \in Jobs \ {j}, RankAt(i)
    PROVE  RankAt(i)'
<1>1. pc'[i] = pc[i] /\ mem'[i] = mem[i] /\ row'[OrderOf[i]] = row[OrderOf[i]]
    BY StepFrame, OrderOfAssumption DEF SoleWriter
<1> QED
    BY <1>1 DEF RankAt

RowInv == \A j \in Jobs : OpenAt(j) /\ (SoleWriter => RankAt(j))

\* Before any call no row that is there is ahead.
LEMMA InitRow == Init /\ row = [o \in Orders |-> FreshOrder] => RowInv
<1> SUFFICES ASSUME Init, row = [o \in Orders |-> FreshOrder], NEW j \in Jobs
             PROVE  OpenAt(j) /\ RankAt(j)
    BY DEF RowInv
<1>1. pc[j] = "idle" /\ row[OrderOf[j]].status = "pending"
    BY OrderOfAssumption DEF Init, FreshOrder
<1> QED
    BY <1>1 DEF OpenAt, RankAt

\* No step takes any row back.
LEMMA NextRow ==
    ASSUME IInv, VerdictInv, RowInv, [Next]_vars
    PROVE  /\ RowInv'
           /\ SoleWriter => \A o \in Orders : Rank(row[o].status) <= Rank(row'[o].status)
<1>0. \A o \in Orders : Rank(row[o].status) \in 0..5
    BY RankRange
<1>1. CASE UNCHANGED vars
    BY <1>0, <1>1 DEF vars, RowInv, OpenAt, RankAt
<1>2. ASSUME NEW j \in Jobs, Start(j) \/ Step(j)
      PROVE  /\ RowInv'
             /\ SoleWriter => \A o \in Orders : Rank(row[o].status) <= Rank(row'[o].status)
    <2>1. TypeOK /\ EntityAt(j) /\ OpenAt(j) /\ OpenAt(j)'
        BY <1>2, StepOpen DEF IInv, VerdictInv, RowInv
    <2>2. SoleWriter => /\ RankAt(j)'
                        /\ Rank(row[OrderOf[j]].status) <= Rank(row'[OrderOf[j]].status)
        BY <1>2, <2>1, StepRank DEF RowInv
    <2>3. ASSUME NEW i \in Jobs \ {j} PROVE OpenAt(i)' /\ (SoleWriter => RankAt(i)')
        <3>1. pc'[i] = pc[i] /\ local'[i] = local[i] /\ mem'[i] = mem[i]
            BY <1>2, <2>1, StepFrame
        <3>2. SoleWriter => row'[OrderOf[i]] = row[OrderOf[i]]
            BY <1>2, <2>1, StepFrame, OrderOfAssumption DEF SoleWriter
        <3> QED
            BY <3>1, <3>2 DEF RowInv, OpenAt, RankAt
    <2>4. \A o \in Orders \ {OrderOf[j]} : row'[o] = row[o]
        BY <1>2, <2>1, StepFrame
    <2> QED
        BY <1>0, <2>1, <2>2, <2>3, <2>4 DEF RowInv
<1> QED
    BY <1>1, <1>2 DEF Next, Idle

-----------------------------------------------------------------------------
(* What a call has told of its verdict; for the notifications. *)

Confirming(j) == pc[j] = "success" \/ (pc[j] = "confirmed" /\ part[j] = "publish")
Failing(j) == \/ pc[j] \in {"failure", "threw"}
              \/ pc[j] \in {"failed", "unexpected"} /\ part[j] = "publish"

\* From the report of its verdict on, a call can only return (worker.ts:73-84).
LEMMA VerdictFollows ==
    ASSUME TypeOK, NEW j \in Jobs, NEW i \in Jobs, Start(i) \/ Step(i)
    PROVE  (Confirming(j) => Confirming(j)') /\ (Failing(j) => Failing(j)')
<1>1. CASE i # j
    BY <1>1, StepFrame DEF Confirming, Failing
<1>2. CASE i = j
    <2> SUFFICES ASSUME Confirming(j) \/ Failing(j)
                 PROVE  (Confirming(j) => Confirming(j)') /\ (Failing(j) => Failing(j)')
        OBVIOUS
    <2>1. UpdatePublish(j)
        BY <1>2 DEF Confirming, Failing, Sites, Start, Step, Find, Create, UpdateSave, UpdateProgress, Quotes,
           SaveQuotes, Build, SaveAttempt, Swap, SaveSwap, SaveError, PublishFailed, SaveFailed,
           PublishRetry, Backoff, SaveUnexpected
    <2> QED
        BY <2>1 DEF TypeOK, UpdatePublish, AfterUpdate, Hold, Goto, Sites, Confirming, Failing
<1> QED
    BY <1>1, <1>2

\* What a call reports is in the row; a verdict is about to be returned
\* (worker.ts:69-76).
LEMMA ReportTold ==
    ASSUME TypeOK, NEW j \in Jobs, EntityAt(j), RowAt(j), UpdateProgress(j), ~RedisMayFail
    PROVE  /\ progress'[j].status = row[OrderOf[j]].status
           /\ progress'[j].status = "confirmed" => Confirming(j)'
           /\ progress'[j].status = "failed" => Failing(j)'
<1>1. progress'[j].status = SiteStatus(pc[j]) /\ pc[j] \in Sites /\ pc' = pc /\ part'[j] = "publish"
    BY DEF TypeOK, UpdateProgress
<1>2. row[OrderOf[j]].status = SiteStatus(pc[j])
    BY DEF UpdateProgress, EntityAt, RowAt
<1> QED
    BY <1>1, <1>2 DEF Confirming, Failing, SiteStatus, Sites

\* What a call publishes as a verdict it returns next (worker.ts:76-84).
LEMMA NoticeTold ==
    ASSUME TypeOK, NEW j \in Jobs, UpdatePublish(j) \/ PublishFailed(j) \/ PublishRetry(j),
           ~RedisMayFail
    PROVE  LET type == announced'[OrderOf[j]].type IN
           /\ type = "confirmed" => Confirming(j)'
           /\ type = "failed" => Failing(j)'
<1>1. CASE PublishFailed(j) \/ PublishRetry(j)
    BY <1>1, OrderOfAssumption DEF TypeOK, PublishFailed, PublishRetry, Publish
<1>2. CASE UpdatePublish(j)
    <2>1. announced'[OrderOf[j]].type = SiteStatus(pc[j]) /\ pc[j] \in Sites
        BY <1>2, OrderOfAssumption DEF TypeOK, UpdatePublish, Publish
    <2>2. pc[j] = "confirmed" => pc'[j] = "success"
        BY <1>2 DEF TypeOK, UpdatePublish, AfterUpdate, Hold, Goto
    <2>3. pc[j] \in {"failed", "unexpected"} => pc'[j] = "failure"
        BY <1>2 DEF TypeOK, UpdatePublish, AfterUpdate, Hold, Goto
    <2> QED
        BY <2>1, <2>2, <2>3 DEF SiteStatus, Sites, Confirming, Failing
<1> QED
    BY <1>1, <1>2

\* The verdicts told are true.
LEMMA VerdictHolds ==
    ASSUME IInv, NEW j \in Jobs, EntityAt(j), RowAt(j)
    PROVE  /\ Confirming(j) => row[OrderOf[j]].status = "confirmed" /\ swaps[j] = 1
           /\ Failing(j) => row[OrderOf[j]].status = "failed" \/ pc[j] = "threw"
<1>1. ASSUME Confirming(j) PROVE row[OrderOf[j]].status = "confirmed" /\ swaps[j] = 1
    <2> DEFINE r == row[OrderOf[j]]
    <2>1. r.status = "confirmed" /\ r.txHash.job = j
        BY <1>1 DEF Confirming, EntityAt, RowAt, Sites, SiteStatus
    <2>2. r \in Entities
        BY <2>1, OrderOfAssumption DEF IInv, TypeOK, NoRow
    <2>3. r.txHash # NoHash /\ r.txHash.nth <= swaps[j]
        BY <2>1, <2>2, OrderOfAssumption DEF IInv, HashInv, RowsReal, RealHash, NoRow
    <2>4. r.txHash.nth \in Nat \ {0}
        BY <2>2, <2>3 DEF Entities, Hashes
    <2>5. swaps[j] = 0 \/ swaps[j] = 1
        BY DEF IInv, SwapInv, SwapAt
    <2> QED
        BY <2>1, <2>3, <2>4, <2>5
<1>2. ASSUME Failing(j) PROVE row[OrderOf[j]].status = "failed" \/ pc[j] = "threw"
    BY <1>2 DEF Failing, EntityAt, RowAt, Sites, SiteStatus
<1> QED
    BY <1>1, <1>2

-----------------------------------------------------------------------------
(* The percentage that clients see grows: a bound for it at every point. *)

\* The percentage of an attempt is at least that of the building phase, and no less
\* than that of the attempt before (worker.ts:157).
LEMMA SubmitProgressGrows ==
    ASSUME NEW a \in 0..MaxAttempts
    PROVE  /\ SubmitProgress(a) \in 70..100
           /\ a < MaxAttempts => SubmitProgress(a) <= SubmitProgress(a + 1)
BY AttemptsAssumption DEF SubmitProgress

\* What a call has reported at most when it is at point p.
PercentAt(p, a) ==
    CASE p \in {"idle", "find", "create"}   -> 0
      [] p \in {"routing10", "quotes"}      -> 10
      [] p \in {"routing30", "saveQuotes"}  -> 30
      [] p \in {"building50", "build"}      -> 50
      [] p = "building70"                   -> 70
      [] p \in {"saveAttempt", "submitted", "swap", "saveSwap", "saveError", "pubFailed",
                "pubRetry", "backoff"}      -> SubmitProgress(a)
      [] OTHER                              -> 100

PercentBounded == \A j \in Jobs :
    /\ progress[j].percent <= PercentAt(pc[j], local[j].attempt)
    /\ pc[j] = "confirmed" /\ part[j] = "save" => progress[j].percent <= SubmitProgress(local[j].attempt)

\* Except for failures, what is reported at a site is the most that may have been
\* reported there.
LEMMA SiteIsBound ==
    ASSUME NEW s \in Sites, NEW a
    PROVE  SiteStatus(s) # "failed" => SiteProgress(s, a) = PercentAt(s, a)
BY DEF Sites, SiteStatus, SiteProgress, PercentAt

\* Every step keeps the percentage within the bound of the point it leads to.
LEMMA StepPercent ==
    ASSUME IInv, TypeOK', PercentBounded, NEW j \in Jobs, Start(j) \/ Step(j)
    PROVE  PercentBounded'
<1> USE DEF TypeOK
<1> DEFINE a == local[j].attempt
           b == local'[j].attempt
<1>0. TypeOK /\ AttemptsCounted
    BY DEF IInv
<1>1. a \in 0..MaxAttempts /\ b \in 0..MaxAttempts /\ progress[j].percent \in 0..100
    BY <1>0 DEF Locals, Reports
<1>2. SubmitProgress(a) \in 70..100 /\ SubmitProgress(b) \in 70..100
    BY <1>1, SubmitProgressGrows
<1>3. ASSUME a < MaxAttempts, b = a + 1, progress[j].percent <= SubmitProgress(a)
      PROVE  progress[j].percent <= SubmitProgress(b)
    <2>1. SubmitProgress(a) <= SubmitProgress(b)
        BY <1>1, <1>3, SubmitProgressGrows
    <2> HIDE DEF TypeOK, a, b
    <2> QED
        BY <1>1, <1>2, <1>3, <2>1
<1>4. CASE UpdateProgress(j)
    <2>1. pc' = pc /\ local' = local /\ part'[j] = "publish" /\ pc[j] \in Sites
        BY <1>0, <1>4 DEF UpdateProgress
    <2>2. \/ progress'[j] = progress[j]
          \/ progress'[j].percent = SiteProgress(pc[j], a)
        BY <1>0, <1>4 DEF UpdateProgress
    <2>3. SiteProgress(pc[j], a) <= PercentAt(pc[j], a)
        BY <1>2, <2>1 DEF Sites, SiteProgress, PercentAt
    <2>4. progress'[j].percent <= PercentAt(pc'[j], b)
        BY <2>1, <2>2, <2>3 DEF PercentBounded
    <2>5. \A i \in Jobs \ {j} : progress'[i] = progress[i]
        BY <1>0, <1>4 DEF UpdateProgress
    <2> QED
        BY <1>0, <2>1, <2>4, <2>5, StepFrame DEF PercentBounded
<1>5. CASE ~UpdateProgress(j)
    <2>1. progress' = progress
        BY <1>5 DEF Start, Call, Step, Find, Create, UpdateSave, UpdatePublish, Quotes, SaveQuotes, Build,
           SaveAttempt, Swap, SaveSwap, SaveError, PublishFailed, SaveFailed, PublishRetry, Backoff,
           SaveUnexpected
    <2>2. /\ progress[j].percent <= PercentAt(pc'[j], b)
          /\ pc'[j] = "confirmed" /\ part'[j] = "save" => progress[j].percent <= SubmitProgress(b)
        <3> USE <1>0, <1>1, <1>2 DEF PercentBounded, PercentAt, Sites, Hold, Enter, Goto, Locals
        <3>1. CASE Start(j) \/ Find(j) \/ Create(j) \/ Quotes(j) \/ SaveQuotes(j) \/ Build(j)
            BY <3>1 DEF Start, Call, Find, Create, Quotes, SaveQuotes, Build, OuterCatch
        <3>2. CASE UpdateSave(j)
            <4>1. CASE part' = [part EXCEPT ![j] = "progress"] /\ UNCHANGED <<pc, local, mem>>
                BY <3>2, <4>1 DEF UpdateSave
            <4>2. CASE pc[j] = "confirmed" /\ InnerCatch(j, FALSE)
                <5>1. pc'[j] = "saveError" /\ b = a
                    BY <4>2 DEF InnerCatch
                <5>2. progress[j].percent <= SubmitProgress(a)
                    BY <3>2, <4>2 DEF UpdateSave
                <5> QED
                    BY <5>1, <5>2
            <4>3. CASE pc'[j] \in {"threw", "saveUnexpected"}
                BY <4>3
            <4> QED
                BY <3>2, <4>1, <4>2, <4>3 DEF UpdateSave, OuterCatch
        <3>3. CASE UpdatePublish(j)
            <4>1. CASE pc[j] = "building70"
                BY <3>3, <4>1 DEF UpdatePublish, AfterUpdate, NextAttempt
            <4>2. CASE pc[j] # "building70"
                BY <3>3, <4>2 DEF UpdatePublish, AfterUpdate, OuterCatch
            <4> QED
                BY <4>1, <4>2
        <3>4. CASE SaveAttempt(j) \/ SaveError(j) \/ PublishFailed(j) \/ SaveFailed(j) \/ SaveUnexpected(j)
            BY <3>4 DEF SaveAttempt, SaveError, PublishFailed, SaveFailed, SaveUnexpected, OuterCatch
        <3>5. CASE Swap(j) \/ PublishRetry(j)
            <4>1. pc'[j] \in {"saveSwap", "saveError", "backoff"} /\ pc[j] \in {"swap", "pubRetry"} /\ b = a
                BY <3>5 DEF Swap, InnerCatch, PublishRetry
            <4> QED
                BY <4>1
        <3>6. CASE SaveSwap(j)
            BY <3>6 DEF SaveSwap, InnerCatch
        <3>7. CASE Backoff(j)
            <4>1. pc[j] = "backoff" /\ pc'[j] = "saveAttempt" /\ b = a + 1 /\ a < MaxAttempts
                BY <3>7 DEF Backoff, NextAttempt
            <4>2. progress[j].percent <= SubmitProgress(a)
                BY <4>1
            <4>3. progress[j].percent <= SubmitProgress(b)
                BY <1>3, <4>1, <4>2
            <4> QED
                BY <4>1, <4>3
        <3> QED
            BY <1>5, <3>1, <3>2, <3>3, <3>4, <3>5, <3>6, <3>7 DEF Step
    <2> QED
        BY <1>0, <2>1, <2>2, StepFrame DEF PercentBounded
<1> QED
    BY <1>4, <1>5

\* Nothing is reported at first.
LEMMA InitPercent == Init => PercentBounded
<1> SUFFICES ASSUME Init, NEW j \in Jobs
             PROVE  pc[j] = "idle" /\ progress[j].percent <= PercentAt("idle", local[j].attempt)
    BY DEF Init, PercentBounded
<1>1. progress[j].percent = 0
    BY DEF Init
<1> QED
    BY <1>1 DEF Init, PercentAt

\* Every step keeps the bound.
LEMMA NextPercent == IInv /\ PercentBounded /\ [Next]_vars => PercentBounded'
<1> SUFFICES ASSUME IInv, PercentBounded, [Next]_vars PROVE IInv' /\ PercentBounded'
    OBVIOUS
<1>1. IInv'
    BY NextIInv
<1>2. CASE UNCHANGED vars
    BY <1>1, <1>2 DEF vars, PercentBounded
<1>3. ASSUME NEW j \in Jobs, Start(j) \/ Step(j) PROVE PercentBounded'
    BY <1>1, <1>3, StepPercent DEF IInv
<1> QED
    BY <1>1, <1>2, <1>3 DEF Next, Idle

\* A step that reports, reports a higher percentage or a failure.
LEMMA StepGrows ==
    ASSUME IInv, PercentBounded, NEW j \in Jobs, Start(j) \/ Step(j)
    PROVE  \A i \in Jobs : progress'[i].percent >= progress[i].percent \/ progress'[i].status = "failed"
<1>0. TypeOK /\ \A i \in Jobs : progress[i].percent \in 0..100
    BY DEF IInv, TypeOK, Reports
<1>1. CASE ~UpdateProgress(j)
    <2>1. progress' = progress
        BY <1>1 DEF Start, Call, Step, Find, Create, UpdateSave, UpdatePublish, Quotes, SaveQuotes, Build,
           SaveAttempt, Swap, SaveSwap, SaveError, PublishFailed, SaveFailed, PublishRetry, Backoff,
           SaveUnexpected
    <2> QED
        BY <1>0, <2>1
<1>2. CASE UpdateProgress(j) /\ progress' # progress
    <2>1. /\ pc[j] \in Sites
          /\ progress'[j] = [status |-> SiteStatus(pc[j]),
                             percent |-> SiteProgress(pc[j], local[j].attempt)]
          /\ \A i \in Jobs \ {j} : progress'[i] = progress[i]
        BY <1>0, <1>2 DEF TypeOK, UpdateProgress
    <2>2. progress[j].percent <= PercentAt(pc[j], local[j].attempt)
        BY DEF PercentBounded
    <2>3. progress'[j].status = "failed" \/ progress'[j].percent >= progress[j].percent
        BY <1>0, <2>1, <2>2, SiteIsBound
    <2> QED
        BY <1>0, <2>1, <2>3
<1> QED
    BY <1>0, <1>1, <1>2

\* The percentage never falls but to 0 with a failure, for every number of attempts
\* (worker.ts:90-292).
THEOREM PercentGrows == Spec => ProgressGrows
<1> DEFINE Grows == \A j \in Jobs : \/ progress'[j].percent >= progress[j].percent
                                    \/ progress'[j].status = "failed"
<1>1. IInv /\ PercentBounded /\ [Next]_vars => [Grows]_vars
    BY StepGrows DEF Next, Idle
<1>2. IInv /\ PercentBounded /\ [Next]_vars => IInv' /\ PercentBounded'
    BY NextIInv, NextPercent
<1> QED
    BY <1>1, <1>2, InitIInv, InitPercent, PTL DEF Spec, ProgressGrows

-----------------------------------------------------------------------------
(* Termination: the awaits left are a ranking function of processOrder.    *)

\* The awaits left are never negative.
LEMMA AwaitsRange ==
    ASSUME NEW j \in Jobs
    PROVE  /\ TypeOK => AwaitsLeft(j) \in Nat
           /\ TypeOK' => AwaitsLeft(j)' \in Nat
<1>1. ASSUME TypeOK PROVE AwaitsLeft(j) \in Nat
    <2>1. local[j].attempt \in 0..MaxAttempts /\ MaxAttempts \in Nat
        BY <1>1, AttemptsAssumption DEF TypeOK, Locals
    <2>2. 9 * (MaxAttempts - local[j].attempt) \in Nat /\ 9 * MaxAttempts \in Nat
        BY <2>1
    <2> QED
        BY <2>2 DEF AwaitsLeft
<1>2. ASSUME TypeOK' PROVE AwaitsLeft(j)' \in Nat
    <2>1. local'[j].attempt \in 0..MaxAttempts /\ MaxAttempts \in Nat
        BY <1>2, AttemptsAssumption DEF TypeOK, Locals
    <2>2. 9 * (MaxAttempts - local'[j].attempt) \in Nat /\ 9 * MaxAttempts \in Nat
        BY <2>1
    <2> QED
        BY <2>2 DEF AwaitsLeft
<1> QED
    BY <1>1, <1>2

\* Resolving an await leaves fewer of them ahead.
LEMMA StepAwaits ==
    ASSUME TypeOK, AttemptsCounted, NEW j \in Jobs, Start(j) \/ Step(j)
    PROVE  AwaitsLeft(j)' < AwaitsLeft(j)
<1> DEFINE a == local[j].attempt
           b == local'[j].attempt
<1>1. a \in 0..MaxAttempts /\ MaxAttempts \in Nat \ {0}
    BY AttemptsAssumption DEF TypeOK, Locals
<1>2. CASE Start(j)
    <2>1. pc[j] = "idle" /\ pc'[j] = "find" /\ b = 0
        BY <1>2 DEF TypeOK, Start, Call, Goto, FreshLocals
    <2> QED
        BY <1>1, <2>1 DEF AwaitsLeft
<1>3. CASE Find(j)
    BY <1>1, <1>3 DEF TypeOK, Find, Enter, Hold, Goto, AwaitsLeft
<1>4. CASE Create(j)
    BY <1>1, <1>4 DEF TypeOK, Create, Enter, Goto, AwaitsLeft
<1>5. CASE UpdateSave(j)
    BY <1>1, <1>5 DEF TypeOK, UpdateSave, InnerCatch, OuterCatch, Hold, Goto, AwaitsLeft, Sites, GivesUp, Locals
<1>6. CASE UpdateProgress(j)
    BY <1>1, <1>6 DEF TypeOK, UpdateProgress, AwaitsLeft, Sites
<1>7. CASE UpdatePublish(j)
    BY <1>1, <1>7 DEF TypeOK, UpdatePublish, AfterUpdate, NextAttempt, OuterCatch, Hold, Goto, AwaitsLeft, Sites, Locals,
       AttemptsCounted, EarlyPoints
<1>8. CASE Quotes(j)
    BY <1>1, <1>8 DEF TypeOK, Quotes, Enter, Goto, AwaitsLeft, Locals
<1>9. CASE SaveQuotes(j)
    BY <1>1, <1>9 DEF TypeOK, SaveQuotes, Enter, OuterCatch, Hold, Goto, AwaitsLeft
<1>10. CASE Build(j)
    BY <1>1, <1>10 DEF TypeOK, Build, Enter, Goto, AwaitsLeft
<1>11. CASE SaveAttempt(j)
    BY <1>1, <1>11 DEF TypeOK, SaveAttempt, Enter, OuterCatch, Hold, Goto, AwaitsLeft
<1>12. CASE Swap(j)
    BY <1>1, <1>12 DEF TypeOK, Swap, InnerCatch, Hold, Goto, AwaitsLeft, GivesUp, Locals
<1>13. CASE SaveSwap(j)
    BY <1>1, <1>13 DEF TypeOK, SaveSwap, InnerCatch, Enter, Hold, Goto, AwaitsLeft, GivesUp, Locals
<1>14. CASE SaveError(j)
    BY <1>1, <1>14 DEF TypeOK, SaveError, OuterCatch, Hold, Goto, AwaitsLeft, GivesUp
<1>15. CASE PublishFailed(j)
    BY <1>1, <1>15 DEF TypeOK, PublishFailed, Hold, Goto, AwaitsLeft, GivesUp
<1>16. CASE SaveFailed(j)
    BY <1>1, <1>16 DEF TypeOK, SaveFailed, Enter, OuterCatch, Hold, Goto, AwaitsLeft
<1>17. CASE PublishRetry(j)
    BY <1>1, <1>17 DEF TypeOK, PublishRetry, Goto, AwaitsLeft
<1>18. CASE Backoff(j)
    BY <1>1, <1>18 DEF TypeOK, Backoff, NextAttempt, Hold, Goto, AwaitsLeft, Locals
<1>19. CASE SaveUnexpected(j)
    BY <1>1, <1>19 DEF TypeOK, SaveUnexpected, Enter, Goto, AwaitsLeft
<1> QED
    BY <1>2, <1>3, <1>4, <1>5, <1>6, <1>7, <1>8, <1>9, <1>10, <1>11, <1>12, <1>13, <1>14, <1>15,
       <1>16, <1>17, <1>18, <1>19 DEF Step

\* A call of processOrder is over after at most 23 + 9 * MaxAttempts awaits, for every
\* number of attempts: the safety half of CallsEnd.
THEOREM CallsAreBounded == Spec => EveryAwaitCounts
<1> DEFINE Counts == \A j \in Jobs : Start(j) \/ Step(j) => AwaitsLeft(j)' \in 0..(AwaitsLeft(j) - 1)
<1>1. IInv /\ [Next]_vars => Counts
    <2> SUFFICES ASSUME IInv, [Next]_vars, NEW j \in Jobs, Start(j) \/ Step(j)
                 PROVE  AwaitsLeft(j)' \in 0..(AwaitsLeft(j) - 1)
        BY DEF Counts
    <2>1. AwaitsLeft(j) \in Nat /\ AwaitsLeft(j)' \in Nat
        BY AwaitsRange, NextIInv DEF IInv
    <2>2. AwaitsLeft(j)' < AwaitsLeft(j)
        BY StepAwaits DEF IInv
    <2> QED
        BY <2>1, <2>2
<1>2. IInv /\ [Next]_vars => [Counts]_vars
    BY <1>1
<1> QED
    BY <1>2, InductiveInvariant, PTL DEF Spec, EveryAwaitCounts

=============================================================================
