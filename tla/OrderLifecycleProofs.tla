------------------------ MODULE OrderLifecycleProofs ------------------------
(***************************************************************************)
(* processOrder implements OrderLifecycle, proved step by step: as long as *)
(* the database answers and an order has one job, the recorded status and  *)
(* attempts and the executed swaps move as the lifecycle says, or not at   *)
(* all.  (That they keep moving needs fairness and stays with TLC.)        *)
(*                                                                         *)
(* The lifecycle's guards speak about the row; what a step writes comes    *)
(* from the entity.  LifeAt says what both hold at each point of a call.   *)
(***************************************************************************)
EXTENDS OrderVerdictProofs

\* Row and entity of a call that has not executed its swap, before the attempts.
BeforeLoop(p, save, status, tries, m) ==
    /\ p \in {"idle", "find", "create"} => status = "pending"
    /\ p = "routing10" => status = (IF save THEN "pending" ELSE "routing")
    /\ p \in {"quotes", "routing30", "saveQuotes", "saveUnexpected"} => status = "routing"
    /\ p = "building50" => status = (IF save THEN "routing" ELSE "building")
    /\ p \in {"build", "building70"} => status = "building"
    /\ p \in EarlyPoints \union {"idle", "saveUnexpected"} => tries = 0
    /\ p = "create" => m = FreshOrder
    /\ p \in EarlyPoints \ {"find"} => m.attempts = 0
    /\ p \in {"routing10", "quotes", "routing30", "saveQuotes"} => m.status = "routing"
    /\ p \in {"building50", "build", "building70"} => m.status = "building"
    /\ p = "saveUnexpected" => m.status = "failed" /\ m.attempts = 0

\* In the loop, at attempt a.
InLoop(p, save, status, tries, m, a) ==
    /\ p \in {"saveAttempt", "submitted"} => a >= 1
    /\ p = "saveAttempt" => /\ status = (IF a = 1 THEN "building" ELSE "submitted")
                            /\ tries = a - 1 /\ m.attempts = a /\ m.status = status
    /\ p = "submitted" => /\ status = (IF save /\ a = 1 THEN "building" ELSE "submitted")
                          /\ m.status = "submitted"
    /\ p \in {"swap", "saveError", "pubFailed", "pubRetry", "backoff"} =>
           status = "submitted" /\ m.status = "submitted" /\ a >= 1
    /\ p \in {"submitted", "swap", "saveSwap", "saveError", "pubFailed", "pubRetry", "backoff"} =>
           tries = a /\ m.attempts = a

\* After the loop: the row has the verdict, or the entity that is saved next does.
AfterLoop(p, status, tries, m) ==
    /\ p \in {"saveSwap", "saveFailed"} => status = "submitted"
    /\ p = "saveSwap" => m.status = "confirmed"
    /\ p = "saveFailed" => m.status = "failed" /\ tries = MaxAttempts
    /\ p \in {"confirmed", "success"} => status = "confirmed" /\ m.status = "confirmed"
    /\ p \in {"failed", "unexpected", "failure"} => status = "failed" /\ m.status = "failed"
    /\ p \in {"saveFailed", "confirmed", "failed", "unexpected"} => m.attempts = tries

Swapped == {"saveSwap", "confirmed", "success"}

LifeAt(j) ==
    LET save == part[j] = "save"
        s    == RowStatus[OrderOf[j]]
        t    == RowTries[OrderOf[j]]
        a    == local[j].attempt
    IN
    /\ BeforeLoop(pc[j], save, s, t, mem[j])
    /\ InLoop(pc[j], save, s, t, mem[j], a)
    /\ AfterLoop(pc[j], s, t, mem[j])
    /\ pc[j] \in {"saveError", "pubFailed"} => local[j].transient
    /\ pc[j] # "threw"
    /\ swaps[j] > 0 <=> pc[j] \in Swapped

LifeInv == \A j \in Jobs : LifeAt(j)

-----------------------------------------------------------------------------

\* A save that cannot fail writes the entity: this is what it changes of the row's
\* status and attempts.
LEMMA SaveMaps ==
    ASSUME TypeOK, NEW j \in Jobs, SaveOk(j)
    PROVE  /\ RowStatus' = [RowStatus EXCEPT ![OrderOf[j]] = mem[j].status]
           /\ RowTries' = [RowTries EXCEPT ![OrderOf[j]] = mem[j].attempts]
<1>1. OrderOf[j] \in Orders /\ mem[j] \in Entities
    BY OrderOfAssumption DEF TypeOK
<1>2. mem[j] # NoRow
    BY <1>1 DEF Entities, NoRow, Statuses
<1>3. row' = [row EXCEPT ![OrderOf[j]] = mem[j]]
    BY DEF SaveOk
<1> QED
    BY <1>1, <1>2, <1>3 DEF TypeOK, RowStatus, RowTries

\* The row that the lifecycle reads off a call's order.
LEMMA RowMaps ==
    ASSUME TypeOK, NEW o \in Orders
    PROVE  /\ row[o] = NoRow => RowStatus[o] = "pending" /\ RowTries[o] = 0
           /\ row[o] # NoRow => RowStatus[o] = row[o].status /\ RowTries[o] = row[o].attempts
BY DEF RowStatus, RowTries

\* What a step of a call does to the row's status and attempts (worker.ts:69).
LEMMA RowEffect ==
    ASSUME TypeOK, NEW j \in Jobs
    PROVE  /\ SaveOk(j) => /\ RowStatus'[OrderOf[j]] = mem[j].status
                           /\ RowTries'[OrderOf[j]] = mem[j].attempts
           /\ UNCHANGED row => RowStatus' = RowStatus /\ RowTries' = RowTries
<1>1. SaveOk(j) => row'[OrderOf[j]] = mem[j] /\ mem[j] # NoRow
    BY OrderOfAssumption DEF TypeOK, SaveOk, Entities, NoRow, Statuses
<1> QED
    BY <1>1, OrderOfAssumption DEF RowStatus, RowTries

\* A transient error ends the loop at the last attempt only (worker.ts:223).
LEMMA LastAttempt ==
    ASSUME TypeOK, NEW j \in Jobs, GivesUp(j), local[j].transient
    PROVE  local[j].attempt = MaxAttempts
<1>1. local[j].attempt \in 0..MaxAttempts
    BY DEF TypeOK, Locals
<1>2. local[j].attempt >= MaxAttempts
    BY DEF GivesUp
<1> QED
    BY <1>1, <1>2, AttemptsAssumption

\* Without failing saves every step keeps row and entity in line with the point the
\* call is at.
LEMMA StepLife ==
    ASSUME TypeOK, AttemptsCounted, ~DbMayFail, NEW j \in Jobs, LifeAt(j), Start(j) \/ Step(j)
    PROVE  LifeAt(j)'
<1> DEFINE s == RowStatus[OrderOf[j]]
           t == RowTries[OrderOf[j]]
<1>0. /\ SaveOk(j) => s' = mem[j].status /\ t' = mem[j].attempts
      /\ UNCHANGED row => s' = s /\ t' = t
    BY RowEffect
<1>a. /\ row[OrderOf[j]] = NoRow => s = "pending" /\ t = 0
      /\ row[OrderOf[j]] # NoRow => /\ s = row[OrderOf[j]].status /\ t = row[OrderOf[j]].attempts
                                    /\ row[OrderOf[j]] \in Entities
    BY RowMaps, OrderOfAssumption DEF TypeOK
<1>b. mem[j] \in Entities /\ local[j] \in Locals /\ swaps[j] \in Nat
    BY DEF TypeOK
<1>c. pc[j] \in EarlyPoints => local[j].attempt = 0
    BY DEF AttemptsCounted
<1>d. /\ BeforeLoop(pc[j], part[j] = "save", s, t, mem[j])
      /\ InLoop(pc[j], part[j] = "save", s, t, mem[j], local[j].attempt)
      /\ AfterLoop(pc[j], s, t, mem[j])
      /\ pc[j] \in {"saveError", "pubFailed"} => local[j].transient
      /\ pc[j] # "threw"
      /\ swaps[j] > 0 <=> pc[j] \in Swapped
    BY DEF LifeAt
<1> SUFFICES /\ BeforeLoop(pc'[j], part'[j] = "save", s', t', mem'[j])
             /\ InLoop(pc'[j], part'[j] = "save", s', t', mem'[j], local'[j].attempt)
             /\ AfterLoop(pc'[j], s', t', mem'[j])
             /\ pc'[j] \in {"saveError", "pubFailed"} => local'[j].transient
             /\ pc'[j] # "threw"
             /\ swaps'[j] > 0 <=> pc'[j] \in Swapped
    BY DEF LifeAt
<1> HIDE DEF s, t
<1> USE <1>0, <1>b, <1>d
    DEF BeforeLoop, InLoop, AfterLoop, Swapped, EarlyPoints, Sites, SiteStatus,
        Hold, Enter, Goto, TypeOK, Entities, Locals, SaveFails
<1>1. CASE Start(j)
    BY <1>1 DEF Start, Call, FreshLocals
<1>2. CASE Find(j)
    <2>0. s = "pending" /\ t = 0 /\ local'[j].attempt = 0 /\ s' = s /\ t' = t /\ swaps[j] = 0 /\ swaps' = swaps
        BY <1>2, <1>c DEF Find
    <2>1. CASE row[OrderOf[j]] # NoRow /\ Enter(j, "routing10", row[OrderOf[j]])
        <3>1. /\ pc'[j] = "routing10" /\ part'[j] = "save"
              /\ mem'[j].attempts = 0 /\ mem'[j].status = "routing"
            BY <1>a, <2>0, <2>1
        <3> QED
            BY <2>0, <3>1
    <2>2. CASE Hold(j, "create", FreshOrder)
        <3>1. pc'[j] = "create" /\ part'[j] = "save" /\ mem'[j] = FreshOrder /\ mem'[j].attempts = 0
            BY <2>2 DEF FreshOrder
        <3> QED
            BY <2>0, <3>1
    <2> QED
        BY <1>2, <2>1, <2>2 DEF Find
<1>3. CASE Create(j)
    BY <1>3 DEF Create, FreshOrder
<1>4. CASE UpdateSave(j)
    <2>1. SaveOk(j) /\ part' = [part EXCEPT ![j] = "progress"] /\ UNCHANGED <<pc, local, mem, swaps>>
        BY <1>4 DEF UpdateSave
    <2> QED
        BY <1>4, <2>1 DEF UpdateSave
<1>5. CASE UpdateProgress(j)
    BY <1>5 DEF UpdateProgress
<1>6. CASE UpdatePublish(j)
    <2>1. CASE pc[j] = "building70"
        BY <1>6, <1>c, <2>1 DEF UpdatePublish, AfterUpdate, NextAttempt
    <2>2. CASE pc[j] # "building70"
        <3>0. s' = s /\ t' = t /\ swaps' = swaps /\ local' = local /\ pc[j] \in Sites
            BY <1>6, <2>2 DEF UpdatePublish, AfterUpdate
        <3>1. CASE pc[j] = "routing10"
            BY <1>6, <3>0, <3>1 DEF UpdatePublish, AfterUpdate
        <3>2. CASE pc[j] = "routing30"
            <4>1. CASE Hold(j, "saveQuotes", [mem[j] EXCEPT !.quotes = TRUE])
                BY <3>0, <3>2, <4>1
            <4>2. CASE Hold(j, "saveUnexpected", [mem[j] EXCEPT !.status = "failed", !.lastError = TRUE])
                BY <3>0, <3>2, <4>2
            <4> QED
                BY <1>6, <3>2, <4>1, <4>2 DEF UpdatePublish, AfterUpdate, OuterCatch
        <3>3. CASE pc[j] \in {"building50", "submitted"}
            BY <1>6, <3>0, <3>3 DEF UpdatePublish, AfterUpdate
        <3>4. CASE pc[j] \in {"confirmed", "failed", "unexpected"}
            BY <1>6, <3>0, <3>4 DEF UpdatePublish, AfterUpdate
        <3> QED
            BY <2>2, <3>0, <3>1, <3>2, <3>3, <3>4
    <2> QED
        BY <2>1, <2>2
<1>7. CASE Quotes(j) \/ Build(j)
    BY <1>7 DEF Quotes, Build
<1>8. CASE SaveQuotes(j)
    BY <1>8 DEF SaveQuotes
<1>9. CASE SaveAttempt(j)
    BY <1>9 DEF SaveAttempt
<1>10. CASE Swap(j)
    <2>1. CASE /\ swaps' = [swaps EXCEPT ![j] = @ + 1]
               /\ Hold(j, "saveSwap", [mem[j] EXCEPT !.txHash = [job |-> j, nth |-> swaps[j] + 1],
                                                     !.status = "confirmed"])
               /\ UNCHANGED local
        BY <1>10, <2>1 DEF Swap
    <2>2. CASE InnerCatch(j, TRUE) /\ UNCHANGED swaps
        BY <1>10, <2>2 DEF Swap, InnerCatch
    <2> QED
        BY <1>10, <2>1, <2>2 DEF Swap
<1>11. CASE SaveSwap(j)
    <2>1. SaveOk(j) /\ Enter(j, "confirmed", mem[j]) /\ swaps' = swaps /\ pc[j] = "saveSwap"
        BY <1>11 DEF SaveSwap
    <2>2. pc'[j] = "confirmed" /\ mem'[j].status = "confirmed" /\ mem'[j].attempts = mem[j].attempts
        BY <2>1
    <2>3. s' = "confirmed" /\ t' = mem[j].attempts /\ swaps[j] > 0
        BY <2>1
    <2> QED
        BY <2>1, <2>2, <2>3
<1>12. CASE SaveError(j)
    BY <1>12 DEF SaveError
<1>13. CASE PublishFailed(j)
    <2>1. s' = s /\ t' = t /\ local' = local /\ swaps' = swaps /\ pc[j] = "pubFailed"
        BY <1>13 DEF PublishFailed
    <2>2. CASE Hold(j, "pubRetry", mem[j])
        BY <2>1, <2>2
    <2>3. CASE GivesUp(j) /\ Hold(j, "saveFailed", [mem[j] EXCEPT !.status = "failed"])
        <3>1. local[j].attempt = MaxAttempts
            BY <2>1, <2>3, LastAttempt
        <3> QED
            BY <2>1, <2>3, <3>1
    <2> QED
        BY <1>13, <2>2, <2>3 DEF PublishFailed
<1>14. CASE SaveFailed(j)
    BY <1>14 DEF SaveFailed
<1>15. CASE PublishRetry(j)
    BY <1>15 DEF PublishRetry
<1>16. CASE Backoff(j)
    <2> DEFINE a == local[j].attempt
    <2>1. s' = s /\ t' = t /\ swaps' = swaps /\ pc[j] = "backoff" /\ NextAttempt(j)
        BY <1>16 DEF Backoff
    <2>2. s = "submitted" /\ t = a /\ mem[j].status = "submitted" /\ a \in Nat /\ a >= 1
        BY <2>1
    <2>3. /\ pc'[j] = "saveAttempt" /\ local'[j].attempt = a + 1
          /\ mem'[j].attempts = a + 1 /\ mem'[j].status = mem[j].status
        BY <2>1 DEF NextAttempt
    <2> HIDE DEF a
    <2>4. a + 1 >= 1 /\ a + 1 # 1 /\ t' = (a + 1) - 1
        BY <2>1, <2>2
    <2>5. InLoop(pc'[j], part'[j] = "save", s', t', mem'[j], a + 1)
        BY <2>1, <2>2, <2>3, <2>4
    <2> QED
        BY <2>1, <2>3, <2>5
<1>17. CASE SaveUnexpected(j)
    BY <1>17 DEF SaveUnexpected
<1> QED
    BY <1>1, <1>2, <1>3, <1>4, <1>5, <1>6, <1>7, <1>8, <1>9, <1>10, <1>11, <1>12, <1>13, <1>14,
       <1>15, <1>16, <1>17 DEF Step

-----------------------------------------------------------------------------

\* The orders that have executed their swap, when each has one job.
LEMMA ExecutedOf ==
    ASSUME SoleWriter, NEW j \in Jobs
    PROVE  OrderOf[j] \in Executed <=> swaps[j] > 0
BY DEF SoleWriter, Executed

\* A step that saves nothing and swaps nothing is invisible to the lifecycle.
LEMMA Invisible ==
    ASSUME TypeOK, UNCHANGED <<row, swaps>>
    PROVE  UNCHANGED Lifecycle!vars
BY DEF Lifecycle!vars, RowStatus, RowTries, Executed

\* A save moves the order's status and attempts to the entity's.
LEMMA SaveMoves ==
    ASSUME TypeOK, NEW j \in Jobs, SaveOk(j), UNCHANGED swaps
    PROVE  /\ RowStatus' = [RowStatus EXCEPT ![OrderOf[j]] = mem[j].status]
           /\ RowTries' = [RowTries EXCEPT ![OrderOf[j]] = mem[j].attempts]
           /\ mem[j].status = RowStatus[OrderOf[j]] => RowStatus' = RowStatus
           /\ mem[j].attempts = RowTries[OrderOf[j]] => RowTries' = RowTries
           /\ Executed' = Executed
<1>1. /\ RowStatus' = [RowStatus EXCEPT ![OrderOf[j]] = mem[j].status]
      /\ RowTries' = [RowTries EXCEPT ![OrderOf[j]] = mem[j].attempts]
    BY SaveMaps
<1>2. Executed' = Executed
    BY DEF Executed
<1> QED
    BY <1>1, <1>2 DEF RowStatus, RowTries

\* A step is a step of the lifecycle of its order, or invisible.
LEMMA StepImplements ==
    ASSUME TypeOK, ~DbMayFail, SoleWriter, NEW j \in Jobs, LifeAt(j), SwapAt(j),
           Start(j) \/ Step(j)
    PROVE  Lifecycle!Next \/ UNCHANGED Lifecycle!vars
<1> DEFINE o == OrderOf[j]
           s == RowStatus[o]
           t == RowTries[o]
<1>0. o \in Orders
    BY OrderOfAssumption
<1>1. Lifecycle!Step(o) => Lifecycle!Next
    BY <1>0 DEF Lifecycle!Next
<1>2. UNCHANGED <<row, swaps>> => UNCHANGED Lifecycle!vars
    BY Invisible
<1>3. CASE Swap(j)
    <2>1. CASE UNCHANGED swaps
        BY <1>2, <1>3, <2>1 DEF Swap
    <2>2. CASE swaps' = [swaps EXCEPT ![j] = @ + 1]
        <3>1. pc[j] = "swap" /\ UNCHANGED row
            BY <1>3 DEF Swap
        <3>2. s = "submitted" /\ swaps[j] = 0
            BY <3>1 DEF LifeAt, InLoop, Swapped, SwapAt
        <3>3. o \notin Executed
            BY <3>2, ExecutedOf
        <3>4. Executed' = Executed \union {o}
            BY <2>2, <3>2 DEF TypeOK, Executed
        <3>5. RowStatus' = RowStatus /\ RowTries' = RowTries
            BY <3>1, RowEffect
        <3> QED
            BY <1>1, <3>2, <3>3, <3>4, <3>5 DEF Lifecycle!Step, Lifecycle!Execute
    <2> QED
        BY <1>3, <2>1, <2>2 DEF Swap
<1>4. CASE SaveOk(j) /\ UNCHANGED swaps
    <2> DEFINE m == mem[j]
    <2>0. /\ RowStatus' = [RowStatus EXCEPT ![o] = m.status]
          /\ RowTries' = [RowTries EXCEPT ![o] = m.attempts]
          /\ m.status = s => RowStatus' = RowStatus
          /\ m.attempts = t => RowTries' = RowTries
          /\ Executed' = Executed
        BY <1>4, SaveMoves
    <2>1. o \in Executed <=> pc[j] \in Swapped
        BY ExecutedOf DEF LifeAt
    <2>2. \/ Lifecycle!Route(o) \/ Lifecycle!Build(o) \/ Lifecycle!Try(o) \/ Lifecycle!Submit(o)
          \/ Lifecycle!Confirm(o) \/ Lifecycle!Fail(o) \/ UNCHANGED Lifecycle!vars
        <3> DEFINE a == local[j].attempt
                   save == part[j] = "save"
        <3>1. BeforeLoop(pc[j], save, s, t, m) /\ InLoop(pc[j], save, s, t, m, a) /\ AfterLoop(pc[j], s, t, m)
            BY DEF LifeAt
        <3>2. m.status = s /\ m.attempts = t => UNCHANGED Lifecycle!vars
            BY <2>0 DEF Lifecycle!vars
        <3>3. m \in Entities
            BY DEF TypeOK
        <3> HIDE DEF o, s, t, m, a, save
        <3>4. CASE UNCHANGED row
            BY <1>2, <1>4, <3>4
        <3>5. CASE pc[j] \in {"create", "routing30", "saveQuotes", "building70", "saveError", "confirmed",
                              "failed", "unexpected"}
            BY <3>1, <3>2, <3>5 DEF BeforeLoop, InLoop, AfterLoop, EarlyPoints, FreshOrder
        <3>6. CASE pc[j] = "routing10" /\ save
            <4>1. s = "pending" /\ m.status = "routing" /\ m.attempts = t
                BY <3>1, <3>6 DEF BeforeLoop, EarlyPoints
            <4> QED
                BY <2>0, <4>1 DEF Lifecycle!Route, Lifecycle!Advance, s
        <3>7. CASE pc[j] = "building50" /\ save
            <4>1. s = "routing" /\ m.status = "building" /\ m.attempts = t
                BY <3>1, <3>7 DEF BeforeLoop, EarlyPoints
            <4> QED
                BY <2>0, <4>1 DEF Lifecycle!Build, Lifecycle!Advance, s
        <3>8. CASE pc[j] = "saveAttempt"
            <4>1. /\ s \in {"building", "submitted"} /\ m.status = s
                  /\ t = a - 1 /\ m.attempts = a /\ a >= 1
                BY <3>1, <3>8 DEF InLoop
            <4>2. a \in 0..MaxAttempts /\ t < MaxAttempts /\ m.attempts = t + 1
                BY <3>3, <4>1, AttemptsAssumption DEF Entities
            <4>3. o \notin Executed
                BY <2>1, <3>8 DEF Swapped
            <4> QED
                BY <2>0, <4>1, <4>2, <4>3 DEF Lifecycle!Try, s, t
        <3>9. CASE pc[j] = "submitted" /\ save
            <4>1. /\ s = (IF a = 1 THEN "building" ELSE "submitted") /\ m.status = "submitted"
                  /\ t = a /\ m.attempts = t
                BY <3>1, <3>9 DEF InLoop
            <4>2. CASE a = 1
                BY <2>0, <4>1, <4>2 DEF Lifecycle!Submit, Lifecycle!Advance, s, t
            <4> QED
                BY <3>2, <4>1, <4>2
        <3>10. CASE pc[j] = "saveSwap"
            <4>1. s = "submitted" /\ m.status = "confirmed" /\ m.attempts = t
                BY <3>1, <3>10 DEF InLoop, AfterLoop
            <4> QED
                BY <2>0, <2>1, <3>10, <4>1 DEF Lifecycle!Confirm, Lifecycle!Advance, Swapped, s
        <3>11. CASE pc[j] = "saveFailed"
            <4>1. s = "submitted" /\ m.status = "failed" /\ t = MaxAttempts /\ m.attempts = t
                BY <3>1, <3>11 DEF AfterLoop
            <4> QED
                BY <2>0, <2>1, <3>11, <4>1 DEF Lifecycle!Fail, Lifecycle!Advance, Swapped, s, t
        <3>12. CASE pc[j] = "saveUnexpected"
            <4>1. s = "routing" /\ m.status = "failed" /\ m.attempts = t
                BY <3>1, <3>12 DEF BeforeLoop
            <4> QED
                BY <2>0, <2>1, <3>12, <4>1 DEF Lifecycle!Fail, Lifecycle!Advance, Swapped, s
        <3>13. \/ UNCHANGED row
               \/ pc[j] \in {"create", "saveQuotes", "saveAttempt", "saveSwap", "saveError", "saveFailed",
                             "saveUnexpected"}
               \/ pc[j] \in Sites /\ save
            BY DEF Start, Call, Step, Find, Create, UpdateSave, UpdateProgress, UpdatePublish, Quotes, SaveQuotes,
               Build, SaveAttempt, Swap, SaveSwap, SaveError, PublishFailed, SaveFailed, PublishRetry,
               Backoff, SaveUnexpected, save
        <3> QED
            BY <3>4, <3>5, <3>6, <3>7, <3>8, <3>9, <3>10, <3>11, <3>12, <3>13 DEF Sites
    <2> QED
        BY <1>1, <2>2 DEF Lifecycle!Step
<1>5. Swap(j) \/ UNCHANGED <<row, swaps>> \/ (SaveOk(j) /\ UNCHANGED swaps)
    BY DEF Start, Call, Step, Find, Create, UpdateSave, UpdateProgress, UpdatePublish, Quotes, SaveQuotes, Build,
       SaveAttempt, Swap, SaveSwap, SaveError, PublishFailed, SaveFailed, PublishRetry, Backoff,
       SaveUnexpected, SaveFails
<1> QED
    BY <1>1, <1>2, <1>3, <1>4, <1>5

-----------------------------------------------------------------------------

\* The initial states are those of the lifecycle, and no call is under way.
LEMMA InitLife == Init => LifeInv /\ Lifecycle!Init
<1> SUFFICES ASSUME Init PROVE LifeInv /\ Lifecycle!Init
    OBVIOUS
<1>1. RowStatus = [o \in Orders |-> "pending"] /\ RowTries = [o \in Orders |-> 0]
    BY DEF Init, RowStatus, RowTries, FreshOrder
<1>2. Executed = {}
    BY DEF Init, Executed
<1>3. LifeInv
    <2> SUFFICES ASSUME NEW j \in Jobs PROVE LifeAt(j)
        BY DEF LifeInv
    <2>1. pc[j] = "idle" /\ swaps[j] = 0
        BY DEF Init
    <2>2. RowStatus[OrderOf[j]] = "pending" /\ RowTries[OrderOf[j]] = 0
        BY <1>1, OrderOfAssumption
    <2> QED
        BY <2>1, <2>2 DEF LifeAt, BeforeLoop, InLoop, AfterLoop, EarlyPoints, Swapped
<1> QED
    BY <1>1, <1>2, <1>3 DEF Lifecycle!Init

\* What a call does leaves the orders of the other calls alone.
LEMMA OthersLife ==
    ASSUME TypeOK, SoleWriter, NEW j \in Jobs, NEW i \in Jobs \ {j}, Start(j) \/ Step(j), LifeAt(i)
    PROVE  LifeAt(i)'
<1>1. /\ pc'[i] = pc[i] /\ part'[i] = part[i] /\ local'[i] = local[i]
      /\ mem'[i] = mem[i] /\ swaps'[i] = swaps[i]
    BY StepFrame
<1>2. row'[OrderOf[i]] = row[OrderOf[i]] /\ OrderOf[i] \in Orders
    BY StepFrame, OrderOfAssumption DEF SoleWriter
<1>3. RowStatus'[OrderOf[i]] = RowStatus[OrderOf[i]] /\ RowTries'[OrderOf[i]] = RowTries[OrderOf[i]]
    BY <1>2 DEF RowStatus, RowTries
<1> QED
    BY <1>1, <1>3 DEF LifeAt

\* Every step keeps LifeInv.
LEMMA NextLife ==
    ASSUME ~DbMayFail, SoleWriter, IInv, LifeInv, [Next]_vars
    PROVE  LifeInv'
<1>1. CASE UNCHANGED vars
    BY <1>1 DEF vars, LifeInv, LifeAt, RowStatus, RowTries
<1>2. ASSUME NEW j \in Jobs, Start(j) \/ Step(j) PROVE LifeInv'
    <2>1. LifeAt(j)'
        BY <1>2, StepLife DEF IInv, LifeInv
    <2>2. ASSUME NEW i \in Jobs \ {j} PROVE LifeAt(i)'
        BY <1>2, OthersLife DEF IInv, LifeInv
    <2> QED
        BY <2>1, <2>2 DEF LifeInv
<1> QED
    BY <1>1, <1>2 DEF Next, Idle

\* The safety part of ImplementsLifecycle, for any number of jobs, orders and
\* attempts: processOrder (worker.ts:36-300) starts as the lifecycle does, and every
\* step of it is a step of the lifecycle or is not seen there.
THEOREM ImplementsLifecycleSteps ==
    ASSUME ~DbMayFail, SoleWriter
    PROVE  Spec => Lifecycle!Init /\ [][Lifecycle!Next]_(Lifecycle!vars)
<1>1. IInv /\ LifeInv /\ [Next]_vars => IInv' /\ LifeInv'
    BY NextIInv, NextLife
<1>2. IInv /\ LifeInv /\ [Next]_vars => [Lifecycle!Next]_(Lifecycle!vars)
    <2> SUFFICES ASSUME IInv, LifeInv, [Next]_vars
                 PROVE  Lifecycle!Next \/ UNCHANGED Lifecycle!vars
        OBVIOUS
    <2>1. CASE UNCHANGED vars
        BY <2>1, Invisible DEF IInv, vars
    <2>2. ASSUME NEW j \in Jobs, Start(j) \/ Step(j)
          PROVE  Lifecycle!Next \/ UNCHANGED Lifecycle!vars
        BY <2>2, StepImplements DEF IInv, SwapInv, LifeInv
    <2> QED
        BY <2>1, <2>2 DEF Next, Idle
<1> QED
    BY <1>1, <1>2, InitIInv, InitLife, PTL DEF Spec

=============================================================================
