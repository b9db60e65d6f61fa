----------------------- MODULE OrderProcessorProofs -----------------------
(***************************************************************************)
(* Proofs about OrderProcessor, for every set of jobs and orders, every    *)
(* assignment of jobs to orders and every bound on the attempts.           *)
(***************************************************************************)
EXTENDS OrderProcessor, TLAPS

\* Math.floor(70 + (30 / maxAttempts) * attempt) is a percentage (worker.ts:157).
LEMMA SubmitProgressRange ==
    ASSUME NEW a \in 0..MaxAttempts
    PROVE  SubmitProgress(a) \in 0..100
BY AttemptsAssumption DEF SubmitProgress

\* The updates every step is made of keep the types of what they change.
LEMMA GotoType ==
    ASSUME TypeOK, NEW j \in Jobs, NEW p \in Points, Goto(j, p)
    PROVE  /\ pc' \in [Jobs -> Points]
           /\ part' \in [Jobs -> Parts]
BY DEF TypeOK, Goto, Parts

\* Going on with an entity keeps the types, if that is an entity (worker.ts:125-126).
LEMMA HoldType ==
    ASSUME TypeOK, NEW j \in Jobs, NEW p \in Points, NEW m \in Entities, Hold(j, p, m)
    PROVE  /\ pc' \in [Jobs -> Points]
           /\ part' \in [Jobs -> Parts]
           /\ mem' \in [Jobs -> Entities]
BY GotoType DEF TypeOK, Hold

\* Entering updateOrderStatus keeps the types and yields an entity (worker.ts:63-68).
LEMMA EnterType ==
    ASSUME TypeOK, NEW j \in Jobs, NEW s \in Sites, NEW m \in Entities, Enter(j, s, m)
    PROVE  /\ pc' \in [Jobs -> Points]
           /\ part' \in [Jobs -> Parts]
           /\ mem' \in [Jobs -> Entities]
<1>1. SiteStatus(s) \in Statuses
    BY DEF Sites, SiteStatus, Statuses
<1>2. [m EXCEPT !.status = SiteStatus(s)] \in Entities
    BY <1>1 DEF Entities
<1> QED
    BY <1>2, GotoType DEF TypeOK, Enter, Points

\* A save, whether it succeeds or fails, keeps the rows entities (worker.ts:69).
LEMMA SaveType ==
    ASSUME TypeOK, NEW j \in Jobs, SaveOk(j) \/ SaveFails(j)
    PROVE  row' \in [Orders -> Entities \union {NoRow}]
BY OrderOfAssumption DEF TypeOK, SaveOk, SaveFails

\* A publish, sent or lost, keeps the type of the last notices (worker.ts:15-34).
LEMMA PublishType ==
    ASSUME TypeOK, NEW j \in Jobs, NEW t \in NoticeTypes, Publish(j, t)
    PROVE  announced' \in [Orders -> Notices]
<1>1. [type |-> t, attempt |-> local[j].attempt] \in Notices
    BY DEF TypeOK, Locals, Notices
<1> QED
    BY <1>1, OrderOfAssumption DEF TypeOK, Publish

\* The outer catch block keeps the types (worker.ts:282-286).
LEMMA OuterCatchType ==
    ASSUME TypeOK, NEW j \in Jobs, OuterCatch(j)
    PROVE  /\ pc' \in [Jobs -> Points]
           /\ part' \in [Jobs -> Parts]
           /\ mem' \in [Jobs -> Entities]
<1>1. [mem[j] EXCEPT !.status = "failed", !.lastError = TRUE] \in Entities
    BY DEF TypeOK, Entities, Statuses
<1> QED
    BY <1>1, HoldType DEF OuterCatch, Points

\* The catch block of an attempt keeps the types (worker.ts:199-202).
LEMMA InnerCatchType ==
    ASSUME TypeOK, NEW j \in Jobs, NEW t \in BOOLEAN, InnerCatch(j, t)
    PROVE  /\ pc' \in [Jobs -> Points]
           /\ part' \in [Jobs -> Parts]
           /\ mem' \in [Jobs -> Entities]
           /\ local' \in [Jobs -> Locals]
<1>1. [mem[j] EXCEPT !.lastError = TRUE] \in Entities
    BY DEF TypeOK, Entities
<1>2. local' \in [Jobs -> Locals]
    BY DEF TypeOK, Locals, InnerCatch
<1> QED
    BY <1>1, <1>2, HoldType DEF InnerCatch, Points

\* The loop head keeps the types: the attempt it counts is one of MaxAttempts
\* (worker.ts:152-155).
LEMMA NextAttemptType ==
    ASSUME TypeOK, NEW j \in Jobs, local[j].attempt < MaxAttempts, NextAttempt(j)
    PROVE  /\ pc' \in [Jobs -> Points]
           /\ part' \in [Jobs -> Parts]
           /\ mem' \in [Jobs -> Entities]
           /\ local' \in [Jobs -> Locals]
<1>1. local[j].attempt + 1 \in 0..MaxAttempts
    BY AttemptsAssumption DEF TypeOK, Locals
<1>2. [mem[j] EXCEPT !.attempts = local[j].attempt + 1] \in Entities
    BY <1>1 DEF TypeOK, Entities
<1>3. local' \in [Jobs -> Locals]
    BY <1>1 DEF TypeOK, Locals, NextAttempt
<1> QED
    BY <1>2, <1>3, HoldType DEF NextAttempt, Points

-----------------------------------------------------------------------------
(* Types need one more fact: no attempt is counted before the loop is entered. *)

EarlyPoints == {"find", "create", "routing10", "quotes", "routing30", "saveQuotes",
                "building50", "build", "building70"}

AttemptsCounted == \A j \in Jobs : pc[j] \in EarlyPoints => local[j].attempt = 0

\* Every step of a call keeps the types.
LEMMA StepType ==
    ASSUME TypeOK, AttemptsCounted, NEW j \in Jobs, Start(j) \/ Step(j)
    PROVE  TypeOK'
<1> USE DEF TypeOK
<1>1. CASE Start(j)
    <2>1. FreshLocals \in Locals
        BY AttemptsAssumption DEF FreshLocals, Locals
    <2> QED
        BY <1>1, <2>1, GotoType DEF Start, Call, Points
<1>2. CASE Find(j)
    <2>1. CASE row[OrderOf[j]] # NoRow /\ Enter(j, "routing10", row[OrderOf[j]])
        <3>1. row[OrderOf[j]] \in Entities
            BY <2>1, OrderOfAssumption
        <3> QED
            BY <1>2, <2>1, <3>1, EnterType DEF Find, Sites
    <2>2. CASE Hold(j, "create", FreshOrder)
        <3>1. FreshOrder \in Entities
            BY AttemptsAssumption DEF FreshOrder, Entities, Statuses
        <3> QED
            BY <1>2, <2>2, <3>1, HoldType DEF Find, Points
    <2>3. CASE Goto(j, "threw") /\ UNCHANGED mem
        BY <1>2, <2>3, GotoType DEF Find, Points, Ended
    <2> QED
        BY <1>2, <2>1, <2>2, <2>3 DEF Find
<1>3. CASE Create(j)
    BY <1>3, SaveType, EnterType, GotoType DEF Create, Sites, Points, Ended
<1>4. CASE UpdateSave(j)
    <2>1. row' \in [Orders -> Entities \union {NoRow}]
        BY <1>4, SaveType DEF UpdateSave
    <2>2. CASE part' = [part EXCEPT ![j] = "progress"] /\ UNCHANGED <<pc, local, mem>>
        BY <1>4, <2>1, <2>2 DEF UpdateSave, Parts
    <2>3. CASE InnerCatch(j, FALSE)
        BY <1>4, <2>1, <2>3, InnerCatchType DEF UpdateSave
    <2>4. CASE Goto(j, "threw") /\ UNCHANGED <<local, mem>>
        BY <1>4, <2>1, <2>4, GotoType DEF UpdateSave, Points, Ended
    <2>5. CASE OuterCatch(j) /\ UNCHANGED local
        BY <1>4, <2>1, <2>5, OuterCatchType DEF UpdateSave
    <2> QED
        BY <1>4, <2>2, <2>3, <2>4, <2>5 DEF UpdateSave
<1>5. CASE UpdateProgress(j)
    <2>1. SiteStatus(pc[j]) \in Statuses
        BY <1>5 DEF UpdateProgress, Sites, SiteStatus, Statuses
    <2>2. SubmitProgress(local[j].attempt) \in 0..100
        BY SubmitProgressRange DEF Locals
    <2>3. SiteProgress(pc[j], local[j].attempt) \in 0..100
        BY <2>2 DEF SiteProgress
    <2>4. [status |-> SiteStatus(pc[j]), percent |-> SiteProgress(pc[j], local[j].attempt)] \in Reports
        BY <2>1, <2>3 DEF Reports
    <2> QED
        BY <1>5, <2>4 DEF UpdateProgress, Parts
<1>6. CASE UpdatePublish(j)
    <2>1. SiteStatus(pc[j]) \in NoticeTypes
        BY <1>6 DEF UpdatePublish, Sites, SiteStatus, Statuses, NoticeTypes
    <2>2. announced' \in [Orders -> Notices]
        BY <1>6, <2>1, PublishType DEF UpdatePublish
    <2>3. AfterUpdate(j) /\ UNCHANGED <<row, progress, swaps>>
        BY <1>6 DEF UpdatePublish
    <2>4. mem[j] \in Entities /\ [mem[j] EXCEPT !.quotes = TRUE] \in Entities
        BY DEF Entities
    <2>5. CASE pc[j] = "building70"
        <3>1. NextAttempt(j)
            BY <2>3, <2>5 DEF AfterUpdate
        <3>2. local[j].attempt < MaxAttempts
            BY <2>5, AttemptsAssumption DEF AttemptsCounted, EarlyPoints
        <3> QED
            BY <2>2, <2>3, <3>1, <3>2, NextAttemptType
    <2>6. CASE OuterCatch(j) /\ UNCHANGED local
        BY <2>2, <2>3, <2>6, OuterCatchType
    <2>7. CASE /\ UNCHANGED local
               /\ \E p \in {"quotes", "build", "swap", "success", "failure"} : Hold(j, p, mem[j])
        BY <2>2, <2>3, <2>4, <2>7, HoldType DEF Points, Ended
    <2>8. CASE UNCHANGED local /\ Hold(j, "saveQuotes", [mem[j] EXCEPT !.quotes = TRUE])
        BY <2>2, <2>3, <2>4, <2>8, HoldType DEF Points
    <2> QED
        BY <2>3, <2>5, <2>6, <2>7, <2>8 DEF AfterUpdate
<1>7. CASE Quotes(j)
    BY <1>7, EnterType DEF Quotes, Sites, Locals
<1>8. CASE SaveQuotes(j)
    BY <1>8, SaveType, EnterType, OuterCatchType DEF SaveQuotes, Sites
<1>9. CASE Build(j)
    BY <1>9, EnterType DEF Build, Sites
<1>10. CASE SaveAttempt(j)
    BY <1>10, SaveType, EnterType, OuterCatchType DEF SaveAttempt, Sites
<1>11. CASE Swap(j)
    <2> DEFINE hash == [job |-> j, nth |-> swaps[j] + 1]
    <2>1. hash \in Hashes
        BY DEF Hashes
    <2>2. [mem[j] EXCEPT !.txHash = hash, !.status = "confirmed"] \in Entities
        BY <2>1 DEF Entities, Statuses
    <2>3. CASE /\ swaps' = [swaps EXCEPT ![j] = @ + 1]
               /\ Hold(j, "saveSwap", [mem[j] EXCEPT !.txHash = hash, !.status = "confirmed"])
               /\ UNCHANGED local
        <3>1. pc' \in [Jobs -> Points] /\ part' \in [Jobs -> Parts] /\ mem' \in [Jobs -> Entities]
            BY <2>2, <2>3, HoldType DEF Points
        <3>2. swaps' \in [Jobs -> Nat]
            BY <2>3
        <3> QED
            BY <1>11, <2>3, <3>1, <3>2 DEF Swap
    <2>4. CASE InnerCatch(j, TRUE) /\ UNCHANGED swaps
        BY <1>11, <2>4, InnerCatchType DEF Swap
    <2> QED
        BY <1>11, <2>3, <2>4 DEF Swap
<1>12. CASE SaveSwap(j)
    BY <1>12, SaveType, EnterType, InnerCatchType DEF SaveSwap, Sites
<1>13. CASE SaveError(j)
    BY <1>13, SaveType, GotoType, OuterCatchType DEF SaveError, Points
<1>14. CASE PublishFailed(j)
    <2>1. mem[j] \in Entities /\ [mem[j] EXCEPT !.status = "failed"] \in Entities
        BY DEF Entities, Statuses
    <2> QED
        BY <1>14, <2>1, PublishType, HoldType DEF PublishFailed, Points, NoticeTypes
<1>15. CASE SaveFailed(j)
    BY <1>15, SaveType, EnterType, OuterCatchType DEF SaveFailed, Sites
<1>16. CASE PublishRetry(j)
    BY <1>16, PublishType, GotoType DEF PublishRetry, Points, NoticeTypes
<1>17. CASE Backoff(j)
    BY <1>17, NextAttemptType DEF Backoff
<1>18. CASE SaveUnexpected(j)
    BY <1>18, SaveType, EnterType, GotoType DEF SaveUnexpected, Sites, Points, Ended
<1> QED
    BY <1>1, <1>2, <1>3, <1>4, <1>5, <1>6, <1>7, <1>8, <1>9, <1>10, <1>11, <1>12, <1>13,
       <1>14, <1>15, <1>16, <1>17, <1>18 DEF Step

\* A step of one call leaves the other calls and the other orders alone.
LEMMA StepFrame ==
    ASSUME TypeOK, NEW j \in Jobs, Start(j) \/ Step(j)
    PROVE  /\ \A i \in Jobs \ {j} : /\ pc'[i] = pc[i] /\ part'[i] = part[i]
                                    /\ local'[i] = local[i] /\ mem'[i] = mem[i]
                                    /\ swaps'[i] = swaps[i]
           /\ \A o \in Orders \ {OrderOf[j]} : row'[o] = row[o] /\ announced'[o] = announced[o]
BY OrderOfAssumption
   DEF TypeOK, Start, Call, Step, Find, Create, UpdateSave, UpdateProgress, UpdatePublish, AfterUpdate,
       Quotes, SaveQuotes, Build, SaveAttempt, Swap, SaveSwap, SaveError, PublishFailed, SaveFailed,
       PublishRetry, Backoff, SaveUnexpected, Enter, Hold, Goto, OuterCatch, InnerCatch, NextAttempt,
       SaveOk, SaveFails, Publish

\* Every step keeps the bound on attempts that the loop head relies on
\* (worker.ts:152, 223).
LEMMA StepAttempts ==
    ASSUME TypeOK, AttemptsCounted, NEW j \in Jobs, Start(j) \/ Step(j)
    PROVE  AttemptsCounted'
<1>1. pc'[j] \in EarlyPoints => local'[j].attempt = 0
    BY DEF TypeOK, Start, Call, FreshLocals, Step, Find, Create, UpdateSave, UpdateProgress, UpdatePublish, AfterUpdate,
           Quotes, SaveQuotes, Build, SaveAttempt, Swap, SaveSwap, SaveError, PublishFailed, SaveFailed,
           PublishRetry, Backoff, SaveUnexpected, Enter, Hold, Goto, OuterCatch, InnerCatch, NextAttempt,
           AttemptsCounted, EarlyPoints, Sites, Locals
<1> QED
    BY <1>1, StepFrame DEF AttemptsCounted

\* The points at which a call will execute no swap any more.
Settled(j) ==
    \/ pc[j] \in {"saveSwap", "confirmed", "saveFailed", "failed", "saveUnexpected", "unexpected"} \union Ended
    \/ pc[j] \in {"saveError", "pubFailed"} /\ ~local[j].transient

\* A settled call stays settled and executes no swap: the catch block gives up on an
\* error that is not transient (worker.ts:223).
LEMMA SettledStays ==
    ASSUME TypeOK, NEW j \in Jobs, Start(j) \/ Step(j), Settled(j)
    PROVE  Settled(j)' /\ swaps'[j] = swaps[j]
BY DEF TypeOK, Start, Call, Step, Find, Create, UpdateSave, UpdateProgress, UpdatePublish, AfterUpdate,
           Quotes, SaveQuotes, Build, SaveAttempt, Swap, SaveSwap, SaveError, PublishFailed, SaveFailed,
           PublishRetry, Backoff, SaveUnexpected, Enter, Hold, Goto, OuterCatch, InnerCatch, NextAttempt,
           Sites, Locals, Settled, Ended, GivesUp

\* Whoever has executed a swap is past the loop: the strengthening of SwapOnce.
SwapAt(j) == swaps[j] = 0 \/ (swaps[j] = 1 /\ Settled(j))
SwapInv == \A j \in Jobs : SwapAt(j)

\* A step keeps the invariant on the swaps of its call: a call that swapped has left
\* the retry path for good (worker.ts:171-249).
LEMMA StepSwapAt ==
    ASSUME TypeOK, NEW j \in Jobs, SwapAt(j), Start(j) \/ Step(j)
    PROVE  SwapAt(j)'
<1>1. CASE Settled(j)
    BY <1>1, SettledStays DEF SwapAt
<1>2. CASE ~Settled(j)
    <2>1. swaps[j] = 0
        BY <1>2 DEF SwapAt
    <2>2. \/ swaps' = swaps
          \/ swaps' = [swaps EXCEPT ![j] = @ + 1] /\ pc' = [pc EXCEPT ![j] = "saveSwap"]
        BY DEF Start, Call, Step, Find, Create, UpdateSave, UpdateProgress, UpdatePublish, Quotes,
           SaveQuotes, Build, SaveAttempt, Swap, SaveSwap, SaveError, PublishFailed, SaveFailed,
           PublishRetry, Backoff, SaveUnexpected, Hold, Goto
    <2> QED
        BY <2>1, <2>2 DEF TypeOK, SwapAt, Settled
<1> QED
    BY <1>1, <1>2

\* Every step keeps the invariant on the swaps of all calls.
LEMMA StepSwap ==
    ASSUME TypeOK, SwapInv, NEW j \in Jobs, Start(j) \/ Step(j)
    PROVE  SwapInv'
<1>1. \A i \in Jobs \ {j} : SwapAt(i)' <=> SwapAt(i)
    BY StepFrame DEF SwapAt, Settled
<1> QED
    BY <1>1, StepSwapAt DEF SwapInv

\* What the helper operators do to the entity a call holds.
LEMMA EnterEffect ==
    ASSUME TypeOK, NEW j \in Jobs, NEW s \in Sites, NEW m \in Entities, Enter(j, s, m)
    PROVE  pc'[j] = s /\ mem'[j].txHash = m.txHash /\ mem'[j].status = SiteStatus(s)
BY DEF TypeOK, Enter, Goto, Entities

\* The outer catch keeps the hash and marks the entity failed (worker.ts:282-286).
LEMMA OuterCatchEffect ==
    ASSUME TypeOK, NEW j \in Jobs, OuterCatch(j)
    PROVE  pc'[j] = "saveUnexpected" /\ mem'[j].txHash = mem[j].txHash /\ mem'[j].status = "failed"
BY DEF TypeOK, OuterCatch, Hold, Goto, Entities

\* The catch of an attempt keeps hash and status (worker.ts:199-202).
LEMMA InnerCatchEffect ==
    ASSUME TypeOK, NEW j \in Jobs, NEW t \in BOOLEAN, InnerCatch(j, t)
    PROVE  /\ pc'[j] = "saveError"
           /\ mem'[j].txHash = mem[j].txHash /\ mem'[j].status = mem[j].status
BY DEF TypeOK, InnerCatch, Hold, Goto, Entities

\* The loop head keeps hash and status (worker.ts:152-155).
LEMMA NextAttemptEffect ==
    ASSUME TypeOK, NEW j \in Jobs, NextAttempt(j)
    PROVE  /\ pc'[j] = "saveAttempt"
           /\ mem'[j].txHash = mem[j].txHash /\ mem'[j].status = mem[j].status
BY DEF TypeOK, NextAttempt, Hold, Goto, Entities

\* Only the site 'confirmed' of updateOrderStatus sets that status (worker.ts:187).
LEMMA SiteOf ==
    /\ \A s \in Sites : SiteStatus(s) = "confirmed" <=> s = "confirmed"
    /\ Sites = {"routing10", "routing30", "building50", "building70", "submitted", "confirmed",
                "failed", "unexpected"}
BY DEF Sites, SiteStatus

\* What an entity of order o says is true: its hash is that of an executed swap of
\* a job of o, and it is confirmed only with a hash.
RealHash(e, o) ==
    /\ e.txHash # NoHash => /\ OrderOf[e.txHash.job] = o
                            /\ e.txHash.nth <= swaps[e.txHash.job]
    /\ e.status = "confirmed" => e.txHash # NoHash
RowsReal == \A o \in Orders : row[o] # NoRow => RealHash(row[o], o)

\* What the entities in memory and the rows say of executions is true; after a
\* swap the entity holds its hash.
HashInv ==
    /\ RowsReal
    /\ \A j \in Jobs : RealHash(mem[j], OrderOf[j])
    /\ \A j \in Jobs : pc[j] \in {"saveSwap", "confirmed"} => mem[j].txHash # NoHash

\* Executing more swaps makes no true entity false.
LEMMA HashStays ==
    ASSUME TypeOK, \A i \in Jobs : swaps'[i] \in Nat /\ swaps'[i] >= swaps[i],
           NEW e \in Entities, NEW o, RealHash(e, o)
    PROVE  /\ e.txHash # NoHash => OrderOf[e.txHash.job] = o /\ e.txHash.nth <= swaps'[e.txHash.job]
           /\ e.status = "confirmed" => e.txHash # NoHash
<1>1. e.txHash # NoHash => e.txHash.job \in Jobs /\ e.txHash.nth \in Nat
    BY DEF Entities, Hashes
<1> QED
    BY <1>1 DEF RealHash, TypeOK

\* Every step keeps entities and rows true: a status confirmed and a hash enter an
\* entity only with the swap (worker.ts:171-180), and a row only from an entity.
LEMMA StepHash ==
    ASSUME TypeOK, AttemptsCounted, HashInv, NEW j \in Jobs, Start(j) \/ Step(j)
    PROVE  HashInv'
<1>1. \A i \in Jobs : swaps'[i] \in Nat /\ swaps'[i] >= swaps[i]
    <2>1. swaps' = swaps \/ swaps' = [swaps EXCEPT ![j] = @ + 1]
        BY DEF Start, Call, Step, Find, Create, UpdateSave, UpdateProgress, UpdatePublish, Quotes,
           SaveQuotes, Build, SaveAttempt, Swap, SaveSwap, SaveError, PublishFailed, SaveFailed,
           PublishRetry, Backoff, SaveUnexpected
    <2> QED
        BY <2>1 DEF TypeOK
<1>2. RealHash(mem[j], OrderOf[j])' /\ (pc'[j] \in {"saveSwap", "confirmed"} => mem'[j].txHash # NoHash)
    <2>1. CASE Swap(j)
        <3> DEFINE hash == [job |-> j, nth |-> swaps[j] + 1]
        <3>1. mem[j] \in Entities
            BY DEF TypeOK
        <3>2. CASE /\ swaps' = [swaps EXCEPT ![j] = @ + 1]
                   /\ mem'[j] = [mem[j] EXCEPT !.txHash = hash, !.status = "confirmed"]
            <4>1. mem'[j].txHash = hash /\ hash # NoHash
                BY <3>1, <3>2 DEF Entities, NoHash, TypeOK
            <4>2. hash.nth <= swaps'[j]
                BY <3>2 DEF TypeOK
            <4> QED
                BY <4>1, <4>2 DEF RealHash, TypeOK
        <3>3. CASE InnerCatch(j, TRUE) /\ UNCHANGED swaps
            BY <3>3, InnerCatchEffect DEF HashInv, RealHash
        <3> QED
            BY <2>1, <3>2, <3>3 DEF Swap, Hold, TypeOK
    <2>2. CASE Find(j)
        <3>1. swaps' = swaps
            BY <2>2 DEF Find
        <3>2. CASE row[OrderOf[j]] # NoRow /\ Enter(j, "routing10", row[OrderOf[j]])
            <4>1. row[OrderOf[j]] \in Entities /\ RealHash(row[OrderOf[j]], OrderOf[j])
                BY <3>2, OrderOfAssumption DEF TypeOK, HashInv, RowsReal
            <4>2. /\ pc'[j] = "routing10" /\ mem'[j].txHash = row[OrderOf[j]].txHash
                  /\ mem'[j].status # "confirmed"
                BY <3>2, <4>1, EnterEffect, SiteOf
            <4> QED
                BY <3>1, <4>1, <4>2 DEF RealHash
        <3>3. CASE Hold(j, "create", FreshOrder)
            <4>1. pc'[j] = "create" /\ mem'[j] = FreshOrder
                BY <3>3 DEF TypeOK, Hold, Goto
            <4> QED
                BY <4>1 DEF RealHash, FreshOrder
        <3>4. CASE Goto(j, "threw") /\ UNCHANGED mem
            BY <3>1, <3>4 DEF TypeOK, Goto, HashInv, RealHash
        <3> QED
            BY <2>2, <3>2, <3>3, <3>4 DEF Find
    <2>3. CASE ~Swap(j) /\ ~Find(j)
        <3>1. swaps' = swaps
            BY <2>3 DEF Start, Call, Step, Create, UpdateSave, UpdateProgress, UpdatePublish, Quotes, SaveQuotes,
               Build, SaveAttempt, SaveSwap, SaveError, PublishFailed, SaveFailed, PublishRetry, Backoff,
               SaveUnexpected
        <3>2. /\ mem'[j].txHash = mem[j].txHash
              /\ mem'[j].status = "confirmed" => mem[j].status = "confirmed" \/ pc[j] = "saveSwap"
              /\ pc'[j] \in {"saveSwap", "confirmed"} => pc[j] \in {"saveSwap", "confirmed"}
            <4>0. mem[j] \in Entities
                BY DEF TypeOK
            <4>1. CASE Start(j) \/ UpdateProgress(j) \/ PublishRetry(j)
                BY <4>1 DEF TypeOK, Start, Call, UpdateProgress, PublishRetry, Goto
            <4>2. CASE UpdateSave(j)
                BY <4>2, OuterCatchEffect, InnerCatchEffect DEF TypeOK, UpdateSave, Goto
            <4>3. CASE UpdatePublish(j)
                BY <4>0, <4>3, OuterCatchEffect, NextAttemptEffect
                   DEF TypeOK, UpdatePublish, AfterUpdate, Hold, Goto, Entities
            <4>4. CASE Create(j) \/ Quotes(j) \/ SaveQuotes(j) \/ Build(j) \/ SaveAttempt(j)
                BY <4>0, <4>4, EnterEffect, OuterCatchEffect, SiteOf
                   DEF TypeOK, Create, Quotes, SaveQuotes, Build, SaveAttempt, Goto
            <4>5. CASE SaveSwap(j) \/ SaveFailed(j) \/ SaveUnexpected(j)
                BY <4>0, <4>5, EnterEffect, OuterCatchEffect, InnerCatchEffect, SiteOf
                   DEF TypeOK, SaveSwap, SaveFailed, SaveUnexpected, Goto
            <4>6. CASE SaveError(j) \/ PublishFailed(j)
                BY <4>0, <4>6, OuterCatchEffect DEF TypeOK, SaveError, PublishFailed, Hold, Goto, Entities
            <4>7. CASE Backoff(j)
                BY <4>7, NextAttemptEffect DEF Backoff
            <4> QED
                BY <2>3, <4>1, <4>2, <4>3, <4>4, <4>5, <4>6, <4>7 DEF Step
        <3> QED
            BY <3>1, <3>2 DEF HashInv, RealHash
    <2> QED
        BY <2>1, <2>2, <2>3
<1>3. row' = row \/ row' = [row EXCEPT ![OrderOf[j]] = mem[j]]
    BY DEF Start, Call, Step, Find, Create, UpdateSave, UpdateProgress, UpdatePublish, Quotes, SaveQuotes,
           Build, SaveAttempt, Swap, SaveSwap, SaveError, PublishFailed, SaveFailed, PublishRetry,
           Backoff, SaveUnexpected, SaveOk, SaveFails
<1>4. RowsReal'
    <2> SUFFICES ASSUME NEW o \in Orders, row'[o] # NoRow
                 PROVE  RealHash(row[o], o)'
        BY DEF RowsReal
    <2>1. PICK e \in Entities : row'[o] = e /\ RealHash(e, o)
        BY <1>3, OrderOfAssumption DEF TypeOK, HashInv, RowsReal
    <2> QED
        BY <1>1, <2>1, HashStays DEF RealHash
<1>5. \A i \in Jobs \ {j} : RealHash(mem[i], OrderOf[i])'
    <2> SUFFICES ASSUME NEW i \in Jobs \ {j}
                 PROVE  RealHash(mem[i], OrderOf[i])'
        OBVIOUS
    <2>1. mem'[i] = mem[i] /\ mem[i] \in Entities /\ RealHash(mem[i], OrderOf[i])
        BY StepFrame DEF TypeOK, HashInv
    <2> QED
        BY <1>1, <2>1, HashStays DEF RealHash
<1> QED
    BY <1>2, <1>4, <1>5, StepFrame DEF HashInv

-----------------------------------------------------------------------------
(* The inductive invariant and the theorems. *)

IInv == TypeOK /\ AttemptsCounted /\ SwapInv /\ HashInv

\* The initial states satisfy the inductive invariant.
LEMMA InitIInv == Init => IInv
<1> SUFFICES ASSUME Init PROVE IInv
    OBVIOUS
<1> USE AttemptsAssumption DEF Init
<1>1. FreshOrder \in Entities
    BY DEF FreshOrder, Entities, Statuses
<1>2. TypeOK
    BY <1>1 DEF TypeOK, Points, Parts, Locals, FreshLocals, Reports, Notices, NoticeTypes
<1>3. AttemptsCounted
    BY DEF AttemptsCounted, FreshLocals
<1>4. SwapInv
    BY DEF SwapInv, SwapAt
<1>5. HashInv
    BY DEF HashInv, RowsReal, RealHash, FreshOrder, NoRow
<1> QED
    BY <1>2, <1>3, <1>4, <1>5 DEF IInv

\* Every step of every call keeps the inductive invariant.
LEMMA NextIInv == IInv /\ [Next]_vars => IInv'
<1> SUFFICES ASSUME IInv, [Next]_vars PROVE IInv'
    OBVIOUS
<1>1. CASE UNCHANGED vars
    BY <1>1 DEF vars, IInv, TypeOK, AttemptsCounted, SwapInv, SwapAt, Settled, HashInv,
       RowsReal, RealHash
<1>2. ASSUME NEW j \in Jobs, Start(j) \/ Step(j) PROVE IInv'
    BY <1>2, StepType, StepAttempts, StepSwap, StepHash DEF IInv
<1> QED
    BY <1>1, <1>2 DEF Next, Idle

\* The inductive invariant holds in every run of processOrder (worker.ts:36-300):
\* types, the bound on attempts, the swaps and the truth of entities and rows.
THEOREM InductiveInvariant == Spec => []IInv
BY InitIInv, NextIInv, PTL DEF Spec

\* The variables of worker.ts keep their types in every run.
THEOREM TypeCorrect == Spec => []TypeOK
<1>1. IInv => TypeOK
    BY DEF IInv
<1> QED
    BY <1>1, InductiveInvariant, PTL

\* However many orders, jobs and attempts there are, and whatever fails, one run of
\* processOrder executes at most one swap.
THEOREM AtMostOneSwapPerJob == Spec => []SwapOnce
<1>1. IInv => SwapOnce
    <2> SUFFICES ASSUME IInv, NEW j \in Jobs PROVE swaps[j] <= 1
        BY DEF SwapOnce
    <2>1. swaps[j] = 0 \/ swaps[j] = 1
        BY DEF IInv, SwapInv, SwapAt
    <2> QED
        BY <2>1
<1> QED
    BY <1>1, InductiveInvariant, PTL

\* Rows that are true are what ConfirmedIsExecuted asks for.
LEMMA TrueRows == TypeOK /\ HashInv => ConfirmedIsExecuted
<1> SUFFICES ASSUME TypeOK, HashInv, NEW o \in Orders, row[o] # NoRow
             PROVE  /\ row[o].txHash # NoHash =>
                          /\ OrderOf[row[o].txHash.job] = o
                          /\ row[o].txHash.nth <= swaps[row[o].txHash.job]
                    /\ row[o].status = "confirmed" =>
                          (\E j \in Jobs : OrderOf[j] = o /\ swaps[j] > 0) /\ row[o].txHash # NoHash
    BY DEF ConfirmedIsExecuted
<1>1. row[o] \in Entities /\ RealHash(row[o], o)
    BY DEF TypeOK, HashInv, RowsReal
<1>2. ASSUME row[o].txHash # NoHash
      PROVE  \E j \in Jobs : OrderOf[j] = o /\ swaps[j] > 0
    <2>1. row[o].txHash \in Hashes
        BY <1>1, <1>2 DEF Entities
    <2>2. row[o].txHash.job \in Jobs /\ row[o].txHash.nth \in Nat \ {0}
        BY <2>1 DEF Hashes
    <2>3. swaps[row[o].txHash.job] \in Nat
        BY <2>2 DEF TypeOK
    <2> QED
        BY <1>1, <1>2, <2>2, <2>3 DEF RealHash
<1> QED
    BY <1>1, <1>2 DEF RealHash

\* A row that holds a hash, or says confirmed, tells of an executed swap of its
\* order, even when several jobs of the order overwrite it.
THEOREM RowsTellTheTruth == Spec => []ConfirmedIsExecuted
<1>1. IInv => ConfirmedIsExecuted
    BY TrueRows DEF IInv
<1> QED
    BY <1>1, InductiveInvariant, PTL

=============================================================================
