----------------------- MODULE OrderNotificationsProofs -----------------------
(***************************************************************************)
(* Proofs about OrderNotifications: what clients hear of a verdict is      *)
(* true, what they are shown is never ahead of the row and comes in order, *)
(* for any numbers of orders, jobs, attempts and clients, and whatever     *)
(* the database loses and Redis does.                                      *)
(*                                                                         *)
(* The calls and the sessions keep the invariants proved about             *)
(* OrderProcessor and NotificationServer.  What is on its way - in the     *)
(* stream, in a channel - and what has arrived stays true because a call   *)
(* that has told its verdict only returns, and because no row goes back.   *)
(***************************************************************************)
EXTENDS OrderNotifications, TLAPS

\* The proofs about the components, read over the variables of the composition.
PP == INSTANCE OrderVerdictProofs WITH RedisMayFail <- FALSE
SP == INSTANCE NotificationServerProofs

-----------------------------------------------------------------------------
(* P and PP, and S and SP, are two instances of the same definitions. *)

\* The steps of a call are the same in both instances.
LEMMA SameStep == ASSUME NEW j PROVE P!Step(j) <=> PP!Step(j)
BY DEF P!Step, PP!Step, P!Find, PP!Find, P!Create, PP!Create, P!UpdateSave, PP!UpdateSave,
       P!UpdateProgress, PP!UpdateProgress, P!UpdatePublish, PP!UpdatePublish, P!AfterUpdate,
       PP!AfterUpdate, P!Quotes, PP!Quotes, P!SaveQuotes, PP!SaveQuotes, P!Build, PP!Build,
       P!SaveAttempt, PP!SaveAttempt, P!Swap, PP!Swap, P!SaveSwap, PP!SaveSwap, P!SaveError,
       PP!SaveError, P!GivesUp, PP!GivesUp, P!PublishFailed, PP!PublishFailed, P!SaveFailed,
       PP!SaveFailed, P!PublishRetry, PP!PublishRetry, P!Backoff, PP!Backoff, P!SaveUnexpected,
       PP!SaveUnexpected, P!Enter, PP!Enter, P!Hold, PP!Hold, P!Goto, PP!Goto, P!OuterCatch,
       PP!OuterCatch, P!InnerCatch, PP!InnerCatch, P!NextAttempt, PP!NextAttempt, P!SaveOk,
       PP!SaveOk, P!SaveFails, PP!SaveFails, P!Publish, PP!Publish, P!SiteStatus, PP!SiteStatus,
       P!SiteProgress, PP!SiteProgress, P!SubmitProgress, PP!SubmitProgress, P!Sites, PP!Sites,
       P!FreshOrder, PP!FreshOrder, P!NoRow, PP!NoRow, P!NoHash, PP!NoHash

\* So are those that tell something.
LEMMA SameNotices ==
    ASSUME NEW j
    PROVE  /\ P!UpdateProgress(j) <=> PP!UpdateProgress(j)
           /\ P!UpdatePublish(j) <=> PP!UpdatePublish(j)
           /\ P!PublishFailed(j) <=> PP!PublishFailed(j)
           /\ P!PublishRetry(j) <=> PP!PublishRetry(j)
BY DEF P!UpdateProgress, PP!UpdateProgress, P!UpdatePublish, PP!UpdatePublish, P!AfterUpdate,
       PP!AfterUpdate, P!GivesUp, PP!GivesUp, P!PublishFailed, PP!PublishFailed, P!PublishRetry,
       PP!PublishRetry, P!Hold, PP!Hold, P!Goto, PP!Goto, P!OuterCatch, PP!OuterCatch,
       P!NextAttempt, PP!NextAttempt, P!Publish, PP!Publish, P!SiteStatus, PP!SiteStatus,
       P!SiteProgress, PP!SiteProgress, P!SubmitProgress, PP!SubmitProgress, P!Sites, PP!Sites

\* So is the beginning of a call.
LEMMA SameStart == ASSUME NEW j PROVE P!Start(j) <=> PP!Start(j)
BY DEF P!Start, PP!Start, P!Call, PP!Call, P!Goto, PP!Goto, P!FreshLocals, PP!FreshLocals

\* The types of a call's variables are the same.
LEMMA SameTypes == (P!TypeOK <=> PP!TypeOK) /\ P!Reports = PP!Reports /\ P!NoticeTypes = PP!NoticeTypes
BY DEF P!TypeOK, PP!TypeOK, P!Points, PP!Points, P!Sites, PP!Sites, P!Ended, PP!Ended, P!Parts,
       PP!Parts, P!Locals, PP!Locals, P!Entities, PP!Entities, P!Statuses, PP!Statuses, P!Hashes,
       PP!Hashes, P!NoHash, PP!NoHash, P!NoRow, PP!NoRow, P!Reports, PP!Reports, P!Notices,
       PP!Notices, P!NoticeTypes, PP!NoticeTypes

\* Its initial states are the same.
LEMMA SameInit == (P!Init <=> PP!Init) /\ P!FreshOrder = PP!FreshOrder /\ (P!SoleWriter <=> PP!SoleWriter)
BY DEF P!Init, PP!Init, P!FreshLocals, PP!FreshLocals, P!FreshOrder, PP!FreshOrder, P!NoRow,
       PP!NoRow, P!NoHash, PP!NoHash, P!SoleWriter, PP!SoleWriter

\* The steps of the sessions are the same.
LEMMA SameServerNext == [S!Next]_(S!vars) <=> [SP!Next]_(SP!vars)
BY DEF S!Next, SP!Next, S!vars, SP!vars, S!sessionVars, SP!sessionVars, S!registryVars,
       SP!registryVars, S!StartDatabase, SP!StartDatabase, S!StartPing, SP!StartPing, S!Shutdown,
       SP!Shutdown, S!Drained, SP!Drained, S!Exit, SP!Exit, S!RedisStops, SP!RedisStops,
       S!RedisReturns, SP!RedisReturns, S!ConnectJson, SP!ConnectJson, S!ConnectNoOrder,
       SP!ConnectNoOrder, S!Reject, SP!Reject, S!SubscriberConnects, SP!SubscriberConnects,
       S!SubscriberFails, SP!SubscriberFails, S!RedisSubscribes, SP!RedisSubscribes,
       S!SubscriberReplied, SP!SubscriberReplied, S!Relay, SP!Relay, S!Resubscribes,
       SP!Resubscribes, S!LateReply, SP!LateReply, S!ClientLeaves, SP!ClientLeaves, S!SocketError,
       SP!SocketError, S!Closed, SP!Closed, S!ConnectPath, SP!ConnectPath, S!Subscribe,
       SP!Subscribe, S!Unsubscribe, SP!Unsubscribe, S!Forward, SP!Forward, S!Exited, SP!Exited,
       S!Opens, SP!Opens, S!Reads, SP!Reads, S!OrderOfPath, SP!OrderOfPath, S!Becomes, SP!Becomes,
       S!CloseSocket, SP!CloseSocket, S!ConfirmSubscription, SP!ConfirmSubscription, S!Disconnected,
       SP!Disconnected, S!ClearedSubs, SP!ClearedSubs, S!Alive, SP!Alive, S!Silence, SP!Silence,
       S!SendTo, SP!SendTo, S!SendToOrder, SP!SendToOrder, S!AndThen, SP!AndThen, S!Greeting,
       SP!Greeting, S!Register, SP!Register, S!Registered, SP!Registered, S!Unregistered,
       SP!Unregistered, S!CloseAll, SP!CloseAll, S!Clients, SP!Clients, S!NoClients, SP!NoClients,
       S!Message, SP!Message, S!NoOrder, SP!NoOrder

\* Their initial states and types are the same.
LEMMA SameServerTypes == (S!Init <=> SP!Init) /\ (S!TypeOK <=> SP!TypeOK)
BY DEF S!Init, SP!Init, S!RegistryInit, SP!RegistryInit, S!NoClients, SP!NoClients, S!Silence,
       SP!Silence, S!TypeOK, SP!TypeOK, S!RegistryTypeOK, SP!RegistryTypeOK, S!ReadyStates,
       SP!ReadyStates, S!Stages, SP!Stages, S!Routes, SP!Routes, S!SubscriberStates,
       SP!SubscriberStates, S!Messages, SP!Messages, S!MessageTypes, SP!MessageTypes, S!NoOrder,
       SP!NoOrder

\* The assumptions about the components, as their proofs state them.
LEMMA Assumptions ==
    /\ PP!OrderOfAssumption /\ PP!AttemptsAssumption /\ PP!FailureAssumption
    /\ SP!RedisAssumption
BY ComponentAssumption
   DEF PP!OrderOfAssumption, PP!AttemptsAssumption, PP!FailureAssumption, SP!RedisAssumption

-----------------------------------------------------------------------------
(* The calls and the sessions keep their invariants. *)

\* A step that changes the call of a job is a step of processOrder.
LEMMA ProcSteps == [Next]_vars => [PP!Next]_(PP!vars)
<1> SUFFICES ASSUME [Next]_vars, ~UNCHANGED procVars PROVE \E j \in Jobs : P!Start(j) \/ P!Step(j)
    BY SameStep, SameStart DEF PP!Next, PP!vars, procVars
<1> QED
    BY DEF Next, vars, Start, Work, Report, Publish, PublishEnd, ReadBlocks, ReadsOther, ReadTimesOut,
           Forward, Shows, Serve, RedisStops, SubscriberReplied, Relay, Closed, Quiet, P!Step

Events == [order: Orders, report: PP!Reports]

\* A step that changes the sessions is a step of the server.
LEMMA ServerSteps == ASSUME stream \in Seq(Events), [Next]_vars PROVE [SP!Next]_(SP!vars)
<1> SUFFICES ASSUME ~UNCHANGED sessionVars PROVE S!Next
    BY SameServerNext DEF sessionVars, S!vars, S!sessionVars, S!registryVars
<1>1. CASE Forward
    <2>1. stream # <<>> /\ S!Forward(Head(stream).order)
        BY <1>1 DEF Forward, Shows
    <2>2. Head(stream) \in Events
        BY <2>1
    <2>3. Head(stream).order \in Orders
        BY <2>2 DEF Events
    <2> QED
        BY <2>1, <2>3 DEF S!Next
<1>2. CASE Serve
    BY <1>2 DEF Serve, S!Next
<1>3. ASSUME NEW s \in Sockets, SubscriberReplied(s) \/ Relay(s) \/ Closed(s) PROVE S!Next
    BY <1>3 DEF SubscriberReplied, Relay, Closed, S!Next
<1>4. CASE RedisStops
    BY <1>4 DEF RedisStops, S!Next
<1>5. CASE ~Forward /\ ~Serve /\ ~RedisStops
           /\ \A s \in Sockets : ~(SubscriberReplied(s) \/ Relay(s) \/ Closed(s))
    <2>1. (\E j \in Jobs : Start(j) \/ Work(j) \/ Report(j) \/ Publish(j) \/ PublishEnd(j))
              \/ ReadBlocks \/ ReadsOther \/ ReadTimesOut \/ Quiet \/ UNCHANGED vars
        BY <1>5 DEF Next
    <2> QED
        BY <2>1 DEF vars, Start, Work, Report, Publish, PublishEnd, ReadBlocks, ReadsOther, ReadTimesOut, Quiet
<1> QED
    BY <1>1, <1>2, <1>3, <1>4, <1>5

\* The calls keep what is proved about processOrder; no row goes back (worker.ts:36-300).
CallsInv == PP!IInv /\ PP!VerdictInv /\ PP!PercentBounded /\ PP!RowInv

\* Every step of the composition keeps this, and no step takes a row back.
LEMMA NextCalls ==
    ASSUME CallsInv, [Next]_vars
    PROVE  /\ CallsInv'
           /\ P!SoleWriter => \A o \in Orders : PP!Rank(row[o].status) <= PP!Rank(row'[o].status)
<1>1. [PP!Next]_(PP!vars)
    BY ProcSteps
<1>2. PP!IInv' /\ PP!VerdictInv' /\ PP!PercentBounded'
    BY <1>1, Assumptions, PP!NextIInv, PP!NextVerdict, PP!NextPercent DEF CallsInv
<1>3. /\ PP!RowInv'
      /\ PP!SoleWriter => \A o \in Orders : PP!Rank(row[o].status) <= PP!Rank(row'[o].status)
    BY <1>1, Assumptions, PP!NextRow DEF CallsInv
<1> QED
    BY <1>2, <1>3, SameInit DEF CallsInv

\* What is on its way and what clients have made of it (orderEvents.ts, queue-events.ts).
Types == PP!NoticeTypes \union {"completed"}
DeliveryTypes ==
    /\ stream \in Seq(Events)
    /\ cursor \in Cursors
    /\ channel \in [Sockets -> Seq(Types)]
    /\ ended \in [Jobs -> BOOLEAN]
    /\ shown \in [Sockets -> [Orders -> PP!Reports]]
    /\ outcome \in [Sockets -> [Orders -> Outcomes]]

\* A client's conclusions are conclusions.
LEMMA HearsType ==
    ASSUME DeliveryTypes, NEW s \in Sockets, NEW o \in Orders, NEW type
    PROVE  /\ Hears(s, o, type) \in [Sockets -> [Orders -> Outcomes]]
           /\ Hears(s, o, type)[s] \in [Orders -> Outcomes]
BY DEF DeliveryTypes, Hears, Concluding, Outcomes

\* What is published are messages.
LEMMA PublishedType ==
    ASSUME DeliveryTypes, NEW o, NEW type \in Types, Published(o, type)
    PROVE  channel' \in [Sockets -> Seq(Types)]
BY DEF DeliveryTypes, Published

\* The order of a path session is the one it was opened for (server.ts:94-121).
LEMMA PathOrder ==
    ASSUME SP!IInv, NEW s \in Sockets, subscriber[s] # "none"
    PROVE  S!OrderOfPath(s) \in Orders /\ subs[s] = {S!OrderOfPath(s)}
BY DEF SP!IInv, SP!SessionShape, S!OrderOfPath

\* Every step keeps these types.
LEMMA NextDelivery ==
    ASSUME PP!TypeOK, PP!TypeOK', SP!IInv, DeliveryTypes, [Next]_vars
    PROVE  DeliveryTypes'
<1> USE DEF DeliveryTypes, Cursors
<1>0. OrderOf \in [Jobs -> Orders]
    BY ComponentAssumption
<1>1. ASSUME NEW j \in Jobs, Start(j) \/ Work(j) PROVE DeliveryTypes'
    BY <1>1 DEF Start, Work, clientVars
<1>2. ASSUME NEW j \in Jobs, Report(j) PROVE DeliveryTypes'
    <2>1. [order |-> OrderOf[j], report |-> progress'[j]] \in Events
        BY <1>0 DEF PP!TypeOK, Events
    <2>2. ASSUME NEW e \in Events PROVE Append(stream, e) \in Seq(Events)
        OBVIOUS
    <2>3. stream' \in Seq(Events) /\ cursor' \in Cursors /\ UNCHANGED <<channel, ended, clientVars>>
        BY <1>2, <2>1, <2>2 DEF Report
    <2> QED
        BY <2>3 DEF clientVars
<1>3. ASSUME NEW j \in Jobs, Publish(j) PROVE DeliveryTypes'
    <2>1. announced'[OrderOf[j]].type \in Types
        BY <1>0 DEF PP!TypeOK, PP!Notices, Types
    <2> QED
        BY <1>3, <2>1, PublishedType DEF Publish, clientVars
<1>4. ASSUME NEW j \in Jobs, PublishEnd(j) PROVE DeliveryTypes'
    <2>1. "failed" \in Types /\ "completed" \in Types
        BY DEF Types, PP!NoticeTypes, PP!Statuses
    <2> QED
        BY <1>4, <2>1, PublishedType DEF PublishEnd, clientVars
<1>5. CASE ReadBlocks \/ ReadsOther \/ ReadTimesOut \/ Serve \/ Quiet \/ UNCHANGED vars
    BY <1>5 DEF ReadBlocks, ReadsOther, ReadTimesOut, Serve, Quiet, vars, clientVars
<1>6. CASE RedisStops
    BY <1>6 DEF RedisStops, clientVars
<1>7. CASE Forward
    <2>1. stream # <<>> /\ Shows(Head(stream)) /\ stream' = Tail(stream)
          /\ UNCHANGED <<cursor, channel, ended>>
        BY <1>7 DEF Forward
    <2>2. Head(stream) \in Events /\ stream' \in Seq(Events)
        BY <2>1
    <2> DEFINE e == Head(stream)
    <2>3. e.order \in Orders /\ e.report \in PP!Reports
        BY <2>2 DEF Events
    <2>4. shown' \in [Sockets -> [Orders -> PP!Reports]]
        BY <2>1, <2>3 DEF Shows
    <2>5. outcome' \in [Sockets -> [Orders -> Outcomes]]
        BY <2>1, <2>3, HearsType DEF Shows
    <2> QED
        BY <2>1, <2>2, <2>4, <2>5
<1>8. ASSUME NEW s \in Sockets, SubscriberReplied(s) PROVE DeliveryTypes'
    <2>1. PICK lost \in 0 .. Len(channel[s]) :
              channel' = [channel EXCEPT ![s] = SubSeq(@, lost + 1, Len(@))]
        BY <1>8 DEF SubscriberReplied
    <2>2. SubSeq(channel[s], lost + 1, Len(channel[s])) \in Seq(Types)
        BY <2>1
    <2>3. channel' \in [Sockets -> Seq(Types)]
        BY <2>1, <2>2
    <2> QED
        BY <1>8, <2>3 DEF SubscriberReplied, clientVars
<1>9. ASSUME NEW s \in Sockets, Relay(s) PROVE DeliveryTypes'
    <2>1. channel[s] # <<>> /\ channel' = [channel EXCEPT ![s] = Tail(@)]
        BY <1>9 DEF Relay
    <2>2. Tail(channel[s]) \in Seq(Types)
        BY <2>1
    <2>3. channel' \in [Sockets -> Seq(Types)]
        BY <2>1, <2>2
    <2>4. S!OrderOfPath(s) \in Orders
        BY <1>9, PathOrder DEF Relay, S!Relay
    <2> QED
        BY <1>9, <2>3, <2>4, HearsType DEF Relay
<1>10. ASSUME NEW s \in Sockets, Closed(s) PROVE DeliveryTypes'
    BY <1>10 DEF Closed, clientVars
<1> QED
    BY <1>1, <1>2, <1>3, <1>4, <1>5, <1>6, <1>7, <1>8, <1>9, <1>10 DEF Next

-----------------------------------------------------------------------------
(* What is told of a verdict is true. *)

\* The orders of calls that have told their verdict, or that threw.
Confirmed == {o \in Orders : \E j \in Jobs : OrderOf[j] = o /\ PP!Confirming(j)}
Failed == {o \in Orders : \E j \in Jobs : OrderOf[j] = o /\ PP!Failing(j)}

Concluded(o, type) ==
    /\ type = "confirmed" => o \in Confirmed
    /\ type = "failed" => o \in Failed
Behind(o, report) == PP!Rank(report.status) <= PP!Rank(row[o].status) /\ Concluded(o, report.status)

\* Verdicts told stay true, and no row goes back.
LEMMA Onwards ==
    ASSUME CallsInv, P!SoleWriter, [Next]_vars
    PROVE  /\ Confirmed \subseteq Confirmed' /\ Failed \subseteq Failed'
           /\ \A o \in Orders : PP!Rank(row[o].status) <= PP!Rank(row'[o].status)
<1>1. ASSUME NEW i \in Jobs, PP!Start(i) \/ PP!Step(i)
      PROVE  \A j \in Jobs : /\ PP!Confirming(j) => PP!Confirming(j)'
                             /\ PP!Failing(j) => PP!Failing(j)'
    BY <1>1, Assumptions, PP!VerdictFollows DEF CallsInv, PP!IInv
<1>2. ASSUME UNCHANGED PP!vars
      PROVE  \A j \in Jobs : /\ PP!Confirming(j) => PP!Confirming(j)'
                             /\ PP!Failing(j) => PP!Failing(j)'
    BY <1>2 DEF PP!vars, PP!Confirming, PP!Failing
<1>3. \A j \in Jobs : /\ PP!Confirming(j) => PP!Confirming(j)'
                      /\ PP!Failing(j) => PP!Failing(j)'
    BY <1>1, <1>2, ProcSteps DEF PP!Next, PP!Idle
<1>4. Confirmed \subseteq Confirmed' /\ Failed \subseteq Failed'
    BY <1>3 DEF Confirmed, Failed
<1> QED
    BY <1>4, NextCalls

\* A report tells what the row says, a published verdict is that of the call.
LEMMA TellsTruth ==
    ASSUME CallsInv, P!SoleWriter, NEW j \in Jobs
    PROVE  /\ Report(j) => /\ PP!Rank(progress'[j].status) <= PP!Rank(row'[OrderOf[j]].status)
                           /\ progress'[j].status = "confirmed" => OrderOf[j] \in Confirmed'
                           /\ progress'[j].status = "failed" => OrderOf[j] \in Failed'
           /\ Publish(j) => LET type == announced'[OrderOf[j]].type IN
                            /\ type = "confirmed" => OrderOf[j] \in Confirmed'
                            /\ type = "failed" => OrderOf[j] \in Failed'
<1>0. OrderOf[j] \in Orders /\ PP!TypeOK /\ PP!EntityAt(j) /\ PP!RowAt(j)
    BY ComponentAssumption, SameInit DEF CallsInv, PP!IInv, PP!VerdictInv
<1>1. (PP!Confirming(j)' => OrderOf[j] \in Confirmed') /\ (PP!Failing(j)' => OrderOf[j] \in Failed')
    BY <1>0 DEF Confirmed, Failed
<1>2. CASE Report(j)
    <2>1. PP!UpdateProgress(j) /\ row' = row
        BY <1>2, SameNotices DEF Report, PP!UpdateProgress
    <2>2. /\ progress'[j].status = row[OrderOf[j]].status
          /\ progress'[j].status = "confirmed" => PP!Confirming(j)'
          /\ progress'[j].status = "failed" => PP!Failing(j)'
        BY <1>0, <2>1, Assumptions, PP!ReportTold
    <2>3. PP!Rank(row[OrderOf[j]].status) \in 0..5
        BY Assumptions, PP!RankRange
    <2>4. PP!Rank(progress'[j].status) <= PP!Rank(row'[OrderOf[j]].status)
        BY <2>1, <2>2, <2>3
    <2>5. ~Publish(j)
        BY <1>2, <2>1 DEF Report, Publish, P!UpdatePublish, P!PublishFailed, P!PublishRetry,
           PP!UpdateProgress, PP!Sites
    <2> QED
        BY <1>1, <2>2, <2>4, <2>5
<1>3. CASE Publish(j)
    <2>1. PP!UpdatePublish(j) \/ PP!PublishFailed(j) \/ PP!PublishRetry(j)
        BY <1>3, SameNotices DEF Publish
    <2>2. LET type == announced'[OrderOf[j]].type IN
          /\ type = "confirmed" => PP!Confirming(j)'
          /\ type = "failed" => PP!Failing(j)'
        BY <1>0, <2>1, Assumptions, PP!NoticeTold
    <2>3. ~Report(j)
        BY <2>1, SameNotices DEF Report, PP!UpdateProgress, PP!UpdatePublish, PP!PublishFailed, PP!PublishRetry,
           PP!Sites
    <2> QED
        BY <1>1, <2>2, <2>3
<1> QED
    BY <1>2, <1>3

\* What waits to be forwarded, and what clients were shown.
StreamTold == \A i \in 1 .. Len(stream) : Behind(stream[i].order, stream[i].report)
ShownTold == \A s \in Sockets, o \in Orders : Behind(o, shown[s][o])

\* What waits for a subscriber is about the order of its session.
ChannelTold ==
    \A s \in Sockets :
        /\ channel[s] # <<>> => subscriber[s] \in {"replying", "listening"}
        /\ \A o \in subs[s] : \A i \in 1 .. Len(channel[s]) : Concluded(o, channel[s][i])

\* What clients took for the verdict.
OutcomeTold ==
    \A s \in Sockets, o \in Orders :
        /\ outcome[s][o] = "success" => o \in Confirmed
        /\ outcome[s][o] = "failure" => o \in Failed

BaseInv == CallsInv /\ SP!IInv /\ DeliveryTypes
ToldInv == StreamTold /\ ShownTold /\ ChannelTold /\ OutcomeTold

\* The events in the stream are typed.
LEMMA EventAt ==
    ASSUME stream \in Seq(Events), NEW i \in 1 .. Len(stream)
    PROVE  stream[i].order \in Orders /\ stream[i].report \in PP!Reports
<1>1. stream[i] \in Events
    OBVIOUS
<1> QED
    BY <1>1 DEF Events

\* The stream stays true.
LEMMA NextStream ==
    ASSUME BaseInv, P!SoleWriter, StreamTold, [Next]_vars
    PROVE  StreamTold'
<1>0. stream \in Seq(Events) /\ \A status : PP!Rank(status) \in 0..5
    BY Assumptions, PP!RankRange DEF BaseInv, DeliveryTypes
<1>1. \A i \in 1 .. Len(stream) :
         /\ PP!Rank(stream[i].report.status) <= PP!Rank(row'[stream[i].order].status)
         /\ stream[i].report.status = "confirmed" => stream[i].order \in Confirmed'
         /\ stream[i].report.status = "failed" => stream[i].order \in Failed'
    <2> SUFFICES ASSUME NEW i \in 1 .. Len(stream)
                 PROVE  /\ PP!Rank(stream[i].report.status) <= PP!Rank(row'[stream[i].order].status)
                        /\ stream[i].report.status = "confirmed" => stream[i].order \in Confirmed'
                        /\ stream[i].report.status = "failed" => stream[i].order \in Failed'
        OBVIOUS
    <2> DEFINE o == stream[i].order
               status == stream[i].report.status
    <2>1. o \in Orders /\ Behind(o, stream[i].report)
        BY <1>0, EventAt DEF StreamTold
    <2>2. PP!Rank(status) <= PP!Rank(row[o].status) /\ PP!Rank(row[o].status) <= PP!Rank(row'[o].status)
        BY <2>1, Onwards DEF BaseInv, Behind
    <2>3. (status = "confirmed" => o \in Confirmed') /\ (status = "failed" => o \in Failed')
        BY <2>1, Onwards DEF BaseInv, Behind, Concluded
    <2>4. PP!Rank(status) <= PP!Rank(row'[o].status)
        <3>1. PP!Rank(status) \in 0..5 /\ PP!Rank(row[o].status) \in 0..5 /\ PP!Rank(row'[o].status) \in 0..5
            BY <1>0
        <3> QED
            BY <2>2, <3>1
    <2> QED
        BY <2>3, <2>4
<1>2. CASE stream' = stream
    BY <1>1, <1>2 DEF StreamTold, Behind, Concluded
<1>3. ASSUME stream # <<>>, stream' = Tail(stream) PROVE StreamTold'
    <2>1. Len(stream') = Len(stream) - 1 /\ \A i \in 1 .. Len(stream') : stream'[i] = stream[i + 1]
        BY <1>0, <1>3
    <2>2. \A i \in 1 .. Len(stream') : i + 1 \in 1 .. Len(stream)
        BY <1>0, <2>1
    <2> QED
        BY <1>1, <2>1, <2>2 DEF StreamTold, Behind, Concluded
<1>4. ASSUME NEW j \in Jobs, Report(j), stream' # stream PROVE StreamTold'
    <2> DEFINE e == [order |-> OrderOf[j], report |-> progress'[j]]
    <2>1. stream' = Append(stream, e)
        BY <1>4 DEF Report
    <2>2. /\ Len(stream') = Len(stream) + 1
          /\ \A i \in 1 .. Len(stream) : stream'[i] = stream[i]
          /\ stream'[Len(stream) + 1] = e
        BY <1>0, <2>1
    <2>3. /\ PP!Rank(e.report.status) <= PP!Rank(row'[e.order].status)
          /\ e.report.status = "confirmed" => e.order \in Confirmed'
          /\ e.report.status = "failed" => e.order \in Failed'
        BY <1>4, TellsTruth DEF BaseInv
    <2>4. \A i \in 1 .. Len(stream') : i \in 1 .. Len(stream) \/ i = Len(stream) + 1
        BY <1>0, <2>2
    <2> HIDE DEF e
    <2> QED
        BY <1>1, <2>2, <2>3, <2>4 DEF StreamTold, Behind, Concluded
<1> QED
    BY <1>2, <1>3, <1>4
       DEF Next, vars, Start, Work, Publish, PublishEnd, ReadBlocks, ReadsOther, ReadTimesOut, Forward,
           Serve, RedisStops, SubscriberReplied, Relay, Closed, Quiet

\* What a client has been shown came from the stream.
LEMMA ShownFrom ==
    ASSUME DeliveryTypes, [Next]_vars, NEW s \in Sockets, NEW o \in Orders
    PROVE  \/ shown'[s][o] = shown[s][o]
           \/ /\ stream # <<>> /\ o = Head(stream).order /\ shown'[s][o] = Head(stream).report
              /\ stream' = Tail(stream)
<1>1. CASE Forward
    BY <1>1 DEF Forward, Shows, DeliveryTypes
<1>2. CASE ~Forward
    <2>1. shown' = shown
        BY <1>2 DEF Next, vars, Start, Work, Report, Publish, PublishEnd, ReadBlocks, ReadsOther, ReadTimesOut,
           Serve, RedisStops, SubscriberReplied, Relay, Closed, Quiet, clientVars
    <2> QED
        BY <2>1
<1> QED
    BY <1>1, <1>2

\* What clients are shown stays behind the rows: it comes from the stream.
LEMMA NextShown ==
    ASSUME BaseInv, P!SoleWriter, StreamTold, ShownTold, [Next]_vars
    PROVE  ShownTold'
<1> SUFFICES ASSUME NEW s \in Sockets, NEW o \in Orders PROVE Behind(o, shown[s][o])'
    BY DEF ShownTold
<1> DEFINE status == shown'[s][o].status
<1>1. \A rank : PP!Rank(rank) \in 0..5
    BY Assumptions, PP!RankRange
<1>2. /\ PP!Rank(status) <= PP!Rank(row[o].status)
      /\ status = "confirmed" => o \in Confirmed
      /\ status = "failed" => o \in Failed
    <2>1. CASE shown'[s][o] = shown[s][o]
        BY <2>1 DEF ShownTold, Behind, Concluded
    <2>2. CASE stream # <<>> /\ o = Head(stream).order /\ shown'[s][o] = Head(stream).report
        <3>1. 1 \in 1 .. Len(stream) /\ Head(stream) = stream[1]
            BY <2>2 DEF BaseInv, DeliveryTypes
        <3> QED
            BY <2>2, <3>1 DEF StreamTold, Behind, Concluded
    <2> QED
        BY <2>1, <2>2, ShownFrom DEF BaseInv
<1>3. PP!Rank(row[o].status) <= PP!Rank(row'[o].status) /\ Confirmed \subseteq Confirmed' /\ Failed \subseteq Failed'
    BY Onwards DEF BaseInv
<1>4. PP!Rank(status) <= PP!Rank(row'[o].status)
    <2>1. PP!Rank(status) \in 0..5 /\ PP!Rank(row[o].status) \in 0..5 /\ PP!Rank(row'[o].status) \in 0..5
        BY <1>1
    <2> QED
        BY <1>2, <1>3, <2>1
<1> QED
    BY <1>2, <1>3, <1>4 DEF Behind, Concluded

\* What is left of a sequence cut from the front are elements of it.
LEMMA RestOf ==
    ASSUME NEW T, NEW q \in Seq(T), NEW n \in 0 .. Len(q)
    PROVE  /\ SubSeq(q, n + 1, Len(q)) # <<>> => q # <<>>
           /\ \A i \in 1 .. Len(SubSeq(q, n + 1, Len(q))) :
                 \E k \in 1 .. Len(q) : SubSeq(q, n + 1, Len(q))[i] = q[k]
<1> DEFINE r == SubSeq(q, n + 1, Len(q))
<1>1. Len(r) = Len(q) - n /\ \A i \in 1 .. Len(r) : r[i] = q[i + n]
    OBVIOUS
<1>2. \A i \in 1 .. Len(r) : i + n \in 1 .. Len(q)
    BY <1>1
<1>3. q = <<>> => r = <<>>
    BY <1>1
<1> QED
    BY <1>1, <1>2, <1>3

\* What is left of a queue was in it.
LEMMA TailOf ==
    ASSUME NEW T, NEW q \in Seq(T), q # <<>>
    PROVE  \A i \in 1 .. Len(Tail(q)) : \E k \in 1 .. Len(q) : Tail(q)[i] = q[k]
<1>1. Len(Tail(q)) = Len(q) - 1 /\ \A i \in 1 .. Len(Tail(q)) : Tail(q)[i] = q[i + 1]
    OBVIOUS
<1>2. \A i \in 1 .. Len(Tail(q)) : i + 1 \in 1 .. Len(q)
    BY <1>1
<1> QED
    BY <1>1, <1>2

\* A message published about an order reaches subscribers of that order only.
LEMMA PublishedTold ==
    ASSUME BaseInv, ChannelTold, Confirmed \subseteq Confirmed', Failed \subseteq Failed',
           NEW o \in Orders, NEW type \in Types, Published(o, type), UNCHANGED sessionVars,
           type = "confirmed" => o \in Confirmed', type = "failed" => o \in Failed'
    PROVE  ChannelTold'
<1> SUFFICES ASSUME NEW s \in Sockets
             PROVE  /\ channel'[s] # <<>> => subscriber[s] \in {"replying", "listening"}
                    /\ \A p \in subs[s] : \A i \in 1 .. Len(channel'[s]) :
                          /\ channel'[s][i] = "confirmed" => p \in Confirmed'
                          /\ channel'[s][i] = "failed" => p \in Failed'
    BY DEF ChannelTold, Concluded, sessionVars
<1>1. CASE channel'[s] = channel[s]
    BY <1>1 DEF ChannelTold, Concluded
<1>2. CASE /\ o \in subs[s] /\ subscriber[s] \in {"replying", "listening"}
           /\ channel'[s] = Append(channel[s], type)
    <2>1. channel[s] \in Seq(Types)
        BY DEF BaseInv, DeliveryTypes
    <2>2. \A i \in 1 .. Len(channel'[s]) :
             \/ i \in 1 .. Len(channel[s]) /\ channel'[s][i] = channel[s][i]
             \/ channel'[s][i] = type
        BY <1>2, <2>1
    <2>3. \A p \in subs[s] : p = o
        BY <1>2, PathOrder DEF BaseInv
    <2> QED
        BY <1>2, <2>2, <2>3 DEF ChannelTold, Concluded
<1> QED
    BY <1>1, <1>2 DEF Published

\* A channel that is cut from the front, with the session as it was, stays true.
LEMMA CutTold ==
    ASSUME BaseInv, ChannelTold, Confirmed \subseteq Confirmed', Failed \subseteq Failed',
           NEW s \in Sockets,
           channel'[s] # <<>> => channel[s] # <<>> /\ subscriber'[s] \in {"replying", "listening"}
                                 /\ subs'[s] = subs[s],
           \A i \in 1 .. Len(channel'[s]) : \E k \in 1 .. Len(channel[s]) : channel'[s][i] = channel[s][k],
           channel'[s] \in Seq(Types)
    PROVE  /\ channel'[s] # <<>> => subscriber'[s] \in {"replying", "listening"}
           /\ \A o \in subs'[s] : \A i \in 1 .. Len(channel'[s]) : Concluded(o, channel[s][i])'
<1> SUFFICES ASSUME NEW o \in subs'[s], NEW i \in 1 .. Len(channel'[s])
             PROVE  Concluded(o, channel[s][i])'
    OBVIOUS
<1>1. channel'[s] # <<>>
    OBVIOUS
<1>2. PICK k \in 1 .. Len(channel[s]) : channel'[s][i] = channel[s][k]
    OBVIOUS
<1>3. Concluded(o, channel[s][k])
    BY <1>1 DEF ChannelTold
<1> QED
    BY <1>2, <1>3 DEF Concluded

\* The steps of the server that carry no message leave a subscribed session alone.
LEMMA ServeKeeps ==
    ASSUME SP!IInv, Serve, NEW s \in Sockets, subscriber[s] \in {"replying", "listening"}
    PROVE  subscriber'[s] \in {"replying", "listening"} /\ subs'[s] = subs[s]
<1> USE DEF SP!IInv, SP!TypeOK, SP!RegistryTypeOK, SP!SessionShape
<1>1. CASE S!StartDatabase \/ S!StartPing \/ S!RedisReturns
    BY <1>1 DEF S!StartDatabase, S!StartPing, S!RedisReturns
<1>2. ASSUME NEW t \in Sockets,
             \/ S!ConnectJson(t) \/ S!SubscriberConnects(t) \/ S!SubscriberFails(t)
             \/ S!RedisSubscribes(t) \/ S!Resubscribes(t) \/ S!LateReply(t) \/ S!ClientLeaves(t)
      PROVE  subscriber'[s] \in {"replying", "listening"} /\ subs'[s] = subs[s]
    BY <1>2 DEF S!ConnectJson, S!SubscriberConnects, S!SubscriberFails, S!RedisSubscribes, S!Resubscribes,
       S!LateReply, S!ClientLeaves, S!Becomes, S!sessionVars, S!Opens
<1>3. ASSUME NEW t \in Sockets, NEW o \in Orders,
             S!ConnectPath(t, o) \/ S!Subscribe(t, o) \/ S!Unsubscribe(t, o)
      PROVE  subscriber'[s] \in {"replying", "listening"} /\ subs'[s] = subs[s]
    BY <1>3 DEF S!ConnectPath, S!Subscribe, S!Unsubscribe, S!Opens, S!Reads
<1> QED
    BY <1>1, <1>2, <1>3 DEF Serve

\* The channels stay true.
LEMMA NextChannel ==
    ASSUME BaseInv, DeliveryTypes', P!SoleWriter, ChannelTold, [Next]_vars
    PROVE  ChannelTold'
<1>0. Confirmed \subseteq Confirmed' /\ Failed \subseteq Failed' /\ OrderOf \in [Jobs -> Orders]
    BY Onwards, ComponentAssumption DEF BaseInv
<1>1. \A s \in Sockets : channel[s] \in Seq(Types) /\ channel'[s] \in Seq(Types)
    BY DEF BaseInv, DeliveryTypes
<1>2. ASSUME NEW j \in Jobs, Publish(j) PROVE ChannelTold'
    <2>1. announced'[OrderOf[j]].type \in Types
        <3>1. PP!TypeOK'
            BY <1>2, NextCalls DEF BaseInv, CallsInv, PP!IInv, Next
        <3> QED
            BY <1>0, <3>1 DEF PP!TypeOK, PP!Notices, Types
    <2> QED
        BY <1>0, <1>2, <2>1, TellsTruth, PublishedTold DEF Publish, BaseInv
<1>3. ASSUME NEW j \in Jobs, PublishEnd(j) PROVE ChannelTold'
    <2>1. "failed" \in Types /\ "completed" \in Types
        BY DEF Types, PP!NoticeTypes, PP!Statuses
    <2>2. pc[j] = "threw" => OrderOf[j] \in Failed'
        BY <1>0 DEF Failed, PP!Failing
    <2> QED
        BY <1>0, <1>3, <2>1, <2>2, PublishedTold DEF PublishEnd
<1>4. ASSUME \A s \in Sockets :
                /\ channel'[s] # <<>> => channel[s] # <<>> /\ subscriber'[s] \in {"replying", "listening"}
                                         /\ subs'[s] = subs[s]
                /\ \A i \in 1 .. Len(channel'[s]) : \E k \in 1 .. Len(channel[s]) : channel'[s][i] = channel[s][k]
      PROVE  ChannelTold'
    BY <1>0, <1>1, <1>4, CutTold DEF ChannelTold
<1>5. CASE channel' = channel /\ UNCHANGED <<subs, subscriber>>
    BY <1>4, <1>5 DEF ChannelTold
<1>6. CASE Serve
    <2>1. channel' = channel
        BY <1>6 DEF Serve
    <2>2. \A s \in Sockets : channel[s] # <<>> => subscriber'[s] \in {"replying", "listening"} /\ subs'[s] = subs[s]
        BY <1>6, ServeKeeps DEF BaseInv, ChannelTold
    <2> QED
        BY <1>4, <2>1, <2>2
<1>7. CASE RedisStops
    BY <1>4, <1>7 DEF RedisStops
<1>8. ASSUME NEW t \in Sockets, SubscriberReplied(t) PROVE ChannelTold'
    <2>1. PICK lost \in 0 .. Len(channel[t]) :
              channel' = [channel EXCEPT ![t] = SubSeq(@, lost + 1, Len(@))]
        BY <1>8 DEF SubscriberReplied
    <2>2. subs' = subs /\ subscriber' = [subscriber EXCEPT ![t] = "listening"]
        BY <1>8 DEF SubscriberReplied, S!SubscriberReplied, S!Becomes
    <2>3. \A s \in Sockets : channel'[s] = IF s = t THEN SubSeq(channel[t], lost + 1, Len(channel[t]))
                                           ELSE channel[s]
        BY <2>1 DEF BaseInv, DeliveryTypes
    <2>4. channel[t] \in Seq(Types) /\ channel'[t] = SubSeq(channel[t], lost + 1, Len(channel[t]))
        BY <1>1, <2>3
    <2>5. /\ channel'[t] # <<>> => channel[t] # <<>>
          /\ \A i \in 1 .. Len(channel'[t]) : \E k \in 1 .. Len(channel[t]) : channel'[t][i] = channel[t][k]
        <3> DEFINE q == channel[t]
                   r == SubSeq(q, lost + 1, Len(q))
        <3> HIDE DEF q
        <3>1. q \in Seq(Types) /\ lost \in 0 .. Len(q)
            BY <2>4 DEF q
        <3>2. (r # <<>> => q # <<>>) /\ \A i \in 1 .. Len(r) : \E k \in 1 .. Len(q) : r[i] = q[k]
            BY <3>1, RestOf
        <3> HIDE DEF r
        <3>3. channel'[t] = r
            BY <2>4 DEF q, r
        <3> QED
            BY <3>2, <3>3 DEF q
    <2>6. \A s \in Sockets : subscriber'[s] = IF s = t THEN "listening" ELSE subscriber[s]
        BY <2>2 DEF BaseInv, SP!IInv, SP!TypeOK
    <2>7. \A s \in Sockets : channel[s] # <<>> => subscriber'[s] \in {"replying", "listening"}
        BY <2>6 DEF ChannelTold
    <2> QED
        BY <1>4, <2>2, <2>3, <2>5, <2>7
<1>9. ASSUME NEW t \in Sockets, Relay(t) PROVE ChannelTold'
    <2>1. channel[t] # <<>> /\ channel' = [channel EXCEPT ![t] = Tail(@)] /\ subs' = subs
          /\ subscriber' = subscriber
        BY <1>9 DEF Relay, S!Relay, S!sessionVars
    <2>2. \A s \in Sockets : channel'[s] = IF s = t THEN Tail(channel[t]) ELSE channel[s]
        BY <2>1 DEF BaseInv, DeliveryTypes
    <2>3. \A i \in 1 .. Len(channel'[t]) : \E k \in 1 .. Len(channel[t]) : channel'[t][i] = channel[t][k]
        BY <1>1, <2>1, <2>2, TailOf
    <2>4. \A s \in Sockets : channel[s] # <<>> => subscriber'[s] \in {"replying", "listening"}
        BY <2>1 DEF ChannelTold
    <2> QED
        BY <1>4, <2>1, <2>2, <2>3, <2>4
<1>10. ASSUME NEW t \in Sockets, Closed(t) PROVE ChannelTold'
    <2>1. \A s \in Sockets : channel'[s] = IF s = t THEN <<>> ELSE channel[s]
        BY <1>10 DEF Closed, BaseInv, DeliveryTypes
    <2>2. \A s \in Sockets \ {t} : subs'[s] = subs[s] /\ subscriber'[s] = subscriber[s]
        BY <1>10 DEF Closed, S!Closed, S!ClearedSubs, S!Becomes, BaseInv, SP!IInv, SP!TypeOK
    <2> QED
        BY <1>4, <2>1, <2>2 DEF ChannelTold
<1>11. CASE Forward
    BY <1>5, <1>11 DEF Forward, Shows, S!Forward, S!sessionVars
<1> QED
    BY <1>2, <1>3, <1>5, <1>6, <1>7, <1>8, <1>9, <1>10, <1>11
       DEF Next, vars, Start, Work, Report, ReadBlocks, ReadsOther, ReadTimesOut, Quiet, sessionVars

\* What a client takes for the verdict it heard.
LEMMA NextOutcome ==
    ASSUME BaseInv, P!SoleWriter, ToldInv, [Next]_vars
    PROVE  OutcomeTold'
<1> SUFFICES ASSUME NEW t \in Sockets, NEW p \in Orders
             PROVE  /\ outcome'[t][p] = "success" => p \in Confirmed
                    /\ outcome'[t][p] = "failure" => p \in Failed
    BY Onwards DEF OutcomeTold, BaseInv
<1>1. CASE outcome'[t][p] = outcome[t][p]
    BY <1>1 DEF ToldInv, OutcomeTold
<1>2. ASSUME NEW type, Concluded(p, type), outcome'[t][p] = Concluding(outcome[t][p], type)
      PROVE  /\ outcome'[t][p] = "success" => p \in Confirmed
             /\ outcome'[t][p] = "failure" => p \in Failed
    BY <1>2 DEF ToldInv, OutcomeTold, Concluded, Concluding
<1>3. CASE Forward
    <2>1. stream # <<>> /\ Shows(Head(stream))
        BY <1>3 DEF Forward
    <2>2. 1 \in 1 .. Len(stream) /\ Head(stream) = stream[1]
        BY <2>1 DEF BaseInv, DeliveryTypes
    <2>3. Concluded(Head(stream).order, Head(stream).report.status)
        BY <2>2 DEF ToldInv, StreamTold, Behind
    <2>4. \/ outcome'[t][p] = outcome[t][p]
          \/ /\ p = Head(stream).order
             /\ outcome'[t][p] = Concluding(outcome[t][p], Head(stream).report.status)
        BY <2>1 DEF Shows, Hears, BaseInv, DeliveryTypes
    <2> QED
        BY <1>1, <1>2, <2>3, <2>4
<1>4. ASSUME NEW s \in Sockets, Relay(s)
      PROVE  /\ outcome'[t][p] = "success" => p \in Confirmed
             /\ outcome'[t][p] = "failure" => p \in Failed
    <2>1. channel[s] # <<>> /\ subscriber[s] = "listening"
        BY <1>4 DEF Relay, S!Relay
    <2>2. S!OrderOfPath(s) \in subs[s]
        BY <2>1, PathOrder DEF BaseInv
    <2>3. 1 \in 1 .. Len(channel[s]) /\ Head(channel[s]) = channel[s][1]
        BY <2>1 DEF BaseInv, DeliveryTypes
    <2>4. Concluded(S!OrderOfPath(s), Head(channel[s]))
        BY <2>2, <2>3 DEF ToldInv, ChannelTold
    <2>5. \/ outcome'[t][p] = outcome[t][p]
          \/ /\ p = S!OrderOfPath(s)
             /\ outcome'[t][p] = Concluding(outcome[t][p], Head(channel[s]))
        BY <1>4 DEF Relay, Hears, BaseInv, DeliveryTypes
    <2> QED
        BY <1>1, <1>2, <2>4, <2>5
<1> QED
    BY <1>1, <1>3, <1>4
       DEF Next, vars, Start, Work, Report, Publish, PublishEnd, ReadBlocks, ReadsOther, ReadTimesOut,
           Serve, RedisStops, SubscriberReplied, Closed, Quiet, clientVars

-----------------------------------------------------------------------------
(* What is shown comes in order. *)

\* b may be shown after a.
Before(a, b) == b.percent >= a.percent \/ b.status = "failed"

\* What clients were shown, what waits and what the job has as its progress, in this order.
InOrder ==
    /\ \A s \in Sockets, j \in Jobs : Before(shown[s][OrderOf[j]], progress[j])
    /\ \A i \in 1 .. Len(stream), j \in Jobs :
          OrderOf[j] = stream[i].order => Before(stream[i].report, progress[j])
    /\ \A s \in Sockets, i \in 1 .. Len(stream) : Before(shown[s][stream[i].order], stream[i].report)
    /\ \A i, k \in 1 .. Len(stream) :
          i < k /\ stream[i].order = stream[k].order => Before(stream[i].report, stream[k].report)

\* What may come before the progress of a job may come before its next progress.
LEMMA ProgressOnwards ==
    ASSUME BaseInv, P!SoleWriter, [Next]_vars, NEW j \in Jobs, NEW e \in PP!Reports,
           Before(e, progress[j])
    PROVE  Before(e, progress'[j])
<1>0. e.percent \in 0..100 /\ progress[j].percent \in 0..100 /\ progress'[j].percent \in 0..100
    <2>1. PP!TypeOK /\ PP!TypeOK'
        BY NextCalls DEF BaseInv, CallsInv, PP!IInv
    <2> QED
        BY <2>1 DEF PP!TypeOK, PP!Reports
<1>1. CASE progress' = progress
    BY <1>1
<1>2. ASSUME NEW i \in Jobs, PP!Start(i) \/ PP!Step(i) PROVE Before(e, progress'[j])
    <2>1. progress'[j].percent >= progress[j].percent \/ progress'[j].status = "failed"
        BY <1>2, Assumptions, PP!StepGrows DEF BaseInv, CallsInv
    <2>2. progress[j].status = "failed" => progress'[j] = progress[j]
        BY <1>2, Assumptions, SameInit, PP!ReportStays DEF BaseInv, CallsInv
    <2>3. CASE progress[j].status = "failed"
        BY <2>2, <2>3 DEF Before
    <2>4. CASE progress[j].percent >= e.percent
        <3>1. \A a, b, c \in 0..100 : b >= a /\ c >= b => c >= a
            OBVIOUS
        <3>2. progress'[j].percent >= progress[j].percent => progress'[j].percent >= e.percent
            BY <1>0, <2>4, <3>1, Zenon
        <3> QED
            BY <2>1, <3>2 DEF Before
    <2> QED
        BY <2>3, <2>4 DEF Before
<1> QED
    BY <1>1, <1>2, ProcSteps DEF PP!Next, PP!Idle, PP!vars

\* The order is kept by all steps.
LEMMA NextInOrder ==
    ASSUME BaseInv, P!SoleWriter, InOrder, [Next]_vars
    PROVE  InOrder'
<1>0. stream \in Seq(Events) /\ OrderOf \in [Jobs -> Orders]
    BY ComponentAssumption DEF BaseInv, DeliveryTypes
<1>1. \A s \in Sockets, o \in Orders : shown[s][o] \in PP!Reports
    BY DEF BaseInv, DeliveryTypes
<1>2. \A s \in Sockets, j \in Jobs : Before(shown[s][OrderOf[j]], progress'[j])
    BY <1>0, <1>1, ProgressOnwards DEF InOrder
<1>3. \A i \in 1 .. Len(stream), j \in Jobs :
          OrderOf[j] = stream[i].order => Before(stream[i].report, progress'[j])
    BY <1>0, EventAt, ProgressOnwards DEF InOrder
<1>4. ASSUME shown' = shown, stream' = stream PROVE InOrder'
    BY <1>2, <1>3, <1>4 DEF InOrder, Before
<1>5. CASE Forward
    <2>1. stream # <<>> /\ stream' = Tail(stream)
        BY <1>5 DEF Forward
    <2>2. /\ 1 \in 1 .. Len(stream) /\ Head(stream) = stream[1]
          /\ Len(stream') = Len(stream) - 1
          /\ \A i \in 1 .. Len(stream') : stream'[i] = stream[i + 1] /\ i + 1 \in 1 .. Len(stream) /\ 1 < i + 1
        BY <1>0, <2>1
    <2>3. \A s \in Sockets, o \in Orders :
             \/ shown'[s][o] = shown[s][o]
             \/ o = stream[1].order /\ shown'[s][o] = stream[1].report
        BY <2>2, ShownFrom DEF BaseInv
    <2>4. \A s \in Sockets, j \in Jobs : Before(shown[s][OrderOf[j]], progress[j])'
        BY <1>0, <1>2, <1>3, <2>2, <2>3 DEF Before
    <2>5. \A i \in 1 .. Len(stream'), j \in Jobs :
              OrderOf[j] = stream'[i].order => Before(stream[i].report, progress[j])'
        BY <1>3, <2>2 DEF Before
    <2>6. \A s \in Sockets, i \in 1 .. Len(stream') : Before(shown[s][stream[i].order], stream[i].report)'
        <3> SUFFICES ASSUME NEW s \in Sockets, NEW i \in 1 .. Len(stream')
                     PROVE  Before(shown[s][stream[i].order], stream[i].report)'
            OBVIOUS
        <3>1. stream'[i] = stream[i + 1] /\ i + 1 \in 1 .. Len(stream) /\ 1 < i + 1
            BY <2>2
        <3>2. stream[i + 1].order \in Orders
            BY <1>0, <3>1, EventAt
        <3>3. Before(shown[s][stream[i + 1].order], stream[i + 1].report)
            BY <3>1 DEF InOrder
        <3>4. stream[1].order = stream[i + 1].order => Before(stream[1].report, stream[i + 1].report)
            BY <2>2, <3>1 DEF InOrder
        <3> QED
            BY <2>3, <3>1, <3>2, <3>3, <3>4 DEF Before
    <2>7. \A i, k \in 1 .. Len(stream') : i < k /\ stream'[i].order = stream'[k].order
              => Before(stream[i].report, stream[k].report)'
        <3> SUFFICES ASSUME NEW i \in 1 .. Len(stream'), NEW k \in 1 .. Len(stream'), i < k,
                            stream'[i].order = stream'[k].order
                     PROVE  Before(stream[i].report, stream[k].report)'
            OBVIOUS
        <3>1. /\ stream'[i] = stream[i + 1] /\ stream'[k] = stream[k + 1]
              /\ i + 1 \in 1 .. Len(stream) /\ k + 1 \in 1 .. Len(stream) /\ i + 1 < k + 1
            BY <2>2
        <3>2. Before(stream[i + 1].report, stream[k + 1].report)
            BY <3>1 DEF InOrder
        <3> QED
            BY <3>1, <3>2 DEF Before
    <2> QED
        BY <2>4, <2>5, <2>6, <2>7 DEF InOrder
<1>6. ASSUME NEW j \in Jobs, Report(j), stream' # stream PROVE InOrder'
    <2> DEFINE e == [order |-> OrderOf[j], report |-> progress'[j]]
               n == Len(stream) + 1
    <2>1. stream' = Append(stream, e) /\ shown' = shown
        BY <1>6 DEF Report, clientVars
    <2>2. /\ Len(stream') = n /\ n \in 1 .. Len(stream') /\ stream'[n] = e
          /\ \A i \in 1 .. Len(stream) : stream'[i] = stream[i] /\ i < n
          /\ \A i \in 1 .. Len(stream') : i = n \/ (i \in 1 .. Len(stream) /\ ~(n < i))
        BY <1>0, <2>1
    <2>3. e.order = OrderOf[j] /\ e.report = progress'[j]
        OBVIOUS
    <2>4. progress'[j].percent \in 0..100
        <3>1. PP!TypeOK'
            BY NextCalls DEF BaseInv, CallsInv, PP!IInv
        <3> QED
            BY <3>1 DEF PP!TypeOK, PP!Reports
    <2> HIDE DEF e, n
    <2>5. \A s \in Sockets, i \in Jobs : Before(shown[s][OrderOf[i]], progress[i])'
        BY <1>2, <2>1 DEF Before
    <2>6. \A i \in 1 .. Len(stream'), k \in Jobs :
              OrderOf[k] = stream'[i].order => Before(stream[i].report, progress[k])'
        <3>1. \A k \in Jobs : OrderOf[k] = OrderOf[j] => k = j
            BY DEF P!SoleWriter
        <3> SUFFICES ASSUME NEW i \in 1 .. Len(stream'), NEW k \in Jobs, OrderOf[k] = stream'[i].order
                     PROVE  Before(stream'[i].report, progress'[k])
            BY DEF Before
        <3>2. CASE i \in 1 .. Len(stream)
            BY <1>3, <2>2, <3>2
        <3>3. CASE i = n
            <4>1. stream'[i].report = progress'[j] /\ k = j
                BY <2>2, <2>3, <3>1, <3>3
            <4>2. Before(progress'[j], progress'[j])
                <5>1. \A a \in 0..100 : a >= a
                    OBVIOUS
                <5> QED
                    BY <2>4, <5>1, Zenon DEF Before
            <4> QED
                BY <4>1, <4>2
        <3> QED
            BY <2>2, <3>2, <3>3
    <2>7. \A s \in Sockets, i \in 1 .. Len(stream') : Before(shown[s][stream[i].order], stream[i].report)'
        BY <1>2, <2>1, <2>2, <2>3 DEF Before, InOrder
    <2>8. \A i, k \in 1 .. Len(stream') : i < k /\ stream'[i].order = stream'[k].order
              => Before(stream[i].report, stream[k].report)'
        <3> SUFFICES ASSUME NEW i \in 1 .. Len(stream'), NEW k \in 1 .. Len(stream'), i < k,
                            stream'[i].order = stream'[k].order
                     PROVE  Before(stream[i].report, stream[k].report)'
            OBVIOUS
        <3>1. CASE k \in 1 .. Len(stream)
            <4>1. i \in 1 .. Len(stream)
                BY <2>2, <3>1
            <4> QED
                BY <2>2, <3>1, <4>1 DEF Before, InOrder
        <3>2. CASE k = n
            <4>1. i \in 1 .. Len(stream) /\ stream'[i] = stream[i]
                BY <2>2, <3>2
            <4>2. Before(stream[i].report, progress'[j])
                BY <1>3, <2>2, <2>3, <3>2, <4>1
            <4> QED
                BY <2>2, <2>3, <3>2, <4>1, <4>2 DEF Before
        <3> QED
            BY <2>2, <3>1, <3>2
    <2> QED
        BY <2>5, <2>6, <2>7, <2>8 DEF InOrder
<1> QED
    BY <1>4, <1>5, <1>6
       DEF Next, vars, Start, Work, Report, Publish, PublishEnd, ReadBlocks, ReadsOther, ReadTimesOut,
           Serve, RedisStops, SubscriberReplied, Relay, Closed, Quiet, clientVars

-----------------------------------------------------------------------------
(* The theorems. *)

\* The server's sessions keep what is proved about them.
LEMMA NextServer == ASSUME BaseInv, [Next]_vars PROVE SP!IInv'
BY ServerSteps, Assumptions, SP!NextInv DEF BaseInv, DeliveryTypes

\* Every step keeps the invariants; the second part needs orders with one job.
LEMMA NextNotifications ==
    ASSUME BaseInv, P!SoleWriter => ToldInv /\ InOrder, [Next]_vars
    PROVE  BaseInv' /\ (P!SoleWriter => ToldInv' /\ InOrder')
<1>1. CallsInv'
    BY NextCalls DEF BaseInv
<1>2. SP!IInv'
    BY NextServer
<1>3. DeliveryTypes'
    BY <1>1, NextDelivery DEF BaseInv, CallsInv, PP!IInv
<1>4. ASSUME P!SoleWriter PROVE ToldInv' /\ InOrder'
    BY <1>3, <1>4, NextStream, NextShown, NextChannel, NextOutcome, NextInOrder DEF ToldInv
<1> QED
    BY <1>1, <1>2, <1>3, <1>4 DEF BaseInv

\* At first nothing was told.
LEMMA InitNotifications == Init => BaseInv /\ (P!SoleWriter => ToldInv /\ InOrder)
<1> SUFFICES ASSUME Init PROVE BaseInv /\ ToldInv /\ InOrder
    OBVIOUS
<1>1. CallsInv
    <2>1. PP!Init /\ row = [o \in Orders |-> PP!FreshOrder]
        BY SameInit DEF Init
    <2> QED
        BY <2>1, Assumptions, PP!InitIInv, PP!InitVerdict, PP!InitPercent, PP!InitRow DEF CallsInv
<1>2. SP!IInv
    BY Assumptions, SameServerTypes, SP!InitInv DEF Init
<1>3. NothingShown \in PP!Reports
    BY DEF NothingShown, PP!Reports
<1>4. DeliveryTypes
    BY <1>3 DEF Init, DeliveryTypes, Cursors, Outcomes
<1>5. \A s \in Sockets, o \in Orders : shown[s][o] = NothingShown
    BY DEF Init
<1>6. ToldInv
    <2>1. \A status : PP!Rank("none") <= PP!Rank(status)
        <3>1. PP!Rank("none") = 0 /\ \A status : PP!Rank(status) \in 0..5
            BY Assumptions, PP!RankRange DEF PP!Rank
        <3> QED
            BY <3>1
    <2>2. \A o \in Orders : Behind(o, NothingShown)
        BY <2>1 DEF Behind, Concluded, NothingShown
    <2>3. ShownTold
        BY <1>5, <2>2 DEF ShownTold
    <2> QED
        BY <2>3 DEF Init, ToldInv, StreamTold, ChannelTold, OutcomeTold
<1>7. InOrder
    <2>1. \A j \in Jobs : OrderOf[j] \in Orders /\ progress[j].percent \in 0..100
        BY <1>1, ComponentAssumption DEF CallsInv, PP!IInv, PP!TypeOK, PP!Reports
    <2>2. \A percent \in 0..100 : percent >= 0
        OBVIOUS
    <2>3. \A j \in Jobs : Before(NothingShown, progress[j])
        BY <2>1, <2>2, Zenon DEF Before, NothingShown
    <2> QED
        BY <1>5, <2>1, <2>3 DEF Init, InOrder
<1> QED
    BY <1>1, <1>2, <1>4, <1>6, <1>7 DEF BaseInv

\* The invariants hold in every run.
LEMMA NotificationsAlways == Spec => [](BaseInv /\ (P!SoleWriter => ToldInv /\ InOrder))
<1>1. ASSUME BaseInv /\ (P!SoleWriter => ToldInv /\ InOrder), [Next]_vars
      PROVE  BaseInv' /\ (P!SoleWriter => ToldInv /\ InOrder)'
    BY <1>1, NextNotifications DEF P!SoleWriter
<1> QED
    BY <1>1, InitNotifications, PTL DEF Spec

\* The stream, the channels and what clients make of them keep their types.
THEOREM TypesStay == Spec => []TypeOK
<1>1. ASSUME BaseInv PROVE TypeOK
    <2>1. P!TypeOK /\ S!TypeOK
        BY <1>1, SameTypes, SameServerTypes DEF BaseInv, CallsInv, PP!IInv, SP!IInv
    <2>2. Seq([order: Orders, report: P!Reports]) = Seq(Events)
        BY SameTypes DEF Events
    <2>3. P!NoticeTypes \union {"completed"} = Types
        BY SameTypes DEF Types
    <2> QED
        BY <1>1, <2>1, <2>2, <2>3, SameTypes DEF BaseInv, DeliveryTypes, TypeOK
<1> QED
    BY <1>1, NotificationsAlways, PTL

\* What a client takes for the verdict of an order with one job is true, on either
\* endpoint, by either way, whatever was lost or came late (worker.ts:69-84,
\* orderEvents.ts:35-62, queue-events.ts:27-48, server.ts:97-113).
THEOREM VerdictsAreTrue == Spec => [](P!SoleWriter => VerdictIsTrue)
<1>1. ASSUME BaseInv, ToldInv, P!SoleWriter PROVE VerdictIsTrue
    <2>1. \A j \in Jobs : /\ PP!Confirming(j) => row[OrderOf[j]].status = "confirmed" /\ swaps[j] = 1
                          /\ PP!Failing(j) => row[OrderOf[j]].status = "failed" \/ pc[j] = "threw"
        <3>1. \A j \in Jobs : PP!EntityAt(j) /\ PP!RowAt(j)
            BY <1>1, SameInit DEF BaseInv, CallsInv, PP!VerdictInv
        <3> QED
            BY <1>1, <3>1, Assumptions, PP!VerdictHolds DEF BaseInv, CallsInv
    <2> QED
        BY <1>1, <2>1 DEF ToldInv, OutcomeTold, Confirmed, Failed, VerdictIsTrue, Threw
<1>2. BaseInv /\ (P!SoleWriter => ToldInv /\ InOrder) => (P!SoleWriter => VerdictIsTrue)
    BY <1>1
<1> QED
    BY <1>2, NotificationsAlways, PTL

\* No client is shown a status that the row has not reached (worker.ts:69-73,
\* orderEvents.ts:35-62).
THEOREM NeverAhead == Spec => [](P!SoleWriter => NeverAheadOfRow)
<1>1. ASSUME BaseInv, ToldInv, P!SoleWriter PROVE NeverAheadOfRow
    <2> SUFFICES ASSUME NEW s \in Sockets, NEW o \in Orders
                 PROVE  /\ Rank(shown[s][o].status) <= Rank(row[o].status)
                        /\ shown[s][o].status \in {"confirmed", "failed"} => row[o].status = shown[s][o].status
        BY DEF NeverAheadOfRow
    <2>1. Behind(o, shown[s][o])
        BY <1>1 DEF ToldInv, ShownTold
    <2>2. PP!Rank(shown[s][o].status) <= PP!Rank(row[o].status)
        BY <2>1 DEF Behind
    <2>3. Rank(shown[s][o].status) <= Rank(row[o].status)
        <3>1. shown[s][o].status \in {"none"} \union PP!Statuses
            BY <1>1 DEF BaseInv, DeliveryTypes, PP!Reports
        <3> QED
            BY <2>2, <3>1 DEF Rank, PP!Rank, PP!Statuses
    <2>4. shown[s][o].status = "confirmed" => row[o].status = "confirmed"
        <3>1. \A j \in Jobs : PP!Confirming(j) => row[OrderOf[j]].status = "confirmed"
            BY <1>1, SameInit, Assumptions, PP!VerdictHolds DEF BaseInv, CallsInv, PP!VerdictInv
        <3> QED
            BY <2>1, <3>1 DEF Behind, Concluded, Confirmed
    <2>5. shown[s][o].status = "failed" => row[o].status = "failed"
        <3>1. row[o].status \in {"missing"} \union PP!Statuses
            BY <1>1 DEF BaseInv, CallsInv, PP!IInv, PP!TypeOK, PP!Entities, PP!NoRow
        <3> QED
            BY <2>2, <3>1 DEF PP!Rank, PP!Statuses
    <2> QED
        BY <2>3, <2>4, <2>5
<1>2. BaseInv /\ (P!SoleWriter => ToldInv /\ InOrder) => (P!SoleWriter => NeverAheadOfRow)
    BY <1>1
<1> QED
    BY <1>2, NotificationsAlways, PTL

\* The progress that a client is shown of an order with one job comes in order, on
\* either endpoint (worker.ts:69-73, orderEvents.ts:35-62).
THEOREM ShownComesInOrder == ASSUME P!SoleWriter PROVE Spec => ShownInOrder
<1> DEFINE Grows == \A s \in Sockets, o \in Orders :
              \/ shown'[s][o].percent >= shown[s][o].percent
              \/ shown'[s][o].status = "failed"
<1>1. ASSUME BaseInv, InOrder, [Next]_vars PROVE [Grows]_vars
    <2>1. \A s \in Sockets, o \in Orders : shown[s][o].percent \in 0..100
        BY <1>1 DEF BaseInv, DeliveryTypes, PP!Reports
    <2>2. CASE shown' = shown
        BY <2>1, <2>2
    <2>3. CASE Forward
        <3>1. stream # <<>> /\ stream \in Seq(Events) /\ Head(stream) = stream[1] /\ 1 \in 1 .. Len(stream)
            BY <1>1, <2>3 DEF Forward, BaseInv, DeliveryTypes
        <3> DEFINE e == stream[1]
        <3>2. e \in Events /\ Shows(e)
            BY <2>3, <3>1 DEF Forward
        <3>3. ASSUME NEW s \in Sockets, NEW o \in Orders, shown'[s][o] # shown[s][o]
              PROVE  o = e.order /\ shown'[s][o] = e.report
            BY <1>1, <3>2, <3>3 DEF Shows, BaseInv, DeliveryTypes
        <3>4. \A s \in Sockets : Before(shown[s][e.order], e.report)
            BY <1>1, <3>1 DEF InOrder
        <3> QED
            BY <2>1, <3>3, <3>4 DEF Before
    <2> QED
        BY <1>1, <2>2, <2>3
           DEF Next, vars, Start, Work, Report, Publish, PublishEnd, ReadBlocks, ReadsOther, ReadTimesOut,
               Serve, RedisStops, SubscriberReplied, Relay, Closed, Quiet, clientVars
<1>2. BaseInv /\ (P!SoleWriter => ToldInv /\ InOrder) /\ [Next]_vars => [Grows]_vars
    BY <1>1
<1> QED
    BY <1>2, NotificationsAlways, PTL DEF Spec, ShownInOrder

-----------------------------------------------------------------------------
(* No verdict is lost on its way.                                          *)

\* A client keeps its conclusion (example-client.js takes the first verdict).
LEMMA ConclusionStays ==
    ASSUME DeliveryTypes, SP!IInv, [Next]_vars, NEW s \in Sockets, NEW o \in Orders, outcome[s][o] # "waiting"
    PROVE  outcome'[s][o] # "waiting"
<1>1. \A t \in Sockets, p \in Orders : \A type : Hears(t, p, type)[s][o] # "waiting"
    BY DEF DeliveryTypes, Hears, Concluding
<1>2. CASE Forward
    <2>1. stream # <<>> /\ Shows(Head(stream)) /\ Head(stream) \in Events
        BY <1>2 DEF Forward, DeliveryTypes
    <2>2. Head(stream).order \in Orders
        BY <2>1 DEF Events
    <2> QED
        BY <1>1, <2>1, <2>2 DEF Shows
<1>3. ASSUME NEW t \in Sockets, Relay(t) PROVE outcome'[s][o] # "waiting"
    <2>1. S!OrderOfPath(t) \in Orders
        BY <1>3, PathOrder DEF Relay, S!Relay
    <2> QED
        BY <1>1, <1>3, <2>1 DEF Relay
<1> QED
    BY <1>2, <1>3
       DEF Next, vars, Start, Work, Report, Publish, PublishEnd, ReadBlocks, ReadsOther, ReadTimesOut,
           Serve, RedisStops, SubscriberReplied, Closed, Quiet, clientVars

\* Only a report changes what is reported of a job, and adds an event if anyone reads.
LEMMA ReportAdds ==
    ASSUME [Next]_vars, cursor = "known", progress' # progress
    PROVE  \E j \in Jobs :
              /\ progress' = [progress EXCEPT ![j] = progress'[j]]
              /\ stream' = Append(stream, [order |-> OrderOf[j], report |-> progress'[j]])
<1>1. ASSUME NEW j \in Jobs, Work(j) PROVE FALSE
    BY <1>1 DEF Work, Notifies, P!Step, P!Find, P!Create, P!UpdateSave, P!UpdateProgress, P!UpdatePublish,
       P!Quotes, P!SaveQuotes, P!Build, P!SaveAttempt, P!Swap, P!SaveSwap, P!SaveError, P!PublishFailed,
       P!SaveFailed, P!PublishRetry, P!Backoff, P!SaveUnexpected
<1>2. ASSUME NEW j \in Jobs, Report(j)
      PROVE  /\ progress' = [progress EXCEPT ![j] = progress'[j]]
             /\ stream' = Append(stream, [order |-> OrderOf[j], report |-> progress'[j]])
    <2>1. PICK r : progress' = [progress EXCEPT ![j] = r]
        BY <1>2 DEF Report, P!UpdateProgress
    <2> QED
        BY <1>2, <2>1 DEF Report
<1>3. ASSUME NEW j \in Jobs, Publish(j) PROVE FALSE
    BY <1>3 DEF Publish, P!UpdatePublish, P!PublishFailed, P!PublishRetry
<1> QED
    BY <1>1, <1>2, <1>3
       DEF Next, vars, procVars, Start, P!Start, P!Call, PublishEnd, ReadBlocks, ReadsOther, ReadTimesOut,
           Forward, Serve, RedisStops, SubscriberReplied, Relay, Closed, Quiet

\* QueueEvents does not lose the id that it reads on from.
LEMMA CursorStays == ASSUME [Next]_vars, cursor = "known" PROVE cursor' = "known"
BY DEF Next, vars, Start, Work, Report, Publish, PublishEnd, ReadBlocks, ReadsOther, ReadTimesOut, Forward,
       Serve, RedisStops, SubscriberReplied, Relay, Closed, Quiet

\* The client that follows an order is told of the event that is forwarded.
LEMMA ForwardTells ==
    ASSUME DeliveryTypes, SP!IInv, Forward, NEW s \in Sockets, NEW o \in Orders, Follows(s, o),
           Head(stream).order = o, Head(stream).report.status \in Verdicts
    PROVE  outcome'[s][o] # "waiting"
<1> DEFINE e == Head(stream)
<1>1. Shows(e)
    BY DEF Forward
<1>2. s \in S!Clients(o) /\ ready[s] = "open"
    BY DEF Follows, SP!IInv, SP!RegistryMatchesSessions, S!Clients, SP!Clients
<1>3. sent'[s] # <<>>
    BY <1>1, <1>2 DEF Shows, S!Forward, S!SendToOrder, S!SendTo
<1>4. outcome'[s] = Hears(s, o, e.report.status)[s]
    BY <1>1, <1>3 DEF Shows
<1>5. outcome'[s][o] = Concluding(outcome[s][o], e.report.status)
    BY <1>4 DEF Hears, DeliveryTypes
<1> QED
    BY <1>5 DEF Concluding, Verdicts

\* A verdict that the stream owes a follower stays owed or arrives.
LEMMA StreamStillOwes ==
    ASSUME BaseInv, [Next]_vars, NEW s \in Sockets, NEW o \in Orders,
           cursor = "known", Follows(s, o), StreamOwes(s, o)
    PROVE  StreamOwes(s, o)'
<1>0. /\ stream \in Seq(Events) /\ stream' \in Seq(Events)
      /\ DOMAIN stream = 1 .. Len(stream) /\ DOMAIN stream' = 1 .. Len(stream')
    <2>1. DeliveryTypes'
        BY NextCalls, NextDelivery DEF BaseInv, CallsInv, PP!IInv
    <2> QED
        BY <2>1 DEF BaseInv, DeliveryTypes
<1>1. CASE outcome[s][o] # "waiting"
    BY <1>1, ConclusionStays DEF BaseInv, StreamOwes
<1>2. ASSUME NEW i \in 1 .. Len(stream), stream[i].order = o, stream[i].report.status \in Verdicts
      PROVE  StreamOwes(s, o)'
    <2>1. CASE Forward
        <3>1. stream # <<>> /\ stream' = Tail(stream)
            BY <2>1 DEF Forward
        <3>2. CASE i = 1
            <4>1. Head(stream) = stream[1]
                BY <1>0, <3>1
            <4> QED
                BY <1>2, <2>1, <3>2, <4>1, ForwardTells DEF BaseInv, StreamOwes
        <3>3. CASE i # 1
            <4>1. i - 1 \in 1 .. Len(stream') /\ stream'[i - 1] = stream[i]
                BY <1>0, <3>1, <3>3
            <4> QED
                BY <1>0, <1>2, <4>1 DEF StreamOwes, Verdicts
        <3> QED
            BY <3>2, <3>3
    <2>2. CASE ~Forward
        <3>1. stream' = stream \/ \E e \in Events : stream' = Append(stream, e)
            <4>1. ASSUME NEW j \in Jobs, Report(j), stream' # stream
                  PROVE  \E e \in Events : stream' = Append(stream, e)
                <5>1. OrderOf[j] \in Orders /\ progress'[j] \in PP!Reports
                    BY ComponentAssumption, NextCalls DEF BaseInv, CallsInv, PP!IInv, PP!TypeOK
                <5>2. [order |-> OrderOf[j], report |-> progress'[j]] \in Events
                    BY <5>1 DEF Events
                <5> QED
                    BY <4>1, <5>2 DEF Report
            <4> QED
                BY <2>2, <4>1
                   DEF Next, vars, Start, Work, Publish, PublishEnd, ReadBlocks, ReadsOther, ReadTimesOut,
                       Serve, RedisStops, SubscriberReplied, Relay, Closed, Quiet
        <3>2. i \in 1 .. Len(stream') /\ stream'[i] = stream[i]
            <4>1. \A e \in Events : i \in 1 .. Len(Append(stream, e)) /\ Append(stream, e)[i] = stream[i]
                BY <1>0
            <4> QED
                BY <3>1, <4>1
        <3> QED
            BY <1>0, <1>2, <3>2 DEF StreamOwes, Verdicts
    <2> QED
        BY <2>1, <2>2
<1>3. CASE Undecided(o)
    <2>1. CASE progress' = progress
        BY <1>3, <2>1 DEF Undecided, StreamOwes
    <2>2. CASE progress' # progress
        <3>1. PICK j \in Jobs :
                 /\ progress' = [progress EXCEPT ![j] = progress'[j]]
                 /\ stream' = Append(stream, [order |-> OrderOf[j], report |-> progress'[j]])
            BY <2>2, ReportAdds
        <3>2. CASE OrderOf[j] = o /\ progress'[j].status \in Verdicts
            <4> DEFINE n == Len(stream) + 1
            <4>1. n \in 1 .. Len(stream') /\ stream'[n] = [order |-> OrderOf[j], report |-> progress'[j]]
                BY <1>0, <3>1
            <4> HIDE DEF n
            <4>2. stream'[n].order = o /\ stream'[n].report.status \in Verdicts
                BY <3>2, <4>1
            <4> QED
                BY <1>0, <4>1, <4>2 DEF StreamOwes, Verdicts
        <3>3. CASE ~(OrderOf[j] = o /\ progress'[j].status \in Verdicts)
            <4>1. \A i \in Jobs : i # j => progress'[i] = progress[i]
                BY <3>1 DEF BaseInv, CallsInv, PP!IInv, PP!TypeOK
            <4> QED
                BY <1>3, <3>3, <4>1 DEF Undecided, StreamOwes, Verdicts
        <3> QED
            BY <3>2, <3>3
    <2> QED
        BY <2>1, <2>2
<1> QED
    BY <1>0, <1>1, <1>2, <1>3 DEF StreamOwes

\* The event stream loses no verdict of a client that follows its order
\* (orderEvents.ts:35-62): the safety half of FollowersLearnVerdict.
THEOREM StreamIsReliable == Spec => StreamLosesNoVerdict
<1> DEFINE Loses == \A s \in Sockets, o \in Orders :
              cursor = "known" /\ Follows(s, o) /\ StreamOwes(s, o)
                 => cursor' = "known" /\ (StreamOwes(s, o)' \/ ~Follows(s, o)')
<1>1. ASSUME BaseInv, [Next]_vars PROVE [Loses]_vars
    BY <1>1, CursorStays, StreamStillOwes
<1>2. BaseInv /\ (P!SoleWriter => ToldInv /\ InOrder) /\ [Next]_vars => [Loses]_vars
    BY <1>1
<1> QED
    BY <1>2, NotificationsAlways, PTL DEF Spec, StreamLosesNoVerdict

\* A call returns only with the step that publishes its verdict (worker.ts:186-189,
\* 240-246, 288-292).
LEMMA ReturnTells ==
    ASSUME PP!TypeOK, [Next]_vars, NEW j \in Jobs,
           pc[j] \notin {"success", "failure"}, pc'[j] \in {"success", "failure"}
    PROVE  Publish(j) /\ announced'[OrderOf[j]].type \in Verdicts
<1>0. OrderOf[j] \in Orders
    BY ComponentAssumption
<1>1. ASSUME NEW i \in Jobs, PP!Start(i) \/ PP!Step(i)
      PROVE  i = j /\ PP!UpdatePublish(j) /\ pc[j] \in {"confirmed", "failed", "unexpected"}
    <2>1. i = j
        BY <1>1, Assumptions, PP!StepFrame
    <2>2. PP!UpdatePublish(j)
        BY <1>1, <2>1
           DEF PP!TypeOK, PP!Start, PP!Call, PP!Step, PP!Find, PP!Create, PP!UpdateSave, PP!UpdateProgress,
               PP!Quotes, PP!SaveQuotes, PP!Build, PP!SaveAttempt, PP!Swap, PP!SaveSwap, PP!SaveError,
               PP!PublishFailed, PP!SaveFailed, PP!PublishRetry, PP!Backoff, PP!SaveUnexpected, PP!Enter,
               PP!Hold, PP!Goto, PP!OuterCatch, PP!InnerCatch, PP!NextAttempt, PP!Sites
    <2>3. pc[j] \in {"confirmed", "failed", "unexpected"}
        BY <2>2 DEF PP!TypeOK, PP!UpdatePublish, PP!AfterUpdate, PP!Hold, PP!Goto, PP!OuterCatch,
           PP!NextAttempt, PP!Sites
    <2> QED
        BY <2>1, <2>2, <2>3
<1>2. PP!UpdatePublish(j) /\ pc[j] \in {"confirmed", "failed", "unexpected"}
    <2>1. \E i \in Jobs : PP!Start(i) \/ PP!Step(i)
        BY ProcSteps DEF PP!Next, PP!Idle, PP!vars
    <2> QED
        BY <1>1, <2>1
<1>3. announced'[OrderOf[j]].type = PP!SiteStatus(pc[j])
    BY <1>0, <1>2 DEF PP!TypeOK, PP!UpdatePublish, PP!Publish
<1>4. announced'[OrderOf[j]].type \in Verdicts
    BY <1>2, <1>3 DEF PP!SiteStatus, Verdicts
<1>5. ASSUME NEW i \in Jobs, Start(i) \/ Work(i) \/ Report(i) \/ Publish(i)
      PROVE  i = j
    <2>1. PP!Start(i) \/ PP!Step(i)
        BY <1>5, SameStart, SameStep DEF Start, Work, Report, Publish, P!Step
    <2> QED
        BY <1>1, <2>1
<1>6. pc' # pc
    OBVIOUS
<1>7. \E i \in Jobs : Start(i) \/ Work(i) \/ Report(i) \/ Publish(i)
    BY <1>6 DEF Next, vars, procVars, PublishEnd, ReadBlocks, ReadsOther, ReadTimesOut, Forward, Serve,
       RedisStops, SubscriberReplied, Relay, Closed, Quiet
<1>8. ~Start(j) /\ ~Work(j) /\ ~Report(j)
    BY <1>2 DEF PP!UpdatePublish, Start, P!Start, P!Call, P!Goto, Work, Notifies, Report, P!UpdateProgress
<1> QED
    BY <1>4, <1>5, <1>7, <1>8

\* What is published about an order reaches the subscriber that listens to it.
LEMMA PublishedReaches ==
    ASSUME DeliveryTypes, NEW s \in Sockets, NEW o \in Orders, o \in subs[s], subscriber[s] = "listening",
           NEW type \in Verdicts, Published(o, type)
    PROVE  \E i \in DOMAIN channel'[s] : channel'[s][i] \in Verdicts
<1> DEFINE q == channel[s]
           n == Len(q) + 1
<1>1. channel'[s] = Append(q, type)
    BY DEF Published
<1>2. q \in Seq(Types)
    BY DEF DeliveryTypes
<1> HIDE DEF q
<1>3. n \in DOMAIN Append(q, type) /\ Append(q, type)[n] = type
    BY <1>2
<1> QED
    BY <1>1, <1>3

\* A verdict that the channel owes a listener stays owed or arrives.
LEMMA ChannelStillOwes ==
    ASSUME BaseInv, [Next]_vars, NEW s \in Sockets, NEW o \in Orders,
           subscriber[s] = "listening", Follows(s, o), ChannelOwes(s, o), subscriber'[s] = "listening"
    PROVE  ChannelOwes(s, o)'
<1>0. /\ channel[s] \in Seq(Types) /\ DOMAIN channel[s] = 1 .. Len(channel[s])
      /\ o \in subs[s] /\ ready[s] = "open" /\ o = S!OrderOfPath(s)
    <2>1. channel[s] \in Seq(Types)
        BY DEF BaseInv, DeliveryTypes
    <2>2. o \in subs[s] /\ ready[s] = "open"
        BY DEF Follows
    <2>3. o = S!OrderOfPath(s)
        BY <2>2, PathOrder DEF BaseInv
    <2> QED
        BY <2>1, <2>2, <2>3
<1>1. CASE outcome[s][o] # "waiting"
    BY <1>1, ConclusionStays DEF BaseInv, ChannelOwes
<1>2. ASSUME NEW i \in 1 .. Len(channel[s]), channel[s][i] \in Verdicts
      PROVE  ChannelOwes(s, o)'
    <2>1. CASE Relay(s)
        <3>1. channel[s] # <<>> /\ channel'[s] = Tail(channel[s])
            BY <2>1 DEF Relay, BaseInv, DeliveryTypes
        <3>2. CASE i = 1
            <4>1. outcome' = Hears(s, o, channel[s][1])
                BY <1>0, <2>1 DEF Relay
            <4>2. outcome'[s][o] = Concluding(outcome[s][o], channel[s][1])
                BY <4>1 DEF Hears, BaseInv, DeliveryTypes
            <4>3. outcome'[s][o] # "waiting"
                BY <1>2, <3>2, <4>2 DEF Concluding, Verdicts
            <4> QED
                BY <4>3 DEF ChannelOwes
        <3>3. CASE i # 1
            <4> DEFINE q == channel[s]
            <4> HIDE DEF q
            <4>1. q \in Seq(Types) /\ i \in 1 .. Len(q) /\ q # <<>> /\ channel'[s] = Tail(q) /\ q[i] \in Verdicts
                BY <1>0, <1>2, <3>1 DEF q
            <4>2. i - 1 \in DOMAIN Tail(q) /\ Tail(q)[i - 1] = q[i]
                BY <3>3, <4>1
            <4> QED
                BY <4>1, <4>2 DEF ChannelOwes, Verdicts
        <3> QED
            BY <3>2, <3>3
    <2>2. CASE ~Relay(s)
        <3>1. channel'[s] = channel[s] \/ \E type : channel'[s] = Append(channel[s], type)
            <4>1. \A p, type : Published(p, type) =>
                     channel'[s] = channel[s] \/ channel'[s] = Append(channel[s], type)
                BY DEF Published
            <4>2. ASSUME NEW t \in Sockets, SubscriberReplied(t) \/ Relay(t) \/ Closed(t), t # s
                  PROVE  channel'[s] = channel[s]
                BY <4>2 DEF SubscriberReplied, Relay, Closed, BaseInv, DeliveryTypes
            <4>3. ~SubscriberReplied(s) /\ ~Closed(s) /\ ~RedisStops
                <5>1. ~S!SubscriberReplied(s)
                    BY DEF S!SubscriberReplied
                <5>2. ~S!Closed(s)
                    BY DEF S!Closed, Follows
                <5>3. ~S!RedisStops
                    BY DEF S!RedisStops
                <5> QED
                    BY <5>1, <5>2, <5>3 DEF SubscriberReplied, Closed, RedisStops
            <4>4. CASE \E j \in Jobs : Publish(j) \/ PublishEnd(j)
                BY <4>1, <4>4 DEF Publish, PublishEnd
            <4>5. CASE \E t \in Sockets : SubscriberReplied(t) \/ Relay(t) \/ Closed(t)
                BY <2>2, <4>2, <4>3, <4>5
            <4> QED
                BY <4>3, <4>4, <4>5
                   DEF Next, vars, Start, Work, Report, ReadBlocks, ReadsOther, ReadTimesOut, Forward,
                       Serve, Quiet
        <3>2. i \in DOMAIN channel'[s] /\ channel'[s][i] = channel[s][i]
            <4> DEFINE q == channel[s]
            <4> HIDE DEF q
            <4>1. q \in Seq(Types) /\ i \in 1 .. Len(q)
                BY <1>0 DEF q
            <4>2. \A type : i \in DOMAIN Append(q, type) /\ Append(q, type)[i] = q[i]
                BY <4>1
            <4> QED
                BY <1>0, <3>1, <4>2 DEF q
        <3> QED
            BY <1>2, <3>2 DEF ChannelOwes, Verdicts
    <2> QED
        BY <2>1, <2>2
<1>3. ASSUME NEW j \in Jobs, OrderOf[j] = o, ~ended[j], pc[j] \notin {"success", "failure"}
      PROVE  ChannelOwes(s, o)'
    <2>1. CASE pc'[j] \in {"success", "failure"}
        <3>1. Publish(j) /\ announced'[o].type \in Verdicts
            BY <1>3, <2>1, ReturnTells DEF BaseInv, CallsInv, PP!IInv
        <3>2. Published(o, announced'[o].type)
            BY <1>3, <3>1 DEF Publish
        <3> QED
            BY <1>0, <3>1, <3>2, PublishedReaches DEF BaseInv, ChannelOwes, Verdicts
    <2>2. CASE ended'[j]
        <3>1. PublishEnd(j)
            <4>1. ended' # ended
                BY <1>3, <2>2
            <4>2. PICK i \in Jobs : PublishEnd(i)
                BY <4>1 DEF Next, vars, Start, Work, Report, Publish, ReadBlocks, ReadsOther, ReadTimesOut,
                   Forward, Serve, RedisStops, SubscriberReplied, Relay, Closed, Quiet
            <4>3. i = j
                BY <1>3, <2>2, <4>2 DEF PublishEnd, BaseInv, DeliveryTypes
            <4> QED
                BY <4>2, <4>3
        <3>2. Published(o, "failed")
            BY <1>3, <3>1 DEF PublishEnd, P!Ended
        <3> QED
            BY <1>0, <3>2, PublishedReaches DEF BaseInv, ChannelOwes, Verdicts
    <2>3. CASE pc'[j] \notin {"success", "failure"} /\ ~ended'[j]
        BY <1>3, <2>3 DEF ChannelOwes
    <2> QED
        BY <2>1, <2>2, <2>3
<1> QED
    BY <1>0, <1>1, <1>2, <1>3 DEF ChannelOwes

\* The channel loses no verdict of a client whose subscriber listens, also when
\* processOrder throws (worker.ts:75-84, queue-events.ts:27-48, server.ts:97-113): the
\* safety half of ListenersLearnVerdict.
THEOREM ChannelIsReliable == Spec => ChannelLosesNoVerdict
<1> DEFINE Loses == \A s \in Sockets, o \in Orders :
              subscriber[s] = "listening" /\ Follows(s, o) /\ ChannelOwes(s, o)
                 => ChannelOwes(s, o)' \/ ~Follows(s, o)' \/ subscriber'[s] # "listening"
<1>1. ASSUME BaseInv, [Next]_vars PROVE [Loses]_vars
    BY <1>1, ChannelStillOwes
<1>2. BaseInv /\ (P!SoleWriter => ToldInv /\ InOrder) /\ [Next]_vars => [Loses]_vars
    BY <1>1
<1> QED
    BY <1>2, NotificationsAlways, PTL DEF Spec, ChannelLosesNoVerdict

-----------------------------------------------------------------------------
(* The composition implements its parts. *)

\* Every step of the composition is a step of processOrder for one job, or leaves the
\* calls alone, and a step of the server or leaves the sessions alone: what is proved
\* of processOrder and of the server holds of the two together.
THEOREM ImplementsParts ==
    Spec => /\ P!Init /\ [][P!Next]_(P!vars)
            /\ S!Init /\ [][S!Next]_(S!vars)
<1>1. [Next]_vars => [P!Next]_(P!vars)
    BY ProcSteps, SameStep, SameStart
       DEF PP!Next, P!Next, PP!Idle, P!Idle, PP!vars, P!vars, PP!Ended, P!Ended
<1>2. BaseInv /\ [Next]_vars => [S!Next]_(S!vars)
    BY ServerSteps, SameServerNext DEF BaseInv, DeliveryTypes
<1>3. Init => P!Init /\ S!Init
    BY DEF Init
<1>4. BaseInv /\ (P!SoleWriter => ToldInv /\ InOrder) /\ [Next]_vars => [S!Next]_(S!vars)
    BY <1>2
<1> QED
    BY <1>1, <1>3, <1>4, NotificationsAlways, PTL DEF Spec

=============================================================================
