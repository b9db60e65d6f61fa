------------------------- MODULE OrderNotifications -------------------------
(***************************************************************************)
(* How clients learn what becomes of an order: processOrder                *)
(* (OrderProcessor) composed with the server's sessions                    *)
(* (NotificationServer) over the two ways by which a status travels.       *)
(*                                                                         *)
(*   - job.updateProgress adds an event to the queue's Redis stream; the   *)
(*     server's QueueEvents reads it and forwards it to the registered     *)
(*     clients of the order (src/queue/orderEvents.ts);                    *)
(*   - the worker publishes on channel order:<id>, and at the end of the   *)
(*     job QueueEventsManager (src/services/queue-events.ts) does too; the *)
(*     subscriber of a path session passes the messages on.                *)
(*                                                                         *)
(* A client takes the first confirmed or failed it hears for the verdict,  *)
(* as example-client.js does.                                              *)
(***************************************************************************)
EXTENDS Integers, Sequences

CONSTANTS Jobs, Orders, OrderOf, MaxAttempts, DbMayFail, Sockets, RedisMayStop

VARIABLES
    pc, part, local, mem, row, progress, announced, swaps,  \* OrderProcessor
    ready, connections, listeners, sent,                    \* WebSocketManager
    server, redisUp, route, subs, subscriber,               \* NotificationServer
    stream,   \* the progress events that QueueEvents has not forwarded yet
    cursor,   \* how QueueEvents reads the stream, see Cursors
    channel,  \* channel[s]: published messages on their way to the subscriber of s
    ended,    \* ended[j]: the end of job j has been published
    shown,    \* shown[s][o]: the last event forwarded to s
    outcome   \* outcome[s][o]: what the client takes to have become of order o

P == INSTANCE OrderProcessor WITH RedisMayFail <- FALSE
S == INSTANCE NotificationServer

procVars    == <<pc, part, local, mem, row, progress, announced, swaps>>
sessionVars == <<ready, connections, listeners, sent, server, redisUp, route, subs, subscriber>>
clientVars  == <<shown, outcome>>
vars == <<procVars, sessionVars, stream, cursor, channel, ended, clientVars>>

ASSUME ComponentAssumption ==
    /\ OrderOf \in [Jobs -> Orders] /\ MaxAttempts \in Nat \ {0}
    /\ DbMayFail \in BOOLEAN /\ RedisMayStop \in BOOLEAN

\* QueueEvents starts to read at "$": an event added while a read blocks there is
\* received, one added between two reads is not.  The first event that it receives
\* gives it an id to go on from.
Cursors == {"between", "blocked", "known"}
Outcomes == {"waiting", "success", "failure"}
NothingShown == [status |-> "none", percent |-> 0]

Init ==
    /\ P!Init /\ row = [o \in Orders |-> P!FreshOrder]
    /\ S!Init
    /\ stream = <<>>
    /\ cursor = "between"
    /\ channel = [s \in Sockets |-> <<>>]
    /\ ended = [j \in Jobs |-> FALSE]
    /\ shown = [s \in Sockets |-> [o \in Orders |-> NothingShown]]
    /\ outcome = [s \in Sockets |-> [o \in Orders |-> "waiting"]]

-----------------------------------------------------------------------------
(* What a client makes of a message: the first verdict counts. *)

\* Mutant of Concluding: the end of the job is taken for the success of the order.
ConcludingCompleted(was, type) ==
    CASE was # "waiting"                    -> was
      [] type \in {"confirmed", "completed"} -> "success"
      [] type = "failed"                    -> "failure"
      [] OTHER                              -> was

Concluding(was, type) ==
    CASE was # "waiting"    -> was
      [] type = "confirmed" -> "success"
      [] type = "failed"    -> "failure"
      [] OTHER              -> was

Hears(s, o, type) == [outcome EXCEPT ![s][o] = Concluding(@, type)]

-----------------------------------------------------------------------------
(* The worker *)

Start(j) ==
    /\ P!Start(j)
    /\ UNCHANGED <<sessionVars, stream, cursor, channel, ended, clientVars>>

Notifies(j) == part[j] \in {"progress", "publish"} \/ pc[j] \in {"pubFailed", "pubRetry"}

\* The awaits that tell nobody anything.
Work(j) ==
    /\ ~Notifies(j) /\ P!Step(j)
    /\ UNCHANGED <<sessionVars, stream, cursor, channel, ended, clientVars>>

\* updateProgress adds an event to the stream; without a reader and an id it is lost.
Report(j) ==
    /\ redisUp /\ P!UpdateProgress(j)
    /\ IF cursor = "between"
       THEN UNCHANGED <<stream, cursor>>
       ELSE /\ stream' = Append(stream, [order |-> OrderOf[j], report |-> progress'[j]])
            /\ cursor' = "known"
    /\ UNCHANGED <<sessionVars, channel, ended, clientVars>>

\* Redis hands a message to the subscribers that the channel has now.
Published(o, type) ==
    channel' = [s \in Sockets |->
        IF o \in subs[s] /\ subscriber[s] \in {"replying", "listening"}
        THEN Append(channel[s], type) ELSE channel[s]]

Publish(j) ==
    /\ redisUp
    /\ P!UpdatePublish(j) \/ P!PublishFailed(j) \/ P!PublishRetry(j)
    /\ Published(OrderOf[j], announced'[OrderOf[j]].type)
    /\ UNCHANGED <<sessionVars, stream, cursor, ended, clientVars>>

\* Mutant of PublishEnd: nobody listens to the worker's failed event.
PublishEndOfReturned(j) ==
    /\ redisUp /\ pc[j] \in {"success", "failure"} /\ ~ended[j]
    /\ Published(OrderOf[j], "completed")
    /\ ended' = [ended EXCEPT ![j] = TRUE]
    /\ UNCHANGED <<procVars, sessionVars, stream, cursor, clientVars>>

\* Mutant of PublishEnd: the failed event is published as the completed one is.
PublishEndAlike(j) ==
    /\ redisUp /\ pc[j] \in P!Ended /\ ~ended[j]
    /\ Published(OrderOf[j], "completed")
    /\ ended' = [ended EXCEPT ![j] = TRUE]
    /\ UNCHANGED <<procVars, sessionVars, stream, cursor, clientVars>>

\* The worker's completed event (processOrder returned, whatever) or failed event.
PublishEnd(j) ==
    /\ redisUp /\ pc[j] \in P!Ended /\ ~ended[j]
    /\ Published(OrderOf[j], IF pc[j] = "threw" THEN "failed" ELSE "completed")
    /\ ended' = [ended EXCEPT ![j] = TRUE]
    /\ UNCHANGED <<procVars, sessionVars, stream, cursor, clientVars>>

-----------------------------------------------------------------------------
(* QueueEvents *)

ReadBlocks ==
    /\ server = "up" /\ redisUp /\ cursor = "between"
    /\ cursor' = "blocked"
    /\ UNCHANGED <<procVars, sessionVars, stream, channel, ended, clientVars>>

\* An event that is no progress (added, waiting, active, ..., of any job) is received.
ReadsOther ==
    /\ server = "up" /\ redisUp /\ cursor = "blocked"
    /\ cursor' = "known"
    /\ UNCHANGED <<procVars, sessionVars, stream, channel, ended, clientVars>>

\* The read that blocked at "$" times out after 10 s; the next one follows.
ReadTimesOut ==
    /\ S!Alive /\ cursor = "blocked"
    /\ cursor' = "between"
    /\ UNCHANGED <<procVars, sessionVars, stream, channel, ended, clientVars>>

\* The progress handler's message about event e, to the clients that are open.
Shows(e) ==
    /\ S!Forward(e.order)
    /\ LET told == {s \in Sockets : sent'[s] # <<>>}
       IN  /\ shown' = [s \in Sockets |->
                 IF s \in told THEN [shown[s] EXCEPT ![e.order] = e.report] ELSE shown[s]]
           /\ outcome' = [s \in Sockets |->
                 IF s \in told THEN Hears(s, e.order, e.report.status)[s] ELSE outcome[s]]

\* Mutants of Forward: events are handled in the order of a stack; a progress of 0 is
\* taken for none.
ForwardLast ==
    /\ stream # <<>> /\ S!Alive
    /\ Shows(stream[Len(stream)])
    /\ stream' = SubSeq(stream, 1, Len(stream) - 1)
    /\ UNCHANGED <<procVars, cursor, channel, ended>>
ForwardTruthy ==
    /\ stream # <<>> /\ S!Alive
    /\ IF Head(stream).report.percent > 0 THEN Shows(Head(stream))
       ELSE UNCHANGED <<sessionVars, clientVars>>
    /\ stream' = Tail(stream)
    /\ UNCHANGED <<procVars, cursor, channel, ended>>

\* QueueEvents hands the oldest event to the progress handler.
Forward ==
    /\ stream # <<>> /\ S!Alive
    /\ Shows(Head(stream))
    /\ stream' = Tail(stream)
    /\ UNCHANGED <<procVars, cursor, channel, ended>>

-----------------------------------------------------------------------------
(* The sessions *)

\* Steps of the server that carry no message of the worker.
Serve ==
    /\ \/ S!StartDatabase \/ S!StartPing \/ S!RedisReturns
       \/ \E s \in Sockets :
            \/ S!ConnectJson(s) \/ S!SubscriberConnects(s) \/ S!SubscriberFails(s)
            \/ S!RedisSubscribes(s) \/ S!Resubscribes(s) \/ S!LateReply(s) \/ S!ClientLeaves(s)
            \/ \E o \in Orders : S!ConnectPath(s, o) \/ S!Subscribe(s, o) \/ S!Unsubscribe(s, o)
    /\ UNCHANGED <<procVars, stream, cursor, channel, ended, clientVars>>

\* The handler is installed after the reply: messages that came with it are lost.
SubscriberReplied(s) ==
    /\ S!SubscriberReplied(s)
    /\ \E lost \in 0 .. Len(channel[s]) :
          channel' = [channel EXCEPT ![s] = SubSeq(@, lost + 1, Len(@))]
    /\ UNCHANGED <<procVars, stream, cursor, ended, clientVars>>

Relay(s) ==
    /\ channel[s] # <<>> /\ S!Relay(s)
    /\ channel' = [channel EXCEPT ![s] = Tail(@)]
    /\ outcome' = IF ready[s] = "open"
                  THEN Hears(s, S!OrderOfPath(s), Head(channel[s])) ELSE outcome
    /\ UNCHANGED <<procVars, stream, cursor, ended, shown>>

Closed(s) ==
    /\ S!Closed(s)
    /\ channel' = [channel EXCEPT ![s] = <<>>]
    /\ UNCHANGED <<procVars, stream, cursor, ended, clientVars>>

\* What is published while a subscriber is away is lost; a read at "$" starts afresh.
RedisStops ==
    /\ S!RedisStops
    /\ channel' = [s \in Sockets |-> <<>>]
    /\ cursor' = IF cursor = "blocked" THEN "between" ELSE cursor
    /\ UNCHANGED <<procVars, stream, ended, clientVars>>

\* The server has exited, or the jobs are done with and the clients have left.
Quiet ==
    /\ \/ server = "exited"
       \/ (\A j \in Jobs : ended[j]) /\ stream = <<>> /\ (\A s \in Sockets : ready[s] = "closed")
    /\ UNCHANGED vars

Next ==
    \/ \E j \in Jobs : Start(j) \/ Work(j) \/ Report(j) \/ Publish(j) \/ PublishEnd(j)
    \/ ReadBlocks \/ ReadsOther \/ ReadTimesOut \/ Forward \/ Serve \/ RedisStops
    \/ \E s \in Sockets : SubscriberReplied(s) \/ Relay(s) \/ Closed(s)
    \/ Quiet

\* The worker goes on, whatever is due in the server is run, events that Redis has
\* arrive while it is up, and a client reads what it is sent.
Fairness ==
    /\ \A j \in Jobs : /\ WF_vars(Start(j)) /\ WF_vars(Work(j)) /\ WF_vars(Report(j))
                       /\ WF_vars(Publish(j)) /\ WF_vars(PublishEnd(j))
    /\ WF_vars(redisUp /\ Forward)
    /\ \A s \in Sockets : WF_vars(Relay(s))

Spec == Init /\ [][Next]_vars /\ Fairness

-----------------------------------------------------------------------------
(* What clients may rely on. *)

TypeOK ==
    /\ P!TypeOK /\ S!TypeOK
    /\ stream \in Seq([order: Orders, report: P!Reports])
    /\ cursor \in Cursors
    /\ \A s \in Sockets : channel[s] \in Seq(P!NoticeTypes \union {"completed"})
    /\ ended \in [Jobs -> BOOLEAN]
    /\ shown \in [Sockets -> [Orders -> P!Reports]]
    /\ outcome \in [Sockets -> [Orders -> Outcomes]]

Threw(o) == \E j \in Jobs : OrderOf[j] = o /\ pc[j] = "threw"

\* What a client takes for the verdict is true when it hears it and stays true: the
\* swap was executed and the row says confirmed, or the row says failed, or the
\* database kept processOrder from saying anything.  The end of the job
\* ('completed', published for failed orders as well) is no verdict.
VerdictIsTrue ==
    \A s \in Sockets, o \in Orders :
        /\ outcome[s][o] = "success" =>
              /\ row[o].status = "confirmed"
              /\ \E j \in Jobs : OrderOf[j] = o /\ swaps[j] = 1
        /\ outcome[s][o] = "failure" => row[o].status = "failed" \/ Threw(o)

Rank(status) ==
    CASE status \in {"none", "pending"} -> 0
      [] status = "routing"             -> 1
      [] status = "building"            -> 2
      [] status = "submitted"           -> 3
      [] OTHER                          -> 4

\* A status that a client has been shown is never ahead of what GET /status reads
\* from the row, however long the events have waited, and shown verdicts agree with it.
NeverAheadOfRow ==
    \A s \in Sockets, o \in Orders :
        /\ Rank(shown[s][o].status) <= Rank(row[o].status)
        /\ shown[s][o].status \in {"confirmed", "failed"} => row[o].status = shown[s][o].status

\* The stream shows a client the progress in order: the percentage grows until a
\* failure, also over lost connections.
ShownInOrder ==
    [][\A s \in Sockets, o \in Orders :
         \/ shown'[s][o].percent >= shown[s][o].percent
         \/ shown'[s][o].status = "failed"]_vars

Follows(s, o) == server = "up" /\ ready[s] = "open" /\ o \in subs[s]
Undecided(o) == \A j \in Jobs : OrderOf[j] = o => progress[j].status \notin {"confirmed", "failed"}

\* Whoever follows an order while its verdict is open learns the verdict from the
\* stream, on either endpoint and over lost connections, provided that QueueEvents has
\* an id to read on from and that processOrder does not throw.
FollowersLearnVerdict ==
    <>[]redisUp => \A s \in Sockets, o \in Orders :
        cursor = "known" /\ Follows(s, o) /\ Undecided(o) ~>
            outcome[s][o] # "waiting" \/ ~Follows(s, o) \/ Threw(o)

Verdicts == {"confirmed", "failed"}

\* The client knows the verdict, or it waits in the stream, or it is still to come.
StreamOwes(s, o) ==
    \/ outcome[s][o] # "waiting"
    \/ \E i \in DOMAIN stream : stream[i].order = o /\ stream[i].report.status \in Verdicts
    \/ Undecided(o)

\* The stream loses no verdict: from when QueueEvents has an id to read on from, a
\* verdict that a follower has not heard is in the stream or still to be reported,
\* whoever comes and goes, and over lost connections (orderEvents.ts:35-62).
StreamLosesNoVerdict ==
    [][\A s \in Sockets, o \in Orders :
         cursor = "known" /\ Follows(s, o) /\ StreamOwes(s, o)
            => cursor' = "known" /\ (StreamOwes(s, o)' \/ ~Follows(s, o)')]_vars

\* The client knows the verdict, or it is on the channel, or processOrder has not
\* returned and the end of the job is not published.
ChannelOwes(s, o) ==
    \/ outcome[s][o] # "waiting"
    \/ \E i \in DOMAIN channel[s] : channel[s][i] \in Verdicts
    \/ \E j \in Jobs : OrderOf[j] = o /\ ~ended[j] /\ pc[j] \notin {"success", "failure"}

\* The channel loses no verdict while the subscriber listens: processOrder returns
\* only with the step that publishes one, and the end of a job that threw is one
\* (worker.ts:75-84, queue-events.ts:27-48, server.ts:97-113).
ChannelLosesNoVerdict ==
    [][\A s \in Sockets, o \in Orders :
         subscriber[s] = "listening" /\ Follows(s, o) /\ ChannelOwes(s, o)
            => ChannelOwes(s, o)' \/ ~Follows(s, o)' \/ subscriber'[s] # "listening"]_vars

\* The subscriber of s listens, and the verdict or the failed event is still to come.
ListensInTime(s, o) ==
    /\ subscriber[s] = "listening" /\ Follows(s, o)
    /\ Undecided(o) /\ \E j \in Jobs : OrderOf[j] = o /\ ~ended[j]

\* A path client whose subscriber listens in time learns the verdict from the channel,
\* also when processOrder throws, unless Redis goes away.
ListenersLearnVerdict ==
    \A s \in Sockets, o \in Orders :
        ListensInTime(s, o) ~> outcome[s][o] # "waiting" \/ ~Follows(s, o) \/ ~redisUp

=============================================================================
