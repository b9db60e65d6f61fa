------------------------- MODULE NotificationServer -------------------------
(***************************************************************************)
(* The server process as its WebSocket clients see it: start-up and        *)
(* shutdown and the sessions of the path-based endpoint (src/server.ts),   *)
(* and the sessions of the JSON endpoint (src/routes/ws.routes.ts).        *)
(*                                                                         *)
(* A session of /ws/orders subscribes to orders by messages; a session of  *)
(* /api/orders/status/:orderId is about one order and has a Redis          *)
(* subscriber of its own.  Both register in WebSocketManager.  An action   *)
(* is one callback of the event loop: a socket's or a subscriber's event,  *)
(* a signal, or an await of start() that is resolved.                      *)
(***************************************************************************)
EXTENDS WebSocketManager

CONSTANT
    RedisMayStop  \* may Redis stop, come back, and refuse commands?

ASSUME RedisAssumption == RedisMayStop \in BOOLEAN

VARIABLES
    server,      \* what start() or the shutdown waits for
    redisUp,     \* is Redis reachable?
    route,       \* route[s]: the endpoint that socket s was upgraded on
    subs,        \* subs[s]: the orders of the session
    subscriber   \* subscriber[s]: the Redis client of a path session

sessionVars == <<server, redisUp, route, subs, subscriber>>
vars == <<registryVars, sessionVars>>

\* "draining" waits for the connections, "quitting" for Redis to answer QUIT.
Stages == {"database", "ping", "up", "draining", "quitting", "exited"}
Routes == {"none", "json", "path", "refused"}
\* "replying": Redis has subscribed the client, the reply is on its way; "lost": the
\* connection broke and ioredis reconnects; "leaving": closed, but the reply may come.
SubscriberStates == {"none", "connecting", "subscribing", "replying", "listening",
                     "lost", "failed", "leaving", "ended"}

TypeOK ==
    /\ RegistryTypeOK
    /\ server \in Stages
    /\ redisUp \in BOOLEAN
    /\ route \in [Sockets -> Routes]
    /\ subs \in [Sockets -> SUBSET Orders]
    /\ subscriber \in [Sockets -> SubscriberStates]

Init ==
    /\ RegistryInit
    /\ server = "database"
    /\ redisUp \in {TRUE, ~RedisMayStop}
    /\ route = [s \in Sockets |-> "none"]
    /\ subs = [s \in Sockets |-> {}]
    /\ subscriber = [s \in Sockets |-> "none"]

Alive == server # "exited"

-----------------------------------------------------------------------------
(* start() and the signals *)

\* AppDataSource.initialize resolves, or rejects and the process exits.
StartDatabase ==
    /\ server = "database"
    /\ server' \in {"ping", "exited"}
    /\ sent' = Silence
    /\ UNCHANGED <<ready, connections, listeners, redisUp, route, subs, subscriber>>

\* PING waits until Redis answers; only an error reply makes the process exit.
StartPing ==
    /\ server = "ping" /\ redisUp
    /\ \/ server' = "up"
       \/ RedisMayStop /\ server' = "exited"
    /\ sent' = Silence
    /\ UNCHANGED <<ready, connections, listeners, redisUp, route, subs, subscriber>>

\* SIGTERM or SIGINT: close the registered clients, then the server.  A server that
\* does not listen yet has no connections to wait for.
Shutdown ==
    /\ server \in {"ping", "up", "draining"}
    /\ CloseAll
    /\ server' = IF server = "ping" THEN "quitting" ELSE "draining"
    /\ sent' = Silence
    /\ UNCHANGED <<listeners, redisUp, route, subs, subscriber>>

\* server.close calls back when the last connection is gone, upgraded ones included.
Drained ==
    /\ server = "draining" /\ \A s \in Sockets : ready[s] \in {"none", "closed"}
    /\ server' = "quitting"
    /\ sent' = Silence
    /\ UNCHANGED <<ready, connections, listeners, redisUp, route, subs, subscriber>>

\* The database is destroyed and QUIT answered.  Without Redis, QUIT waits behind the
\* commands that wait already; if there are none, ioredis answers it itself.
Exit ==
    /\ server = "quitting"
    /\ server' = "exited"
    /\ sent' = Silence
    /\ UNCHANGED <<ready, connections, listeners, redisUp, route, subs, subscriber>>

-----------------------------------------------------------------------------
(* Connecting *)

Opens(s, r) ==
    /\ server = "up" /\ ready[s] = "none"
    /\ ready' = [ready EXCEPT ![s] = IF r = "refused" THEN "closing" ELSE "open"]
    /\ route' = [route EXCEPT ![s] = r]
    /\ UNCHANGED <<server, redisUp>>

\* /ws/orders: the session has no subscriptions yet and is greeted.
ConnectJson(s) ==
    /\ Opens(s, "json")
    /\ sent' = [Silence EXCEPT ![s] = <<Message("connection", NoOrder)>>]
    /\ UNCHANGED <<connections, listeners, subs, subscriber>>

\* /api/orders/status/:orderId: registered at once; its subscriber starts to connect.
ConnectPath(s, o) ==
    /\ Opens(s, "path")
    /\ Register(o, s)
    /\ sent' = [Greeting(o, s) EXCEPT ![s] = <<Message("connection", o)>>]
    /\ subs' = [subs EXCEPT ![s] = {o}]
    /\ subscriber' = [subscriber EXCEPT ![s] = "connecting"]

\* The path without an order id: closed with 1008.
ConnectNoOrder(s) ==
    /\ Opens(s, "refused")
    /\ sent' = Silence
    /\ UNCHANGED <<connections, listeners, subs, subscriber>>

-----------------------------------------------------------------------------
(* Messages of a JSON client; they are still read while the server closes it. *)

Reads(s) == Alive /\ route[s] = "json" /\ ready[s] \in {"open", "closing"}

Subscribe(s, o) ==
    /\ Reads(s)
    /\ subs' = [subs EXCEPT ![s] = @ \union {o}]
    /\ Register(o, s)
    /\ sent' = AndThen(Greeting(o, s), s, Message("subscribed", o))
    /\ UNCHANGED <<ready, server, redisUp, route, subscriber>>

\* Mutant of Unsubscribe: the session forgets the order, the registry does not.
UnsubscribeSessionOnly(s, o) ==
    /\ Reads(s)
    /\ subs' = [subs EXCEPT ![s] = @ \ {o}]
    /\ sent' = SendTo({s}, Message("unsubscribed", o))
    /\ UNCHANGED <<ready, connections, listeners, server, redisUp, route, subscriber>>

Unsubscribe(s, o) ==
    /\ Reads(s)
    /\ subs' = [subs EXCEPT ![s] = @ \ {o}]
    /\ connections' = Unregistered({o}, s)
    /\ sent' = SendTo({s}, Message("unsubscribed", o))
    /\ UNCHANGED <<ready, listeners, server, redisUp, route, subscriber>>

\* No JSON, no action, an unknown action or no order id: an error and nothing else.
Reject(s) ==
    /\ Reads(s)
    /\ sent' = SendTo({s}, Message("error", NoOrder))
    /\ UNCHANGED <<ready, connections, listeners, sessionVars>>

-----------------------------------------------------------------------------
(* The Redis subscriber of a path session *)

OrderOfPath(s) == CHOOSE o \in subs[s] : TRUE
Becomes(s, state) == subscriber' = [subscriber EXCEPT ![s] = state]
CloseSocket(s) == ready' = IF ready[s] = "open" THEN [ready EXCEPT ![s] = "closing"] ELSE ready
ConfirmSubscription(s) == sent' = SendToOrder(OrderOfPath(s), Message("subscribed", OrderOfPath(s)))

SubscriberConnects(s) ==
    /\ Alive /\ subscriber[s] = "connecting" /\ redisUp
    /\ Becomes(s, "subscribing")
    /\ sent' = Silence
    /\ UNCHANGED <<ready, connections, listeners, server, redisUp, route, subs>>

\* Mutant of SubscriberFails: the client is left connected.
SubscriberFailsSilently(s) ==
    /\ Alive /\ RedisMayStop /\ subscriber[s] \in {"connecting", "subscribing"}
    /\ Becomes(s, "failed")
    /\ sent' = Silence
    /\ UNCHANGED <<ready, connections, listeners, server, redisUp, route, subs>>

\* The first connection attempt fails, or Redis refuses the SUBSCRIBE: closed with 1011.
SubscriberFails(s) ==
    /\ Alive /\ RedisMayStop
    /\ \/ subscriber[s] = "connecting"
       \/ subscriber[s] = "subscribing" /\ redisUp
    /\ Becomes(s, "failed")
    /\ CloseSocket(s)
    /\ sent' = Silence
    /\ UNCHANGED <<connections, listeners, server, redisUp, route, subs>>

\* Redis adds the subscriber to the channel.
RedisSubscribes(s) ==
    /\ Alive /\ subscriber[s] = "subscribing" /\ redisUp
    /\ Becomes(s, "replying")
    /\ sent' = Silence
    /\ UNCHANGED <<ready, connections, listeners, server, redisUp, route, subs>>

\* The reply arrives: all clients of the order are told, and then the handler of the
\* channel's messages is installed.
SubscriberReplied(s) ==
    /\ Alive /\ subscriber[s] = "replying"
    /\ Becomes(s, "listening")
    /\ ConfirmSubscription(s)
    /\ UNCHANGED <<ready, connections, listeners, server, redisUp, route, subs>>

\* A published message arrives: it is passed on to the one client, if that is open.
Relay(s) ==
    /\ Alive /\ subscriber[s] = "listening"
    /\ sent' = SendTo({s}, Message("update", OrderOfPath(s)))
    /\ UNCHANGED <<ready, connections, listeners, sessionVars>>

\* ioredis has reconnected and subscribes again.
Resubscribes(s) ==
    /\ Alive /\ subscriber[s] = "lost" /\ redisUp
    /\ Becomes(s, "listening")
    /\ sent' = Silence
    /\ UNCHANGED <<ready, connections, listeners, server, redisUp, route, subs>>

\* The reply to a subscriber that was disconnected meanwhile: it still arrives, or not.
LateReply(s) ==
    /\ Alive /\ subscriber[s] = "leaving"
    /\ Becomes(s, "ended")
    /\ ConfirmSubscription(s) \/ sent' = Silence
    /\ UNCHANGED <<ready, connections, listeners, server, redisUp, route, subs>>

\* Redis goes away: unanswered commands will be sent again, subscriptions are lost.
RedisStops ==
    /\ RedisMayStop /\ redisUp /\ Alive
    /\ redisUp' = FALSE
    /\ subscriber' = [s \in Sockets |->
          CASE subscriber[s] = "replying"  -> "subscribing"
            [] subscriber[s] = "listening" -> "lost"
            [] subscriber[s] = "leaving"   -> "ended"
            [] OTHER                       -> subscriber[s]]
    /\ sent' = Silence
    /\ UNCHANGED <<ready, connections, listeners, server, route, subs>>

RedisReturns ==
    /\ ~redisUp /\ Alive
    /\ redisUp' = TRUE
    /\ sent' = Silence
    /\ UNCHANGED <<ready, connections, listeners, server, route, subs, subscriber>>

-----------------------------------------------------------------------------
(* Closing *)

\* The client's close frame, or the end of its connection.
ClientLeaves(s) ==
    /\ Alive /\ ready[s] \in {"open", "closing"}
    /\ ready' = [ready EXCEPT ![s] = "ending"]
    /\ sent' = Silence
    /\ UNCHANGED <<connections, listeners, sessionVars>>

\* The error event: every registration of the socket goes, the session's set stays.
SocketError(s) ==
    /\ Alive /\ route[s] \in {"json", "path"} /\ ready[s] \in {"open", "closing"}
    /\ ready' = [ready EXCEPT ![s] = "ending"]
    /\ connections' = Unregistered(listeners[s], s)
    /\ sent' = Silence
    /\ UNCHANGED <<listeners, sessionVars>>

\* What unsubscribe and disconnect make of a subscriber.
Disconnected(state) ==
    CASE state = "none"                      -> "none"
      [] state \in {"subscribing", "replying"} -> "leaving"
      [] OTHER                               -> "ended"

\* The close listener of a JSON session clears its subscriptions.
ClearedSubs(s) == IF route[s] = "json" THEN [subs EXCEPT ![s] = {}] ELSE subs

\* Mutants of Closed: the listeners of neither the registry nor the session unregister;
\* the subscriber is not disconnected; the server waits for the client's close frame.
ClosedKeepsRegistration(s) ==
    /\ Alive /\ ready[s] \in {"closing", "ending"}
    /\ ready' = [ready EXCEPT ![s] = "closed"]
    /\ Becomes(s, Disconnected(subscriber[s]))
    /\ sent' = Silence
    /\ UNCHANGED <<connections, listeners, server, redisUp, route, subs>>
ClosedKeepsSubscriber(s) ==
    /\ Alive /\ ready[s] \in {"closing", "ending"}
    /\ ready' = [ready EXCEPT ![s] = "closed"]
    /\ connections' = Unregistered(listeners[s] \union subs[s], s)
    /\ sent' = Silence
    /\ UNCHANGED <<listeners, server, redisUp, route, subs, subscriber>>
ClosedByClientOnly(s) ==
    /\ Alive /\ ready[s] = "ending"
    /\ ready' = [ready EXCEPT ![s] = "closed"]
    /\ connections' = Unregistered(listeners[s] \union subs[s], s)
    /\ subs' = ClearedSubs(s)
    /\ Becomes(s, Disconnected(subscriber[s]))
    /\ sent' = Silence
    /\ UNCHANGED <<listeners, server, redisUp, route>>

\* The close event, at the latest 30 s after the server's close frame: the listeners
\* of the registry and of the session unregister the socket everywhere.
Closed(s) ==
    /\ Alive /\ ready[s] \in {"closing", "ending"}
    /\ ready' = [ready EXCEPT ![s] = "closed"]
    /\ connections' = Unregistered(listeners[s] \union subs[s], s)
    /\ subs' = ClearedSubs(s)
    /\ Becomes(s, Disconnected(subscriber[s]))
    /\ sent' = Silence
    /\ UNCHANGED <<listeners, server, redisUp, route>>

-----------------------------------------------------------------------------
(* Updates from the queue's event stream (src/queue/orderEvents.ts) *)

Forward(o) ==
    /\ server \in {"up", "draining", "quitting"}
    /\ sent' = SendToOrder(o, Message("update", o))
    /\ UNCHANGED <<ready, connections, listeners, sessionVars>>

Exited == server = "exited" /\ UNCHANGED vars

Next ==
    \/ StartDatabase \/ StartPing \/ Shutdown \/ Drained \/ Exit \/ RedisStops \/ RedisReturns
    \/ \E s \in Sockets :
        \/ ConnectJson(s) \/ ConnectNoOrder(s) \/ Reject(s)
        \/ SubscriberConnects(s) \/ SubscriberFails(s) \/ RedisSubscribes(s)
        \/ SubscriberReplied(s) \/ Relay(s) \/ Resubscribes(s)
        \/ LateReply(s) \/ ClientLeaves(s) \/ SocketError(s) \/ Closed(s)
        \/ \E o \in Orders : ConnectPath(s, o) \/ Subscribe(s, o) \/ Unsubscribe(s, o)
    \/ \E o \in Orders : Forward(o)
    \/ Exited

\* The event loop runs what is due: answers of the database and of Redis while it is
\* up, and the close timeout of a socket.  Clients owe nothing.
Fairness ==
    /\ WF_vars(StartDatabase) /\ WF_vars(StartPing)
    /\ WF_vars(Drained) /\ WF_vars(redisUp /\ Exit)
    /\ \A s \in Sockets :
        /\ WF_vars(SubscriberConnects(s) \/ SubscriberFails(s))
        /\ WF_vars(RedisSubscribes(s)) /\ WF_vars(SubscriberReplied(s))
        /\ WF_vars(Resubscribes(s)) /\ WF_vars(LateReply(s)) /\ WF_vars(Closed(s))

Spec == Init /\ [][Next]_vars /\ Fairness

-----------------------------------------------------------------------------
(* What the server promises its clients. *)

\* A client that is connected is in the registry for exactly the orders of its
\* session, whatever it sent twice or in an odd order, whoever else came and went,
\* and also while the server shuts down; one that closes is in it for no others.
RegistryMatchesSessions ==
    \A s \in Sockets, o \in Orders :
        /\ s \in Clients(o) => o \in subs[s]
        /\ ready[s] = "open" /\ o \in subs[s] => s \in Clients(o)

\* Nothing stays behind in the registry: no closed socket, and when all sockets are
\* closed /health counts no clients and no orders, although a late subscribe
\* registers a socket again that closeAll closed.
NothingLeftBehind ==
    /\ \A o \in Orders : \A s \in Clients(o) : ready[s] \notin {"none", "closed"}
    /\ (\A s \in Sockets : ready[s] \in {"none", "closed"}) =>
          ConnectedOrderCount = 0 /\ TotalClientCount = 0

\* A path session keeps neither a client without subscriber nor a subscriber without
\* client: the socket of a subscriber that failed is not open, and the subscriber of
\* a closed socket is disconnected.
SubscriberFollowsSocket ==
    \A s \in Sockets :
        /\ subscriber[s] = "failed" => ready[s] # "open"
        /\ ready[s] = "closed" => subscriber[s] \in {"none", "leaving", "ended"}

\* A client hears of an order only while its session is about that order: neither
\* the events of other clients nor the stream reach one that has unsubscribed.
HearsOnlyItsOrders ==
    [][\A s \in Sockets : \A i \in DOMAIN sent'[s] :
         sent'[s][i].type \in {"connection", "subscribed", "update"} =>
            sent'[s][i].order \in subs'[s] \union {NoOrder}]_vars

\* Every client of the path endpoint is served or dropped: if Redis stays up in the
\* end its subscriber listens, or the socket closes.
PathClientsAreServed ==
    <>[]redisUp => \A s \in Sockets :
        route[s] = "path" /\ server = "up" ~>
            subscriber[s] = "listening" \/ ready[s] # "open" \/ server = "exited"

\* A shutdown ends once no client keeps its connection open, if Redis answers: late
\* messages, half-closed sockets and subscribers do not hold it up.
ShutdownEnds ==
    <>[]redisUp => (server \in {"draining", "quitting"} /\ (\A s \in Sockets : ready[s] # "open")
                      ~> server = "exited")

\* The code says "shutting down gracefully" (server.ts:190), README.md:112 "Error
\* handling, logging, graceful shutdown".  A client of /ws/orders that has no
\* subscription is not closed, and server.close waits for it.
GracefulShutdown == server = "draining" ~> server = "exited"

=============================================================================
