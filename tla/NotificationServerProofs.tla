---------------------- MODULE NotificationServerProofs ----------------------
(***************************************************************************)
(* Proofs about NotificationServer, for any sets of orders and sockets and *)
(* a Redis that may stop or not: the registry of clients and the sessions  *)
(* agree, nothing stays behind in the registry, and a path session has its *)
(* subscriber as long as it lives.                                         *)
(*                                                                         *)
(* The invariants are not inductive one by one: that a socket which opens  *)
(* is registered nowhere yet follows from SessionShape, that closeAll      *)
(* reaches every session with a subscription from RegistryMatchesSessions, *)
(* and that a message about OrderOfPath has an order from SessionShape.    *)
(***************************************************************************)
EXTENDS NotificationServer, FiniteSetTheorems, TLAPS

\* Only sockets that were opened and have not closed yet are registered.
OnlyLiveClients == \A o \in Orders : \A s \in Clients(o) : ready[s] \notin {"none", "closed"}

\* A socket that was never opened has no session, and only path sessions, which keep
\* their order, have subscribers.
SessionShape ==
    \A s \in Sockets :
        /\ ready[s] = "none" => subs[s] = {} /\ subscriber[s] = "none"
        /\ subscriber[s] # "none" => route[s] = "path" /\ \E o \in Orders : subs[s] = {o}

IInv ==
    /\ TypeOK
    /\ RegistryMatchesSessions
    /\ OnlyLiveClients
    /\ SubscriberFollowsSocket
    /\ SessionShape

-----------------------------------------------------------------------------
(* The registry *)

\* register adds one socket to one order (websocket-manager.ts:9-14).
LEMMA RegisterAdds ==
    ASSUME RegistryTypeOK, NEW o \in Orders, NEW s \in Sockets, connections' = Registered(o, s)
    PROVE  /\ DOMAIN connections' \subseteq Orders
           /\ connections' \in [DOMAIN connections' -> (SUBSET Sockets) \ {{}}]
           /\ \A p \in Orders : Clients(p)' = IF p = o THEN Clients(p) \union {s} ELSE Clients(p)
<1>1. Clients(o) \subseteq Sockets
    BY DEF RegistryTypeOK, Clients
<1>2. DOMAIN connections' = DOMAIN connections \union {o}
    BY DEF Registered
<1>3. \A p \in DOMAIN connections' :
        connections'[p] = IF p = o THEN Clients(o) \union {s} ELSE connections[p]
    BY <1>2 DEF Registered
<1>4. connections' \in [DOMAIN connections' -> (SUBSET Sockets) \ {{}}]
    <2>1. \A p \in DOMAIN connections' : connections'[p] \in (SUBSET Sockets) \ {{}}
        BY <1>1, <1>2, <1>3 DEF RegistryTypeOK
    <2> QED
        BY <2>1 DEF Registered
<1>5. \A p \in Orders : Clients(p)' = IF p = o THEN Clients(p) \union {s} ELSE Clients(p)
    BY <1>2, <1>3 DEF Clients
<1> QED
    BY <1>2, <1>4, <1>5 DEF RegistryTypeOK

\* unregister takes one socket from the orders it is called for and leaves no order
\* without a client (websocket-manager.ts:42-50).
LEMMA UnregisterRemoves ==
    ASSUME RegistryTypeOK, NEW os, NEW s \in Sockets, connections' = Unregistered(os, s)
    PROVE  /\ DOMAIN connections' \subseteq Orders
           /\ connections' \in [DOMAIN connections' -> (SUBSET Sockets) \ {{}}]
           /\ \A p \in Orders : Clients(p)' = IF p \in os THEN Clients(p) \ {s} ELSE Clients(p)
<1> DEFINE left(o) == IF o \in os THEN connections[o] \ {s} ELSE connections[o]
<1>1. DOMAIN connections' = {p \in DOMAIN connections : left(p) # {}}
    BY DEF Unregistered
<1>2. \A p \in DOMAIN connections' : connections'[p] = left(p)
    BY <1>1 DEF Unregistered
<1>3. connections' \in [DOMAIN connections' -> (SUBSET Sockets) \ {{}}]
    <2>1. \A p \in DOMAIN connections' : connections'[p] \in (SUBSET Sockets) \ {{}}
        BY <1>1, <1>2 DEF RegistryTypeOK
    <2> QED
        BY <2>1 DEF Unregistered
<1>4. \A p \in Orders : Clients(p)' = IF p \in os THEN Clients(p) \ {s} ELSE Clients(p)
    BY <1>1, <1>2 DEF Clients
<1> QED
    BY <1>1, <1>3, <1>4 DEF RegistryTypeOK

\* closeAll forgets every client (websocket-manager.ts:148).
LEMMA CloseAllForgets ==
    ASSUME connections' = NoClients
    PROVE  /\ DOMAIN connections' \subseteq Orders
           /\ connections' \in [DOMAIN connections' -> (SUBSET Sockets) \ {{}}]
           /\ \A p \in Orders : Clients(p)' = {}
BY DEF NoClients, Clients

\* A registry that no handler touches keeps its clients.
LEMMA RegistryStays ==
    ASSUME RegistryTypeOK, UNCHANGED connections
    PROVE  /\ DOMAIN connections' \subseteq Orders
           /\ connections' \in [DOMAIN connections' -> (SUBSET Sockets) \ {{}}]
           /\ \A p \in Orders : Clients(p)' = Clients(p)
BY DEF RegistryTypeOK, Clients

\* The registered sockets of an order are its clients.
LEMMA ClientsAreSockets ==
    ASSUME RegistryTypeOK, NEW o \in Orders
    PROVE  Clients(o) \subseteq Sockets
BY DEF RegistryTypeOK, Clients

-----------------------------------------------------------------------------
(* Sending *)

\* Messages about an order, and those about none, have their type.
LEMMA MessageType ==
    ASSUME NEW type \in MessageTypes, NEW o \in Orders \union {NoOrder}
    PROVE  Message(type, o) \in Messages
BY DEF Message, Messages

\* What is sent is a sequence of messages, empty for sockets that are not open.
LEMMA SentType ==
    ASSUME NEW to, NEW m \in Messages
    PROVE  \A s \in Sockets : SendTo(to, m)[s] \in Seq(Messages)
BY DEF SendTo

\* So is nothing.
LEMMA SilenceType == \A s \in Sockets : Silence[s] \in Seq(Messages)
BY DEF Silence

\* The path greeting and the JSON confirmation add one message for one socket.
LEMMA AndThenType ==
    ASSUME NEW out, out \in [Sockets -> Seq(Messages)], NEW s \in Sockets, NEW m \in Messages
    PROVE  \A t \in Sockets : AndThen(out, s, m)[t] \in Seq(Messages)
<1>1. SendTo({s}, m)[s] \in Seq(Messages)
    BY SentType
<1>2. out[s] \o SendTo({s}, m)[s] \in Seq(Messages)
    BY <1>1
<1> QED
    BY <1>2 DEF AndThen

-----------------------------------------------------------------------------
(* The inductive invariant *)

\* The server starts with no sessions (server.ts:135-138).
LEMMA InitInv == ASSUME Init PROVE IInv
BY RedisAssumption, SilenceType
   DEF Init, RegistryInit, NoClients, IInv, TypeOK, RegistryTypeOK, ReadyStates, Stages, Routes,
       SubscriberStates, RegistryMatchesSessions, OnlyLiveClients, Clients,
       SubscriberFollowsSocket, SessionShape

\* Every callback of the event loop keeps the invariant.
LEMMA NextInv == ASSUME IInv, [Next]_vars PROVE IInv'
<1> USE DEF sessionVars, registryVars, IInv, TypeOK, RegistryTypeOK, ReadyStates, Stages, Routes,
       SubscriberStates, RegistryMatchesSessions, OnlyLiveClients,
       SubscriberFollowsSocket, SessionShape
<1>1. CASE StartDatabase
    BY <1>1, SilenceType, RegistryStays DEF StartDatabase
<1>2. CASE StartPing
    BY <1>2, SilenceType, RegistryStays DEF StartPing
<1>3. CASE Shutdown
    <2>1. TypeOK'
        BY <1>3, SilenceType, CloseAllForgets DEF Shutdown, CloseAll
    <2>2. RegistryMatchesSessions'
        <3>1. \A s \in Sockets, o \in Orders : ready'[s] = "open" /\ o \in subs[s] => FALSE
            <4> SUFFICES ASSUME NEW s \in Sockets, NEW o \in Orders, ready'[s] = "open", o \in subs[s]
                         PROVE  FALSE
                OBVIOUS
            <4>1. ready[s] = "open" /\ ~ \E p \in DOMAIN connections : s \in connections[p]
                BY <1>3 DEF Shutdown, CloseAll
            <4>2. s \in Clients(o)
                BY <4>1
            <4> QED
                BY <4>1, <4>2 DEF Clients
        <3> QED
            BY <1>3, <3>1, CloseAllForgets DEF Shutdown, CloseAll
    <2>3. OnlyLiveClients'
        BY <1>3, CloseAllForgets DEF Shutdown, CloseAll
    <2> QED
        BY <1>3, <2>1, <2>2, <2>3 DEF Shutdown, CloseAll
<1>4. CASE Drained
    BY <1>4, SilenceType, RegistryStays DEF Drained
<1>5. CASE Exit
    BY <1>5, SilenceType, RegistryStays DEF Exit
<1>6. CASE RedisStops
    <2>1. subscriber' \in [Sockets -> SubscriberStates]
        BY <1>6 DEF RedisStops
    <2>2. TypeOK'
        BY <1>6, <2>1, SilenceType, RegistryStays DEF RedisStops
    <2>3. RegistryMatchesSessions' /\ OnlyLiveClients'
        BY <1>6, RegistryStays DEF RedisStops
    <2>4. SubscriberFollowsSocket' /\ SessionShape'
        BY <1>6 DEF RedisStops
    <2> QED
        BY <2>2, <2>3, <2>4
<1>7. CASE RedisReturns
    BY <1>7, SilenceType, RegistryStays DEF RedisReturns
<1>8. ASSUME NEW s \in Sockets, ConnectJson(s) PROVE IInv'
    BY <1>8, SilenceType, RegistryStays, MessageType DEF ConnectJson, Opens, MessageTypes
<1>9. ASSUME NEW s \in Sockets, ConnectNoOrder(s) PROVE IInv'
    BY <1>9, SilenceType, RegistryStays DEF ConnectNoOrder, Opens
<1>10. ASSUME NEW s \in Sockets, Reject(s) PROVE IInv'
    BY <1>10, SentType, MessageType, RegistryStays DEF Reject, MessageTypes
<1>11. ASSUME NEW s \in Sockets, SubscriberConnects(s) PROVE IInv'
    BY <1>11, SilenceType, RegistryStays DEF SubscriberConnects, Becomes
<1>12. ASSUME NEW s \in Sockets, SubscriberFails(s) PROVE IInv'
    BY <1>12, SilenceType, RegistryStays DEF SubscriberFails, Becomes, CloseSocket
<1>13. ASSUME NEW s \in Sockets, RedisSubscribes(s) PROVE IInv'
    BY <1>13, SilenceType, RegistryStays DEF RedisSubscribes, Becomes
<1>14. ASSUME NEW s \in Sockets, SubscriberReplied(s) PROVE IInv'
    BY <1>14, SentType, MessageType, RegistryStays
       DEF SubscriberReplied, Becomes, ConfirmSubscription, SendToOrder, OrderOfPath, MessageTypes
<1>15. ASSUME NEW s \in Sockets, Relay(s) PROVE IInv'
    <2>1. OrderOfPath(s) \in Orders
        BY <1>15 DEF Relay, OrderOfPath
    <2> QED
        BY <1>15, <2>1, SentType, MessageType, RegistryStays DEF Relay, MessageTypes
<1>16. ASSUME NEW s \in Sockets, Resubscribes(s) PROVE IInv'
    BY <1>16, SilenceType, RegistryStays DEF Resubscribes, Becomes
<1>17. ASSUME NEW s \in Sockets, LateReply(s) PROVE IInv'
    <2>1. OrderOfPath(s) \in Orders
        BY <1>17 DEF LateReply, OrderOfPath
    <2> QED
        BY <1>17, <2>1, SilenceType, SentType, MessageType, RegistryStays
           DEF LateReply, Becomes, ConfirmSubscription, SendToOrder, MessageTypes
<1>18. ASSUME NEW s \in Sockets, ClientLeaves(s) PROVE IInv'
    BY <1>18, SilenceType, RegistryStays DEF ClientLeaves
<1>19. ASSUME NEW s \in Sockets, SocketError(s) PROVE IInv'
    <2>1. SessionShape'
        BY <1>19 DEF SocketError
    <2>2. TypeOK'
        BY <1>19, SilenceType, UnregisterRemoves DEF SocketError
    <2>3. SubscriberFollowsSocket'
        BY <1>19 DEF SocketError
    <2>4. RegistryMatchesSessions' /\ OnlyLiveClients'
        BY <1>19, UnregisterRemoves DEF SocketError
    <2> QED
        BY <2>1, <2>2, <2>3, <2>4
<1>20. ASSUME NEW s \in Sockets, Closed(s) PROVE IInv'
    <2> DEFINE os == listeners[s] \union subs[s]
    <2>1. /\ DOMAIN connections' \subseteq Orders
          /\ connections' \in [DOMAIN connections' -> (SUBSET Sockets) \ {{}}]
          /\ \A p \in Orders : Clients(p)' = IF p \in os THEN Clients(p) \ {s} ELSE Clients(p)
        <3>1. connections' = Unregistered(os, s)
            BY <1>20 DEF Closed
        <3> HIDE DEF os
        <3> QED
            BY <3>1, UnregisterRemoves
    <2>2. TypeOK'
        BY <1>20, <2>1, SilenceType DEF Closed, ClearedSubs, Becomes, Disconnected
    <2>3. \A p \in Orders : Clients(p)' = Clients(p) \ {s}
        BY <2>1
    <2>4. RegistryMatchesSessions' /\ OnlyLiveClients'
        BY <1>20, <2>3 DEF Closed, ClearedSubs
    <2>5. SubscriberFollowsSocket'
        BY <1>20 DEF Closed, ClearedSubs, Becomes, Disconnected
    <2>6. SessionShape'
        BY <1>20 DEF Closed, ClearedSubs, Becomes, Disconnected
    <2> QED
        BY <2>2, <2>4, <2>5, <2>6
<1>21. ASSUME NEW s \in Sockets, NEW o \in Orders, ConnectPath(s, o) PROVE IInv'
    <2>1. /\ DOMAIN connections' \subseteq Orders
          /\ connections' \in [DOMAIN connections' -> (SUBSET Sockets) \ {{}}]
          /\ \A p \in Orders : Clients(p)' = IF p = o THEN Clients(p) \union {s} ELSE Clients(p)
        BY <1>21, RegisterAdds DEF ConnectPath, Register
    <2>2. \A t \in Sockets : sent'[t] \in Seq(Messages)
        BY <1>21, SentType, MessageType DEF ConnectPath, Greeting, MessageTypes
    <2>3. TypeOK'
        BY <1>21, <2>1, <2>2 DEF ConnectPath, Opens, Register
    <2>4. RegistryMatchesSessions' /\ OnlyLiveClients'
        BY <1>21, <2>1 DEF ConnectPath, Opens
    <2>5. SubscriberFollowsSocket' /\ SessionShape'
        BY <1>21 DEF ConnectPath, Opens
    <2> QED
        BY <2>3, <2>4, <2>5
<1>22. ASSUME NEW s \in Sockets, NEW o \in Orders, Subscribe(s, o) PROVE IInv'
    <2>1. /\ DOMAIN connections' \subseteq Orders
          /\ connections' \in [DOMAIN connections' -> (SUBSET Sockets) \ {{}}]
          /\ \A p \in Orders : Clients(p)' = IF p = o THEN Clients(p) \union {s} ELSE Clients(p)
        BY <1>22, RegisterAdds DEF Subscribe, Register
    <2>2. Greeting(o, s) \in [Sockets -> Seq(Messages)]
        BY SentType, MessageType DEF Greeting, SendTo, MessageTypes
    <2>3. \A t \in Sockets : sent'[t] \in Seq(Messages)
        BY <1>22, <2>2, AndThenType, MessageType DEF Subscribe, MessageTypes
    <2>4. TypeOK'
        BY <1>22, <2>1, <2>3 DEF Subscribe, Register
    <2>5. RegistryMatchesSessions' /\ OnlyLiveClients'
        BY <1>22, <2>1 DEF Subscribe, Reads
    <2>6. SubscriberFollowsSocket' /\ SessionShape'
        BY <1>22 DEF Subscribe, Reads
    <2> QED
        BY <2>4, <2>5, <2>6
<1>23. ASSUME NEW s \in Sockets, NEW o \in Orders, Unsubscribe(s, o) PROVE IInv'
    <2>1. /\ DOMAIN connections' \subseteq Orders
          /\ connections' \in [DOMAIN connections' -> (SUBSET Sockets) \ {{}}]
          /\ \A p \in Orders : Clients(p)' = IF p \in {o} THEN Clients(p) \ {s} ELSE Clients(p)
        BY <1>23, UnregisterRemoves DEF Unsubscribe
    <2>2. \A t \in Sockets : sent'[t] \in Seq(Messages)
        BY <1>23, SentType, MessageType DEF Unsubscribe, MessageTypes
    <2>3. TypeOK'
        BY <1>23, <2>1, <2>2 DEF Unsubscribe
    <2>4. RegistryMatchesSessions' /\ OnlyLiveClients'
        BY <1>23, <2>1 DEF Unsubscribe
    <2>5. SubscriberFollowsSocket' /\ SessionShape'
        BY <1>23 DEF Unsubscribe, Reads
    <2> QED
        BY <2>3, <2>4, <2>5
<1>24. ASSUME NEW o \in Orders, Forward(o) PROVE IInv'
    BY <1>24, SentType, MessageType, RegistryStays DEF Forward, SendToOrder, MessageTypes
<1>25. CASE UNCHANGED vars
    BY <1>25, RegistryStays DEF vars
<1> QED
    BY <1>1, <1>2, <1>3, <1>4, <1>5, <1>6, <1>7, <1>8, <1>9, <1>10, <1>11, <1>12, <1>13, <1>14,
       <1>15, <1>16, <1>17, <1>18, <1>19, <1>20, <1>21, <1>22, <1>23, <1>24, <1>25 DEF Next, Exited

\* The invariant holds at all times.
LEMMA Invariance == Spec => []IInv
BY InitInv, NextInv, PTL DEF Spec

-----------------------------------------------------------------------------
(* What the server promises its clients *)

\* The variables keep their types: no order is left without clients in the registry, and
\* messages are about orders that sessions named.
THEOREM TypeCorrect == Spec => []TypeOK
<1>1. IInv => TypeOK
    BY DEF IInv
<1> QED
    BY <1>1, Invariance, PTL

\* A connected client is registered for exactly the orders of its session
\* (ws.routes.ts:74-75, 101-102, 141-144; server.ts:66, 125), however subscribe,
\* unsubscribe, errors, closing and shutdown interleave.
THEOREM RegistryIsTrue == Spec => []RegistryMatchesSessions
<1>1. IInv => RegistryMatchesSessions
    BY DEF IInv
<1> QED
    BY <1>1, Invariance, PTL

\* A path session has a client if it has a subscriber that listens or will, and an open
\* one has a subscriber that did not fail (server.ts:94, 117, 121-126).
THEOREM SubscribersFollow == Spec => []SubscriberFollowsSocket
<1>1. IInv => SubscriberFollowsSocket
    BY DEF IInv
<1> QED
    BY <1>1, Invariance, PTL

\* No closed socket stays registered, and /health counts nothing when all are closed
\* (websocket-manager.ts:32-34, 42-50, 124-134).
THEOREM NothingLeft == Spec => []NothingLeftBehind
<1>1. ASSUME IInv PROVE NothingLeftBehind
    <2>1. ASSUME \A s \in Sockets : ready[s] \in {"none", "closed"}
          PROVE  ConnectedOrderCount = 0 /\ TotalClientCount = 0
        <3>1. \A o \in Orders : Clients(o) = {}
            BY <1>1, <2>1, ClientsAreSockets DEF IInv, TypeOK, OnlyLiveClients
        <3>2. DOMAIN connections = {}
            BY <1>1, <3>1 DEF IInv, TypeOK, RegistryTypeOK, Clients
        <3>3. {client \in Orders \X Sockets : client[2] \in Clients(client[1])} = {}
            BY <3>1
        <3> QED
            BY <3>2, <3>3, FS_EmptySet DEF ConnectedOrderCount, TotalClientCount
    <2> QED
        BY <1>1, <2>1 DEF IInv, OnlyLiveClients, NothingLeftBehind
<1> QED
    BY <1>1, Invariance, PTL

-----------------------------------------------------------------------------
(* Who hears what *)

\* A message is sent to open sockets among its recipients, and is the only one.
LEMMA SendToTells ==
    ASSUME NEW to, NEW m, NEW s \in Sockets, NEW i \in DOMAIN SendTo(to, m)[s]
    PROVE  s \in to /\ ready[s] = "open" /\ SendTo(to, m)[s][i] = m
BY DEF SendTo

\* Silence has no messages.
LEMMA SilenceTells == \A s \in Sockets : DOMAIN Silence[s] = {}
BY DEF Silence

\* The messages of out that are about orders are about those of os.
About(out, os) ==
    \A i \in DOMAIN out :
        out[i].type \in {"connection", "subscribed", "update"} => out[i].order \in os \union {NoOrder}

\* Silence is fit for everybody.
LEMMA SilenceAbout == \A s \in Sockets, os \in SUBSET Orders : About(Silence[s], os)
BY SilenceTells DEF About

\* A message about o is fit for recipients whose sessions are about o.
LEMMA SendToAbout ==
    ASSUME NEW to, NEW type \in MessageTypes, NEW o \in Orders \union {NoOrder},
           NEW s \in Sockets, NEW os,
           s \in to => type \in {"unsubscribed", "error"} \/ o \in os \union {NoOrder}
    PROVE  About(SendTo(to, Message(type, o))[s], os)
BY SendToTells DEF About, Message, MessageTypes

\* The order of a path session is one of the session's orders.
LEMMA OrderOfPathIsSubscribed ==
    ASSUME IInv, NEW s \in Sockets, subscriber[s] # "none"
    PROVE  OrderOfPath(s) \in subs[s] /\ OrderOfPath(s) \in Orders
BY DEF IInv, TypeOK, SessionShape, OrderOfPath

\* Whoever is a client of an order has it in the session.
LEMMA ClientsSubscribed ==
    ASSUME IInv, NEW o \in Orders, NEW s \in Sockets, s \in Clients(o)
    PROVE  o \in subs[s]
BY DEF IInv, RegistryMatchesSessions

\* A client hears of an order only while its session is about that order
\* (websocket-manager.ts:25, 59-80; ws.routes.ts:78-86; server.ts:97, 107).
THEOREM ClientsHearTheirOrders == Spec => HearsOnlyItsOrders
<1> DEFINE Heard == \A t \in Sockets : About(sent'[t], subs'[t])
<1>1. ASSUME IInv, Next PROVE Heard \/ UNCHANGED vars
    <2> USE <1>1
    <2>0. subs \in [Sockets -> SUBSET Orders] /\ subs' \in [Sockets -> SUBSET Orders]
        BY NextInv DEF IInv, TypeOK
    <2>1. CASE sent' = Silence
        BY <2>0, <2>1, SilenceAbout
    <2>2. ASSUME NEW o \in Orders, sent' = SendToOrder(o, Message("update", o)), UNCHANGED subs
          PROVE  Heard
        BY <2>2, SendToAbout, ClientsSubscribed DEF SendToOrder, MessageTypes
    <2>3. ASSUME NEW s \in Sockets, subscriber[s] # "none", ConfirmSubscription(s), UNCHANGED subs
          PROVE  Heard
        BY <2>3, SendToAbout, ClientsSubscribed, OrderOfPathIsSubscribed
           DEF ConfirmSubscription, SendToOrder, MessageTypes
    <2>4. ASSUME NEW s \in Sockets, ConnectJson(s) PROVE Heard
        BY <2>4, SilenceTells DEF ConnectJson, About, Message, Silence
    <2>5. ASSUME NEW s \in Sockets, Reject(s) PROVE Heard
        BY <2>5, SendToAbout DEF Reject, MessageTypes
    <2>6. ASSUME NEW s \in Sockets, Relay(s) PROVE Heard
        BY <2>6, SendToAbout, OrderOfPathIsSubscribed DEF Relay, MessageTypes, sessionVars
    <2>7. ASSUME NEW s \in Sockets, NEW o \in Orders, Unsubscribe(s, o) PROVE Heard
        BY <2>7, SendToAbout DEF Unsubscribe, MessageTypes
    <2>8. ASSUME NEW s \in Sockets, NEW o \in Orders, NEW t \in Sockets \ {s}
          PROVE  About(SendTo(Registered(o, s)[o], Message("connection", o))[t], subs[t])
        <3>1. t \in Registered(o, s)[o] => o \in subs[t]
            BY ClientsSubscribed DEF Registered
        <3> QED
            BY <3>1, SendToAbout DEF MessageTypes
    <2>9. ASSUME NEW s \in Sockets, NEW o \in Orders, ConnectPath(s, o) PROVE Heard
        <3>1. ASSUME NEW t \in Sockets \ {s} PROVE About(sent'[t], subs'[t])
            <4>1. sent'[t] = SendTo(Registered(o, s)[o], Message("connection", o))[t]
                BY <2>9 DEF ConnectPath, Greeting, SendTo
            <4>2. subs'[t] = subs[t]
                BY <2>0, <2>9 DEF ConnectPath
            <4> QED
                BY <2>8, <4>1, <4>2
        <3>2. About(sent'[s], subs'[s])
            BY <2>9 DEF ConnectPath, Greeting, SendTo, About, Message, IInv, TypeOK
        <3> QED
            BY <3>1, <3>2
    <2>10. ASSUME NEW s \in Sockets, NEW o \in Orders, Subscribe(s, o) PROVE Heard
        <3>1. ASSUME NEW t \in Sockets \ {s} PROVE About(sent'[t], subs'[t])
            <4>1. sent'[t] = SendTo(Registered(o, s)[o], Message("connection", o))[t]
                BY <2>10 DEF Subscribe, AndThen, Greeting, SendTo
            <4>2. subs'[t] = subs[t]
                BY <2>0, <2>10 DEF Subscribe
            <4> QED
                BY <2>8, <4>1, <4>2
        <3>2. About(sent'[s], subs'[s])
            <4>1. o \in subs'[s]
                BY <2>10 DEF Subscribe, IInv, TypeOK
            <4> DEFINE a == Greeting(o, s)[s]
                       b == SendTo({s}, Message("subscribed", o))[s]
            <4>2. sent'[s] = a \o b
                BY <2>10 DEF Subscribe, AndThen, Greeting, SendTo
            <4>3. a \in Seq(Messages) /\ \A i \in DOMAIN a : a[i].order = o
                BY SentType, MessageType, SendToTells DEF Greeting, Message, MessageTypes
            <4>4. b \in Seq(Messages) /\ \A i \in DOMAIN b : b[i].order = o
                BY SentType, MessageType, SendToTells DEF Message, MessageTypes
            <4>5. \A i \in DOMAIN sent'[s] : sent'[s][i].order = o
                <5> HIDE DEF a, b
                <5>1. \A i \in 1 .. Len(a) + Len(b) : (a \o b)[i].order = o
                    BY <4>3, <4>4
                <5> QED
                    BY <4>2, <4>3, <4>4, <5>1
            <4> QED
                BY <4>1, <4>5 DEF About
        <3> QED
            BY <3>1, <3>2
    <2> QED
        BY <2>1, <2>2, <2>3, <2>4, <2>5, <2>6, <2>7, <2>9, <2>10
           DEF Next, StartDatabase, StartPing, Shutdown, Drained, Exit, RedisStops, RedisReturns,
               ConnectNoOrder, SubscriberConnects, SubscriberFails, RedisSubscribes,
               SubscriberReplied, Resubscribes, LateReply, ClientLeaves, SocketError, Closed,
               Forward, Exited, sessionVars
<1>2. ASSUME IInv, [Next]_vars
      PROVE  [\A s \in Sockets : \A i \in DOMAIN sent'[s] :
                sent'[s][i].type \in {"connection", "subscribed", "update"} =>
                   sent'[s][i].order \in subs'[s] \union {NoOrder}]_vars
    BY <1>1, <1>2 DEF About
<1> QED
    BY <1>2, Invariance, PTL DEF Spec, HearsOnlyItsOrders

=============================================================================
