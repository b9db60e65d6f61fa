-------------------------- MODULE WebSocketManager --------------------------
(***************************************************************************)
(* The registry of WebSocket clients, src/services/websocket-manager.ts:   *)
(* for every order the set of sockets that want its updates.               *)
(*                                                                         *)
(* The registry is a Map whose keys come and go with their first and last  *)
(* client; here a function whose DOMAIN is the set of keys.  Its methods   *)
(* run without interruption inside the handlers of NotificationServer:     *)
(* register and unregister are the values Registered and Unregistered, and *)
(* sent[s] is what the running handler has sent to socket s, in order.     *)
(***************************************************************************)
EXTENDS Sequences, FiniteSets

CONSTANTS
    Orders,   \* order ids
    Sockets   \* WebSocket connections, each used for one session

VARIABLES
    ready,       \* ready[s]: readyState of socket s, see ReadyStates
    connections, \* Map<orderId, Set<WebSocket>>
    listeners,   \* listeners[s]: orders whose close and error listeners register hung on s
    sent         \* sent[s]: the messages the last handler sent to socket s

registryVars == <<ready, connections, listeners, sent>>

\* A socket that closes itself still reads until the other side closes too
\* ("closing"); after that, or after an error, it reads no more ("ending").
ReadyStates == {"none", "open", "closing", "ending", "closed"}

NoOrder == "no order"
MessageTypes == {"connection", "subscribed", "unsubscribed", "error", "update"}
Message(type, o) == [type |-> type, order |-> o]
Messages == [type: MessageTypes, order: Orders \union {NoOrder}]

\* The keys and clients of the registry.
Clients(o) == IF o \in DOMAIN connections THEN connections[o] ELSE {}
NoClients == [o \in {} |-> {}]

\* What /health shows.
ConnectedOrderCount == Cardinality(DOMAIN connections)
TotalClientCount ==
    Cardinality({client \in Orders \X Sockets : client[2] \in Clients(client[1])})

-----------------------------------------------------------------------------
(* register and unregister *)

\* Mutant of Registered: register makes a new Set without looking for one.
RegisteredAlone(o, s) ==
    [p \in DOMAIN connections \union {o} |-> IF p = o THEN {s} ELSE connections[p]]

\* The registry after register(o, s).
Registered(o, s) ==
    [p \in DOMAIN connections \union {o} |->
        IF p = o THEN Clients(o) \union {s} ELSE connections[p]]

\* Mutant of Unregistered: the key of an order stays when its last client goes.
UnregisteredKeepsKey(os, s) ==
    [o \in DOMAIN connections |->
        IF o \in os THEN connections[o] \ {s} ELSE connections[o]]

\* The registry after unregister(o, s) for every o in os.
Unregistered(os, s) ==
    LET left(o) == IF o \in os THEN connections[o] \ {s} ELSE connections[o]
    IN  [o \in {p \in DOMAIN connections : left(p) # {}} |-> left(o)]

-----------------------------------------------------------------------------
(* Sending: a message goes to a socket that is open, and nowhere otherwise. *)

Silence == [s \in Sockets |-> <<>>]

SendTo(to, m) ==
    [s \in Sockets |-> IF s \in to /\ ready[s] = "open" THEN <<m>> ELSE <<>>]

\* sendToOrder
SendToOrder(o, m) == SendTo(Clients(o), m)

\* The messages out, and then m to socket s.
AndThen(out, s, m) == [out EXCEPT ![s] = @ \o SendTo({s}, m)[s]]

\* What register(o, s) sends: the greeting goes to all clients of the order.
Greeting(o, s) == SendTo(Registered(o, s)[o], Message("connection", o))

Register(o, s) ==
    /\ connections' = Registered(o, s)
    /\ listeners' = [listeners EXCEPT ![s] = @ \union {o}]

\* closeAll: close every registered socket that is open, forget them all.
CloseAll ==
    /\ ready' = [s \in Sockets |->
          IF ready[s] = "open" /\ (\E o \in DOMAIN connections : s \in connections[o])
          THEN "closing" ELSE ready[s]]
    /\ connections' = NoClients

RegistryInit ==
    /\ ready = [s \in Sockets |-> "none"]
    /\ connections = NoClients
    /\ listeners = [s \in Sockets |-> {}]
    /\ sent = Silence

RegistryTypeOK ==
    /\ ready \in [Sockets -> ReadyStates]
    /\ DOMAIN connections \subseteq Orders
    /\ connections \in [DOMAIN connections -> (SUBSET Sockets) \ {{}}]
    /\ listeners \in [Sockets -> SUBSET Orders]
    /\ \A s \in Sockets : sent[s] \in Seq(Messages)

=============================================================================
