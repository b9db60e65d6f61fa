--------------------------- MODULE OrderLifecycle ---------------------------
(***************************************************************************)
(* What an order engine promises about an order, without queue, worker or  *)
(* save: the order is routed, built and submitted; a swap is tried at most *)
(* MaxAttempts times, recorded before it is sent; it executes at most once *)
(* and, once it has executed, the order is confirmed and never fails.      *)
(* processOrder implements it as long as the database answers and the      *)
(* order has a single job (ImplementsLifecycle in OrderProcessor).         *)
(***************************************************************************)
EXTENDS Integers

CONSTANTS Orders, MaxAttempts

VARIABLES
    status,   \* status[o]: the order's recorded status
    tries,    \* tries[o]: recorded attempts
    executed  \* the orders whose swap the DEX has executed

vars == <<status, tries, executed>>

Init ==
    /\ status = [o \in Orders |-> "pending"]
    /\ tries = [o \in Orders |-> 0]
    /\ executed = {}

Advance(o, from, to) ==
    /\ status[o] = from
    /\ status' = [status EXCEPT ![o] = to]

Route(o) == Advance(o, "pending", "routing") /\ UNCHANGED <<tries, executed>>

Build(o) == Advance(o, "routing", "building") /\ UNCHANGED <<tries, executed>>

\* An attempt is counted before the swap is sent, and none after it executed.
Try(o) ==
    /\ status[o] \in {"building", "submitted"}
    /\ o \notin executed
    /\ tries[o] < MaxAttempts
    /\ tries' = [tries EXCEPT ![o] = @ + 1]
    /\ UNCHANGED <<status, executed>>

Submit(o) == tries[o] = 1 /\ Advance(o, "building", "submitted") /\ UNCHANGED <<tries, executed>>

Execute(o) ==
    /\ status[o] = "submitted" /\ o \notin executed
    /\ executed' = executed \union {o}
    /\ UNCHANGED <<status, tries>>

Confirm(o) == o \in executed /\ Advance(o, "submitted", "confirmed") /\ UNCHANGED <<tries, executed>>

\* An order fails when no quote is valid, or when every attempt failed.
Fail(o) ==
    /\ o \notin executed
    /\ \/ Advance(o, "routing", "failed")
       \/ tries[o] = MaxAttempts /\ Advance(o, "submitted", "failed")
    /\ UNCHANGED <<tries, executed>>

Step(o) ==
    Route(o) \/ Build(o) \/ Try(o) \/ Submit(o) \/ Execute(o) \/ Confirm(o) \/ Fail(o)

Next == \E o \in Orders : Step(o)

Spec == Init /\ [][Next]_vars /\ \A o \in Orders : WF_vars(Step(o))

=============================================================================
