------------------------ MODULE MCOrderNotifications ------------------------
(***************************************************************************)
(* Instances of OrderNotifications: one order with its job and a client    *)
(* that uses either endpoint; and a statement of the documentation that    *)
(* does not hold.                                                          *)
(***************************************************************************)
EXTENDS OrderNotifications, TLC

CONSTANTS o1, j1

TheOne == j1 :> o1

\* README_PRODUCTION.md:663-664 documents the message of type failed as "Final Failure",
\* sent "When: All retries exhausted".  The worker's failed event is published with that
\* type too, after any run that throws, and says so of an order whose row is unfinished
\* and whose job waits for its next attempt.
FailureIsFinal ==
    \A s \in Sockets, o \in Orders : outcome[s][o] = "failure" => row[o].status = "failed"

=============================================================================
