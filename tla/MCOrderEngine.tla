--------------------------- MODULE MCOrderEngine ---------------------------
(***************************************************************************)
(* Instances of OrderEngine: one order with one job, or with two because   *)
(* its enqueue may be resent; and a statement of the documentation that    *)
(* the engine does not keep.                                               *)
(***************************************************************************)
EXTENDS OrderEngine, TLC

CONSTANT o1

AllOnO1 == [j \in Jobs |-> o1]

\* README_PRODUCTION.md:120: "Dual persistence ensures no orders lost mid-execution".
\* A job whose worker dies, or that a closing worker is handed (even if added after SIGTERM),
\* stays in the active list, where nobody looks for it, even if all workers are up
\* again and stay up.
NoOrdersLost ==
    <>[](\A w \in Workers : life[w] = "up") =>
    \A o \in Orders : request[o] = "201" ~> row[o] # P!NoRow /\ row[o].status \in Verdicts

=============================================================================
