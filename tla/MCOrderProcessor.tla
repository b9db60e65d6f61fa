-------------------------- MODULE MCOrderProcessor --------------------------
(***************************************************************************)
(* Instances of OrderProcessor, one job alone with and without database    *)
(* failures, and a statement of the documentation that the code does not   *)
(* keep.  (Two jobs of one order are in MCOrderEngine.)                    *)
(***************************************************************************)
EXTENDS OrderProcessor, TLC

CONSTANTS j1, o1

AllOnO1 == [j \in Jobs |-> o1]

\* README_PRODUCTION.md:260 draws confirmed as a final state; the code can move a
\* row from confirmed to failed (worker.ts:180, 187, 199-225: the save after the
\* one that stored confirmed rejects).
ConfirmedIsFinal ==
    [][\A o \in Orders : row[o] # NoRow /\ row[o].status = "confirmed"
          => row'[o].status = "confirmed"]_vars

=============================================================================
