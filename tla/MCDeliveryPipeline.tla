--------------------------- MODULE MCDeliveryPipeline ---------------------------
(***************************************************************************)
(* The instances of DeliveryPipeline that TLC checks.                      *)
(***************************************************************************)
EXTENDS DeliveryRefinement

CONSTANTS t1, t2, g1, g2, s1

\* Every target has a delivery row of its own.
OwnRows == [t \in Targets |-> t]
OwnPlatforms == [t \in Targets |-> t]

\* All the targets share one address, hence one row.
SharedRow == [t \in Targets |-> CHOOSE k \in Rows : TRUE]

\* Where the task of a dispatch is delivered twice, and that of a retry as often
\* as MaxDelivered says.
MaxDispatched == 2 \* bound: deliveries of a task of a dispatch, in AllSpec
AllSpec == Init /\ [][Next /\ \A m \in published : m.call \in Dispatches => delivered'[m] <= MaxDispatched]_vars

=============================================================================
