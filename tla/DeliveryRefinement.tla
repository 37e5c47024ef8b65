--------------------------- MODULE DeliveryRefinement ---------------------------
(***************************************************************************)
(* DeliveryPipeline seen as DeliveryContract: its messages as the set of   *)
(* targets that were sent one, its rows by their status alone.             *)
(***************************************************************************)
EXTENDS DeliveryPipeline

Contract == INSTANCE DeliveryContract
                WITH accepted <- {t \in Targets : sends[t] >= 1},
                     outcome <- [k \in Rows |-> rows[k].status]

\* The pipeline keeps the contract of the delivery report, through every
\* fault, redelivery and retry.
KeepsContract == Contract!ContractSpec

=============================================================================
