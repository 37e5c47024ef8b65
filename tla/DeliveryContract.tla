---------------------------- MODULE DeliveryContract ----------------------------
(***************************************************************************)
(* What the delivery report of a campaign promises its reader, whatever    *)
(* happens on the way: a row appears with an outcome and never disappears; *)
(* it says "delivered" only of a target a provider accepted a message for; *)
(* only a retryable failure is put back in the queue, so neither a delivery*)
(* nor a refusal is ever retried; and a row leaves the queue by a result,  *)
(* or back to the failure it was.                                          *)
(***************************************************************************)
EXTENDS Contracts

CONSTANTS Rows, RowOf

VARIABLES
    accepted,   \* targets a provider has accepted a message for
    outcome     \* what each row of the report says, "absent" without a row

contractVars == <<accepted, outcome>>

ContractInit == accepted = {} /\ outcome = [k \in Rows |-> "absent"]

Accept(t) ==
    /\ accepted' = accepted \cup {t}
    /\ UNCHANGED outcome

Reports(t, o) ==
    /\ o = "delivered" => t \in accepted
    /\ outcome' = [outcome EXCEPT ![RowOf[t]] = o]
    /\ UNCHANGED accepted

Moved(from, to) ==
    /\ \E K \in SUBSET {k \in Rows : outcome[k] = from} :
          outcome' = [k \in Rows |-> IF k \in K THEN to ELSE outcome[k]]
    /\ UNCHANGED accepted

Claim == Moved("failed", "queued")
Release == Moved("queued", "failed")

ContractNext ==
    \/ \E t \in Targets : Accept(t)
    \/ \E t \in Targets, o \in Outcomes : Reports(t, o)
    \/ Claim
    \/ Release

ContractSpec == ContractInit /\ [][ContractNext]_contractVars

=============================================================================
