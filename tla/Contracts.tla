------------------------------- MODULE Contracts -------------------------------
(***************************************************************************)
(* The messages of shared/contracts that the services exchange over NATS:  *)
(* a dispatch task (subject campaign.dispatched) and a delivery result     *)
(* (subject dispatch.result). A message is known by the call that published*)
(* it and the target it is for: one TriggerDispatch or RetryDeliveries call*)
(* publishes at most one task per target.                                  *)
(***************************************************************************)
EXTENDS Naturals

CONSTANTS
    Targets,       \* contacts and Telegram destinations a campaign can address
    Dispatches,    \* the TriggerDispatch calls of a behaviour
    Retries,       \* the RetryDeliveries calls of a behaviour
    MaxDelivered   \* bound: NumDelivered of a task stops counting here

ASSUME ContractsAssumption ==
    /\ Dispatches \cap Retries = {}
    /\ MaxDelivered \in Nat \ {0}

TargetDispatchTask == [call : Dispatches \cup Retries, target : Targets]

(***************************************************************************)
(* What a result says of its target. "failed" is a failed result with      *)
(* retryable = TRUE; "refused" is a failed result with retryable = FALSE   *)
(* (opted out, expired, invalid number, unsupported platform, other 4xx).  *)
(***************************************************************************)
Outcomes == {"delivered", "failed", "refused"}

TargetDeliveryResult ==
    [task : TargetDispatchTask, n : 1..MaxDelivered, outcome : Outcomes]

=============================================================================
