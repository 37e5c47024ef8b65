------------------------------ MODULE Environment ------------------------------
(***************************************************************************)
(* What the services react to and do not control: contacts who withdraw    *)
(* their consent, dispatch windows that close, and faults (a lookup that   *)
(* errors, a publish whose acknowledgement is lost, a process that dies).  *)
(* A behaviour has at most MaxFaults faults, of the kinds in FaultKinds.   *)
(***************************************************************************)
EXTENDS Contracts

CONSTANTS
    Operations,   \* which user operations may happen in this behaviour
    FaultKinds,   \* which faults may happen
    MaxFaults     \* bound on their number

ASSUME EnvironmentAssumption == MaxFaults \in Nat

VARIABLES
    faults,       \* faults so far
    optedOut,     \* targets whose contact row has status 'opted_out'
    expired       \* tasks whose ExpiresAt has passed

environmentVars == <<faults, optedOut, expired>>

EnvironmentTypeOK ==
    /\ faults \in 0..MaxFaults
    /\ optedOut \subseteq Targets
    /\ expired \subseteq TargetDispatchTask

EnvironmentInit ==
    /\ faults = 0
    /\ optedOut = {}
    /\ expired = {}

NoFault == UNCHANGED faults

Fault(kind) ==
    /\ kind \in FaultKinds
    /\ faults < MaxFaults
    /\ faults' = faults + 1

\* A step that has gone wrong iff `failed`, and is charged to `kind` if so.
FaultIf(failed, kind) == IF failed THEN Fault(kind) ELSE NoFault

OptOut(t) ==
    /\ "opt_out" \in Operations
    /\ t \notin optedOut
    /\ optedOut' = optedOut \cup {t}
    /\ UNCHANGED <<faults, expired>>

ExpiresAtPasses(m) ==
    /\ "expiry" \in Operations
    /\ m \notin expired
    /\ expired' = expired \cup {m}
    /\ UNCHANGED <<faults, optedOut>>

=============================================================================
