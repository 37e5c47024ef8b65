---------------------------- MODULE MCPipelineSafety ----------------------------
(***************************************************************************)
(* Three instances of DeliveryPipeline checked together: one campaign with *)
(* a fault, one without faults but with both worker programs and every     *)
(* operation, and one whose failed deliveries are retried twice over.      *)
(***************************************************************************)
EXTENDS DeliveryPipeline, TLC

CONSTANTS
    t1, t2, g1, s1, x1, x2,
    FirstCopies, RetryCopies   \* copies of a dispatch's, of a retry's task

VARIABLE scenario

OwnRows == [t \in Targets |-> t]
OwnPlatforms == [t \in Targets |-> t]

Symmetric == Permutations({t1, t2}) \cup Permutations({x1, x2})

\* A fault of one kind; the gateway's worker alone; pauses, and no retries.
Faulty ==
    /\ UNCHANGED <<retryVars, optedOut>>
    /\ wpc'[s1] = "idle"
    /\ status' # status => status' \notin {"cancelled", "draft"}

\* No fault and no retries.
Faultless == UNCHANGED <<retryVars, faults>>

\* Retries, and neither faults nor operations, with a bound of their own on the
\* copies a task has.
Retried ==
    /\ \A m \in published :
          delivered'[m] <= IF m.call \in Retries THEN RetryCopies ELSE FirstCopies
    /\ UNCHANGED <<faults, optedOut>>
    /\ wpc'[s1] = "idle"
    /\ status' # status => status' \notin {"cancelled", "draft", "paused"}

SafetyInit == Init /\ scenario \in {"faulty", "faultless", "retried"}

SafetyNext ==
    /\ Next
    /\ \/ scenario = "faulty" /\ Faulty
       \/ scenario = "faultless" /\ Faultless
       \/ scenario = "retried" /\ Retried
    /\ scenario' = scenario

SafetySpec == SafetyInit /\ [][SafetyNext]_<<vars, scenario>>

-----------------------------------------------------------------------------
\* Without faults no target gets the campaign twice and one completion is
\* notified once, whatever the operator does and whichever program takes a task.
FaultlessIsOnce == scenario = "faultless" => NoDuplicateSend /\ NotifiedOnce

\* With a fault, every acknowledged task has left its outcome in the ledger or
\* on its way there, and a campaign completes only when every target has
\* reported.
FaultyIsSettled == scenario = "faulty" => AckedMeansRecorded /\ CompletedIsSettled

\* Of two overlapping retries one claims a row, and rows claimed for a completed
\* campaign are served.
RetriedIsServedOnce == scenario = "retried" => RetriedOnce /\ RetryAfterCompletionIsServed
=============================================================================
