---------------------------- MODULE CampaignDispatch ----------------------------
(***************************************************************************)
(* TriggerDispatch: what the dispatch endpoint and, every 15 seconds for a *)
(* due campaign, the scheduler call. Nothing serialises two calls. A call  *)
(* reads the campaign, publishes one task per reachable target, and only   *)
(* then marks the campaign `processing`. It counts a target whether or not *)
(* its task could be published.                                            *)
(***************************************************************************)
EXTENDS CampaignLedger, DispatchStream, Environment

VARIABLES
    dpc,       \* the step each call takes next
    dtodo,     \* targets each call has still to publish
    dcount     \* publishedTargets of each call

dispatchVars == <<dpc, dtodo, dcount>>

DispatchTypeOK ==
    /\ dpc \in [Dispatches -> {"idle", "publish", "done"}]
    /\ dtodo \in [Dispatches -> SUBSET Targets]
    /\ dcount \in [Dispatches -> Nat]

DispatchInit ==
    /\ dpc = [d \in Dispatches |-> "idle"]
    /\ dtodo = [d \in Dispatches |-> {}]
    /\ dcount = [d \in Dispatches |-> 0]

NotDispatchable == {"processing", "completed", "paused", "cancelled", "rejected"}

\* The audience is read together with the campaign: a contact who opts out
\* later is the workers' to refuse.
DispatchRead(d) ==
    /\ dpc[d] = "idle"
    /\ status \notin NotDispatchable
    /\ dtodo' = [dtodo EXCEPT ![d] = Targets \ optedOut]
    /\ dpc' = [dpc EXCEPT ![d] = IF Targets \ optedOut = {} THEN "done"
                                                            ELSE "publish"]
    /\ NoFault
    /\ UNCHANGED <<ledgerVars, streamVars, dcount>>

\* A publish that errors is logged and counted; JetStream may have stored the
\* task all the same.
DispatchPublish(d) ==
    /\ dpc[d] = "publish"
    /\ \E t \in dtodo[d] :
          /\ \/ Publish([call |-> d, target |-> t]) /\ NoFault
             \/ Publish([call |-> d, target |-> t]) /\ Fault("task_publish")
             \/ UNCHANGED taskVars /\ Fault("task_publish")
          /\ dtodo' = [dtodo EXCEPT ![d] = @ \ {t}]
    /\ dcount' = [dcount EXCEPT ![d] = @ + 1]
    /\ UNCHANGED <<ledgerVars, receipts, dpc>>

DispatchMark(d) ==
    /\ dpc[d] = "publish"
    /\ dtodo[d] = {}
    /\ SetDispatching(dcount[d])
    /\ dpc' = [dpc EXCEPT ![d] = "done"]
    /\ NoFault
    /\ UNCHANGED <<streamVars, dtodo, dcount>>

\* A later page of contacts cannot be read, the mark fails, or the process dies.
DispatchAbort(d) ==
    /\ dpc[d] = "publish"
    /\ Fault("dispatch_abort")
    /\ dpc' = [dpc EXCEPT ![d] = "done"]
    /\ UNCHANGED <<ledgerVars, streamVars, dtodo, dcount>>

DispatchStep(d) ==
    /\ DispatchPublish(d) \/ DispatchMark(d) \/ DispatchAbort(d)
    /\ UNCHANGED <<optedOut, expired>>

=============================================================================
