----------------------------- MODULE DeliveryRetry -----------------------------
(***************************************************************************)
(* RetryDeliveries: an operator asks for failed deliveries to be sent      *)
(* again. The call reads the campaign, claims the rows, reopens a campaign *)
(* it has read as completed, publishes one task per claimed row, releases  *)
(* the rows it could not publish, and restores the campaign when it could  *)
(* publish none. Each of these is a statement of its own.                  *)
(***************************************************************************)
EXTENDS CampaignLedger, DispatchStream, Environment

VARIABLES
    rpc,         \* the step each call takes next
    rseen,       \* the campaign status each call has read
    rtodo,       \* claimed rows, still to be published
    rfailed,     \* claimed rows whose task could not be published
    reopened,    \* calls that moved the campaign back to processing
    republished  \* calls that published at least one task

retryVars == <<rpc, rseen, rtodo, rfailed, reopened, republished>>

RetrySteps == {"idle", "claim", "reopen", "publish", "release", "restore", "done"}

RetryTypeOK ==
    /\ rpc \in [Retries -> RetrySteps]
    /\ rseen \in [Retries -> CampaignStatuses]
    /\ rtodo \in [Retries -> SUBSET Rows]
    /\ rfailed \in [Retries -> SUBSET Rows]
    /\ reopened \subseteq Retries
    /\ republished \subseteq Retries

RetryInit ==
    /\ rpc = [x \in Retries |-> "idle"]
    /\ rseen = [x \in Retries |-> "draft"]
    /\ rtodo = [x \in Retries |-> {}]
    /\ rfailed = [x \in Retries |-> {}]
    /\ reopened = {}
    /\ republished = {}

RetryGoto(x, step) == rpc' = [rpc EXCEPT ![x] = step]

RetryRead(x) ==
    /\ rpc[x] = "idle"
    /\ status \in {"processing", "completed"}
    /\ rseen' = [rseen EXCEPT ![x] = status]
    /\ RetryGoto(x, "claim")
    /\ NoFault
    /\ UNCHANGED <<ledgerVars, streamVars, rtodo, rfailed, reopened, republished>>

\* Mistaken variant, for mutation: it publishes without reopening.
RetryClaimOnly(x) ==
    /\ rpc[x] = "claim"
    /\ \E ids \in SUBSET Rows :
          /\ ClaimDeliveriesForRetry(ids)
          /\ rtodo' = [rtodo EXCEPT ![x] = Claimable(ids)]
          /\ RetryGoto(x, IF Claimable(ids) = {} THEN "done" ELSE "publish")
    /\ NoFault
    /\ UNCHANGED <<streamVars, rseen, rfailed, reopened, republished>>

\* The ids of the request are any of the rows; an empty claim ends the call.
RetryClaim(x) ==
    /\ rpc[x] = "claim"
    /\ \E ids \in SUBSET Rows :
          /\ ClaimDeliveriesForRetry(ids)
          /\ rtodo' = [rtodo EXCEPT ![x] = Claimable(ids)]
          /\ RetryGoto(x, CASE Claimable(ids) = {} -> "done"
                            [] rseen[x] = "completed" -> "reopen"
                            [] OTHER -> "publish")
    /\ NoFault
    /\ UNCHANGED <<streamVars, rseen, rfailed, reopened, republished>>

RetryReopen(x) ==
    /\ rpc[x] = "reopen"
    /\ \/ /\ UpdateStatus("processing")
          /\ reopened' = reopened \cup {x}
          /\ NoFault
       \/ /\ Fault("reopen")
          /\ UNCHANGED <<ledgerVars, reopened>>
    /\ RetryGoto(x, "publish")
    /\ UNCHANGED <<streamVars, rseen, rtodo, rfailed, republished>>

RetryPublish(x) ==
    /\ rpc[x] = "publish"
    /\ \E k \in rtodo[x] :
          LET m == [call |-> x, target |-> rows[k].owner]
          IN  /\ rtodo' = [rtodo EXCEPT ![x] = @ \ {k}]
              /\ \/ /\ Publish(m)
                    /\ NoFault
                    /\ republished' = republished \cup {x}
                    /\ UNCHANGED rfailed
                 \/ /\ Fault("task_publish")
                    /\ Publish(m) \/ UNCHANGED taskVars
                    /\ rfailed' = [rfailed EXCEPT ![x] = @ \cup {k}]
                    /\ UNCHANGED republished
    /\ UNCHANGED <<ledgerVars, receipts, rpc, rseen, reopened>>

RetryPublished(x) ==
    /\ rpc[x] = "publish"
    /\ rtodo[x] = {}
    /\ RetryGoto(x, IF rfailed[x] # {} THEN "release" ELSE "done")
    /\ NoFault
    /\ UNCHANGED <<ledgerVars, streamVars, rseen, rtodo, rfailed, reopened, republished>>

\* An error of the release is logged, and the call goes on.
RetryRelease(x) ==
    /\ rpc[x] = "release"
    /\ \/ ReleaseDeliveryClaims(rfailed[x]) /\ NoFault
       \/ Fault("release") /\ UNCHANGED ledgerVars
    /\ RetryGoto(x, IF x \in reopened \ republished THEN "restore" ELSE "done")
    /\ UNCHANGED <<streamVars, rseen, rtodo, rfailed, reopened, republished>>

RetryRestore(x) ==
    /\ rpc[x] = "restore"
    /\ UpdateStatus("completed")
    /\ RetryGoto(x, "done")
    /\ NoFault
    /\ UNCHANGED <<streamVars, rseen, rtodo, rfailed, reopened, republished>>

\* A statement fails or the process dies; nothing cleans up after it.
RetryAbort(x) ==
    /\ rpc[x] \notin {"idle", "done"}
    /\ Fault("retry_abort")
    /\ RetryGoto(x, "done")
    /\ UNCHANGED <<ledgerVars, streamVars, rseen, rtodo, rfailed, reopened, republished>>

RetryStep(x) ==
    /\ \/ RetryClaim(x) \/ RetryReopen(x) \/ RetryPublish(x) \/ RetryPublished(x)
       \/ RetryRelease(x) \/ RetryRestore(x) \/ RetryAbort(x)
    /\ UNCHANGED <<optedOut, expired>>

=============================================================================
