---------------------------- MODULE DeliveryPipeline ----------------------------
(***************************************************************************)
(* One campaign from the dispatch call to the last receipt: TriggerDispatch*)
(* calls, the delivery workers of both programs, the telemetry consumer,   *)
(* RetryDeliveries calls and the operator's pause, resume and cancel, over *)
(* the shared ledger and the shared stream.                                *)
(***************************************************************************)
EXTENDS BroadcastWorker, TelemetryConsumer, CampaignDispatch, DeliveryRetry

VARIABLES
    slips,     \* provider calls of the gateway during the pause in force
    recalled   \* tasks in the stream, in no worker's hand, at the cancellation

historyVars == <<slips, recalled>>

vars == <<ledgerVars, streamVars, environmentVars, workerVars, telemetryVars,
          dispatchVars, retryVars, historyVars>>

Init ==
    /\ LedgerInit("scheduled")
    /\ StreamInit
    /\ EnvironmentInit
    /\ WorkerInit
    /\ TelemetryInit
    /\ DispatchInit
    /\ RetryInit
    /\ slips = 0
    /\ recalled = {}

TypeOK ==
    /\ LedgerTypeOK
    /\ StreamTypeOK
    /\ EnvironmentTypeOK
    /\ WorkerTypeOK
    /\ TelemetryTypeOK
    /\ DispatchTypeOK
    /\ RetryTypeOK
    /\ slips \in Nat
    /\ recalled \subseteq TargetDispatchTask

-----------------------------------------------------------------------------

\* A worker leaves the provider call; one that dies at it has made it, perhaps.
Called(w) == wpc[w] = "send" /\ wpc'[w] \in {"report", "idle"}

\* History: the provider calls of gateway workers since the pause in force
\* began; a cancellation recalls the tasks it finds in the stream.
History ==
    /\ slips' = IF status' # "paused" THEN 0
                ELSE IF \E w \in GatewayWorkers : Called(w) THEN slips + 1
                ELSE slips
    /\ recalled' = IF status # "cancelled" /\ status' = "cancelled"
                   THEN {m \in published : ~ InHand(m)}
                   ELSE recalled

Pause == "pause" \in Operations /\ PauseCampaign
Resume == "pause" \in Operations /\ ResumeCampaign
Cancel == "cancel" \in Operations /\ CancelCampaign
CancelScheduled == "unschedule" \in Operations /\ CancelScheduledCampaign

Operator ==
    /\ Pause \/ Resume \/ Cancel \/ CancelScheduled
    /\ UNCHANGED <<streamVars, environmentVars, workerVars, telemetryVars,
                   dispatchVars, retryVars>>
    /\ History

Contact ==
    /\ \/ \E t \in Targets : OptOut(t)
       \/ \E m \in published : ExpiresAtPasses(m)
    /\ UNCHANGED <<ledgerVars, streamVars, workerVars, telemetryVars,
                   dispatchVars, retryVars>>
    /\ History

Redelivery(m) ==
    /\ RedeliverOrphan(m) \/ RedeliverEarly(m)
    /\ UNCHANGED <<ledgerVars, receipts, optedOut, expired, workerVars,
                   telemetryVars, dispatchVars, retryVars>>
    /\ History

Worker(w) ==
    /\ WorkerStep(w)
    /\ UNCHANGED <<telemetryVars, dispatchVars, retryVars>>
    /\ History

WorkerCrash(w) ==
    /\ Crash(w)
    /\ UNCHANGED <<ledgerVars, optedOut, expired, telemetryVars, dispatchVars,
                   retryVars>>
    /\ History

Telemetry ==
    /\ TelemetryStep
    /\ UNCHANGED <<workerVars, dispatchVars, retryVars>>
    /\ History

\* The request arrives; Dispatch and Retry below are the calls' own progress.
DispatchRequest(d) ==
    /\ DispatchRead(d)
    /\ UNCHANGED <<optedOut, expired, workerVars, telemetryVars, retryVars>>
    /\ History

Dispatch(d) ==
    /\ DispatchStep(d)
    /\ UNCHANGED <<workerVars, telemetryVars, retryVars>>
    /\ History

RetryRequest(x) ==
    /\ RetryRead(x)
    /\ UNCHANGED <<optedOut, expired, workerVars, telemetryVars, dispatchVars>>
    /\ History

Retry(x) ==
    /\ RetryStep(x)
    /\ UNCHANGED <<workerVars, telemetryVars, dispatchVars>>
    /\ History

Next ==
    \/ Operator \/ Contact \/ Telemetry
    \/ \E m \in published : Redelivery(m)
    \/ \E w \in Workers : Worker(w) \/ WorkerCrash(w)
    \/ \E d \in Dispatches : DispatchRequest(d) \/ Dispatch(d)
    \/ \E x \in Retries : RetryRequest(x) \/ Retry(x)

Spec == Init /\ [][Next]_vars

\* Goroutines and JetStream keep running; calls by users and faults need not
\* come. A crashed worker restarts, and its task is redelivered.
Fairness ==
    /\ \A w \in Workers : WF_vars(Worker(w))
    /\ \A d \in Dispatches : WF_vars(Dispatch(d))
    /\ \A x \in Retries : WF_vars(Retry(x))
    /\ WF_vars(Telemetry)
    /\ \A m \in TargetDispatchTask : WF_vars(Redelivery(m))

FairSpec == Spec /\ Fairness

-----------------------------------------------------------------------------
\* Safety.

Pending(t) == \E r \in receipts : r.task.target = t
Reported(t) == rows[RowOf[t]].status # "absent"

\* A task executeDelivery acknowledges has its target's result in the ledger or
\* on its way there, unless a guard dropped it or it had expired: whatever else
\* fails, in any order, an outcome is not lost.
AckedIsAccounted ==
    \A m \in acked : \/ Reported(m.target) \/ Pending(m.target)
                     \/ m \in dropped \/ m \in expired

\* Without the exceptions, where lookups and the publication of an expiry
\* succeed and nothing is cancelled: a task dropped as one of a completed
\* campaign has been reported before.
AckedMeansRecorded ==
    \A m \in acked : Reported(m.target) \/ Pending(m.target)

\* The ledger never claims a delivery no provider accepted, whatever crashes,
\* is lost, repeated or overtaken.
DeliveredMeansSent ==
    \A k \in Rows : rows[k].status = "delivered"
                        => \E t \in Targets : RowOf[t] = k /\ sends[t] >= 1

\* "Paused tasks remain in the durable stream": whatever is in the stream, sent
\* back to it or published meanwhile, and whatever stand-alone workers do, the
\* gateway's workers make at most one provider call each during a pause, for the
\* task they had past the controls when it began, and one for each failed lookup.
PauseStopsSending == slips <= Cardinality(GatewayWorkers) + faults

\* "Cancelled tasks are acknowledged and discarded without external delivery":
\* none of the tasks a cancellation found in the stream is sent afterwards.
CancelledMeansDiscarded ==
    \A w \in Workers :
        wpc[w] # "idle" /\ Task(w) \in recalled
            => ~ (wpc[w] = "report" /\ wout[w] = "delivered")

\* "Without duplicating already-sent messages", as far as the code goes: no
\* target gets the campaign twice, unless something fails.
NoDuplicateSend == \A t \in Targets : sends[t] <= 1

\* "A campaign only completes once every target has reported and no retry is
\* still in flight", and stays so while it is completed.
CompletedIsSettled ==
    status = "completed" => /\ Queued(rows) = {}
                            /\ Cardinality(Present(rows)) >= total

\* One finished campaign, one campaign_completed notification.
NotifiedOnce == notified <= 1

\* The live tasks of retry calls for a row: published, not acknowledged, and
\* with no result out yet.
LiveRetries(k) ==
    {m \in published \ acked :
        /\ m.call \in Retries
        /\ RowOf[m.target] = k
        /\ \A r \in receipts : r.task # m
        /\ \A w \in Workers : wpc[w] = "settle" => Task(w) # m}

\* "Concurrent retries of the same row lose the race and receive nothing, so a
\* message can never be published twice."
RetriedOnce == \A k \in Rows : Cardinality(LiveRetries(k)) <= 1

\* A queued row is held by somebody who will move it on: a retry call that has
\* yet to publish or release it, a live task, or a result on its way.
Served(k) ==
    \/ \E x \in Retries : rpc[x] # "done" /\ k \in rtodo[x] \cup rfailed[x]
    \/ LiveRetries(k) # {}
    \/ \E r \in receipts : RowOf[r.task.target] = k

\* "Reopen the campaign before publishing: the worker drops tasks for campaigns
\* that are still marked completed": no retried row is left queued for ever.
QueuedIsServed == \A k \in Queued(rows) : Served(k)

\* The same, of campaigns whose retries were all asked for after completion.
RetryAfterCompletionIsServed ==
    (\A x \in Retries : rseen[x] # "processing") => QueuedIsServed

-----------------------------------------------------------------------------
\* Liveness, of FairSpec.

\* A published task is acknowledged in the end, unless the operator pauses.
StreamDrains ==
    \A m \in TargetDispatchTask :
        m \in published ~> m \in acked \/ status = "paused"

\* A row queued by retries of a completed campaign gets a result.
QueuedSettles ==
    \A k \in Rows :
        k \in Queued(rows)
            ~> \/ k \notin Queued(rows)
               \/ \E x \in Retries : rseen[x] = "processing"

\* "Write a campaign_completed notification once the campaign transitions to
\* done": a completed campaign gets one, whenever the consumer dies.
CompletionIsNotified == status = "completed" ~> notified > 0

\* A campaign marked `processing` while a target has yet to report completes.
MarkedInTimeCompletes ==
    (status = "processing" /\ Cardinality(Present(rows)) < total)
        ~> status \in {"completed", "paused"}

=============================================================================
