---------------------------- MODULE BroadcastWorker ----------------------------
(***************************************************************************)
(* executeDelivery, the handler of campaign.dispatched. Two programs run it*)
(* in one queue group: the API gateway's own consumer and the stand-alone  *)
(* broadcast-worker. They differ in two guards: only the gateway looks at  *)
(* `paused` and `cancelled`, and only the gateway blocks a send when the   *)
(* consent lookup errors.                                                  *)
(*                                                                         *)
(* A subscription calls its handler for one message at a time, so a worker *)
(* is one process. Each database read, the provider call, the publication  *)
(* of the result and the acknowledgement are separate steps.               *)
(***************************************************************************)
EXTENDS CampaignLedger, DispatchStream, Environment

CONSTANTS
    GatewayWorkers, StandaloneWorkers,
    PlatformOf,     \* the platform of each target
    NoCopy          \* "no task in hand"

Workers == GatewayWorkers \cup StandaloneWorkers
MaxAttempts == 3    \* maxRetries

ASSUME WorkerAssumption ==
    /\ IsFiniteSet(GatewayWorkers)
    /\ GatewayWorkers \cap StandaloneWorkers = {}
    /\ NoCopy \notin Copies
    /\ MaxAttempts <= MaxDelivered

VARIABLES
    wpc,       \* the step each worker takes next
    wjob,      \* the copy each worker is executing
    wout,      \* what the result it has built will say
    sends,     \* messages providers accepted, per target
    dropped    \* tasks a guard acknowledged without any result

workerVars == <<wpc, wjob, wout, sends, dropped>>

WorkerSteps ==
    {"idle", "consent", "held", "ended", "dedup", "send", "report", "settle"}

WorkerTypeOK ==
    /\ wpc \in [Workers -> WorkerSteps]
    /\ wjob \in [Workers -> Copies \cup {NoCopy}]
    /\ wout \in [Workers -> Outcomes]
    /\ sends \in [Targets -> Nat]
    /\ dropped \subseteq TargetDispatchTask
    /\ \A w \in Workers : wpc[w] # "idle" => wjob[w] \in Copies

WorkerInit ==
    /\ wpc = [w \in Workers |-> "idle"]
    /\ wjob = [w \in Workers |-> NoCopy]
    /\ wout = [w \in Workers |-> "refused"]
    /\ sends = [t \in Targets |-> 0]
    /\ dropped = {}

-----------------------------------------------------------------------------

Task(w) == wjob[w].task

Goto(w, step) ==
    /\ wpc' = [wpc EXCEPT ![w] = step]
    /\ UNCHANGED wjob

\* The handler returns.
Return(w) ==
    /\ wpc' = [wpc EXCEPT ![w] = "idle"]
    /\ wjob' = [wjob EXCEPT ![w] = NoCopy]

\* The handler has built a result; publishing it comes next.
Conclude(w, outcome) ==
    /\ wout' = [wout EXCEPT ![w] = outcome]
    /\ Goto(w, "report")

\* A guard acknowledges the task and says nothing to the ledger.
Drop(w) ==
    /\ Ack(Task(w))
    /\ dropped' = dropped \cup {Task(w)}
    /\ Return(w)
    /\ UNCHANGED <<receipts, wout, sends>>

Proceed(w, step) ==
    /\ Goto(w, step)
    /\ UNCHANGED <<streamVars, wout, sends, dropped>>

Take(w, c) ==
    /\ wpc[w] = "idle"
    /\ c \in copies
    /\ TakeCopy(c)
    /\ wpc' = [wpc EXCEPT ![w] = "consent"]
    /\ wjob' = [wjob EXCEPT ![w] = c]
    /\ NoFault
    /\ UNCHANGED <<receipts, wout, sends, dropped>>

\* Guard 0. A lookup that errors blocks the send in the gateway and lets it
\* through in the stand-alone worker.
CheckConsent(w) ==
    /\ wpc[w] = "consent"
    /\ \E failed \in BOOLEAN :
          /\ FaultIf(failed, "consent_lookup")
          /\ LET blocked == IF failed THEN w \in GatewayWorkers
                                      ELSE Task(w).target \in optedOut
             IN  \/ /\ blocked
                    /\ Conclude(w, "refused")
                    /\ UNCHANGED <<streamVars, sends, dropped>>
                 \/ /\ ~ blocked
                    /\ Proceed(w, IF w \in GatewayWorkers THEN "held" ELSE "ended")

\* Mistaken variant, for mutation: no recovery controls.
CheckHeldNever(w) ==
    /\ wpc[w] = "held"
    /\ Proceed(w, "ended")
    /\ NoFault

\* The recovery controls, in the gateway only: a paused task is negatively
\* acknowledged, a cancelled one dropped; an erring lookup is passed over.
CheckHeld(w) ==
    /\ wpc[w] = "held"
    /\ \/ /\ status = "paused"
          /\ Nak(Task(w))
          /\ Return(w)
          /\ NoFault
          /\ UNCHANGED <<receipts, wout, sends, dropped>>
       \/ /\ status = "cancelled"
          /\ Drop(w)
          /\ NoFault
       \/ /\ status \notin {"paused", "cancelled"}
          /\ Proceed(w, "ended")
          /\ NoFault
       \/ /\ Fault("status_lookup")
          /\ Proceed(w, "ended")

\* Guard 1. An erring lookup reads as "campaign not found".
CheckEnded(w) ==
    /\ wpc[w] = "ended"
    /\ \E failed \in BOOLEAN :
          /\ FaultIf(failed, "campaign_lookup")
          /\ IF failed \/ status = "completed" THEN Drop(w)
                                               ELSE Proceed(w, "dedup")

\* The query asks for routing value and platform, which the upsert keeps from
\* the row's first target. It does not ask for the target type: a contact's
\* Telegram address is a private chat and a destination's a group or a channel,
\* so on one platform a routing value belongs to one row.
DeliveredTo(t) ==
    /\ rows[RowOf[t]].status = "delivered"
    /\ PlatformOf[rows[RowOf[t]].owner] = PlatformOf[t]

\* Guard 2. An erring lookup reads as "not delivered".
CheckDelivered(w) ==
    /\ wpc[w] = "dedup"
    /\ \E failed \in BOOLEAN :
          /\ FaultIf(failed, "dedup_lookup")
          /\ \/ /\ ~ failed /\ DeliveredTo(Task(w).target)
                /\ Ack(Task(w))
                /\ Return(w)
                /\ UNCHANGED <<receipts, wout, sends, dropped>>
             \/ /\ failed \/ ~ DeliveredTo(Task(w).target)
                /\ Proceed(w, "send")

\* Guard 3. The error of this publication is ignored, unlike the others.
Expire(w) ==
    /\ wpc[w] = "send"
    /\ Task(w) \in expired
    /\ wout' = [wout EXCEPT ![w] = "refused"]
    /\ \/ /\ PublishResult([task |-> Task(w), n |-> wjob[w].n, outcome |-> "refused"])
          /\ NoFault
       \/ /\ Fault("expiry_publish")
          /\ UNCHANGED receipts
    /\ Goto(w, "settle")
    /\ UNCHANGED <<taskVars, sends, dropped>>

\* The provider took `k` messages from this worker.
Accepted(w, k) == sends' = [sends EXCEPT ![Task(w).target] = @ + k]

\* The provider call. `lost` = 1 when a message got through and its answer did
\* not; the gateway then tries its fallback adapter, which may get through too.
\* A failure that is final may still be one a user can retry: a transient one
\* once too often, or at any attempt one classifyDeliveryError knows by its text.
Send(w) ==
    /\ wpc[w] = "send"
    /\ Task(w) \notin expired
    /\ \E lost \in 0..1 :
          /\ FaultIf(lost = 1, "reply_lost")
          /\ \/ /\ lost = 1 => w \in GatewayWorkers
                /\ Accepted(w, lost + 1)
                /\ Conclude(w, "delivered")
                /\ UNCHANGED streamVars
             \/ /\ Accepted(w, lost)             \* permanent failure
                /\ Conclude(w, "refused")
                /\ UNCHANGED streamVars
             \/ /\ Accepted(w, lost)             \* final, and retryable
                /\ Conclude(w, "failed")
                /\ UNCHANGED streamVars
             \/ /\ wjob[w].n < MaxAttempts       \* transient, to be tried again
                /\ Accepted(w, lost)
                /\ Nak(Task(w))
                /\ Return(w)
                /\ UNCHANGED <<receipts, wout>>
    /\ UNCHANGED dropped

\* Mistaken variant, for mutation: the error of the publication is ignored.
ReportIgnoringErrors(w) ==
    /\ wpc[w] = "report"
    /\ \/ /\ PublishResult([task |-> Task(w), n |-> wjob[w].n, outcome |-> wout[w]])
          /\ NoFault
       \/ Fault("result_publish") /\ UNCHANGED receipts
    /\ Goto(w, "settle")
    /\ UNCHANGED <<taskVars, wout, sends, dropped>>

Report(w) ==
    /\ wpc[w] = "report"
    /\ \/ /\ PublishResult([task |-> Task(w), n |-> wjob[w].n, outcome |-> wout[w]])
          /\ Goto(w, "settle")
          /\ NoFault
          /\ UNCHANGED taskVars
       \/ /\ Fault("result_publish")
          /\ Nak(Task(w))
          /\ Return(w)
          /\ UNCHANGED receipts
    /\ UNCHANGED <<wout, sends, dropped>>

\* Mistaken variant, for mutation: the handler forgets to acknowledge.
SettleUnacked(w) ==
    /\ wpc[w] = "settle"
    /\ Return(w)
    /\ NoFault
    /\ UNCHANGED <<streamVars, wout, sends, dropped>>

Settle(w) ==
    /\ wpc[w] = "settle"
    /\ Ack(Task(w))
    /\ Return(w)
    /\ NoFault
    /\ UNCHANGED <<receipts, wout, sends, dropped>>

\* The process dies; what it had in hand stays unacknowledged.
Crash(w) ==
    /\ wpc[w] # "idle"
    /\ Fault("worker_crash")
    /\ Return(w)
    /\ UNCHANGED <<streamVars, wout, sends, dropped>>

WorkerStep(w) ==
    /\ \/ \E c \in copies : Take(w, c)
       \/ CheckConsent(w) \/ CheckHeld(w) \/ CheckEnded(w) \/ CheckDelivered(w)
       \/ Expire(w) \/ Send(w) \/ Report(w) \/ Settle(w)
    /\ UNCHANGED <<ledgerVars, optedOut, expired>>

-----------------------------------------------------------------------------
\* What JetStream does of itself with an unacknowledged task.

Waiting(m) == \E c \in copies : c.task = m
InHand(m) == \E w \in Workers : wpc[w] # "idle" /\ Task(w) = m

\* Nobody has the task any more: AckWait runs out, sooner or later.
RedeliverOrphan(m) ==
    /\ ~ Waiting(m) /\ ~ InHand(m)
    /\ AckWaitExpires(m)
    /\ NoFault

\* AckWait (30 s) runs out on a task in a buffer or under execution (35 s).
RedeliverEarly(m) ==
    /\ Waiting(m) \/ InHand(m)
    /\ AckWaitExpires(m)
    /\ Fault("ack_wait")

=============================================================================
