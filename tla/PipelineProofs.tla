------------------------------ MODULE PipelineProofs ------------------------------
(***************************************************************************)
(* Types and safety of DeliveryPipeline, for every number of targets,      *)
(* workers, calls and faults: TypeOK is an inductive invariant, a pause    *)
(* stops the gateway's workers, no acknowledged task loses its             *)
(* outcome, the ledger claims no delivery that was not sent, and every     *)
(* step is one that DeliveryContract allows, or a stutter of it. The type  *)
(* lemmas follow the modules: what one SQL statement does to the type of   *)
(* the ledger, one JetStream operation to that of the stream, and one step *)
(* of each component to that of the whole.                                 *)
(***************************************************************************)
EXTENDS DeliveryRefinement, FiniteSetTheorems, TLAPS

\* Every ledger operator keeps the type of the ledger.
LEMMA LedgerTypes ==
    ASSUME LedgerTypeOK
    PROVE  /\ \A n \in Nat : SetDispatching(n) => LedgerTypeOK'
           /\ \A s \in CampaignStatuses : UpdateStatus(s) => LedgerTypeOK'
           /\ \A t \in Targets, o \in Outcomes :
                 RecordDeliveryResult(t, o) => LedgerTypeOK'
           /\ \A ids \in SUBSET Rows : ClaimDeliveriesForRetry(ids) => LedgerTypeOK'
           /\ \A ids \in SUBSET Rows : ReleaseDeliveryClaims(ids) => LedgerTypeOK'
           /\ UNCHANGED ledgerVars => LedgerTypeOK'
<1>1. \A n \in Nat : SetDispatching(n) => LedgerTypeOK'
  BY DEF LedgerTypeOK, SetDispatching, CampaignStatuses
<1>2. \A s \in CampaignStatuses : UpdateStatus(s) => LedgerTypeOK'
  BY DEF LedgerTypeOK, UpdateStatus
<1>3. ASSUME NEW t \in Targets, NEW o \in Outcomes, RecordDeliveryResult(t, o)
      PROVE  LedgerTypeOK'
  <2>1. rows' \in [Rows -> [status : RowStatuses, owner : Targets \cup {NoTarget}]]
    BY <1>3, LedgerAssumption DEF LedgerTypeOK, RecordDeliveryResult, Upserted, RowStatuses
  <2>2. processed' \in Nat
    <3>1. processed' = Cardinality(Present(rows'))
      BY <1>3 DEF RecordDeliveryResult
    <3>2. IsFiniteSet(Present(rows'))
      BY LedgerAssumption, FS_Subset DEF Present
    <3> QED  BY <3>1, <3>2, FS_CardinalityType
  <2>3. status' \in CampaignStatuses /\ total' \in Nat
    BY <1>3 DEF LedgerTypeOK, RecordDeliveryResult, CampaignStatuses
  <2> QED  BY <2>1, <2>2, <2>3 DEF LedgerTypeOK
<1>4. \A ids \in SUBSET Rows : ClaimDeliveriesForRetry(ids) => LedgerTypeOK'
  BY DEF LedgerTypeOK, ClaimDeliveriesForRetry, Claimable, RowStatuses
<1>5. \A ids \in SUBSET Rows : ReleaseDeliveryClaims(ids) => LedgerTypeOK'
  BY DEF LedgerTypeOK, ReleaseDeliveryClaims, RowStatuses, Outcomes
<1>6. UNCHANGED ledgerVars => LedgerTypeOK'
  BY DEF LedgerTypeOK, ledgerVars
<1> QED  BY <1>1, <1>2, <1>3, <1>4, <1>5, <1>6

\* Every JetStream operation keeps the type of the task stream.
LEMMA StreamTypes ==
    ASSUME TaskTypeOK
    PROVE  /\ \A m \in TargetDispatchTask : Publish(m) => TaskTypeOK'
           /\ \A m \in TargetDispatchTask : AckWaitExpires(m) => TaskTypeOK'
           /\ \A m \in TargetDispatchTask : Nak(m) => TaskTypeOK'
           /\ \A m \in TargetDispatchTask : Ack(m) => TaskTypeOK'
           /\ \A c \in copies : TakeCopy(c) => TaskTypeOK'
           /\ UNCHANGED taskVars => TaskTypeOK'
<1>1. \A m \in TargetDispatchTask : NextDelivery(m) \in 1..MaxDelivered
  BY ContractsAssumption DEF TaskTypeOK, NextDelivery
<1>2. ASSUME NEW m \in TargetDispatchTask, Push(m)
      PROVE  /\ copies' \subseteq Copies
             /\ delivered' \in [TargetDispatchTask -> 0..MaxDelivered]
  BY <1>1, <1>2 DEF TaskTypeOK, Push, Copies
<1>3. UNCHANGED taskVars => TaskTypeOK'
  BY DEF TaskTypeOK, taskVars
<1>4. \A m \in TargetDispatchTask : Publish(m) => TaskTypeOK'
  BY <1>2 DEF TaskTypeOK, Publish
<1>5. \A m \in TargetDispatchTask : AckWaitExpires(m) => TaskTypeOK'
  BY <1>2 DEF TaskTypeOK, AckWaitExpires
<1>6. \A m \in TargetDispatchTask : Nak(m) => TaskTypeOK'
  BY <1>2, <1>3 DEF TaskTypeOK, Nak
<1>7. \A m \in TargetDispatchTask : Ack(m) => TaskTypeOK'
  BY DEF TaskTypeOK, Ack
<1>8. \A c \in copies : TakeCopy(c) => TaskTypeOK'
  BY DEF TaskTypeOK, TakeCopy
<1> QED  BY <1>3, <1>4, <1>5, <1>6, <1>7, <1>8

LEMMA FaultTypes ==
    ASSUME faults \in 0..MaxFaults, NEW kind, NEW failed \in BOOLEAN
    PROVE  /\ NoFault => faults' \in 0..MaxFaults
           /\ Fault(kind) => faults' \in 0..MaxFaults
           /\ FaultIf(failed, kind) => faults' \in 0..MaxFaults
<1>1. MaxFaults \in Nat
  BY EnvironmentAssumption
<1>2. NoFault => faults' \in 0..MaxFaults
  BY DEF NoFault
<1>3. Fault(kind) => faults' \in 0..MaxFaults
  BY <1>1 DEF Fault
<1> QED  BY <1>2, <1>3 DEF FaultIf

-----------------------------------------------------------------------------

\* The step and the job of each worker.
JobTypeOK ==
    /\ wpc \in [Workers -> WorkerSteps]
    /\ wjob \in [Workers -> Copies \cup {NoCopy}]
    /\ \A w \in Workers : wpc[w] # "idle" => wjob[w] \in Copies

LEMMA JobTypes ==
    ASSUME JobTypeOK, NEW w \in Workers
    PROVE  /\ wpc[w] # "idle" => Task(w) \in TargetDispatchTask /\ wjob[w].n \in 1..MaxDelivered
           /\ Return(w) => JobTypeOK'
           /\ \A step \in WorkerSteps :
                 wpc[w] # "idle" /\ Goto(w, step) => JobTypeOK'
<1>1. wpc[w] # "idle" => Task(w) \in TargetDispatchTask /\ wjob[w].n \in 1..MaxDelivered
  BY DEF JobTypeOK, Task, Copies
<1>2. Return(w) => JobTypeOK'
  BY DEF JobTypeOK, Return, WorkerSteps
<1>3. \A step \in WorkerSteps : wpc[w] # "idle" /\ Goto(w, step) => JobTypeOK'
  BY DEF JobTypeOK, Goto
<1> QED  BY <1>1, <1>2, <1>3

\* What the workers read and write, of their own and of the stream.
DeliveryTypeOK ==
    StreamTypeOK /\ WorkerTypeOK /\ faults \in 0..MaxFaults

LEMMA WorkerTypes ==
    ASSUME DeliveryTypeOK, NEW w \in Workers, WorkerStep(w)
    PROVE  DeliveryTypeOK'
<1> USE DEF DeliveryTypeOK, StreamTypeOK
<1>0. JobTypeOK
  BY DEF WorkerTypeOK, JobTypeOK
<1>1. JobTypeOK' /\ (wout \in [Workers -> Outcomes])' /\ (sends \in [Targets -> Nat])'
        /\ (dropped \subseteq TargetDispatchTask)' => WorkerTypeOK'
  BY DEF WorkerTypeOK, JobTypeOK
<1>2. wout \in [Workers -> Outcomes] /\ sends \in [Targets -> Nat]
        /\ dropped \subseteq TargetDispatchTask
  BY DEF WorkerTypeOK
<1> DEFINE Rest == /\ (wout \in [Workers -> Outcomes])'
                   /\ (sends \in [Targets -> Nat])'
                   /\ (dropped \subseteq TargetDispatchTask)'
                   /\ (receipts \subseteq TargetDeliveryResult)'
<1>3. ASSUME NEW step \in WorkerSteps, wpc[w] # "idle", Proceed(w, step)
      PROVE  JobTypeOK' /\ TaskTypeOK' /\ Rest
  <2>1. UNCHANGED <<taskVars, receipts, wout, sends, dropped>> /\ Goto(w, step)
    BY <1>3 DEF Proceed, streamVars
  <2> QED  BY <2>1, <1>0, <1>2, <1>3, JobTypes, StreamTypes
<1>4. ASSUME wpc[w] # "idle", Drop(w)
      PROVE  JobTypeOK' /\ TaskTypeOK' /\ Rest
  <2>1. Task(w) \in TargetDispatchTask
    BY <1>0, <1>4, JobTypes
  <2>2. Ack(Task(w)) /\ Return(w) /\ dropped' = dropped \cup {Task(w)}
          /\ UNCHANGED <<receipts, wout, sends>>
    BY <1>4 DEF Drop
  <2>3. JobTypeOK'
    BY <1>0, <2>2, JobTypes
  <2>4. TaskTypeOK'
    BY <2>1, <2>2, StreamTypes
  <2> QED  BY <2>1, <2>2, <2>3, <2>4, <1>2
<1>5. CASE \E c \in copies : Take(w, c)
  <2>1. PICK c \in copies : Take(w, c)
    BY <1>5
  <2>2. c \in Copies
    BY DEF TaskTypeOK
  <2>3. JobTypeOK'
    BY <1>0, <2>1, <2>2 DEF Take, JobTypeOK, WorkerSteps
  <2>4. TaskTypeOK'
    BY <2>1, StreamTypes DEF Take
  <2>5. faults' \in 0..MaxFaults
    BY <2>1, FaultTypes DEF Take
  <2> QED  BY <1>1, <1>2, <2>1, <2>3, <2>4, <2>5 DEF Take
<1>6. CASE CheckConsent(w)
  <2>1. PICK failed \in BOOLEAN :
          /\ FaultIf(failed, "consent_lookup")
          /\ \/ /\ Conclude(w, "refused")
                /\ UNCHANGED <<streamVars, sends, dropped>>
             \/ Proceed(w, "held")
             \/ Proceed(w, "ended")
    BY <1>6 DEF CheckConsent
  <2>2. wpc[w] # "idle"
    BY <1>6 DEF CheckConsent
  <2>3. faults' \in 0..MaxFaults
    BY <2>1, FaultTypes
  <2>4. CASE Conclude(w, "refused") /\ UNCHANGED <<streamVars, sends, dropped>>
    <3>1. Goto(w, "report") /\ wout' = [wout EXCEPT ![w] = "refused"]
            /\ UNCHANGED <<taskVars, receipts>>
      BY <2>4 DEF Conclude, streamVars
    <3>2. JobTypeOK'
      BY <1>0, <2>2, <3>1, JobTypes DEF WorkerSteps
    <3>3. wout' \in [Workers -> Outcomes]
      BY <1>2, <3>1 DEF Outcomes
    <3>4. TaskTypeOK'
      BY <3>1, StreamTypes
    <3> QED  BY <1>1, <1>2, <2>3, <2>4, <3>1, <3>2, <3>3, <3>4
  <2>5. CASE Proceed(w, "held") \/ Proceed(w, "ended")
    BY <1>1, <1>3, <2>2, <2>3, <2>5 DEF WorkerSteps
  <2> QED  BY <2>1, <2>4, <2>5
<1>7. CASE CheckHeld(w)
  <2>1. wpc[w] # "idle" /\ Task(w) \in TargetDispatchTask
    BY <1>0, <1>7, JobTypes DEF CheckHeld
  <2>2. CASE Nak(Task(w)) /\ Return(w) /\ NoFault
               /\ UNCHANGED <<receipts, wout, sends, dropped>>
    <3>1. JobTypeOK' /\ TaskTypeOK' /\ faults' \in 0..MaxFaults
      BY <1>0, <2>1, <2>2, JobTypes, StreamTypes, FaultTypes
    <3> QED  BY <1>1, <1>2, <2>2, <3>1
  <2>3. CASE Drop(w) /\ NoFault
    BY <1>1, <1>4, <2>1, <2>3, FaultTypes
  <2>4. CASE Proceed(w, "ended") /\ (NoFault \/ Fault("status_lookup"))
    BY <1>1, <1>3, <2>1, <2>4, FaultTypes DEF WorkerSteps
  <2> QED  BY <1>7, <2>2, <2>3, <2>4 DEF CheckHeld
<1>8. CASE CheckEnded(w)
  <2>1. wpc[w] # "idle"
    BY <1>8 DEF CheckEnded
  <2>2. faults' \in 0..MaxFaults
    BY <1>8, FaultTypes DEF CheckEnded
  <2>3. Drop(w) \/ Proceed(w, "dedup")
    BY <1>8 DEF CheckEnded
  <2> QED  BY <1>1, <1>3, <1>4, <2>1, <2>2, <2>3 DEF WorkerSteps
<1>9. CASE CheckDelivered(w)
  <2>1. wpc[w] # "idle" /\ Task(w) \in TargetDispatchTask
    BY <1>0, <1>9, JobTypes DEF CheckDelivered
  <2>2. faults' \in 0..MaxFaults
    BY <1>9, FaultTypes DEF CheckDelivered
  <2>3. CASE Ack(Task(w)) /\ Return(w) /\ UNCHANGED <<receipts, wout, sends, dropped>>
    <3>1. JobTypeOK' /\ TaskTypeOK'
      BY <1>0, <2>1, <2>3, JobTypes, StreamTypes
    <3> QED  BY <1>1, <1>2, <2>2, <2>3, <3>1
  <2>4. CASE Proceed(w, "send")
    BY <1>1, <1>3, <2>1, <2>2, <2>4 DEF WorkerSteps
  <2> QED  BY <1>9, <2>3, <2>4 DEF CheckDelivered
<1>10. CASE Expire(w)
  <2>1. wpc[w] # "idle" /\ Task(w) \in TargetDispatchTask /\ wjob[w].n \in 1..MaxDelivered
    BY <1>0, <1>10, JobTypes DEF Expire
  <2>2. JobTypeOK'
    BY <1>0, <1>10, <2>1, JobTypes DEF Expire, WorkerSteps
  <2>3. TaskTypeOK'
    BY <1>10, StreamTypes DEF Expire
  <2>4. receipts' \subseteq TargetDeliveryResult
    BY <1>10, <2>1 DEF Expire, PublishResult, TargetDeliveryResult, Outcomes
  <2>5. faults' \in 0..MaxFaults
    BY <1>10, FaultTypes DEF Expire
  <2>6. wout' \in [Workers -> Outcomes]
    BY <1>2, <1>10 DEF Expire, Outcomes
  <2> QED  BY <1>1, <1>2, <1>10, <2>2, <2>3, <2>4, <2>5, <2>6 DEF Expire
<1>11. CASE Send(w)
  <2>1. wpc[w] # "idle" /\ Task(w) \in TargetDispatchTask
    BY <1>0, <1>11, JobTypes DEF Send
  <2>2. PICK lost \in 0..1 :
          /\ FaultIf(lost = 1, "reply_lost")
          /\ Accepted(w, lost) \/ Accepted(w, lost + 1)
          /\ \/ \E o \in Outcomes : Conclude(w, o) /\ UNCHANGED streamVars
             \/ Nak(Task(w)) /\ Return(w) /\ UNCHANGED <<receipts, wout>>
    BY <1>11 DEF Send, Outcomes
  <2>3. faults' \in 0..MaxFaults
    BY <2>2, FaultTypes
  <2>4. sends' \in [Targets -> Nat]
    BY <1>2, <2>1, <2>2 DEF Accepted, TargetDispatchTask
  <2>5. dropped' = dropped
    BY <1>11 DEF Send
  <2>6. CASE \E o \in Outcomes : Conclude(w, o) /\ UNCHANGED streamVars
    <3>1. PICK o \in Outcomes : Conclude(w, o) /\ UNCHANGED <<taskVars, receipts>>
      BY <2>6 DEF streamVars
    <3>2. JobTypeOK' /\ TaskTypeOK'
      BY <1>0, <2>1, <3>1, JobTypes, StreamTypes DEF Conclude, WorkerSteps
    <3>3. wout' \in [Workers -> Outcomes]
      BY <1>2, <3>1 DEF Conclude
    <3> QED  BY <1>1, <1>2, <2>3, <2>4, <2>5, <3>1, <3>2, <3>3
  <2>7. CASE Nak(Task(w)) /\ Return(w) /\ UNCHANGED <<receipts, wout>>
    <3>1. JobTypeOK' /\ TaskTypeOK'
      BY <1>0, <2>1, <2>7, JobTypes, StreamTypes
    <3> QED  BY <1>1, <1>2, <2>3, <2>4, <2>5, <2>7, <3>1
  <2> QED  BY <2>2, <2>6, <2>7
<1>12. CASE Report(w)
  <2>1. wpc[w] # "idle" /\ Task(w) \in TargetDispatchTask /\ wjob[w].n \in 1..MaxDelivered
    BY <1>0, <1>12, JobTypes DEF Report
  <2>2. faults' \in 0..MaxFaults
    BY <1>12, FaultTypes DEF Report
  <2>3. JobTypeOK' /\ TaskTypeOK'
    BY <1>0, <1>12, <2>1, JobTypes, StreamTypes DEF Report, WorkerSteps
  <2>4. receipts' \subseteq TargetDeliveryResult
    <3>1. wout[w] \in Outcomes
      BY <1>2
    <3> QED  BY <1>12, <2>1, <3>1 DEF Report, PublishResult, TargetDeliveryResult
  <2> QED  BY <1>1, <1>2, <1>12, <2>2, <2>3, <2>4 DEF Report
<1>13. CASE Settle(w)
  <2>1. wpc[w] # "idle" /\ Task(w) \in TargetDispatchTask
    BY <1>0, <1>13, JobTypes DEF Settle
  <2>2. JobTypeOK' /\ TaskTypeOK' /\ faults' \in 0..MaxFaults
    BY <1>0, <1>13, <2>1, JobTypes, StreamTypes, FaultTypes DEF Settle
  <2> QED  BY <1>1, <1>2, <1>13, <2>2 DEF Settle
<1> QED  BY <1>5, <1>6, <1>7, <1>8, <1>9, <1>10, <1>11, <1>12, <1>13 DEF WorkerStep

LEMMA CrashTypes ==
    ASSUME DeliveryTypeOK, NEW w \in Workers, Crash(w)
    PROVE  DeliveryTypeOK'
<1>1. JobTypeOK
  BY DEF DeliveryTypeOK, WorkerTypeOK, JobTypeOK
<1>2. JobTypeOK'
  BY <1>1, JobTypes DEF Crash
<1>3. TaskTypeOK'
  BY StreamTypes DEF DeliveryTypeOK, StreamTypeOK, Crash, streamVars
<1>4. faults' \in 0..MaxFaults
  BY FaultTypes DEF DeliveryTypeOK, Crash
<1> QED
  BY <1>2, <1>3, <1>4
  DEF DeliveryTypeOK, StreamTypeOK, WorkerTypeOK, JobTypeOK, Crash, streamVars

LEMMA RedeliveryTypes ==
    ASSUME TaskTypeOK, faults \in 0..MaxFaults, NEW m \in TargetDispatchTask,
           RedeliverOrphan(m) \/ RedeliverEarly(m)
    PROVE  TaskTypeOK' /\ faults' \in 0..MaxFaults
BY StreamTypes, FaultTypes DEF RedeliverOrphan, RedeliverEarly

LEMMA TelemetryTypes ==
    ASSUME LedgerTypeOK, StreamTypeOK, TelemetryTypeOK, faults \in 0..MaxFaults,
           TelemetryStep
    PROVE  LedgerTypeOK' /\ StreamTypeOK' /\ TelemetryTypeOK' /\ faults' \in 0..MaxFaults
<1>1. CASE \E r \in receipts : RecordReceipt(r)
  <2>1. PICK r \in receipts : RecordReceipt(r)
    BY <1>1
  <2>2. r \in TargetDeliveryResult /\ r.task.target \in Targets /\ r.outcome \in Outcomes
    BY DEF StreamTypeOK, TargetDeliveryResult, TargetDispatchTask
  <2>3. LedgerTypeOK'
    BY <2>1, <2>2, LedgerTypes DEF RecordReceipt
  <2>4. TaskTypeOK'
    BY <2>1, StreamTypes DEF RecordReceipt, StreamTypeOK, streamVars
  <2> QED
    BY <2>1, <2>2, <2>3, <2>4
    DEF RecordReceipt, StreamTypeOK, streamVars, TelemetryTypeOK
<1>2. CASE FinishReceipt
  <2>1. LedgerTypeOK' /\ TaskTypeOK'
    BY <1>2, LedgerTypes, StreamTypes DEF FinishReceipt, StreamTypeOK
  <2>2. receipts' \subseteq TargetDeliveryResult
    BY <1>2 DEF FinishReceipt, AckResult, StreamTypeOK
  <2>3. TelemetryTypeOK'
    BY <1>2 DEF FinishReceipt, Notify, TelemetryTypeOK
  <2>4. faults' \in 0..MaxFaults
    BY <1>2, FaultTypes DEF FinishReceipt
  <2> QED  BY <2>1, <2>2, <2>3, <2>4 DEF StreamTypeOK
<1> QED  BY <1>1, <1>2 DEF TelemetryStep

LEMMA DispatchTypes ==
    ASSUME LedgerTypeOK, StreamTypeOK, DispatchTypeOK, faults \in 0..MaxFaults,
           NEW d \in Dispatches, DispatchRead(d) \/ DispatchStep(d)
    PROVE  LedgerTypeOK' /\ StreamTypeOK' /\ DispatchTypeOK' /\ faults' \in 0..MaxFaults
<1>1. CASE DispatchRead(d)
  <2>1. LedgerTypeOK' /\ StreamTypeOK' /\ faults' \in 0..MaxFaults
    BY <1>1, LedgerTypes, StreamTypes, FaultTypes DEF DispatchRead, StreamTypeOK, streamVars
  <2>2. DispatchTypeOK'
    BY <1>1 DEF DispatchRead, DispatchTypeOK
  <2> QED  BY <2>1, <2>2
<1>2. CASE DispatchPublish(d)
  <2>1. PICK t \in dtodo[d] :
          /\ \/ Publish([call |-> d, target |-> t])
             \/ UNCHANGED taskVars
          /\ NoFault \/ Fault("task_publish")
          /\ dtodo' = [dtodo EXCEPT ![d] = @ \ {t}]
    BY <1>2 DEF DispatchPublish
  <2>2. [call |-> d, target |-> t] \in TargetDispatchTask
    BY DEF DispatchTypeOK, TargetDispatchTask
  <2>3. LedgerTypeOK' /\ TaskTypeOK' /\ faults' \in 0..MaxFaults
    BY <1>2, <2>1, <2>2, LedgerTypes, StreamTypes, FaultTypes
    DEF DispatchPublish, StreamTypeOK
  <2>4. DispatchTypeOK'
    BY <1>2, <2>1 DEF DispatchPublish, DispatchTypeOK
  <2> QED  BY <1>2, <2>3, <2>4 DEF DispatchPublish, StreamTypeOK
<1>3. CASE DispatchMark(d)
  <2>1. dcount[d] \in Nat
    BY DEF DispatchTypeOK
  <2>2. LedgerTypeOK' /\ StreamTypeOK' /\ faults' \in 0..MaxFaults
    BY <1>3, <2>1, LedgerTypes, StreamTypes, FaultTypes
    DEF DispatchMark, StreamTypeOK, streamVars
  <2>3. DispatchTypeOK'
    BY <1>3 DEF DispatchMark, DispatchTypeOK
  <2> QED  BY <2>2, <2>3
<1>4. CASE DispatchAbort(d)
  <2>1. LedgerTypeOK' /\ StreamTypeOK' /\ faults' \in 0..MaxFaults
    BY <1>4, LedgerTypes, StreamTypes, FaultTypes DEF DispatchAbort, StreamTypeOK, streamVars
  <2>2. DispatchTypeOK'
    BY <1>4 DEF DispatchAbort, DispatchTypeOK
  <2> QED  BY <2>1, <2>2
<1> QED  BY <1>1, <1>2, <1>3, <1>4 DEF DispatchStep

-----------------------------------------------------------------------------

\* A retry publishes a task for the owner of each row it has claimed. That this
\* is a target takes two more facts, which make TypeOK inductive: a row that
\* exists has a target for its owner, and a claimed row exists.
OwnersKnown == \A k \in Rows : rows[k].status # "absent" => rows[k].owner \in Targets

ClaimsExist ==
    \A x \in Retries : \A k \in rtodo[x] \cup rfailed[x] : rows[k].status # "absent"

\* No row is ever removed.
RowsStay ==
    \A k \in Rows : rows[k].status # "absent" => rows'[k].status # "absent"

LEMMA LedgerOwners ==
    ASSUME LedgerTypeOK, OwnersKnown
    PROVE  /\ \A n : SetDispatching(n) => OwnersKnown' /\ RowsStay
           /\ \A s : UpdateStatus(s) => OwnersKnown' /\ RowsStay
           /\ \A t \in Targets, o \in Outcomes :
                 RecordDeliveryResult(t, o) => OwnersKnown' /\ RowsStay
           /\ \A ids : ClaimDeliveriesForRetry(ids) => OwnersKnown' /\ RowsStay
           /\ \A ids : ReleaseDeliveryClaims(ids) => OwnersKnown' /\ RowsStay
           /\ UNCHANGED ledgerVars => OwnersKnown' /\ RowsStay
<1>1. \A n : SetDispatching(n) => OwnersKnown' /\ RowsStay
  BY DEF SetDispatching, OwnersKnown, RowsStay
<1>2. \A s : UpdateStatus(s) => OwnersKnown' /\ RowsStay
  BY DEF UpdateStatus, OwnersKnown, RowsStay
<1>3. \A t \in Targets, o \in Outcomes :
         RecordDeliveryResult(t, o) => OwnersKnown' /\ RowsStay
  BY LedgerAssumption
  DEF RecordDeliveryResult, Upserted, OwnersKnown, RowsStay, LedgerTypeOK, Outcomes
<1>4. \A ids : ClaimDeliveriesForRetry(ids) => OwnersKnown' /\ RowsStay
  BY DEF ClaimDeliveriesForRetry, Claimable, OwnersKnown, RowsStay, LedgerTypeOK
<1>5. \A ids : ReleaseDeliveryClaims(ids) => OwnersKnown' /\ RowsStay
  BY DEF ReleaseDeliveryClaims, OwnersKnown, RowsStay, LedgerTypeOK
<1>6. UNCHANGED ledgerVars => OwnersKnown' /\ RowsStay
  BY DEF ledgerVars, OwnersKnown, RowsStay
<1> QED  BY <1>1, <1>2, <1>3, <1>4, <1>5, <1>6

LEMMA ClaimsStay ==
    ASSUME RetryTypeOK, ClaimsExist, RowsStay, UNCHANGED <<rtodo, rfailed>>
    PROVE  ClaimsExist'
BY DEF RetryTypeOK, ClaimsExist, RowsStay

\* What RetryDeliveries reads and writes.
RetryingTypeOK ==
    /\ LedgerTypeOK /\ StreamTypeOK /\ RetryTypeOK /\ faults \in 0..MaxFaults
    /\ OwnersKnown /\ ClaimsExist

LEMMA RetryTypes ==
    ASSUME RetryingTypeOK, NEW x \in Retries, RetryRead(x) \/ RetryStep(x)
    PROVE  RetryingTypeOK'
<1> USE DEF RetryingTypeOK
<1>1. CASE RetryRead(x)
  <2>1. LedgerTypeOK' /\ StreamTypeOK' /\ faults' \in 0..MaxFaults /\ OwnersKnown' /\ RowsStay
    BY <1>1, LedgerTypes, LedgerOwners, StreamTypes, FaultTypes
    DEF RetryRead, StreamTypeOK, streamVars
  <2>2. RetryTypeOK'
    BY <1>1 DEF RetryRead, RetryGoto, RetryTypeOK, RetrySteps, LedgerTypeOK
  <2>3. ClaimsExist'
    BY <1>1, <2>1, ClaimsStay DEF RetryRead
  <2> QED  BY <2>1, <2>2, <2>3
<1>2. CASE RetryClaim(x)
  <2>1. PICK ids \in SUBSET Rows :
          /\ ClaimDeliveriesForRetry(ids)
          /\ rtodo' = [rtodo EXCEPT ![x] = Claimable(ids)]
          /\ \E step \in RetrySteps : RetryGoto(x, step)
    BY <1>2 DEF RetryClaim, RetrySteps
  <2>2. LedgerTypeOK' /\ StreamTypeOK' /\ faults' \in 0..MaxFaults /\ OwnersKnown' /\ RowsStay
    BY <1>2, <2>1, LedgerTypes, LedgerOwners, StreamTypes, FaultTypes
    DEF RetryClaim, StreamTypeOK, streamVars
  <2>3. RetryTypeOK'
    BY <1>2, <2>1 DEF RetryClaim, RetryGoto, RetryTypeOK, Claimable
  <2>4. ClaimsExist'
    <3>1. \A k \in Claimable(ids) : k \in Rows /\ rows[k].status # "absent"
      BY DEF Claimable
    <3> QED
      BY <1>2, <2>1, <2>2, <3>1 DEF RetryClaim, RetryTypeOK, ClaimsExist, RowsStay
  <2> QED  BY <2>2, <2>3, <2>4
<1>3. CASE RetryReopen(x)
  <2>1. LedgerTypeOK' /\ StreamTypeOK' /\ faults' \in 0..MaxFaults /\ OwnersKnown' /\ RowsStay
    <3>1. CASE UpdateStatus("processing") /\ NoFault
      BY <1>3, <3>1, LedgerTypes, LedgerOwners, StreamTypes, FaultTypes
      DEF RetryReopen, StreamTypeOK, streamVars, CampaignStatuses
    <3>2. CASE UNCHANGED ledgerVars /\ Fault("reopen")
      BY <1>3, <3>2, LedgerTypes, LedgerOwners, StreamTypes, FaultTypes
      DEF RetryReopen, StreamTypeOK, streamVars
    <3> QED  BY <1>3, <3>1, <3>2 DEF RetryReopen
  <2>2. RetryTypeOK'
    BY <1>3 DEF RetryReopen, RetryGoto, RetryTypeOK, RetrySteps
  <2>3. ClaimsExist'
    BY <1>3, <2>1, ClaimsStay DEF RetryReopen
  <2> QED  BY <2>1, <2>2, <2>3
<1>4. CASE RetryPublish(x)
  <2>1. PICK k \in rtodo[x] :
          /\ rtodo' = [rtodo EXCEPT ![x] = @ \ {k}]
          /\ Publish([call |-> x, target |-> rows[k].owner]) \/ UNCHANGED taskVars
          /\ NoFault \/ Fault("task_publish")
          /\ rfailed' = rfailed \/ rfailed' = [rfailed EXCEPT ![x] = @ \cup {k}]
          /\ republished' = republished \/ republished' = republished \cup {x}
    BY <1>4 DEF RetryPublish
  <2>2. k \in Rows /\ rows[k].owner \in Targets
    BY DEF RetryTypeOK, ClaimsExist, OwnersKnown
  <2>3. [call |-> x, target |-> rows[k].owner] \in TargetDispatchTask
    BY <2>2 DEF TargetDispatchTask
  <2>4. LedgerTypeOK' /\ StreamTypeOK' /\ faults' \in 0..MaxFaults /\ OwnersKnown' /\ RowsStay
    BY <1>4, <2>1, <2>3, LedgerTypes, LedgerOwners, StreamTypes, FaultTypes
    DEF RetryPublish, StreamTypeOK
  <2>5. RetryTypeOK'
    BY <1>4, <2>1, <2>2 DEF RetryPublish, RetryTypeOK
  <2>6. rows' = rows
    BY <1>4 DEF RetryPublish, ledgerVars
  <2>7. ClaimsExist'
    BY <2>1, <2>6 DEF ClaimsExist, RetryTypeOK
  <2> QED  BY <2>4, <2>5, <2>7
<1>5. CASE RetryPublished(x)
  <2>1. LedgerTypeOK' /\ StreamTypeOK' /\ faults' \in 0..MaxFaults /\ OwnersKnown' /\ RowsStay
    BY <1>5, LedgerTypes, LedgerOwners, StreamTypes, FaultTypes
    DEF RetryPublished, StreamTypeOK, streamVars
  <2>2. RetryTypeOK' /\ ClaimsExist'
    BY <1>5, <2>1, ClaimsStay DEF RetryPublished, RetryGoto, RetryTypeOK, RetrySteps
  <2> QED  BY <2>1, <2>2
<1>6. CASE RetryRelease(x)
  <2>1. rfailed[x] \in SUBSET Rows
    BY DEF RetryTypeOK
  <2>2. LedgerTypeOK' /\ StreamTypeOK' /\ faults' \in 0..MaxFaults /\ OwnersKnown' /\ RowsStay
    BY <1>6, <2>1, LedgerTypes, LedgerOwners, StreamTypes, FaultTypes
    DEF RetryRelease, StreamTypeOK, streamVars
  <2>3. RetryTypeOK' /\ ClaimsExist'
    BY <1>6, <2>2, ClaimsStay DEF RetryRelease, RetryGoto, RetryTypeOK, RetrySteps
  <2> QED  BY <2>2, <2>3
<1>7. CASE RetryRestore(x)
  <2>1. LedgerTypeOK' /\ StreamTypeOK' /\ faults' \in 0..MaxFaults /\ OwnersKnown' /\ RowsStay
    BY <1>7, LedgerTypes, LedgerOwners, StreamTypes, FaultTypes
    DEF RetryRestore, StreamTypeOK, streamVars, CampaignStatuses
  <2>2. RetryTypeOK' /\ ClaimsExist'
    BY <1>7, <2>1, ClaimsStay DEF RetryRestore, RetryGoto, RetryTypeOK, RetrySteps
  <2> QED  BY <2>1, <2>2
<1>8. CASE RetryAbort(x)
  <2>1. LedgerTypeOK' /\ StreamTypeOK' /\ faults' \in 0..MaxFaults /\ OwnersKnown' /\ RowsStay
    BY <1>8, LedgerTypes, LedgerOwners, StreamTypes, FaultTypes
    DEF RetryAbort, StreamTypeOK, streamVars
  <2>2. RetryTypeOK' /\ ClaimsExist'
    BY <1>8, <2>1, ClaimsStay DEF RetryAbort, RetryGoto, RetryTypeOK, RetrySteps
  <2> QED  BY <2>1, <2>2
<1> QED  BY <1>1, <1>2, <1>3, <1>4, <1>5, <1>6, <1>7, <1>8 DEF RetryStep

-----------------------------------------------------------------------------

TypeInv == TypeOK /\ OwnersKnown /\ ClaimsExist

LEMMA TypeInit == Init => TypeInv
<1> SUFFICES ASSUME Init PROVE TypeInv
  OBVIOUS
<1> USE DEF Init
<1>1. LedgerTypeOK /\ OwnersKnown
  BY DEF LedgerInit, LedgerTypeOK, OwnersKnown, NoRow, CampaignStatuses, RowStatuses
<1>2. StreamTypeOK
  BY ContractsAssumption DEF StreamInit, StreamTypeOK, TaskTypeOK
<1>3. EnvironmentTypeOK
  BY EnvironmentAssumption DEF EnvironmentInit, EnvironmentTypeOK
<1>4. WorkerTypeOK
  BY DEF WorkerInit, WorkerTypeOK, WorkerSteps, Outcomes
<1>5. TelemetryTypeOK /\ DispatchTypeOK
  BY DEF TelemetryInit, TelemetryTypeOK, DispatchInit, DispatchTypeOK
<1>6. RetryTypeOK /\ ClaimsExist
  BY DEF RetryInit, RetryTypeOK, RetrySteps, CampaignStatuses, ClaimsExist
<1> QED  BY <1>1, <1>2, <1>3, <1>4, <1>5, <1>6 DEF TypeOK, TypeInv

LEMMA HistoryTypes ==
    ASSUME History, slips \in Nat, recalled \subseteq TargetDispatchTask, TaskTypeOK
    PROVE  (slips \in Nat)' /\ (recalled \subseteq TargetDispatchTask)'
BY DEF History, TaskTypeOK

\* What each component owns, and what a step of the others leaves alone.
LEMMA TypeUnchanged ==
    ASSUME TypeInv
    PROVE  /\ UNCHANGED ledgerVars => LedgerTypeOK' /\ OwnersKnown' /\ RowsStay
           /\ UNCHANGED streamVars => StreamTypeOK'
           /\ UNCHANGED environmentVars => EnvironmentTypeOK'
           /\ UNCHANGED workerVars => WorkerTypeOK'
           /\ UNCHANGED telemetryVars => TelemetryTypeOK'
           /\ UNCHANGED dispatchVars => DispatchTypeOK'
           /\ UNCHANGED retryVars => RetryTypeOK' /\ (RowsStay => ClaimsExist')
           /\ UNCHANGED <<optedOut, expired>> /\ faults' \in 0..MaxFaults
                 => EnvironmentTypeOK'
<1> USE DEF TypeInv, TypeOK
<1>1. UNCHANGED ledgerVars => LedgerTypeOK' /\ OwnersKnown' /\ RowsStay
  BY LedgerTypes, LedgerOwners
<1>2. UNCHANGED streamVars => StreamTypeOK'
  BY StreamTypes DEF StreamTypeOK, streamVars
<1>3. UNCHANGED environmentVars => EnvironmentTypeOK'
  BY DEF EnvironmentTypeOK, environmentVars
<1>4. UNCHANGED workerVars => WorkerTypeOK'
  BY DEF WorkerTypeOK, workerVars
<1>5. UNCHANGED telemetryVars => TelemetryTypeOK'
  BY DEF TelemetryTypeOK, telemetryVars
<1>6. UNCHANGED dispatchVars => DispatchTypeOK'
  BY DEF DispatchTypeOK, dispatchVars
<1>7. UNCHANGED retryVars => RetryTypeOK' /\ (RowsStay => ClaimsExist')
  BY ClaimsStay DEF RetryTypeOK, retryVars
<1>8. UNCHANGED <<optedOut, expired>> /\ faults' \in 0..MaxFaults
         => EnvironmentTypeOK'
  BY DEF EnvironmentTypeOK
<1> QED  BY <1>1, <1>2, <1>3, <1>4, <1>5, <1>6, <1>7, <1>8

LEMMA TypeStep == TypeInv /\ [Next]_vars => TypeInv'
<1> SUFFICES ASSUME TypeInv, [Next]_vars PROVE TypeInv'
  OBVIOUS
<1> USE DEF TypeInv, TypeOK
<1>1. recalled \subseteq TargetDispatchTask /\ TaskTypeOK /\ faults \in 0..MaxFaults
  BY DEF StreamTypeOK, EnvironmentTypeOK
<1>2. CASE Operator
  <2>1. UpdateStatus("paused") \/ UpdateStatus("processing")
          \/ UpdateStatus("cancelled") \/ UpdateStatus("draft")
    BY <1>2 DEF Operator, Pause, Resume, Cancel, CancelScheduled, PauseCampaign,
                ResumeCampaign, CancelCampaign, CancelScheduledCampaign
  <2>2. LedgerTypeOK' /\ OwnersKnown' /\ RowsStay
    BY <2>1, LedgerTypes, LedgerOwners DEF CampaignStatuses
  <2> QED  BY <1>1, <1>2, <2>2, TypeUnchanged, HistoryTypes DEF Operator
<1>3. CASE Contact
  <2>1. EnvironmentTypeOK'
    BY <1>1, <1>3 DEF Contact, OptOut, ExpiresAtPasses, EnvironmentTypeOK, TaskTypeOK
  <2> QED  BY <1>1, <1>3, <2>1, TypeUnchanged, HistoryTypes DEF Contact
<1>4. CASE Telemetry
  <2>1. LedgerTypeOK' /\ StreamTypeOK' /\ TelemetryTypeOK' /\ faults' \in 0..MaxFaults
    BY <1>1, <1>4, TelemetryTypes DEF Telemetry
  <2>2. OwnersKnown' /\ RowsStay
    <3>1. CASE \E r \in receipts : RecordReceipt(r)
      BY <3>1, LedgerOwners
      DEF RecordReceipt, StreamTypeOK, TargetDeliveryResult, TargetDispatchTask
    <3>2. CASE FinishReceipt
      BY <3>2, TypeUnchanged DEF FinishReceipt
    <3> QED  BY <1>4, <3>1, <3>2 DEF Telemetry, TelemetryStep
  <2> QED  BY <1>1, <1>4, <2>1, <2>2, TypeUnchanged, HistoryTypes
           DEF Telemetry, TelemetryStep
<1>5. ASSUME NEW m \in published, Redelivery(m)
      PROVE  TypeInv'
  <2>1. TaskTypeOK' /\ faults' \in 0..MaxFaults
    BY <1>1, <1>5, RedeliveryTypes DEF Redelivery, TaskTypeOK
  <2>2. StreamTypeOK'
    BY <1>5, <2>1 DEF Redelivery, StreamTypeOK
  <2> QED  BY <1>1, <1>5, <2>1, <2>2, TypeUnchanged, HistoryTypes DEF Redelivery
<1>6. ASSUME NEW w \in Workers, Worker(w) \/ WorkerCrash(w)
      PROVE  TypeInv'
  <2>1. DeliveryTypeOK'
    BY <1>1, <1>6, WorkerTypes, CrashTypes DEF Worker, WorkerCrash, DeliveryTypeOK
  <2>2. UNCHANGED <<ledgerVars, optedOut, expired, telemetryVars, dispatchVars, retryVars>>
          /\ History
    BY <1>6 DEF Worker, WorkerCrash, WorkerStep
  <2> QED  BY <1>1, <2>1, <2>2, TypeUnchanged, HistoryTypes DEF DeliveryTypeOK
<1>7. ASSUME NEW d \in Dispatches, DispatchRequest(d) \/ Dispatch(d)
      PROVE  TypeInv'
  <2>1. LedgerTypeOK' /\ StreamTypeOK' /\ DispatchTypeOK' /\ faults' \in 0..MaxFaults
    BY <1>1, <1>7, DispatchTypes DEF DispatchRequest, Dispatch
  <2>2. OwnersKnown' /\ RowsStay
    <3>1. UNCHANGED ledgerVars \/ SetDispatching(dcount[d])
      BY <1>7 DEF DispatchRequest, Dispatch, DispatchRead, DispatchStep,
                  DispatchPublish, DispatchMark, DispatchAbort
    <3> QED  BY <3>1, LedgerOwners
  <2>3. UNCHANGED <<optedOut, expired, workerVars, telemetryVars, retryVars>> /\ History
    BY <1>7 DEF DispatchRequest, Dispatch, DispatchStep
  <2> QED  BY <1>1, <2>1, <2>2, <2>3, TypeUnchanged, HistoryTypes
<1>8. ASSUME NEW x \in Retries, RetryRequest(x) \/ Retry(x)
      PROVE  TypeInv'
  <2>1. RetryingTypeOK'
    BY <1>1, <1>8, RetryTypes DEF RetryRequest, Retry, RetryingTypeOK
  <2>2. UNCHANGED <<optedOut, expired, workerVars, telemetryVars, dispatchVars>> /\ History
    BY <1>8 DEF RetryRequest, Retry, RetryStep
  <2> QED  BY <1>1, <2>1, <2>2, TypeUnchanged, HistoryTypes DEF RetryingTypeOK
<1>9. CASE UNCHANGED vars
  BY <1>9, TypeUnchanged DEF vars, historyVars
<1> QED  BY <1>2, <1>3, <1>4, <1>5, <1>6, <1>7, <1>8, <1>9 DEF Next

\* Every variable of the pipeline keeps its type, for any number of targets,
\* calls, workers and faults.
THEOREM TypeCorrect == Spec => []TypeOK
<1>1. Spec => []TypeInv
  BY TypeInit, TypeStep, PTL DEF Spec
<1>2. TypeInv => TypeOK
  BY DEF TypeInv
<1> QED  BY <1>1, <1>2, PTL

-----------------------------------------------------------------------------
\* Only a worker's own turn moves its program counter, its job and its result.

OtherSteps ==
    \/ Operator \/ Contact \/ Telemetry
    \/ \E m \in published : Redelivery(m)
    \/ \E d \in Dispatches : DispatchRequest(d) \/ Dispatch(d)
    \/ \E x \in Retries : RetryRequest(x) \/ Retry(x)
    \/ UNCHANGED vars

LEMMA OthersLeaveWorkers == OtherSteps => UNCHANGED workerVars
BY DEF OtherSteps, Operator, Contact, Telemetry, Redelivery, DispatchRequest,
       Dispatch, RetryRequest, Retry, vars

LEMMA StepKinds ==
    [Next]_vars => OtherSteps \/ \E w \in Workers : Worker(w) \/ WorkerCrash(w)
BY DEF Next, OtherSteps

-----------------------------------------------------------------------------
\* A pause stops the gateway's workers, each after the call it is at.

FaultsGrow == faults' = faults \/ faults' = faults + 1

LEMMA FaultsOnlyGrow == [Next]_vars => FaultsGrow
<1>1. \A kind : Fault(kind) \/ NoFault => FaultsGrow
  BY DEF Fault, NoFault, FaultsGrow
<1>2. \A kind : \A failed : FaultIf(failed, kind) => FaultsGrow
  BY <1>1 DEF FaultIf
<1>3. OtherSteps => FaultsGrow
  <2>1. CASE Operator \/ Contact \/ UNCHANGED vars
    BY <2>1 DEF Operator, Contact, OptOut, ExpiresAtPasses, vars, environmentVars, FaultsGrow
  <2>2. CASE Telemetry
    BY <1>1, <2>2 DEF Telemetry, TelemetryStep, RecordReceipt, FinishReceipt, FaultsGrow
  <2>3. CASE \E m \in published : Redelivery(m)
    BY <1>1, <2>3 DEF Redelivery, RedeliverOrphan, RedeliverEarly
  <2>4. CASE \E d \in Dispatches : DispatchRequest(d) \/ Dispatch(d)
    BY <1>1, <2>4 DEF DispatchRequest, DispatchRead, Dispatch, DispatchStep,
                      DispatchPublish, DispatchMark, DispatchAbort
  <2>5. CASE \E x \in Retries : RetryRequest(x) \/ Retry(x)
    BY <1>1, <2>5 DEF RetryRequest, RetryRead, Retry, RetryStep, RetryClaim, RetryReopen,
                      RetryPublish, RetryPublished, RetryRelease, RetryRestore, RetryAbort
  <2> QED  BY <2>1, <2>2, <2>3, <2>4, <2>5 DEF OtherSteps
<1>4. \A w \in Workers : Worker(w) \/ WorkerCrash(w) => FaultsGrow
  BY <1>1, <1>2 DEF Worker, WorkerCrash, Crash, WorkerStep, Take, CheckConsent, CheckHeld,
                    CheckEnded, CheckDelivered, Expire, Send, Report, Settle
<1> QED  BY <1>3, <1>4, StepKinds

\* The gateway's workers that are past the recovery controls, short of an answer.
PastControls == {w \in GatewayWorkers : wpc[w] \in {"ended", "dedup", "send"}}

\* The inductive form: a worker past the controls has its call still to make.
SlipsInv ==
    /\ status # "paused" => slips = 0
    /\ status = "paused"
         => slips + Cardinality(PastControls) <= Cardinality(GatewayWorkers) + faults

LEMMA PastIsFinite ==
    /\ IsFiniteSet(PastControls) /\ IsFiniteSet(GatewayWorkers)
    /\ Cardinality(PastControls) \in Nat /\ Cardinality(GatewayWorkers) \in Nat
    /\ Cardinality(PastControls) <= Cardinality(GatewayWorkers)
<1>1. IsFiniteSet(GatewayWorkers) /\ PastControls \in SUBSET GatewayWorkers
  BY WorkerAssumption DEF PastControls
<1>2. IsFiniteSet(PastControls) /\ Cardinality(PastControls) <= Cardinality(GatewayWorkers)
  BY <1>1, FS_Subset
<1> QED  BY <1>1, <1>2, FS_CardinalityType

\* Only the gateway's own turn at the controls, on a failed lookup, lets it past
\* them during a pause, and only its own call takes it from behind them.
LEMMA PastMoves ==
    ASSUME TypeInv, NEW v \in Workers, Worker(v) \/ WorkerCrash(v), status = "paused"
    PROVE  /\ \A w \in Workers : w # v => wpc'[w] = wpc[w]
           /\ v \in GatewayWorkers /\ wpc'[v] \in {"ended", "dedup", "send"}
                => \/ wpc[v] \in {"ended", "dedup", "send"}
                   \/ Fault("status_lookup")
<1>1. wpc \in [Workers -> WorkerSteps]
  BY DEF TypeInv, TypeOK, WorkerTypeOK
<1>2. ASSUME NEW w \in Workers, w # v
      PROVE  wpc'[w] = wpc[w]
  BY <1>1, <1>2
  DEF Worker, WorkerCrash, WorkerStep, Take, CheckConsent, CheckHeld, CheckEnded,
      CheckDelivered, Expire, Send, Report, Settle, Crash, Conclude, Drop,
      Proceed, Goto, Return
<1>3. ASSUME v \in GatewayWorkers, wpc'[v] \in {"ended", "dedup", "send"}
      PROVE  \/ wpc[v] \in {"ended", "dedup", "send"}
             \/ Fault("status_lookup")
  <2>1. CASE (\E c \in copies : Take(v, c)) \/ Crash(v) \/ Settle(v)
    BY <1>1, <1>3, <2>1 DEF Take, Crash, Settle, Return
  <2>2. CASE CheckConsent(v)
    <3>1. Conclude(v, "refused") \/ Proceed(v, "held")
      BY <1>3, <2>2 DEF CheckConsent
    <3> QED  BY <1>1, <1>3, <3>1 DEF Conclude, Proceed, Goto
  <2>3. CASE CheckHeld(v)
    <3>1. Return(v) \/ Fault("status_lookup")
      BY <2>3 DEF CheckHeld, Drop
    <3> QED  BY <1>1, <1>3, <3>1 DEF Return
  <2>4. CASE CheckEnded(v) \/ CheckDelivered(v) \/ Send(v) \/ Expire(v)
    BY <2>4 DEF CheckEnded, CheckDelivered, Send, Expire
  <2>5. CASE Report(v)
    BY <1>1, <1>3, <2>5 DEF Report, Goto, Return
  <2> QED  BY <2>1, <2>2, <2>3, <2>4, <2>5 DEF Worker, WorkerCrash, WorkerStep
<1> QED  BY <1>2, <1>3

LEMMA SlipsStep ==
    ASSUME TypeInv, SlipsInv, [Next]_vars
    PROVE  SlipsInv'
<1> DEFINE G == Cardinality(GatewayWorkers)
           P == Cardinality(PastControls)
<1>1. /\ wpc \in [Workers -> WorkerSteps] /\ slips \in Nat /\ faults \in Nat
      /\ GatewayWorkers \subseteq Workers
  BY EnvironmentAssumption DEF TypeInv, TypeOK, WorkerTypeOK, EnvironmentTypeOK, Workers
<1>2. faults' \in Nat /\ faults <= faults' /\ (\A kind : Fault(kind) => faults' = faults + 1)
  BY <1>1, FaultsOnlyGrow DEF FaultsGrow, Fault
<1>3. G \in Nat /\ P \in Nat /\ P <= G /\ IsFiniteSet(PastControls)
  BY PastIsFinite
<1>4. CASE UNCHANGED vars
  BY <1>4 DEF vars, ledgerVars, workerVars, historyVars, environmentVars, SlipsInv, PastControls
<1>5. CASE History /\ UNCHANGED wpc
  <2>1. slips' = IF status' # "paused" THEN 0 ELSE slips
    BY <1>5 DEF History, Called
  <2>2. P' = P
    BY <1>5 DEF PastControls
  <2>3. CASE status' # "paused"
    BY <2>1, <2>3 DEF SlipsInv
  <2>4. CASE status' = "paused" /\ status = "paused"
    BY <1>1, <1>2, <1>3, <2>1, <2>2, <2>4 DEF SlipsInv
  <2>5. CASE status' = "paused" /\ status # "paused"
    <3>1. slips' = 0
      BY <2>1, <2>5 DEF SlipsInv
    <3> QED  BY <1>2, <1>3, <2>2, <2>5, <3>1 DEF SlipsInv
  <2> QED  BY <2>3, <2>4, <2>5
<1>6. ASSUME NEW v \in Workers, Worker(v) \/ WorkerCrash(v)
      PROVE  SlipsInv'
  <2>1. History /\ status' = status
    BY <1>6 DEF Worker, WorkerCrash, WorkerStep, ledgerVars
  <2>2. CASE status # "paused"
    BY <2>1, <2>2 DEF History, SlipsInv
  <2>3. CASE status = "paused"
    <3>1. /\ slips' = IF \E w \in GatewayWorkers : Called(w) THEN slips + 1 ELSE slips
          /\ slips + P <= G + faults
      BY <2>1, <2>3 DEF History, SlipsInv
    <3>2. \A w \in Workers : w # v => wpc'[w] = wpc[w]
      BY <1>6, <2>3, PastMoves
    <3>3. \A w \in GatewayWorkers : Called(w) => w = v
      BY <1>1, <3>2 DEF Called
    <3>4. \A w \in GatewayWorkers : w # v => (w \in PastControls' <=> w \in PastControls)
      BY <1>1, <3>2 DEF PastControls
    <3>5. PastControls' \subseteq GatewayWorkers /\ PastControls \subseteq GatewayWorkers
      BY DEF PastControls
    <3>6. CASE v \in PastControls /\ v \notin PastControls'
      <4>1. PastControls' = PastControls \ {v}
        BY <3>4, <3>5, <3>6
      <4>2. P' = P - 1
        BY <1>3, <3>6, <4>1, FS_RemoveElement
      <4> QED  BY <1>1, <1>2, <1>3, <2>1, <2>3, <3>1, <4>2 DEF SlipsInv
    <3>7. CASE v \in PastControls' /\ v \notin PastControls
      <4>1. PastControls' = PastControls \cup {v}
        BY <3>4, <3>5, <3>7
      <4>2. P' = P + 1
        BY <1>3, <3>7, <4>1, FS_AddElement
      <4>3. faults' = faults + 1
        BY <1>2, <1>6, <2>3, <3>7, PastMoves DEF PastControls
      <4>4. slips' = slips
        BY <3>1, <3>3, <3>7 DEF Called, PastControls
      <4> QED  BY <1>1, <1>3, <2>1, <2>3, <3>1, <4>2, <4>3, <4>4 DEF SlipsInv
    <3>8. CASE v \in PastControls' <=> v \in PastControls
      <4>1. PastControls' = PastControls
        BY <3>4, <3>5, <3>8
      <4>2. slips' = slips
        BY <3>1, <3>3, <3>8 DEF Called, PastControls
      <4> QED  BY <1>1, <1>2, <1>3, <2>1, <2>3, <3>1, <4>1, <4>2 DEF SlipsInv
    <3> QED  BY <3>6, <3>7, <3>8
  <2> QED  BY <2>2, <2>3
<1>7. OtherSteps => UNCHANGED vars \/ (History /\ UNCHANGED wpc)
  BY OthersLeaveWorkers
  DEF OtherSteps, workerVars, Operator, Contact, Telemetry, Redelivery,
      DispatchRequest, Dispatch, RetryRequest, Retry
<1> QED  BY <1>4, <1>5, <1>6, <1>7, StepKinds

\* During a pause the gateway's workers make one provider call each at most, and
\* one for each failed lookup: for any number of workers of either program, of
\* tasks in the stream and tasks retries add to it, of redeliveries and of faults.
THEOREM PauseHolds == Spec => []PauseStopsSending
<1>1. Init => SlipsInv
  BY DEF Init, LedgerInit, SlipsInv
<1>2. TypeInv /\ SlipsInv => PauseStopsSending
  <2> SUFFICES ASSUME TypeInv, SlipsInv PROVE PauseStopsSending
    OBVIOUS
  <2>1. slips \in Nat /\ faults \in Nat
    BY EnvironmentAssumption DEF TypeInv, TypeOK, EnvironmentTypeOK
  <2> QED  BY <2>1, PastIsFinite DEF SlipsInv, PauseStopsSending
<1>3. TypeInv /\ SlipsInv /\ [Next]_vars => SlipsInv'
  BY SlipsStep
<1> QED  BY <1>1, <1>2, <1>3, TypeInit, TypeStep, PTL DEF Spec

-----------------------------------------------------------------------------
\* An acknowledged task is accounted for.

Accounted(m) == \/ Reported(m.target) \/ Pending(m.target)
                \/ m \in dropped \/ m \in expired

\* The inductive form: the telemetry consumer gives a receipt up only once it
\* is in the ledger, and a worker that is about to acknowledge has seen to it.
AccountedInv ==
    /\ AckedIsAccounted
    /\ tele # NoReceipt => Reported(tele.task.target)
    /\ \A w \in Workers : wpc[w] = "settle" => Accounted(Task(w))

\* The ledger is written by one statement at a time.
LedgerSteps ==
    \/ UNCHANGED ledgerVars
    \/ \E n : SetDispatching(n)
    \/ \E s : UpdateStatus(s)
    \/ \E r \in receipts : RecordDeliveryResult(r.task.target, r.outcome)
    \/ \E ids : ClaimDeliveriesForRetry(ids)
    \/ \E ids : ReleaseDeliveryClaims(ids)

LEMMA LedgerStatements == [Next]_vars => LedgerSteps
<1> SUFFICES ASSUME [Next]_vars PROVE LedgerSteps
  OBVIOUS
<1>1. OtherSteps => LedgerSteps
  <2>1. CASE Operator
    BY <2>1 DEF LedgerSteps, Operator, Pause, Resume, Cancel, CancelScheduled,
                PauseCampaign, ResumeCampaign, CancelCampaign, CancelScheduledCampaign
  <2>2. CASE Telemetry
    BY <2>2 DEF LedgerSteps, Telemetry, TelemetryStep, RecordReceipt, FinishReceipt
  <2>3. CASE \E d \in Dispatches : DispatchRequest(d) \/ Dispatch(d)
    BY <2>3 DEF LedgerSteps, DispatchRequest, Dispatch, DispatchRead, DispatchStep,
                DispatchPublish, DispatchMark, DispatchAbort
  <2>4. CASE \E x \in Retries : RetryRequest(x) \/ Retry(x)
    BY <2>4 DEF LedgerSteps, RetryRequest, Retry, RetryRead, RetryStep, RetryClaim,
                RetryReopen, RetryPublish, RetryPublished, RetryRelease, RetryRestore,
                RetryAbort
  <2>5. CASE Contact \/ (\E m \in published : Redelivery(m)) \/ UNCHANGED vars
    BY <2>5 DEF LedgerSteps, Contact, Redelivery, vars
  <2> QED  BY <2>1, <2>2, <2>3, <2>4, <2>5 DEF OtherSteps
<1>2. \A w \in Workers : Worker(w) \/ WorkerCrash(w) => UNCHANGED ledgerVars
  BY DEF Worker, WorkerCrash, WorkerStep
<1> QED  BY <1>1, <1>2, StepKinds DEF LedgerSteps

\* Rows are never removed, by any step.
LEMMA RowsAlwaysStay ==
    ASSUME TypeInv, [Next]_vars
    PROVE  RowsStay
<1> USE DEF TypeInv, TypeOK
<1>1. \A r \in receipts : r.task.target \in Targets /\ r.outcome \in Outcomes
  BY DEF StreamTypeOK, TargetDeliveryResult, TargetDispatchTask
<1> QED  BY <1>1, LedgerStatements, LedgerOwners DEF LedgerSteps

LEMMA ReportedStays ==
    ASSUME TypeInv, [Next]_vars
    PROVE  \A t \in Targets : Reported(t) => Reported(t)'
BY RowsAlwaysStay, LedgerAssumption DEF Reported, RowsStay

\* Receipts leave the stream one way only, dropped and expired tasks not at all.
LEMMA StreamSteps ==
    ASSUME [Next]_vars
    PROVE  /\ receipts \subseteq receipts'
              \/ (Telemetry /\ tele # NoReceipt /\ receipts' = receipts \ {tele})
           /\ dropped \subseteq dropped' /\ expired \subseteq expired'
<1>1. CASE Telemetry
  BY <1>1 DEF Telemetry, TelemetryStep, RecordReceipt, FinishReceipt, AckResult,
              streamVars, workerVars
<1>2. ASSUME NEW w \in Workers, Worker(w) \/ WorkerCrash(w)
      PROVE  receipts \subseteq receipts' /\ dropped \subseteq dropped'
               /\ expired \subseteq expired'
  BY <1>2 DEF Worker, WorkerCrash, WorkerStep, Take, CheckConsent, CheckHeld,
              CheckEnded, CheckDelivered, Expire, Send, Report, Settle, Crash,
              Conclude, Drop, Proceed, PublishResult, streamVars
<1>3. CASE (\E d \in Dispatches : DispatchRequest(d) \/ Dispatch(d))
             \/ \E x \in Retries : RetryRequest(x) \/ Retry(x)
  <2>1. receipts' = receipts
    BY <1>3 DEF DispatchRequest, Dispatch, DispatchRead, DispatchStep, DispatchPublish,
                DispatchMark, DispatchAbort, RetryRequest, Retry, RetryRead, RetryStep,
                RetryClaim, RetryReopen, RetryPublish, RetryPublished, RetryRelease,
                RetryRestore, RetryAbort, streamVars
  <2>2. dropped' = dropped /\ expired' = expired
    BY <1>3 DEF DispatchRequest, Dispatch, DispatchStep, RetryRequest, Retry, RetryStep,
                workerVars
  <2> QED  BY <2>1, <2>2
<1>4. CASE Operator \/ Contact \/ (\E m \in published : Redelivery(m)) \/ UNCHANGED vars
  BY <1>4 DEF Operator, Contact, OptOut, ExpiresAtPasses, Redelivery, vars, streamVars,
              environmentVars, workerVars
<1> QED  BY <1>1, <1>2, <1>3, <1>4, StepKinds DEF OtherSteps

\* A task's outcome, in the ledger or on its way there.
Recorded(m) == Reported(m.target) \/ Pending(m.target)

TeleReported == tele # NoReceipt => Reported(tele.task.target)

\* A receipt leaves the stream once it is in the ledger, so an outcome stays.
LEMMA RecordedStays ==
    ASSUME TypeInv, TeleReported, [Next]_vars
    PROVE  \A m \in TargetDispatchTask : Recorded(m) => Recorded(m)'
<1> SUFFICES ASSUME NEW m \in TargetDispatchTask, Recorded(m)
             PROVE  Recorded(m)'
  OBVIOUS
<1>1. m.target \in Targets
  BY DEF TargetDispatchTask
<1>2. CASE Reported(m.target)
  BY <1>1, <1>2, ReportedStays DEF Recorded
<1>3. CASE Pending(m.target)
  <2>1. PICK r \in receipts : r.task.target = m.target
    BY <1>3 DEF Pending
  <2>2. CASE r \in receipts'
    BY <2>1, <2>2 DEF Pending, Recorded
  <2>3. CASE r \notin receipts'
    <3>1. tele # NoReceipt /\ r = tele
      BY <2>1, <2>3, StreamSteps
    <3> QED  BY <1>1, <2>1, <3>1, ReportedStays DEF TeleReported, Recorded
  <2> QED  BY <2>2, <2>3
<1> QED  BY <1>2, <1>3 DEF Recorded

\* Once accounted for, a task stays so.
LEMMA AccountedStays ==
    ASSUME TypeInv, AccountedInv, [Next]_vars
    PROVE  \A m \in TargetDispatchTask : Accounted(m) => Accounted(m)'
<1> SUFFICES ASSUME NEW m \in TargetDispatchTask, Accounted(m)
             PROVE  Accounted(m)'
  OBVIOUS
<1>1. CASE m \in dropped \/ m \in expired
  BY <1>1, StreamSteps DEF Accounted
<1>2. CASE Recorded(m)
  BY <1>2, RecordedStays DEF AccountedInv, TeleReported, Recorded, Accounted
<1> QED  BY <1>1, <1>2 DEF Accounted, Recorded

\* A task becomes acknowledged by a worker that has it in hand: a guard drops
\* it, the ledger has its delivery, or its result is out.
LEMMA AckedBy ==
    ASSUME TypeInv, [Next]_vars, NEW m \in acked', m \notin acked
    PROVE  \E w \in Workers :
              /\ WorkerStep(w) /\ wpc[w] # "idle"
              /\ m = Task(w) /\ m \in TargetDispatchTask
              /\ \/ CheckHeld(w) /\ status = "cancelled" /\ Drop(w)
                 \/ CheckEnded(w) /\ Drop(w)
                 \/ CheckDelivered(w) /\ DeliveredTo(m.target)
                 \/ Settle(w)
<1> USE DEF TypeInv, TypeOK
<1>1. OtherSteps => acked' = acked
  <2>1. CASE \E d \in Dispatches : DispatchRequest(d) \/ Dispatch(d)
    BY <2>1 DEF DispatchRequest, Dispatch, DispatchRead, DispatchStep, DispatchPublish,
                DispatchMark, DispatchAbort, Publish, streamVars, taskVars
  <2>2. CASE \E x \in Retries : RetryRequest(x) \/ Retry(x)
    BY <2>2 DEF RetryRequest, Retry, RetryRead, RetryStep, RetryClaim, RetryReopen,
                RetryPublish, RetryPublished, RetryRelease, RetryRestore, RetryAbort,
                Publish, streamVars, taskVars
  <2>3. CASE Telemetry
    BY <2>3 DEF Telemetry, TelemetryStep, RecordReceipt, FinishReceipt, streamVars, taskVars
  <2>4. CASE \E x \in published : Redelivery(x)
    BY <2>4 DEF Redelivery, RedeliverOrphan, RedeliverEarly, AckWaitExpires
  <2>5. CASE Operator \/ Contact \/ UNCHANGED vars
    BY <2>5 DEF Operator, Contact, vars, streamVars, taskVars
  <2> QED  BY <2>1, <2>2, <2>3, <2>4, <2>5 DEF OtherSteps
<1>2. PICK w \in Workers : Worker(w) \/ WorkerCrash(w)
  BY <1>1, StepKinds
<1>3. JobTypeOK
  BY DEF WorkerTypeOK, JobTypeOK
<1>4. WorkerStep(w)
  BY <1>2 DEF Worker, WorkerCrash, Crash, streamVars, taskVars
<1>5. CASE CheckHeld(w)
  <2>1. status = "cancelled" /\ Drop(w) /\ wpc[w] # "idle"
    BY <1>5 DEF CheckHeld, Nak, Push, Proceed, streamVars, taskVars
  <2>2. m = Task(w)
    BY <2>1 DEF Drop, Ack
  <2> QED  BY <1>3, <1>4, <1>5, <2>1, <2>2, JobTypes
<1>6. CASE CheckEnded(w)
  <2>1. Drop(w) /\ wpc[w] # "idle"
    BY <1>6 DEF CheckEnded, Proceed, streamVars, taskVars
  <2>2. m = Task(w)
    BY <2>1 DEF Drop, Ack
  <2> QED  BY <1>3, <1>4, <1>6, <2>1, <2>2, JobTypes
<1>7. CASE CheckDelivered(w)
  <2>1. m = Task(w) /\ wpc[w] # "idle" /\ DeliveredTo(m.target)
    BY <1>7 DEF CheckDelivered, Ack, Proceed, streamVars, taskVars
  <2> QED  BY <1>3, <1>4, <1>7, <2>1, JobTypes
<1>8. CASE Settle(w)
  <2>1. m = Task(w) /\ wpc[w] # "idle"
    BY <1>8 DEF Settle, Ack
  <2> QED  BY <1>3, <1>4, <1>8, <2>1, JobTypes
<1>9. CheckHeld(w) \/ CheckEnded(w) \/ CheckDelivered(w) \/ Settle(w)
  <2>1. ~ \E c \in copies : Take(w, c)
    BY DEF Take, TakeCopy
  <2>2. ~ CheckConsent(w)
    BY DEF CheckConsent, Conclude, Proceed, streamVars, taskVars
  <2>3. ~ Expire(w)
    BY DEF Expire, taskVars
  <2>4. ~ Send(w)
    BY DEF Send, Nak, Push, streamVars, taskVars
  <2>5. ~ Report(w)
    BY DEF Report, Nak, Push, taskVars
  <2> QED  BY <1>4, <2>1, <2>2, <2>3, <2>4, <2>5 DEF WorkerStep
<1> QED  BY <1>5, <1>6, <1>7, <1>8, <1>9

LEMMA AckedStep ==
    ASSUME TypeInv, AccountedInv, [Next]_vars, NEW m \in acked', m \notin acked
    PROVE  m \in TargetDispatchTask /\ Accounted(m)'
<1>1. PICK w \in Workers :
         /\ m = Task(w) /\ m \in TargetDispatchTask
         /\ Drop(w) \/ DeliveredTo(m.target) \/ Settle(w)
  BY AckedBy
<1>2. CASE Drop(w)
  BY <1>1, <1>2 DEF Drop, Accounted
<1>3. CASE DeliveredTo(m.target)
  BY <1>1, <1>3, AccountedStays DEF Accounted, DeliveredTo, Reported
<1>4. CASE Settle(w)
  BY <1>1, <1>4, AccountedStays DEF Settle, AccountedInv
<1> QED  BY <1>1, <1>2, <1>3, <1>4

\* A worker comes to the acknowledgement from the publication of a result, that
\* of an expiry included.
LEMMA SettleFrom ==
    ASSUME TypeInv, [Next]_vars, NEW w \in Workers, wpc'[w] = "settle"
    PROVE  /\ wpc[w] # "idle" /\ Task(w)' = Task(w) /\ Task(w) \in TargetDispatchTask
           /\ \/ wpc[w] = "settle"
              \/ Expire(w)
              \/ Report(w) /\ \E r \in receipts' : r.task = Task(w)
<1> USE DEF TypeInv, TypeOK
<1>1. JobTypeOK
  BY DEF WorkerTypeOK, JobTypeOK
<1>2. CASE wpc[w] = "settle" /\ wjob'[w] = wjob[w]
  BY <1>1, <1>2, JobTypes DEF Task
<1>3. CASE Expire(w)
  BY <1>1, <1>3, JobTypes DEF Expire, Task, Goto
<1>4. CASE Report(w)
  <2>1. [task |-> Task(w), n |-> wjob[w].n, outcome |-> wout[w]] \in receipts'
    BY <1>1, <1>4 DEF Report, Return, PublishResult, JobTypeOK
  <2>2. Task(w)' = Task(w) /\ wpc[w] # "idle"
    BY <1>1, <1>4 DEF Report, Return, Goto, Task, JobTypeOK
  <2> QED  BY <1>1, <1>4, <2>1, <2>2, JobTypes
<1>5. (wpc[w] = "settle" /\ wjob'[w] = wjob[w]) \/ Expire(w) \/ Report(w)
  <2>1. CASE UNCHANGED <<wpc, wjob>>
    BY <2>1
  <2>2. ASSUME NEW v \in Workers, Worker(v) \/ WorkerCrash(v)
        PROVE  (wpc[w] = "settle" /\ wjob'[w] = wjob[w]) \/ Expire(w) \/ Report(w)
    <3>1. CASE v # w
      BY <1>1, <2>2, <3>1
      DEF JobTypeOK, Worker, WorkerCrash, WorkerStep, Take, CheckConsent, CheckHeld,
          CheckEnded, CheckDelivered, Expire, Send, Report, Settle, Crash, Conclude,
          Drop, Proceed, Goto, Return
    <3>2. CASE v = w
      BY <1>1, <2>2, <3>2
      DEF JobTypeOK, Worker, WorkerCrash, WorkerStep, Take, CheckConsent, CheckHeld,
          CheckEnded, CheckDelivered, Send, Settle, Crash, Conclude, Drop, Proceed,
          Goto, Return
    <3> QED  BY <3>1, <3>2
  <2>3. OtherSteps => UNCHANGED <<wpc, wjob>>
    BY OthersLeaveWorkers DEF workerVars
  <2> QED  BY <2>1, <2>2, <2>3, StepKinds
<1> QED  BY <1>2, <1>3, <1>4, <1>5

\* A worker comes to the acknowledgement with its task accounted for.
LEMMA SettleStep ==
    ASSUME TypeInv, AccountedInv, [Next]_vars, NEW w \in Workers, wpc'[w] = "settle"
    PROVE  Accounted(Task(w))'
<1>1. Accounted(Task(w))' <=> \/ Reported(Task(w).target)' \/ Pending(Task(w).target)'
                              \/ Task(w)' \in dropped' \/ Task(w)' \in expired'
  BY DEF Accounted
<1>2. CASE wpc[w] = "settle"
  <2>1. Accounted(Task(w)) /\ Task(w) \in TargetDispatchTask /\ Task(w)' = Task(w)
    BY <1>2, SettleFrom DEF AccountedInv
  <2> QED  BY <2>1, AccountedStays DEF Accounted, Reported, Pending
<1>3. CASE Expire(w)
  <2>1. Task(w)' \in expired'
    BY <1>3, SettleFrom, StreamSteps DEF Expire
  <2> QED  BY <1>1, <2>1
<1>4. CASE \E r \in receipts' : r.task = Task(w)
  <2>1. \E r \in receipts' : r.task = Task(w)'
    BY <1>4, SettleFrom
  <2> QED  BY <1>1, <2>1 DEF Pending
<1> QED  BY <1>2, <1>3, <1>4, SettleFrom

LEMMA TeleStep ==
    ASSUME TypeInv, TeleReported, [Next]_vars
    PROVE  TeleReported'
<1> USE DEF TypeInv, TypeOK
<1> SUFFICES ASSUME tele' # NoReceipt PROVE Reported(tele.task.target)'
  BY DEF TeleReported
<1>1. CASE Telemetry
  <2>1. PICK r \in receipts : RecordReceipt(r)
    BY <1>1 DEF Telemetry, TelemetryStep, FinishReceipt
  <2>2. tele' = r /\ r.task.target \in Targets /\ r.outcome \in Outcomes
    BY <2>1 DEF RecordReceipt, StreamTypeOK, TargetDeliveryResult, TargetDispatchTask
  <2> QED
    BY <2>1, <2>2, LedgerAssumption
    DEF RecordReceipt, RecordDeliveryResult, Upserted, Reported, LedgerTypeOK, Outcomes
<1>2. CASE tele' = tele
  <2>1. tele.task.target \in Targets
    BY <1>2 DEF TelemetryTypeOK, TargetDeliveryResult, TargetDispatchTask
  <2> QED  BY <1>2, <2>1, ReportedStays DEF TeleReported, Reported
<1>3. Telemetry \/ tele' = tele
  BY StepKinds
  DEF OtherSteps, Operator, Contact, Redelivery, DispatchRequest, Dispatch,
      RetryRequest, Retry, Worker, WorkerCrash, vars, telemetryVars
<1> QED  BY <1>1, <1>2, <1>3

\* Whatever lookups fail, publications are lost, workers die or tasks come
\* twice: an acknowledged task is reported, on its way, dropped by a guard or
\* expired.
THEOREM NoOutcomeLost == Spec => []AckedIsAccounted
<1>1. Init => AccountedInv
  BY DEF Init, StreamInit, TelemetryInit, WorkerInit, AccountedInv, AckedIsAccounted
<1>2. TypeInv /\ AccountedInv /\ [Next]_vars => AccountedInv'
  <2> SUFFICES ASSUME TypeInv, AccountedInv, [Next]_vars PROVE AccountedInv'
    OBVIOUS
  <2>1. \A m \in acked' : Accounted(m)'
    <3>1. \A m \in acked : m \in TargetDispatchTask /\ Accounted(m)
      BY DEF AccountedInv, AckedIsAccounted, Accounted, TypeInv, TypeOK, StreamTypeOK,
             TaskTypeOK
    <3> QED  BY <3>1, AckedStep, AccountedStays
  <2>2. AckedIsAccounted'
    BY <2>1 DEF AckedIsAccounted, Accounted
  <2> QED  BY <2>2, SettleStep, TeleStep DEF AccountedInv, TeleReported
<1>3. AccountedInv => AckedIsAccounted
  BY DEF AccountedInv
<1> QED  BY <1>1, <1>2, <1>3, TypeInit, TypeStep, PTL DEF Spec

-----------------------------------------------------------------------------
\* The ledger claims no delivery a provider did not accept.

SentTo(t) == sends[t] >= 1

\* The inductive form: a result that says "delivered", in a worker's hands or on
\* its way, is of a target whose message was accepted.
SentInv ==
    /\ DeliveredMeansSent
    /\ \A r \in receipts : r.outcome = "delivered" => SentTo(r.task.target)
    /\ \A w \in Workers :
          wpc[w] = "report" /\ wout[w] = "delivered" => SentTo(Task(w).target)

\* A message accepted stays accepted.
LEMMA SentStays ==
    ASSUME TypeInv, [Next]_vars
    PROVE  \A t \in Targets : SentTo(t) => SentTo(t)'
<1> USE DEF TypeInv, TypeOK
<1>1. sends \in [Targets -> Nat]
  BY DEF WorkerTypeOK
<1>2. ASSUME NEW w \in Workers, Worker(w) \/ WorkerCrash(w)
      PROVE  sends' = sends \/ \E k \in Nat : Accepted(w, k)
  <2>1. Send(w) => \E k \in Nat : Accepted(w, k)
    BY DEF Send
  <2> QED
    BY <1>2, <2>1
    DEF Worker, WorkerCrash, WorkerStep, Take, CheckConsent, CheckHeld, CheckEnded,
        CheckDelivered, Expire, Report, Settle, Crash, Drop, Proceed
<1>3. OtherSteps => sends' = sends
  BY OthersLeaveWorkers DEF workerVars
<1> QED  BY <1>1, <1>2, <1>3, StepKinds DEF SentTo, Accepted

\* A row comes to say "delivered" from a receipt that says so, and from no
\* other statement.
LEMMA DeliveredComesFromReceipt ==
    ASSUME TypeInv, [Next]_vars, NEW k \in Rows, rows'[k].status = "delivered"
    PROVE  \/ rows[k].status = "delivered"
           \/ \E r \in receipts : RowOf[r.task.target] = k /\ r.outcome = "delivered"
<1> USE DEF TypeInv, TypeOK
<1>1. LedgerSteps
  BY LedgerStatements
<1>2. LedgerTypeOK
  OBVIOUS
<1>3. CASE \E r \in receipts : RecordDeliveryResult(r.task.target, r.outcome)
  <2>1. PICK r \in receipts : RecordDeliveryResult(r.task.target, r.outcome)
    BY <1>3
  <2>2. CASE RowOf[r.task.target] = k
    BY <1>2, <2>1, <2>2 DEF RecordDeliveryResult, Upserted, LedgerTypeOK
  <2>3. CASE RowOf[r.task.target] # k
    BY <1>2, <2>1, <2>3 DEF RecordDeliveryResult, Upserted, LedgerTypeOK
  <2> QED  BY <2>2, <2>3
<1>4. CASE \E ids : ClaimDeliveriesForRetry(ids)
  BY <1>2, <1>4 DEF ClaimDeliveriesForRetry, LedgerTypeOK
<1>5. CASE \E ids : ReleaseDeliveryClaims(ids)
  BY <1>2, <1>5 DEF ReleaseDeliveryClaims, LedgerTypeOK
<1>6. CASE rows' = rows
  BY <1>6
<1> QED
  BY <1>1, <1>3, <1>4, <1>5, <1>6
  DEF LedgerSteps, ledgerVars, SetDispatching, UpdateStatus

\* A worker comes to report a delivery from the provider call that made it.
LEMMA ReportingStep ==
    ASSUME TypeInv, SentInv, [Next]_vars,
           NEW w \in Workers, wpc'[w] = "report", wout'[w] = "delivered"
    PROVE  SentTo(Task(w).target)'
<1> USE DEF TypeInv, TypeOK
<1>1. JobTypeOK /\ wout \in [Workers -> Outcomes] /\ sends \in [Targets -> Nat]
  BY DEF WorkerTypeOK, JobTypeOK
<1>2. CASE wpc[w] = "report" /\ wout[w] = "delivered" /\ wjob'[w] = wjob[w]
  <2>1. Task(w).target \in Targets /\ SentTo(Task(w).target) /\ Task(w)' = Task(w)
    BY <1>1, <1>2, JobTypes DEF SentInv, Task, TargetDispatchTask
  <2> QED  BY <2>1, SentStays DEF SentTo
<1>3. CASE Send(w)
  <2>1. wpc[w] = "send" /\ Task(w).target \in Targets /\ Task(w)' = Task(w)
    <3>1. wjob' = wjob
      BY <1>1, <1>3 DEF Send, Conclude, Goto, Return, JobTypeOK
    <3> QED  BY <1>1, <1>3, <3>1, JobTypes DEF Send, Task, TargetDispatchTask
  <2>2. \E lost \in 0..1 : Accepted(w, lost + 1)
    BY <1>1, <1>3 DEF Send, Conclude, Return, JobTypeOK
  <2>3. SentTo(Task(w).target)' <=> sends'[Task(w).target] >= 1
    BY <2>1 DEF SentTo
  <2> QED  BY <1>1, <2>1, <2>2, <2>3 DEF Accepted
<1>4. (wpc[w] = "report" /\ wout[w] = "delivered" /\ wjob'[w] = wjob[w]) \/ Send(w)
  <2>1. CASE UNCHANGED <<wpc, wjob, wout>>
    BY <2>1
  <2>2. ASSUME NEW v \in Workers, Worker(v) \/ WorkerCrash(v)
        PROVE  \/ wpc[w] = "report" /\ wout[w] = "delivered" /\ wjob'[w] = wjob[w]
               \/ Send(w)
    <3>1. CASE v # w
      BY <1>1, <2>2, <3>1
      DEF JobTypeOK, Worker, WorkerCrash, WorkerStep, Take, CheckConsent, CheckHeld,
          CheckEnded, CheckDelivered, Expire, Send, Report, Settle, Crash, Conclude,
          Drop, Proceed, Goto, Return
    <3>2. CASE v = w
      BY <1>1, <2>2, <3>2
      DEF JobTypeOK, Worker, WorkerCrash, WorkerStep, Take, CheckConsent, CheckHeld,
          CheckEnded, CheckDelivered, Expire, Report, Settle, Crash, Conclude, Drop,
          Proceed, Goto, Return
    <3> QED  BY <3>1, <3>2
  <2>3. OtherSteps => UNCHANGED <<wpc, wjob, wout>>
    BY OthersLeaveWorkers DEF workerVars
  <2> QED  BY <2>1, <2>2, <2>3, StepKinds
<1> QED  BY <1>2, <1>3, <1>4

\* A result that says "delivered" is published by a worker that reports one.
LEMMA ReceiptStep ==
    ASSUME TypeInv, SentInv, [Next]_vars,
           NEW r \in receipts', r.outcome = "delivered"
    PROVE  SentTo(r.task.target)'
<1> USE DEF TypeInv, TypeOK
<1>1. JobTypeOK
  BY DEF WorkerTypeOK, JobTypeOK
<1>2. CASE r \in receipts
  <2>1. r.task.target \in Targets /\ SentTo(r.task.target)
    BY <1>2 DEF StreamTypeOK, TargetDeliveryResult, TargetDispatchTask, SentInv
  <2> QED  BY <2>1, SentStays DEF SentTo
<1>3. CASE r \notin receipts
  <2>1. OtherSteps => receipts' \subseteq receipts
    <3>1. CASE Telemetry
      BY <3>1 DEF Telemetry, TelemetryStep, RecordReceipt, FinishReceipt, AckResult,
                  streamVars
    <3>2. CASE \E d \in Dispatches : DispatchRequest(d) \/ Dispatch(d)
      BY <3>2 DEF DispatchRequest, Dispatch, DispatchRead, DispatchStep,
                  DispatchPublish, DispatchMark, DispatchAbort, streamVars
    <3>3. CASE \E x \in Retries : RetryRequest(x) \/ Retry(x)
      BY <3>3 DEF RetryRequest, Retry, RetryRead, RetryStep, RetryClaim, RetryReopen,
                  RetryPublish, RetryPublished, RetryRelease, RetryRestore, RetryAbort,
                  streamVars
    <3>4. CASE Operator \/ Contact \/ (\E m \in published : Redelivery(m)) \/ UNCHANGED vars
      BY <3>4 DEF Operator, Contact, Redelivery, vars, streamVars
    <3> QED  BY <3>1, <3>2, <3>3, <3>4 DEF OtherSteps
  <2>2. PICK w \in Workers : Worker(w) \/ WorkerCrash(w)
    BY <1>3, <2>1, StepKinds
  <2>3. Report(w)
    <3>1. Expire(w) => receipts' \subseteq receipts \cup {r} /\ r.outcome = "refused"
      BY <1>3 DEF Expire, PublishResult
    <3> QED
      BY <1>3, <2>2, <3>1
      DEF Worker, WorkerCrash, WorkerStep, Take, CheckConsent, CheckHeld, CheckEnded,
          CheckDelivered, Send, Settle, Crash, Conclude, Drop, Proceed, streamVars
  <2>4. /\ wpc[w] = "report" /\ wout[w] = "delivered" /\ r.task = Task(w)
        /\ Task(w).target \in Targets
    BY <1>1, <1>3, <2>3, JobTypes DEF Report, PublishResult, TargetDispatchTask
  <2> QED  BY <2>4, SentStays DEF SentInv, SentTo
<1> QED  BY <1>2, <1>3

LEMMA SentAlways == Spec => []SentInv
<1>1. Init => SentInv
  <2> SUFFICES ASSUME Init PROVE SentInv
    OBVIOUS
  <2>1. \A k \in Rows : rows[k].status = "absent"
    BY DEF Init, LedgerInit, NoRow
  <2>2. receipts = {} /\ \A w \in Workers : wpc[w] = "idle"
    BY DEF Init, StreamInit, WorkerInit
  <2> QED  BY <2>1, <2>2 DEF SentInv, DeliveredMeansSent
<1>2. TypeInv /\ SentInv /\ [Next]_vars => SentInv'
  <2> SUFFICES ASSUME TypeInv, SentInv, [Next]_vars PROVE SentInv'
    OBVIOUS
  <2>1. ASSUME NEW k \in Rows, rows'[k].status = "delivered"
        PROVE  \E t \in Targets : RowOf[t] = k /\ SentTo(t)'
    <3>1. \E t \in Targets : RowOf[t] = k /\ SentTo(t)
      <4>1. CASE rows[k].status = "delivered"
        BY <4>1 DEF SentInv, DeliveredMeansSent, SentTo
      <4>2. ASSUME NEW r \in receipts, RowOf[r.task.target] = k, r.outcome = "delivered"
            PROVE  \E t \in Targets : RowOf[t] = k /\ SentTo(t)
        BY <4>2 DEF SentInv, TypeInv, TypeOK, StreamTypeOK, TargetDeliveryResult,
                    TargetDispatchTask
      <4> QED  BY <2>1, <4>1, <4>2, DeliveredComesFromReceipt
    <3> QED  BY <3>1, SentStays
  <2>2. DeliveredMeansSent'
    BY <2>1 DEF DeliveredMeansSent, SentTo
  <2>3. (\A r \in receipts : r.outcome = "delivered" => SentTo(r.task.target))'
    BY ReceiptStep DEF SentTo
  <2>4. (\A w \in Workers : wpc[w] = "report" /\ wout[w] = "delivered"
                              => SentTo(Task(w).target))'
    BY ReportingStep
  <2> QED  BY <2>2, <2>3, <2>4 DEF SentInv
<1> QED  BY <1>1, <1>2, TypeInit, TypeStep, PTL DEF Spec

\* Whatever crashes, is lost, comes twice or overtakes: a row says "delivered"
\* only of a target some provider took a message for.
THEOREM NoPhantomDelivery == Spec => []DeliveredMeansSent
<1>1. SentInv => DeliveredMeansSent
  BY DEF SentInv
<1> QED  BY <1>1, SentAlways, PTL

-----------------------------------------------------------------------------
(* What the delivery report says *)

Seen == {t \in Targets : sends[t] >= 1}
Shown == [k \in Rows |-> rows[k].status]

ContractStep ==
    \/ Seen' = Seen /\ Shown' = Shown
    \/ \E t \in Targets : Seen' = Seen \cup {t} /\ Shown' = Shown
    \/ /\ Seen' = Seen
       /\ \/ \E t \in Targets, o \in Outcomes :
                /\ o = "delivered" => t \in Seen
                /\ Shown' = [Shown EXCEPT ![RowOf[t]] = o]
          \/ \E K \in SUBSET {k \in Rows : Shown[k] = "failed"} :
                Shown' = [k \in Rows |-> IF k \in K THEN "queued" ELSE Shown[k]]
          \/ \E K \in SUBSET {k \in Rows : Shown[k] = "queued"} :
                Shown' = [k \in Rows |-> IF k \in K THEN "failed" ELSE Shown[k]]

\* What a worker does to the provider's side: nothing, or one more message for
\* the target of its task.
LEMMA WorkersAccept ==
    ASSUME TypeInv, NEW w \in Workers, Worker(w) \/ WorkerCrash(w)
    PROVE  Seen' = Seen \/ \E t \in Targets : Seen' = Seen \cup {t}
<1> USE DEF TypeInv, TypeOK
<1>1. JobTypeOK /\ sends \in [Targets -> Nat]
  BY DEF WorkerTypeOK, JobTypeOK
<1>2. CASE sends' = sends
  BY <1>2 DEF Seen
<1>3. CASE Send(w)
  <2>1. Task(w).target \in Targets
    BY <1>1, <1>3, JobTypes DEF Send, Task, TargetDispatchTask
  <2>2. PICK n \in Nat : Accepted(w, n)
    BY <1>3 DEF Send
  <2>3. sends' = [sends EXCEPT ![Task(w).target] = @ + n]
    BY <2>2 DEF Accepted
  <2>4. CASE n = 0
    BY <1>1, <2>1, <2>3, <2>4 DEF Seen
  <2>5. CASE n >= 1
    BY <1>1, <2>1, <2>3, <2>5 DEF Seen
  <2> QED  BY <2>2, <2>4, <2>5
<1> QED
  BY <1>2, <1>3
  DEF Worker, WorkerCrash, WorkerStep, Take, CheckConsent, CheckHeld, CheckEnded,
      CheckDelivered, Expire, Report, Settle, Crash, Drop, Proceed

\* What a statement on the ledger does to the report.
LEMMA StatementsReport ==
    ASSUME TypeInv, SentInv, LedgerSteps, UNCHANGED sends
    PROVE  ContractStep
<1> USE DEF TypeInv, TypeOK
<1>1. LedgerTypeOK /\ Seen' = Seen
  BY DEF Seen
<1>2. CASE rows' = rows
  BY <1>1, <1>2 DEF Shown, ContractStep
<1>3. CASE \E r \in receipts : RecordDeliveryResult(r.task.target, r.outcome)
  <2>1. PICK r \in receipts : RecordDeliveryResult(r.task.target, r.outcome)
    BY <1>3
  <2>2. /\ r.task.target \in Targets /\ r.outcome \in Outcomes
        /\ r.outcome = "delivered" => r.task.target \in Seen
    BY DEF StreamTypeOK, TargetDeliveryResult, TargetDispatchTask, SentInv, SentTo, Seen
  <2>3. Shown' = [Shown EXCEPT ![RowOf[r.task.target]] = r.outcome]
    BY <1>1, <2>1 DEF RecordDeliveryResult, Upserted, LedgerTypeOK, Shown
  <2> QED  BY <1>1, <2>2, <2>3 DEF ContractStep
<1>4. CASE \E ids : ClaimDeliveriesForRetry(ids)
  <2>1. PICK ids : ClaimDeliveriesForRetry(ids)
    BY <1>4
  <2> DEFINE K == {k \in Rows : k \in ids /\ Shown[k] = "failed"}
  <2>2. Shown' = [k \in Rows |-> IF k \in K THEN "queued" ELSE Shown[k]]
    BY <1>1, <2>1 DEF ClaimDeliveriesForRetry, Claimable, LedgerTypeOK, Shown
  <2>3. K \in SUBSET {k \in Rows : Shown[k] = "failed"}
    OBVIOUS
  <2> QED  BY <1>1, <2>2, <2>3 DEF ContractStep
<1>5. CASE \E ids : ReleaseDeliveryClaims(ids)
  <2>1. PICK ids : ReleaseDeliveryClaims(ids)
    BY <1>5
  <2> DEFINE K == {k \in Rows : k \in ids /\ Shown[k] = "queued"}
  <2>2. Shown' = [k \in Rows |-> IF k \in K THEN "failed" ELSE Shown[k]]
    BY <1>1, <2>1 DEF ReleaseDeliveryClaims, LedgerTypeOK, Shown
  <2>3. K \in SUBSET {k \in Rows : Shown[k] = "queued"}
    OBVIOUS
  <2> QED  BY <1>1, <2>2, <2>3 DEF ContractStep
<1> QED
  BY <1>2, <1>3, <1>4, <1>5 DEF LedgerSteps, ledgerVars, SetDispatching, UpdateStatus

LEMMA EveryStepIsContracts ==
    ASSUME TypeInv, SentInv, [Next]_vars
    PROVE  ContractStep
<1>1. CASE OtherSteps
  <2>1. UNCHANGED sends
    BY <1>1, OthersLeaveWorkers DEF workerVars
  <2> QED  BY <2>1, LedgerStatements, StatementsReport
<1>2. ASSUME NEW w \in Workers, Worker(w) \/ WorkerCrash(w)
      PROVE  ContractStep
  <2>1. Shown' = Shown
    BY <1>2 DEF Worker, WorkerCrash, WorkerStep, ledgerVars, Shown
  <2> QED  BY <1>2, <2>1, WorkersAccept DEF ContractStep
<1> QED  BY <1>1, <1>2, StepKinds

\* The pipeline implements the contract of the delivery report
\* (repository/postgres_campaign.go): no row disappears, none claims a delivery
\* that no provider accepted, and only retryable failures are retried.
THEOREM ContractKept == Spec => KeepsContract
<1>1. Init => Contract!ContractInit
  <2> SUFFICES ASSUME Init PROVE Contract!ContractInit
    OBVIOUS
  <2>1. \A k \in Rows : rows[k].status = "absent"
    BY DEF Init, LedgerInit, NoRow
  <2>2. sends = [t \in Targets |-> 0]
    BY DEF Init, WorkerInit
  <2>3. ASSUME NEW t \in Targets PROVE ~ (sends[t] >= 1)
    <3>1. sends[t] = 0
      BY <2>2
    <3> QED  BY <3>1, SMT
  <2> QED  BY <2>1, <2>3 DEF Contract!ContractInit
<1>2. TypeInv /\ SentInv /\ [Next]_vars
        => [Contract!ContractNext]_(Contract!contractVars)
  BY EveryStepIsContracts
  DEF ContractStep, Seen, Shown, Contract!ContractNext, Contract!contractVars,
      Contract!Accept, Contract!Reports, Contract!Claim, Contract!Release,
      Contract!Moved, Outcomes, Contract!Outcomes
<1> QED
  BY <1>1, <1>2, TypeInit, TypeStep, SentAlways, PTL
  DEF Spec, KeepsContract, Contract!ContractSpec

=============================================================================
