---------------------------- MODULE ScenarioProofs -----------------------------
(***************************************************************************)
(* The three scenarios of MCPipelineSafety, for any number of targets,     *)
(* workers, retry calls and faults: each has an inductive invariant of its *)
(* own on top of the pipeline's TypeInv, and a theorem.                    *)
(*                                                                         *)
(*   faulty     SettledInv: what is acknowledged is recorded, and what is  *)
(*              completed has counted every target                         *)
(*   faultless  SmoothInv (a task leaves one token in the stream, and one  *)
(*              result) and OnceInv (tasks, closed rows, sends, notices)   *)
(*   retried    SmoothInv and RetriedInv (a row has one open task, or one  *)
(*              call that holds it, and its status says which)             *)
(***************************************************************************)
EXTENDS MCPipelineSafety, PipelineProofs

\* The steps of a scenario, stuttering included, as far as the proofs need them.
FaultyStep == UNCHANGED vars \/ (Next /\ Faulty)

\* A scenario is chosen once, and its steps are steps of the pipeline.
LEMMA ScenarioSteps ==
    ASSUME [SafetyNext]_<<vars, scenario>>
    PROVE  /\ [Next]_vars
           /\ scenario' = scenario
           /\ scenario = "faulty" => FaultyStep
BY DEF SafetyNext, FaultyStep

\* Where no call has been made and none is, no retry takes a step.
LEMMA NoRetryStep ==
    ASSUME TypeInv, UNCHANGED retryVars, NEW x \in Retries, rpc[x] = "idle"
    PROVE  ~ RetryRequest(x) /\ ~ Retry(x)
<1>1. rpc \in [Retries -> RetrySteps] /\ rpc' = rpc
  BY DEF TypeInv, TypeOK, RetryTypeOK, retryVars
<1>2. ~ RetryRequest(x)
  BY <1>1 DEF RetryRequest, RetryRead, RetryGoto
<1>3. ~ Retry(x)
  BY DEF Retry, RetryStep, RetryClaim, RetryReopen, RetryPublish, RetryPublished,
         RetryRelease, RetryRestore, RetryAbort
<1> QED  BY <1>2, <1>3

\* Without retries the ledger is written by three statements only.
LEMMA LedgerWithoutRetries ==
    ASSUME TypeInv, [Next]_vars, UNCHANGED retryVars, \A x \in Retries : rpc[x] = "idle"
    PROVE  \/ UNCHANGED ledgerVars
           \/ \E d \in Dispatches : Dispatch(d) /\ DispatchMark(d)
           \/ Operator /\ \E s : UpdateStatus(s) /\ s # "completed" /\ status # "completed"
           \/ \E r \in receipts : Telemetry /\ RecordReceipt(r)
<1>1. CASE Operator
  BY <1>1 DEF Operator, Pause, Resume, Cancel, CancelScheduled,
              PauseCampaign, ResumeCampaign, CancelCampaign, CancelScheduledCampaign
<1>2. CASE Telemetry
  BY <1>2 DEF Telemetry, TelemetryStep, FinishReceipt
<1>3. CASE \E d \in Dispatches : DispatchRequest(d) \/ Dispatch(d)
  BY <1>3 DEF DispatchRequest, Dispatch, DispatchRead, DispatchStep,
              DispatchPublish, DispatchAbort
<1>4. CASE Contact \/ (\E m \in published : Redelivery(m)) \/ UNCHANGED vars
  BY <1>4 DEF Contact, Redelivery, vars
<1>5. CASE \E w \in Workers : Worker(w) \/ WorkerCrash(w)
  BY <1>5 DEF Worker, WorkerCrash, WorkerStep
<1> QED  BY <1>1, <1>2, <1>3, <1>4, <1>5, NoRetryStep DEF Next

\* The values a function takes on a finite set are no more than the set's
\* elements.
LEMMA FiniteImage ==
    ASSUME NEW S, NEW T, NEW f \in [S -> T], IsFiniteSet(S)
    PROVE  /\ IsFiniteSet({f[x] : x \in S})
           /\ Cardinality({f[x] : x \in S}) <= Cardinality(S)
<1> DEFINE I == {f[x] : x \in S}
<1>1. f \in Surjection(S, I)
  BY DEF Surjection
<1> HIDE DEF I
<1>2. IsFiniteSet(I) /\ Cardinality(I) <= Cardinality(S)
  BY <1>1, FS_Surjection
<1> QED  BY <1>2 DEF I

-----------------------------------------------------------------------------
\* A campaign with faults.

\* A completed campaign counts every target as reported: its total is their
\* number, and no two rows are of one target.
CountedInv ==
    /\ optedOut = {}
    /\ \A x \in Retries : rpc[x] = "idle"
    /\ status \notin {"cancelled", "draft"}
    /\ Queued(rows) = {}
    /\ \A d \in Dispatches : dpc[d] = "idle" => dcount[d] = 0
    /\ \A d \in Dispatches : dpc[d] = "publish"
          => /\ IsFiniteSet(Targets \ dtodo[d])
             /\ dcount[d] = Cardinality(Targets \ dtodo[d])
    /\ total > 0 => IsFiniteSet(Targets) /\ total = Cardinality(Targets)
    /\ status = "completed" => total > 0 /\ Cardinality(Present(rows)) >= total
    /\ \A k \in Present(rows) : \E t \in Targets : RowOf[t] = k

LEMMA EveryTargetReported ==
    ASSUME CountedInv, status = "completed"
    PROVE  \A t \in Targets : Reported(t)
<1> DEFINE Homes == {RowOf[t] : t \in Targets}
<1>1. /\ IsFiniteSet(Targets) /\ total = Cardinality(Targets)
      /\ Cardinality(Present(rows)) >= Cardinality(Targets)
  BY DEF CountedInv
<1>2. IsFiniteSet(Homes) /\ Cardinality(Homes) \leq Cardinality(Targets)
  BY <1>1, LedgerAssumption, FiniteImage
<1>3. Present(rows) \subseteq Homes
  BY DEF CountedInv
<1>4. Present(rows) = Homes
  <2>1. IsFiniteSet(Present(rows)) /\ Cardinality(Present(rows)) \leq Cardinality(Homes)
          /\ (Cardinality(Present(rows)) = Cardinality(Homes) => Present(rows) = Homes)
    BY <1>2, <1>3, FS_Subset
  <2>2. Cardinality(Present(rows)) \in Nat /\ Cardinality(Homes) \in Nat
          /\ Cardinality(Targets) \in Nat
    BY <1>1, <1>2, <2>1, FS_CardinalityType
  <2> QED  BY <1>1, <1>2, <2>1, <2>2
<1> QED  BY <1>4 DEF Reported, Present

\* What each call still has to publish, and how many targets it has counted.
CallsCounted ==
    /\ \A d \in Dispatches : dpc[d] = "idle" => dcount[d] = 0
    /\ \A d \in Dispatches : dpc[d] = "publish"
          => /\ IsFiniteSet(Targets \ dtodo[d])
             /\ dcount[d] = Cardinality(Targets \ dtodo[d])

LEMMA CallsCountedStep ==
    ASSUME TypeInv, CallsCounted, optedOut = {}, [Next]_vars
    PROVE  CallsCounted'
<1> USE DEF TypeInv, TypeOK
<1>1. CASE UNCHANGED dispatchVars
  BY <1>1 DEF CallsCounted, dispatchVars
<1>2. ASSUME NEW d \in Dispatches, DispatchRequest(d) \/ Dispatch(d)
      PROVE  CallsCounted'
  <2>0. DispatchTypeOK
    OBVIOUS
  <2>1. \A c \in Dispatches : c # d => dpc'[c] = dpc[c] /\ dtodo'[c] = dtodo[c]
                                         /\ dcount'[c] = dcount[c]
    BY <1>2, <2>0 DEF DispatchTypeOK, DispatchRequest, Dispatch, DispatchRead, DispatchStep,
                DispatchPublish, DispatchMark, DispatchAbort
  <2>2. SUFFICES /\ dpc'[d] = "idle" => dcount'[d] = 0
                 /\ dpc'[d] = "publish"
                       => /\ IsFiniteSet(Targets \ dtodo'[d])
                          /\ dcount'[d] = Cardinality(Targets \ dtodo'[d])
    BY <2>1 DEF CallsCounted
  <2>3. CASE DispatchRead(d)
    <3>1. dpc'[d] # "idle" /\ dtodo'[d] = Targets /\ dcount'[d] = 0
      BY <2>0, <2>3 DEF DispatchRead, DispatchTypeOK, CallsCounted
    <3>2. IsFiniteSet(Targets \ Targets) /\ Cardinality(Targets \ Targets) = 0
      <4>1. Targets \ Targets = {}
        OBVIOUS
      <4> QED  BY <4>1, FS_EmptySet
    <3> QED  BY <3>1, <3>2
  <2>4. CASE DispatchPublish(d)
    <3>1. PICK t \in dtodo[d] : dtodo' = [dtodo EXCEPT ![d] = @ \ {t}]
      BY <2>4 DEF DispatchPublish
    <3>2. /\ dpc[d] = "publish" /\ dpc'[d] = "publish" /\ dcount'[d] = dcount[d] + 1
          /\ dtodo'[d] = dtodo[d] \ {t} /\ t \in Targets
      BY <2>0, <2>4, <3>1 DEF DispatchPublish, DispatchTypeOK
    <3>3. Targets \ dtodo'[d] = (Targets \ dtodo[d]) \cup {t} /\ t \notin Targets \ dtodo[d]
      BY <3>1, <3>2
    <3>4. IsFiniteSet(Targets \ dtodo[d]) /\ dcount[d] = Cardinality(Targets \ dtodo[d])
      BY <3>2 DEF CallsCounted
    <3>5. /\ IsFiniteSet((Targets \ dtodo[d]) \cup {t})
          /\ Cardinality((Targets \ dtodo[d]) \cup {t}) = Cardinality(Targets \ dtodo[d]) + 1
      BY <3>3, <3>4, FS_AddElement
    <3> QED  BY <3>2, <3>3, <3>4, <3>5
  <2>5. CASE DispatchMark(d) \/ DispatchAbort(d)
    BY <2>0, <2>5 DEF DispatchMark, DispatchAbort, DispatchTypeOK
  <2> QED  BY <1>2, <2>3, <2>4, <2>5 DEF DispatchRequest, Dispatch, DispatchStep
<1>3. UNCHANGED dispatchVars \/ \E d \in Dispatches : DispatchRequest(d) \/ Dispatch(d)
  BY StepKinds
  DEF OtherSteps, Operator, Contact, Telemetry, Redelivery, RetryRequest, Retry, Worker,
      WorkerCrash, vars
<1> QED  BY <1>1, <1>2, <1>3

\* What recording one receipt does to the rows.
LEMMA RecordedRows ==
    ASSUME TypeInv, NEW r \in receipts, RecordReceipt(r)
    PROVE  /\ Present(rows)' = Present(rows) \cup {RowOf[r.task.target]}
           /\ Queued(rows)' = Queued(rows) \ {RowOf[r.task.target]}
           /\ RowOf[r.task.target] \in Rows /\ r.task.target \in Targets
           /\ r.task \in TargetDispatchTask
           /\ rows'[RowOf[r.task.target]].status = r.outcome /\ r.outcome \in Outcomes
           /\ \A k \in Rows : k # RowOf[r.task.target] => rows'[k] = rows[k]
<1> DEFINE k == RowOf[r.task.target]
<1>1. r.task.target \in Targets /\ r.outcome \in Outcomes /\ r.task \in TargetDispatchTask
  BY DEF TypeInv, TypeOK, StreamTypeOK, TargetDeliveryResult, TargetDispatchTask
<1>2. k \in Rows
  BY <1>1, LedgerAssumption
<1>3. rows'[k].status = r.outcome /\ \A j \in Rows : j # k => rows'[j] = rows[j]
  BY <1>2 DEF RecordReceipt, RecordDeliveryResult, Upserted, TypeInv, TypeOK, LedgerTypeOK
<1>4. r.outcome # "absent" /\ r.outcome # "queued"
  BY <1>1 DEF Outcomes
<1> HIDE DEF k
<1>5. Present(rows)' = Present(rows) \cup {k}
  BY <1>2, <1>3, <1>4 DEF Present
<1>6. Queued(rows)' = Queued(rows) \ {k}
  BY <1>2, <1>3, <1>4 DEF Queued
<1> QED  BY <1>1, <1>2, <1>3, <1>5, <1>6 DEF k

\* Present rows are finitely many, and more of them count for more.
LEMMA PresentGrows ==
    ASSUME TypeInv, [Next]_vars
    PROVE  /\ IsFiniteSet(Present(rows)) /\ Cardinality(Present(rows)) \in Nat
           /\ Cardinality(Present(rows)') \in Nat
           /\ Present(rows) \subseteq Present(rows)'
           /\ Cardinality(Present(rows)) <= Cardinality(Present(rows)')
<1>1. Present(rows) \subseteq Rows /\ Present(rows)' \subseteq Rows
  BY DEF Present
<1>2. Present(rows) \subseteq Present(rows)'
  BY RowsAlwaysStay DEF Present, RowsStay
<1>3. IsFiniteSet(Present(rows)) /\ IsFiniteSet(Present(rows)')
  BY <1>1, LedgerAssumption, FS_Subset
<1>4. Cardinality(Present(rows)) <= Cardinality(Present(rows)')
  BY <1>2, <1>3, FS_Subset
<1> QED  BY <1>2, <1>3, <1>4, FS_CardinalityType

LEMMA CountedStep ==
    ASSUME TypeInv, CountedInv, [Next]_vars, FaultyStep
    PROVE  CountedInv'
<1>1. UNCHANGED <<optedOut, retryVars>> /\ (status' # status => status' \notin {"cancelled", "draft"})
  BY DEF FaultyStep, Faulty, vars, environmentVars, ledgerVars
<1>2. optedOut' = {} /\ \A x \in Retries : rpc'[x] = "idle"
  BY <1>1 DEF CountedInv, retryVars
<1>3. status' \notin {"cancelled", "draft"}
  BY <1>1 DEF CountedInv
<1>4. CallsCounted'
  BY CallsCountedStep DEF CountedInv, CallsCounted
<1>5. CASE UNCHANGED ledgerVars
  <2>1. Queued(rows)' = Queued(rows) /\ Present(rows)' = Present(rows)
          /\ status' = status /\ total' = total
    BY <1>5 DEF ledgerVars, Queued, Present
  <2> QED  BY <2>1, <1>2, <1>3, <1>4 DEF CountedInv, CallsCounted
<1>6. ASSUME NEW d \in Dispatches, DispatchMark(d)
      PROVE  CountedInv'
  <2>1. Queued(rows)' = Queued(rows) /\ Present(rows)' = Present(rows)
          /\ status' = "processing" /\ total' = dcount[d]
    BY <1>6 DEF DispatchMark, SetDispatching, Queued, Present
  <2>2. IsFiniteSet(Targets) /\ dcount[d] = Cardinality(Targets)
    <3>1. Targets \ dtodo[d] = Targets
      BY <1>6 DEF DispatchMark
    <3> QED  BY <1>6, <3>1 DEF CountedInv, DispatchMark
  <2> QED  BY <2>1, <2>2, <1>2, <1>3, <1>4 DEF CountedInv, CallsCounted
<1>7. ASSUME NEW s, UpdateStatus(s), s # "completed"
      PROVE  CountedInv'
  <2>1. Queued(rows)' = Queued(rows) /\ Present(rows)' = Present(rows)
          /\ status' # "completed" /\ total' = total
    BY <1>7 DEF UpdateStatus, Queued, Present
  <2> QED  BY <2>1, <1>2, <1>3, <1>4 DEF CountedInv, CallsCounted
<1>8. ASSUME NEW r \in receipts, RecordReceipt(r)
      PROVE  CountedInv'
  <2>1. Queued(rows)' = {} /\ \A k \in Present(rows)' : \E t \in Targets : RowOf[t] = k
    BY <1>8, RecordedRows DEF CountedInv
  <2>2. total' = total /\ total \in Nat /\ (status' = status \/ (status' = "completed"
          /\ total > 0 /\ Cardinality(Present(rows')) >= total))
    BY <1>8 DEF RecordReceipt, RecordDeliveryResult, Finished, TypeInv, TypeOK, LedgerTypeOK
  <2>3. Present(rows') = Present(rows)'
    BY DEF Present
  <2>4. status = "completed" => Cardinality(Present(rows)') >= total
    BY PresentGrows, <2>2 DEF CountedInv
  <2> QED  BY <2>1, <2>2, <2>3, <2>4, <1>2, <1>3, <1>4 DEF CountedInv, CallsCounted
<1> QED  BY <1>1, <1>5, <1>6, <1>7, <1>8, LedgerWithoutRetries DEF CountedInv

\* The inductive form of FaultyIsSettled.
SettledInv ==
    /\ CountedInv
    /\ TeleReported
    /\ AckedMeansRecorded
    /\ \A w \in Workers : wpc[w] = "settle" => Recorded(Task(w))

LEMMA SettledStep ==
    ASSUME "campaign_lookup" \notin FaultKinds, "expiry_publish" \notin FaultKinds,
           TypeInv, SettledInv, [Next]_vars, FaultyStep
    PROVE  SettledInv'
<1>1. CountedInv' /\ TeleReported'
  BY CountedStep, TeleStep DEF SettledInv
<1>2. \A m \in TargetDispatchTask : Recorded(m) => Recorded(m)'
  BY RecordedStays DEF SettledInv
<1>3. ASSUME NEW m \in acked'
      PROVE  Recorded(m)'
  <2>1. CASE m \in acked
    <3>1. m \in TargetDispatchTask /\ Recorded(m)
      BY <2>1 DEF SettledInv, AckedMeansRecorded, Recorded, TypeInv, TypeOK,
                  StreamTypeOK, TaskTypeOK
    <3> QED  BY <1>2, <3>1
  <2>2. CASE m \notin acked
    <3>1. PICK w \in Workers :
             /\ m = Task(w) /\ m \in TargetDispatchTask
             /\ \/ status = "cancelled"
                \/ CheckEnded(w) /\ Drop(w)
                \/ DeliveredTo(m.target)
                \/ Settle(w)
      BY <2>2, <1>3, AckedBy
    <3>2. status # "cancelled"
      BY DEF SettledInv, CountedInv
    <3>3. CASE CheckEnded(w) /\ Drop(w)
      <4>1. wpc[w] = "ended" /\ wpc'[w] = "idle"
        BY <3>3 DEF CheckEnded, Drop, Return, TypeInv, TypeOK, WorkerTypeOK
      <4>2. status = "completed"
        BY <3>3, <4>1 DEF CheckEnded, FaultIf, Fault, Proceed, Goto, TypeInv, TypeOK, WorkerTypeOK
      <4>3. m.target \in Targets
        BY <3>1 DEF TargetDispatchTask
      <4> QED  BY <1>2, <3>1, <4>2, <4>3, EveryTargetReported DEF SettledInv, Recorded
    <3>4. CASE DeliveredTo(m.target)
      BY <1>2, <3>1, <3>4 DEF DeliveredTo, Recorded, Reported
    <3>5. CASE Settle(w)
      BY <1>2, <3>1, <3>5 DEF Settle, SettledInv
    <3> QED  BY <3>1, <3>2, <3>3, <3>4, <3>5
  <2> QED  BY <2>1, <2>2
<1>4. AckedMeansRecorded'
  BY <1>3 DEF AckedMeansRecorded, Recorded
<1>5. ASSUME NEW w \in Workers, wpc'[w] = "settle"
      PROVE  Recorded(Task(w))'
  <2>1. PICK m \in TargetDispatchTask : m = Task(w) /\ m = Task(w)'
    BY <1>5, SettleFrom
  <2>2. CASE wpc[w] = "settle"
    BY <1>2, <2>1, <2>2 DEF SettledInv
  <2>3. CASE Expire(w)
    <3>1. [task |-> m, n |-> wjob[w].n, outcome |-> "refused"] \in receipts'
      BY <2>1, <2>3 DEF Expire, Fault, PublishResult
    <3> QED  BY <2>1, <3>1 DEF Recorded, Pending
  <2>4. CASE \E r \in receipts' : r.task = Task(w)
    BY <2>1, <2>4 DEF Recorded, Pending
  <2>5. Recorded(m)'
    BY <1>5, <2>1, <2>2, <2>3, <2>4, SettleFrom DEF Recorded
  <2> QED  BY <2>1, <2>5 DEF Recorded
<1> QED  BY <1>1, <1>4, <1>5 DEF SettledInv

LEMMA SettledInit == Init => SettledInv
<1> SUFFICES ASSUME Init PROVE SettledInv
  OBVIOUS
<1>1. \A k \in Rows : rows[k].status = "absent"
  BY DEF Init, LedgerInit, NoRow
<1>2. Present(rows) = {} /\ Queued(rows) = {}
  BY <1>1 DEF Present, Queued
<1>3. CountedInv
  BY <1>2 DEF Init, LedgerInit, EnvironmentInit, RetryInit, DispatchInit, CountedInv
<1>4. TeleReported /\ AckedMeansRecorded /\ \A w \in Workers : wpc[w] # "settle"
  BY DEF Init, TelemetryInit, StreamInit, WorkerInit, TeleReported, AckedMeansRecorded
<1> QED  BY <1>3, <1>4 DEF SettledInv

\* With any number of faults, calls and workers, where the lookup of the
\* campaign and the publication of an expiry do not fail: every acknowledged
\* task has left its outcome in the ledger or on its way there, and a campaign
\* completes only when every target has reported.
THEOREM FaultySettles ==
    ASSUME "campaign_lookup" \notin FaultKinds, "expiry_publish" \notin FaultKinds
    PROVE  SafetySpec => []FaultyIsSettled
<1> DEFINE Inv == TypeInv /\ (scenario = "faulty" => SettledInv)
<1>1. SafetyInit => Inv
  BY TypeInit, SettledInit DEF SafetyInit
<1>2. Inv /\ [SafetyNext]_<<vars, scenario>> => Inv'
  BY ScenarioSteps, TypeStep, SettledStep
<1>3. Inv => FaultyIsSettled
  BY DEF SettledInv, CountedInv, CompletedIsSettled, FaultyIsSettled
<1> QED  BY <1>1, <1>2, <1>3, PTL DEF SafetySpec

-----------------------------------------------------------------------------
\* Without faults: what a step does to the tokens a task leaves in the stream.

NoFaultStep == [Next]_vars /\ UNCHANGED faults

LEMMA NothingFails ==
    ASSUME TypeInv, UNCHANGED faults
    PROVE  \A kind : ~ Fault(kind)
BY DEF TypeInv, TypeOK, EnvironmentTypeOK, Fault

LEMMA NothingFailsIf ==
    ASSUME TypeInv, UNCHANGED faults
    PROVE  \A kind : \A failed \in BOOLEAN : FaultIf(failed, kind) => failed = FALSE
BY NothingFails DEF FaultIf

\* A worker takes a copy, moves on, puts its task back, publishes a result, or
\* acknowledges.
Takes(w) ==
    \E c \in copies :
        /\ wpc[w] = "idle"
        /\ copies' = copies \ {c}
        /\ wpc' = [wpc EXCEPT ![w] = "consent"]
        /\ wjob' = [wjob EXCEPT ![w] = c]
        /\ UNCHANGED <<published, acked, receipts, sends>>

Advances(w) ==
    \E step \in WorkerSteps \ {"idle", "settle"} :
        /\ wpc[w] \notin {"idle", "report", "settle"}
        /\ Goto(w, step)
        /\ UNCHANGED <<published, acked, copies, receipts>>
        /\ \/ UNCHANGED sends
           \/ wpc[w] = "send" /\ step = "report" /\ Accepted(w, 1)

PutsBack(w) ==
    /\ wpc[w] \in {"held", "send"}
    /\ Nak(Task(w))
    /\ Return(w)
    /\ UNCHANGED <<receipts, sends>>

Answers(w) ==
    /\ wpc[w] \in {"send", "report"}
    /\ \E r : r.task = Task(w) /\ receipts' = receipts \cup {r}
    /\ Goto(w, "settle")
    /\ UNCHANGED <<published, acked, copies, sends>>

Acknowledges(w) ==
    /\ wpc[w] # "idle"
    /\ Ack(Task(w))
    /\ Return(w)
    /\ UNCHANGED <<receipts, sends>>
    /\ \/ wpc[w] = "settle"
       \/ wpc[w] = "held" /\ status = "cancelled"
       \/ wpc[w] = "ended" /\ status = "completed"
       \/ wpc[w] = "dedup" /\ DeliveredTo(Task(w).target)

WorkerMove(w) == Takes(w) \/ Advances(w) \/ PutsBack(w) \/ Answers(w) \/ Acknowledges(w)

LEMMA WorkerMoves ==
    ASSUME TypeInv, UNCHANGED faults, NEW w \in Workers, Worker(w) \/ WorkerCrash(w)
    PROVE  WorkerMove(w) /\ UNCHANGED <<ledgerVars, tele>>
<1>0. UNCHANGED <<ledgerVars, tele>>
  BY DEF Worker, WorkerCrash, WorkerStep, telemetryVars
<1> SUFFICES WorkerMove(w)
  BY <1>0
<1>1. WorkerStep(w)
  BY NothingFails DEF Worker, WorkerCrash, Crash
<1>2. JobTypeOK /\ sends \in [Targets -> Nat]
  BY DEF TypeInv, TypeOK, WorkerTypeOK, JobTypeOK
<1>3. CASE \E c \in copies : Take(w, c)
  BY <1>3 DEF Take, TakeCopy, Takes, WorkerMove
<1>4. CASE CheckConsent(w)
  <2>1. wpc[w] = "consent" /\ (Goto(w, "report") \/ Goto(w, "held") \/ Goto(w, "ended"))
          /\ UNCHANGED <<published, acked, copies, receipts, sends>>
    BY <1>4 DEF CheckConsent, Conclude, Proceed, streamVars, taskVars
  <2> QED  BY <2>1 DEF Advances, WorkerMove, WorkerSteps
<1>5. CASE CheckHeld(w)
  <2>1. CASE status = "paused" /\ Nak(Task(w)) /\ Return(w) /\ UNCHANGED <<receipts, sends>>
    BY <1>5, <2>1 DEF CheckHeld, PutsBack, WorkerMove
  <2>2. CASE status = "cancelled" /\ Drop(w)
    BY <1>5, <2>2 DEF CheckHeld, Drop, Acknowledges, WorkerMove
  <2>3. CASE Proceed(w, "ended")
    BY <1>5, <2>3 DEF CheckHeld, Proceed, streamVars, taskVars, Advances, WorkerMove, WorkerSteps
  <2> QED  BY <1>5, <2>1, <2>2, <2>3 DEF CheckHeld
<1>6. CASE CheckEnded(w)
  <2>1. CASE status = "completed" /\ Drop(w)
    BY <1>6, <2>1 DEF CheckEnded, Drop, Acknowledges, WorkerMove
  <2>2. CASE Proceed(w, "dedup")
    BY <1>6, <2>2 DEF CheckEnded, Proceed, streamVars, taskVars, Advances, WorkerMove, WorkerSteps
  <2>3. PICK failed \in BOOLEAN :
          /\ FaultIf(failed, "campaign_lookup")
          /\ IF failed \/ status = "completed" THEN Drop(w) ELSE Proceed(w, "dedup")
    BY <1>6 DEF CheckEnded
  <2> QED  BY <2>1, <2>2, <2>3, NothingFailsIf
<1>7. CASE CheckDelivered(w)
  <2>1. CASE DeliveredTo(Task(w).target) /\ Ack(Task(w)) /\ Return(w) /\ UNCHANGED <<receipts, sends>>
    BY <1>7, <2>1 DEF CheckDelivered, Acknowledges, WorkerMove
  <2>2. CASE Proceed(w, "send")
    BY <1>7, <2>2 DEF CheckDelivered, Proceed, streamVars, taskVars, Advances, WorkerMove, WorkerSteps
  <2> QED  BY <1>7, <2>1, <2>2 DEF CheckDelivered
<1>8. CASE Expire(w)
  <2>1. PublishResult([task |-> Task(w), n |-> wjob[w].n, outcome |-> "refused"])
    BY <1>8, NothingFails DEF Expire
  <2> QED  BY <1>8, <2>1 DEF Expire, PublishResult, Answers, WorkerMove, taskVars
<1>9. CASE Send(w)
  <2>1. PICK lost \in 0..1 :
          /\ FaultIf(lost = 1, "reply_lost")
          /\ \/ Accepted(w, lost + 1) /\ Conclude(w, "delivered") /\ UNCHANGED streamVars
             \/ Accepted(w, lost) /\ (Conclude(w, "refused") \/ Conclude(w, "failed"))
                  /\ UNCHANGED streamVars
             \/ Accepted(w, lost) /\ Nak(Task(w)) /\ Return(w) /\ UNCHANGED receipts
    BY <1>9 DEF Send
  <2>2. lost = 0
    BY <2>1, NothingFails DEF FaultIf
  <2>3. wpc[w] = "send" /\ Task(w).target \in Targets
    BY <1>2, <1>9, JobTypes DEF Send, TargetDispatchTask
  <2>4. Accepted(w, 0) => UNCHANGED sends
    BY <1>2, <2>3 DEF Accepted
  <2>5. CASE Accepted(w, 1) /\ Conclude(w, "delivered") /\ UNCHANGED streamVars
    BY <2>3, <2>5 DEF Conclude, streamVars, taskVars, Advances, WorkerMove, WorkerSteps
  <2>6. CASE UNCHANGED sends /\ (Conclude(w, "refused") \/ Conclude(w, "failed")) /\ UNCHANGED streamVars
    BY <2>3, <2>6 DEF Conclude, streamVars, taskVars, Advances, WorkerMove, WorkerSteps
  <2>7. CASE UNCHANGED <<sends, receipts>> /\ Nak(Task(w)) /\ Return(w)
    BY <2>3, <2>7 DEF PutsBack, WorkerMove
  <2> QED  BY <2>1, <2>2, <2>4, <2>5, <2>6, <2>7
<1>10. CASE Report(w)
  <2>1. /\ PublishResult([task |-> Task(w), n |-> wjob[w].n, outcome |-> wout[w]])
        /\ Goto(w, "settle") /\ UNCHANGED taskVars /\ UNCHANGED sends /\ wpc[w] = "report"
    BY <1>10, NothingFails DEF Report
  <2> QED  BY <2>1 DEF PublishResult, Answers, WorkerMove, taskVars
<1>11. CASE Settle(w)
  BY <1>11 DEF Settle, Acknowledges, WorkerMove
<1> QED  BY <1>0, <1>1, <1>3, <1>4, <1>5, <1>6, <1>7, <1>8, <1>9, <1>10, <1>11 DEF WorkerStep

\* The other steps publish a task, deliver an orphan again, record a receipt or
\* finish with it, or leave all tokens where they are.
PublishesTask(m) ==
    /\ Publish(m)
    /\ UNCHANGED <<ledgerVars, receipts, tele>>
    /\ \/ \E d \in Dispatches : \E t \in dtodo[d] :
             /\ m = [call |-> d, target |-> t]
             /\ dpc[d] = "publish"
             /\ dtodo' = [dtodo EXCEPT ![d] = @ \ {t}]
             /\ dcount' = [dcount EXCEPT ![d] = @ + 1]
             /\ UNCHANGED <<dpc, retryVars>>
       \/ \E x \in Retries : \E k \in rtodo[x] :
             /\ m = [call |-> x, target |-> rows[k].owner]
             /\ rpc[x] = "publish"
             /\ rtodo' = [rtodo EXCEPT ![x] = @ \ {k}]
             /\ UNCHANGED <<dispatchVars, rpc, rseen, rfailed>>

Redelivers(m) ==
    /\ m \in published \ acked /\ ~ Waiting(m) /\ ~ InHand(m)
    /\ Push(m)
    /\ UNCHANGED <<published, acked, ledgerVars, receipts, tele>>

FinishesReceipt ==
    /\ tele # NoReceipt
    /\ tele' = NoReceipt
    /\ receipts' = receipts \ {tele}
    /\ Notify
    /\ UNCHANGED <<published, acked, copies, ledgerVars>>

OtherMove ==
    \/ \E m \in TargetDispatchTask : PublishesTask(m)
    \/ \E m \in TargetDispatchTask :
          Redelivers(m) /\ UNCHANGED <<dispatchVars, retryVars>>
    \/ \E r \in receipts : RecordReceipt(r) /\ UNCHANGED <<dispatchVars, retryVars>>
    \/ FinishesReceipt /\ UNCHANGED <<dispatchVars, retryVars>>
    \/ UNCHANGED <<published, acked, copies, receipts, tele>>

LEMMA DispatchPublishes ==
    ASSUME TypeInv, UNCHANGED faults, NEW d \in Dispatches, Dispatch(d), DispatchPublish(d)
    PROVE  \E m \in TargetDispatchTask : PublishesTask(m)
<1>1. PICK t \in dtodo[d] : Publish([call |-> d, target |-> t])
                              /\ dtodo' = [dtodo EXCEPT ![d] = @ \ {t}]
  BY NothingFails DEF DispatchPublish
<1>2. [call |-> d, target |-> t] \in TargetDispatchTask
  BY DEF TypeInv, TypeOK, DispatchTypeOK, TargetDispatchTask
<1>3. UNCHANGED <<ledgerVars, receipts, tele, dpc, retryVars>> /\ dpc[d] = "publish"
        /\ dcount' = [dcount EXCEPT ![d] = @ + 1]
  BY DEF Dispatch, DispatchPublish, telemetryVars
<1> QED  BY <1>1, <1>2, <1>3 DEF PublishesTask

LEMMA RetryPublishes ==
    ASSUME TypeInv, UNCHANGED faults, NEW x \in Retries, Retry(x), RetryPublish(x)
    PROVE  \E m \in TargetDispatchTask : PublishesTask(m)
<1>1. PICK k \in rtodo[x] : Publish([call |-> x, target |-> rows[k].owner])
                              /\ rtodo' = [rtodo EXCEPT ![x] = @ \ {k}] /\ UNCHANGED rfailed
  BY NothingFails DEF RetryPublish
<1>2. [call |-> x, target |-> rows[k].owner] \in TargetDispatchTask
  BY DEF TypeInv, TypeOK, RetryTypeOK, ClaimsExist, OwnersKnown, TargetDispatchTask
<1>3. UNCHANGED <<ledgerVars, receipts, tele, dispatchVars, rpc, rseen>> /\ rpc[x] = "publish"
  BY DEF Retry, RetryPublish, telemetryVars
<1> QED  BY <1>1, <1>2, <1>3 DEF PublishesTask

LEMMA OtherMoves ==
    ASSUME TypeInv, UNCHANGED faults, OtherSteps
    PROVE  OtherMove /\ UNCHANGED <<wpc, wjob, sends>>
<1>0. UNCHANGED <<wpc, wjob, sends>>
  BY OthersLeaveWorkers DEF workerVars
<1> USE DEF streamVars, taskVars, telemetryVars
<1>1. CASE Operator \/ Contact \/ UNCHANGED vars
  BY <1>0, <1>1 DEF Operator, Contact, vars, OtherMove
<1>2. CASE Telemetry
  BY <1>0, <1>2, NothingFails
  DEF Telemetry, TelemetryStep, FinishReceipt, FinishesReceipt, AckResult, OtherMove
<1>3. CASE \E m \in published : Redelivery(m)
  <2>1. PICK m \in published : Redelivery(m)
    BY <1>3
  <2>2. m \in TargetDispatchTask
    BY DEF TypeInv, TypeOK, StreamTypeOK, TaskTypeOK
  <2>3. Redelivers(m) /\ UNCHANGED <<dispatchVars, retryVars>>
    BY <2>1, NothingFails
    DEF Redelivery, RedeliverOrphan, RedeliverEarly, AckWaitExpires, Redelivers
  <2> QED  BY <1>0, <2>2, <2>3 DEF OtherMove
<1>4. ASSUME NEW d \in Dispatches, DispatchRequest(d) \/ Dispatch(d)
      PROVE  OtherMove
  <2>1. CASE Dispatch(d) /\ DispatchPublish(d)
    BY <2>1, DispatchPublishes DEF OtherMove
  <2>2. CASE UNCHANGED <<published, acked, copies, receipts>>
    BY <1>4, <2>2 DEF DispatchRequest, Dispatch, OtherMove
  <2> QED  BY <1>4, <2>1, <2>2
           DEF DispatchRequest, Dispatch, DispatchStep, DispatchRead, DispatchMark, DispatchAbort
<1>5. ASSUME NEW x \in Retries, RetryRequest(x) \/ Retry(x)
      PROVE  OtherMove
  <2>1. CASE Retry(x) /\ RetryPublish(x)
    BY <2>1, RetryPublishes DEF OtherMove
  <2>2. CASE UNCHANGED <<published, acked, copies, receipts>>
    BY <1>5, <2>2 DEF RetryRequest, Retry, OtherMove
  <2> QED  BY <1>5, <2>1, <2>2
           DEF RetryRequest, Retry, RetryStep, RetryRead, RetryClaim, RetryReopen,
               RetryPublished, RetryRelease, RetryRestore, RetryAbort
<1> QED  BY <1>0, <1>1, <1>2, <1>3, <1>4, <1>5 DEF OtherSteps

LEMMA Moves ==
    ASSUME TypeInv, NoFaultStep
    PROVE  \/ OtherSteps /\ OtherMove /\ UNCHANGED <<wpc, wjob, sends>>
           \/ \E w \in Workers : /\ WorkerMove(w) /\ UNCHANGED <<ledgerVars, tele>>
                                 /\ UNCHANGED <<dispatchVars, retryVars, notified>>
BY WorkerMoves, OtherMoves, StepKinds DEF NoFaultStep, Worker, WorkerCrash, telemetryVars

LEMMA WorkersDoNotPublish == \A w \in Workers : WorkerMove(w) => published' = published
BY DEF WorkerMove, Takes, Advances, PutsBack, Answers, Acknowledges, Nak, Ack, taskVars

\* Whatever is published, a call publishes.
LEMMA Publications ==
    ASSUME TypeInv, NoFaultStep
    PROVE  published' = published \/ \E m \in TargetDispatchTask : PublishesTask(m)
<1>1. OtherMove => published' = published \/ \E m \in TargetDispatchTask : PublishesTask(m)
  BY DEF OtherMove, Redelivers, RecordReceipt, FinishesReceipt, streamVars, taskVars
<1> QED  BY <1>1, WorkersDoNotPublish, Moves

\* Nothing published is taken back, and nothing acknowledged comes again.
LEMMA StreamGrows ==
    ASSUME TypeInv, NoFaultStep
    PROVE  published \subseteq published' /\ acked \subseteq acked'
<1>1. published \subseteq published'
  BY Publications DEF PublishesTask, Publish
<1>2. OtherMove => acked \subseteq acked'
  BY DEF OtherMove, PublishesTask, Publish, Redelivers, RecordReceipt, FinishesReceipt,
         streamVars, taskVars
<1>3. \A w \in Workers : WorkerMove(w) => acked \subseteq acked'
  BY DEF WorkerMove, Takes, Advances, PutsBack, Answers, Acknowledges, Nak, Ack, taskVars
<1> QED  BY <1>1, <1>2, <1>3, Moves

-----------------------------------------------------------------------------
\* Without faults a task leaves one token: a copy waiting, or a worker that has
\* it in hand, and neither once it is acknowledged.

TokenInv ==
    /\ acked \subseteq published
    /\ \A c \in copies : c.task \in published \ acked
    /\ \A w \in Workers : wpc[w] # "idle" => Task(w) \in published \ acked
    /\ \A b, c \in copies : b.task = c.task => b = c
    /\ \A v, w \in Workers :
          wpc[v] # "idle" /\ wpc[w] # "idle" /\ Task(v) = Task(w) => v = w
    /\ \A c \in copies : \A w \in Workers : wpc[w] # "idle" => c.task # Task(w)

\* No call publishes a task a second time.
FreshInv ==
    /\ \A d \in Dispatches : dpc[d] = "idle" => \A m \in published : m.call # d
    /\ \A d \in Dispatches : dpc[d] = "publish" =>
          \A t \in dtodo[d] : [call |-> d, target |-> t] \notin published
    /\ \A x \in Retries : rpc[x] \in {"idle", "claim"} => \A m \in published : m.call # x
    /\ \A x \in Retries : \A k \in rtodo[x] :
          [call |-> x, target |-> rows[k].owner] \notin published
    /\ \A k \in Rows : rows[k].status # "absent" => RowOf[rows[k].owner] = k

LEMMA PublishesNew ==
    ASSUME FreshInv, NEW m, PublishesTask(m)
    PROVE  m \notin published
BY DEF FreshInv, PublishesTask

\* A task that has no token gets one.
LEMMA PushOne ==
    ASSUME TypeInv, TokenInv, NEW m \in TargetDispatchTask, Push(m),
           published' = published \cup {m}, acked' = acked, m \notin acked,
           UNCHANGED <<wpc, wjob>>,
           \A c \in copies : c.task # m,
           \A w \in Workers : wpc[w] # "idle" => Task(w) # m
    PROVE  TokenInv'
<1>1. PICK c : c.task = m /\ copies' = copies \cup {c}
  BY DEF Push
<1>2. \A w \in Workers : Task(w)' = Task(w) /\ wpc'[w] = wpc[w]
  BY DEF Task
<1>3. /\ acked' \subseteq published'
      /\ \A b \in copies' : b.task \in published' \ acked'
      /\ \A w \in Workers : wpc'[w] # "idle" => Task(w)' \in published' \ acked'
  BY <1>1, <1>2 DEF TokenInv
<1>4. \A a, b \in copies' : a.task = b.task => a = b
  BY <1>1 DEF TokenInv
<1>5. \A b \in copies' : \A w \in Workers : wpc'[w] # "idle" => b.task # Task(w)'
  BY <1>1, <1>2 DEF TokenInv
<1>6. \A v, w \in Workers :
         wpc'[v] # "idle" /\ wpc'[w] # "idle" /\ Task(v)' = Task(w)' => v = w
  BY <1>2 DEF TokenInv
<1> QED  BY <1>3, <1>4, <1>5, <1>6 DEF TokenInv

\* What a worker's move does to the hands of all.
LEMMA Hands ==
    ASSUME TypeInv, NEW w \in Workers, WorkerMove(w)
    PROVE  /\ \A v \in Workers : v # w => wpc'[v] = wpc[v] /\ wjob'[v] = wjob[v]
           /\ Takes(w) => wpc'[w] = "consent" /\ wjob'[w] \in copies
                            /\ copies' = copies \ {wjob'[w]}
           /\ Advances(w) => wpc'[w] \notin {"idle", "settle"} /\ wpc[w] \notin {"idle", "settle"}
                               /\ wjob'[w] = wjob[w]
           /\ PutsBack(w) => wpc'[w] = "idle"
           /\ Answers(w) => wpc'[w] = "settle" /\ wjob'[w] = wjob[w]
           /\ Acknowledges(w) => wpc'[w] = "idle"
<1>1. JobTypeOK
  BY DEF TypeInv, TypeOK, WorkerTypeOK, JobTypeOK
<1>2. wpc \in [Workers -> WorkerSteps] /\ wjob \in [Workers -> Copies \cup {NoCopy}]
  BY <1>1 DEF JobTypeOK
<1>3. \A v \in Workers : v # w => wpc'[v] = wpc[v] /\ wjob'[v] = wjob[v]
  BY <1>2 DEF WorkerMove, Takes, Advances, PutsBack, Answers, Acknowledges, Goto, Return
<1>4. Takes(w) => wpc'[w] = "consent" /\ wjob'[w] \in copies /\ copies' = copies \ {wjob'[w]}
  BY <1>2 DEF Takes
<1>5. Advances(w) => wpc'[w] \notin {"idle", "settle"} /\ wpc[w] \notin {"idle", "settle"}
                       /\ wjob'[w] = wjob[w]
  BY <1>2 DEF Advances, Goto
<1>6. PutsBack(w) => wpc'[w] = "idle"
  BY <1>2 DEF PutsBack, Return
<1>7. Answers(w) => wpc'[w] = "settle" /\ wjob'[w] = wjob[w]
  BY <1>2 DEF Answers, Goto
<1>8. Acknowledges(w) => wpc'[w] = "idle"
  BY <1>2 DEF Acknowledges, Return
<1> QED  BY <1>3, <1>4, <1>5, <1>6, <1>7, <1>8

LEMMA TokenStep ==
    ASSUME TypeInv, TokenInv, FreshInv, NoFaultStep
    PROVE  TokenInv'
<1>1. ASSUME OtherMove, UNCHANGED <<wpc, wjob>>
      PROVE  TokenInv'
  <2>0. \A w \in Workers : Task(w)' = Task(w) /\ wpc'[w] = wpc[w]
    BY <1>1 DEF Task
  <2>1. ASSUME NEW m \in TargetDispatchTask, PublishesTask(m)
        PROVE  TokenInv'
    <3>1. m \notin published
      BY <2>1, PublishesNew
    <3>2. Push(m) /\ published' = published \cup {m} /\ acked' = acked
      BY <2>1 DEF PublishesTask, Publish
    <3>3. /\ m \notin acked /\ \A c \in copies : c.task # m
          /\ \A w \in Workers : wpc[w] # "idle" => Task(w) # m
      BY <3>1 DEF TokenInv
    <3> QED  BY <1>1, <3>2, <3>3, PushOne
  <2>2. ASSUME NEW m \in TargetDispatchTask, Redelivers(m)
        PROVE  TokenInv'
    <3>1. Push(m) /\ published' = published \cup {m} /\ acked' = acked /\ m \notin acked
      BY <2>2 DEF Redelivers
    <3>2. /\ \A c \in copies : c.task # m
          /\ \A w \in Workers : wpc[w] # "idle" => Task(w) # m
      BY <2>2 DEF Redelivers, Waiting, InHand
    <3> QED  BY <1>1, <3>1, <3>2, PushOne
  <2>3. CASE UNCHANGED <<published, acked, copies>>
    BY <2>0, <2>3 DEF TokenInv
  <2> QED  BY <1>1, <2>1, <2>2, <2>3
           DEF OtherMove, RecordReceipt, streamVars, taskVars, FinishesReceipt
<1>2. ASSUME NEW w \in Workers, WorkerMove(w)
      PROVE  TokenInv'
  <2>0. \A v \in Workers : v # w => wpc'[v] = wpc[v] /\ Task(v)' = Task(v)
    BY <1>2, Hands DEF Task
  <2>1. CASE Takes(w)
    <3>1. /\ wpc'[w] = "consent" /\ wjob'[w] \in copies /\ copies' = copies \ {wjob'[w]}
          /\ Task(w)' = wjob'[w].task
      BY <1>2, <2>1, Hands DEF Task
    <3>2. UNCHANGED <<published, acked>>
      BY <2>1 DEF Takes
    <3>3. \A v \in Workers : v # w /\ wpc'[v] # "idle" => Task(v)' # Task(w)'
      BY <2>0, <3>1 DEF TokenInv
    <3>4. \A c \in copies' : c.task # Task(w)'
      BY <3>1 DEF TokenInv
    <3>5. \A v, u \in Workers :
             wpc'[v] # "idle" /\ wpc'[u] # "idle" /\ Task(v)' = Task(u)' => v = u
      BY <2>0, <3>3 DEF TokenInv
    <3>6. \A c \in copies' : \A v \in Workers : wpc'[v] # "idle" => c.task # Task(v)'
      BY <2>0, <3>1, <3>4 DEF TokenInv
    <3>7. /\ \A c \in copies' : c.task \in published' \ acked'
          /\ \A v \in Workers : wpc'[v] # "idle" => Task(v)' \in published' \ acked'
      BY <2>0, <3>1, <3>2 DEF TokenInv
    <3>8. acked' \subseteq published' /\ \A b, c \in copies' : b.task = c.task => b = c
      BY <3>1, <3>2 DEF TokenInv
    <3> QED  BY <3>5, <3>6, <3>7, <3>8 DEF TokenInv
  <2>2. CASE Advances(w) \/ Answers(w)
    <3>1. wpc[w] # "idle" /\ wpc'[w] # "idle" /\ Task(w)' = Task(w)
      BY <1>2, <2>2, Hands DEF Task, Answers
    <3>2. UNCHANGED <<published, acked, copies>>
      BY <2>2 DEF Advances, Answers
    <3>3. \A v \in Workers : Task(v)' = Task(v) /\ (wpc'[v] # "idle" <=> wpc[v] # "idle")
      BY <2>0, <3>1
    <3> QED  BY <3>2, <3>3 DEF TokenInv
  <2>3. CASE PutsBack(w)
    <3>1. wpc'[w] = "idle" /\ wpc[w] # "idle" /\ Task(w) \in published \ acked
      BY <1>2, <2>3, Hands DEF PutsBack, TokenInv
    <3>2. PICK c : c.task = Task(w) /\ copies' = copies \cup {c}
      BY <2>3, <3>1 DEF PutsBack, Nak, Push
    <3>3. UNCHANGED <<published, acked>>
      BY <2>3, <3>1 DEF PutsBack, Nak
    <3>4. \A v \in Workers : wpc'[v] # "idle" => v # w /\ wpc[v] # "idle" /\ Task(v)' = Task(v)
                                                  /\ Task(v) # Task(w)
      BY <2>0, <3>1 DEF TokenInv
    <3>5. \A b \in copies' : b \in copies \/ b = c
      BY <3>2
    <3>6. \A b \in copies : b.task # Task(w)
      BY <3>1 DEF TokenInv
    <3>7. /\ acked' \subseteq published'
          /\ \A b \in copies' : b.task \in published' \ acked'
          /\ \A v \in Workers : wpc'[v] # "idle" => Task(v)' \in published' \ acked'
      BY <3>1, <3>2, <3>3, <3>4, <3>5 DEF TokenInv
    <3>8. \A a, b \in copies' : a.task = b.task => a = b
      BY <3>2, <3>5, <3>6 DEF TokenInv
    <3>9. \A v, u \in Workers :
             wpc'[v] # "idle" /\ wpc'[u] # "idle" /\ Task(v)' = Task(u)' => v = u
      BY <3>4 DEF TokenInv
    <3>10. \A b \in copies' : \A v \in Workers : wpc'[v] # "idle" => b.task # Task(v)'
      BY <3>2, <3>4, <3>5 DEF TokenInv
    <3> QED  BY <3>7, <3>8, <3>9, <3>10 DEF TokenInv
  <2>4. CASE Acknowledges(w)
    <3>1. wpc'[w] = "idle" /\ wpc[w] # "idle" /\ Task(w) \in published \ acked
      BY <1>2, <2>4, Hands DEF Acknowledges, TokenInv
    <3>2. acked' = acked \cup {Task(w)} /\ UNCHANGED <<published, copies>>
      BY <2>4 DEF Acknowledges, Ack
    <3>3. \A v \in Workers : wpc'[v] # "idle" => v # w /\ wpc[v] # "idle" /\ Task(v)' = Task(v)
                                                  /\ Task(v) # Task(w)
      BY <2>0, <3>1 DEF TokenInv
    <3>4. \A b \in copies : b.task # Task(w)
      BY <3>1 DEF TokenInv
    <3> QED  BY <3>1, <3>2, <3>3, <3>4 DEF TokenInv
  <2> QED  BY <1>2, <2>1, <2>2, <2>3, <2>4 DEF WorkerMove
<1> QED  BY <1>1, <1>2, Moves

-----------------------------------------------------------------------------
\* Results.

\* A worker is through with a task: its result is out, or it is acknowledged.
Out(m) == m \in acked \/ \E w \in Workers : wpc[w] = "settle" /\ Task(w) = m

\* A task is published once and its result comes once, after the provider call.
ResultsInv ==
    /\ \A r \in receipts : Out(r.task) /\ r.task \in published
    /\ \A q, r \in receipts : q.task = r.task => q = r
    /\ tele # NoReceipt => tele \in receipts

\* Through with it once, through with it for good.
LEMMA OutStays ==
    ASSUME TypeInv, NoFaultStep
    PROVE  \A m : Out(m) => Out(m)'
<1> SUFFICES ASSUME NEW m, Out(m) PROVE Out(m)'
  OBVIOUS
<1>0. Out(m)' <=> m \in acked' \/ \E w \in Workers : wpc'[w] = "settle" /\ Task(w)' = m
  BY DEF Out
<1>1. acked \subseteq acked'
  BY StreamGrows
<1>2. CASE m \in acked
  BY <1>0, <1>1, <1>2
<1>3. ASSUME NEW w \in Workers, wpc[w] = "settle", Task(w) = m
      PROVE  Out(m)'
  <2>1. CASE UNCHANGED <<wpc, wjob>>
    BY <1>0, <1>3, <2>1 DEF Task
  <2>2. ASSUME NEW v \in Workers, WorkerMove(v)
        PROVE  Out(m)'
    <3>1. CASE v # w
      BY <1>0, <1>3, <2>2, <3>1, Hands DEF Task
    <3>2. CASE v = w
      <4>1. Acknowledges(w)
        BY <1>3, <2>2, <3>2 DEF WorkerMove, Takes, Advances, PutsBack, Answers
      <4> QED  BY <1>0, <1>3, <4>1 DEF Acknowledges, Ack
    <3> QED  BY <3>1, <3>2
  <2> QED  BY <2>1, <2>2, Moves
<1> QED  BY <1>2, <1>3 DEF Out

LEMMA ResultsStep ==
    ASSUME TypeInv, TokenInv, ResultsInv, NoFaultStep
    PROVE  ResultsInv'
<1>1. published \subseteq published'
  BY StreamGrows
<1>2. CASE receipts' \subseteq receipts /\ (tele' # NoReceipt => tele' \in receipts')
  <2>1. \A r \in receipts' : Out(r.task)' /\ r.task \in published'
    BY <1>1, <1>2, OutStays DEF ResultsInv
  <2>2. \A q, r \in receipts' : q.task = r.task => q = r
    BY <1>2 DEF ResultsInv
  <2> QED  BY <1>2, <2>1, <2>2 DEF ResultsInv
<1>3. CASE OtherMove
  <2>1. receipts' \subseteq receipts /\ (tele' # NoReceipt => tele' \in receipts')
    BY <1>3 DEF OtherMove, PublishesTask, Redelivers, RecordReceipt, FinishesReceipt,
                streamVars, ResultsInv
  <2> QED  BY <1>2, <2>1
<1>4. ASSUME NEW w \in Workers, WorkerMove(w), UNCHANGED tele
      PROVE  ResultsInv'
  <2>1. CASE Answers(w)
    <3>1. PICK r : r.task = Task(w) /\ receipts' = receipts \cup {r}
      BY <2>1 DEF Answers
    <3>2. wpc[w] # "idle" /\ wpc[w] # "settle" /\ wpc'[w] = "settle" /\ Task(w)' = Task(w)
      BY <1>4, <2>1, Hands DEF Answers, Task
    <3>3. Task(w) \in published \ acked
      BY <3>2 DEF TokenInv
    <3>4. Out(r.task)'
      BY <3>1, <3>2 DEF Out
    <3>5. ~ Out(Task(w))
      BY <3>2, <3>3 DEF Out, TokenInv
    <3>6. \A q \in receipts : q.task # r.task
      BY <3>1, <3>5 DEF ResultsInv
    <3>7. \A q \in receipts' : Out(q.task)' /\ q.task \in published'
      BY <1>1, <3>1, <3>3, <3>4, OutStays DEF ResultsInv
    <3>8. \A p, q \in receipts' : p.task = q.task => p = q
      BY <3>1, <3>6 DEF ResultsInv
    <3> QED  BY <1>4, <3>1, <3>7, <3>8 DEF ResultsInv
  <2>2. CASE receipts' = receipts
    BY <1>2, <1>4, <2>2 DEF ResultsInv
  <2> QED  BY <1>4, <2>1, <2>2 DEF WorkerMove, Takes, Advances, PutsBack, Acknowledges
<1> QED  BY <1>3, <1>4, Moves

\* A row that exists keeps its owner, and its owner's row is this one.
OwnersAtHome == \A k \in Rows : rows[k].status # "absent" => RowOf[rows[k].owner] = k

LEMMA OwnersStay ==
    ASSUME TypeInv, OwnersAtHome, [Next]_vars
    PROVE  /\ OwnersAtHome'
           /\ \A k \in Rows : rows[k].status # "absent" => rows'[k].owner = rows[k].owner
<1>1. LedgerTypeOK
  BY DEF TypeInv, TypeOK
<1>2. CASE rows' = rows
  BY <1>2 DEF OwnersAtHome
<1>3. ASSUME NEW r \in receipts, RecordDeliveryResult(r.task.target, r.outcome)
      PROVE  /\ OwnersAtHome'
             /\ \A k \in Rows : rows[k].status # "absent" => rows'[k].owner = rows[k].owner
  <2>1. r.task.target \in Targets
    BY DEF TypeInv, TypeOK, StreamTypeOK, TargetDeliveryResult, TargetDispatchTask
  <2> QED
    BY <1>1, <1>3, <2>1 DEF RecordDeliveryResult, Upserted, LedgerTypeOK, OwnersAtHome
<1>4. ASSUME NEW ids, ClaimDeliveriesForRetry(ids) \/ ReleaseDeliveryClaims(ids)
      PROVE  /\ OwnersAtHome'
             /\ \A k \in Rows : rows[k].status # "absent" => rows'[k].owner = rows[k].owner
  <2>1. \A k \in Rows : rows'[k].owner = rows[k].owner
                          /\ (rows'[k].status # "absent" => rows[k].status # "absent")
    BY <1>1, <1>4 DEF ClaimDeliveriesForRetry, ReleaseDeliveryClaims, Claimable, LedgerTypeOK
  <2> QED  BY <2>1 DEF OwnersAtHome
<1> QED  BY <1>2, <1>3, <1>4, LedgerStatements
         DEF LedgerSteps, ledgerVars, SetDispatching, UpdateStatus

\* How the calls' own progress can go.
LEMMA CallSteps ==
    ASSUME TypeInv, [Next]_vars
    PROVE  /\ \A d \in Dispatches : dpc'[d] = "idle" => dpc[d] = "idle"
           /\ \A d \in Dispatches : dpc'[d] = "publish"
                 => dpc[d] = "idle" \/ (dpc[d] = "publish" /\ dtodo'[d] \subseteq dtodo[d])
           /\ \A x \in Retries : rpc'[x] \in {"idle", "claim"} => rpc[x] \in {"idle", "claim"}
           /\ \A x \in Retries : rtodo'[x] \subseteq rtodo[x] \/ rpc[x] = "claim"
<1>1. DispatchTypeOK /\ RetryTypeOK
  BY DEF TypeInv, TypeOK
<1> DEFINE DG == /\ \A d \in Dispatches : dpc'[d] = "idle" => dpc[d] = "idle"
                 /\ \A d \in Dispatches : dpc'[d] = "publish"
                      => dpc[d] = "idle" \/ (dpc[d] = "publish" /\ dtodo'[d] \subseteq dtodo[d])
           RG == /\ \A x \in Retries : rpc'[x] \in {"idle", "claim"} => rpc[x] \in {"idle", "claim"}
                 /\ \A x \in Retries : rtodo'[x] \subseteq rtodo[x] \/ rpc[x] = "claim"
<1>2. UNCHANGED dispatchVars => DG
  BY DEF dispatchVars
<1>3. UNCHANGED retryVars => RG
  BY DEF retryVars
<1>4. ASSUME NEW d \in Dispatches, DispatchRequest(d) \/ Dispatch(d)
      PROVE  DG /\ RG
  <2>1. DG
    BY <1>1, <1>4 DEF DispatchTypeOK, DispatchRequest, Dispatch, DispatchRead, DispatchStep,
                DispatchPublish, DispatchMark, DispatchAbort
  <2> QED  BY <1>3, <1>4, <2>1 DEF DispatchRequest, Dispatch
<1>5. ASSUME NEW x \in Retries, RetryRequest(x) \/ Retry(x)
      PROVE  DG /\ RG
  <2>1. \A y \in Retries : y # x => rpc'[y] = rpc[y] /\ rtodo'[y] = rtodo[y]
    BY <1>1, <1>5
    DEF RetryTypeOK, RetryRequest, Retry, RetryRead, RetryStep, RetryClaim, RetryReopen,
        RetryPublish, RetryPublished, RetryRelease, RetryRestore, RetryAbort, RetryGoto
  <2>2. ASSUME RetryRead(x) \/ RetryClaim(x)
        PROVE  RG
    BY <1>1, <2>1, <2>2 DEF RetryTypeOK, RetryRead, RetryClaim, RetryGoto
  <2>3. ASSUME RetryReopen(x) \/ RetryPublish(x) \/ RetryPublished(x) \/ RetryRelease(x)
                 \/ RetryRestore(x) \/ RetryAbort(x)
        PROVE  RG
    <3>1. rtodo'[x] \subseteq rtodo[x]
      BY <1>1, <2>3
      DEF RetryTypeOK, RetryReopen, RetryPublish, RetryPublished, RetryRelease,
          RetryRestore, RetryAbort
    <3>2. rpc'[x] \notin {"idle", "claim"}
      BY <1>1, <2>3
      DEF RetryTypeOK, RetryReopen, RetryPublish, RetryPublished, RetryRelease,
          RetryRestore, RetryAbort, RetryGoto
    <3> QED  BY <2>1, <3>1, <3>2
  <2>4. RG
    BY <1>5, <2>2, <2>3 DEF RetryRequest, Retry, RetryStep
  <2> QED  BY <1>2, <1>5, <2>4 DEF RetryRequest, Retry
<1>6. \/ UNCHANGED <<dispatchVars, retryVars>>
      \/ \E d \in Dispatches : DispatchRequest(d) \/ Dispatch(d)
      \/ \E x \in Retries : RetryRequest(x) \/ Retry(x)
  BY StepKinds
  DEF OtherSteps, Operator, Contact, Telemetry, Redelivery, Worker, WorkerCrash, vars
<1> QED  BY <1>2, <1>3, <1>4, <1>5, <1>6

LEMMA FreshStep ==
    ASSUME TypeInv, FreshInv, NoFaultStep
    PROVE  FreshInv'
<1>0. [Next]_vars /\ OwnersAtHome
  BY DEF NoFaultStep, FreshInv, OwnersAtHome
<1>1. OwnersAtHome'
  BY <1>0, OwnersStay
<1>2. \A x \in Retries : \A k \in rtodo[x] : k \in Rows /\ rows[k].status # "absent"
  BY DEF TypeInv, TypeOK, RetryTypeOK, ClaimsExist
<1>3. CASE published' = published
  <2>1. \A d \in Dispatches : dpc'[d] = "idle" => \A m \in published' : m.call # d
    BY <1>0, <1>3, CallSteps DEF FreshInv
  <2>2. ASSUME NEW d \in Dispatches, dpc'[d] = "publish", NEW t \in dtodo'[d]
        PROVE  [call |-> d, target |-> t] \notin published'
    BY <1>0, <1>3, <2>2, CallSteps DEF FreshInv
  <2>3. \A x \in Retries : rpc'[x] \in {"idle", "claim"} => \A m \in published' : m.call # x
    BY <1>0, <1>3, CallSteps DEF FreshInv
  <2>4. ASSUME NEW x \in Retries, NEW k \in rtodo'[x]
        PROVE  [call |-> x, target |-> rows'[k].owner] \notin published'
    <3>1. CASE k \in rtodo[x]
      BY <1>0, <1>2, <1>3, <3>1, OwnersStay DEF FreshInv
    <3>2. CASE rpc[x] = "claim"
      BY <1>3, <3>2 DEF FreshInv
    <3> QED  BY <1>0, <3>1, <3>2, CallSteps
  <2> QED  BY <1>1, <2>1, <2>2, <2>3, <2>4 DEF FreshInv, OwnersAtHome
<1>4. ASSUME NEW m \in TargetDispatchTask, PublishesTask(m)
      PROVE  FreshInv'
  <2>1. published' = published \cup {m} /\ rows' = rows
    BY <1>4 DEF PublishesTask, Publish, ledgerVars
  <2>2. \A d \in Dispatches : \A x \in Retries : d # x
    BY ContractsAssumption
  <2>3. DispatchTypeOK /\ RetryTypeOK
    BY DEF TypeInv, TypeOK
  <2>4. ASSUME NEW d \in Dispatches, NEW t \in dtodo[d], m = [call |-> d, target |-> t],
               dpc[d] = "publish", dtodo' = [dtodo EXCEPT ![d] = @ \ {t}],
               UNCHANGED <<dpc, retryVars>>
        PROVE  FreshInv'
    <3>1. m.call = d /\ m.target = t
      BY <2>4
    <3>2. \A c \in Dispatches : dpc'[c] = "idle" => \A n \in published' : n.call # c
      BY <2>1, <2>4, <3>1 DEF FreshInv
    <3>3. ASSUME NEW c \in Dispatches, dpc'[c] = "publish", NEW s \in dtodo'[c]
          PROVE  [call |-> c, target |-> s] \notin published'
      <4>1. s \in dtodo[c] /\ dpc[c] = "publish" /\ (c = d => s # t)
        BY <2>3, <2>4, <3>3 DEF DispatchTypeOK
      <4>2. [call |-> c, target |-> s] # m
        BY <2>4, <4>1
      <4> QED  BY <2>1, <4>1, <4>2 DEF FreshInv
    <3>4. \A x \in Retries : rpc'[x] \in {"idle", "claim"} => \A n \in published' : n.call # x
      BY <2>1, <2>2, <2>4, <3>1 DEF FreshInv, retryVars
    <3>5. \A x \in Retries : \A k \in rtodo'[x] :
             [call |-> x, target |-> rows'[k].owner] \notin published'
      BY <2>1, <2>2, <2>4, <3>1 DEF FreshInv, retryVars
    <3> QED  BY <1>1, <3>2, <3>3, <3>4, <3>5 DEF FreshInv, OwnersAtHome
  <2>5. ASSUME NEW x \in Retries, NEW k \in rtodo[x], m = [call |-> x, target |-> rows[k].owner],
               rpc[x] = "publish", rtodo' = [rtodo EXCEPT ![x] = @ \ {k}],
               UNCHANGED <<dispatchVars, rpc>>
        PROVE  FreshInv'
    <3>1. m.call = x /\ m.target = rows[k].owner
      BY <2>5
    <3>2. /\ \A c \in Dispatches : dpc'[c] = "idle" => \A n \in published' : n.call # c
          /\ \A c \in Dispatches : dpc'[c] = "publish" =>
                \A s \in dtodo'[c] : [call |-> c, target |-> s] \notin published'
      BY <2>1, <2>2, <2>5, <3>1 DEF FreshInv, dispatchVars
    <3>4. \A y \in Retries : rpc'[y] \in {"idle", "claim"} => \A n \in published' : n.call # y
      BY <2>1, <2>5, <3>1 DEF FreshInv
    <3>5. ASSUME NEW y \in Retries, NEW j \in rtodo'[y]
          PROVE  [call |-> y, target |-> rows'[j].owner] \notin published'
      <4>1. j \in rtodo[y] /\ (y = x => j # k)
        BY <2>3, <2>5, <3>5 DEF RetryTypeOK
      <4>2. y = x => rows[j].owner # rows[k].owner
        BY <1>2, <4>1 DEF FreshInv
      <4>3. [call |-> y, target |-> rows[j].owner] # m
        BY <2>5, <4>2
      <4> QED  BY <2>1, <4>1, <4>3 DEF FreshInv
    <3> QED  BY <1>1, <3>2, <3>4, <3>5 DEF FreshInv, OwnersAtHome
  <2> QED  BY <1>4, <2>4, <2>5 DEF PublishesTask
<1> QED  BY <1>3, <1>4, Publications

-----------------------------------------------------------------------------
\* A published task is open until its result is recorded, or a guard has
\* acknowledged it without one.
Open(m) == m \in published /\ (~ Out(m) \/ \E r \in receipts : r # tele /\ r.task = m)

SmoothInv == TokenInv /\ ResultsInv /\ FreshInv

LEMMA SmoothInit == Init => SmoothInv
<1> SUFFICES ASSUME Init PROVE SmoothInv
  OBVIOUS
<1>1. TokenInv
  BY DEF Init, StreamInit, WorkerInit, TokenInv
<1>2. ResultsInv
  BY DEF Init, StreamInit, TelemetryInit, ResultsInv
<1>3. FreshInv
  BY DEF Init, StreamInit, LedgerInit, NoRow, DispatchInit, RetryInit, FreshInv
<1> QED  BY <1>1, <1>2, <1>3 DEF SmoothInv

LEMMA SmoothStep ==
    ASSUME TypeInv, SmoothInv, NoFaultStep
    PROVE  SmoothInv'
BY TokenStep, ResultsStep, FreshStep DEF SmoothInv

\* Only publication opens a task.
LEMMA OpenFrom ==
    ASSUME TypeInv, SmoothInv, NoFaultStep, NEW m, Open(m)'
    PROVE  Open(m) \/ (m \in published' /\ m \notin published)
<1>1. m \in published' /\ (~ Out(m)' \/ \E r \in receipts' : r # tele' /\ r.task = m)
  BY DEF Open, Out
<1>2. CASE m \in published /\ ~ Out(m)'
  BY <1>2, OutStays DEF Open
<1>3. ASSUME NEW r \in receipts', r # tele', r.task = m, m \in published
      PROVE  Open(m)
  <2>1. CASE r \in receipts
    <3>1. CASE tele' = tele
      BY <1>3, <2>1, <3>1 DEF Open
    <3>2. CASE FinishesReceipt
      BY <1>3, <2>1, <3>2 DEF FinishesReceipt, Open
    <3>3. CASE tele = NoReceipt
      <4>1. r # NoReceipt
        BY <2>1, TelemetryAssumption DEF TypeInv, TypeOK, StreamTypeOK
      <4> QED  BY <1>3, <2>1, <3>3, <4>1 DEF Open
    <3>4. OtherMove => tele' = tele \/ FinishesReceipt \/ tele = NoReceipt
      BY DEF OtherMove, PublishesTask, Redelivers, RecordReceipt
    <3> QED  BY <3>1, <3>2, <3>3, <3>4, Moves
  <2>2. CASE r \notin receipts
    <3>1. OtherMove => receipts' \subseteq receipts
      BY DEF OtherMove, PublishesTask, Redelivers, RecordReceipt, FinishesReceipt, streamVars
    <3>2. PICK w \in Workers : WorkerMove(w)
      BY <1>3, <2>2, <3>1, Moves
    <3>3. Answers(w) /\ r.task = Task(w)
      BY <2>2, <1>3, <3>2 DEF WorkerMove, Takes, Advances, PutsBack, Answers, Acknowledges
    <3>4. wpc[w] # "idle" /\ wpc[w] # "settle"
      BY <3>3 DEF Answers
    <3>5. ~ Out(m)
      BY <1>3, <3>3, <3>4 DEF Out, SmoothInv, TokenInv
    <3> QED  BY <1>3, <3>5 DEF Open
  <2> QED  BY <2>1, <2>2
<1> QED  BY <1>1, <1>2, <1>3

\* An open task closes when its result is recorded, or a guard acknowledges it
\* without one.
LEMMA OpenUntil ==
    ASSUME TypeInv, SmoothInv, NoFaultStep, NEW m, Open(m), ~ Open(m)'
    PROVE  \/ \E r \in receipts : RecordReceipt(r) /\ r.task = m
           \/ \E w \in Workers :
                 /\ WorkerMove(w) /\ Acknowledges(w) /\ m = Task(w) /\ UNCHANGED ledgerVars
                 /\ \/ wpc[w] = "held" /\ status = "cancelled"
                    \/ wpc[w] = "ended" /\ status = "completed"
                    \/ wpc[w] = "dedup" /\ DeliveredTo(m.target)
<1>0. m \in published' => Out(m)' /\ \A r \in receipts' : r.task = m => r = tele'
  BY DEF Open, Out
<1>1. m \in published /\ m \in published'
  BY StreamGrows DEF Open
<1>2. CASE OtherMove /\ UNCHANGED <<wpc, wjob>>
  <2>1. acked' = acked
    BY <1>2 DEF OtherMove, PublishesTask, Publish, Redelivers, RecordReceipt, FinishesReceipt,
                streamVars, taskVars
  <2>2. Out(m)
    BY <1>0, <1>1, <1>2, <2>1 DEF Out, Task
  <2>3. PICK r \in receipts : r # tele /\ r.task = m
    BY <2>2 DEF Open
  <2>4. r \in receipts'
    BY <1>2, <2>3 DEF OtherMove, PublishesTask, Redelivers, RecordReceipt, FinishesReceipt,
                      streamVars
  <2>5. r = tele'
    BY <1>0, <1>1, <2>3, <2>4
  <2>6. r # NoReceipt
    BY TelemetryAssumption DEF TypeInv, TypeOK, StreamTypeOK
  <2>7. RecordReceipt(r)
    BY <1>2, <2>3, <2>5, <2>6 DEF OtherMove, PublishesTask, Redelivers, RecordReceipt, FinishesReceipt
  <2> QED  BY <2>3, <2>7
<1>3. ASSUME NEW w \in Workers, WorkerMove(w), UNCHANGED <<ledgerVars, tele>>
      PROVE  Acknowledges(w) /\ m = Task(w)
               /\ \/ wpc[w] = "held" /\ status = "cancelled"
                  \/ wpc[w] = "ended" /\ status = "completed"
                  \/ wpc[w] = "dedup" /\ DeliveredTo(m.target)
  <2>1. receipts \subseteq receipts'
    BY <1>3 DEF WorkerMove, Takes, Advances, PutsBack, Answers, Acknowledges
  <2>2. ~ Out(m)
    BY <1>0, <1>1, <1>3, <2>1 DEF Open
  <2>3. \A v \in Workers : v # w => wpc'[v] = wpc[v] /\ Task(v)' = Task(v)
    BY <1>3, Hands DEF Task
  <2>4. CASE Takes(w) \/ Advances(w) \/ PutsBack(w)
    <3>1. wpc'[w] # "settle" /\ acked' = acked
      BY <1>3, <2>4, Hands DEF Takes, Advances, PutsBack, Nak, taskVars
    <3> QED  BY <1>0, <1>1, <2>2, <2>3, <3>1 DEF Out
  <2>5. CASE Answers(w)
    <3>1. acked' = acked /\ Task(w)' = Task(w)
      BY <1>3, <2>5, Hands DEF Answers, Task
    <3>2. m = Task(w)
      BY <1>0, <1>1, <2>2, <2>3, <3>1 DEF Out
    <3>3. PICK r : r.task = m /\ r \in receipts'
      BY <2>5, <3>2 DEF Answers
    <3>4. r = tele
      BY <1>0, <1>1, <1>3, <3>3
    <3>5. r \in receipts
      <4>1. r \in TargetDeliveryResult
        BY <3>3, TypeStep DEF NoFaultStep, TypeInv, TypeOK, StreamTypeOK
      <4> QED  BY <3>4, <4>1, TelemetryAssumption DEF SmoothInv, ResultsInv, TargetDeliveryResult, TargetDispatchTask
    <3> QED  BY <2>2, <3>3, <3>5 DEF SmoothInv, ResultsInv
  <2>6. CASE Acknowledges(w)
    <3>1. acked' = acked \cup {Task(w)} /\ wpc'[w] = "idle"
      BY <1>3, <2>6, Hands DEF Acknowledges, Ack
    <3>2. m = Task(w)
      BY <1>0, <1>1, <2>2, <2>3, <3>1 DEF Out
    <3>3. wpc[w] # "settle"
      BY <2>2, <3>2 DEF Out
    <3> QED  BY <2>6, <3>2, <3>3 DEF Acknowledges
  <2> QED  BY <1>3, <2>4, <2>5, <2>6 DEF WorkerMove
<1> QED  BY <1>2, <1>3, Moves

-----------------------------------------------------------------------------
\* A campaign without faults and without retries.

FaultlessStep == UNCHANGED vars \/ (Next /\ Faultless)

LEMMA FaultlessSteps ==
    ASSUME FaultlessStep
    PROVE  NoFaultStep /\ UNCHANGED retryVars
BY DEF FaultlessStep, Faultless, NoFaultStep, vars, environmentVars

\* TriggerDispatch is called once: nothing serialises two calls, and each would
\* publish a task for every target.
SingleDispatch == \A c, d \in Dispatches : c = d

\* What has been published is what the one call has counted, and, once it has
\* marked the campaign, the total.
PublishedInv ==
    /\ \A x \in Retries : rpc[x] = "idle"
    /\ \A m \in published : m.call \in Dispatches
    /\ IsFiniteSet(published)
    /\ \A d \in Dispatches :
          dpc[d] # "done" => total = 0 /\ dcount[d] = Cardinality(published)
    /\ total > 0 => total = Cardinality(published)

\* One call publishes at most one task for a target.
LEMMA OneTaskEach ==
    ASSUME TypeInv, SingleDispatch, PublishedInv,
           NEW m \in published, NEW n \in published, m.target = n.target
    PROVE  m = n
<1>1. m \in TargetDispatchTask /\ n \in TargetDispatchTask
  BY DEF TypeInv, TypeOK, StreamTypeOK, TaskTypeOK
<1>2. m.call = n.call
  BY DEF PublishedInv, SingleDispatch
<1> QED  BY <1>1, <1>2 DEF TargetDispatchTask

\* Nothing is published once the campaign has its total.
LEMMA PublishedSteps ==
    ASSUME TypeInv, SmoothInv, PublishedInv, FaultlessStep
    PROVE  \/ published' = published
           \/ /\ total = 0
              /\ \E m \in TargetDispatchTask :
                    PublishesTask(m) /\ m \notin published /\ m.call \in Dispatches
<1>1. ASSUME NEW m \in TargetDispatchTask, PublishesTask(m)
      PROVE  total = 0 /\ m \notin published /\ m.call \in Dispatches
  <2>1. m \notin published
    BY <1>1, PublishesNew DEF SmoothInv
  <2>2. \A x \in Retries : rpc[x] # "publish"
    BY DEF PublishedInv
  <2>3. PICK d \in Dispatches : m.call = d /\ dpc[d] = "publish"
    BY <1>1, <2>2 DEF PublishesTask
  <2> QED  BY <2>1, <2>3 DEF PublishedInv
<1> QED  BY <1>1, Publications, FaultlessSteps

LEMMA PublishedStep ==
    ASSUME TypeInv, SingleDispatch, SmoothInv, PublishedInv, FaultlessStep
    PROVE  PublishedInv'
<1>0. NoFaultStep /\ UNCHANGED retryVars /\ [Next]_vars
  BY FaultlessSteps DEF NoFaultStep
<1>1. \A x \in Retries : rpc'[x] = "idle"
  BY <1>0 DEF PublishedInv, retryVars
<1>2. DispatchTypeOK
  BY DEF TypeInv, TypeOK
<1>3. CASE published' # published
  <2>1. PICK m \in TargetDispatchTask :
           PublishesTask(m) /\ m \notin published /\ m.call \in Dispatches
    BY <1>3, PublishedSteps
  <2>2. total = 0 /\ total' = 0 /\ published' = published \cup {m}
    BY <1>3, <2>1, PublishedSteps DEF PublishesTask, Publish, ledgerVars
  <2>3. IsFiniteSet(published') /\ Cardinality(published') = Cardinality(published) + 1
    BY <2>1, <2>2, FS_AddElement DEF PublishedInv
  <2>4. PICK d \in Dispatches : dpc[d] = "publish" /\ dcount' = [dcount EXCEPT ![d] = @ + 1]
                                  /\ dpc' = dpc
    BY <2>1 DEF PublishesTask, PublishedInv
  <2>5. \A c \in Dispatches : dcount'[c] = Cardinality(published')
    <3>1. \A c \in Dispatches : c = d
      BY DEF SingleDispatch
    <3>2. dcount[d] = Cardinality(published)
      BY <2>4 DEF PublishedInv
    <3> QED  BY <1>2, <2>3, <2>4, <3>1, <3>2 DEF DispatchTypeOK
  <2>6. \A n \in published' : n.call \in Dispatches
    BY <2>1, <2>2 DEF PublishedInv
  <2> QED  BY <1>1, <2>2, <2>3, <2>5, <2>6 DEF PublishedInv
<1>4. ASSUME published' = published, NEW d \in Dispatches, DispatchMark(d)
      PROVE  PublishedInv'
  <2>1. total' = Cardinality(published) /\ dpc'[d] = "done"
    BY <1>2, <1>4 DEF DispatchMark, SetDispatching, PublishedInv, DispatchTypeOK
  <2>2. \A c \in Dispatches : dpc'[c] = "done"
    BY <2>1 DEF SingleDispatch
  <2> QED  BY <1>1, <1>4, <2>1, <2>2 DEF PublishedInv
<1>5. CASE published' = published /\ total' = total
  <2>1. \A c \in Dispatches : dpc'[c] # "done" => dpc[c] # "done"
    BY <1>0, <1>2, CallSteps, TypeStep DEF TypeInv, TypeOK, DispatchTypeOK
  <2>2. UNCHANGED dcount
    <3>1. \A c \in Dispatches : DispatchPublish(c) => published' # published \/ UNCHANGED dcount
      <4>1. SUFFICES ASSUME NEW c \in Dispatches, DispatchPublish(c) PROVE published' # published
        OBVIOUS
      <4>2. PICK t \in dtodo[c] : Publish([call |-> c, target |-> t])
        BY <1>0, <4>1, NothingFails DEF DispatchPublish, NoFaultStep
      <4> QED  BY <4>1, <4>2 DEF Publish, DispatchPublish, SmoothInv, FreshInv
    <3> QED
      BY <1>0, <1>5, <3>1, StepKinds
      DEF OtherSteps, Operator, Contact, Telemetry, Redelivery, RetryRequest, Retry, Worker,
          WorkerCrash, vars, dispatchVars, DispatchRequest, Dispatch, DispatchRead,
          DispatchStep, DispatchMark, DispatchAbort
  <2> QED  BY <1>1, <1>5, <2>1, <2>2 DEF PublishedInv
<1>6. total' = total \/ \E d \in Dispatches : DispatchMark(d)
  BY <1>0, LedgerWithoutRetries
  DEF PublishedInv, ledgerVars, UpdateStatus, RecordReceipt, RecordDeliveryResult
<1> QED  BY <1>3, <1>4, <1>5, <1>6

-----------------------------------------------------------------------------
\* One notification.

\* Every row is of a task that is closed; a completed campaign has no other.
ClosedInv ==
    /\ Present(rows) \subseteq {RowOf[m.target] : m \in {n \in published : ~ Open(n)}}
    /\ status = "completed" => total > 0 /\ \A m \in published : ~ Open(m)

OnceNotifiedInv ==
    /\ notified <= 1
    /\ notified > 0 => status = "completed" /\ receipts = {}

\* What is closed stays closed.
LEMMA ClosedStays ==
    ASSUME TypeInv, SmoothInv, NoFaultStep, NEW m \in published, ~ Open(m)
    PROVE  ~ Open(m)'
BY OpenFrom

LEMMA ClosedRowsStep ==
    ASSUME TypeInv, SmoothInv, PublishedInv, ClosedInv, FaultlessStep
    PROVE  Present(rows)' \subseteq {RowOf[m.target] : m \in {n \in published' : ~ Open(n)'}}
<1>0. NoFaultStep /\ UNCHANGED retryVars /\ [Next]_vars
  BY FaultlessSteps DEF NoFaultStep
<1>1. \A m \in published : m \in published'
  BY PublishedSteps DEF PublishesTask, Publish
<1>2. SUFFICES ASSUME NEW k \in Present(rows)'
               PROVE  \E m \in published' : ~ Open(m)' /\ RowOf[m.target] = k
  OBVIOUS
<1>3. CASE k \in Present(rows)
  <2>1. PICK m \in published : ~ Open(m) /\ RowOf[m.target] = k
    BY <1>3 DEF ClosedInv
  <2> QED  BY <1>0, <1>1, <2>1, ClosedStays
<1>4. CASE k \notin Present(rows)
  <2>1. rows' # rows
    BY <1>2, <1>4 DEF Present
  <2>2. PICK r \in receipts : RecordReceipt(r)
    BY <1>0, <2>1, LedgerWithoutRetries
    DEF PublishedInv, ledgerVars, DispatchMark, SetDispatching, UpdateStatus
  <2>3. k = RowOf[r.task.target]
    BY <1>2, <1>4, <2>2, RecordedRows
  <2>4. r.task \in published /\ Out(r.task)'
    BY <1>0, OutStays DEF SmoothInv, ResultsInv
  <2>5. receipts' = receipts /\ tele' = r
    BY <2>2 DEF RecordReceipt, streamVars
  <2>6. ~ Open(r.task)'
    <3>1. \A q \in receipts' : q.task = r.task => q = tele'
      BY <2>5 DEF SmoothInv, ResultsInv
    <3> QED  BY <2>4, <3>1 DEF Open, Out
  <2> QED  BY <1>1, <2>3, <2>4, <2>6
<1> QED  BY <1>3, <1>4

\* When the rows are as many as the tasks, no task is left open.
LEMMA AllClosed ==
    ASSUME NEW P, IsFiniteSet(P), NEW C \in SUBSET P, NEW R, NEW f,
           R \subseteq {f[m] : m \in C}, Cardinality(R) >= Cardinality(P)
    PROVE  C = P
<1> DEFINE g == [m \in C |-> f[m]]
<1>1. IsFiniteSet(C) /\ Cardinality(C) <= Cardinality(P)
        /\ (Cardinality(C) = Cardinality(P) => C = P)
  BY FS_Subset
<1>2. {f[m] : m \in C} = {g[m] : m \in C}
  OBVIOUS
<1>3. g \in [C -> {f[m] : m \in C}]
  OBVIOUS
<1> HIDE DEF g
<1>4. IsFiniteSet({g[m] : m \in C}) /\ Cardinality({g[m] : m \in C}) <= Cardinality(C)
  BY <1>1, <1>3, FiniteImage
<1>5. IsFiniteSet(R) /\ Cardinality(R) <= Cardinality({g[m] : m \in C})
  BY <1>2, <1>4, FS_Subset
<1>6. Cardinality(R) \in Nat /\ Cardinality(C) \in Nat /\ Cardinality(P) \in Nat
        /\ Cardinality({g[m] : m \in C}) \in Nat
  BY <1>1, <1>4, <1>5, FS_CardinalityType
<1>7. Cardinality(C) = Cardinality(P)
  BY <1>1, <1>4, <1>5, <1>6
<1> QED  BY <1>1, <1>7

LEMMA ClosedStep ==
    ASSUME TypeInv, SmoothInv, PublishedInv, ClosedInv, FaultlessStep
    PROVE  ClosedInv'
<1>0. NoFaultStep /\ UNCHANGED retryVars /\ [Next]_vars
  BY FaultlessSteps DEF NoFaultStep
<1> DEFINE C == {n \in published' : ~ Open(n)'}
<1>1. Present(rows)' \subseteq {RowOf[m.target] : m \in C}
  BY ClosedRowsStep
<1>2. ASSUME status = "completed", total' = total
      PROVE  total' > 0 /\ \A m \in published' : ~ Open(m)'
  <2>1. total > 0 /\ \A m \in published : ~ Open(m)
    BY <1>2 DEF ClosedInv
  <2>2. published' = published
    BY <2>1, PublishedSteps
  <2> QED  BY <1>0, <1>2, <2>1, <2>2, ClosedStays
<1>3. ASSUME status # "completed", status' = "completed"
      PROVE  total' > 0 /\ \A m \in published' : ~ Open(m)'
  <2>1. PICK r \in receipts : RecordReceipt(r)
    BY <1>0, <1>3, LedgerWithoutRetries
    DEF PublishedInv, ledgerVars, DispatchMark, SetDispatching, UpdateStatus
  <2>2. total > 0 /\ Cardinality(Present(rows)') >= total /\ total' = total
    BY <1>3, <2>1 DEF RecordReceipt, RecordDeliveryResult, Finished, Present
  <2>3. published' = published /\ total = Cardinality(published) /\ IsFiniteSet(published)
    BY <2>2, PublishedSteps DEF PublishedInv
  <2>4. C \subseteq published
    BY <2>3
  <2>5. DEFINE f == [m \in published |-> RowOf[m.target]]
  <2>6. Present(rows)' \subseteq {f[m] : m \in C}
    BY <1>1, <2>4
  <2> HIDE DEF C, f
  <2>7. C = published
    BY <2>2, <2>3, <2>4, <2>6, AllClosed
  <2> QED  BY <2>2, <2>3, <2>7 DEF C
<1>4. status' = "completed" => total' = total
  BY <1>0, LedgerWithoutRetries
  DEF PublishedInv, ledgerVars, DispatchMark, SetDispatching, UpdateStatus, RecordReceipt,
      RecordDeliveryResult
<1> QED  BY <1>1, <1>2, <1>3, <1>4 DEF ClosedInv, Open, Out

LEMMA NotifiedSteps ==
    ASSUME TypeInv, NoFaultStep
    PROVE  notified' = notified \/ FinishesReceipt
<1>1. UNCHANGED telemetryVars \/ Telemetry
  BY StepKinds
  DEF NoFaultStep, OtherSteps, Operator, Contact, Redelivery, DispatchRequest, Dispatch,
      RetryRequest, Retry, Worker, WorkerCrash, vars
<1>2. Telemetry => notified' = notified \/ FinishesReceipt
  BY NothingFails
  DEF NoFaultStep, Telemetry, TelemetryStep, RecordReceipt, FinishReceipt, FinishesReceipt,
      AckResult, taskVars
<1> QED  BY <1>1, <1>2 DEF telemetryVars

\* While the campaign is completed and all is closed, the only receipt left is
\* the one in the consumer's hand.
LEMMA LastReceipt ==
    ASSUME SmoothInv, ClosedInv, status = "completed"
    PROVE  /\ \A r \in receipts : r = tele
           /\ \A w \in Workers : ~ Answers(w)
<1>1. \A r \in receipts : r = tele
  BY DEF SmoothInv, ResultsInv, ClosedInv, Open
<1>2. ASSUME NEW w \in Workers, Answers(w) PROVE FALSE
  <2>1. wpc[w] # "idle" /\ wpc[w] # "settle"
    BY <1>2 DEF Answers
  <2>2. Task(w) \in published /\ ~ Out(Task(w))
    BY <2>1 DEF Out, SmoothInv, TokenInv
  <2> QED  BY <2>2 DEF ClosedInv, Open
<1> QED  BY <1>1, <1>2

LEMMA NotifiedStep ==
    ASSUME TypeInv, SmoothInv, PublishedInv, ClosedInv, OnceNotifiedInv, FaultlessStep
    PROVE  OnceNotifiedInv'
<1>0. NoFaultStep /\ UNCHANGED retryVars /\ [Next]_vars
  BY FaultlessSteps DEF NoFaultStep
<1>1. notified \in Nat
  BY DEF TypeInv, TypeOK, TelemetryTypeOK
<1>2. CASE FinishesReceipt
  <2>1. tele \in receipts
    BY <1>2 DEF FinishesReceipt, SmoothInv, ResultsInv
  <2>2. notified = 0
    BY <1>1, <2>1 DEF OnceNotifiedInv
  <2>3. CASE LooksFinished
    <3>1. notified' = 1 /\ status' = "completed"
      BY <1>2, <2>2, <2>3 DEF FinishesReceipt, Notify, LooksFinished, ledgerVars
    <3>2. receipts' = {}
      BY <1>2, <2>3, LastReceipt DEF FinishesReceipt, LooksFinished
    <3> QED  BY <3>1, <3>2 DEF OnceNotifiedInv
  <2>4. CASE ~ LooksFinished
    BY <1>2, <2>2, <2>4 DEF FinishesReceipt, Notify, OnceNotifiedInv
  <2> QED  BY <2>3, <2>4
<1>3. CASE notified' = notified /\ notified > 0
  <2>1. status = "completed" /\ receipts = {} /\ total > 0
    BY <1>3 DEF OnceNotifiedInv, ClosedInv
  <2>2. receipts' = {}
    <3>1. OtherMove => receipts' \subseteq receipts
      BY DEF OtherMove, PublishesTask, Redelivers, RecordReceipt, FinishesReceipt, streamVars
    <3>2. \A w \in Workers : WorkerMove(w) => receipts' = receipts
      BY <2>1, LastReceipt DEF WorkerMove, Takes, Advances, PutsBack, Acknowledges
    <3> QED  BY <1>0, <2>1, <3>1, <3>2, Moves
  <2>3. status' = "completed"
    <3>1. \A d \in Dispatches : ~ DispatchMark(d)
      BY <2>1 DEF DispatchMark, PublishedInv
    <3> QED
      BY <1>0, <2>1, <3>1, LedgerWithoutRetries DEF PublishedInv, ledgerVars
  <2> QED  BY <1>3, <2>2, <2>3 DEF OnceNotifiedInv
<1>4. CASE notified' = notified /\ notified = 0
  BY <1>4 DEF OnceNotifiedInv
<1> QED  BY <1>0, <1>1, <1>2, <1>3, <1>4, NotifiedSteps

-----------------------------------------------------------------------------
\* One send.

\* The provider has taken the message of this task.
Sent(m) ==
    m \in acked \/ \E w \in Workers : wpc[w] \in {"report", "settle"} /\ Task(w) = m

SentOnceInv ==
    \A t \in Targets :
        /\ sends[t] <= 1
        /\ sends[t] > 0 => \E m \in published : m.target = t /\ Sent(m)

LEMMA SentForGood ==
    ASSUME TypeInv, NoFaultStep
    PROVE  \A m : Sent(m) => Sent(m)'
<1> SUFFICES ASSUME NEW m, Sent(m) PROVE Sent(m)'
  OBVIOUS
<1>0. Sent(m)' <=> m \in acked' \/ \E w \in Workers : wpc'[w] \in {"report", "settle"} /\ Task(w)' = m
  BY DEF Sent
<1>1. m \in acked => m \in acked'
  BY StreamGrows
<1>2. ASSUME NEW w \in Workers, wpc[w] \in {"report", "settle"}, Task(w) = m
      PROVE  Sent(m)'
  <2>1. CASE UNCHANGED <<wpc, wjob>>
    BY <1>0, <1>2, <2>1 DEF Task
  <2>2. ASSUME NEW v \in Workers, WorkerMove(v)
        PROVE  Sent(m)'
    <3>1. CASE v # w
      BY <1>0, <1>2, <2>2, <3>1, Hands DEF Task
    <3>2. CASE v = w /\ Acknowledges(w)
      BY <1>0, <1>2, <3>2 DEF Acknowledges, Ack
    <3>3. CASE v = w /\ Answers(w)
      BY <1>0, <1>2, <2>2, <3>3, Hands DEF Task
    <3>4. v = w => Acknowledges(w) \/ Answers(w)
      BY <1>2, <2>2 DEF WorkerMove, Takes, Advances, PutsBack
    <3> QED  BY <3>1, <3>2, <3>3, <3>4
  <2> QED  BY <2>1, <2>2, Moves
<1> QED  BY <1>1, <1>2 DEF Sent

LEMMA SentOnceStep ==
    ASSUME TypeInv, SingleDispatch, SmoothInv, PublishedInv, SentOnceInv, FaultlessStep
    PROVE  SentOnceInv'
<1>0. NoFaultStep
  BY FaultlessSteps
<1>1. \A m \in published : m \in published'
  BY PublishedSteps DEF PublishesTask, Publish
<1>2. sends \in [Targets -> Nat] /\ JobTypeOK
  BY DEF TypeInv, TypeOK, WorkerTypeOK, JobTypeOK
<1>3. ASSUME NEW t \in Targets, sends[t] > 0
      PROVE  \E m \in published' : m.target = t /\ Sent(m)'
  BY <1>0, <1>1, <1>3, SentForGood DEF SentOnceInv
<1>4. CASE UNCHANGED sends
  BY <1>3, <1>4 DEF SentOnceInv
<1>5. ASSUME NEW w \in Workers, WorkerMove(w), sends' # sends
      PROVE  SentOnceInv'
  <2>1. wpc[w] = "send" /\ Accepted(w, 1) /\ Goto(w, "report")
    BY <1>5 DEF WorkerMove, Takes, Advances, PutsBack, Answers, Acknowledges
  <2>2. Task(w) \in TargetDispatchTask /\ Task(w) \in published /\ Task(w) \notin acked
    BY <1>2, <2>1, JobTypes DEF SmoothInv, TokenInv
  <2>3. Task(w).target \in Targets
    BY <2>2 DEF TargetDispatchTask
  <2>4. sends[Task(w).target] = 0
    <3>1. SUFFICES ASSUME sends[Task(w).target] > 0 PROVE FALSE
      BY <1>2, <2>3
    <3>2. PICK m \in published : m.target = Task(w).target /\ Sent(m)
      BY <2>3, <3>1 DEF SentOnceInv
    <3>3. m = Task(w)
      BY <2>2, <3>2, OneTaskEach
    <3>4. PICK v \in Workers : wpc[v] \in {"report", "settle"} /\ Task(v) = Task(w)
      BY <2>2, <3>2, <3>3 DEF Sent
    <3>5. v = w
      BY <2>1, <3>4 DEF SmoothInv, TokenInv
    <3> QED  BY <2>1, <3>4, <3>5
  <2>5. wpc'[w] = "report" /\ Task(w)' = Task(w)
    BY <1>2, <2>1 DEF Goto, JobTypeOK, Task
  <2>6. Sent(Task(w))'
    BY <2>5 DEF Sent
  <2>7. /\ sends'[Task(w).target] = 1
        /\ \A t \in Targets : t # Task(w).target => sends'[t] = sends[t]
    BY <1>2, <2>1, <2>3, <2>4 DEF Accepted
  <2>8. \E m \in published' : m.target = Task(w).target /\ Sent(m)'
    BY <1>1, <2>2, <2>5, <2>6 DEF Sent
  <2> QED  BY <1>3, <2>7, <2>8 DEF SentOnceInv
<1> QED  BY <1>0, <1>4, <1>5, Moves

OnceInv == PublishedInv /\ ClosedInv /\ OnceNotifiedInv /\ SentOnceInv

LEMMA OnceInit == Init => OnceInv
<1> SUFFICES ASSUME Init PROVE OnceInv
  OBVIOUS
<1>1. published = {} /\ receipts = {} /\ total = 0 /\ status = "scheduled" /\ notified = 0
  BY DEF Init, StreamInit, LedgerInit, TelemetryInit
<1>2. PublishedInv
  BY <1>1, FS_EmptySet DEF Init, RetryInit, DispatchInit, PublishedInv
<1>3. Present(rows) = {}
  BY DEF Init, LedgerInit, NoRow, Present
<1>4. ClosedInv /\ OnceNotifiedInv
  BY <1>1, <1>3 DEF ClosedInv, OnceNotifiedInv
<1>5. \A t \in Targets : sends[t] = 0
  BY DEF Init, WorkerInit
<1>6. ASSUME NEW t \in Targets PROVE sends[t] <= 1 /\ ~ (sends[t] > 0)
  <2>1. sends[t] = 0
    BY <1>5
  <2> QED  BY <2>1
<1>7. SentOnceInv
  BY <1>6 DEF SentOnceInv
<1> QED  BY <1>2, <1>4, <1>7 DEF OnceInv

\* With one dispatch call, whatever the operator, the contacts and the workers
\* of both programs do and in whatever order the results arrive: as long as
\* nothing fails no target gets the campaign twice, and the completion is
\* notified once.
THEOREM FaultlessServesOnce ==
    ASSUME SingleDispatch
    PROVE  SafetySpec => []FaultlessIsOnce
<1> DEFINE Inv == TypeInv /\ (scenario = "faultless" => SmoothInv /\ OnceInv)
<1>1. SafetyInit => Inv
  BY TypeInit, SmoothInit, OnceInit DEF SafetyInit
<1>2. Inv /\ [SafetyNext]_<<vars, scenario>> => Inv'
  <2> SUFFICES ASSUME Inv, [SafetyNext]_<<vars, scenario>> PROVE Inv'
    OBVIOUS
  <2>1. TypeInv' /\ scenario' = scenario
    BY ScenarioSteps, TypeStep
  <2>2. ASSUME scenario = "faultless" PROVE SmoothInv' /\ OnceInv'
    <3>1. FaultlessStep /\ NoFaultStep
      BY <2>2, FaultlessSteps DEF SafetyNext, FaultlessStep
    <3>2. SmoothInv'
      BY <2>2, <3>1, SmoothStep
    <3>3. PublishedInv' /\ ClosedInv' /\ OnceNotifiedInv' /\ SentOnceInv'
      BY <2>2, <3>1, PublishedStep, ClosedStep, NotifiedStep, SentOnceStep DEF OnceInv
    <3> QED  BY <3>2, <3>3 DEF OnceInv
  <2> QED  BY <2>1, <2>2
<1>3. Inv => FaultlessIsOnce
  BY DEF OnceInv, OnceNotifiedInv, SentOnceInv, FaultlessIsOnce, NoDuplicateSend, NotifiedOnce
<1> QED  BY <1>1, <1>2, <1>3, PTL DEF SafetySpec

-----------------------------------------------------------------------------
\* A campaign whose failed deliveries are retried, by any number of calls.

RetriedStep == UNCHANGED vars \/ (Next /\ Retried)

LEMMA RetriedSteps ==
    ASSUME RetriedStep
    PROVE  /\ NoFaultStep /\ [Next]_vars /\ UNCHANGED optedOut
           /\ status' # status => status' \notin {"cancelled", "draft", "paused"}
BY DEF RetriedStep, Retried, NoFaultStep, vars, environmentVars, ledgerVars

\* Where each call is, while nothing fails and nobody holds the campaign.
RetryCallsInv ==
    /\ status \notin {"cancelled", "draft", "paused"}
    /\ \A x \in Retries :
          /\ rfailed[x] = {}
          /\ rpc[x] \notin {"release", "restore"}
          /\ rtodo[x] # {} => rpc[x] \in {"reopen", "publish"}
          /\ rpc[x] = "idle" => rseen[x] = "draft"
          /\ rpc[x] = "claim" => rseen[x] \in {"processing", "completed"}

\* What a step of such a campaign does to the ledger, the stream and the calls.
LeavesAll == UNCHANGED <<ledgerVars, published, dispatchVars, retryVars>>

Records(r) == RecordReceipt(r) /\ UNCHANGED <<dispatchVars, retryVars>>

DispatchTurns(d) ==
    /\ DispatchRead(d) \/ DispatchMark(d)
    /\ UNCHANGED <<tele, retryVars>>

RetryTurns(x) ==
    /\ RetryRead(x) \/ RetryClaim(x) \/ RetryReopen(x) \/ RetryPublished(x)
    /\ UNCHANGED <<tele, dispatchVars>>

LEMMA RetriedMoves ==
    ASSUME TypeInv, RetryCallsInv, RetriedStep
    PROVE  \/ LeavesAll
           \/ \E r \in receipts : Records(r)
           \/ \E m \in TargetDispatchTask : PublishesTask(m)
           \/ \E d \in Dispatches : DispatchTurns(d)
           \/ \E x \in Retries : RetryTurns(x)
<1>0. NoFaultStep /\ [Next]_vars /\ \A kind : ~ Fault(kind)
  BY RetriedSteps, NothingFails DEF NoFaultStep
<1>1. CASE \E w \in Workers : WorkerMove(w) /\ UNCHANGED <<ledgerVars, tele>>
                                /\ UNCHANGED <<dispatchVars, retryVars, notified>>
  BY <1>1, WorkersDoNotPublish DEF LeavesAll
<1>2. CASE OtherSteps /\ OtherMove
  <2>1. CASE Operator
    <3>1. status' \in {"paused", "cancelled", "draft"} \/ status = "paused"
      BY <2>1 DEF Operator, Pause, Resume, Cancel, CancelScheduled, PauseCampaign,
                  ResumeCampaign, CancelCampaign, CancelScheduledCampaign, UpdateStatus
    <3> QED  BY <3>1, RetriedSteps DEF RetryCallsInv
  <2>2. CASE Contact \/ UNCHANGED vars
    BY <2>2 DEF Contact, vars, LeavesAll, streamVars, taskVars
  <2>3. CASE Telemetry
    BY <2>3 DEF Telemetry, TelemetryStep, FinishReceipt, Records, LeavesAll, taskVars
  <2>4. CASE \E m \in published : Redelivery(m)
    BY <2>4 DEF Redelivery, RedeliverOrphan, RedeliverEarly, AckWaitExpires, LeavesAll
  <2>5. ASSUME NEW d \in Dispatches, DispatchRequest(d) \/ Dispatch(d)
        PROVE  DispatchTurns(d) \/ \E m \in TargetDispatchTask : PublishesTask(m)
    BY <1>0, <2>5, DispatchPublishes
    DEF NoFaultStep, DispatchRequest, Dispatch, DispatchStep, DispatchAbort, DispatchTurns,
        telemetryVars
  <2>6. ASSUME NEW x \in Retries, RetryRequest(x) \/ Retry(x)
        PROVE  RetryTurns(x) \/ \E m \in TargetDispatchTask : PublishesTask(m)
    BY <1>0, <2>6, RetryPublishes
    DEF NoFaultStep, RetryRequest, Retry, RetryStep, RetryRelease, RetryRestore, RetryAbort,
        RetryCallsInv, RetryTurns, telemetryVars
  <2> QED  BY <1>2, <2>1, <2>2, <2>3, <2>4, <2>5, <2>6 DEF OtherSteps
<1> QED  BY <1>0, <1>1, <1>2, Moves

LEMMA RetryCallsStep ==
    ASSUME TypeInv, RetryCallsInv, RetriedStep
    PROVE  RetryCallsInv'
<1>1. status' \notin {"cancelled", "draft", "paused"}
  BY RetriedSteps DEF RetryCallsInv
<1>2. RetryTypeOK
  BY DEF TypeInv, TypeOK
<1>3. CASE UNCHANGED retryVars
  BY <1>1, <1>3 DEF RetryCallsInv, retryVars
<1>4. ASSUME NEW m, PublishesTask(m), ~ UNCHANGED retryVars
      PROVE  RetryCallsInv'
  <2>1. PICK x \in Retries : rpc[x] = "publish" /\ UNCHANGED <<rpc, rseen, rfailed>>
           /\ \E k \in rtodo[x] : rtodo' = [rtodo EXCEPT ![x] = @ \ {k}]
    BY <1>4 DEF PublishesTask
  <2>2. \A y \in Retries : rtodo'[y] # {} => rtodo[y] # {}
    BY <1>2, <2>1 DEF RetryTypeOK
  <2> QED  BY <1>1, <2>1, <2>2 DEF RetryCallsInv
<1>5. ASSUME NEW x \in Retries, RetryTurns(x)
      PROVE  RetryCallsInv'
  <2>1. \A y \in Retries : y # x => /\ rpc'[y] = rpc[y] /\ rtodo'[y] = rtodo[y]
                                    /\ rseen'[y] = rseen[y] /\ rfailed'[y] = rfailed[y]
    BY <1>2, <1>5 DEF RetryTypeOK, RetryTurns, RetryRead, RetryClaim, RetryReopen,
                      RetryPublished, RetryGoto
  <2>2. SUFFICES /\ rfailed'[x] = {}
                 /\ rpc'[x] \notin {"release", "restore"}
                 /\ rtodo'[x] # {} => rpc'[x] \in {"reopen", "publish"}
                 /\ rpc'[x] = "idle" => rseen'[x] = "draft"
                 /\ rpc'[x] = "claim" => rseen'[x] \in {"processing", "completed"}
    BY <1>1, <2>1 DEF RetryCallsInv
  <2>3. rfailed'[x] = {}
    BY <1>5 DEF RetryCallsInv, RetryTurns, RetryRead, RetryClaim, RetryReopen, RetryPublished
  <2>4. CASE RetryRead(x)
    BY <1>2, <2>3, <2>4 DEF RetryTypeOK, RetryRead, RetryGoto, RetryCallsInv
  <2>5. CASE RetryClaim(x)
    BY <1>2, <2>3, <2>5 DEF RetryTypeOK, RetryClaim, RetryGoto, RetryCallsInv
  <2>6. CASE RetryReopen(x) \/ RetryPublished(x)
    BY <1>2, <2>3, <2>6 DEF RetryTypeOK, RetryReopen, RetryPublished, RetryGoto, RetryCallsInv
  <2> QED  BY <1>5, <2>4, <2>5, <2>6 DEF RetryTurns
<1> QED
  BY <1>3, <1>4, <1>5, RetriedMoves DEF LeavesAll, Records, DispatchTurns

-----------------------------------------------------------------------------
\* Open tasks and their rows.

\* A row has one open task at most: queued, if a retry published it, and not
\* there yet, if the dispatch did.
OneOpenInv ==
    /\ \A m, n \in published :
          Open(m) /\ Open(n) /\ RowOf[m.target] = RowOf[n.target] => m = n
    /\ \A m \in published : Open(m) =>
          rows[RowOf[m.target]].status = IF m.call \in Retries THEN "queued" ELSE "absent"

\* The dispatch publishes for rows that are not there yet, a retry for rows
\* that it alone holds and that are queued.
ClaimsInv ==
    /\ \A d \in Dispatches : dpc[d] = "idle" => published = {} /\ Present(rows) = {}
    /\ \A d \in Dispatches : dpc[d] = "publish" =>
          \A t \in dtodo[d] : rows[RowOf[t]].status = "absent"
    /\ \A x, y \in Retries : \A k \in rtodo[x] : k \in rtodo[y] => x = y
    /\ \A x \in Retries : \A k \in rtodo[x] :
          /\ rows[k].status = "queued"
          /\ \A m \in published : Open(m) => RowOf[m.target] # k

LEMMA Opens ==
    ASSUME TypeInv, SmoothInv, NoFaultStep, NEW m, Open(m)'
    PROVE  Open(m) \/ (PublishesTask(m) /\ m \notin published)
<1>1. CASE m \in published' /\ m \notin published
  <2>1. PICK n \in TargetDispatchTask : PublishesTask(n)
    BY <1>1, Publications
  <2>2. n = m
    BY <1>1, <2>1 DEF PublishesTask, Publish
  <2> QED  BY <1>1, <2>1, <2>2
<1> QED  BY <1>1, OpenFrom

\* A task is open from its publication.
LEMMA PublishedOpen ==
    ASSUME SmoothInv, NoFaultStep, NEW m, PublishesTask(m), TypeInv
    PROVE  Open(m)' /\ m \notin published /\ m \in published' /\ UNCHANGED rows
<1>1. m \notin published /\ m \in published' /\ acked' = acked /\ UNCHANGED rows
  BY PublishesNew DEF SmoothInv, PublishesTask, Publish, ledgerVars
<1>2. m \notin acked /\ \A w \in Workers : wpc[w] = "settle" => Task(w) # m
  BY <1>1 DEF SmoothInv, TokenInv
<1>3. UNCHANGED <<wpc, wjob>>
  BY <1>1, WorkersDoNotPublish, Moves
<1>4. ~ Out(m)'
  BY <1>1, <1>2, <1>3 DEF Out, Task
<1> QED  BY <1>1, <1>4 DEF Open, Out

\* The result that is recorded is an open task's, and it closes the task.
LEMMA RecordedOpen ==
    ASSUME TypeInv, SmoothInv, NoFaultStep, NEW r \in receipts, RecordReceipt(r)
    PROVE  r.task \in published /\ Open(r.task) /\ ~ Open(r.task)'
<1>1. r # tele /\ receipts' = receipts /\ tele' = r
  BY TelemetryAssumption
  DEF RecordReceipt, streamVars, TypeInv, TypeOK, StreamTypeOK
<1>2. r.task \in published /\ Out(r.task) /\ \A q \in receipts : q.task = r.task => q = r
  BY DEF SmoothInv, ResultsInv
<1>3. Open(r.task)
  BY <1>1, <1>2 DEF Open
<1>4. Out(r.task)'
  BY <1>2, OutStays
<1> QED  BY <1>1, <1>2, <1>3, <1>4 DEF Open, Out

\* An open task stays open until its result is recorded, or the campaign is
\* completed.
LEMMA StaysOpen ==
    ASSUME TypeInv, SmoothInv, RetryCallsInv, OneOpenInv, NoFaultStep, NEW m, Open(m)
    PROVE  \/ Open(m)'
           \/ \E r \in receipts : RecordReceipt(r) /\ r.task = m
           \/ status = "completed" /\ UNCHANGED ledgerVars
<1>1. ~ DeliveredTo(m.target)
  <2>1. rows[RowOf[m.target]].status # "delivered"
    BY DEF OneOpenInv, Open
  <2> QED  BY <2>1 DEF DeliveredTo
<1> QED  BY <1>1, OpenUntil DEF RetryCallsInv

\* No two targets share a delivery row.
OneRowEach == \A s, t \in Targets : RowOf[s] = RowOf[t] => s = t

\* The rows a retry claims were failed.
LEMMA ClaimedRows ==
    ASSUME TypeInv, NEW x \in Retries, RetryClaim(x)
    PROVE  /\ rpc[x] = "claim" /\ status' = status /\ published' = published
           /\ rtodo'[x] \subseteq Rows
           /\ \A y \in Retries : y # x => rtodo'[y] = rtodo[y]
           /\ \A k \in rtodo'[x] : rows[k].status = "failed" /\ rows'[k].status = "queued"
           /\ \A k \in Rows \ rtodo'[x] : rows'[k] = rows[k]
<1>1. RetryTypeOK /\ LedgerTypeOK
  BY DEF TypeInv, TypeOK
<1>2. PICK ids \in SUBSET Rows : /\ ClaimDeliveriesForRetry(ids)
                                 /\ rtodo' = [rtodo EXCEPT ![x] = Claimable(ids)]
  BY DEF RetryClaim
<1>3. /\ rtodo'[x] = Claimable(ids)
      /\ \A y \in Retries : y # x => rtodo'[y] = rtodo[y]
  BY <1>1, <1>2 DEF RetryTypeOK
<1>4. /\ \A k \in Claimable(ids) : k \in Rows /\ rows[k].status = "failed"
                                     /\ rows'[k].status = "queued"
      /\ \A k \in Rows \ Claimable(ids) : rows'[k] = rows[k]
  BY <1>1, <1>2 DEF ClaimDeliveriesForRetry, Claimable, LedgerTypeOK
<1>5. rpc[x] = "claim" /\ status' = status /\ published' = published
  BY <1>2 DEF RetryClaim, ClaimDeliveriesForRetry, streamVars, taskVars
<1> QED  BY <1>3, <1>4, <1>5

\* What the steps leave of the rows.
LEMMA RowSteps ==
    ASSUME TypeInv, RetryCallsInv, RetriedStep
    PROVE  \/ UNCHANGED rows
           \/ \E r \in receipts : Records(r)
           \/ \E x \in Retries : RetryClaim(x) /\ UNCHANGED dispatchVars
<1>1. \A m : PublishesTask(m) => UNCHANGED rows
  BY DEF PublishesTask, ledgerVars
<1>2. \A d \in Dispatches : DispatchTurns(d) => UNCHANGED rows
  BY DEF DispatchTurns, DispatchRead, DispatchMark, SetDispatching, ledgerVars
<1>3. \A x \in Retries : RetryTurns(x)
         => UNCHANGED rows \/ (RetryClaim(x) /\ UNCHANGED dispatchVars)
  BY DEF RetryTurns, RetryRead, RetryReopen, RetryPublished, UpdateStatus, ledgerVars
<1> QED  BY <1>1, <1>2, <1>3, RetriedMoves DEF LeavesAll, ledgerVars

\* While a task is open its row waits for it.
LEMMA OpenRows ==
    ASSUME TypeInv, SmoothInv, RetryCallsInv, OneOpenInv, RetriedStep,
           NEW m, Open(m), Open(m)'
    PROVE  rows'[RowOf[m.target]].status = rows[RowOf[m.target]].status
<1>0. NoFaultStep
  BY RetriedSteps
<1>1. m \in published /\ RowOf[m.target] \in Rows
  BY LedgerAssumption
  DEF Open, TypeInv, TypeOK, StreamTypeOK, TaskTypeOK, TargetDispatchTask
<1>2. rows[RowOf[m.target]].status # "failed"
  BY <1>1 DEF OneOpenInv
<1>3. ASSUME NEW r \in receipts, RecordReceipt(r)
      PROVE  RowOf[m.target] # RowOf[r.task.target]
  <2>1. r.task \in published /\ Open(r.task) /\ ~ Open(r.task)'
    BY <1>0, <1>3, RecordedOpen
  <2>2. r.task # m
    BY <2>1
  <2> QED  BY <1>1, <2>1, <2>2 DEF OneOpenInv
<1>4. \A r \in receipts : RecordReceipt(r) => rows'[RowOf[m.target]] = rows[RowOf[m.target]]
  BY <1>1, <1>3, RecordedRows
<1>5. \A x \in Retries : RetryClaim(x) => rows'[RowOf[m.target]] = rows[RowOf[m.target]]
  BY <1>1, <1>2, ClaimedRows
<1> QED  BY <1>4, <1>5, RowSteps DEF Records

\* A call publishes a task for a row that has no open one.
LEMMA PublishesAlone ==
    ASSUME TypeInv, SingleDispatch, OneRowEach, SmoothInv, OneOpenInv, ClaimsInv,
           NEW m \in TargetDispatchTask, PublishesTask(m)
    PROVE  /\ rows[RowOf[m.target]].status = IF m.call \in Retries THEN "queued" ELSE "absent"
           /\ \A n \in published : Open(n) => RowOf[n.target] # RowOf[m.target]
<1>1. ASSUME NEW d \in Dispatches, NEW s \in dtodo[d], m = [call |-> d, target |-> s],
             dpc[d] = "publish"
      PROVE  /\ rows[RowOf[m.target]].status = "absent" /\ m.call \notin Retries
             /\ \A n \in published : Open(n) => RowOf[n.target] # RowOf[m.target]
  <2>1. m.call = d /\ m.target = s /\ d \notin Retries
    BY <1>1, ContractsAssumption
  <2>2. rows[RowOf[s]].status = "absent"
    BY <1>1 DEF ClaimsInv
  <2>3. ASSUME NEW n \in published, Open(n), RowOf[n.target] = RowOf[m.target]
        PROVE  FALSE
    <3>1. n \in TargetDispatchTask
      BY DEF TypeInv, TypeOK, StreamTypeOK, TaskTypeOK
    <3>2. n.call \notin Retries
      BY <2>1, <2>2, <2>3 DEF OneOpenInv
    <3>3. n.call = m.call
      BY <2>1, <3>1, <3>2 DEF TargetDispatchTask, SingleDispatch
    <3>4. n.target = m.target
      BY <2>3, <3>1 DEF TargetDispatchTask, OneRowEach
    <3>5. n = m
      BY <3>1, <3>3, <3>4 DEF TargetDispatchTask
    <3> QED  BY <3>5, PublishesNew DEF SmoothInv
  <2> QED  BY <2>1, <2>2, <2>3
<1>2. ASSUME NEW x \in Retries, NEW k \in rtodo[x], m = [call |-> x, target |-> rows[k].owner]
      PROVE  /\ rows[RowOf[m.target]].status = "queued" /\ m.call \in Retries
             /\ \A n \in published : Open(n) => RowOf[n.target] # RowOf[m.target]
  <2>1. m.call = x /\ m.target = rows[k].owner /\ k \in Rows
    BY <1>2 DEF TypeInv, TypeOK, RetryTypeOK
  <2>2. rows[k].status = "queued" /\ \A n \in published : Open(n) => RowOf[n.target] # k
    BY DEF ClaimsInv
  <2>3. RowOf[m.target] = k
    BY <2>1, <2>2 DEF SmoothInv, FreshInv
  <2> QED  BY <2>1, <2>2, <2>3
<1> QED  BY <1>1, <1>2 DEF PublishesTask

LEMMA OneOpenStep ==
    ASSUME TypeInv, SingleDispatch, OneRowEach, SmoothInv, RetryCallsInv, OneOpenInv,
           ClaimsInv, RetriedStep
    PROVE  OneOpenInv'
<1>0. NoFaultStep
  BY RetriedSteps
<1>1. \A m \in published' : Open(m)' => Open(m) \/ (PublishesTask(m) /\ m \notin published)
  BY <1>0, Opens
<1>2. \A m \in published' : m \in TargetDispatchTask
  BY <1>0, TypeStep DEF NoFaultStep, TypeInv, TypeOK, StreamTypeOK, TaskTypeOK
<1>3. \A m : Open(m) => m \in published
  BY DEF Open
<1>4. ASSUME NEW m \in published', NEW n \in published', Open(m)', Open(n)',
             RowOf[m.target] = RowOf[n.target]
      PROVE  m = n
  <2>1. CASE Open(m) /\ Open(n)
    BY <1>3, <1>4, <2>1 DEF OneOpenInv
  <2>2. CASE PublishesTask(m) /\ Open(n)
    BY <1>2, <1>3, <1>4, <2>2, PublishesAlone
  <2>3. CASE Open(m) /\ PublishesTask(n)
    BY <1>2, <1>3, <1>4, <2>3, PublishesAlone
  <2>4. CASE PublishesTask(m) /\ m \notin published /\ PublishesTask(n)
    <3>1. published' = published \cup {m} /\ published' = published \cup {n}
      BY <2>4 DEF PublishesTask, Publish
    <3> QED  BY <2>4, <3>1
  <2> QED  BY <1>1, <1>4, <2>1, <2>2, <2>3, <2>4
<1>5. ASSUME NEW m \in published', Open(m)'
      PROVE  rows'[RowOf[m.target]].status = IF m.call \in Retries THEN "queued" ELSE "absent"
  <2>1. CASE Open(m)
    BY <1>3, <1>5, <2>1, OpenRows DEF OneOpenInv
  <2>2. CASE PublishesTask(m)
    <3>1. rows' = rows
      BY <2>2 DEF PublishesTask, ledgerVars
    <3> QED  BY <1>2, <2>2, <3>1, PublishesAlone
  <2> QED  BY <1>1, <1>5, <2>1, <2>2
<1>6. OneOpenInv' = (/\ \A m, n \in published' :
                        Open(m)' /\ Open(n)' /\ RowOf[m.target] = RowOf[n.target] => m = n
                     /\ \A m \in published' : Open(m)' => rows'[RowOf[m.target]].status
                           = IF m.call \in Retries THEN "queued" ELSE "absent")
  BY DEF OneOpenInv, Open, Out
<1> QED  BY <1>4, <1>5, <1>6

\* A call holds a row because it held it before, or has just claimed it.
LEMMA ClaimsFrom ==
    ASSUME TypeInv, RetryCallsInv, RetriedStep, NEW x \in Retries, NEW k \in rtodo'[x]
    PROVE  k \in rtodo[x] \/ RetryClaim(x)
<1>1. RetryTypeOK
  BY DEF TypeInv, TypeOK
<1>2. CASE UNCHANGED rtodo
  BY <1>2
<1>3. ASSUME NEW m, PublishesTask(m)
      PROVE  k \in rtodo[x]
  BY <1>1, <1>3 DEF PublishesTask, retryVars, RetryTypeOK
<1>4. ASSUME NEW y \in Retries, RetryClaim(y)
      PROVE  k \in rtodo[x] \/ RetryClaim(x)
  BY <1>4, ClaimedRows
<1> QED
  BY <1>2, <1>3, <1>4, RetriedMoves
  DEF LeavesAll, Records, DispatchTurns, RetryTurns, retryVars, RetryRead, RetryReopen,
      RetryPublished

\* Before the dispatch there is nothing to deliver and nothing to retry.
LEMMA UndispatchedStep ==
    ASSUME TypeInv, SingleDispatch, SmoothInv, RetryCallsInv, ClaimsInv, RetriedStep,
           NEW d \in Dispatches, dpc'[d] = "idle"
    PROVE  published' = {} /\ Present(rows)' = {}
<1>0. NoFaultStep /\ [Next]_vars
  BY RetriedSteps
<1>1. dpc[d] = "idle" /\ published = {} /\ Present(rows) = {}
  BY <1>0, CallSteps DEF ClaimsInv
<1>2. \A k \in Rows : rows[k].status = "absent"
  BY <1>1 DEF Present
<1>3. \A m : ~ PublishesTask(m)
  <2>1. SUFFICES ASSUME NEW m, PublishesTask(m) PROVE FALSE
    OBVIOUS
  <2>2. \A c \in Dispatches : dpc[c] # "publish"
    BY <1>1 DEF SingleDispatch
  <2>3. PICK x \in Retries : \E k \in rtodo[x] : TRUE
    BY <2>1, <2>2 DEF PublishesTask
  <2>4. PICK k \in rtodo[x] : k \in Rows /\ rows[k].status = "queued"
    BY <2>3 DEF ClaimsInv, TypeInv, TypeOK, RetryTypeOK
  <2> QED  BY <1>2, <2>4
<1>4. \A r \in receipts : FALSE
  BY <1>1 DEF SmoothInv, ResultsInv
<1>5. ASSUME NEW x \in Retries, RetryClaim(x)
      PROVE  \A k \in Rows : rows'[k].status = "absent"
  BY <1>2, <1>5, ClaimedRows
<1>6. \A k \in Rows : rows'[k].status = "absent"
  BY <1>2, <1>4, <1>5, RowSteps
<1>7. published' = {}
  BY <1>1, <1>3, <1>4, RetriedMoves
  DEF LeavesAll, DispatchTurns, DispatchRead, DispatchMark, RetryTurns, RetryRead, RetryClaim,
      RetryReopen, RetryPublished, streamVars, taskVars
<1> QED  BY <1>6, <1>7 DEF Present

\* What the dispatch has still to publish has no row.
LEMMA UnpublishedStep ==
    ASSUME TypeInv, SingleDispatch, OneRowEach, SmoothInv, RetryCallsInv, OneOpenInv,
           ClaimsInv, RetriedStep,
           NEW d \in Dispatches, dpc'[d] = "publish", NEW s \in dtodo'[d]
    PROVE  rows'[RowOf[s]].status = "absent"
<1>0. NoFaultStep /\ [Next]_vars
  BY RetriedSteps
<1>1. s \in Targets /\ RowOf[s] \in Rows
  BY <1>0, TypeStep, LedgerAssumption DEF TypeInv, TypeOK, DispatchTypeOK
<1>2. /\ dpc[d] = "idle" => published = {} /\ rows[RowOf[s]].status = "absent"
      /\ dpc[d] # "idle" => dpc[d] = "publish" /\ s \in dtodo[d]
                              /\ rows[RowOf[s]].status = "absent"
  BY <1>0, <1>1, CallSteps DEF ClaimsInv, Present
<1>3. ASSUME NEW r \in receipts, RecordReceipt(r)
      PROVE  RowOf[r.task.target] # RowOf[s]
  <2>1. SUFFICES ASSUME RowOf[r.task.target] = RowOf[s] PROVE FALSE
    OBVIOUS
  <2>2. r.task \in published /\ Open(r.task) /\ r.task \in TargetDispatchTask
    BY <1>0, <1>3, RecordedOpen DEF TypeInv, TypeOK, StreamTypeOK, TaskTypeOK
  <2>3. r.task.target = s
    BY <1>1, <2>1, <2>2 DEF OneRowEach, TargetDispatchTask
  <2>4. r.task.call \notin Retries
    BY <1>2, <2>1, <2>2 DEF OneOpenInv
  <2>5. r.task.call = d
    BY <2>2, <2>4 DEF TargetDispatchTask, SingleDispatch
  <2>6. r.task = [call |-> d, target |-> s]
    BY <2>2, <2>3, <2>5 DEF TargetDispatchTask
  <2> QED  BY <1>2, <2>2, <2>6 DEF SmoothInv, FreshInv
<1>4. \A r \in receipts : RecordReceipt(r) => rows'[RowOf[s]] = rows[RowOf[s]]
  BY <1>1, <1>3, RecordedRows
<1>5. \A x \in Retries : RetryClaim(x) => rows'[RowOf[s]] = rows[RowOf[s]]
  BY <1>1, <1>2, ClaimedRows
<1> QED  BY <1>2, <1>4, <1>5, RowSteps DEF Records

\* A row that a call holds is nobody else's.
LEMMA HeldRowsStep ==
    ASSUME TypeInv, SingleDispatch, OneRowEach, SmoothInv, RetryCallsInv, OneOpenInv,
           ClaimsInv, RetriedStep, NEW x \in Retries, NEW k \in rtodo'[x]
    PROVE  /\ \A y \in Retries : k \in rtodo'[y] => x = y
           /\ rows'[k].status = "queued"
           /\ \A m \in published' : Open(m)' => RowOf[m.target] # k
<1>0. NoFaultStep /\ RetryTypeOK /\ k \in Rows
  BY RetriedSteps, TypeStep DEF TypeInv, TypeOK, RetryTypeOK
<1>1. CASE RetryClaim(x)
  <2>1. /\ rows[k].status = "failed" /\ rows'[k].status = "queued" /\ published' = published
        /\ \A y \in Retries : y # x => rtodo'[y] = rtodo[y]
    BY <1>1, ClaimedRows
  <2>2. \A m \in published : Open(m) => RowOf[m.target] # k
    BY <2>1 DEF OneOpenInv
  <2>3. \A m \in published' : Open(m)' => Open(m)
    BY <1>0, <2>1, Opens
  <2> QED  BY <2>1, <2>2, <2>3 DEF ClaimsInv
<1>2. CASE k \in rtodo[x]
  <2>1. /\ rows[k].status = "queued"
        /\ \A m \in published : Open(m) => RowOf[m.target] # k
        /\ \A y \in Retries : k \in rtodo[y] => x = y
    BY <1>2 DEF ClaimsInv
  <2>2. ASSUME NEW y \in Retries, k \in rtodo'[y]
        PROVE  x = y
    <3>1. RetryClaim(y) => rows[k].status = "failed"
      BY <2>2, ClaimedRows
    <3> QED  BY <2>1, <2>2, <3>1, ClaimsFrom
  <2>3. rows'[k].status = "queued"
    <3>1. ASSUME NEW r \in receipts, RecordReceipt(r) PROVE rows'[k] = rows[k]
      <4>1. RowOf[r.task.target] # k
        BY <1>0, <2>1, <3>1, RecordedOpen
      <4> QED  BY <1>0, <3>1, <4>1, RecordedRows
    <3>2. \A y \in Retries : RetryClaim(y) => rows'[k] = rows[k]
      BY <1>0, <2>1, ClaimedRows
    <3> QED  BY <2>1, <3>1, <3>2, RowSteps DEF Records
  <2>4. ASSUME NEW m \in published', Open(m)', RowOf[m.target] = k
        PROVE  FALSE
    <3>1. PublishesTask(m) /\ ~ Open(m)
      BY <1>0, <2>1, <2>4, Opens DEF Open
    <3>2. m \in TargetDispatchTask
      BY <1>0, TypeStep DEF NoFaultStep, TypeInv, TypeOK, StreamTypeOK, TaskTypeOK
    <3>3. m.call \in Retries
      BY <2>1, <2>4, <3>1, <3>2, PublishesAlone
    <3>4. m.call \notin Dispatches
      BY <3>3, ContractsAssumption
    <3>5. PICK y \in Retries : \E j \in rtodo[y] :
             m = [call |-> y, target |-> rows[j].owner] /\ rtodo' = [rtodo EXCEPT ![y] = @ \ {j}]
      BY <3>1, <3>4 DEF PublishesTask
    <3>6. PICK j \in rtodo[y] :
             m = [call |-> y, target |-> rows[j].owner] /\ rtodo' = [rtodo EXCEPT ![y] = @ \ {j}]
      BY <3>5
    <3>7. j \in Rows /\ rows[j].status = "queued"
      BY <1>0, <3>6 DEF ClaimsInv, RetryTypeOK
    <3>8. j = k
      BY <2>4, <3>6, <3>7 DEF SmoothInv, FreshInv
    <3>9. y = x
      BY <2>1, <3>6, <3>8
    <3> QED  BY <1>0, <3>6, <3>8, <3>9 DEF RetryTypeOK
  <2> QED  BY <2>2, <2>3, <2>4
<1> QED  BY <1>1, <1>2, ClaimsFrom

LEMMA ClaimsStep ==
    ASSUME TypeInv, SingleDispatch, OneRowEach, SmoothInv, RetryCallsInv, OneOpenInv,
           ClaimsInv, RetriedStep
    PROVE  ClaimsInv'
<1>1. ClaimsInv' =
        (/\ \A d \in Dispatches : dpc'[d] = "idle" => published' = {} /\ Present(rows)' = {}
         /\ \A d \in Dispatches : dpc'[d] = "publish" =>
               \A s \in dtodo'[d] : rows'[RowOf[s]].status = "absent"
         /\ \A x, y \in Retries : \A k \in rtodo'[x] : k \in rtodo'[y] => x = y
         /\ \A x \in Retries : \A k \in rtodo'[x] :
               /\ rows'[k].status = "queued"
               /\ \A m \in published' : Open(m)' => RowOf[m.target] # k)
  BY DEF ClaimsInv, Open, Out, Present
<1>2. \A d \in Dispatches : dpc'[d] = "idle" => published' = {} /\ Present(rows)' = {}
  BY UndispatchedStep
<1>3. \A d \in Dispatches : dpc'[d] = "publish" =>
         \A s \in dtodo'[d] : rows'[RowOf[s]].status = "absent"
  BY UnpublishedStep
<1>4. /\ \A x, y \in Retries : \A k \in rtodo'[x] : k \in rtodo'[y] => x = y
      /\ \A x \in Retries : \A k \in rtodo'[x] :
            /\ rows'[k].status = "queued"
            /\ \A m \in published' : Open(m)' => RowOf[m.target] # k
  BY HeldRowsStep
<1> QED  BY <1>1, <1>2, <1>3, <1>4

-----------------------------------------------------------------------------
\* What the retries of a completed campaign leave queued.

\* If no call has found the campaign still processing, a queued row is held by
\* a call or waits for an open task, and none of these finds it completed.
ServedInv ==
    (\A x \in Retries : rseen[x] # "processing") =>
        /\ \A k \in Queued(rows) :
              \/ \E x \in Retries : k \in rtodo[x]
              \/ \E m \in published : Open(m) /\ m.call \in Retries /\ RowOf[m.target] = k
        /\ \A m \in published : m.call \in Retries /\ Open(m) => status # "completed"
        /\ \A x \in Retries : rpc[x] = "publish" /\ rtodo[x] # {} => status # "completed"

LEMMA CompletedFrom ==
    ASSUME TypeInv, RetryCallsInv, RetriedStep, status' = "completed"
    PROVE  status = "completed" \/ Queued(rows)' = {}
<1>1. \A m : PublishesTask(m) => status' = status
  BY DEF PublishesTask, ledgerVars
<1>2. \A d \in Dispatches : DispatchTurns(d) => status' = status \/ status' = "processing"
  BY DEF DispatchTurns, DispatchRead, DispatchMark, SetDispatching, ledgerVars
<1>3. \A x \in Retries : RetryTurns(x) => status' = status \/ status' = "processing"
  BY DEF RetryTurns, RetryRead, RetryClaim, RetryReopen, RetryPublished, UpdateStatus,
         ClaimDeliveriesForRetry, ledgerVars
<1>4. \A r \in receipts : Records(r) => status' = status \/ Queued(rows)' = {}
  BY DEF Records, RecordReceipt, RecordDeliveryResult, Finished, Queued
<1> QED  BY <1>1, <1>2, <1>3, <1>4, RetriedMoves DEF LeavesAll, ledgerVars

LEMMA SeenFrom ==
    ASSUME TypeInv, RetryCallsInv, RetriedStep, NEW x \in Retries, rseen[x] = "processing"
    PROVE  rseen'[x] = "processing"
<1>1. RetryTypeOK
  BY DEF TypeInv, TypeOK
<1>2. \A y \in Retries : RetryRead(y) => y # x /\ rseen'[x] = rseen[x]
  BY <1>1 DEF RetryRead, RetryCallsInv, RetryTypeOK
<1> QED
  BY <1>2, RetriedMoves
  DEF LeavesAll, Records, PublishesTask, DispatchTurns, RetryTurns, retryVars, RetryClaim,
      RetryReopen, RetryPublished

\* A call comes to publish from its claim, or from reopening the campaign.
LEMMA PublishFrom ==
    ASSUME TypeInv, RetryCallsInv, RetriedStep, NEW x \in Retries, rpc'[x] = "publish"
    PROVE  \/ rpc[x] = "publish"
           \/ rseen[x] = "processing"
           \/ status' = "processing"
<1>1. RetryTypeOK
  BY DEF TypeInv, TypeOK
<1>2. ASSUME NEW y \in Retries, RetryTurns(y), y # x
      PROVE  rpc'[x] = rpc[x]
  BY <1>1, <1>2 DEF RetryTurns, RetryRead, RetryClaim, RetryReopen, RetryPublished,
                    RetryGoto, RetryTypeOK
<1>3. ASSUME RetryRead(x) \/ RetryPublished(x) PROVE rpc[x] = "publish"
  BY <1>1, <1>3 DEF RetryRead, RetryPublished, RetryGoto, RetryTypeOK
<1>4. ASSUME RetryClaim(x) PROVE rseen[x] = "processing"
  <2>1. rpc[x] = "claim" /\ rseen[x] # "completed"
    BY <1>1, <1>4 DEF RetryClaim, RetryGoto, RetryTypeOK
  <2> QED  BY <2>1 DEF RetryCallsInv
<1>5. ASSUME RetryReopen(x) PROVE status' = "processing"
  BY <1>5, NothingFails, RetriedSteps DEF RetryReopen, UpdateStatus, NoFaultStep
<1> QED
  BY <1>2, <1>3, <1>4, <1>5, RetriedMoves
  DEF LeavesAll, Records, PublishesTask, DispatchTurns, RetryTurns, retryVars

\* A call holds a row until it publishes its task.
LEMMA ClaimsUntil ==
    ASSUME TypeInv, RetryCallsInv, RetriedStep, NEW x \in Retries, NEW k \in rtodo[x]
    PROVE  \/ k \in rtodo'[x]
           \/ \E m \in TargetDispatchTask :
                 PublishesTask(m) /\ m.call = x /\ m.target = rows[k].owner
<1>1. RetryTypeOK
  BY DEF TypeInv, TypeOK
<1>2. ASSUME NEW m \in TargetDispatchTask, PublishesTask(m), k \notin rtodo'[x]
      PROVE  m.call = x /\ m.target = rows[k].owner
  <2>1. rtodo' # rtodo
    BY <1>2
  <2>2. PICK y \in Retries : \E j \in rtodo[y] :
           m = [call |-> y, target |-> rows[j].owner] /\ rtodo' = [rtodo EXCEPT ![y] = @ \ {j}]
    BY <1>2, <2>1 DEF PublishesTask, retryVars
  <2>3. PICK j \in rtodo[y] :
           m = [call |-> y, target |-> rows[j].owner] /\ rtodo' = [rtodo EXCEPT ![y] = @ \ {j}]
    BY <2>2
  <2>4. y = x /\ j = k
    BY <1>1, <1>2, <2>3 DEF RetryTypeOK
  <2> QED  BY <2>3, <2>4
<1>3. ASSUME NEW y \in Retries, RetryClaim(y)
      PROVE  k \in rtodo'[x]
  <2>1. y # x
    BY <1>3, ClaimedRows DEF RetryCallsInv
  <2> QED  BY <1>3, <2>1, ClaimedRows
<1> QED
  BY <1>2, <1>3, RetriedMoves
  DEF LeavesAll, Records, DispatchTurns, RetryTurns, retryVars, RetryRead, RetryReopen,
      RetryPublished

LEMMA ServedStep ==
    ASSUME TypeInv, SingleDispatch, OneRowEach, SmoothInv, RetryCallsInv, OneOpenInv,
           ClaimsInv, ServedInv, RetriedStep
    PROVE  ServedInv'
<1> DEFINE Held(k) == \E x \in Retries : k \in rtodo'[x]
           Live(k) == \E m \in published' :
                         Open(m)' /\ m.call \in Retries /\ RowOf[m.target] = k
<1>0. NoFaultStep /\ OneOpenInv' /\ ClaimsInv' /\ TypeInv' /\ RetryTypeOK
  BY RetriedSteps, OneOpenStep, ClaimsStep, TypeStep DEF TypeInv, TypeOK, NoFaultStep
<1>1. ServedInv' = ((\A x \in Retries : rseen'[x] # "processing") =>
         /\ \A k \in Queued(rows)' : Held(k) \/ Live(k)
         /\ \A m \in published' : m.call \in Retries /\ Open(m)' => status' # "completed"
         /\ \A x \in Retries : rpc'[x] = "publish" /\ rtodo'[x] # {} => status' # "completed")
  BY DEF ServedInv, Queued, Open, Out
<1> HIDE DEF Held, Live
<1>2. SUFFICES ASSUME \A x \in Retries : rseen'[x] # "processing"
               PROVE  /\ \A k \in Queued(rows)' : Held(k) \/ Live(k)
                      /\ \A m \in published' : m.call \in Retries /\ Open(m)'
                            => status' # "completed"
                      /\ \A x \in Retries : rpc'[x] = "publish" /\ rtodo'[x] # {}
                            => status' # "completed"
  BY <1>1
<1>3. \A x \in Retries : rseen[x] # "processing"
  BY <1>2, SeenFrom
<1>4. /\ \A k \in Queued(rows) :
            \/ \E x \in Retries : k \in rtodo[x]
            \/ \E m \in published : Open(m) /\ m.call \in Retries /\ RowOf[m.target] = k
      /\ \A m \in published : m.call \in Retries /\ Open(m) => status # "completed"
      /\ \A x \in Retries : rpc[x] = "publish" /\ rtodo[x] # {} => status # "completed"
  BY <1>3 DEF ServedInv
<1>5. ASSUME NEW k \in Queued(rows)'
      PROVE  Held(k) \/ Live(k)
  <2>0. k \in Rows /\ rows'[k].status = "queued"
    BY DEF Queued
  <2>1. CASE k \notin Queued(rows)
    <3>1. \A r \in receipts : ~ RecordReceipt(r)
      BY <1>5, <2>1, RecordedRows
    <3>2. PICK x \in Retries : RetryClaim(x)
      BY <2>0, <2>1, <3>1, RowSteps DEF Records, Queued
    <3>3. k \in rtodo'[x]
      BY <2>0, <2>1, <3>2, ClaimedRows DEF Queued
    <3> QED  BY <3>3 DEF Held
  <2>2. ASSUME NEW x \in Retries, k \in rtodo[x]
        PROVE  Held(k) \/ Live(k)
    <3>1. ASSUME NEW m \in TargetDispatchTask, PublishesTask(m), m.call = x,
                 m.target = rows[k].owner
          PROVE  Live(k)
      <4>1. rows[k].status = "queued"
        BY <2>2 DEF ClaimsInv
      <4>2. RowOf[m.target] = k
        BY <2>0, <3>1, <4>1 DEF SmoothInv, FreshInv
      <4>3. Open(m)' /\ m \in published'
        BY <1>0, <3>1, PublishedOpen
      <4> QED  BY <3>1, <4>2, <4>3 DEF Live
    <3> QED  BY <2>2, <3>1, ClaimsUntil DEF Held
  <2>3. ASSUME NEW m \in published, Open(m), m.call \in Retries, RowOf[m.target] = k
        PROVE  Live(k)
    <3>1. status # "completed"
      BY <1>4, <2>3
    <3>2. \A r \in receipts : RecordReceipt(r) => r.task # m
      <4>1. SUFFICES ASSUME NEW r \in receipts, RecordReceipt(r), r.task = m PROVE FALSE
        OBVIOUS
      <4>2. rows'[k].status \in Outcomes
        BY <2>3, <4>1, RecordedRows
      <4> QED  BY <2>0, <4>2 DEF Outcomes
    <3>3. Open(m)'
      BY <1>0, <2>3, <3>1, <3>2, StaysOpen
    <3>4. m \in published'
      BY <3>3 DEF Open
    <3> QED  BY <2>3, <3>3, <3>4 DEF Live
  <2> QED  BY <1>4, <2>1, <2>2, <2>3
<1>6. ASSUME NEW m \in published', m.call \in Retries, Open(m)'
      PROVE  status' # "completed"
  <2>0. m \in TargetDispatchTask /\ RowOf[m.target] \in Rows
    BY <1>0, LedgerAssumption DEF TypeInv, TypeOK, StreamTypeOK, TaskTypeOK, TargetDispatchTask
  <2>1. RowOf[m.target] \in Queued(rows)'
    BY <1>0, <1>6, <2>0 DEF OneOpenInv, Queued, Open, Out
  <2>2. status # "completed"
    <3>1. CASE Open(m)
      BY <1>4, <1>6, <3>1 DEF Open
    <3>2. CASE PublishesTask(m)
      <4>1. m.call \notin Dispatches
        BY <1>6, ContractsAssumption
      <4>2. \E x \in Retries : rpc[x] = "publish" /\ rtodo[x] # {}
        BY <3>2, <4>1 DEF PublishesTask
      <4> QED  BY <1>4, <4>2
    <3> QED  BY <1>0, <1>6, <3>1, <3>2, Opens
  <2> QED  BY <2>1, <2>2, CompletedFrom
<1>7. ASSUME NEW x \in Retries, rpc'[x] = "publish", rtodo'[x] # {}
      PROVE  status' # "completed"
  <2>1. PICK k \in rtodo'[x] : k \in Rows /\ rows'[k].status = "queued"
    BY <1>0, <1>7 DEF ClaimsInv, TypeInv, TypeOK, RetryTypeOK
  <2>2. Queued(rows)' # {}
    BY <2>1 DEF Queued
  <2>3. SUFFICES ASSUME status' = "completed", status = "completed" PROVE FALSE
    BY <2>2, CompletedFrom
  <2>4. rpc[x] = "publish"
    BY <1>3, <1>7, <2>3, PublishFrom
  <2>5. rtodo[x] # {}
    BY <2>1, <2>4, ClaimsFrom, ClaimedRows
  <2> QED  BY <1>4, <2>3, <2>4, <2>5
<1> QED  BY <1>5, <1>6, <1>7

-----------------------------------------------------------------------------
RetriedInv == RetryCallsInv /\ OneOpenInv /\ ClaimsInv /\ ServedInv

LEMMA RetriedInit == Init => RetriedInv
<1> SUFFICES ASSUME Init PROVE RetriedInv
  OBVIOUS
<1>1. /\ published = {} /\ status = "scheduled"
      /\ \A k \in Rows : rows[k].status = "absent"
  BY DEF Init, StreamInit, LedgerInit, NoRow
<1>2. \A x \in Retries : /\ rpc[x] = "idle" /\ rseen[x] = "draft"
                         /\ rtodo[x] = {} /\ rfailed[x] = {}
  BY DEF Init, RetryInit
<1>3. \A d \in Dispatches : dpc[d] = "idle"
  BY DEF Init, DispatchInit
<1>4. RetryCallsInv
  BY <1>1, <1>2 DEF RetryCallsInv
<1>5. OneOpenInv
  BY <1>1 DEF OneOpenInv
<1>6. ClaimsInv
  BY <1>1, <1>2, <1>3 DEF ClaimsInv, Present
<1>7. ServedInv
  BY <1>1, <1>2 DEF ServedInv, Queued
<1> QED  BY <1>4, <1>5, <1>6, <1>7 DEF RetriedInv

\* A row has at most one live task of a retry.
LEMMA LiveOnce ==
    ASSUME OneOpenInv, NEW k \in Rows
    PROVE  Cardinality(LiveRetries(k)) <= 1
<1>1. \A m \in LiveRetries(k) : m \in published /\ Open(m) /\ RowOf[m.target] = k
  BY DEF LiveRetries, Open, Out
<1>2. \A m, n \in LiveRetries(k) : m = n
  BY <1>1 DEF OneOpenInv
<1>3. CASE LiveRetries(k) = {}
  BY <1>3, FS_EmptySet
<1>4. CASE \E m : m \in LiveRetries(k)
  <2>1. PICK m : LiveRetries(k) = {m}
    BY <1>2, <1>4
  <2>2. Cardinality(LiveRetries(k)) = 1
    BY <2>1, FS_Singleton
  <2> QED  BY <2>2
<1> QED  BY <1>3, <1>4

\* A queued row is held, or its open task is live or has its result on the way.
LEMMA QueuedServed ==
    ASSUME ResultsInv, RetryCallsInv, ServedInv,
           \A x \in Retries : rseen[x] # "processing", NEW k \in Queued(rows)
    PROVE  Served(k)
<1>1. CASE \E x \in Retries : k \in rtodo[x]
  <2>1. PICK x \in Retries : k \in rtodo[x] /\ rpc[x] \in {"reopen", "publish"}
    BY <1>1 DEF RetryCallsInv
  <2> QED  BY <2>1 DEF Served
<1>2. ASSUME NEW m \in published, Open(m), m.call \in Retries, RowOf[m.target] = k
      PROVE  Served(k)
  <2>1. CASE Out(m)
    BY <1>2, <2>1 DEF Open, Served
  <2>2. CASE ~ Out(m)
    <3>1. m \in LiveRetries(k)
      BY <1>2, <2>2 DEF LiveRetries, Out, ResultsInv
    <3> QED  BY <3>1 DEF Served
  <2> QED  BY <2>1, <2>2
<1> QED  BY <1>1, <1>2 DEF ServedInv

\* With one dispatch call and a row for every target, of any number of retry
\* calls, however they overlap with each other and with the results: a row has
\* at most one live retried task, and what is claimed of a completed campaign
\* is served.
THEOREM RetriesServeOnce ==
    ASSUME SingleDispatch, OneRowEach
    PROVE  SafetySpec => []RetriedIsServedOnce
<1> DEFINE Inv == TypeInv /\ (scenario = "retried" => SmoothInv /\ RetriedInv)
<1>1. SafetyInit => Inv
  BY TypeInit, SmoothInit, RetriedInit DEF SafetyInit
<1>2. Inv /\ [SafetyNext]_<<vars, scenario>> => Inv'
  <2> SUFFICES ASSUME Inv, [SafetyNext]_<<vars, scenario>> PROVE Inv'
    OBVIOUS
  <2>1. TypeInv' /\ scenario' = scenario
    BY ScenarioSteps, TypeStep
  <2>2. ASSUME scenario = "retried" PROVE SmoothInv' /\ RetriedInv'
    <3>1. RetriedStep /\ NoFaultStep
      BY <2>2, RetriedSteps DEF SafetyNext, RetriedStep
    <3>2. SmoothInv'
      BY <2>2, <3>1, SmoothStep
    <3>3. RetryCallsInv' /\ OneOpenInv' /\ ClaimsInv' /\ ServedInv'
      BY <2>2, <3>1, RetryCallsStep, OneOpenStep, ClaimsStep, ServedStep DEF RetriedInv
    <3> QED  BY <3>2, <3>3 DEF RetriedInv
  <2> QED  BY <2>1, <2>2
<1>3. Inv => RetriedIsServedOnce
  <2> SUFFICES ASSUME Inv, scenario = "retried"
               PROVE  RetriedOnce /\ RetryAfterCompletionIsServed
    BY DEF RetriedIsServedOnce
  <2>1. RetriedOnce
    BY LiveOnce DEF RetriedOnce, RetriedInv
  <2>2. RetryAfterCompletionIsServed
    BY QueuedServed
    DEF RetryAfterCompletionIsServed, QueuedIsServed, RetriedInv, SmoothInv
  <2> QED  BY <2>1, <2>2
<1> QED  BY <1>1, <1>2, <1>3, PTL DEF SafetySpec

=============================================================================
