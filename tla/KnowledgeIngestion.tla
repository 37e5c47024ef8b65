-------------------------- MODULE KnowledgeIngestion --------------------------
(***************************************************************************)
(* Uploaded documents on their way to the assistant's knowledge: the job   *)
(* row, the queued message that points at it, and the workers that claim   *)
(* the row under a lease of ten minutes while the message is redelivered   *)
(* after six.                                                              *)
(***************************************************************************)
EXTENDS Naturals, FiniteSets

CONSTANTS
    Job,             \* uploads
    Worker,          \* processes subscribed to the queue
    MaxIngestDeliver,\* nats.MaxDeliver
    MaxAttempts,     \* attempts a row can be claimed for
    IngestFaults,    \* kinds of fault that may happen
    MaxIngestFaults  \* bound: faults

ASSUME KnowledgeIngestionAssumption ==
    /\ MaxIngestDeliver \in Nat \ {0} /\ MaxAttempts \in Nat /\ MaxIngestFaults \in Nat

VARIABLES
    upload,     \* the requests that upload
    jobRow,     \* ai_knowledge_ingestion_jobs
    jobMessage, \* ai.knowledge.ingestion.requested
    ingester,   \* the workers
    ingestFaults

ingestionVars == <<upload, jobRow, jobMessage, ingester, ingestFaults>>

NoJob == [status |-> "none", attempts |-> 0, lapsed |-> FALSE, source |-> FALSE]
Resting == [pc |-> "idle"]

Holds(w, j) == ingester[w] # Resting /\ ingester[w].job = j
Working(w, j) == Holds(w, j) /\ ingester[w].pc # "claim"

IngestionInit ==
    /\ upload = [j \in Job |-> "new"]
    /\ jobRow = [j \in Job |-> NoJob]
    /\ jobMessage = [j \in Job |-> [phase |-> "absent", tries |-> 0]]
    /\ ingester = [w \in Worker |-> Resting]
    /\ ingestFaults = 0

IngestFault(kind) ==
    kind \in IngestFaults /\ ingestFaults < MaxIngestFaults /\ ingestFaults' = ingestFaults + 1

-----------------------------------------------------------------------------
(* The upload *)

\* An upload without a provider, a queue or content is refused before this.
CreateKnowledgeIngestionJob(j) ==
    /\ upload[j] = "new"
    /\ upload' = [upload EXCEPT ![j] = "created"]
    /\ jobRow' = [jobRow EXCEPT ![j] =
                    [status |-> "queued", attempts |-> 0, lapsed |-> FALSE, source |-> TRUE]]
    /\ UNCHANGED <<jobMessage, ingester, ingestFaults>>

\* The stream may have stored a message whose acknowledgement was lost.
EnqueueKnowledgeIngestion(j) ==
    /\ upload[j] = "created"
    /\ \/ upload' = [upload EXCEPT ![j] = "accepted"] /\ ingestFaults' = ingestFaults
          /\ jobMessage' = [jobMessage EXCEPT ![j].phase = "waiting"]
       \/ IngestFault("publish") /\ jobMessage' = jobMessage
          /\ upload' = [upload EXCEPT ![j] = "refusing"]
       \/ IngestFault("publish_answer") /\ upload' = [upload EXCEPT ![j] = "refusing"]
          /\ jobMessage' = [jobMessage EXCEPT ![j].phase = "waiting"]
    /\ UNCHANGED <<jobRow, ingester>>

Settled(row, status) ==
    [status |-> status, attempts |-> row.attempts, lapsed |-> row.lapsed, source |-> FALSE]

FailUpload(j) ==
    /\ upload[j] = "refusing"
    /\ upload' = [upload EXCEPT ![j] = "refused"]
    /\ \/ jobRow' = [jobRow EXCEPT ![j] = Settled(@, "failed")] /\ ingestFaults' = ingestFaults
       \/ IngestFault("statement") /\ jobRow' = jobRow
    /\ UNCHANGED <<jobMessage, ingester>>

-----------------------------------------------------------------------------
(* The queue *)

Deliver(w, j) ==
    /\ ingester[w] = Resting
    /\ jobMessage[j].phase = "waiting" /\ jobMessage[j].tries < MaxIngestDeliver
    /\ jobMessage' = [jobMessage EXCEPT ![j] = [phase |-> "held", tries |-> @.tries + 1]]
    /\ ingester' = [ingester EXCEPT ![w] = [pc |-> "claim", job |-> j]]
    /\ UNCHANGED <<upload, jobRow, ingestFaults>>

NakJob(w) == jobMessage' = [jobMessage EXCEPT ![ingester[w].job].phase = "waiting"]

AckJob(w) == jobMessage' = [jobMessage EXCEPT ![ingester[w].job].phase = "acked"]

\* AckWait: the message of a worker that stopped, or that is slow, is sent again.
AckWaitPasses(j) ==
    /\ jobMessage[j].phase = "held"
    /\ \/ ~(\E w \in Worker : Holds(w, j)) /\ ingestFaults' = ingestFaults
       \/ (\E w \in Worker : Working(w, j)) /\ IngestFault("slow")
    /\ jobMessage' = [jobMessage EXCEPT ![j].phase = "waiting"]
    /\ UNCHANGED <<upload, jobRow, ingester>>

-----------------------------------------------------------------------------
(* The workers *)

\* Mistaken variant, for mutation: a redelivered message takes the row over.
ClaimableAny(row) == row.attempts < MaxAttempts

Claimable(row) ==
    /\ row.attempts < MaxAttempts
    /\ \/ row.status = "queued"
       \/ row.status = "processing" /\ row.lapsed

Claimed(row) ==
    [status |-> "processing", attempts |-> row.attempts + 1, lapsed |-> FALSE, source |-> row.source]

\* A row that cannot be claimed counts as done, and its message is acknowledged.
ClaimKnowledgeIngestionJob(w) ==
    LET j == ingester[w].job
        claimed == [jobRow EXCEPT ![j] = Claimed(@)]
    IN
    /\ ingester[w].pc = "claim"
    /\ \/ Claimable(jobRow[j]) /\ jobRow' = claimed
          /\ ingester' = [ingester EXCEPT ![w].pc = "extract"]
          /\ UNCHANGED <<jobMessage, ingestFaults>>
       \/ ~Claimable(jobRow[j]) /\ AckJob(w)
          /\ ingester' = [ingester EXCEPT ![w] = Resting] /\ UNCHANGED <<jobRow, ingestFaults>>
       \/ IngestFault("statement") /\ NakJob(w)
          /\ ingester' = [ingester EXCEPT ![w] = Resting] /\ jobRow' = jobRow
       \/ IngestFault("answer") /\ Claimable(jobRow[j]) /\ jobRow' = claimed /\ NakJob(w)
          /\ ingester' = [ingester EXCEPT ![w] = Resting]
    /\ UNCHANGED upload

\* The text may be unreadable or empty, the model may fail or find nothing.
ExtractKnowledge(w) ==
    /\ ingester[w].pc = "extract"
    /\ \E next \in {"complete", "fail"} : ingester' = [ingester EXCEPT ![w].pc = next]
    /\ UNCHANGED <<upload, jobRow, jobMessage, ingestFaults>>

Record(w, status) ==
    /\ \/ jobRow' = [jobRow EXCEPT ![ingester[w].job] = Settled(@, status)] /\ AckJob(w)
          /\ ingestFaults' = ingestFaults
       \/ IngestFault("statement") /\ jobRow' = jobRow /\ NakJob(w)
    /\ ingester' = [ingester EXCEPT ![w] = Resting]
    /\ UNCHANGED upload

CompleteKnowledgeIngestionJob(w) == ingester[w].pc = "complete" /\ Record(w, "ready")

FailKnowledgeIngestionJob(w) == ingester[w].pc = "fail" /\ Record(w, "failed")

WorkerStops(w) ==
    /\ ingester[w] # Resting /\ IngestFault("crash")
    /\ ingester' = [ingester EXCEPT ![w] = Resting]
    /\ UNCHANGED <<upload, jobRow, jobMessage>>

\* A clock of ten minutes. A worker's context ends after five, and the guard
\* takes the work to have ended with it: a PDF or DOCX whose extraction, which
\* does not look at the context, goes on past the lease is left out.
LeaseLapses(j) ==
    /\ jobRow[j].status = "processing" /\ ~jobRow[j].lapsed
    /\ ~(\E w \in Worker : Working(w, j))
    /\ jobRow' = [jobRow EXCEPT ![j].lapsed = TRUE]
    /\ UNCHANGED <<upload, jobMessage, ingester, ingestFaults>>

Callback(w) ==
    \/ ClaimKnowledgeIngestionJob(w) \/ ExtractKnowledge(w)
    \/ CompleteKnowledgeIngestionJob(w) \/ FailKnowledgeIngestionJob(w)

IngestionNext ==
    \/ \E j \in Job : \/ CreateKnowledgeIngestionJob(j) \/ EnqueueKnowledgeIngestion(j) \/ FailUpload(j)
                      \/ AckWaitPasses(j) \/ LeaseLapses(j)
                      \/ \E w \in Worker : Deliver(w, j)
    \/ \E w \in Worker : Callback(w) \/ WorkerStops(w)

IngestionSpec == IngestionInit /\ [][IngestionNext]_ingestionVars

\* A subscription runs its callbacks to the end, the server delivers what
\* waits and redelivers what is not acknowledged.
IngestionFairness ==
    /\ \A w \in Worker : WF_ingestionVars(Callback(w))
    /\ \A j \in Job : /\ WF_ingestionVars(EnqueueKnowledgeIngestion(j)) /\ WF_ingestionVars(FailUpload(j))
                      /\ WF_ingestionVars(AckWaitPasses(j))
                      /\ WF_ingestionVars(\E w \in Worker : Deliver(w, j))

IngestionFairSpec == IngestionSpec /\ IngestionFairness

-----------------------------------------------------------------------------
IngestionTypeOK ==
    /\ upload \in [Job -> {"new", "created", "accepted", "refusing", "refused"}]
    /\ \A j \in Job : /\ jobRow[j].status \in {"none", "queued", "processing", "ready", "failed"}
                      /\ jobRow[j].attempts \in 0..MaxAttempts
                      /\ jobMessage[j].phase \in {"absent", "waiting", "held", "acked"}
                      /\ jobMessage[j].tries \in 0..MaxIngestDeliver

\* The lease outlives the redelivery: two workers never process one document at
\* once, as often as its message comes again while the first is at work on it
\* within the lease.
LeaseIsExclusive ==
    \A j \in Job : Cardinality({w \in Worker : Working(w, j)}) <= 1

\* A document is kept as long as its row can be claimed, and is gone from the
\* row once it is settled.
SourceUntilSettled ==
    \A j \in Job : jobRow[j].source = (jobRow[j].status \in {"queued", "processing"})

\* A worker that processes a document is the only one, and its row can be
\* claimed again only while it has the document.
LeaseHolds == LeaseIsExclusive /\ SourceUntilSettled

\* Without a fault every accepted upload is served, whatever order the
\* messages come in: its row becomes ready or failed.
AcceptedIsSettled ==
    []<>(\A j \in Job : upload[j] = "accepted" =>
                           jobRow[j].status \in {"ready", "failed"} \/ ingestFaults > 0)

\* A message is acknowledged only for a row that is settled or that some
\* worker is processing.
AckedIsHandled ==
    \A j \in Job : jobMessage[j].phase = "acked" =>
        jobRow[j].status \in {"ready", "failed"} \/ \E w \in Worker : Working(w, j)
=============================================================================
