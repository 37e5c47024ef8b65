---------------------------- MODULE CampaignLedger ----------------------------
(***************************************************************************)
(* The Postgres side of one campaign: its row in `campaigns` (status,      *)
(* total_targets, processed_targets) and its rows in `campaign_deliveries`.*)
(* Every operator below is one SQL statement or one SQL transaction of     *)
(* postgres_campaign.go, so each is atomic; what is not atomic is the code *)
(* around them, which DeliveryPipeline models.                             *)
(*                                                                         *)
(* Two targets that share (target_type, routing_value) share a delivery    *)
(* row, whatever their platform: RowOf maps a target to its row.           *)
(***************************************************************************)
EXTENDS Contracts, FiniteSets

CONSTANTS
    Rows,       \* keys (target_type, routing_value) of campaign_deliveries
    RowOf,      \* the delivery row of each target
    NoTarget    \* "nobody": the owner of a row that does not exist yet

ASSUME LedgerAssumption ==
    /\ IsFiniteSet(Rows)
    /\ RowOf \in [Targets -> Rows]
    /\ NoTarget \notin Targets

VARIABLES
    status,     \* campaigns.status
    total,      \* campaigns.total_targets
    processed,  \* campaigns.processed_targets
    rows        \* campaign_deliveries of this campaign, by key

ledgerVars == <<status, total, processed, rows>>

CampaignStatuses ==
    {"draft", "scheduled", "pending_approval", "approved", "rejected",
     "processing", "paused", "completed", "cancelled"}

RowStatuses == Outcomes \cup {"queued", "absent"}

NoRow == [status |-> "absent", owner |-> NoTarget]

Present(r) == {k \in Rows : r[k].status # "absent"}
Queued(r) == {k \in Rows : r[k].status = "queued"}

LedgerTypeOK ==
    /\ status \in CampaignStatuses
    /\ total \in Nat
    /\ processed \in Nat
    /\ rows \in [Rows -> [status : RowStatuses, owner : Targets \cup {NoTarget}]]

LedgerInit(s) ==
    /\ status = s
    /\ total = 0
    /\ processed = 0
    /\ rows = [k \in Rows |-> NoRow]

-----------------------------------------------------------------------------

\* The statement has no WHERE on the status: it fires whatever the row holds.
SetDispatching(n) ==
    /\ status' = "processing"
    /\ total' = n
    /\ processed' = 0
    /\ UNCHANGED rows

\* The unconditional status write RetryDeliveries reopens and restores with.
UpdateStatus(s) ==
    /\ status' = s
    /\ UNCHANGED <<total, processed, rows>>

\* Mistaken variant, for mutation: one report too many.
FinishedLate(r) ==
    /\ status = "processing" /\ total > 0
    /\ Cardinality(Present(r)) > total
    /\ Queued(r) = {}

\* The CASE of the progress update, over the rows the transaction sees.
Finished(r) ==
    /\ status = "processing" /\ total > 0
    /\ Cardinality(Present(r)) >= total
    /\ Queued(r) = {}

\* The upsert keeps the first platform and contact of the row, and lets the
\* last result win.
Upserted(t, outcome) ==
    [rows EXCEPT ![RowOf[t]] =
        [status |-> outcome,
         owner |-> IF rows[RowOf[t]].status = "absent" THEN t
                                                       ELSE rows[RowOf[t]].owner]]

\* The upsert and, in the same transaction, the progress recounted.
RecordDeliveryResult(t, outcome) ==
    /\ rows' = Upserted(t, outcome)
    /\ processed' = Cardinality(Present(Upserted(t, outcome)))
    /\ status' = IF Finished(Upserted(t, outcome)) THEN "completed" ELSE status
    /\ UNCHANGED total

\* Mistaken variants, for mutation: a row already queued, a row in any state.
ClaimableQueued(ids) == {k \in ids : rows[k].status \in {"failed", "queued"}}

ClaimableAny(ids) == ids \cap Present(rows)

\* The rows of a retry request that can be claimed: failed and retryable.
Claimable(ids) == {k \in ids : rows[k].status = "failed"}

ClaimDeliveriesForRetry(ids) ==
    /\ rows' = [k \in Rows |-> IF k \in Claimable(ids)
                               THEN [rows[k] EXCEPT !.status = "queued"]
                               ELSE rows[k]]
    /\ UNCHANGED <<status, total, processed>>

\* Mistaken variant, for mutation: it writes a status no reader knows.
ReleaseUnknown(ids) ==
    /\ rows' = [k \in Rows |-> IF k \in ids THEN [rows[k] EXCEPT !.status = "released"]
                                            ELSE rows[k]]
    /\ UNCHANGED <<status, total, processed>>

ReleaseDeliveryClaims(ids) ==
    /\ rows' = [k \in Rows |-> IF k \in ids /\ rows[k].status = "queued"
                               THEN [rows[k] EXCEPT !.status = "failed"]
                               ELSE rows[k]]
    /\ UNCHANGED <<status, total, processed>>

PauseCampaign ==
    /\ status = "processing"
    /\ UpdateStatus("paused")

ResumeCampaign ==
    /\ status = "paused"
    /\ UpdateStatus("processing")

CancelCampaign ==
    /\ status \in {"draft", "scheduled", "pending_approval", "approved"}
    /\ UpdateStatus("cancelled")

CancelScheduledCampaign ==
    /\ status = "scheduled"
    /\ UpdateStatus("draft")

=============================================================================
