--------------------------- MODULE TelemetryConsumer ---------------------------
(***************************************************************************)
(* processReceipt, the handler of dispatch.result, in one gateway process: *)
(* it writes the result to the ledger in one transaction, reads the stats  *)
(* back in another, leaves a notification if the campaign looks finished,  *)
(* and acknowledges. Receipts reach it in any order.                       *)
(***************************************************************************)
EXTENDS CampaignLedger, DispatchStream, Environment

CONSTANT NoReceipt    \* "no receipt in hand"

ASSUME TelemetryAssumption == NoReceipt \notin TargetDeliveryResult

VARIABLES
    tele,        \* the receipt recorded and not yet acknowledged
    notified     \* campaign_completed notifications written

telemetryVars == <<tele, notified>>

TelemetryTypeOK ==
    /\ tele \in TargetDeliveryResult \cup {NoReceipt}
    /\ notified \in Nat

TelemetryInit ==
    /\ tele = NoReceipt
    /\ notified = 0

RecordReceipt(r) ==
    /\ tele = NoReceipt
    /\ r \in receipts
    /\ RecordDeliveryResult(r.task.target, r.outcome)
    /\ tele' = r
    /\ UNCHANGED <<streamVars, faults, notified>>

LooksFinished == status = "completed" /\ processed = total /\ total > 0

Notify == notified' = IF LooksFinished THEN notified + 1 ELSE notified

\* Mistaken variant, for mutation: it acknowledges before it notifies.
FinishReceiptAckedFirst ==
    /\ tele # NoReceipt
    /\ tele' = NoReceipt
    /\ AckResult(tele)
    /\ \/ Notify /\ NoFault
       \/ UNCHANGED notified /\ Fault("telemetry_crash")
    /\ UNCHANGED <<ledgerVars, taskVars>>

\* Stats, notification, Ack. The errors of the first two are ignored. The
\* process may die before the notification or between it and the Ack; the
\* receipt then comes again.
FinishReceipt ==
    /\ tele # NoReceipt
    /\ tele' = NoReceipt
    /\ \/ Notify /\ AckResult(tele) /\ NoFault
       \/ UNCHANGED notified /\ AckResult(tele) /\ Fault("notification")
       \/ Notify /\ UNCHANGED receipts /\ Fault("telemetry_crash")
       \/ UNCHANGED <<receipts, notified>> /\ Fault("telemetry_crash")
    /\ UNCHANGED <<ledgerVars, taskVars>>

TelemetryStep ==
    /\ (\E r \in receipts : RecordReceipt(r)) \/ FinishReceipt
    /\ UNCHANGED <<optedOut, expired>>

=============================================================================
