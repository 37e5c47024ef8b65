-------------------------- MODULE ReceiptTransactions --------------------------
(***************************************************************************)
(* RecordDeliveryResult, statement by statement, as Postgres runs it at    *)
(* its default READ COMMITTED level: the upsert of the delivery row, then  *)
(* the update of the campaign row from a count of the delivery rows, then  *)
(* the commit. The count is taken from the rows committed when the update  *)
(* starts, and an update that has to wait for the campaign row goes on     *)
(* with the count it has. (The wait itself is not a step: an update holds  *)
(* the campaign row until the commit, so a later one commits later.)       *)
(*                                                                         *)
(* CampaignLedger takes the whole transaction for one atomic step. This    *)
(* module says when that is so: with one consumer in the queue group, which*)
(* is one gateway process, and not with two.                               *)
(***************************************************************************)
EXTENDS CampaignLedger

CONSTANTS
    Consumers,   \* the gateway processes that consume dispatch.result
    NoResult     \* "no transaction open"

ResultKinds == [target : Targets, outcome : Outcomes]

ASSUME ReceiptAssumption ==
    /\ IsFiniteSet(Targets)
    /\ NoResult \notin ResultKinds

VARIABLES
    due,      \* results that have not been committed yet
    tres,     \* the result of each consumer's open transaction
    counted,  \* consumers past the start of the second statement
    tview     \* the delivery rows that statement sees

transactionVars == <<due, tres, counted, tview>>
receiptVars == <<ledgerVars, transactionVars>>

ReceiptTypeOK ==
    /\ LedgerTypeOK
    /\ due \subseteq ResultKinds
    /\ tres \in [Consumers -> ResultKinds \cup {NoResult}]
    /\ counted \subseteq {c \in Consumers : tres[c] # NoResult}
    /\ tview \in [Consumers ->
                     [Rows -> [status : RowStatuses, owner : Targets \cup {NoTarget}]]]

\* A dispatched campaign: every target's result is under way.
ReceiptInit ==
    /\ status = "processing"
    /\ total = Cardinality(Targets)
    /\ processed = 0
    /\ rows = [k \in Rows |-> NoRow]
    /\ \E outcome \in [Targets -> Outcomes] :
          due = {[target |-> t, outcome |-> outcome[t]] : t \in Targets}
    /\ tres = [c \in Consumers |-> NoResult]
    /\ counted = {}
    /\ tview = [c \in Consumers |-> rows]

-----------------------------------------------------------------------------

Open(c) == tres[c] # NoResult
Locked(k) == \E c \in Consumers : Open(c) /\ RowOf[tres[c].target] = k

\* The first statement; it waits for another transaction's row.
Upsert(c) ==
    /\ ~ Open(c)
    /\ \E r \in due :
          /\ ~ Locked(RowOf[r.target])
          /\ tres' = [tres EXCEPT ![c] = r]
    /\ UNCHANGED <<ledgerVars, due, counted, tview>>

\* Mistaken variant, for mutation: the count reads the rows before the upsert.
CountTooSoon(c) ==
    /\ Open(c)
    /\ c \notin counted
    /\ tview' = [tview EXCEPT ![c] = rows]
    /\ counted' = counted \cup {c}
    /\ UNCHANGED <<ledgerVars, due, tres>>

\* The second statement starts: it sees what is committed, and its own upsert.
Count(c) ==
    /\ Open(c)
    /\ c \notin counted
    /\ tview' = [tview EXCEPT ![c] = Upserted(tres[c].target, tres[c].outcome)]
    /\ counted' = counted \cup {c}
    /\ UNCHANGED <<ledgerVars, due, tres>>

Close(c) ==
    /\ tres' = [tres EXCEPT ![c] = NoResult]
    /\ counted' = counted \ {c}
    /\ UNCHANGED tview

\* Mistaken variant, for mutation: the connection dies before the commit and the
\* handler acknowledges.
RollbackAcked(c) ==
    /\ Open(c)
    /\ due' = due \ {tres[c]}
    /\ Close(c)
    /\ UNCHANGED ledgerVars

\* The campaign row is updated, as it is by now, and the transaction commits.
Commit(c) ==
    /\ c \in counted
    /\ rows' = Upserted(tres[c].target, tres[c].outcome)
    /\ processed' = Cardinality(Present(tview[c]))
    /\ status' = IF Finished(tview[c]) THEN "completed" ELSE status
    /\ due' = due \ {tres[c]}
    /\ Close(c)
    /\ UNCHANGED total

\* A statement fails, the 5 s window closes, the process dies: the result comes
\* again.
Rollback(c) ==
    /\ Open(c)
    /\ Close(c)
    /\ UNCHANGED <<ledgerVars, due>>

\* RetryDeliveries claims a row, and the retried task has some result; like any
\* writer of the row, the claim waits for an open transaction on it.
ClaimRow(k) ==
    /\ ~ Locked(k)
    /\ Claimable({k}) # {}
    /\ ClaimDeliveriesForRetry({k})
    /\ \E outcome \in Outcomes :
          due' = due \cup {[target |-> rows[k].owner, outcome |-> outcome]}
    /\ UNCHANGED <<tres, counted, tview>>

ReceiptNext ==
    \/ \E c \in Consumers : Upsert(c) \/ Count(c) \/ Commit(c) \/ Rollback(c)
    \/ \E k \in Rows : ClaimRow(k)

ReceiptSpec == ReceiptInit /\ [][ReceiptNext]_receiptVars

-----------------------------------------------------------------------------

\* "processed_targets is derived from distinct delivery rows": it is their
\* number, at every commit.
CountIsExact == processed = Cardinality(Present(rows))

\* Once every result has been committed, of the dispatch and of the retries, the
\* campaign is complete: no order of the receipts leaves it `processing`.
AllReportedCompletes == due = {} => status = "completed"

=============================================================================
