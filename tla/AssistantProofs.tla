---------------------------- MODULE AssistantProofs ----------------------------
(***************************************************************************)
(* The parts of MCAssistant, each for every value of its constants. The    *)
(* counters of a campaign, the messages of a conversation, the knowledge   *)
(* base, the settings under which the assistant answers, the sections of a *)
(* document, and the subscription row of a tenant; at the end, the types   *)
(* of all of them.                                                         *)
(***************************************************************************)
EXTENDS MCAssistant, FiniteSetTheorems, TLAPS

-----------------------------------------------------------------------------
(* The counters *)

Owned(r) == \A k \in Rows : r[k].status # "absent" => r[k].owner \in Targets

\* The inductive form: what an open transaction has counted is what it will
\* find in place when it commits. Retries claim rows meanwhile, and never add
\* or remove one.
CountInv ==
    /\ ReceiptTypeOK
    /\ CountIsExact
    /\ Owned(rows)
    /\ \A c \in counted :
          Present(tview[c]) = Present(rows) \cup {RowOf[tres[c].target]}

\* An upsert adds the row of its target.
LEMMA UpsertAddsRow ==
    ASSUME LedgerTypeOK, NEW t \in Targets, NEW outcome \in Outcomes
    PROVE  /\ Upserted(t, outcome) \in
                 [Rows -> [status : RowStatuses, owner : Targets \cup {NoTarget}]]
           /\ Present(Upserted(t, outcome)) = Present(rows) \cup {RowOf[t]}
           /\ Owned(rows) => Owned(Upserted(t, outcome))
BY LedgerAssumption DEF LedgerTypeOK, Upserted, Present, Outcomes, RowStatuses, Owned

\* A claim changes no row's presence.
LEMMA ClaimKeepsRows ==
    ASSUME LedgerTypeOK, NEW k \in Rows, ClaimDeliveriesForRetry({k})
    PROVE  /\ LedgerTypeOK' /\ Present(rows') = Present(rows)
           /\ Owned(rows) => Owned(rows')
BY DEF Owned, LedgerTypeOK, ClaimDeliveriesForRetry, Claimable, Present, Outcomes,
       RowStatuses

LEMMA PresentIsFinite == ASSUME NEW r PROVE IsFiniteSet(Present(r))
BY LedgerAssumption, FS_Subset DEF Present

LEMMA CountInit == ReceiptInit => CountInv
<1> SUFFICES ASSUME ReceiptInit PROVE CountInv
  OBVIOUS
<1>1. rows \in [Rows -> [status : RowStatuses, owner : Targets \cup {NoTarget}]]
  BY DEF ReceiptInit, NoRow, RowStatuses
<1>2. Present(rows) = {}
  BY DEF ReceiptInit, NoRow, Present
<1>3. total \in Nat
  BY ReceiptAssumption, FS_CardinalityType DEF ReceiptInit
<1>4. due \subseteq ResultKinds
  BY DEF ReceiptInit, ResultKinds
<1>5. ReceiptTypeOK
  BY <1>1, <1>3, <1>4
  DEF ReceiptInit, ReceiptTypeOK, LedgerTypeOK, CampaignStatuses
<1>6. CountIsExact
  BY <1>2, FS_EmptySet DEF ReceiptInit, CountIsExact
<1>7. Owned(rows)
  BY DEF ReceiptInit, NoRow, Owned
<1> QED  BY <1>5, <1>6, <1>7 DEF ReceiptInit, CountInv

LEMMA CountStep ==
    ASSUME \A c, d \in Consumers : c = d, CountInv, [ReceiptNext]_receiptVars
    PROVE  CountInv'
<1> USE DEF CountInv, ReceiptTypeOK
<1>1. CASE UNCHANGED receiptVars
  BY <1>1 DEF receiptVars, ledgerVars, transactionVars, LedgerTypeOK, CountIsExact,
              Present, Owned
<1>2. ASSUME NEW c \in Consumers, Upsert(c)
      PROVE  CountInv'
  <2>1. PICK r \in due : tres' = [tres EXCEPT ![c] = r]
    BY <1>2 DEF Upsert
  <2>2. UNCHANGED <<ledgerVars, due, counted, tview>> /\ tres[c] = NoResult
    BY <1>2 DEF Upsert, Open
  <2>3. LedgerTypeOK' /\ CountIsExact'
    BY <2>2 DEF ledgerVars, LedgerTypeOK, CountIsExact, Present
  <2>4. c \notin counted /\ r # NoResult
    BY <2>1, <2>2, ReceiptAssumption
  <2> QED  BY <2>1, <2>2, <2>3, <2>4 DEF ledgerVars, Present, Owned
<1>3. ASSUME NEW c \in Consumers, Count(c)
      PROVE  CountInv'
  <2>1. tres[c].target \in Targets /\ tres[c].outcome \in Outcomes
    BY <1>3 DEF Count, Open, ResultKinds
  <2>2. LedgerTypeOK' /\ CountIsExact'
    BY <1>3 DEF Count, ledgerVars, LedgerTypeOK, CountIsExact, Present
  <2>3. /\ tview'[c] = Upserted(tres[c].target, tres[c].outcome)
        /\ \A d \in Consumers : d # c => tview'[d] = tview[d]
        /\ tview' \in [Consumers ->
              [Rows -> [status : RowStatuses, owner : Targets \cup {NoTarget}]]]
    BY <1>3, <2>1, UpsertAddsRow DEF Count
  <2>4. UNCHANGED <<rows, due, tres>> /\ counted' = counted \cup {c} /\ Open(c)
    BY <1>3 DEF Count, ledgerVars
  <2>5. \A d \in counted' : Present(tview'[d]) = Present(rows) \cup {RowOf[tres[d].target]}
    BY <2>1, <2>3, <2>4, UpsertAddsRow
  <2> QED  BY <2>2, <2>3, <2>4, <2>5 DEF Open, Present, Owned
<1>4. ASSUME NEW c \in Consumers, Commit(c)
      PROVE  CountInv'
  <2>1. tres[c].target \in Targets /\ tres[c].outcome \in Outcomes /\ c \in counted
    BY <1>4 DEF Commit, ResultKinds
  <2>2. rows' = Upserted(tres[c].target, tres[c].outcome)
    BY <1>4 DEF Commit
  <2>3. Present(rows') = Present(tview[c])
    BY <2>1, <2>2, UpsertAddsRow
  <2>4. CountIsExact'
    BY <1>4, <2>3 DEF Commit, CountIsExact, Present
  <2>5. Cardinality(Present(tview[c])) \in Nat
    BY PresentIsFinite, FS_CardinalityType
  <2>6. LedgerTypeOK'
    BY <1>4, <2>1, <2>2, <2>5, UpsertAddsRow
    DEF Commit, LedgerTypeOK, CampaignStatuses
  <2>7. counted' = {}
    BY <1>4 DEF Commit, Close
  <2>8. Owned(rows')
    BY <2>1, <2>2, UpsertAddsRow
  <2> QED  BY <1>4, <2>4, <2>6, <2>7, <2>8 DEF Commit, Close, Owned
<1>5. ASSUME NEW c \in Consumers, Rollback(c)
      PROVE  CountInv'
  <2>1. LedgerTypeOK' /\ CountIsExact' /\ UNCHANGED <<rows, due>>
    BY <1>5 DEF Rollback, ledgerVars, LedgerTypeOK, CountIsExact, Present
  <2>2. counted' = {} /\ tres'[c] = NoResult /\ UNCHANGED tview
    BY <1>5 DEF Rollback, Close
  <2> QED  BY <1>5, <2>1, <2>2 DEF Rollback, Close, Owned
<1>6. ASSUME NEW k \in Rows, ClaimRow(k)
      PROVE  CountInv'
  <2>1. LedgerTypeOK' /\ Present(rows') = Present(rows)
    BY <1>6, ClaimKeepsRows DEF ClaimRow
  <2>2. UNCHANGED <<processed, tres, counted, tview>>
    BY <1>6 DEF ClaimRow, ClaimDeliveriesForRetry
  <2>3. Owned(rows')
    BY <1>6, ClaimKeepsRows DEF ClaimRow
  <2>4. rows[k].owner \in Targets
    BY <1>6 DEF ClaimRow, Claimable, Owned
  <2>5. due' \subseteq ResultKinds
    BY <1>6, <2>4 DEF ClaimRow, ResultKinds
  <2> QED  BY <2>1, <2>2, <2>3, <2>5 DEF CountIsExact, Present, Owned
<1> QED  BY <1>1, <1>2, <1>3, <1>4, <1>5, <1>6 DEF ReceiptNext

\* One gateway process consumes the results: processed_targets is the number of
\* delivery rows, whatever is rolled back and whichever rows are retried.
THEOREM SerialCountIsExact ==
    ASSUME \A c, d \in Consumers : c = d
    PROVE  ReceiptSpec => []CountIsExact
<1>1. CountInv => CountIsExact
  BY DEF CountInv
<1> QED  BY <1>1, CountInit, CountStep, PTL DEF ReceiptSpec

\* A row stays with the target that made it, and that target is one it is the
\* row of.
Placed(r) == \A k \in Rows : r[k].status # "absent" => RowOf[r[k].owner] = k

\* Some result other than `except` is still to be committed to row k.
DueFor(k, except) == \E r \in due : r # except /\ RowOf[r.target] = k

\* What is not in the table is under way, and so is the result of every retry.
\* A transaction's snapshot may hold a queued row only while the result of that
\* row is under way besides its own.
ReportInv ==
    /\ CountInv
    /\ Placed(rows)
    /\ total = Cardinality(Targets)
    /\ status \in {"processing", "completed"}
    /\ \A c \in Consumers : Open(c) => tres[c] \in due
    /\ \A t \in Targets : RowOf[t] \in Present(rows) \/ \E r \in due : r.target = t
    /\ \A k \in Queued(rows) : DueFor(k, NoResult)
    /\ \A c \in counted : \A k \in Queued(tview[c]) : DueFor(k, tres[c])
    /\ AllReportedCompletes

LEMMA UpsertSettlesRow ==
    ASSUME LedgerTypeOK, NEW t \in Targets, NEW outcome \in Outcomes
    PROVE  /\ Queued(Upserted(t, outcome)) = Queued(rows) \ {RowOf[t]}
           /\ Placed(rows) => Placed(Upserted(t, outcome))
BY LedgerAssumption DEF LedgerTypeOK, Upserted, Queued, Outcomes, RowStatuses, Placed

LEMMA DueIsResult ==
    ASSUME ReceiptTypeOK, NEW r \in due
    PROVE  r \in ResultKinds /\ r # NoResult
BY ReceiptAssumption DEF ReceiptTypeOK

\* A table with a row of every target has as many rows as there are targets.
LEMMA AllPresentIsTotal ==
    ASSUME \A s, t \in Targets : RowOf[s] = RowOf[t] => s = t,
           NEW r, \A t \in Targets : RowOf[t] \in Present(r)
    PROVE  Cardinality(Present(r)) >= Cardinality(Targets)
<1>1. RowOf \in Injection(Targets, Present(r))
  BY LedgerAssumption DEF Injection, IsInjective
<1>2. Cardinality(Targets) <= Cardinality(Present(r))
  BY <1>1, PresentIsFinite, FS_Injection
<1>3. Cardinality(Targets) \in Nat /\ Cardinality(Present(r)) \in Nat
  BY PresentIsFinite, ReceiptAssumption, FS_CardinalityType
<1> QED  BY <1>2, <1>3

LEMMA ReportInit ==
    ASSUME Targets # {}
    PROVE  ReceiptInit => ReportInv
<1> SUFFICES ASSUME ReceiptInit PROVE ReportInv
  OBVIOUS
<1>1. CountInv
  BY CountInit
<1>2. Placed(rows) /\ Queued(rows) = {} /\ counted = {}
  BY DEF ReceiptInit, Placed, Queued, NoRow
<1>3. \A t \in Targets : \E r \in due : r.target = t
  <2>1. PICK outcome \in [Targets -> Outcomes] :
           due = {[target |-> t, outcome |-> outcome[t]] : t \in Targets}
    BY DEF ReceiptInit
  <2>2. \A t \in Targets : [target |-> t, outcome |-> outcome[t]] \in due
    BY <2>1
  <2> QED  BY <2>2
<1>4. \A c \in Consumers : ~ Open(c)
  BY DEF ReceiptInit, Open
<1> QED  BY <1>1, <1>2, <1>3, <1>4 DEF ReceiptInit, ReportInv, AllReportedCompletes

LEMMA ReportStep ==
    ASSUME \A c, d \in Consumers : c = d,
           \A s, t \in Targets : RowOf[s] = RowOf[t] => s = t,
           Targets # {},
           ReportInv, [ReceiptNext]_receiptVars
    PROVE  ReportInv'
<1>1. CountInv'
  BY CountStep DEF ReportInv
<1>2. ReceiptTypeOK /\ LedgerTypeOK
  BY DEF ReportInv, CountInv, ReceiptTypeOK
<1>3. CASE UNCHANGED receiptVars
  BY <1>1, <1>3
  DEF ReportInv, receiptVars, ledgerVars, transactionVars, Placed, Open, Present,
      Queued, DueFor, AllReportedCompletes
<1>4. ASSUME NEW c \in Consumers, Upsert(c)
      PROVE  ReportInv'
  <2>1. UNCHANGED <<ledgerVars, due, counted, tview>>
    BY <1>4 DEF Upsert
  <2>2. \A d \in Consumers : tres'[d] # NoResult => tres'[d] \in due
    BY <1>2, <1>4 DEF Upsert, ReportInv, ReceiptTypeOK, Open
  <2>3. c \notin counted /\ counted \subseteq {c}
    BY <1>2, <1>4 DEF Upsert, ReceiptTypeOK, Open
  <2> QED
    BY <1>1, <2>1, <2>2, <2>3
    DEF ReportInv, ledgerVars, Placed, Open, Present, Queued, DueFor, AllReportedCompletes
<1>5. ASSUME NEW c \in Consumers, Count(c)
      PROVE  ReportInv'
  <2>1. UNCHANGED <<ledgerVars, due, tres>> /\ counted' = counted \cup {c}
    BY <1>5 DEF Count
  <2>2. /\ tview'[c] = Upserted(tres[c].target, tres[c].outcome)
        /\ counted' = {c}
        /\ tres[c] \in due
        /\ tres[c].target \in Targets /\ tres[c].outcome \in Outcomes
    BY <1>2, <1>5, DueIsResult DEF Count, ReceiptTypeOK, ReportInv, ResultKinds
  <2>3. Queued(tview'[c]) = Queued(rows) \ {RowOf[tres[c].target]}
    BY <1>2, <2>2, UpsertSettlesRow
  <2>4. \A k \in Queued(tview'[c]) : DueFor(k, tres[c])
    BY <2>3 DEF ReportInv, DueFor
  <2> QED
    BY <1>1, <2>1, <2>2, <2>4
    DEF ReportInv, ledgerVars, Placed, Open, Present, Queued, DueFor, AllReportedCompletes
<1>6. ASSUME NEW c \in Consumers, Commit(c)
      PROVE  ReportInv'
  <2> DEFINE t == tres[c].target
             view == tview[c]
  <2>1. c \in counted /\ tres[c] \in due /\ t \in Targets /\ tres[c].outcome \in Outcomes
    BY <1>2, <1>6, DueIsResult DEF Commit, ReceiptTypeOK, ReportInv, ResultKinds, Open
  <2>2. /\ rows' = Upserted(t, tres[c].outcome)
        /\ due' = due \ {tres[c]}
        /\ total' = total
        /\ status' = IF Finished(view) THEN "completed" ELSE status
        /\ counted' = {} /\ \A d \in Consumers : tres'[d] = NoResult
    BY <1>2, <1>6 DEF Commit, Close, ReceiptTypeOK
  <2>3. /\ Present(rows') = Present(rows) \cup {RowOf[t]}
        /\ Queued(rows') = Queued(rows) \ {RowOf[t]}
        /\ Placed(rows')
    BY <1>2, <2>1, <2>2, UpsertAddsRow, UpsertSettlesRow DEF ReportInv
  <2>4. \A s \in Targets : RowOf[s] \in Present(rows') \/ \E r \in due' : r.target = s
    BY <2>2, <2>3 DEF ReportInv
  <2>5. \A k \in Queued(rows') : \E r \in due' : r # NoResult /\ RowOf[r.target] = k
    BY <2>2, <2>3 DEF ReportInv, DueFor
  <2>6. due' = {} => status' = "completed"
    <3>1. SUFFICES ASSUME due' = {}, status = "processing" PROVE Finished(view)
      BY <2>2 DEF ReportInv
    <3>2. Present(view) = Present(rows')
      BY <2>1, <2>3 DEF ReportInv, CountInv
    <3>3. \A s \in Targets : RowOf[s] \in Present(view)
      BY <2>4, <3>1, <3>2
    <3>4. Cardinality(Present(view)) >= total
      BY <3>3, AllPresentIsTotal DEF ReportInv
    <3>5. Queued(view) = {}
      BY <2>1, <2>2, <3>1 DEF ReportInv, DueFor
    <3>6. total > 0
      BY ReceiptAssumption, FS_EmptySet, FS_CardinalityType DEF ReportInv
    <3> QED  BY <3>1, <3>4, <3>5, <3>6 DEF Finished
  <2>7. status' \in {"processing", "completed"}
    BY <2>2 DEF ReportInv
  <2> QED
    BY <1>1, <2>2, <2>3, <2>4, <2>5, <2>6, <2>7
    DEF ReportInv, Open, DueFor, AllReportedCompletes
<1>7. ASSUME NEW c \in Consumers, Rollback(c)
      PROVE  ReportInv'
  <2>1. UNCHANGED <<ledgerVars, due>> /\ counted' = {}
        /\ \A d \in Consumers : tres'[d] = NoResult
    BY <1>2, <1>7 DEF Rollback, Close, ReceiptTypeOK
  <2> QED
    BY <1>1, <2>1
    DEF ReportInv, ledgerVars, Placed, Open, Present, Queued, DueFor, AllReportedCompletes
<1>8. ASSUME NEW k \in Rows, ClaimRow(k)
      PROVE  ReportInv'
  <2>1. PICK outcome \in Outcomes :
           due' = due \cup {[target |-> rows[k].owner, outcome |-> outcome]}
    BY <1>8 DEF ClaimRow
  <2>2. UNCHANGED <<status, total, tres, counted, tview>>
    BY <1>8 DEF ClaimRow, ClaimDeliveriesForRetry
  <2>3. Present(rows') = Present(rows)
    BY <1>2, <1>8, ClaimKeepsRows DEF ClaimRow
  <2>4. rows[k].status = "failed" /\ RowOf[rows[k].owner] = k
    BY <1>8 DEF ClaimRow, Claimable, ReportInv, Placed
  <2>5. Queued(rows') \subseteq Queued(rows) \cup {k} /\ Placed(rows')
    BY <1>2, <1>8 DEF ClaimRow, ClaimDeliveriesForRetry, Claimable, Queued, ReportInv, Placed,
                      LedgerTypeOK
  <2>6. [target |-> rows[k].owner, outcome |-> outcome] # NoResult
    BY <1>1, <2>1, <2>2, ReceiptAssumption DEF CountInv, ReceiptTypeOK
  <2>7. \A j \in Queued(rows') : \E r \in due' : r # NoResult /\ RowOf[r.target] = j
    <3>1. [target |-> rows[k].owner, outcome |-> outcome] \in due'
      BY <2>1
    <3>2. \A j \in Queued(rows) : \E r \in due' : r # NoResult /\ RowOf[r.target] = j
      BY <2>1 DEF ReportInv, DueFor
    <3> QED  BY <2>4, <2>5, <2>6, <3>1, <3>2
  <2> QED
    BY <1>1, <2>1, <2>2, <2>3, <2>5, <2>7
    DEF ReportInv, Open, Queued, DueFor, AllReportedCompletes
<1> QED  BY <1>3, <1>4, <1>5, <1>6, <1>7, <1>8 DEF ReceiptNext

\* One gateway process, no two targets sharing a row: when no result is under
\* way any more, the campaign is complete. No order of the receipts, no rollback
\* and no retry leaves it `processing`.
THEOREM SerialReportsComplete ==
    ASSUME \A c, d \in Consumers : c = d,
           \A s, t \in Targets : RowOf[s] = RowOf[t] => s = t,
           Targets # {}
    PROVE  ReceiptSpec => []AllReportedCompletes
<1>1. ReportInv => AllReportedCompletes
  BY DEF ReportInv
<1> QED  BY <1>1, ReportInit, ReportStep, PTL DEF ReceiptSpec

-----------------------------------------------------------------------------
(* Messages: the unread counter *)

\* The counter covers what arrived since the last reading because what was read
\* had arrived, and what is counted or about to be has arrived too.
UnreadInv ==
    /\ received \in Nat /\ unread \in Nat /\ readUpTo \in Nat /\ pending \in {0, 1}
    /\ missed \in Nat
    /\ readUpTo <= received
    /\ received <= readUpTo + unread + pending + missed

LEMMA UnreadStart == MessagesInit => UnreadInv
  BY DEF MessagesInit, UnreadInv

LEMMA UnreadStep ==
  ASSUME UnreadInv, [MessagesNext]_messageVars
  PROVE  UnreadInv'
  <1>1. CASE UNCHANGED inboundVars
    BY <1>1 DEF UnreadInv, inboundVars
  <1>2. CASE Arrive
    BY <1>2 DEF UnreadInv, Arrive
  <1>3. CASE CountUnread
    BY <1>3 DEF UnreadInv, CountUnread, UnreadAfter
  <1>4. CASE MarkAsRead
    BY <1>4 DEF UnreadInv, MarkAsRead
  <1>5. QED
    BY <1>1, <1>2, <1>3, <1>4
    DEF MessagesNext, messageVars, SendReply, RecordReply, EditOnPlatform, RevokeOnPlatform,
        EditMessage, DeleteMessage, SendFromPhone, Echo, TenSecondsPass, Receipt

\* A message that arrives while the conversation is opened is not lost from the
\* badge: the increment and the reset are two statements in any order, and only an
\* increment that fails is missed.
THEOREM BadgeCoversArrivals == MessagesSpec => []UnreadCovers
  <1>1. UnreadInv => UnreadCovers
    BY DEF UnreadInv, UnreadCovers
  <1>2. QED
    BY UnreadStart, UnreadStep, <1>1, PTL DEF MessagesSpec

-----------------------------------------------------------------------------
(* The rows *)

Outgoing == [by : {"dashboard", "phone"}, body : Body, version : Nat, revoked : BOOLEAN,
             recent : BOOLEAN]
Statuses == {"sent", "delivered", "read"}
Stored == [key : Nat, body : Body, version : Nat, deleted : BOOLEAN, status : Statuses]
Calling == {Free} \cup [pc : {"record", "revoke"}, sent : Nat]
                   \cup [pc : {"edit"}, sent : Nat, version : Nat]

InboxShape ==
    /\ out \in Seq(Outgoing) /\ inbox \in Seq(Stored) /\ call \in [Agent -> Calling]
    /\ edits \in Nat /\ faults \in Nat
    /\ \A a \in Agent : call[a] # Free => call[a].sent \in DOMAIN out
    /\ \A n \in DOMAIN inbox : inbox[n].key \in DOMAIN out

\* One element of a sequence is replaced.
LEMMA OneIsSet ==
  ASSUME NEW S, NEW entries \in Seq(S), NEW n \in DOMAIN entries, NEW r \in S,
         NEW next, next = [entries EXCEPT ![n] = r]
  PROVE  /\ next \in Seq(S) /\ DOMAIN next = DOMAIN entries /\ next[n] = r
         /\ \A m \in DOMAIN entries : m # n => next[m] = entries[m]
  OBVIOUS

\* The same, for a step that sets one field.
LEMMA StatusSet ==
  ASSUME InboxShape, NEW n \in DOMAIN inbox, NEW s \in Statuses,
         inbox' = [inbox EXCEPT ![n].status = s]
  PROVE  /\ inbox' \in Seq(Stored) /\ DOMAIN inbox' = DOMAIN inbox
         /\ inbox'[n].status = s
         /\ \A m \in DOMAIN inbox : m # n => inbox'[m].status = inbox[m].status
         /\ \A m \in DOMAIN inbox : /\ inbox'[m].key = inbox[m].key
                                    /\ inbox'[m].version = inbox[m].version
                                    /\ inbox'[m].deleted = inbox[m].deleted
  <1> DEFINE r == [inbox[n] EXCEPT !.status = s]
  <1>0. inbox \in Seq(Stored) /\ inbox[n] \in Stored
    BY DEF InboxShape
  <1>4. r \in Stored
    BY <1>0 DEF Stored
  <1>1. /\ r.status = s /\ r.key = inbox[n].key /\ r.version = inbox[n].version
        /\ r.deleted = inbox[n].deleted
    BY <1>0 DEF Stored
  <1>2. inbox' = [inbox EXCEPT ![n] = r]
    OBVIOUS
  <1> HIDE DEF r
  <1>3. /\ inbox' \in Seq(Stored) /\ DOMAIN inbox' = DOMAIN inbox /\ inbox'[n] = r
        /\ \A m \in DOMAIN inbox : m # n => inbox'[m] = inbox[m]
    BY <1>0, <1>2, <1>4, OneIsSet
  <1> QED
    BY <1>1, <1>3

LEMMA VersionSet ==
  ASSUME InboxShape, NEW n \in DOMAIN inbox, NEW v \in Nat,
         inbox' = [inbox EXCEPT ![n].version = v]
  PROVE  /\ inbox' \in Seq(Stored) /\ DOMAIN inbox' = DOMAIN inbox
         /\ inbox'[n].version = v
         /\ \A m \in DOMAIN inbox : m # n => inbox'[m].version = inbox[m].version
         /\ \A m \in DOMAIN inbox : /\ inbox'[m].key = inbox[m].key
                                    /\ inbox'[m].status = inbox[m].status
                                    /\ inbox'[m].deleted = inbox[m].deleted
  <1> DEFINE r == [inbox[n] EXCEPT !.version = v]
  <1>0. inbox \in Seq(Stored) /\ inbox[n] \in Stored
    BY DEF InboxShape
  <1>4. r \in Stored
    BY <1>0 DEF Stored
  <1>1. /\ r.version = v /\ r.key = inbox[n].key /\ r.status = inbox[n].status
        /\ r.deleted = inbox[n].deleted
    BY <1>0 DEF Stored
  <1>2. inbox' = [inbox EXCEPT ![n] = r]
    OBVIOUS
  <1> HIDE DEF r
  <1>3. /\ inbox' \in Seq(Stored) /\ DOMAIN inbox' = DOMAIN inbox /\ inbox'[n] = r
        /\ \A m \in DOMAIN inbox : m # n => inbox'[m] = inbox[m]
    BY <1>0, <1>2, <1>4, OneIsSet
  <1> QED
    BY <1>1, <1>3

LEMMA DeletedSet ==
  ASSUME InboxShape, NEW n \in DOMAIN inbox, NEW b \in BOOLEAN,
         inbox' = [inbox EXCEPT ![n].deleted = b]
  PROVE  /\ inbox' \in Seq(Stored) /\ DOMAIN inbox' = DOMAIN inbox
         /\ inbox'[n].deleted = b
         /\ \A m \in DOMAIN inbox : m # n => inbox'[m].deleted = inbox[m].deleted
         /\ \A m \in DOMAIN inbox : /\ inbox'[m].key = inbox[m].key
                                    /\ inbox'[m].status = inbox[m].status
                                    /\ inbox'[m].version = inbox[m].version
  <1> DEFINE r == [inbox[n] EXCEPT !.deleted = b]
  <1>0. inbox \in Seq(Stored) /\ inbox[n] \in Stored
    BY DEF InboxShape
  <1>4. r \in Stored
    BY <1>0 DEF Stored
  <1>1. /\ r.deleted = b /\ r.key = inbox[n].key
        /\ r.status = inbox[n].status /\ r.version = inbox[n].version
    BY <1>0 DEF Stored
  <1>2. inbox' = [inbox EXCEPT ![n] = r]
    OBVIOUS
  <1> HIDE DEF r
  <1>3. /\ inbox' \in Seq(Stored) /\ DOMAIN inbox' = DOMAIN inbox /\ inbox'[n] = r
        /\ \A m \in DOMAIN inbox : m # n => inbox'[m] = inbox[m]
    BY <1>0, <1>2, <1>4, OneIsSet
  <1> QED
    BY <1>1, <1>3

\* The same, for what was sent.
LEMMA OutVersionSet ==
  ASSUME InboxShape, NEW k \in DOMAIN out, NEW v \in Nat, out' = [out EXCEPT ![k].version = v]
  PROVE  /\ out' \in Seq(Outgoing) /\ DOMAIN out' = DOMAIN out
         /\ out'[k].version = v
         /\ \A m \in DOMAIN out : m # k => out'[m].version = out[m].version
         /\ \A m \in DOMAIN out : out'[m].by = out[m].by /\ out'[m].revoked = out[m].revoked
  <1> DEFINE r == [out[k] EXCEPT !.version = v]
  <1>0. out \in Seq(Outgoing) /\ out[k] \in Outgoing
    BY DEF InboxShape
  <1>4. r \in Outgoing
    BY <1>0 DEF Outgoing
  <1>1. r.version = v /\ r.by = out[k].by /\ r.revoked = out[k].revoked
    BY <1>0 DEF Outgoing
  <1>2. out' = [out EXCEPT ![k] = r]
    OBVIOUS
  <1> HIDE DEF r
  <1>3. /\ out' \in Seq(Outgoing) /\ DOMAIN out' = DOMAIN out /\ out'[k] = r
        /\ \A m \in DOMAIN out : m # k => out'[m] = out[m]
    BY <1>0, <1>2, <1>4, OneIsSet
  <1> QED
    BY <1>1, <1>3

LEMMA OutRevokedSet ==
  ASSUME InboxShape, NEW k \in DOMAIN out, NEW b \in BOOLEAN,
         out' = [out EXCEPT ![k].revoked = b]
  PROVE  /\ out' \in Seq(Outgoing) /\ DOMAIN out' = DOMAIN out
         /\ out'[k].revoked = b
         /\ \A m \in DOMAIN out : m # k => out'[m].revoked = out[m].revoked
         /\ \A m \in DOMAIN out : out'[m].by = out[m].by /\ out'[m].version = out[m].version
  <1> DEFINE r == [out[k] EXCEPT !.revoked = b]
  <1>0. out \in Seq(Outgoing) /\ out[k] \in Outgoing
    BY DEF InboxShape
  <1>4. r \in Outgoing
    BY <1>0 DEF Outgoing
  <1>1. r.revoked = b /\ r.by = out[k].by /\ r.version = out[k].version
    BY <1>0 DEF Outgoing
  <1>2. out' = [out EXCEPT ![k] = r]
    OBVIOUS
  <1> HIDE DEF r
  <1>3. /\ out' \in Seq(Outgoing) /\ DOMAIN out' = DOMAIN out /\ out'[k] = r
        /\ \A m \in DOMAIN out : m # k => out'[m] = out[m]
    BY <1>0, <1>2, <1>4, OneIsSet
  <1> QED
    BY <1>1, <1>3

LEMMA OutAges ==
  ASSUME InboxShape, NEW k \in DOMAIN out, NEW b \in BOOLEAN,
         out' = [out EXCEPT ![k].recent = b]
  PROVE  /\ out' \in Seq(Outgoing) /\ DOMAIN out' = DOMAIN out
         /\ \A m \in DOMAIN out : /\ out'[m].by = out[m].by /\ out'[m].version = out[m].version
                                  /\ out'[m].revoked = out[m].revoked
  <1> DEFINE r == [out[k] EXCEPT !.recent = b]
  <1>0. out \in Seq(Outgoing) /\ out[k] \in Outgoing
    BY DEF InboxShape
  <1>4. r \in Outgoing
    BY <1>0 DEF Outgoing
  <1>1. /\ r.by = out[k].by /\ r.version = out[k].version
        /\ r.revoked = out[k].revoked
    BY <1>0 DEF Outgoing
  <1>2. out' = [out EXCEPT ![k] = r]
    OBVIOUS
  <1> HIDE DEF r
  <1>3. /\ out' \in Seq(Outgoing) /\ DOMAIN out' = DOMAIN out /\ out'[k] = r
        /\ \A m \in DOMAIN out : m # k => out'[m] = out[m]
    BY <1>0, <1>2, <1>4, OneIsSet
  <1> QED
    BY <1>1, <1>3

\* A set of which any two elements are the same.
LEMMA AtMostOne ==
    ASSUME NEW S, \A v, w \in S : v = w
    PROVE  Cardinality(S) <= 1
<1>1. CASE S = {}
  BY <1>1, FS_EmptySet
<1>2. CASE S # {}
  <2>1. PICK w \in S : TRUE
    BY <1>2
  <2>2. S = {w}
    BY <2>1
  <2>3. Cardinality({w}) = 1
    BY FS_Singleton
  <2> QED  BY <2>2, <2>3
<1> QED  BY <1>1, <1>2

AtMostOneRow ==
    \A m, n \in DOMAIN inbox : inbox[m].key = inbox[n].key => m = n

Recording(k) == \E a \in Agent : call[a].pc = "record" /\ call[a].sent = k

InboxInv ==
    /\ InboxShape
    /\ AtMostOneRow
    /\ \A a \in Agent : call[a].pc \in {"edit", "revoke"} => call[a].sent \in Keys
    /\ faults = 0 =>
          \A k \in DOMAIN out : out[k].by = "dashboard" => k \in Keys \/ Recording(k)

LEMMA InboxStart == MessagesInit => InboxInv
  BY DEF MessagesInit, InboxInv, InboxShape, AtMostOneRow, Calling, Free

\* A row is added for a message that has none.
LEMMA RowIsAdded ==
  ASSUME InboxShape, NEW k \in DOMAIN out, NEW body \in Body,
         CreateMessage(Message(k, body, "sent"))
  PROVE  /\ inbox' \in Seq(Stored) /\ DOMAIN inbox \subseteq DOMAIN inbox'
         /\ \A n \in DOMAIN inbox : inbox'[n] = inbox[n]
         /\ \A n \in DOMAIN inbox' \ DOMAIN inbox :
               inbox'[n].key = k /\ k \notin Keys /\ inbox'[n].version = 0 /\ inbox'[n].deleted = FALSE
         /\ \A m, n \in DOMAIN inbox' \ DOMAIN inbox : m = n
         /\ Keys' = Keys \cup {k}
  <1> DEFINE record == Message(k, body, "sent")
  <1>0. k \in Nat /\ inbox \in Seq(Stored)
    BY DEF InboxShape
  <1>1. /\ record \in Stored /\ record.key = k /\ record.version = 0 /\ record.deleted = FALSE
    BY <1>0 DEF Message, Stored, Statuses
  <1>2. inbox' = IF k \in Keys THEN inbox ELSE Append(inbox, record)
    BY <1>1 DEF CreateMessage, AlreadyRecorded
  <1> HIDE DEF record
  <1>3. CASE k \in Keys
    BY <1>0, <1>2, <1>3 DEF Keys
  <1>4. CASE k \notin Keys
    <2>1. /\ inbox' \in Seq(Stored) /\ DOMAIN inbox' = DOMAIN inbox \cup {Len(inbox) + 1}
          /\ \A n \in DOMAIN inbox : inbox'[n] = inbox[n]
          /\ inbox'[Len(inbox) + 1] = record
      BY <1>0, <1>1, <1>2, <1>4
    <2>2. Keys' = Keys \cup {k}
      BY <1>1, <2>1 DEF Keys
    <2> QED
      BY <1>1, <1>4, <2>1, <2>2
  <1> QED
    BY <1>3, <1>4

\* A message goes out.
LEMMA MessageIsSent ==
  ASSUME InboxShape, NEW by \in {"dashboard", "phone"}, NEW body \in Body, out' = Sent(by, body)
  PROVE  /\ out' \in Seq(Outgoing) /\ DOMAIN out' = DOMAIN out \cup {Len(out) + 1}
         /\ Len(out) + 1 \notin DOMAIN out
         /\ \A k \in DOMAIN out : out'[k] = out[k]
         /\ LET new == out'[Len(out) + 1] IN
            new.by = by /\ new.version = 0 /\ new.revoked = FALSE
  <1> DEFINE new == [by |-> by, body |-> body, version |-> 0, revoked |-> FALSE, recent |-> TRUE]
  <1>1. new \in Outgoing
    BY DEF Outgoing
  <1>2. new.by = by /\ new.version = 0 /\ new.revoked = FALSE
    OBVIOUS
  <1>3. out' = Append(out, new) /\ out \in Seq(Outgoing)
    BY DEF Sent, InboxShape
  <1> HIDE DEF new
  <1> QED
    BY <1>1, <1>2, <1>3

LEMMA TextIsBody ==
  ASSUME InboxShape, NEW k \in DOMAIN out
  PROVE  out[k].body \in Body
  <1>1. out[k] \in Outgoing
    BY DEF InboxShape
  <1> QED
    BY <1>1 DEF Outgoing

LEMMA KeysStay ==
  ASSUME DOMAIN inbox' = DOMAIN inbox, \A n \in DOMAIN inbox : inbox'[n].key = inbox[n].key
  PROVE  Keys' = Keys
  BY DEF Keys

LEMMA InboxStep ==
  ASSUME InboxInv, [MessagesNext]_messageVars
  PROVE  InboxInv'
  <1> USE DEF InboxInv
  <1>1. CASE UNCHANGED <<out, inbox, call, edits, faults>>
    BY <1>1 DEF InboxShape, AtMostOneRow, Recording, Keys
  <1>11. CASE CountUnread
    <2>1. UNCHANGED <<out, inbox, call, edits>> /\ faults' \in {faults, faults + 1}
      BY <1>11 DEF CountUnread, Fails
    <2>2. faults' \in Nat /\ (faults' = 0 => faults = 0)
      BY <2>1 DEF InboxShape
    <2> QED
      BY <2>1, <2>2 DEF InboxShape, AtMostOneRow, Recording, Keys
  <1>2. ASSUME NEW g \in Agent, NEW body \in Body, SendReply(g, body)
        PROVE  InboxInv'
    <2> DEFINE next == [pc |-> "record", sent |-> Len(out) + 1]
    <2>1. next \in Calling /\ next.pc = "record" /\ next.sent = Len(out) + 1 /\ next # Free
      BY DEF InboxShape, Calling, Free
    <2>2. call' = [call EXCEPT ![g] = next]
      BY <1>2 DEF SendReply
    <2> HIDE DEF next
    <2>3. /\ call' \in [Agent -> Calling] /\ call'[g] = next
          /\ \A a \in Agent \ {g} : call'[a] = call[a]
      BY <2>1, <2>2 DEF InboxShape
    <2>4. /\ out' \in Seq(Outgoing) /\ DOMAIN out' = DOMAIN out \cup {Len(out) + 1}
          /\ \A k \in DOMAIN out : out'[k] = out[k]
      BY <1>2, MessageIsSent DEF SendReply
    <2>5. UNCHANGED <<inbox, edits, faults>> /\ Keys' = Keys
      BY <1>2 DEF SendReply, Keys
    <2>6. InboxShape'
      BY <2>1, <2>3, <2>4, <2>5 DEF InboxShape
    <2>7. \A k : Recording(k) => Recording(k)'
      BY <1>2, <2>3 DEF SendReply, Recording, Free
    <2>8. \A k \in DOMAIN out' : k \in DOMAIN out \/ call'[g].sent = k
      BY <2>1, <2>3, <2>4
    <2>9. faults' = 0 =>
            \A k \in DOMAIN out' : out'[k].by = "dashboard" => k \in Keys' \/ Recording(k)'
      BY <2>1, <2>3, <2>4, <2>5, <2>7, <2>8 DEF Recording
    <2> QED
      BY <2>1, <2>3, <2>5, <2>6, <2>9 DEF AtMostOneRow
  <1>3. ASSUME NEW g \in Agent, RecordReply(g)
        PROVE  InboxInv'
    <2>1. /\ call' \in [Agent -> Calling] /\ call'[g] = Free
          /\ \A a \in Agent \ {g} : call'[a] = call[a]
      BY <1>3 DEF RecordReply, InboxShape, Calling
    <2>2. call[g] # Free /\ call[g].sent \in DOMAIN out /\ UNCHANGED <<out, edits>>
      BY <1>3 DEF RecordReply, InboxShape, Free
    <2>3. \A k : k # call[g].sent /\ Recording(k) => Recording(k)'
      BY <2>1 DEF Recording
    <2>4. CASE inbox' = inbox /\ faults' = faults + 1
      <3>1. faults' \in Nat /\ faults' # 0
        BY <2>4 DEF InboxShape
      <3>2. InboxShape' /\ AtMostOneRow'
        BY <2>1, <2>2, <2>4, <3>1 DEF InboxShape, AtMostOneRow, Free
      <3>3. Keys' = Keys
        BY <2>4 DEF Keys
      <3>4. \A a \in Agent : call'[a].pc \in {"edit", "revoke"} => call'[a].sent \in Keys'
        BY <2>1, <3>3 DEF Free
      <3> QED  BY <3>1, <3>2, <3>4
    <2>5. CASE CreateMessage(Message(call[g].sent, out[call[g].sent].body, "sent")) /\ faults' = faults
      <3> DEFINE k == call[g].sent  body == out[k].body
      <3>1. k \in DOMAIN out /\ body \in Body
        BY <2>2, TextIsBody
      <3>2. /\ inbox' \in Seq(Stored) /\ DOMAIN inbox \subseteq DOMAIN inbox'
            /\ \A n \in DOMAIN inbox : inbox'[n] = inbox[n]
            /\ \A n \in DOMAIN inbox' \ DOMAIN inbox : inbox'[n].key = k /\ k \notin Keys
            /\ \A m, n \in DOMAIN inbox' \ DOMAIN inbox : m = n
            /\ Keys' = Keys \cup {k}
        BY <2>5, <3>1, RowIsAdded
      <3>3. InboxShape'
        BY <2>1, <2>2, <2>5, <3>1, <3>2 DEF InboxShape, Free
      <3>4. AtMostOneRow'
        BY <3>2 DEF AtMostOneRow, Keys
      <3> QED
        BY <2>1, <2>2, <2>3, <2>5, <3>2, <3>3, <3>4 DEF Free
    <2> QED
      BY <1>3, <2>4, <2>5 DEF RecordReply, Fails
  <1>4. ASSUME NEW k \in DOMAIN out, Echo(k)
        PROVE  InboxInv'
    <2>1. out[k].body \in Body
      BY TextIsBody
    <2>2. /\ inbox' \in Seq(Stored) /\ DOMAIN inbox \subseteq DOMAIN inbox'
          /\ \A n \in DOMAIN inbox : inbox'[n] = inbox[n]
          /\ \A n \in DOMAIN inbox' \ DOMAIN inbox : inbox'[n].key = k /\ k \notin Keys
          /\ \A m, n \in DOMAIN inbox' \ DOMAIN inbox : m = n
          /\ Keys' = Keys \cup {k}
      BY <1>4, <2>1, RowIsAdded DEF Echo
    <2>3. UNCHANGED <<out, call, edits, faults>>
      BY <1>4 DEF Echo
    <2>4. InboxShape' /\ AtMostOneRow'
      BY <2>2, <2>3 DEF InboxShape, AtMostOneRow, Keys
    <2> QED
      BY <2>2, <2>3, <2>4 DEF Recording
  <1>5. ASSUME NEW body \in Body, SendFromPhone(body)
        PROVE  InboxInv'
    <2>1. /\ out' \in Seq(Outgoing) /\ DOMAIN out' = DOMAIN out \cup {Len(out) + 1}
          /\ \A k \in DOMAIN out : out'[k] = out[k]
          /\ out'[Len(out) + 1].by = "phone"
      BY <1>5, MessageIsSent DEF SendFromPhone
    <2>2. UNCHANGED <<inbox, call, edits, faults>>
      BY <1>5 DEF SendFromPhone
    <2>3. InboxShape' /\ AtMostOneRow' /\ Keys' = Keys
      BY <2>1, <2>2 DEF InboxShape, AtMostOneRow, Keys
    <2> QED
      BY <2>1, <2>2, <2>3 DEF Recording
  <1>6. ASSUME NEW k \in DOMAIN out, TenSecondsPass(k)
        PROVE  InboxInv'
    <2>1. out' \in Seq(Outgoing) /\ DOMAIN out' = DOMAIN out /\ \A m \in DOMAIN out : out'[m].by = out[m].by
      BY <1>6, OutAges DEF TenSecondsPass
    <2>2. UNCHANGED <<inbox, call, edits, faults>>
      BY <1>6 DEF TenSecondsPass
    <2>3. InboxShape' /\ AtMostOneRow' /\ Keys' = Keys
      BY <2>1, <2>2 DEF InboxShape, AtMostOneRow, Keys
    <2> QED
      BY <2>1, <2>2, <2>3 DEF Recording
  <1>7. ASSUME NEW n \in DOMAIN inbox, NEW st \in {"delivered", "read"}, Receipt(n, st)
        PROVE  InboxInv'
    <2>1. MergedStatus(inbox[n].status, st) \in Statuses
      BY DEF MergedStatus, Statuses, InboxShape, Stored
    <2>2. /\ inbox' \in Seq(Stored) /\ DOMAIN inbox' = DOMAIN inbox
          /\ \A m \in DOMAIN inbox : inbox'[m].key = inbox[m].key
      BY <1>7, <2>1, StatusSet DEF Receipt
    <2>3. UNCHANGED <<out, call, edits, faults>> /\ Keys' = Keys
      BY <1>7, <2>2, KeysStay DEF Receipt
    <2> QED
      BY <2>2, <2>3 DEF InboxShape, AtMostOneRow, Recording
  <1>8. ASSUME NEW g \in Agent, NEW n \in DOMAIN inbox, EditMessage(g, n)
        PROVE  InboxInv'
    <2> DEFINE next == [pc |-> "edit", sent |-> inbox[n].key, version |-> edits + 1]
    <2>1. next \in Calling /\ next.pc = "edit" /\ next.sent = inbox[n].key /\ next # Free
      BY DEF InboxShape, Calling, Free, Stored
    <2>2. call' = [call EXCEPT ![g] = next] /\ call[g] = Free
      BY <1>8 DEF EditMessage
    <2> HIDE DEF next
    <2>3. /\ call' \in [Agent -> Calling] /\ call'[g] = next
          /\ \A a \in Agent \ {g} : call'[a] = call[a]
      BY <2>1, <2>2 DEF InboxShape
    <2>4. edits + 1 \in Nat /\ edits' = edits + 1
      BY <1>8 DEF InboxShape, EditMessage
    <2>5. /\ inbox' \in Seq(Stored) /\ DOMAIN inbox' = DOMAIN inbox
          /\ \A m \in DOMAIN inbox : inbox'[m].key = inbox[m].key
      BY <1>8, <2>4, VersionSet DEF EditMessage
    <2>6. UNCHANGED <<out, faults>> /\ Keys' = Keys
      BY <1>8, <2>5, KeysStay DEF EditMessage
    <2>7. InboxShape' /\ AtMostOneRow'
      BY <2>1, <2>3, <2>4, <2>5, <2>6 DEF InboxShape, AtMostOneRow
    <2>8. \A k : Recording(k) => Recording(k)'
      BY <2>2, <2>3 DEF Recording, Free
    <2>9. inbox[n].key \in Keys
      BY DEF Keys
    <2> QED
      BY <2>1, <2>3, <2>6, <2>7, <2>8, <2>9
  <1>9. ASSUME NEW g \in Agent, NEW n \in DOMAIN inbox, DeleteMessage(g, n)
        PROVE  InboxInv'
    <2> DEFINE next == [pc |-> "revoke", sent |-> inbox[n].key]
    <2>1. next \in Calling /\ next.pc = "revoke" /\ next.sent = inbox[n].key /\ next # Free
      BY DEF InboxShape, Calling, Free, Stored
    <2>2. call' = [call EXCEPT ![g] = next] /\ call[g] = Free
      BY <1>9 DEF DeleteMessage
    <2> HIDE DEF next
    <2>3. /\ call' \in [Agent -> Calling] /\ call'[g] = next
          /\ \A a \in Agent \ {g} : call'[a] = call[a]
      BY <2>1, <2>2 DEF InboxShape
    <2>4. edits' \in Nat
      BY <1>9 DEF DeleteMessage, InboxShape
    <2>5. /\ inbox' \in Seq(Stored) /\ DOMAIN inbox' = DOMAIN inbox
          /\ \A m \in DOMAIN inbox : inbox'[m].key = inbox[m].key
      BY <1>9, DeletedSet DEF DeleteMessage
    <2>6. UNCHANGED <<out, faults>> /\ Keys' = Keys
      BY <1>9, <2>5, KeysStay DEF DeleteMessage
    <2>7. InboxShape' /\ AtMostOneRow'
      BY <2>1, <2>3, <2>4, <2>5, <2>6 DEF InboxShape, AtMostOneRow
    <2>8. \A k : Recording(k) => Recording(k)'
      BY <2>2, <2>3 DEF Recording, Free
    <2>9. inbox[n].key \in Keys
      BY DEF Keys
    <2> QED
      BY <2>1, <2>3, <2>6, <2>7, <2>8, <2>9
  <1>10. ASSUME NEW g \in Agent, EditOnPlatform(g) \/ RevokeOnPlatform(g)
         PROVE  InboxInv'
    <2>1. /\ call' \in [Agent -> Calling] /\ call'[g] = Free
          /\ \A a \in Agent \ {g} : call'[a] = call[a]
      BY <1>10 DEF EditOnPlatform, RevokeOnPlatform, InboxShape, Calling
    <2>2. /\ call[g] # Free /\ call[g].sent \in DOMAIN out /\ call[g].pc # "record"
          /\ UNCHANGED <<inbox, edits>>
      BY <1>10 DEF EditOnPlatform, RevokeOnPlatform, InboxShape, Free
    <2>3. out' \in Seq(Outgoing) /\ DOMAIN out' = DOMAIN out /\ \A m \in DOMAIN out : out'[m].by = out[m].by
      <3>1. CASE EditOnPlatform(g) /\ out' # out
        <4>1. call[g].version \in Nat
          BY <2>2, <3>1 DEF InboxShape, Calling, EditOnPlatform
        <4> QED
          BY <2>2, <3>1, <4>1, OutVersionSet DEF EditOnPlatform
      <3>2. CASE RevokeOnPlatform(g) /\ out' # out
        BY <2>2, <3>2, OutRevokedSet DEF RevokeOnPlatform
      <3> QED
        BY <1>10, <3>1, <3>2 DEF InboxShape
    <2>4. faults' \in Nat /\ (faults' = 0 => faults = 0)
      BY <1>10 DEF EditOnPlatform, RevokeOnPlatform, Fails, InboxShape
    <2>5. \A k : Recording(k) => Recording(k)'
      BY <2>1, <2>2 DEF Recording
    <2>6. InboxShape' /\ AtMostOneRow' /\ Keys' = Keys
      BY <2>1, <2>2, <2>3, <2>4 DEF InboxShape, AtMostOneRow, Keys
    <2> QED
      BY <2>1, <2>2, <2>3, <2>4, <2>5, <2>6 DEF Free
  <1> QED
    BY <1>1, <1>2, <1>3, <1>4, <1>5, <1>6, <1>7, <1>8, <1>9, <1>10, <1>11
    DEF MessagesNext, messageVars, Arrive, MarkAsRead

\* A reply the dashboard sent is in the inbox once, whether the session's echo of
\* it is handled before, after or never, for any number of agents.
THEOREM RepliesAreRecordedOnce == MessagesSpec => []RepliesRecordedOnce
  <1>1. ASSUME InboxInv
        PROVE  RepliesRecordedOnce
    <2> SUFFICES ASSUME NEW k \in DOMAIN out
                 PROVE  LET records == {n \in DOMAIN inbox : inbox[n].key = k} IN
                        /\ Cardinality(records) <= 1
                        /\ out[k].by = "dashboard" /\ faults = 0
                           /\ (\A a \in Agent : call[a].pc = "record" => call[a].sent # k)
                           => records # {}
      BY DEF RepliesRecordedOnce
    <2> DEFINE records == {n \in DOMAIN inbox : inbox[n].key = k}
    <2>1. \A m, n \in records : m = n
      BY <1>1 DEF InboxInv, AtMostOneRow
    <2>2. Cardinality(records) <= 1
      BY <2>1, AtMostOne
    <2>3. ASSUME out[k].by = "dashboard", faults = 0,
                 \A a \in Agent : call[a].pc = "record" => call[a].sent # k
          PROVE  records # {}
      BY <1>1, <2>3 DEF InboxInv, Recording, Keys
    <2> QED
      BY <2>2, <2>3
  <1>2. QED
    BY InboxStart, InboxStep, <1>1, PTL DEF MessagesSpec

\* No receipt, edit, deletion or echo takes back that a message was read.
THEOREM ReadStaysRead == MessagesSpec => ReadIsFinal
  <1>1. ASSUME InboxInv, [MessagesNext]_messageVars
        PROVE  [\A n \in DOMAIN inbox :
                  inbox[n].status = "read" => inbox'[n].status = "read"]_messageVars
    <2> SUFFICES ASSUME NEW n \in DOMAIN inbox, inbox[n].status = "read"
                 PROVE  inbox'[n].status = "read"
      OBVIOUS
    <2>0. InboxShape
      BY <1>1 DEF InboxInv
    <2>1. CASE inbox' = inbox
      BY <2>1
    <2>2. ASSUME NEW g \in Agent, RecordReply(g), inbox' # inbox
          PROVE  inbox'[n] = inbox[n]
      <3>1. call[g].sent \in DOMAIN out /\ out[call[g].sent].body \in Body
        BY <2>0, <2>2, TextIsBody DEF RecordReply, InboxShape, Free
      <3> QED
        BY <2>0, <2>2, <3>1, RowIsAdded DEF RecordReply
    <2>3. ASSUME NEW k \in DOMAIN out, Echo(k)
          PROVE  inbox'[n] = inbox[n]
      BY <2>0, <2>3, TextIsBody, RowIsAdded DEF Echo
    <2>4. ASSUME NEW m \in DOMAIN inbox, NEW st \in {"delivered", "read"}, Receipt(m, st)
          PROVE  inbox'[n].status = "read"
      <3>1. MergedStatus(inbox[m].status, st) \in Statuses
        BY <2>0 DEF MergedStatus, Statuses, InboxShape, Stored
      <3>2. /\ inbox'[m].status = MergedStatus(inbox[m].status, st)
            /\ m # n => inbox'[n].status = inbox[n].status
        BY <2>0, <2>4, <3>1, StatusSet DEF Receipt
      <3> QED
        BY <3>2 DEF MergedStatus
    <2>5. ASSUME NEW g \in Agent, NEW m \in DOMAIN inbox, EditMessage(g, m)
          PROVE  inbox'[n].status = "read"
      <3>1. edits + 1 \in Nat
        BY <2>0 DEF InboxShape
      <3> QED
        BY <2>0, <2>5, <3>1, VersionSet DEF EditMessage
    <2>6. ASSUME NEW g \in Agent, NEW m \in DOMAIN inbox, DeleteMessage(g, m)
          PROVE  inbox'[n].status = "read"
      BY <2>0, <2>6, DeletedSet DEF DeleteMessage
    <2> QED
      BY <1>1, <2>1, <2>2, <2>3, <2>4, <2>5, <2>6
      DEF MessagesNext, messageVars, SendReply, SendFromPhone, TenSecondsPass, EditOnPlatform,
          RevokeOnPlatform, Arrive, CountUnread, MarkAsRead
  <1>2. QED
    BY InboxStart, InboxStep, <1>1, PTL DEF MessagesSpec, ReadIsFinal

Editing(k, v) == \E a \in Agent : call[a].pc = "edit" /\ call[a].sent = k /\ call[a].version = v
Revoking(k) == \E a \in Agent : call[a].pc = "revoke" /\ call[a].sent = k

\* What the row says is what the contact has, or what the request under way is
\* about to tell the platform.
Mirrored(n) ==
    LET k == inbox[n].key IN
    /\ out[k].version = inbox[n].version \/ Editing(k, inbox[n].version)
    /\ out[k].revoked => inbox[n].deleted
    /\ inbox[n].deleted => out[k].revoked \/ Revoking(k)
    /\ \A v : Editing(k, v) => v = inbox[n].version /\ ~inbox[n].deleted
    /\ Revoking(k) => inbox[n].deleted

Untouched(k) == out[k].version = 0 /\ ~out[k].revoked

MirrorInv ==
    /\ InboxInv
    /\ faults = 0 =>
         /\ \A n \in DOMAIN inbox : Mirrored(n)
         /\ \A k \in DOMAIN out : k \in Keys \/ Untouched(k)

LEMMA MirrorStart == MessagesInit => MirrorInv
  BY InboxStart DEF MessagesInit, MirrorInv

\* No request that edits or revokes begins or ends.
LEMMA SameRequests ==
  ASSUME \A a \in Agent : call'[a] = call[a]
                          \/ (call[a].pc \notin {"edit", "revoke"} /\ call'[a].pc \notin {"edit", "revoke"})
  PROVE  /\ \A k, v : (Editing(k, v)' <=> Editing(k, v))
         /\ \A k : (Revoking(k)' <=> Revoking(k))
  BY DEF Editing, Revoking

LEMMA MirrorStep ==
  ASSUME \A a, b \in Agent : a = b, MirrorInv, [MessagesNext]_messageVars
  PROVE  MirrorInv'
  <1>0. InboxInv /\ InboxInv' /\ InboxShape
    BY InboxStep DEF MirrorInv, InboxInv
  <1>f. faults \in Nat /\ (faults' = 0 => faults = 0)
    <2>1. faults' = faults \/ faults' = faults + 1
      BY DEF MessagesNext, messageVars, SendReply, RecordReply, EditOnPlatform,
        RevokeOnPlatform, EditMessage, DeleteMessage, SendFromPhone, Echo, TenSecondsPass,
        Receipt, Arrive, CountUnread, MarkAsRead, Fails
    <2> QED
      BY <1>0, <2>1 DEF InboxShape
  <1> SUFFICES ASSUME faults' = 0, faults = 0
               PROVE  /\ \A n \in DOMAIN inbox' : Mirrored(n)'
                      /\ \A k \in DOMAIN out' : k \in Keys' \/ Untouched(k)'
    BY <1>0, <1>f DEF MirrorInv
  <1>m. /\ \A n \in DOMAIN inbox : Mirrored(n) /\ inbox[n].key \in DOMAIN out
        /\ \A k \in DOMAIN out : k \in Keys \/ Untouched(k)
    BY <1>0 DEF MirrorInv, InboxShape
  <1>1. CASE UNCHANGED <<out, inbox, call>>
    BY <1>1, <1>m DEF Mirrored, Untouched, Keys, Editing, Revoking
  <1>2. ASSUME UNCHANGED inbox, NEW by \in {"dashboard", "phone"}, NEW body \in Body,
               out' = Sent(by, body),
               \A a \in Agent : call'[a] = call[a] \/ (call[a] = Free /\ call'[a].pc = "record")
        PROVE  /\ \A n \in DOMAIN inbox' : Mirrored(n)'
               /\ \A k \in DOMAIN out' : k \in Keys' \/ Untouched(k)'
    <2>1. /\ \A k, v : (Editing(k, v)' <=> Editing(k, v))
          /\ \A k : (Revoking(k)' <=> Revoking(k))
      BY <1>2, SameRequests DEF Free
    <2>2. /\ DOMAIN out' = DOMAIN out \cup {Len(out) + 1}
          /\ \A k \in DOMAIN out : out'[k] = out[k]
          /\ out'[Len(out) + 1].version = 0 /\ out'[Len(out) + 1].revoked = FALSE
      BY <1>0, <1>2, MessageIsSent
    <2>3. Keys' = Keys
      BY <1>2 DEF Keys
    <2> QED
      BY <1>2, <1>m, <2>1, <2>2, <2>3 DEF Mirrored, Untouched
  <1>3. ASSUME UNCHANGED out, NEW k \in DOMAIN out,
               CreateMessage(Message(k, out[k].body, "sent")),
               \A a \in Agent : call'[a] = call[a] \/ (call[a].pc = "record" /\ call'[a] = Free)
        PROVE  /\ \A n \in DOMAIN inbox' : Mirrored(n)'
               /\ \A m \in DOMAIN out' : m \in Keys' \/ Untouched(m)'
    <2>1. /\ \A m, v : (Editing(m, v)' <=> Editing(m, v))
          /\ \A m : (Revoking(m)' <=> Revoking(m))
      BY <1>3, SameRequests DEF Free
    <2>2. /\ DOMAIN inbox \subseteq DOMAIN inbox'
          /\ \A n \in DOMAIN inbox : inbox'[n] = inbox[n]
          /\ \A n \in DOMAIN inbox' \ DOMAIN inbox :
                inbox'[n].key = k /\ k \notin Keys /\ inbox'[n].version = 0 /\ inbox'[n].deleted = FALSE
          /\ Keys' = Keys \cup {k}
      BY <1>0, <1>3, TextIsBody, RowIsAdded
    <2>3. ASSUME k \notin Keys
          PROVE  (\A v : ~Editing(k, v)) /\ ~Revoking(k) /\ Untouched(k)
      BY <1>0, <1>m, <2>3 DEF InboxInv, Editing, Revoking
    <2>4. \A n \in DOMAIN inbox : Mirrored(n)'
      BY <1>3, <1>m, <2>1, <2>2 DEF Mirrored
    <2>5. \A n \in DOMAIN inbox' \ DOMAIN inbox : Mirrored(n)'
      BY <1>3, <2>1, <2>2, <2>3 DEF Mirrored, Untouched
    <2> QED
      BY <1>3, <1>m, <2>2, <2>4, <2>5 DEF Untouched
  <1>4. ASSUME NEW k \in DOMAIN out, TenSecondsPass(k)
        PROVE  /\ \A n \in DOMAIN inbox' : Mirrored(n)'
               /\ \A m \in DOMAIN out' : m \in Keys' \/ Untouched(m)'
    <2>1. UNCHANGED <<inbox, call>> /\ Keys' = Keys
      BY <1>4 DEF TenSecondsPass, Keys
    <2>2. /\ DOMAIN out' = DOMAIN out
          /\ \A m \in DOMAIN out : out'[m].version = out[m].version /\ out'[m].revoked = out[m].revoked
      BY <1>0, <1>4, OutAges DEF TenSecondsPass
    <2>3. /\ \A m, v : (Editing(m, v)' <=> Editing(m, v))
          /\ \A m : (Revoking(m)' <=> Revoking(m))
      BY <2>1, SameRequests
    <2> QED
      BY <1>m, <2>1, <2>2, <2>3 DEF Mirrored, Untouched
  <1>5. ASSUME NEW n \in DOMAIN inbox, NEW st \in {"delivered", "read"}, Receipt(n, st)
        PROVE  /\ \A m \in DOMAIN inbox' : Mirrored(m)'
               /\ \A k \in DOMAIN out' : k \in Keys' \/ Untouched(k)'
    <2>1. MergedStatus(inbox[n].status, st) \in Statuses
      BY <1>0 DEF MergedStatus, Statuses, InboxShape, Stored
    <2>2. /\ DOMAIN inbox' = DOMAIN inbox
          /\ \A m \in DOMAIN inbox : inbox'[m].key = inbox[m].key /\ inbox'[m].version = inbox[m].version
                                     /\ inbox'[m].deleted = inbox[m].deleted
      BY <1>0, <1>5, <2>1, StatusSet DEF Receipt
    <2>3. UNCHANGED <<out, call>> /\ Keys' = Keys
      BY <1>5, <2>2, KeysStay DEF Receipt
    <2>4. /\ \A m, v : (Editing(m, v)' <=> Editing(m, v))
          /\ \A m : (Revoking(m)' <=> Revoking(m))
      BY <2>3, SameRequests
    <2> QED
      BY <1>m, <2>2, <2>3, <2>4 DEF Mirrored, Untouched
  <1>6. ASSUME NEW g \in Agent, NEW n \in DOMAIN inbox, EditMessage(g, n)
        PROVE  /\ \A m \in DOMAIN inbox' : Mirrored(m)'
               /\ \A k \in DOMAIN out' : k \in Keys' \/ Untouched(k)'
    <2>1. edits + 1 \in Nat
      BY <1>0 DEF InboxShape
    <2>2. /\ DOMAIN inbox' = DOMAIN inbox /\ inbox'[n].version = edits + 1
          /\ \A m \in DOMAIN inbox : m # n => inbox'[m].version = inbox[m].version
          /\ \A m \in DOMAIN inbox : inbox'[m].key = inbox[m].key /\ inbox'[m].deleted = inbox[m].deleted
      BY <1>0, <1>6, <2>1, VersionSet DEF EditMessage
    <2>3. UNCHANGED out /\ Keys' = Keys
      BY <1>6, <2>2, KeysStay DEF EditMessage
    <2>4. /\ \A k, v : ~Editing(k, v)
          /\ \A k : ~Revoking(k) /\ ~Revoking(k)'
          /\ \A k, v : (Editing(k, v)' <=> k = inbox[n].key /\ v = edits + 1)
      <3>1. /\ call'[g] = [pc |-> "edit", sent |-> inbox[n].key, version |-> edits + 1]
            /\ call[g] = Free /\ \A a \in Agent : a = g
        BY <1>0, <1>6 DEF EditMessage, InboxShape
      <3>2. /\ call'[g].pc = "edit" /\ call'[g].sent = inbox[n].key
            /\ call'[g].version = edits + 1 /\ call[g].pc = "free"
        BY <3>1 DEF Free
      <3> QED
        BY <3>1, <3>2 DEF Editing, Revoking
    <2>5. ~inbox[n].deleted /\ \A m \in DOMAIN inbox : m # n => inbox[m].key # inbox[n].key
      BY <1>0, <1>6 DEF EditMessage, Changeable, InboxInv, AtMostOneRow
    <2>6. Mirrored(n)'
      BY <1>m, <2>2, <2>3, <2>4, <2>5 DEF Mirrored
    <2>7. \A m \in DOMAIN inbox : m # n => Mirrored(m)'
      BY <1>m, <2>2, <2>3, <2>4, <2>5 DEF Mirrored
    <2> QED
      BY <1>m, <2>2, <2>3, <2>6, <2>7 DEF Untouched
  <1>7. ASSUME NEW g \in Agent, NEW n \in DOMAIN inbox, DeleteMessage(g, n)
        PROVE  /\ \A m \in DOMAIN inbox' : Mirrored(m)'
               /\ \A k \in DOMAIN out' : k \in Keys' \/ Untouched(k)'
    <2>2. /\ DOMAIN inbox' = DOMAIN inbox /\ inbox'[n].deleted
          /\ \A m \in DOMAIN inbox : m # n => inbox'[m].deleted = inbox[m].deleted
          /\ \A m \in DOMAIN inbox : inbox'[m].key = inbox[m].key /\ inbox'[m].version = inbox[m].version
      BY <1>0, <1>7, DeletedSet DEF DeleteMessage
    <2>3. UNCHANGED out /\ Keys' = Keys
      BY <1>7, <2>2, KeysStay DEF DeleteMessage
    <2>4. /\ \A k, v : ~Editing(k, v) /\ ~Editing(k, v)'
          /\ \A k : ~Revoking(k) /\ (Revoking(k)' <=> k = inbox[n].key)
      <3>1. /\ call'[g] = [pc |-> "revoke", sent |-> inbox[n].key]
            /\ call[g] = Free /\ \A a \in Agent : a = g
        BY <1>0, <1>7 DEF DeleteMessage, InboxShape
      <3>2. call'[g].pc = "revoke" /\ call'[g].sent = inbox[n].key /\ call[g].pc = "free"
        BY <3>1 DEF Free
      <3> QED
        BY <3>1, <3>2 DEF Editing, Revoking
    <2>5. \A m \in DOMAIN inbox : m # n => inbox[m].key # inbox[n].key
      BY <1>0 DEF InboxInv, AtMostOneRow
    <2>6. Mirrored(n)'
      BY <1>m, <2>2, <2>3, <2>4, <2>5 DEF Mirrored
    <2>7. \A m \in DOMAIN inbox : m # n => Mirrored(m)'
      BY <1>m, <2>2, <2>3, <2>4, <2>5 DEF Mirrored
    <2> QED
      BY <1>m, <2>2, <2>3, <2>6, <2>7 DEF Untouched
  <1>8. ASSUME NEW g \in Agent, EditOnPlatform(g)
        PROVE  /\ \A m \in DOMAIN inbox' : Mirrored(m)'
               /\ \A k \in DOMAIN out' : k \in Keys' \/ Untouched(k)'
    <2> DEFINE k == call[g].sent
    <2>0. call[g].pc = "edit" /\ call[g] # Free /\ call[g] \in Calling
      BY <1>0, <1>8 DEF EditOnPlatform, InboxShape, Free
    <2>1. k \in DOMAIN out /\ k \in Keys /\ call[g].version \in Nat /\ Editing(k, call[g].version)
      <3>1. k \in DOMAIN out /\ k \in Keys
        BY <1>0, <2>0 DEF InboxInv, InboxShape
      <3>2. call[g].version \in Nat
        BY <2>0 DEF Calling
      <3> QED
        BY <2>0, <3>1, <3>2 DEF Editing
    <2>2. PICK n \in DOMAIN inbox : inbox[n].key = k
      BY <2>1 DEF Keys
    <2>3. call[g].version = inbox[n].version /\ ~inbox[n].deleted /\ ~out[k].revoked
      BY <1>m, <2>1, <2>2 DEF Mirrored
    <2>4. /\ DOMAIN out' = DOMAIN out /\ out'[k].version = inbox[n].version
          /\ \A m \in DOMAIN out : m # k => out'[m].version = out[m].version
          /\ \A m \in DOMAIN out : out'[m].revoked = out[m].revoked
      BY <1>0, <1>8, <2>1, <2>3, OutVersionSet DEF EditOnPlatform, Fails
    <2>5. UNCHANGED inbox /\ Keys' = Keys
      BY <1>8 DEF EditOnPlatform, Keys
    <2>6. /\ \A m, v : ~Editing(m, v)' /\ (Editing(m, v) => m = k)
          /\ \A m : ~Revoking(m) /\ ~Revoking(m)'
      <3>1. call'[g] = Free /\ call[g].pc = "edit" /\ \A a \in Agent : a = g
        BY <1>0, <1>8 DEF EditOnPlatform, InboxShape
      <3> QED
        BY <3>1 DEF Editing, Revoking, Free
    <2>7. \A m \in DOMAIN inbox : m # n => inbox[m].key # k
      BY <1>0, <2>2 DEF InboxInv, AtMostOneRow
    <2> HIDE DEF k
    <2>8. Mirrored(n)'
      BY <1>m, <2>1, <2>2, <2>3, <2>4, <2>5, <2>6 DEF Mirrored
    <2>9. \A m \in DOMAIN inbox : m # n => Mirrored(m)'
      BY <1>m, <2>4, <2>5, <2>6, <2>7 DEF Mirrored
    <2> QED
      BY <1>m, <2>1, <2>4, <2>5, <2>8, <2>9 DEF Untouched
  <1>9. ASSUME NEW g \in Agent, RevokeOnPlatform(g)
        PROVE  /\ \A m \in DOMAIN inbox' : Mirrored(m)'
               /\ \A k \in DOMAIN out' : k \in Keys' \/ Untouched(k)'
    <2> DEFINE k == call[g].sent
    <2>1. k \in DOMAIN out /\ k \in Keys /\ Revoking(k)
      BY <1>0, <1>9 DEF RevokeOnPlatform, InboxInv, InboxShape, Free, Revoking
    <2>2. PICK n \in DOMAIN inbox : inbox[n].key = k
      BY <2>1 DEF Keys
    <2>3. inbox[n].deleted
      BY <1>m, <2>1, <2>2 DEF Mirrored
    <2>4. /\ DOMAIN out' = DOMAIN out /\ out'[k].revoked
          /\ \A m \in DOMAIN out : m # k => out'[m].revoked = out[m].revoked
          /\ \A m \in DOMAIN out : out'[m].version = out[m].version
      <3>1. out' = [out EXCEPT ![k].revoked = TRUE]
        BY <1>9 DEF RevokeOnPlatform, Fails
      <3> QED
        BY <1>0, <2>1, <3>1, OutRevokedSet
    <2>5. UNCHANGED inbox /\ Keys' = Keys
      BY <1>9 DEF RevokeOnPlatform, Keys
    <2>6. /\ \A m, v : ~Editing(m, v)' /\ ~Editing(m, v)
          /\ \A m : ~Revoking(m)' /\ (Revoking(m) => m = k)
      <3>1. call'[g] = Free /\ call[g].pc = "revoke" /\ \A a \in Agent : a = g
        BY <1>0, <1>9 DEF RevokeOnPlatform, InboxShape
      <3> QED
        BY <3>1 DEF Editing, Revoking, Free
    <2>7. \A m \in DOMAIN inbox : m # n => inbox[m].key # k
      BY <1>0, <2>2 DEF InboxInv, AtMostOneRow
    <2> HIDE DEF k
    <2>8. Mirrored(n)'
      BY <1>m, <2>1, <2>2, <2>3, <2>4, <2>5, <2>6 DEF Mirrored
    <2>9. \A m \in DOMAIN inbox : m # n => Mirrored(m)'
      BY <1>m, <2>4, <2>5, <2>6, <2>7 DEF Mirrored
    <2> QED
      BY <1>m, <2>1, <2>4, <2>5, <2>8, <2>9 DEF Untouched
  <1>10. ASSUME NEW g \in Agent, NEW body \in Body, SendReply(g, body)
         PROVE  /\ \A n \in DOMAIN inbox' : Mirrored(n)'
                /\ \A k \in DOMAIN out' : k \in Keys' \/ Untouched(k)'
    <2>1. \A a \in Agent : call'[a] = call[a] \/ (call[a] = Free /\ call'[a].pc = "record")
      BY <1>0, <1>10 DEF SendReply, InboxShape
    <2> QED
      BY <1>2, <1>10, <2>1 DEF SendReply
  <1>11. ASSUME NEW g \in Agent, RecordReply(g)
         PROVE  /\ \A n \in DOMAIN inbox' : Mirrored(n)'
                /\ \A k \in DOMAIN out' : k \in Keys' \/ Untouched(k)'
    <2>1. \A a \in Agent : call'[a] = call[a] \/ (call[a].pc = "record" /\ call'[a] = Free)
      BY <1>0, <1>11 DEF RecordReply, InboxShape
    <2>2. call[g].sent \in DOMAIN out /\ UNCHANGED out
      BY <1>0, <1>11 DEF RecordReply, InboxShape, Free
    <2>3. CreateMessage(Message(call[g].sent, out[call[g].sent].body, "sent"))
      BY <1>11 DEF RecordReply, Fails
    <2> QED
      BY <1>3, <2>1, <2>2, <2>3
  <1>12. ASSUME NEW body \in Body, SendFromPhone(body)
         PROVE  /\ \A n \in DOMAIN inbox' : Mirrored(n)'
                /\ \A k \in DOMAIN out' : k \in Keys' \/ Untouched(k)'
    BY <1>2, <1>12 DEF SendFromPhone
  <1>13. ASSUME NEW k \in DOMAIN out, Echo(k)
         PROVE  /\ \A n \in DOMAIN inbox' : Mirrored(n)'
                /\ \A m \in DOMAIN out' : m \in Keys' \/ Untouched(m)'
    BY <1>3, <1>13 DEF Echo
  <1> QED
    BY <1>1, <1>4, <1>5, <1>6, <1>7, <1>8, <1>9, <1>10, <1>11, <1>12, <1>13
    DEF MessagesNext, messageVars, Arrive, CountUnread, MarkAsRead

LEMMA SameFlag ==
  ASSUME NEW x \in BOOLEAN, NEW y \in BOOLEAN, x => y, y => x
  PROVE  x = y
  OBVIOUS

\* One agent at a time and no failure: once the platform has answered, the contact
\* sees the text and the deletions the inbox shows, whatever was edited, deleted,
\* echoed or received in between.
THEOREM ContactSeesWhatInboxShows ==
  ASSUME \A a, b \in Agent : a = b
  PROVE  MessagesSpec => InboxIsFaithful
  <1>1. MirrorInv => ContactSeesInbox
    <2> SUFFICES ASSUME MirrorInv, faults = 0, \A a \in Agent : call[a].pc \notin {"edit", "revoke"},
                        NEW n \in DOMAIN inbox
                 PROVE  LET sent == out[inbox[n].key] IN
                        sent.revoked = inbox[n].deleted /\ sent.version = inbox[n].version
      BY DEF ContactSeesInbox
    <2> DEFINE sent == out[inbox[n].key]
    <2>1. sent \in Outgoing /\ inbox[n] \in Stored
      BY DEF MirrorInv, InboxInv, InboxShape
    <2>2. sent.revoked \in BOOLEAN /\ inbox[n].deleted \in BOOLEAN
      BY <2>1 DEF Outgoing, Stored
    <2>3. Mirrored(n) /\ ~Revoking(inbox[n].key) /\ \A k, v : ~Editing(k, v)
      BY DEF MirrorInv, Revoking, Editing
    <2>4. sent.version = inbox[n].version
      BY <2>3 DEF Mirrored
    <2>5. (sent.revoked => inbox[n].deleted) /\ (inbox[n].deleted => sent.revoked)
      BY <2>3 DEF Mirrored
    <2>6. sent.revoked = inbox[n].deleted
      BY <2>2, <2>5, SameFlag
    <2> QED
      BY <2>4, <2>6
  <1>2. MirrorInv /\ [MessagesNext]_messageVars => MirrorInv'
    BY MirrorStep
  <1>3. MessagesSpec => []ContactSeesInbox
    BY MirrorStart, <1>1, <1>2, PTL DEF MessagesSpec
  <1>4. QED
    BY <1>3, RepliesAreRecordedOnce, ReadStaysRead, PTL DEF InboxIsFaithful

-----------------------------------------------------------------------------
(* The bounds on messages *)

\* What is in the inbox is a message sent, no version is later than the last
\* edit, and nothing is counted that has not arrived.
MessagesTypedInv ==
    /\ InboxInv /\ UnreadInv
    /\ edits <= MaxEdits /\ \A n \in DOMAIN inbox : inbox[n].version <= edits
    /\ received <= MaxIn /\ unread + pending <= received

LEMMA MessagesTypedStart == MessagesInit => MessagesTypedInv
  BY InboxStart, UnreadStart, InboxMessagesAssumption DEF MessagesTypedInv, MessagesInit

LEMMA MessagesTypedStep ==
  ASSUME MessagesTypedInv, [MessagesNext]_messageVars
  PROVE  MessagesTypedInv'
<1> USE DEF MessagesTypedInv
<1>1. InboxInv' /\ UnreadInv' /\ InboxShape
  BY InboxStep, UnreadStep DEF InboxInv
<1>2. received' <= MaxIn /\ unread' + pending' <= received'
  <2>1. CASE UNCHANGED inboundVars
    BY <2>1 DEF inboundVars
  <2>2. CASE Arrive
    BY <2>2, InboxMessagesAssumption DEF Arrive, UnreadInv
  <2>3. CASE CountUnread
    BY <2>3 DEF CountUnread, UnreadAfter, UnreadInv
  <2>4. CASE MarkAsRead
    BY <2>4 DEF MarkAsRead, UnreadInv
  <2> QED
    BY <2>1, <2>2, <2>3, <2>4
    DEF MessagesNext, messageVars, SendReply, RecordReply, EditOnPlatform, RevokeOnPlatform,
        EditMessage, DeleteMessage, SendFromPhone, Echo, TenSecondsPass, Receipt
<1>3. edits' <= MaxEdits /\ \A n \in DOMAIN inbox' : inbox'[n].version <= edits'
  <2>0. /\ edits \in Nat /\ \A n \in DOMAIN inbox : inbox[n].version \in Nat
        /\ MaxEdits \in Nat
    <3>1. inbox \in Seq(Stored) /\ edits \in Nat /\ MaxEdits \in Nat
      BY <1>1, InboxMessagesAssumption DEF InboxShape
    <3>2. ASSUME NEW n \in DOMAIN inbox PROVE inbox[n].version \in Nat
      <4>1. inbox[n] \in Stored
        BY <3>1
      <4> QED  BY <4>1 DEF Stored
    <3> QED  BY <3>1, <3>2
  <2>1. CASE UNCHANGED <<inbox, edits>>
    BY <2>1
  <2>2. ASSUME NEW k \in DOMAIN out, NEW body \in Body, CreateMessage(Message(k, body, "sent")),
               edits' = edits
        PROVE  edits' <= MaxEdits /\ \A n \in DOMAIN inbox' : inbox'[n].version <= edits'
    <3>1. /\ \A n \in DOMAIN inbox : inbox'[n] = inbox[n]
          /\ \A n \in DOMAIN inbox' \ DOMAIN inbox : inbox'[n].version = 0
      BY <1>1, <2>2, RowIsAdded
    <3> QED  BY <2>0, <2>2, <3>1
  <2>3. ASSUME NEW a \in Agent, RecordReply(a)
        PROVE  edits' <= MaxEdits /\ \A n \in DOMAIN inbox' : inbox'[n].version <= edits'
    <3>1. call[a].sent \in DOMAIN out
      BY <1>1, <2>3 DEF RecordReply, InboxShape, Free
    <3>2. out[call[a].sent].body \in Body
      BY <1>1, <3>1, TextIsBody
    <3> QED  BY <2>1, <2>2, <2>3, <3>1, <3>2 DEF RecordReply
  <2>4. ASSUME NEW k \in DOMAIN out, Echo(k)
        PROVE  edits' <= MaxEdits /\ \A n \in DOMAIN inbox' : inbox'[n].version <= edits'
    <3>1. out[k].body \in Body
      BY <1>1, TextIsBody
    <3> QED  BY <2>2, <2>4, <3>1 DEF Echo
  <2>5. ASSUME NEW n \in DOMAIN inbox, NEW st \in {"delivered", "read"}, Receipt(n, st)
        PROVE  edits' <= MaxEdits /\ \A m \in DOMAIN inbox' : inbox'[m].version <= edits'
    <3>1. MergedStatus(inbox[n].status, st) \in Statuses
      BY <1>1 DEF MergedStatus, Statuses, InboxShape, Stored
    <3>2. /\ DOMAIN inbox' = DOMAIN inbox
          /\ \A m \in DOMAIN inbox : inbox'[m].version = inbox[m].version
      BY <1>1, <2>5, <3>1, StatusSet DEF Receipt
    <3> QED  BY <2>5, <3>2 DEF Receipt
  <2>6. ASSUME NEW a \in Agent, NEW n \in DOMAIN inbox, EditMessage(a, n)
        PROVE  edits' <= MaxEdits /\ \A m \in DOMAIN inbox' : inbox'[m].version <= edits'
    <3>1. edits' = edits + 1 /\ edits < MaxEdits /\ edits + 1 \in Nat
      BY <2>0, <2>6 DEF EditMessage
    <3>2. /\ DOMAIN inbox' = DOMAIN inbox /\ inbox'[n].version = edits + 1
          /\ \A m \in DOMAIN inbox : m # n => inbox'[m].version = inbox[m].version
      BY <1>1, <2>6, <3>1, VersionSet DEF EditMessage
    <3> QED  BY <2>0, <3>1, <3>2
  <2>7. ASSUME NEW a \in Agent, NEW n \in DOMAIN inbox, DeleteMessage(a, n)
        PROVE  edits' <= MaxEdits /\ \A m \in DOMAIN inbox' : inbox'[m].version <= edits'
    <3>1. edits' = edits + 1 /\ edits < MaxEdits
      BY <2>7 DEF DeleteMessage
    <3>2. /\ DOMAIN inbox' = DOMAIN inbox
          /\ \A m \in DOMAIN inbox : inbox'[m].version = inbox[m].version
      BY <1>1, <2>7, DeletedSet DEF DeleteMessage
    <3> QED  BY <2>0, <3>1, <3>2
  <2> QED
    BY <2>1, <2>3, <2>4, <2>5, <2>6, <2>7
    DEF MessagesNext, messageVars, SendReply, EditOnPlatform, RevokeOnPlatform,
        SendFromPhone, TenSecondsPass, Arrive, CountUnread, MarkAsRead
<1> QED  BY <1>1, <1>2, <1>3

LEMMA MessagesAreTyped == MessagesTypedInv => MessagesTypeOK
<1> SUFFICES ASSUME MessagesTypedInv PROVE MessagesTypeOK
  OBVIOUS
<1>1. /\ inbox \in Seq(Stored) /\ edits \in Nat /\ MaxEdits \in Nat /\ MaxIn \in Nat
      /\ \A n \in DOMAIN inbox : inbox[n].key \in DOMAIN out
  BY InboxMessagesAssumption DEF MessagesTypedInv, InboxInv, InboxShape
<1>2. \A n \in DOMAIN inbox : /\ inbox[n].body \in Body /\ inbox[n].version \in 0..MaxEdits
                              /\ inbox[n].status \in {"sent", "delivered", "read"}
  <2> SUFFICES ASSUME NEW n \in DOMAIN inbox
               PROVE  /\ inbox[n].body \in Body /\ inbox[n].version \in 0..MaxEdits
                      /\ inbox[n].status \in {"sent", "delivered", "read"}
    OBVIOUS
  <2>1. inbox[n] \in Stored
    BY <1>1
  <2>2. inbox[n].version <= edits /\ edits <= MaxEdits
    BY DEF MessagesTypedInv
  <2> QED  BY <1>1, <2>1, <2>2 DEF Stored, Statuses
<1>3. unread \in 0..MaxIn /\ pending \in {0, 1}
  BY <1>1 DEF MessagesTypedInv, UnreadInv
<1> QED  BY <1>1, <1>2, <1>3 DEF MessagesTypeOK

-----------------------------------------------------------------------------
(* The knowledge base *)

Item == [topic : Topic, version : 1..VersionLimit, vector : Nat, active : BOOLEAN, deleted : BOOLEAN]
Gap == [topic : Topic, status : {"pending", "resolved", "dismissed"}, occurrences : Nat, resolution : Nat]

\* A request that resolves a question holds a question and an item that exist,
\* though the item may be deleted by then.
BaseInv ==
    /\ items \in Seq(Item) /\ gaps \in Seq(Gap)
    /\ \A i \in DOMAIN items : items[i].vector <= items[i].version
    /\ resolving # NoRequest => resolving.item \in DOMAIN items /\ resolving.gap \in DOMAIN gaps
    /\ \A g \in DOMAIN gaps : gaps[g].resolution # Unresolved => Live(gaps[g].resolution)

LEMMA BaseStart == BaseInit => BaseInv
  BY DEF BaseInit, BaseInv

LEMMA FunctionIsSequence ==
  ASSUME NEW S, NEW n \in Nat, NEW f \in [1..n -> S]
  PROVE  f \in Seq(S)
  OBVIOUS

LEMMA ItemIsNew ==
  ASSUME NEW t \in Topic
  PROVE  NewItem(t) \in Item /\ NewItem(t).vector <= NewItem(t).version /\ ~ NewItem(t).deleted
<1>1. GenerateEmbedding(1) \in {0, 1}
  BY DEF GenerateEmbedding, NoVector
<1>2. 1 \in 1..VersionLimit
  BY KnowledgeBaseAssumption
<1> HIDE DEF GenerateEmbedding
<1> QED  BY <1>1, <1>2 DEF NewItem, Item

\* What is added changes nothing that is there.
LEMMA ItemsAreAdded ==
  ASSUME BaseInv, NEW new \in Seq(Item), items' = items \o new,
         \A n \in DOMAIN new : new[n].vector <= new[n].version
  PROVE  /\ items' \in Seq(Item) /\ Len(items') = Len(items) + Len(new)
         /\ \A i \in DOMAIN items' : items'[i].vector <= items'[i].version
         /\ \A i \in DOMAIN items : i \in DOMAIN items' /\ items'[i] = items[i]
         /\ \A i : Live(i) => Live(i)'
<1>1. items \in Seq(Item) /\ Len(items) \in Nat /\ Len(new) \in Nat
  BY DEF BaseInv
<1>2. /\ items' \in Seq(Item) /\ DOMAIN items' = 1..(Len(items) + Len(new))
      /\ Len(items') = Len(items) + Len(new)
      /\ \A i \in DOMAIN items' :
            items'[i] = IF i <= Len(items) THEN items[i] ELSE new[i - Len(items)]
  BY <1>1
<1>3. \A i \in DOMAIN items : i \in DOMAIN items' /\ items'[i] = items[i]
  BY <1>1, <1>2
<1>4. \A i \in DOMAIN items' : items'[i].vector <= items'[i].version
  <2> SUFFICES ASSUME NEW i \in DOMAIN items' PROVE items'[i].vector <= items'[i].version
    OBVIOUS
  <2>1. CASE i <= Len(items)
    BY <1>1, <1>2, <2>1 DEF BaseInv
  <2>2. CASE ~ i <= Len(items)
    <3>1. i - Len(items) \in DOMAIN new
      BY <1>1, <1>2, <2>2
    <3> QED  BY <1>2, <2>2, <3>1
  <2> QED  BY <2>1, <2>2
<1>5. \A i : Live(i) => Live(i)'
  BY <1>3 DEF Live
<1> QED  BY <1>2, <1>3, <1>4, <1>5

\* One item is replaced by one that is not deleted where it was not.
LEMMA ItemIsSet ==
  ASSUME BaseInv, NEW i \in DOMAIN items, NEW r \in Item, items' = [items EXCEPT ![i] = r],
         r.vector <= r.version
  PROVE  /\ items' \in Seq(Item) /\ DOMAIN items' = DOMAIN items /\ items'[i] = r
         /\ \A j \in DOMAIN items' : items'[j].vector <= items'[j].version
         /\ \A j \in DOMAIN items : j # i => items'[j] = items[j]
         /\ \A j : Live(j) /\ (j = i => ~ r.deleted) => Live(j)'
<1>1. items \in Seq(Item)
  BY DEF BaseInv
<1>2. /\ items' \in Seq(Item) /\ DOMAIN items' = DOMAIN items /\ items'[i] = r
      /\ \A j \in DOMAIN items : j # i => items'[j] = items[j]
  BY <1>1, OneIsSet
<1>3. \A j \in DOMAIN items' : items'[j].vector <= items'[j].version
  BY <1>2 DEF BaseInv
<1> QED  BY <1>2, <1>3 DEF Live

LEMMA EditedItem ==
  ASSUME BaseInv, NEW i \in DOMAIN items, items[i].version < VersionLimit, NEW active \in BOOLEAN
  PROVE  LET r == Edited(items[i], active) IN
         /\ r \in Item /\ r.vector <= r.version /\ r.vector >= items[i].vector
         /\ r.deleted = items[i].deleted
<1> DEFINE v == GenerateEmbedding(items[i].version + 1)  w == KeptVector(items[i].vector, v)
<1>1. items[i] \in Item /\ items[i].vector <= items[i].version
  BY DEF BaseInv
<1>2. /\ items[i].vector \in Nat /\ items[i].version \in 1..VersionLimit /\ items[i].topic \in Topic
      /\ items[i].deleted \in BOOLEAN
  BY <1>1 DEF Item
<1>3. v \in {0, items[i].version + 1}
  BY DEF GenerateEmbedding, NoVector
<1> HIDE DEF v
<1>4. w \in Nat /\ w >= items[i].vector /\ w <= items[i].version + 1
  BY <1>1, <1>2, <1>3 DEF KeptVector, NoVector
<1> HIDE DEF w
<1>5. Edited(items[i], active) =
        [topic |-> items[i].topic, version |-> items[i].version + 1, active |-> active,
         deleted |-> items[i].deleted, vector |-> w]
  BY DEF Edited, v, w
<1>6. items[i].version + 1 \in 1..VersionLimit
  BY <1>2, KnowledgeBaseAssumption
<1> QED  BY <1>2, <1>4, <1>5, <1>6 DEF Item

LEMMA DeletedItem ==
  ASSUME BaseInv, NEW i \in DOMAIN items
  PROVE  LET r == [items[i] EXCEPT !.deleted = TRUE] IN
         /\ r \in Item /\ r.vector = items[i].vector /\ r.version = items[i].version
         /\ r.vector <= r.version
<1>1. items[i] \in Item /\ items[i].vector <= items[i].version
  BY DEF BaseInv
<1> QED  BY <1>1 DEF Item

LEMMA GapsMapped ==
  ASSUME BaseInv, NEW f, \A g \in DOMAIN gaps : f[g] \in Gap,
         gaps' = [g \in DOMAIN gaps |-> f[g]]
  PROVE  gaps' \in Seq(Gap) /\ DOMAIN gaps' = DOMAIN gaps
<1>1. gaps \in Seq(Gap) /\ DOMAIN gaps = 1..Len(gaps) /\ Len(gaps) \in Nat
  BY DEF BaseInv
<1>2. gaps' \in [1..Len(gaps) -> Gap]
  BY <1>1
<1> QED  BY <1>1, <1>2

LEMMA BaseStep ==
  ASSUME BaseInv, [BaseNext]_baseVars
  PROVE  BaseInv' /\ \A i \in DOMAIN items : items'[i].vector >= items[i].vector
<1>0. /\ items \in Seq(Item) /\ gaps \in Seq(Gap)
      /\ \A i \in DOMAIN items : items[i] \in Item /\ items[i].vector \in Nat
      /\ \A g \in DOMAIN gaps : gaps[g] \in Gap
  <2>1. items \in Seq(Item) /\ gaps \in Seq(Gap)
    BY DEF BaseInv
  <2>2. \A i \in DOMAIN items : items[i] \in Item
    BY <2>1
  <2> QED  BY <2>1, <2>2 DEF Item
<1>1. CASE UNCHANGED <<items, gaps, resolving>>
  BY <1>0, <1>1 DEF BaseInv, Live
<1>2. ASSUME NEW new \in Seq(Item), items' = items \o new,
             \A n \in DOMAIN new : new[n].vector <= new[n].version,
             UNCHANGED gaps,
             resolving' = resolving \/ (resolving'.item \in DOMAIN items' /\ resolving'.gap \in DOMAIN gaps)
      PROVE  BaseInv' /\ \A i \in DOMAIN items : items'[i].vector >= items[i].vector
  <2>1. /\ items' \in Seq(Item)
        /\ \A i \in DOMAIN items' : items'[i].vector <= items'[i].version
        /\ \A i \in DOMAIN items : i \in DOMAIN items' /\ items'[i] = items[i]
        /\ \A i : Live(i) => Live(i)'
    BY <1>2, ItemsAreAdded
  <2>2. \A g \in DOMAIN gaps : gaps[g].resolution # Unresolved => Live(gaps[g].resolution)'
    <3> SUFFICES ASSUME NEW g \in DOMAIN gaps, gaps[g].resolution # Unresolved
                 PROVE  Live(gaps[g].resolution)'
      OBVIOUS
    <3>1. PICK i : i = gaps[g].resolution
      OBVIOUS
    <3>2. Live(i)'
      BY <2>1, <3>1 DEF BaseInv
    <3> QED  BY <1>2, <3>1, <3>2
  <2>3. resolving' # NoRequest => resolving'.item \in DOMAIN items' /\ resolving'.gap \in DOMAIN gaps'
    BY <1>2, <2>1 DEF BaseInv
  <2> QED  BY <1>0, <1>2, <2>1, <2>2, <2>3 DEF BaseInv
<1>3. ASSUME NEW t \in Topic, CreateKnowledgeItem(t)
      PROVE  BaseInv' /\ \A i \in DOMAIN items : items'[i].vector >= items[i].vector
  <2> DEFINE r == NewItem(t)
  <2>1. r \in Item /\ r.vector <= r.version
    BY ItemIsNew
  <2>2. items' = Append(items, r) /\ UNCHANGED <<gaps, resolving>>
    BY <1>3 DEF CreateKnowledgeItem
  <2> HIDE DEF r
  <2>3. items' = items \o <<r>> /\ <<r>> \in Seq(Item) /\ \A n \in DOMAIN <<r>> : <<r>>[n] = r
    <3>1. items \in Seq(Item)
      BY <1>0
    <3> QED  BY <2>1, <2>2, <3>1
  <2> QED  BY <1>2, <2>1, <2>2, <2>3
<1>4. ASSUME NEW t \in Topic, NEW u \in Topic, BulkCreateKnowledgeItems(<<t, u>>)
      PROVE  BaseInv' /\ \A i \in DOMAIN items : items'[i].vector >= items[i].vector
  <2> DEFINE new == [n \in DOMAIN <<t, u>> |-> NewItem(<<t, u>>[n])]
  <2>1. items' = items \o new /\ UNCHANGED <<gaps, resolving>>
    BY <1>4 DEF BulkCreateKnowledgeItems
  <2>2. DOMAIN <<t, u>> = 1..2 /\ \A n \in DOMAIN <<t, u>> : <<t, u>>[n] \in Topic
    OBVIOUS
  <2>3. \A n \in DOMAIN <<t, u>> : new[n] \in Item /\ new[n].vector <= new[n].version
    BY <2>2, ItemIsNew
  <2>4. new \in [1..2 -> Item] /\ DOMAIN new = DOMAIN <<t, u>>
    BY <2>2, <2>3
  <2> HIDE DEF new
  <2>5. new \in Seq(Item)
    BY <2>4, FunctionIsSequence, 2 \in Nat
  <2> QED  BY <1>2, <2>1, <2>3, <2>4, <2>5
<1>5. ASSUME NEW i \in DOMAIN items, NEW active \in BOOLEAN, UpdateKnowledgeItem(i, active)
      PROVE  BaseInv' /\ \A j \in DOMAIN items : items'[j].vector >= items[j].vector
  <2> DEFINE r == Edited(items[i], active)
  <2>1. r \in Item /\ r.vector <= r.version /\ r.vector >= items[i].vector /\ r.deleted = items[i].deleted
    BY <1>5, EditedItem DEF UpdateKnowledgeItem
  <2>2. items' = [items EXCEPT ![i] = r] /\ UNCHANGED <<gaps, resolving>> /\ ~ items[i].deleted
    BY <1>5 DEF UpdateKnowledgeItem, Live
  <2> HIDE DEF r
  <2>3. /\ items' \in Seq(Item) /\ DOMAIN items' = DOMAIN items /\ items'[i] = r
        /\ \A j \in DOMAIN items' : items'[j].vector <= items'[j].version
        /\ \A j \in DOMAIN items : j # i => items'[j] = items[j]
        /\ \A j : Live(j) => Live(j)'
    BY <2>1, <2>2, ItemIsSet
  <2>4. \A g \in DOMAIN gaps : gaps[g].resolution # Unresolved => Live(gaps[g].resolution)'
    <3> SUFFICES ASSUME NEW g \in DOMAIN gaps, gaps[g].resolution # Unresolved
                 PROVE  Live(gaps[g].resolution)'
      OBVIOUS
    <3>1. PICK j : j = gaps[g].resolution
      OBVIOUS
    <3>2. Live(j)'
      BY <2>3, <3>1 DEF BaseInv
    <3> QED  BY <2>2, <3>1, <3>2
  <2>5. BaseInv'
    BY <1>0, <2>2, <2>3, <2>4 DEF BaseInv
  <2> QED  BY <1>0, <2>1, <2>3, <2>5
<1>6. ASSUME NEW i \in DOMAIN items, DeleteKnowledgeItem(i)
      PROVE  BaseInv' /\ \A j \in DOMAIN items : items'[j].vector >= items[j].vector
  <2> DEFINE r == [items[i] EXCEPT !.deleted = TRUE]  f == [g \in DOMAIN gaps |-> Released(gaps[g], i)]
  <2>1. r \in Item /\ r.vector = items[i].vector /\ r.vector <= r.version
    BY DeletedItem
  <2>2. items' = [items EXCEPT ![i] = r] /\ UNCHANGED resolving
        /\ gaps' = [g \in DOMAIN gaps |-> Released(gaps[g], i)]
    BY <1>6 DEF DeleteKnowledgeItem
  <2> HIDE DEF r
  <2>3. /\ items' \in Seq(Item) /\ DOMAIN items' = DOMAIN items /\ items'[i] = r
        /\ \A j \in DOMAIN items' : items'[j].vector <= items'[j].version
        /\ \A j \in DOMAIN items : j # i => items'[j] = items[j]
        /\ \A j : Live(j) /\ j # i => Live(j)'
    BY <2>1, <2>2, ItemIsSet
  <2>4. \A g \in DOMAIN gaps : /\ Released(gaps[g], i) \in Gap
                               /\ Released(gaps[g], i).resolution \in {Unresolved, gaps[g].resolution} \ {i}
    <3> SUFFICES ASSUME NEW g \in DOMAIN gaps
                 PROVE  /\ Released(gaps[g], i) \in Gap
                        /\ Released(gaps[g], i).resolution \in {Unresolved, gaps[g].resolution} \ {i}
      OBVIOUS
    <3>1. gaps[g] \in Gap /\ i # 0
      BY <1>0
    <3> QED  BY <3>1 DEF Released, Gap, Unresolved
  <2>5. gaps' = [g \in DOMAIN gaps |-> f[g]] /\ \A g \in DOMAIN gaps : f[g] \in Gap
    BY <2>2, <2>4
  <2>6. gaps' \in Seq(Gap) /\ DOMAIN gaps' = DOMAIN gaps
    BY <2>5, GapsMapped
  <2>7. \A g \in DOMAIN gaps' : gaps'[g].resolution # Unresolved => Live(gaps[g].resolution)'
    <3> SUFFICES ASSUME NEW g \in DOMAIN gaps, gaps'[g].resolution # Unresolved
                 PROVE  Live(gaps[g].resolution)'
      BY <2>6
    <3>1. PICK j : j = gaps'[g].resolution
      OBVIOUS
    <3>2. j = gaps[g].resolution /\ j # i /\ j # Unresolved
      BY <2>2, <2>4, <3>1
    <3>3. Live(j)'
      BY <2>3, <3>2 DEF BaseInv
    <3> QED  BY <3>1, <3>3
  <2>8. BaseInv'
    BY <2>2, <2>3, <2>6, <2>7 DEF BaseInv
  <2> QED  BY <1>0, <2>1, <2>3, <2>8
<1>7. ASSUME gaps' \in Seq(Gap), DOMAIN gaps \subseteq DOMAIN gaps', UNCHANGED items,
             resolving' \in {resolving, NoRequest},
             \A g \in DOMAIN gaps' : \/ gaps'[g].resolution = Unresolved
                                     \/ g \in DOMAIN gaps /\ gaps'[g].resolution = gaps[g].resolution
                                     \/ Live(gaps'[g].resolution)
      PROVE  BaseInv' /\ \A j \in DOMAIN items : items'[j].vector >= items[j].vector
  <2>1. \A g \in DOMAIN gaps' : gaps'[g].resolution # Unresolved => Live(gaps[g].resolution)'
    BY <1>7 DEF BaseInv, Live
  <2>2. BaseInv'
    BY <1>7, <2>1 DEF BaseInv
  <2> QED  BY <1>0, <1>7, <2>2
<1>8. ASSUME NEW t \in Topic, RecordKnowledgeGap(t)
      PROVE  BaseInv' /\ \A j \in DOMAIN items : items'[j].vector >= items[j].vector
  <2>0. UNCHANGED <<items, resolving>>
    BY <1>8 DEF RecordKnowledgeGap
  <2>1. CASE gaps' = gaps
    BY <1>0, <1>7, <2>0, <2>1
  <2>2. CASE gaps' = Append(gaps, [topic |-> t, status |-> "pending", occurrences |-> 1,
                                   resolution |-> Unresolved])
    <3> DEFINE r == [topic |-> t, status |-> "pending", occurrences |-> 1, resolution |-> Unresolved]
    <3>1. r \in Gap /\ r.resolution = Unresolved /\ gaps' = Append(gaps, r)
      BY <2>2 DEF Gap, Unresolved
    <3> HIDE DEF r
    <3>2. /\ gaps' \in Seq(Gap) /\ DOMAIN gaps' = DOMAIN gaps \cup {Len(gaps) + 1}
          /\ \A g \in DOMAIN gaps : gaps'[g] = gaps[g]
          /\ gaps'[Len(gaps) + 1] = r
      BY <1>0, <3>1
    <3> QED  BY <1>7, <2>0, <3>1, <3>2
  <2>3. CASE gaps' = [g \in DOMAIN gaps |-> IF g \in Pending(t) THEN Recurred(gaps[g]) ELSE gaps[g]]
    <3> DEFINE f == [g \in DOMAIN gaps |-> IF g \in Pending(t) THEN Recurred(gaps[g]) ELSE gaps[g]]
    <3>1. \A g \in DOMAIN gaps : f[g] \in Gap /\ f[g].resolution = gaps[g].resolution
      <4> SUFFICES ASSUME NEW g \in DOMAIN gaps
                   PROVE  f[g] \in Gap /\ f[g].resolution = gaps[g].resolution
        OBVIOUS
      <4>1. gaps[g] \in Gap
        BY <1>0
      <4>2. Recurred(gaps[g]) \in Gap /\ Recurred(gaps[g]).resolution = gaps[g].resolution
        BY <4>1 DEF Recurred, Gap
      <4> QED  BY <4>1, <4>2
    <3>2. gaps' = [g \in DOMAIN gaps |-> f[g]]
      BY <2>3
    <3> HIDE DEF f
    <3>3. gaps' \in Seq(Gap) /\ DOMAIN gaps' = DOMAIN gaps
      BY <3>1, <3>2, GapsMapped
    <3> QED  BY <1>7, <2>0, <3>1, <3>2, <3>3
  <2> QED  BY <1>8, <2>1, <2>2, <2>3 DEF RecordKnowledgeGap
<1>9. ASSUME NEW g \in DOMAIN gaps, ResolveKnowledgeGap(g)
      PROVE  BaseInv' /\ \A j \in DOMAIN items : items'[j].vector >= items[j].vector
  <2> DEFINE r == NewItem(gaps[g].topic)
  <2>1. r \in Item /\ r.vector <= r.version
    <3>1. gaps[g].topic \in Topic
      BY <1>0 DEF Gap
    <3> QED  BY <3>1, ItemIsNew
  <2>2. /\ items' = Append(items, r) /\ UNCHANGED gaps
        /\ resolving' = [pc |-> "mark", gap |-> g, item |-> Len(items) + 1]
    BY <1>9 DEF ResolveKnowledgeGap
  <2> HIDE DEF r
  <2>3. /\ items' = items \o <<r>> /\ <<r>> \in Seq(Item) /\ \A n \in DOMAIN <<r>> : <<r>>[n] = r
        /\ Len(items) + 1 \in DOMAIN items'
    <3>1. items' = Append(items, r) /\ items \in Seq(Item)
      BY <1>0, <2>2
    <3> QED  BY <2>1, <3>1
  <2>4. resolving'.item \in DOMAIN items' /\ resolving'.gap \in DOMAIN gaps
    BY <2>2, <2>3
  <2> QED  BY <1>2, <2>1, <2>2, <2>3, <2>4
<1>10. CASE MarkResolved
  <2>0. UNCHANGED items /\ resolving' = NoRequest /\ resolving # NoRequest
    BY <1>10 DEF MarkResolved, NoRequest
  <2>1. CASE gaps' = gaps
    BY <1>0, <1>7, <2>0, <2>1
  <2>2. CASE Live(resolving.item) /\ gaps' = [gaps EXCEPT ![resolving.gap] = Resolved(@, resolving.item)]
    <3> DEFINE g == resolving.gap  r == Resolved(gaps[g], resolving.item)
    <3>1. g \in DOMAIN gaps /\ resolving.item \in DOMAIN items /\ resolving.item \in Nat
      BY <1>0, <2>0 DEF BaseInv
    <3>2. r \in Gap /\ r.resolution = resolving.item
      <4>1. gaps[g] \in Gap
        BY <1>0, <3>1
      <4> QED  BY <3>1, <4>1 DEF Resolved, Gap
    <3>3. gaps' = [gaps EXCEPT ![g] = r]
      BY <2>2
    <3> HIDE DEF r, g
    <3>4. /\ gaps' \in Seq(Gap) /\ DOMAIN gaps' = DOMAIN gaps /\ gaps'[g] = r
          /\ \A h \in DOMAIN gaps : h # g => gaps'[h] = gaps[h]
      BY <1>0, <3>1, <3>2, <3>3, OneIsSet
    <3> QED  BY <1>7, <2>0, <2>2, <3>2, <3>4
  <2> QED  BY <1>10, <2>1, <2>2 DEF MarkResolved
<1>11. ASSUME NEW g \in DOMAIN gaps, DismissKnowledgeGap(g)
       PROVE  BaseInv' /\ \A j \in DOMAIN items : items'[j].vector >= items[j].vector
  <2> DEFINE r == [gaps[g] EXCEPT !.status = "dismissed"]
  <2>1. r \in Gap /\ r.resolution = gaps[g].resolution
    <3>1. gaps[g] \in Gap
      BY <1>0
    <3> QED  BY <3>1 DEF Gap
  <2>2. gaps' = [gaps EXCEPT ![g] = r] /\ UNCHANGED <<items, resolving>>
    BY <1>11 DEF DismissKnowledgeGap
  <2> HIDE DEF r
  <2>3. /\ gaps' \in Seq(Gap) /\ DOMAIN gaps' = DOMAIN gaps /\ gaps'[g] = r
        /\ \A h \in DOMAIN gaps : h # g => gaps'[h] = gaps[h]
    BY <1>0, <2>1, <2>2, OneIsSet
  <2> QED  BY <1>7, <2>1, <2>2, <2>3
<1> QED
  BY <1>1, <1>3, <1>4, <1>5, <1>6, <1>8, <1>9, <1>10, <1>11 DEF BaseNext, baseVars, CircuitTurns

LEMMA BaseIsTyped == BaseInv => BaseTypeOK
<1> SUFFICES ASSUME BaseInv PROVE BaseTypeOK
  OBVIOUS
<1>1. ASSUME NEW i \in DOMAIN items
      PROVE  /\ items[i].topic \in Topic /\ items[i].version \in 1..VersionLimit
             /\ items[i].vector \in 0..items[i].version
  <2>1. items[i] \in Item /\ items[i].vector <= items[i].version
    BY DEF BaseInv
  <2> QED  BY <2>1, KnowledgeBaseAssumption DEF Item
<1>2. ASSUME NEW g \in DOMAIN gaps
      PROVE  /\ gaps[g].status \in {"pending", "resolved", "dismissed"}
             /\ gaps[g].resolution \in 0..Len(items)
  <2>1. gaps[g] \in Gap /\ (gaps[g].resolution # Unresolved => Live(gaps[g].resolution))
    BY DEF BaseInv
  <2>2. items \in Seq(Item) /\ Len(items) \in Nat
    BY DEF BaseInv
  <2> QED  BY <2>1, <2>2 DEF Gap, Live, Unresolved
<1> QED  BY <1>1, <1>2 DEF BaseTypeOK

\* An answer that a question points at is never a deleted item, whatever is
\* deleted, dismissed or fails between the request's two statements; and the
\* vector of an item is never that of an earlier text.
THEOREM AnswersExist == BaseSpec => []ResolutionExists /\ VectorsMoveForward
<1>1. BaseInv => ResolutionExists
  BY DEF BaseInv, ResolutionExists
<1>2. BaseInv /\ [BaseNext]_baseVars => BaseInv'
  BY BaseStep
<1>3. BaseInv /\ [BaseNext]_baseVars => [\A i \in DOMAIN items : items'[i].vector >= items[i].vector]_baseVars
  BY BaseStep
<1> QED  BY BaseStart, <1>1, <1>2, <1>3, PTL DEF BaseSpec, VectorsMoveForward

-----------------------------------------------------------------------------
(* The sections of a document *)

ChunksInv ==
    /\ length \in Nat
    /\ text \in [0..(length - 1) -> BOOLEAN]
    /\ ChunksTypeOK
    /\ NothingLost
    /\ SectionsFit

LEMMA ChunksStart == ChunksInit => ChunksInv
  BY KnowledgeChunksAssumption
  DEF ChunksInit, ChunksInv, ChunksTypeOK, NothingLost, SectionsFit

\* A section that is cut ends after its start, within its length.
LEMMA BoundaryIsAhead ==
  ASSUME ChunksInv, NEW b \in 1..length, Boundary(b, start + MaxChars)
  PROVE  b > start /\ b <= start + MaxChars
  BY KnowledgeChunksAssumption DEF ChunksInv, ChunksTypeOK, Boundary, Boundaries

\* The next section begins after this one does, and not after it ends.
LEMMA NextStartIsAhead ==
  ASSUME ChunksInv, NEW b \in 1..length, b > start
  PROVE  NextStart(b) \in Int /\ NextStart(b) > start /\ NextStart(b) <= b
  BY KnowledgeChunksAssumption DEF ChunksInv, ChunksTypeOK, NextStart

LEMMA WithinSection ==
  ASSUME NEW from \in Int, NEW next \in Int, NEW to \in Int, next <= to,
         NEW p \in 0..(next - 1), p >= from
  PROVE  p \in from..(to - 1)
  OBVIOUS

\* Every turn of the loop keeps the invariant and advances.
LEMMA ChunksStep ==
  ASSUME ChunksInv, ChunksNext
  PROVE  ChunksInv' /\ start' > start
  <1>1. CASE LastSection
    <2>1. start' > start /\ start' = length /\ length' = length /\ text' = text
          /\ chunks' = chunks \cup {Section(start, length)}
      BY <1>1 DEF LastSection
    <2>2. length - start <= MaxChars
      BY <1>1, KnowledgeChunksAssumption DEF LastSection, ChunksInv, ChunksTypeOK
    <2>3. ChunksTypeOK'
      BY <2>1 DEF ChunksInv, ChunksTypeOK, Section
    <2>4. NothingLost'
      <3>1. SUFFICES ASSUME NEW p \in 0..(length - 1)
                     PROVE  text[p] \/ \E c \in chunks' : c.from <= p /\ p < c.to
        BY <2>1 DEF NothingLost
      <3>2. start \in 0..length /\ length \in Nat
        BY DEF ChunksInv, ChunksTypeOK
      <3>3. CASE p < start
        <4>1. p \in 0..(start - 1)
          BY <3>1, <3>2, <3>3
        <4>2. QED
          BY <2>1, <4>1 DEF ChunksInv, NothingLost
      <3>4. CASE p >= start
        <4>1. Section(start, length) \in chunks'
          BY <2>1
        <4>2. Section(start, length).from <= p /\ p < Section(start, length).to
          BY <3>1, <3>2, <3>4 DEF Section
        <4>3. QED
          BY <4>1, <4>2
      <3>5. QED
        BY <3>1, <3>2, <3>3, <3>4
    <2>5. SectionsFit'
      BY <2>1, <2>2 DEF ChunksInv, SectionsFit, Section
    <2>6. QED
      BY <2>1, <2>3, <2>4, <2>5 DEF ChunksInv
  <1>2. CASE NextSection
    <2>1. PICK b \in 1..length :
            /\ Boundary(b, start + MaxChars)
            /\ chunks' = IF \A p \in start..(b - 1) : text[p] THEN chunks
                         ELSE chunks \cup {Section(start, b)}
            /\ start' = NextStart(b)
      BY <1>2 DEF NextSection
    <2>2. length' = length /\ text' = text
      BY <1>2 DEF NextSection
    <2>3. b > start /\ b <= start + MaxChars
      BY <2>1, BoundaryIsAhead
    <2>4. start' \in Int /\ start' > start /\ start' <= b
      BY <2>1, <2>3, NextStartIsAhead
    <2>5. ChunksTypeOK'
      BY <2>1, <2>2, <2>4 DEF ChunksInv, ChunksTypeOK, Section
    <2>6. NothingLost'
      <3> DEFINE next == start'
      <3>0. next = start' /\ next \in Int /\ next <= b
        BY <2>4
      <3> HIDE DEF next
      <3>1. SUFFICES ASSUME NEW p, p \in 0..(next - 1)
                     PROVE  text[p] \/ \E c \in chunks' : c.from <= p /\ p < c.to
        BY <2>2, <3>0 DEF NothingLost
      <3>2. start \in 0..length /\ length \in Nat /\ b \in 1..length
        BY <2>1 DEF ChunksInv, ChunksTypeOK
      <3>3. CASE p < start
        <4>1. p \in 0..(start - 1)
          BY <3>1, <3>2, <3>3
        <4>2. text[p] \/ \E c \in chunks : c.from <= p /\ p < c.to
          BY <4>1 DEF ChunksInv, NothingLost
        <4>3. chunks \subseteq chunks'
          BY <2>1
        <4>4. QED
          BY <4>2, <4>3
      <3>4. CASE p >= start
        <4>0. start \in Int /\ b \in Int
          BY <3>2
        <4>1. p \in start..(b - 1)
          BY <3>0, <3>1, <3>4, <4>0, WithinSection
        <4>2. CASE \A q \in start..(b - 1) : text[q]
          BY <4>1, <4>2
        <4>3. CASE ~ \A q \in start..(b - 1) : text[q]
          <5>1. Section(start, b) \in chunks'
            BY <2>1, <4>3
          <5>2. Section(start, b).from <= p /\ p < Section(start, b).to
            BY <3>2, <4>1 DEF Section
          <5>3. QED
            BY <5>1, <5>2
        <4>4. QED
          BY <4>2, <4>3
      <3>5. QED
        BY <3>1, <3>2, <3>3, <3>4
    <2>7. SectionsFit'
      BY <2>1, <2>3, KnowledgeChunksAssumption DEF ChunksInv, ChunksTypeOK, SectionsFit, Section
    <2>8. QED
      BY <2>2, <2>4, <2>5, <2>6, <2>7 DEF ChunksInv
  <1>3. QED
    BY <1>1, <1>2 DEF ChunksNext

LEMMA ChunksStutter ==
  ASSUME ChunksInv, UNCHANGED chunkVars
  PROVE  ChunksInv'
  BY DEF ChunksInv, ChunksTypeOK, NothingLost, SectionsFit, chunkVars

\* The sections of a document cover it, none is longer than the model is given,
\* and the loop of chunkKnowledgeText ends.
THEOREM SectionsCoverDocument == ChunksSpec => SectionsCover
  <1>1. ChunksInv /\ [ChunksNext]_chunkVars => ChunksInv'
    BY ChunksStep, ChunksStutter
  <1>2. ChunksInv /\ [ChunksNext]_chunkVars => [start' > start]_chunkVars
    BY ChunksStep
  <1>3. ChunksInv => NothingLost /\ SectionsFit
    BY DEF ChunksInv
  <1>4. QED
    BY ChunksStart, <1>1, <1>2, <1>3, PTL DEF ChunksSpec, SectionsCover, Advances

-----------------------------------------------------------------------------
(* The settings of the assistant *)

\* Times are stored as they are requested, and the lowest confidence that is
\* good enough is one that Unsure can tell apart.
RepliesInv ==
    /\ settings = [enabled |-> settings.enabled, mode |-> settings.mode,
                   start |-> settings.start, end |-> settings.end, days |-> settings.days,
                   threshold |-> settings.threshold, row |-> settings.row]
    /\ settings.start \in Hours /\ settings.end \in Hours
    /\ settings.threshold \in 1..10

LEMMA RepliesStart == RepliesInit => RepliesInv
  BY AssistantRepliesAssumption DEF RepliesInit, RepliesInv, DefaultSettings, Hours

LEMMA SwitchedSettings ==
  ASSUME RepliesInv, NEW enabled \in BOOLEAN, SetEnabled(enabled)
  PROVE  RepliesInv'
  <1>1. CASE settings.row = Unsaved
    <2>1. settings' = [settings EXCEPT !.enabled = enabled, !.row = "saved",
                                       !.mode = IF enabled THEN "always_on" ELSE "after_hours"]
      BY <1>1 DEF SetEnabled
    <2>2. settings' = [enabled |-> enabled, mode |-> IF enabled THEN "always_on" ELSE "after_hours",
                       start |-> settings.start, end |-> settings.end, days |-> settings.days,
                       threshold |-> settings.threshold, row |-> "saved"]
      BY <2>1 DEF RepliesInv
    <2>3. QED
      BY <2>2 DEF RepliesInv
  <1>2. CASE settings.row # Unsaved
    BY <1>2 DEF SetEnabled, RepliesInv
  <1>3. QED
    BY <1>1, <1>2

LEMMA RepliesStep == RepliesInv /\ [RepliesNext]_replyVars => RepliesInv'
  <1> SUFFICES ASSUME RepliesInv, [RepliesNext]_replyVars
               PROVE  RepliesInv'
    OBVIOUS
  <1>1. ASSUME NEW request \in Requests, SaveConfig(request)
        PROVE  RepliesInv'
    <2>1. request.start \in Hours /\ request.end \in Hours /\ request.threshold \in {0, 7}
      BY DEF Requests
    <2>2. settings' = Normalised(request)
      BY <1>1 DEF SaveConfig
    <2>3. Normalised(request).threshold \in 1..10
      BY <2>1 DEF Normalised
    <2>4. QED
      BY <2>1, <2>2, <2>3 DEF Normalised, RepliesInv
  <1>2. CASE UNCHANGED settings
    BY <1>2 DEF RepliesInv
  <1>3. QED
    BY <1>1, <1>2, SwitchedSettings DEF RepliesNext, replyVars, Ask, HourPasses

LEMMA SmallRemainder ==
  ASSUME NEW n \in Nat \ {0}, NEW x \in Nat, x < n
  PROVE  x % n = x
  OBVIOUS

\* A shift within a day is an interval of hours; one across midnight is two.
LEMMA SilentHours ==
  ASSUME NEW open \in Hours, NEW close \in Hours
  PROVE  Cardinality({h \in Hours : ~OutsideHours(open, close, h)}) =
            (close - open + HoursPerDay) % HoursPerDay
  <1> DEFINE silent == {h \in Hours : ~OutsideHours(open, close, h)}
  <1>1. HoursPerDay \in Nat \ {0} /\ open \in 0..(HoursPerDay - 1) /\ close \in 0..(HoursPerDay - 1)
    BY AssistantRepliesAssumption DEF Hours
  <1>2. CASE open <= close
    <2>1. silent = open..(close - 1)
      BY <1>1, <1>2 DEF OutsideHours, Hours
    <2>2. Cardinality(open..(close - 1)) = IF open > close - 1 THEN 0 ELSE (close - 1) - open + 1
      BY <1>1, FS_Interval
    <2>3. (close - open + HoursPerDay) % HoursPerDay = close - open
      BY <1>1, <1>2
    <2>4. Cardinality(open..(close - 1)) = close - open
      BY <1>1, <1>2, <2>2
    <2>5. Cardinality(silent) = Cardinality(open..(close - 1))
      BY <2>1
    <2>6. QED
      BY <2>3, <2>4, <2>5
  <1>3. CASE close < open
    <2>1. silent = (0..(close - 1)) \cup (open..(HoursPerDay - 1))
      BY <1>1, <1>3 DEF OutsideHours, Hours
    <2>2. IsFiniteSet(0..(close - 1)) /\ Cardinality(0..(close - 1)) = close
      <3>1. /\ IsFiniteSet(0..(close - 1))
            /\ Cardinality(0..(close - 1)) = IF 0 > close - 1 THEN 0 ELSE (close - 1) - 0 + 1
        BY <1>1, FS_Interval
      <3>2. QED
        BY <1>1, <3>1
    <2>3. /\ IsFiniteSet(open..(HoursPerDay - 1))
          /\ Cardinality(open..(HoursPerDay - 1)) = HoursPerDay - open
      <3>1. /\ IsFiniteSet(open..(HoursPerDay - 1))
            /\ Cardinality(open..(HoursPerDay - 1)) =
                  IF open > HoursPerDay - 1 THEN 0 ELSE (HoursPerDay - 1) - open + 1
        BY <1>1, FS_Interval
      <3>2. QED
        BY <1>1, <3>1
    <2>4. (0..(close - 1)) \cap (open..(HoursPerDay - 1)) = {}
      BY <1>1, <1>3
    <2>5. Cardinality(silent) = close + (HoursPerDay - open)
      <3>1. Cardinality((0..(close - 1)) \cap (open..(HoursPerDay - 1))) = 0
        BY <2>4, FS_EmptySet
      <3>2. QED
        <4>1. Cardinality((0..(close - 1)) \cup (open..(HoursPerDay - 1))) =
                Cardinality(0..(close - 1)) + Cardinality(open..(HoursPerDay - 1))
                - Cardinality((0..(close - 1)) \cap (open..(HoursPerDay - 1)))
          BY <2>2, <2>3, FS_Union
        <4>2. close \in Int /\ HoursPerDay - open \in Int
          BY <1>1
        <4>3. Cardinality((0..(close - 1)) \cup (open..(HoursPerDay - 1))) = close + (HoursPerDay - open)
          BY <2>2, <2>3, <3>1, <4>1, <4>2
        <4>4. QED
          BY <2>1, <4>3
    <2>6. (close - open + HoursPerDay) % HoursPerDay = close - open + HoursPerDay
      BY <1>1, <1>3, SmallRemainder
    <2>7. QED
      BY <1>1, <2>5, <2>6
  <1>4. QED
    BY <1>1, <1>2, <1>3

\* Whatever settings are saved and whichever of the two providers answers, the
\* assistant is silent for as long as the shift, and no text of a model whose
\* confidence is under the workspace's bar is sent, for any division of the day
\* and any confidences.
THEOREM AssistantKeepsSettings == RepliesSpec => RepliesAsConfigured
  <1>1. RepliesInv => ShiftLength
    BY SilentHours DEF RepliesInv, ShiftLength
  <1>2. RepliesInv /\ [RepliesNext]_replyVars =>
          [(answer' # answer /\ answer'.text = "reply")
              => answer'.confidence >= settings.threshold]_replyVars
    <2> SUFFICES ASSUME RepliesInv, RepliesNext, answer' # answer, answer'.text = "reply"
                 PROVE  answer'.confidence >= settings.threshold
      OBVIOUS
    <2>1. Ask /\ answer' # Silence
      <3>1. \A request : SaveConfig(request) => UNCHANGED answer
        BY DEF SaveConfig
      <3>2. \A enabled : SetEnabled(enabled) => UNCHANGED answer
        BY ZenonT(20) DEF SetEnabled
      <3>3. HourPasses => UNCHANGED answer
        BY DEF HourPasses
      <3>4. answer' # Silence
        BY DEF Silence
      <3>5. QED
        BY <3>1, <3>2, <3>3, <3>4 DEF RepliesNext
    <2>2. PICK output \in Outputs : Processed(output) /\ answer' = Result(output)
      BY <2>1 DEF Ask, GenerateReply
    <2>3. ~Unsure(output) /\ answer'.confidence = ConfidenceOf(output)
      BY <2>2 DEF Result
    <2>4. ConfidenceOf(output) \in Int
      <3>1. CASE output.form = "json"
        <4>1. output.confidence \in Confidence
          BY <2>2, <3>1 DEF Outputs
        <4>2. output.confidence \in Int
          <5>1. \A c \in Confidence : c \in Int
            BY AssistantRepliesAssumption
          <5>2. QED
            BY <4>1, <5>1
        <4>3. QED
          BY <3>1, <4>2 DEF ConfidenceOf
      <3>2. QED
        BY <3>1 DEF ConfidenceOf
    <2>5. QED
      BY <2>3, <2>4 DEF Unsure, RepliesInv
  <1>3. QED
    BY RepliesStart, RepliesStep, <1>1, <1>2, PTL DEF RepliesSpec, RepliesAsConfigured, OnlyConfidentIsSent

-----------------------------------------------------------------------------
(* Billing: the limits *)

\* A row whose limits are those of its plan, and what an EXCEPT on one needs.
Consistent(r) ==
    /\ r = [provider |-> r.provider, customer |-> r.customer, subscription |-> r.subscription,
            plan |-> r.plan, status |-> r.status, limits |-> r.limits]
    /\ r.limits = LimitsOf(r.plan)

\* LimitsMatchPlan is not inductive: a handler writes back the row it has read,
\* so what every handler holds must be consistent too.
BillingInv ==
    /\ Consistent(row)
    /\ handling = [h \in Handler |-> handling[h]]
    /\ \A h \in Handler : handling[h].pc = "write" => Consistent(handling[h].read)

LEMMA BillingStart == BillingInit => BillingInv
  BY DEF BillingInit, BillingInv, Consistent, FreePlan, Waiting

LEMMA DowngradedIsConsistent ==
  ASSUME NEW r
  PROVE  Consistent(Downgraded(r))
  BY DEF Consistent, Downgraded

LEMMA StatusIsNoLimit ==
  ASSUME NEW r, Consistent(r), NEW s
  PROVE  Consistent([r EXCEPT !.status = s])
  BY DEF Consistent, LimitsOf

LEMMA PurchaseIsConsistent ==
  ASSUME NEW n
  PROVE  Consistent(Subscription(n))
  BY DEF Consistent, Subscription

\* A handler that is done, or has not read, holds nothing.
LEMMA HoldsNothing ==
  ASSUME BillingInv, NEW g \in Handler, NEW state, state.pc # "write",
         handling' = [handling EXCEPT ![g] = state], row' = row \/ Consistent(row')
  PROVE  BillingInv'
  BY DEF BillingInv, Consistent

LEMMA BillingStep ==
  ASSUME BillingInv, [BillingNext]_billingVars
  PROVE  BillingInv'
  <1>1. CASE UNCHANGED <<row, handling>>
    BY <1>1 DEF BillingInv, Consistent
  <1>2. ASSUME NEW g \in Handler, NEW e, Receive(g, e)
        PROVE  BillingInv'
    <2>1. [pc |-> "look up", event |-> e].pc # "write"
      OBVIOUS
    <2>2. QED
      BY <1>2, <2>1, HoldsNothing DEF Receive
  <1>3. ASSUME NEW g \in Handler, Activate(g)
        PROVE  BillingInv'
    <2>1. Waiting.pc # "write"
      BY DEF Waiting
    <2>2. handling' = [handling EXCEPT ![g] = Waiting] /\ (row' = row \/ Consistent(row'))
      BY <1>3, PurchaseIsConsistent DEF Activate, Answer
    <2>3. QED
      BY <2>1, <2>2, HoldsNothing
  <1>4. ASSUME NEW g \in Handler, FindSubscription(g)
        PROVE  BillingInv'
    <2>1. CASE handling' = [handling EXCEPT ![g] = [pc |-> "write", event |-> @.event, read |-> row]]
      <3>1. row' = row
        BY <1>4 DEF FindSubscription
      <3>2. [pc |-> "write", event |-> handling[g].event, read |-> row].read = row
        OBVIOUS
      <3>3. \A h \in Handler : h # g => handling'[h] = handling[h]
        BY <2>1 DEF BillingInv
      <3>4. handling'[g].read = row
        BY <2>1, <3>2 DEF BillingInv
      <3>5. handling' = [h \in Handler |-> handling'[h]]
        BY <2>1 DEF BillingInv
      <3>6. QED
        BY <3>1, <3>3, <3>4, <3>5 DEF BillingInv, Consistent
    <2>2. CASE handling' = [handling EXCEPT ![g] = Waiting]
      <3>1. Waiting.pc # "write" /\ row' = row
        BY <1>4 DEF Waiting, FindSubscription
      <3>2. QED
        BY <2>2, <3>1, HoldsNothing
    <2>3. QED
      BY <1>4, <2>1, <2>2 DEF FindSubscription, Answer
  <1>5. ASSUME NEW g \in Handler, WriteSubscription(g)
        PROVE  BillingInv'
    <2>1. Waiting.pc # "write"
      BY DEF Waiting
    <2>2. Consistent(handling[g].read)
      BY <1>5 DEF WriteSubscription, BillingInv
    <2>3. row' = row \/ Consistent(row')
      BY <1>5, <2>2, DowngradedIsConsistent, StatusIsNoLimit DEF WriteSubscription
    <2>4. handling' = [handling EXCEPT ![g] = Waiting]
      BY <1>5 DEF WriteSubscription, Answer
    <2>5. QED
      BY <2>1, <2>3, <2>4, HoldsNothing
  <1>6. ASSUME NEW g \in Handler, HandlePaymentWebhook(g)
        PROVE  BillingInv'
    <2>1. Waiting.pc # "write" /\ row' = row
      BY <1>6 DEF Waiting, HandlePaymentWebhook
    <2>2. handling' = [handling EXCEPT ![g] = Waiting]
      BY <1>6 DEF HandlePaymentWebhook, Answer
    <2>3. QED
      BY <2>1, <2>2, HoldsNothing
  <1>7. QED
    BY <1>1, <1>2, <1>3, <1>4, <1>5, <1>6
    DEF BillingNext, billingVars, Buy, Cancel, ChangeStatus, CreatePaymentLink, Charge

\* A tenant is never held to the limits of a plan it does not have: the quotas of
\* contacts, channels and dispatches read the limits, the screens the plan, and
\* four webhook handlers write both.
THEOREM LimitsFollowPlan == BillingSpec => []LimitsMatchPlan
  <1>1. BillingInv => LimitsMatchPlan
    BY DEF BillingInv, Consistent, LimitsMatchPlan
  <1>2. QED
    BY BillingStart, BillingStep, <1>1, PTL DEF BillingSpec

-----------------------------------------------------------------------------
(* The purchases and their events *)

Providers == {"stripe", "paystack"}
Standings == {"active", "past_due", "canceled"}
Purchase == [provider : Providers, plan : PaidPlan, status : Standings, customer : Nat \cup {"payer"}]
Notices == [type : {"bought", "canceled", "link_paid"}, of : Nat, answered : Nat]
           \cup [type : {"updated"}, of : Nat, answered : Nat, status : {"active", "past_due"}]
Links == [charged : BOOLEAN, status : {"pending", "paid"}, confirmed : Nat]

LEMMA NoticeAnswered ==
  ASSUME notices \in Seq(Notices), NEW e \in DOMAIN notices,
         notices' = [notices EXCEPT ![e].answered = @ + 1]
  PROVE  /\ notices' \in Seq(Notices) /\ DOMAIN notices' = DOMAIN notices
         /\ notices'[e].answered = notices[e].answered + 1
         /\ \A d \in DOMAIN notices : d # e => notices'[d].answered = notices[d].answered
         /\ \A d \in DOMAIN notices : notices'[d].type = notices[d].type /\ notices'[d].of = notices[d].of
         /\ \A d \in DOMAIN notices : notices[d].type = "updated" => notices'[d].status = notices[d].status
  <1> DEFINE r == [notices[e] EXCEPT !.answered = @ + 1]
  <1>0. notices[e] \in Notices
    OBVIOUS
  <1>1. r \in Notices
    <2>1. CASE notices[e].type = "updated"
      <3>1. notices[e] \in [type : {"updated"}, of : Nat, answered : Nat, status : {"active", "past_due"}]
        BY <1>0, <2>1 DEF Notices
      <3>2. r \in [type : {"updated"}, of : Nat, answered : Nat, status : {"active", "past_due"}]
        BY <3>1
      <3> QED
        BY <3>2 DEF Notices
    <2>2. CASE notices[e].type # "updated"
      <3>1. notices[e] \in [type : {"bought", "canceled", "link_paid"}, of : Nat, answered : Nat]
        BY <1>0, <2>2 DEF Notices
      <3>2. r \in [type : {"bought", "canceled", "link_paid"}, of : Nat, answered : Nat]
        BY <3>1
      <3> QED
        BY <3>2 DEF Notices
    <2> QED
      BY <2>1, <2>2
  <1>2. /\ r.answered = notices[e].answered + 1 /\ r.type = notices[e].type /\ r.of = notices[e].of
        /\ notices[e].type = "updated" => r.status = notices[e].status
    BY <1>0 DEF Notices
  <1>3. notices' = [notices EXCEPT ![e] = r]
    OBVIOUS
  <1> HIDE DEF r
  <1>4. /\ notices' \in Seq(Notices) /\ DOMAIN notices' = DOMAIN notices /\ notices'[e] = r
        /\ \A d \in DOMAIN notices : d # e => notices'[d] = notices[d]
    BY <1>1, <1>3, OneIsSet
  <1> QED
    BY <1>2, <1>4

LEMMA LinkMoves ==
  ASSUME links \in Seq(Links), NEW n \in DOMAIN links,
         \/ links' = [links EXCEPT ![n] = Confirmed(Marked(@))]
         \/ links' = [links EXCEPT ![n] = Marked(@)]
  PROVE  /\ links' \in Seq(Links) /\ DOMAIN links' = DOMAIN links
         /\ links'[n].status = "paid"
         /\ \A m \in DOMAIN links : m # n => links'[m].status = links[m].status
         /\ \A m \in DOMAIN links : links'[m].charged = links[m].charged
  <1> DEFINE r == Marked(links[n])  s == Confirmed(Marked(links[n]))
  <1>0. links[n] \in Links
    OBVIOUS
  <1>1. r \in Links /\ r.status = "paid" /\ r.charged = links[n].charged
    BY <1>0 DEF Marked, Links
  <1>2. s \in Links /\ s.status = "paid" /\ s.charged = links[n].charged
    <2> HIDE DEF r
    <2>1. Confirmed(r) \in Links
      BY <1>1 DEF Links, Confirmed
    <2>2. Confirmed(r).status = r.status /\ Confirmed(r).charged = r.charged
      BY <1>1 DEF Links, Confirmed
    <2> QED
      BY <1>1, <2>1, <2>2 DEF r
  <1>3. links' = [links EXCEPT ![n] = r] \/ links' = [links EXCEPT ![n] = s]
    OBVIOUS
  <1> HIDE DEF r, s
  <1>4. ASSUME NEW q \in Links, links' = [links EXCEPT ![n] = q]
        PROVE  /\ links' \in Seq(Links) /\ DOMAIN links' = DOMAIN links /\ links'[n] = q
               /\ \A m \in DOMAIN links : m # n => links'[m] = links[m]
    BY <1>4, OneIsSet
  <1> QED
    BY <1>1, <1>2, <1>3, <1>4

LEMMA LinkIsCharged ==
  ASSUME links \in Seq(Links), NEW n \in DOMAIN links,
         NEW b \in BOOLEAN, links' = [links EXCEPT ![n].charged = b]
  PROVE  /\ links' \in Seq(Links) /\ DOMAIN links' = DOMAIN links
         /\ links'[n].charged = b
         /\ \A m \in DOMAIN links : m # n => links'[m] = links[m]
         /\ \A m \in DOMAIN links : links'[m].status = links[m].status
  <1> DEFINE r == [links[n] EXCEPT !.charged = b]
  <1>0. links[n] \in Links
    OBVIOUS
  <1>1. r \in Links
    BY <1>0 DEF Links
  <1>2. r.charged = b /\ r.status = links[n].status
    BY <1>0 DEF Links
  <1>3. links' = [links EXCEPT ![n] = r]
    OBVIOUS
  <1> HIDE DEF r
  <1>4. /\ links' \in Seq(Links) /\ DOMAIN links' = DOMAIN links /\ links'[n] = r
        /\ \A m \in DOMAIN links : m # n => links'[m] = links[m]
    BY <1>1, <1>3, OneIsSet
  <1> QED
    BY <1>2, <1>4

LEMMA PurchasesMove ==
  ASSUME purchases \in Seq(Purchase), NEW n \in DOMAIN purchases,
         purchases' = [m \in DOMAIN purchases |->
             IF m = n \/ (purchases[n].provider = "paystack" /\ purchases[m].provider = "paystack")
                        THEN Canceled(purchases[m]) ELSE purchases[m]]
  PROVE  /\ purchases' \in Seq(Purchase) /\ DOMAIN purchases' = DOMAIN purchases
  <1>0. \A m \in DOMAIN purchases : purchases'[m] \in Purchase
    <2> SUFFICES ASSUME NEW m \in DOMAIN purchases PROVE purchases'[m] \in Purchase
      OBVIOUS
    <2>1. purchases[m] \in Purchase
      OBVIOUS
    <2>2. Canceled(purchases[m]) \in Purchase
      BY <2>1 DEF Canceled, Purchase, Standings
    <2> QED
      BY <2>1, <2>2
  <1>1. DOMAIN purchases = 1..Len(purchases) /\ Len(purchases) \in Nat
    OBVIOUS
  <1>2. purchases' \in [1..Len(purchases) -> Purchase]
    BY <1>0, <1>1
  <1> QED
    BY <1>1, <1>2

SubscriptionRow == [provider : Providers \cup {"free"}, customer : Nat \cup {"payer"}, subscription : Nat,
         plan : PaidPlan \cup {Starter}, status : Standings, limits : PaidPlan \cup {Starter}]
Handles == {Waiting} \cup [pc : {"look up"}, event : Nat]
                     \cup [pc : {"write"}, event : Nat, read : SubscriptionRow]

BillingShape ==
    /\ purchases \in Seq(Purchase) /\ notices \in Seq(Notices) /\ links \in Seq(Links)
    /\ row \in SubscriptionRow /\ handling \in [Handler -> Handles]
    /\ \A h \in Handler : handling[h] # Waiting => handling[h].event \in DOMAIN notices
    /\ \A h \in Handler : handling[h].pc = "write"
                          => notices[handling[h].event].type \in {"updated", "canceled"}
    /\ \A e \in DOMAIN notices :
          IF notices[e].type = "link_paid" THEN notices[e].of \in DOMAIN links
          ELSE notices[e].of \in DOMAIN purchases

LEMMA ShapeStart == BillingInit => BillingShape
  BY DEF BillingInit, BillingShape, FreePlan, SubscriptionRow, Handles, Providers, Standings, Waiting, LimitsOf

\* A provider sends a notice.
LEMMA NoticeSent ==
  ASSUME BillingShape, NEW r \in Notices, notices' = Append(notices, r)
  PROVE  /\ notices' \in Seq(Notices) /\ DOMAIN notices' = DOMAIN notices \cup {Len(notices) + 1}
         /\ Len(notices) + 1 \notin DOMAIN notices /\ notices'[Len(notices) + 1] = r
         /\ \A e \in DOMAIN notices : notices'[e] = notices[e]
         /\ \A e \in DOMAIN notices : e < Len(notices) + 1
  BY DEF BillingShape

\* A handler is done, or takes another step.
LEMMA HandlerSet ==
  ASSUME BillingShape, NEW h \in Handler, NEW r \in Handles, handling' = [handling EXCEPT ![h] = r]
  PROVE  /\ handling' \in [Handler -> Handles] /\ handling'[h] = r
         /\ \A g \in Handler : g # h => handling'[g] = handling[g]
  BY DEF BillingShape

LEMMA BusyIsNotWaiting == Waiting.pc = "waiting" /\ Waiting \in Handles
  BY DEF Waiting, Handles

\* Answer(h) counts the event as answered and lets the handler go.
LEMMA EventAnswered ==
  ASSUME BillingShape, NEW h \in Handler, handling[h] # Waiting, Answer(h)
  PROVE  LET e == handling[h].event IN
         /\ e \in DOMAIN notices
         /\ notices' \in Seq(Notices) /\ DOMAIN notices' = DOMAIN notices
         /\ notices'[e].answered = notices[e].answered + 1
         /\ \A d \in DOMAIN notices : d # e => notices'[d].answered = notices[d].answered
         /\ \A d \in DOMAIN notices : notices'[d].type = notices[d].type /\ notices'[d].of = notices[d].of
         /\ \A d \in DOMAIN notices : notices[d].type = "updated" => notices'[d].status = notices[d].status
         /\ handling' \in [Handler -> Handles] /\ handling'[h] = Waiting
         /\ \A g \in Handler : g # h => handling'[g] = handling[g]
  <1> DEFINE e == handling[h].event
  <1>1. e \in DOMAIN notices /\ notices \in Seq(Notices)
    BY DEF BillingShape
  <1>2. notices' = [notices EXCEPT ![e].answered = @ + 1] /\ handling' = [handling EXCEPT ![h] = Waiting]
    BY DEF Answer
  <1> HIDE DEF e
  <1>3. /\ notices' \in Seq(Notices) /\ DOMAIN notices' = DOMAIN notices
        /\ notices'[e].answered = notices[e].answered + 1
        /\ \A d \in DOMAIN notices : d # e => notices'[d].answered = notices[d].answered
        /\ \A d \in DOMAIN notices : notices'[d].type = notices[d].type /\ notices'[d].of = notices[d].of
        /\ \A d \in DOMAIN notices : notices[d].type = "updated" => notices'[d].status = notices[d].status
    BY <1>1, <1>2, NoticeAnswered
  <1>4. /\ handling' \in [Handler -> Handles] /\ handling'[h] = Waiting
        /\ \A g \in Handler : g # h => handling'[g] = handling[g]
    BY <1>2, BusyIsNotWaiting, HandlerSet
  <1> QED
    BY <1>1, <1>3, <1>4 DEF e

LEMMA SubscriptionIsRow ==
  ASSUME BillingShape, NEW n \in DOMAIN purchases
  PROVE  /\ Subscription(n) \in SubscriptionRow
         /\ Subscription(n).provider = purchases[n].provider
         /\ Subscription(n).customer = purchases[n].customer
         /\ Subscription(n).subscription = n
         /\ Subscription(n).plan = purchases[n].plan /\ Subscription(n).status = "active"
  <1>1. purchases[n] \in Purchase /\ n \in Nat
    BY DEF BillingShape
  <1> QED
    BY <1>1 DEF Subscription, Purchase, SubscriptionRow, Standings, LimitsOf

LEMMA DowngradedIsRow ==
  ASSUME NEW r \in SubscriptionRow
  PROVE  /\ Downgraded(r) \in SubscriptionRow
         /\ Downgraded(r).provider = r.provider /\ Downgraded(r).customer = r.customer
         /\ Downgraded(r).subscription = r.subscription
         /\ Downgraded(r).plan = Starter /\ Downgraded(r).status = "canceled"
  BY DEF Downgraded, SubscriptionRow, Standings, LimitsOf

LEMMA RestatedIsRow ==
  ASSUME NEW r \in SubscriptionRow, NEW s \in Standings
  PROVE  LET f == [r EXCEPT !.status = s] IN
         /\ f \in SubscriptionRow /\ f.provider = r.provider /\ f.customer = r.customer
         /\ f.subscription = r.subscription /\ f.plan = r.plan /\ f.status = s
  BY DEF SubscriptionRow

PaidInv ==
    /\ BillingShape
    /\ \A e \in DOMAIN notices : notices[e].type = "link_paid" => links[notices[e].of].charged
    /\ PaidMeansCharged

LEMMA PaidStart == BillingInit => PaidInv
  BY ShapeStart DEF BillingInit, PaidInv, PaidMeansCharged

\* A provider's step: one notice more, and the links stay paid as they were.
LEMMA ProviderStep ==
  ASSUME PaidInv, NEW r \in Notices, notices' = Append(notices, r), r.answered = 0,
         purchases' \in Seq(Purchase), DOMAIN purchases \subseteq DOMAIN purchases',
         links' \in Seq(Links), DOMAIN links' = DOMAIN links,
         \A n \in DOMAIN links : links'[n].status = links[n].status /\ (links[n].charged => links'[n].charged),
         IF r.type = "link_paid" THEN r.of \in DOMAIN links /\ links'[r.of].charged
         ELSE r.of \in DOMAIN purchases',
         UNCHANGED <<row, handling>>
  PROVE  PaidInv'
  <1>1. /\ notices' \in Seq(Notices) /\ DOMAIN notices' = DOMAIN notices \cup {Len(notices) + 1}
        /\ notices'[Len(notices) + 1] = r
        /\ \A e \in DOMAIN notices : notices'[e] = notices[e]
    BY NoticeSent DEF PaidInv
  <1>0. BillingShape
    BY DEF PaidInv
  <1>2. BillingShape'
    <2>1. \A e \in DOMAIN notices :
            IF notices[e].type = "link_paid" THEN notices[e].of \in DOMAIN links'
            ELSE notices[e].of \in DOMAIN purchases'
      BY <1>0 DEF BillingShape
    <2>2. \A e \in DOMAIN notices' :
            IF notices'[e].type = "link_paid" THEN notices'[e].of \in DOMAIN links'
            ELSE notices'[e].of \in DOMAIN purchases'
      BY <1>1, <2>1
    <2>3. \A h \in Handler : handling'[h] # Waiting => handling'[h].event \in DOMAIN notices'
      BY <1>0, <1>1 DEF BillingShape
    <2>4. \A h \in Handler : handling'[h].pc = "write"
                             => notices'[handling'[h].event].type \in {"updated", "canceled"}
      BY <1>0, <1>1 DEF BillingShape, Waiting
    <2> QED
      BY <1>0, <1>1, <2>2, <2>3, <2>4 DEF BillingShape
  <1>3. \A e \in DOMAIN notices : notices[e].type = "link_paid" => notices[e].of \in DOMAIN links
    BY <1>0 DEF BillingShape
  <1>4. \A n \in DOMAIN links : links'[n].status = "paid" => links'[n].charged
    BY DEF PaidInv, PaidMeansCharged
  <1>5. \A e \in DOMAIN notices : notices[e].type = "link_paid" =>
           /\ links'[notices[e].of].charged
           /\ notices[e].answered > 0 => links'[notices[e].of].status = "paid"
    BY <1>3 DEF PaidInv, PaidMeansCharged
  <1>6. \A e \in DOMAIN notices' : notices'[e].type = "link_paid" =>
           /\ links'[notices'[e].of].charged
           /\ notices'[e].answered > 0 => links'[notices'[e].of].status = "paid"
    BY <1>1, <1>5
  <1> QED
    BY <1>2, <1>4, <1>6 DEF PaidInv, PaidMeansCharged

\* A handler's step that answers nothing.
LEMMA UnansweredStep ==
  ASSUME PaidInv, NEW h \in Handler, NEW r \in Handles, handling' = [handling EXCEPT ![h] = r],
         r = Waiting \/ r.event \in DOMAIN notices,
         r.pc = "write" => notices[r.event].type \in {"updated", "canceled"},
         UNCHANGED <<purchases, notices, row, links>>
  PROVE  PaidInv'
  <1>1. /\ handling' \in [Handler -> Handles] /\ handling'[h] = r
        /\ \A g \in Handler : g # h => handling'[g] = handling[g]
    BY HandlerSet DEF PaidInv
  <1>2. BillingShape'
    BY <1>1 DEF PaidInv, BillingShape
  <1> QED
    BY <1>2 DEF PaidInv, PaidMeansCharged

\* A handler's step that answers the event.
LEMMA AnsweredStep ==
  ASSUME PaidInv, NEW h \in Handler, handling[h] # Waiting, Answer(h), row' \in SubscriptionRow,
         links' \in Seq(Links), DOMAIN links' = DOMAIN links, UNCHANGED purchases,
         \A n \in DOMAIN links : links'[n].charged = links[n].charged,
         \A n \in DOMAIN links : links'[n].status = links[n].status
                                 \/ (links[n].charged /\ links'[n].status = "paid"),
         notices[handling[h].event].type = "link_paid"
             => links'[notices[handling[h].event].of].status = "paid"
  PROVE  PaidInv'
  <1> DEFINE e == handling[h].event
  <1>1. /\ e \in DOMAIN notices
        /\ notices' \in Seq(Notices) /\ DOMAIN notices' = DOMAIN notices
        /\ \A d \in DOMAIN notices : d # e => notices'[d].answered = notices[d].answered
        /\ \A d \in DOMAIN notices : notices'[d].type = notices[d].type /\ notices'[d].of = notices[d].of
        /\ handling' \in [Handler -> Handles] /\ handling'[h] = Waiting
        /\ \A g \in Handler : g # h => handling'[g] = handling[g]
    BY EventAnswered DEF PaidInv
  <1>2. BillingShape'
    <2>1. BillingShape
      BY DEF PaidInv
    <2>2. \A d \in DOMAIN notices' :
            IF notices'[d].type = "link_paid" THEN notices'[d].of \in DOMAIN links'
            ELSE notices'[d].of \in DOMAIN purchases'
      BY <1>1, <2>1 DEF BillingShape
    <2>3. \A g \in Handler : handling'[g] # Waiting => handling'[g].event \in DOMAIN notices'
      BY <1>1, <2>1 DEF BillingShape
    <2>4. ASSUME NEW g \in Handler, handling'[g].pc = "write"
          PROVE  notices'[handling'[g].event].type \in {"updated", "canceled"}
      <3>1. handling'[g] # Waiting
        BY <2>4, BusyIsNotWaiting
      <3>2. handling'[g] = handling[g] /\ handling[g] # Waiting
        BY <1>1, <3>1
      <3>3. /\ handling[g].event \in DOMAIN notices
            /\ notices[handling[g].event].type \in {"updated", "canceled"}
        BY <2>1, <2>4, <3>2 DEF BillingShape
      <3>4. notices'[handling[g].event].type = notices[handling[g].event].type
        BY <1>1, <3>3
      <3>5. QED
        BY <3>2, <3>3, <3>4
    <2>5. purchases' \in Seq(Purchase) /\ links' \in Seq(Links) /\ row' \in SubscriptionRow
      BY <2>1 DEF BillingShape
    <2> QED
      BY <1>1, <2>2, <2>3, <2>4, <2>5 DEF BillingShape
  <1>3. \A d \in DOMAIN notices : notices[d].type = "link_paid" => notices[d].of \in DOMAIN links
    BY DEF PaidInv, BillingShape
  <1> HIDE DEF e
  <1>4. \A n \in DOMAIN links : links'[n].status = "paid" => links'[n].charged
    BY DEF PaidInv, PaidMeansCharged
  <1>5. notices[e].type = "link_paid" => links'[notices[e].of].status = "paid"
    BY DEF e
  <1>6. \A d \in DOMAIN notices : notices[d].type = "link_paid" =>
           /\ links'[notices[d].of].charged
           /\ notices'[d].answered > 0 => links'[notices[d].of].status = "paid"
    <2> SUFFICES ASSUME NEW d \in DOMAIN notices, notices[d].type = "link_paid"
                 PROVE  /\ links'[notices[d].of].charged
                        /\ notices'[d].answered > 0 => links'[notices[d].of].status = "paid"
      OBVIOUS
    <2>1. notices[d].of \in DOMAIN links /\ links[notices[d].of].charged
      BY <1>3 DEF PaidInv
    <2>2. links[notices[d].of].status = "paid" => links'[notices[d].of].status = "paid"
      BY <2>1
    <2>3. notices[d].answered > 0 => links[notices[d].of].status = "paid"
      BY DEF PaidInv, PaidMeansCharged
    <2>4. d # e => notices'[d].answered = notices[d].answered
      BY <1>1
    <2> QED
      BY <1>5, <2>1, <2>2, <2>3, <2>4
  <1> QED
    BY <1>1, <1>2, <1>4, <1>6 DEF PaidInv, PaidMeansCharged

LEMMA PurchaseMade ==
  ASSUME BillingShape, NEW p \in Providers, NEW plan \in PaidPlan, Buy(p, plan)
  PROVE  LET n == Len(purchases) + 1
             r == [type |-> "bought", of |-> n, answered |-> 0] IN
         /\ notices' = Append(notices, r) /\ r \in Notices
         /\ purchases' \in Seq(Purchase) /\ DOMAIN purchases' = DOMAIN purchases \cup {n}
         /\ n \in Nat /\ \A m \in DOMAIN purchases : m \in Nat /\ m < n /\ purchases'[m] = purchases[m]
         /\ purchases'[n].provider = p /\ purchases'[n].plan = plan
         /\ purchases'[n].customer = Customer(p, n) /\ purchases'[n].status = "active"
  <1> DEFINE n == Len(purchases) + 1
             new == [provider |-> p, plan |-> plan, status |-> "active", customer |-> Customer(p, n)]
  <1>0. purchases \in Seq(Purchase) /\ n \in Nat
    BY DEF BillingShape
  <1>1. new \in Purchase
    BY <1>0 DEF Purchase, Standings, Customer
  <1>2. /\ new.provider = p /\ new.plan = plan /\ new.customer = Customer(p, n) /\ new.status = "active"
    OBVIOUS
  <1>3. purchases' = Append(purchases, new)
        /\ notices' = Append(notices, [type |-> "bought", of |-> n, answered |-> 0])
    BY DEF Buy, Notice
  <1> HIDE DEF new
  <1>4. /\ purchases' \in Seq(Purchase) /\ DOMAIN purchases' = DOMAIN purchases \cup {n}
        /\ \A m \in DOMAIN purchases : m \in Nat /\ m < n /\ purchases'[m] = purchases[m]
        /\ purchases'[n] = new
    BY <1>0, <1>1, <1>3
  <1>5. [type |-> "bought", of |-> n, answered |-> 0] \in Notices
    BY <1>0 DEF Notices
  <1> QED
    BY <1>0, <1>2, <1>3, <1>4, <1>5

LEMMA StatusChanged ==
  ASSUME BillingShape, NEW n \in DOMAIN purchases, NEW s \in {"active", "past_due"},
         ChangeStatus(n, s)
  PROVE  LET r == [type |-> "updated", of |-> n, answered |-> 0, status |-> s] IN
         /\ notices' = Append(notices, r) /\ r \in Notices
         /\ purchases' \in Seq(Purchase) /\ DOMAIN purchases' = DOMAIN purchases
         /\ \A m \in DOMAIN purchases : /\ purchases'[m].provider = purchases[m].provider
                                        /\ purchases'[m].plan = purchases[m].plan
                                        /\ purchases'[m].customer = purchases[m].customer
         /\ \A m \in DOMAIN purchases : m # n => purchases'[m].status = purchases[m].status
         /\ purchases'[n].status = s /\ purchases[n].status # "canceled"
         /\ purchases[n].provider = "stripe"
  <1> DEFINE new == [purchases[n] EXCEPT !.status = s]
  <1>0. purchases \in Seq(Purchase) /\ purchases[n] \in Purchase /\ n \in Nat
    BY DEF BillingShape
  <1>1. new \in Purchase
    BY <1>0 DEF Purchase, Standings
  <1>2. /\ new.provider = purchases[n].provider /\ new.plan = purchases[n].plan
        /\ new.customer = purchases[n].customer /\ new.status = s
    BY <1>0 DEF Purchase
  <1>3. /\ purchases' = [purchases EXCEPT ![n] = new]
        /\ notices' = Append(notices, [type |-> "updated", of |-> n, answered |-> 0, status |-> s])
        /\ purchases[n].status # "canceled" /\ purchases[n].provider = "stripe"
    BY DEF ChangeStatus
  <1> HIDE DEF new
  <1>4. /\ purchases' \in Seq(Purchase) /\ DOMAIN purchases' = DOMAIN purchases
        /\ purchases'[n] = new
        /\ \A m \in DOMAIN purchases : m # n => purchases'[m] = purchases[m]
    BY <1>0, <1>1, <1>3, OneIsSet
  <1>5. [type |-> "updated", of |-> n, answered |-> 0, status |-> s] \in Notices
    BY <1>0 DEF Notices
  <1> QED
    BY <1>2, <1>3, <1>4, <1>5

LEMMA PurchaseCanceled ==
  ASSUME BillingShape, NEW n \in DOMAIN purchases, Cancel(n)
  PROVE  LET r == [type |-> "canceled", of |-> n, answered |-> 0] IN
         /\ notices' = Append(notices, r) /\ r \in Notices
         /\ purchases' \in Seq(Purchase) /\ DOMAIN purchases' = DOMAIN purchases
         /\ \A m \in DOMAIN purchases : /\ purchases'[m].provider = purchases[m].provider
                                        /\ purchases'[m].plan = purchases[m].plan
                                        /\ purchases'[m].customer = purchases[m].customer
         /\ \A m \in DOMAIN purchases :
               IF m = n \/ (purchases[n].provider = "paystack" /\ purchases[m].provider = "paystack")
               THEN purchases'[m].status = "canceled"
               ELSE purchases'[m].status = purchases[m].status
  <1>0. purchases \in Seq(Purchase) /\ purchases[n] \in Purchase /\ n \in Nat
    BY DEF BillingShape
  <1>1. purchases' = [m \in DOMAIN purchases |->
             IF m = n \/ (purchases[n].provider = "paystack" /\ purchases[m].provider = "paystack")
                        THEN Canceled(purchases[m]) ELSE purchases[m]]
    BY DEF Cancel
  <1>2. purchases' \in Seq(Purchase) /\ DOMAIN purchases' = DOMAIN purchases
    BY <1>0, <1>1, PurchasesMove
  <1>3. [type |-> "canceled", of |-> n, answered |-> 0] \in Notices
    BY <1>0 DEF Notices
  <1> QED
    BY <1>1, <1>2, <1>3 DEF Canceled, Cancel, Notice

LEMMA PaidStep ==
  ASSUME PaidInv, [BillingNext]_billingVars
  PROVE  PaidInv'
  <1>0. BillingShape
    BY DEF PaidInv
  <1>1. CASE UNCHANGED <<purchases, notices, row, handling, links>>
    BY <1>1 DEF PaidInv, BillingShape, PaidMeansCharged
  <1>2. ASSUME NEW p \in Providers, NEW plan \in PaidPlan, Buy(p, plan)
        PROVE  PaidInv'
    <2> DEFINE r == [type |-> "bought", of |-> Len(purchases) + 1, answered |-> 0]
    <2>1. /\ notices' = Append(notices, r) /\ r \in Notices /\ r.of \in DOMAIN purchases'
          /\ r.answered = 0 /\ r.type # "link_paid"
          /\ purchases' \in Seq(Purchase) /\ DOMAIN purchases \subseteq DOMAIN purchases'
      BY <1>0, <1>2, PurchaseMade
    <2>2. UNCHANGED <<row, handling, links>> /\ links \in Seq(Links)
      BY <1>0, <1>2 DEF Buy, BillingShape
    <2> HIDE DEF r
    <2> QED
      BY <2>1, <2>2, ProviderStep
  <1>3. ASSUME NEW n \in DOMAIN purchases, NEW s \in {"active", "past_due"}, ChangeStatus(n, s)
        PROVE  PaidInv'
    <2> DEFINE r == [type |-> "updated", of |-> n, answered |-> 0, status |-> s]
    <2>1. /\ notices' = Append(notices, r) /\ r \in Notices /\ r.of \in DOMAIN purchases'
          /\ r.answered = 0 /\ r.type # "link_paid"
          /\ purchases' \in Seq(Purchase) /\ DOMAIN purchases \subseteq DOMAIN purchases'
      BY <1>0, <1>3, StatusChanged
    <2>2. UNCHANGED <<row, handling, links>> /\ links \in Seq(Links)
      BY <1>0, <1>3 DEF ChangeStatus, BillingShape
    <2> HIDE DEF r
    <2> QED
      BY <2>1, <2>2, ProviderStep
  <1>4. ASSUME NEW n \in DOMAIN purchases, Cancel(n)
        PROVE  PaidInv'
    <2> DEFINE r == [type |-> "canceled", of |-> n, answered |-> 0]
    <2>1. /\ notices' = Append(notices, r) /\ r \in Notices /\ r.of \in DOMAIN purchases'
          /\ r.answered = 0 /\ r.type # "link_paid"
          /\ purchases' \in Seq(Purchase) /\ DOMAIN purchases \subseteq DOMAIN purchases'
      BY <1>0, <1>4, PurchaseCanceled
    <2>2. UNCHANGED <<row, handling, links>> /\ links \in Seq(Links)
      BY <1>0, <1>4 DEF Cancel, BillingShape
    <2> HIDE DEF r
    <2> QED
      BY <2>1, <2>2, ProviderStep
  <1>5. ASSUME CreatePaymentLink
        PROVE  PaidInv'
    <2> DEFINE new == [charged |-> FALSE, status |-> "pending", confirmed |-> 0]
    <2>1. new \in Links
      BY DEF Links
    <2>2. new.status = "pending"
      OBVIOUS
    <2>3. links' = Append(links, new) /\ UNCHANGED <<purchases, notices, row, handling>>
      BY <1>5 DEF CreatePaymentLink, NewLink
    <2> HIDE DEF new
    <2>4. /\ links' \in Seq(Links) /\ DOMAIN links' = DOMAIN links \cup {Len(links) + 1}
          /\ \A n \in DOMAIN links : links'[n] = links[n]
          /\ links'[Len(links) + 1] = new
      BY <1>0, <2>1, <2>3 DEF BillingShape
    <2>5. BillingShape'
      BY <1>0, <2>3, <2>4 DEF BillingShape
    <2>6. \A e \in DOMAIN notices : notices[e].type = "link_paid" => notices[e].of \in DOMAIN links
      BY <1>0 DEF BillingShape
    <2> QED
      BY <2>2, <2>3, <2>4, <2>5, <2>6 DEF PaidInv, PaidMeansCharged
  <1>6. ASSUME NEW n \in DOMAIN links, Charge(n)
        PROVE  PaidInv'
    <2> DEFINE r == [type |-> "link_paid", of |-> n, answered |-> 0]
    <2>1. r \in Notices /\ r.type = "link_paid" /\ r.of = n /\ r.answered = 0
      BY <1>0 DEF Notices, BillingShape
    <2>2. links' = [links EXCEPT ![n].charged = TRUE] /\ notices' = Append(notices, r)
          /\ UNCHANGED <<purchases, row, handling>> /\ purchases \in Seq(Purchase)
      BY <1>0, <1>6 DEF Charge, Notice, BillingShape
    <2>3. /\ links' \in Seq(Links) /\ DOMAIN links' = DOMAIN links /\ links'[n].charged
          /\ \A m \in DOMAIN links : m # n => links'[m] = links[m]
          /\ \A m \in DOMAIN links : links'[m].status = links[m].status
      <3>1. links \in Seq(Links)
        BY <1>0 DEF BillingShape
      <3> QED
        BY <2>2, <3>1, LinkIsCharged
    <2> HIDE DEF r
    <2> QED
      BY <2>1, <2>2, <2>3, ProviderStep
  <1>7. ASSUME NEW h \in Handler, NEW e \in DOMAIN notices, Receive(h, e)
        PROVE  PaidInv'
    <2> DEFINE r == [pc |-> "look up", event |-> e]
    <2>1. r \in Handles /\ r.event = e /\ r.pc = "look up"
      <3>1. e \in Nat
        BY <1>0 DEF BillingShape
      <3> QED
        BY <3>1 DEF Handles
    <2>2. handling' = [handling EXCEPT ![h] = r] /\ UNCHANGED <<purchases, notices, row, links>>
      BY <1>7 DEF Receive
    <2> HIDE DEF r
    <2> QED
      BY <2>1, <2>2, UnansweredStep
  <1>8. ASSUME NEW h \in Handler, Activate(h)
        PROVE  PaidInv'
    <2>1. handling[h] # Waiting /\ UNCHANGED <<purchases, links>>
          /\ notices[handling[h].event].type = "bought"
      <3>1. handling[h].pc = "look up" /\ Event(h).type = "bought" /\ UNCHANGED <<purchases, links>>
        BY <1>8 DEF Activate
      <3> QED
        BY <3>1, BusyIsNotWaiting DEF Event
    <2>2. CASE handling' = [handling EXCEPT ![h] = Waiting] /\ UNCHANGED <<notices, row>>
      BY <2>1, <2>2, BusyIsNotWaiting, UnansweredStep
    <2>3. CASE Answer(h) /\ row' = Subscription(notices[handling[h].event].of)
      <3>1. notices[handling[h].event].of \in DOMAIN purchases
        BY <1>0, <2>1 DEF BillingShape
      <3>2. row' \in SubscriptionRow /\ links \in Seq(Links)
        BY <1>0, <2>3, <3>1, SubscriptionIsRow DEF BillingShape
      <3> QED
        BY <2>1, <2>3, <3>2, AnsweredStep
    <2> QED
      BY <1>8, <2>2, <2>3 DEF Activate, Event
  <1>9. ASSUME NEW h \in Handler, FindSubscription(h)
        PROVE  PaidInv'
    <2> DEFINE e == handling[h].event
    <2>1. /\ handling[h] # Waiting /\ UNCHANGED <<purchases, links, row>>
          /\ notices[e].type \in {"updated", "canceled"}
          /\ e \in DOMAIN notices /\ e \in Nat /\ row \in SubscriptionRow /\ links \in Seq(Links)
      <3>1. /\ handling[h].pc = "look up" /\ Event(h).type \in {"updated", "canceled"}
            /\ UNCHANGED <<purchases, links, row>>
        BY <1>9 DEF FindSubscription
      <3>2. handling[h] # Waiting
        BY <3>1, BusyIsNotWaiting
      <3>3. notices \in Seq(Notices) /\ e \in DOMAIN notices
        BY <1>0, <3>2 DEF BillingShape
      <3>4. e \in Nat
        BY <3>3
      <3> QED
        BY <1>0, <3>1, <3>2, <3>3, <3>4 DEF BillingShape, Event
    <2>2. CASE Answer(h)
      BY <2>1, <2>2, AnsweredStep
    <2>3. CASE handling' = [handling EXCEPT ![h] = [pc |-> "write", event |-> @.event, read |-> row]]
               /\ notices' = notices
      <3> DEFINE r == [pc |-> "write", event |-> e, read |-> row]
      <3>1. r \in Handles /\ r.event = e
        BY <2>1 DEF Handles
      <3>2. handling' = [handling EXCEPT ![h] = r]
        BY <2>3
      <3> HIDE DEF r, e
      <3> QED
        BY <2>1, <2>3, <3>1, <3>2, UnansweredStep
    <2> QED
      BY <1>9, <2>2, <2>3 DEF FindSubscription
  <1>10. ASSUME NEW h \in Handler, WriteSubscription(h)
         PROVE  PaidInv'
    <2> DEFINE e == handling[h].event
    <2>1. /\ handling[h] # Waiting /\ UNCHANGED <<purchases, links>>
          /\ notices[e].type \in {"updated", "canceled"} /\ e \in DOMAIN notices
      BY <1>0, <1>10 DEF WriteSubscription, Waiting, BillingShape
    <2>2. CASE handling' = [handling EXCEPT ![h] = Waiting] /\ UNCHANGED <<notices, row>>
      BY <2>1, <2>2, BusyIsNotWaiting, UnansweredStep
    <2>3. CASE Answer(h) /\ row' = IF Event(h).type = "canceled" THEN Downgraded(handling[h].read)
                                   ELSE [handling[h].read EXCEPT !.status = Event(h).status]
      <3>1. handling[h].read \in SubscriptionRow
        <4>1. handling[h] \in Handles /\ handling[h].pc = "write"
          BY <1>0, <1>10 DEF WriteSubscription, BillingShape
        <4>2. handling[h] \in [pc : {"write"}, event : Nat, read : SubscriptionRow]
          BY <4>1, BusyIsNotWaiting DEF Handles
        <4> QED
          BY <4>2
      <3>2. notices[e] \in Notices
        BY <1>0, <2>1 DEF BillingShape
      <3>3. notices[e].type = "updated" => notices[e].status \in Standings
        BY <3>2 DEF Notices, Standings
      <3>4. row' \in SubscriptionRow
        BY <2>1, <2>3, <3>1, <3>3, DowngradedIsRow, RestatedIsRow DEF Event
      <3> QED
        BY <1>0, <2>1, <2>3, <3>4, AnsweredStep DEF BillingShape
    <2> QED
      BY <1>10, <2>2, <2>3 DEF WriteSubscription
  <1>11. ASSUME NEW h \in Handler, HandlePaymentWebhook(h)
         PROVE  PaidInv'
    <2> DEFINE e == handling[h].event  n == notices[e].of
    <2>1. /\ handling[h] # Waiting /\ UNCHANGED <<purchases, row>> /\ row \in SubscriptionRow
          /\ notices[e].type = "link_paid" /\ e \in DOMAIN notices /\ links \in Seq(Links)
      <3>1. /\ handling[h].pc = "look up" /\ Event(h).type = "link_paid"
            /\ UNCHANGED <<purchases, row>>
        BY <1>11 DEF HandlePaymentWebhook
      <3>2. handling[h] # Waiting
        BY <3>1, BusyIsNotWaiting
      <3> QED
        BY <1>0, <3>1, <3>2 DEF BillingShape, Event
    <2>2. CASE handling' = [handling EXCEPT ![h] = Waiting] /\ UNCHANGED <<notices, links>>
      BY <2>1, <2>2, BusyIsNotWaiting, UnansweredStep
    <2>3. CASE /\ Answer(h)
               /\ \/ links' = [links EXCEPT ![n] = Confirmed(Marked(@))]
                  \/ links' = [links EXCEPT ![n] = Marked(@)]
      <3>1. n \in DOMAIN links /\ links[n].charged
        BY <1>0, <2>1 DEF BillingShape, PaidInv
      <3> HIDE DEF n
      <3>2. /\ links' \in Seq(Links) /\ DOMAIN links' = DOMAIN links
            /\ links'[n].status = "paid"
            /\ \A m \in DOMAIN links : m # n => links'[m].status = links[m].status
            /\ \A m \in DOMAIN links : links'[m].charged = links[m].charged
        BY <2>1, <2>3, <3>1, LinkMoves
      <3> QED
        BY <2>1, <2>3, <3>1, <3>2, AnsweredStep DEF n
    <2> QED
      BY <1>11, <2>2, <2>3 DEF HandlePaymentWebhook, Event
  <1> QED
    BY <1>1, <1>2, <1>3, <1>4, <1>5, <1>6, <1>7, <1>8, <1>9, <1>10, <1>11
    DEF BillingNext, billingVars, Providers

\* A customer's payment link is never shown as paid before the charge, and never
\* left unpaid once the provider was told that the notice arrived, for any number
\* of webhooks, deliveries and failures.
THEOREM LinksFollowCharges == BillingSpec => []PaidMeansCharged
  <1>1. PaidInv => PaidMeansCharged
    BY DEF PaidInv
  <1> QED
    BY PaidStart, PaidStep, <1>1, PTL DEF BillingSpec

-----------------------------------------------------------------------------
(* What the notices say of a purchase *)

BoughtBy(b, n) == notices[b].type = "bought" /\ notices[b].of = n

AtPaystack(n) == purchases[n].provider = "paystack"

\* A cancellation at Paystack is about every purchase made there before it.
Concerns(e, n) ==
    \/ notices[e].type \in {"bought", "updated", "canceled"} /\ notices[e].of = n
    \/ /\ notices[e].type = "canceled" /\ AtPaystack(notices[e].of) /\ AtPaystack(n)
       /\ \E b \in DOMAIN notices : b < e /\ BoughtBy(b, n)

Word(e) == IF notices[e].type = "updated" THEN notices[e].status
           ELSE IF notices[e].type = "canceled" THEN "canceled" ELSE "active"

\* The purchases are what the notices last said of them, nothing brings back one
\* that was canceled, and they were announced in the order they were made.
HistoryInv ==
    /\ \A n \in DOMAIN purchases : \E e \in DOMAIN notices :
          /\ Concerns(e, n) /\ purchases[n].status = Word(e)
          /\ \A d \in DOMAIN notices : Concerns(d, n) => d <= e
    /\ \A n \in DOMAIN purchases : \A d, e \in DOMAIN notices :
          e < d /\ Concerns(e, n) /\ Concerns(d, n) /\ Word(e) = "canceled" => Word(d) = "canceled"
    /\ \A n \in DOMAIN purchases : \E b \in DOMAIN notices : BoughtBy(b, n)
    /\ \A b, c \in DOMAIN notices :
          notices[b].type = "bought" /\ notices[c].type = "bought" /\ b < c
          => notices[b].of < notices[c].of
    /\ \A e \in DOMAIN notices :
          notices[e].type = "updated" => purchases[notices[e].of].provider = "stripe"
    /\ \A n \in DOMAIN purchases : purchases[n].customer = Customer(purchases[n].provider, n)

LEMMA HistoryStart == BillingInit => HistoryInv
  BY DEF BillingInit, HistoryInv

\* Neither answers nor new notices change what the old ones say.
LEMMA OldWordsStand ==
  ASSUME BillingShape,
         DOMAIN purchases \subseteq DOMAIN purchases',
         \A n \in DOMAIN purchases : purchases'[n].provider = purchases[n].provider,
         notices' \in Seq(Notices), DOMAIN notices \subseteq DOMAIN notices',
         \A e \in DOMAIN notices' \ DOMAIN notices : \A d \in DOMAIN notices : d < e,
         \A e \in DOMAIN notices : /\ notices'[e].type = notices[e].type
                                   /\ notices'[e].of = notices[e].of
                                   /\ notices[e].type = "updated" => notices'[e].status = notices[e].status
  PROVE  \A e \in DOMAIN notices :
            /\ Word(e)' = Word(e)
            /\ \A n \in DOMAIN purchases : (Concerns(e, n)' <=> Concerns(e, n))
            /\ \A n : (BoughtBy(e, n)' <=> BoughtBy(e, n))
  <1> TAKE e \in DOMAIN notices
  <1>0. (\A d \in DOMAIN notices : d \in Nat) /\ (\A d \in DOMAIN notices' : d \in Nat)
    BY DEF BillingShape
  <1>1. notices[e].type = "canceled" => notices[e].of \in DOMAIN purchases
    BY DEF BillingShape
  <1>2. \A d \in DOMAIN notices : \A n : (BoughtBy(d, n)' <=> BoughtBy(d, n))
    BY DEF BoughtBy
  <1>3. Word(e)' = Word(e)
    BY DEF Word
  <1>4. ASSUME NEW n \in DOMAIN purchases
        PROVE  Concerns(e, n)' <=> Concerns(e, n)
    <2>1. AtPaystack(n)' <=> AtPaystack(n)
      BY DEF AtPaystack
    <2>2. notices[e].type = "canceled" => (AtPaystack(notices[e].of)' <=> AtPaystack(notices[e].of))
      BY <1>1 DEF AtPaystack
    <2>3. (\E b \in DOMAIN notices' : b < e /\ BoughtBy(b, n)')
          <=> (\E b \in DOMAIN notices : b < e /\ BoughtBy(b, n))
      BY <1>0, <1>2
    <2> QED
      BY <2>1, <2>2, <2>3 DEF Concerns
  <1> QED
    BY <1>2, <1>3, <1>4

LEMMA HistoryStep ==
  ASSUME PaidInv, HistoryInv, [BillingNext]_billingVars
  PROVE  HistoryInv'
  <1>0. BillingShape /\ BillingShape'
    BY PaidStep DEF PaidInv
  <1>n. /\ \A e \in DOMAIN notices : e \in Nat
        /\ \A e \in DOMAIN notices : notices[e].type # "link_paid" => notices[e].of \in DOMAIN purchases
    BY <1>0 DEF BillingShape
  <1>1. ASSUME UNCHANGED purchases, DOMAIN notices' = DOMAIN notices,
               \A e \in DOMAIN notices :
                     /\ notices'[e].type = notices[e].type
                     /\ notices'[e].of = notices[e].of
                     /\ notices[e].type = "updated" => notices'[e].status = notices[e].status
        PROVE  HistoryInv'
    <2>0. notices' \in Seq(Notices)
      BY <1>0 DEF BillingShape
    <2>1. \A e \in DOMAIN notices :
            /\ Word(e)' = Word(e)
            /\ \A n \in DOMAIN purchases : (Concerns(e, n)' <=> Concerns(e, n))
            /\ \A n : (BoughtBy(e, n)' <=> BoughtBy(e, n))
      <3>1. /\ DOMAIN purchases \subseteq DOMAIN purchases'
            /\ \A n \in DOMAIN purchases : purchases'[n].provider = purchases[n].provider
            /\ DOMAIN notices \subseteq DOMAIN notices'
            /\ \A e \in DOMAIN notices' \ DOMAIN notices : \A d \in DOMAIN notices : d < e
        BY <1>1
      <3> QED
        BY <1>0, <1>1, <2>0, <3>1, OldWordsStand
    <2>2. purchases' = purchases
      BY <1>1
    <2>3. \A n \in DOMAIN purchases' : \E e \in DOMAIN notices' :
             /\ Concerns(e, n)' /\ purchases'[n].status = Word(e)'
             /\ \A d \in DOMAIN notices' : Concerns(d, n)' => d <= e
      BY <1>1, <2>1, <2>2 DEF HistoryInv
    <2>4. \A n \in DOMAIN purchases' : \A d, e \in DOMAIN notices' :
             e < d /\ Concerns(e, n)' /\ Concerns(d, n)' /\ Word(e)' = "canceled"
             => Word(d)' = "canceled"
      BY <1>1, <2>1, <2>2 DEF HistoryInv
    <2>5. \A n \in DOMAIN purchases' : \E b \in DOMAIN notices' : BoughtBy(b, n)'
      BY <1>1, <2>1, <2>2 DEF HistoryInv
    <2>6. \A b, c \in DOMAIN notices' :
              notices'[b].type = "bought" /\ notices'[c].type = "bought" /\ b < c
              => notices'[b].of < notices'[c].of
      BY <1>1 DEF HistoryInv
    <2>7. \A e \in DOMAIN notices' :
              notices'[e].type = "updated" => purchases'[notices'[e].of].provider = "stripe"
      BY <1>1, <2>2 DEF HistoryInv
    <2>8. \A n \in DOMAIN purchases' : purchases'[n].customer = Customer(purchases'[n].provider, n)
      BY <2>2 DEF HistoryInv
    <2> QED
      BY <2>3, <2>4, <2>5, <2>6, <2>7, <2>8 DEF HistoryInv
  <1>2. ASSUME NEW h \in Handler, handling[h] # Waiting, Answer(h), UNCHANGED purchases
        PROVE  HistoryInv'
    BY <1>0, <1>1, <1>2, EventAnswered
  \* A notice is added; m is the purchase it is about.
  <1>3. ASSUME NEW r \in Notices, notices' = Append(notices, r),
               DOMAIN purchases \subseteq DOMAIN purchases',
               \A n \in DOMAIN purchases : /\ purchases'[n].provider = purchases[n].provider
                                           /\ purchases'[n].customer = purchases[n].customer
        PROVE  \E e \in Nat :
               /\ DOMAIN notices' = DOMAIN notices \cup {e} /\ notices'[e] = r
               /\ \A d \in DOMAIN notices : d < e /\ notices'[d] = notices[d]
               /\ \A d \in DOMAIN notices :
                    /\ Word(d)' = Word(d)
                    /\ \A n \in DOMAIN purchases : (Concerns(d, n)' <=> Concerns(d, n))
                    /\ \A n : (BoughtBy(d, n)' <=> BoughtBy(d, n))
    <2> DEFINE e == Len(notices) + 1
    <2>1. /\ DOMAIN notices' = DOMAIN notices \cup {e} /\ e \in Nat /\ notices'[e] = r
          /\ \A d \in DOMAIN notices : d < e /\ notices'[d] = notices[d]
          /\ notices' \in Seq(Notices)
      BY <1>0, <1>3, NoticeSent DEF BillingShape
    <2> HIDE DEF e
    <2>2. \A d \in DOMAIN notices :
            /\ Word(d)' = Word(d)
            /\ \A n \in DOMAIN purchases : (Concerns(d, n)' <=> Concerns(d, n))
            /\ \A n : (BoughtBy(d, n)' <=> BoughtBy(d, n))
      BY <1>0, <1>3, <2>1, OldWordsStand
    <2> QED
      BY <2>1, <2>2
  <1>4. ASSUME NEW p \in Providers, NEW plan \in PaidPlan, Buy(p, plan)
        PROVE  HistoryInv'
    <2>0. PICK n \in Nat : n = Len(purchases) + 1
      BY <1>0 DEF BillingShape
    <2> DEFINE r == [type |-> "bought", of |-> n, answered |-> 0]
    <2>1. /\ notices' = Append(notices, r) /\ r \in Notices
          /\ purchases' \in Seq(Purchase) /\ DOMAIN purchases' = DOMAIN purchases \cup {n}
          /\ n \in Nat /\ \A m \in DOMAIN purchases : m \in Nat /\ m < n /\ purchases'[m] = purchases[m]
          /\ purchases'[n].provider = p
          /\ purchases'[n].customer = Customer(p, n) /\ purchases'[n].status = "active"
      BY <1>0, <1>4, <2>0, PurchaseMade
    <2>2. r.type = "bought" /\ r.of = n
      OBVIOUS
    <2> HIDE DEF r
    <2>3. PICK e \in Nat :
          /\ DOMAIN notices' = DOMAIN notices \cup {e} /\ notices'[e] = r
          /\ \A d \in DOMAIN notices : d < e /\ notices'[d] = notices[d]
          /\ \A d \in DOMAIN notices :
                    /\ Word(d)' = Word(d)
                    /\ \A m \in DOMAIN purchases : (Concerns(d, m)' <=> Concerns(d, m))
                    /\ \A m : (BoughtBy(d, m)' <=> BoughtBy(d, m))
      BY <1>3, <2>1
    <2>4. BoughtBy(e, n)' /\ Concerns(e, n)' /\ Word(e)' = "active"
      BY <2>2, <2>3 DEF BoughtBy, Concerns, Word
    <2>5. \A m \in DOMAIN purchases : ~Concerns(e, m)'
      BY <2>1, <2>2, <2>3 DEF Concerns
    <2>6. \A d \in DOMAIN notices : ~BoughtBy(d, n)
      BY <1>n, <2>1 DEF BoughtBy
    <2>7. \A d \in DOMAIN notices : ~Concerns(d, n)'
      <3> TAKE d \in DOMAIN notices
      <3>1. notices'[d].type # "link_paid" => notices'[d].of # n
        BY <1>n, <2>1, <2>3
      <3>2. ~\E b \in DOMAIN notices' : b < d /\ BoughtBy(b, n)'
        BY <1>n, <2>3, <2>6
      <3> QED
        BY <3>1, <3>2 DEF Concerns
    <2>8. \A m \in DOMAIN purchases' : \E f \in DOMAIN notices' :
             /\ Concerns(f, m)' /\ purchases'[m].status = Word(f)'
             /\ \A d \in DOMAIN notices' : Concerns(d, m)' => d <= f
      <3> TAKE m \in DOMAIN purchases'
      <3>1. CASE m = n
        BY <2>1, <2>3, <2>4, <2>7, <3>1
      <3>2. CASE m \in DOMAIN purchases
        BY <2>1, <2>3, <2>5, <3>2 DEF HistoryInv
      <3> QED
        BY <2>1, <3>1, <3>2
    <2>9. \A m \in DOMAIN purchases' : \A d, f \in DOMAIN notices' :
             f < d /\ Concerns(f, m)' /\ Concerns(d, m)' /\ Word(f)' = "canceled"
             => Word(d)' = "canceled"
      <3> TAKE m \in DOMAIN purchases'
      <3>1. CASE m = n
        BY <2>3, <2>4, <2>7, <3>1
      <3>2. CASE m \in DOMAIN purchases
        BY <2>3, <2>5, <3>2 DEF HistoryInv
      <3> QED
        BY <2>1, <3>1, <3>2
    <2>10. \A m \in DOMAIN purchases' : \E b \in DOMAIN notices' : BoughtBy(b, m)'
      BY <2>1, <2>3, <2>4 DEF HistoryInv
    <2>11. \A b, c \in DOMAIN notices' :
              notices'[b].type = "bought" /\ notices'[c].type = "bought" /\ b < c
              => notices'[b].of < notices'[c].of
      BY <1>n, <2>1, <2>2, <2>3 DEF HistoryInv
    <2>12. \A f \in DOMAIN notices' :
              notices'[f].type = "updated" => purchases'[notices'[f].of].provider = "stripe"
      BY <1>n, <2>1, <2>2, <2>3 DEF HistoryInv
    <2>13. \A m \in DOMAIN purchases' : purchases'[m].customer = Customer(purchases'[m].provider, m)
      BY <2>1 DEF HistoryInv
    <2> QED
      BY <2>8, <2>9, <2>10, <2>11, <2>12, <2>13 DEF HistoryInv
  <1>5. ASSUME NEW n \in DOMAIN purchases, NEW s \in {"active", "past_due"}, ChangeStatus(n, s)
        PROVE  HistoryInv'
    <2> DEFINE r == [type |-> "updated", of |-> n, answered |-> 0, status |-> s]
    <2>1. /\ notices' = Append(notices, r) /\ r \in Notices
          /\ DOMAIN purchases' = DOMAIN purchases
          /\ \A m \in DOMAIN purchases : /\ purchases'[m].provider = purchases[m].provider
                                         /\ purchases'[m].customer = purchases[m].customer
          /\ \A m \in DOMAIN purchases : m # n => purchases'[m].status = purchases[m].status
          /\ purchases'[n].status = s /\ purchases[n].status # "canceled"
          /\ purchases[n].provider = "stripe"
      BY <1>0, <1>5, StatusChanged
    <2>2. r.type = "updated" /\ r.of = n /\ r.status = s
      OBVIOUS
    <2> HIDE DEF r
    <2>3. PICK e \in Nat :
          /\ DOMAIN notices' = DOMAIN notices \cup {e} /\ notices'[e] = r
          /\ \A d \in DOMAIN notices : d < e /\ notices'[d] = notices[d]
          /\ \A d \in DOMAIN notices :
                    /\ Word(d)' = Word(d)
                    /\ \A m \in DOMAIN purchases : (Concerns(d, m)' <=> Concerns(d, m))
                    /\ \A m : (BoughtBy(d, m)' <=> BoughtBy(d, m))
      BY <1>3, <2>1
    <2>4. Concerns(e, n)' /\ Word(e)' = s
      BY <2>2, <2>3 DEF Concerns, Word
    <2>5. \A m \in DOMAIN purchases : m # n => ~Concerns(e, m)'
      BY <2>2, <2>3 DEF Concerns
    <2>6. \A f \in DOMAIN notices : Concerns(f, n) => Word(f) # "canceled"
      <3>1. PICK l \in DOMAIN notices : /\ Concerns(l, n) /\ purchases[n].status = Word(l)
                                        /\ \A d \in DOMAIN notices : Concerns(d, n) => d <= l
        BY DEF HistoryInv
      <3> QED
        BY <1>n, <2>1, <3>1 DEF HistoryInv
    <2>7. \A m \in DOMAIN purchases' : \E f \in DOMAIN notices' :
             /\ Concerns(f, m)' /\ purchases'[m].status = Word(f)'
             /\ \A d \in DOMAIN notices' : Concerns(d, m)' => d <= f
      <3> SUFFICES ASSUME NEW m \in DOMAIN purchases
                   PROVE  \E f \in DOMAIN notices' :
                             /\ Concerns(f, m)' /\ purchases'[m].status = Word(f)'
                             /\ \A d \in DOMAIN notices' : Concerns(d, m)' => d <= f
        BY <2>1
      <3>1. CASE m = n
        BY <1>n, <2>1, <2>3, <2>4, <3>1
      <3>2. CASE m # n
        BY <2>1, <2>3, <2>5, <3>2 DEF HistoryInv
      <3> QED
        BY <3>1, <3>2
    <2>8. \A m \in DOMAIN purchases' : \A d, f \in DOMAIN notices' :
             f < d /\ Concerns(f, m)' /\ Concerns(d, m)' /\ Word(f)' = "canceled"
             => Word(d)' = "canceled"
      BY <1>n, <2>1, <2>3, <2>5, <2>6 DEF HistoryInv
    <2>9. \A m \in DOMAIN purchases' : \E b \in DOMAIN notices' : BoughtBy(b, m)'
      BY <2>1, <2>3 DEF HistoryInv
    <2>10. \A b, c \in DOMAIN notices' :
              notices'[b].type = "bought" /\ notices'[c].type = "bought" /\ b < c
              => notices'[b].of < notices'[c].of
      BY <2>2, <2>3 DEF HistoryInv
    <2>11. \A f \in DOMAIN notices' :
              notices'[f].type = "updated" => purchases'[notices'[f].of].provider = "stripe"
      BY <1>n, <2>1, <2>2, <2>3 DEF HistoryInv
    <2>12. \A m \in DOMAIN purchases' : purchases'[m].customer = Customer(purchases'[m].provider, m)
      BY <2>1 DEF HistoryInv
    <2> QED
      BY <2>7, <2>8, <2>9, <2>10, <2>11, <2>12 DEF HistoryInv
  <1>6. ASSUME NEW n \in DOMAIN purchases, Cancel(n)
        PROVE  HistoryInv'
    <2> DEFINE r == [type |-> "canceled", of |-> n, answered |-> 0]
               Hit(m) == m = n \/ (AtPaystack(n) /\ AtPaystack(m))
    <2>1. /\ notices' = Append(notices, r) /\ r \in Notices
          /\ DOMAIN purchases' = DOMAIN purchases
          /\ \A m \in DOMAIN purchases : /\ purchases'[m].provider = purchases[m].provider
                                         /\ purchases'[m].customer = purchases[m].customer
          /\ \A m \in DOMAIN purchases : IF Hit(m) THEN purchases'[m].status = "canceled"
                                         ELSE purchases'[m].status = purchases[m].status
      BY <1>0, <1>6, PurchaseCanceled DEF AtPaystack
    <2>2. r.type = "canceled" /\ r.of = n
      OBVIOUS
    <2> HIDE DEF r
    <2>3. PICK e \in Nat :
          /\ DOMAIN notices' = DOMAIN notices \cup {e} /\ notices'[e] = r
          /\ \A d \in DOMAIN notices : d < e /\ notices'[d] = notices[d]
          /\ \A d \in DOMAIN notices :
                    /\ Word(d)' = Word(d)
                    /\ \A m \in DOMAIN purchases : (Concerns(d, m)' <=> Concerns(d, m))
                    /\ \A m : (BoughtBy(d, m)' <=> BoughtBy(d, m))
      BY <1>3, <2>1
    <2>4. Word(e)' = "canceled"
      BY <2>2, <2>3 DEF Word
    <2>5. \A m \in DOMAIN purchases : (Concerns(e, m)' <=> Hit(m))
      <3> TAKE m \in DOMAIN purchases
      <3>1. \E b \in DOMAIN notices' : b < e /\ BoughtBy(b, m)'
        BY <2>3 DEF HistoryInv
      <3>2. AtPaystack(m)' <=> AtPaystack(m)
        BY <2>1 DEF AtPaystack
      <3>3. purchases'[notices'[e].of].provider = "paystack" <=> AtPaystack(n)
        BY <2>1, <2>2, <2>3 DEF AtPaystack
      <3>4. Concerns(e, m)' <=>
              \/ notices'[e].of = m
              \/ purchases'[notices'[e].of].provider = "paystack" /\ AtPaystack(m)'
                 /\ \E b \in DOMAIN notices' : b < e /\ BoughtBy(b, m)'
        BY <2>2, <2>3 DEF Concerns, AtPaystack
      <3> QED
        BY <2>2, <2>3, <3>1, <3>2, <3>3, <3>4
    <2> HIDE DEF Hit
    <2>6. \A m \in DOMAIN purchases' : \E f \in DOMAIN notices' :
             /\ Concerns(f, m)' /\ purchases'[m].status = Word(f)'
             /\ \A d \in DOMAIN notices' : Concerns(d, m)' => d <= f
      <3> SUFFICES ASSUME NEW m \in DOMAIN purchases
                   PROVE  \E f \in DOMAIN notices' :
                             /\ Concerns(f, m)' /\ purchases'[m].status = Word(f)'
                             /\ \A d \in DOMAIN notices' : Concerns(d, m)' => d <= f
        BY <2>1
      <3>1. CASE Hit(m)
        BY <1>n, <2>1, <2>3, <2>4, <2>5, <3>1
      <3>2. CASE ~Hit(m)
        BY <2>1, <2>3, <2>5, <3>2 DEF HistoryInv
      <3> QED
        BY <3>1, <3>2
    <2>7. \A m \in DOMAIN purchases' : \A d, f \in DOMAIN notices' :
             f < d /\ Concerns(f, m)' /\ Concerns(d, m)' /\ Word(f)' = "canceled"
             => Word(d)' = "canceled"
      BY <1>n, <2>1, <2>3, <2>4 DEF HistoryInv
    <2>8. \A m \in DOMAIN purchases' : \E b \in DOMAIN notices' : BoughtBy(b, m)'
      BY <2>1, <2>3 DEF HistoryInv
    <2>9. \A b, c \in DOMAIN notices' :
              notices'[b].type = "bought" /\ notices'[c].type = "bought" /\ b < c
              => notices'[b].of < notices'[c].of
      BY <2>2, <2>3 DEF HistoryInv
    <2>10. \A f \in DOMAIN notices' :
              notices'[f].type = "updated" => purchases'[notices'[f].of].provider = "stripe"
      BY <1>n, <2>1, <2>2, <2>3 DEF HistoryInv
    <2>11. \A m \in DOMAIN purchases' : purchases'[m].customer = Customer(purchases'[m].provider, m)
      BY <2>1 DEF HistoryInv
    <2> QED
      BY <2>6, <2>7, <2>8, <2>9, <2>10, <2>11 DEF HistoryInv
  <1>7. ASSUME NEW n \in DOMAIN links, Charge(n)
        PROVE  HistoryInv'
    <2> DEFINE r == [type |-> "link_paid", of |-> n, answered |-> 0]
    <2>1. /\ notices' = Append(notices, r) /\ UNCHANGED purchases /\ r \in Notices
          /\ r.type = "link_paid"
      BY <1>0, <1>7 DEF Charge, Notice, Notices, BillingShape
    <2> HIDE DEF r
    <2>3. PICK e \in Nat :
          /\ DOMAIN notices' = DOMAIN notices \cup {e} /\ notices'[e] = r
          /\ \A d \in DOMAIN notices : d < e /\ notices'[d] = notices[d]
          /\ \A d \in DOMAIN notices :
                    /\ Word(d)' = Word(d)
                    /\ \A m \in DOMAIN purchases : (Concerns(d, m)' <=> Concerns(d, m))
                    /\ \A m : (BoughtBy(d, m)' <=> BoughtBy(d, m))
      BY <1>3, <2>1
    <2>4. \A m : ~Concerns(e, m)'
      BY <2>1, <2>3 DEF Concerns
    <2> QED
      BY <1>n, <2>1, <2>3, <2>4 DEF HistoryInv
  <1>8. CASE UNCHANGED <<purchases, notices>>
    BY <1>1, <1>8
  <1>9. ASSUME NEW h \in Handler,
               \/ Activate(h) \/ FindSubscription(h) \/ WriteSubscription(h)
               \/ HandlePaymentWebhook(h)
        PROVE  UNCHANGED purchases /\ (UNCHANGED notices \/ (handling[h] # Waiting /\ Answer(h)))
    BY <1>9, BusyIsNotWaiting
    DEF Activate, FindSubscription, WriteSubscription, HandlePaymentWebhook
  <1> QED
    BY <1>2, <1>4, <1>5, <1>6, <1>7, <1>8, <1>9
    DEF BillingNext, billingVars, Providers, CreatePaymentLink, Receive

-----------------------------------------------------------------------------
(* The row follows the notices answered *)

Done(e) == notices[e].answered > 0

\* The last purchase whose notice is answered.
Current(b) ==
    /\ notices[b].type = "bought" /\ Done(b)
    /\ \A c \in DOMAIN notices : notices[c].type = "bought" /\ Done(c) => c <= b

\* The row is that of purchase n, as the notices answered say it stands.
RowStands(n) ==
    /\ row.provider = purchases[n].provider /\ row.customer = purchases[n].customer
    /\ row.subscription = n
    /\ row.plan = IF row.status = "canceled" THEN Starter ELSE purchases[n].plan
    /\ \E e \in DOMAIN notices :
          /\ Done(e) /\ Concerns(e, n) /\ row.status = Word(e)
          /\ \A d \in DOMAIN notices : Done(d) /\ Concerns(d, n) => d <= e

\* One event at a time, in the order of the notices; and the handler that is about
\* to write holds the row as it is, for an event that is about its purchase.
InTurn ==
    /\ \A g, h \in Handler : handling[g] # Waiting /\ handling[h] # Waiting => g = h
    /\ \A h \in Handler : handling[h] # Waiting =>
          /\ ~Done(handling[h].event)
          /\ \A d \in DOMAIN notices : d < handling[h].event => Done(d)
    /\ \A d, e \in DOMAIN notices : d < e /\ Done(e) => Done(d)
    /\ \A h \in Handler : handling[h].pc = "write" =>
          /\ handling[h].read = row
          /\ \A b \in DOMAIN notices : Current(b) => Concerns(handling[h].event, notices[b].of)

RowInv ==
    /\ disordered \in BOOLEAN /\ billingFaults \in Nat
    /\ ~disordered /\ billingFaults = 0 =>
         /\ InTurn
         /\ \A b \in DOMAIN notices : Current(b) => RowStands(notices[b].of)

LEMMA RowStart == BillingInit => RowInv
  <1> SUFFICES ASSUME BillingInit PROVE RowInv
    OBVIOUS
  <1>1. /\ notices = <<>> /\ handling = [h \in Handler |-> Waiting]
        /\ disordered = FALSE /\ billingFaults = 0
    BY DEF BillingInit
  <1>2. InTurn
    BY <1>1, BusyIsNotWaiting DEF InTurn
  <1>3. DOMAIN notices = {}
    BY <1>1
  <1>4. billingFaults \in Nat
    BY <1>1
  <1>5. disordered \in BOOLEAN
    BY <1>1
  <1> QED
    BY <1>2, <1>3, <1>4, <1>5 DEF RowInv

\* A notice no handler has seen yet changes nothing.
LEMMA NoticeWaits ==
  ASSUME PaidInv, PaidInv', RowInv, NEW r \in Notices, r.answered = 0,
         notices' = Append(notices, r),
         DOMAIN purchases \subseteq DOMAIN purchases',
         \A n \in DOMAIN purchases : /\ purchases'[n].provider = purchases[n].provider
                                     /\ purchases'[n].customer = purchases[n].customer
                                     /\ purchases'[n].plan = purchases[n].plan,
         UNCHANGED <<row, handling, disordered, billingFaults>>
  PROVE  RowInv'
  <1>0. BillingShape /\ BillingShape'
    BY DEF PaidInv
  <1> SUFFICES ASSUME ~disordered, billingFaults = 0
               PROVE  /\ InTurn'
                      /\ \A b \in DOMAIN notices' : Current(b)' => RowStands(notices[b].of)'
    BY DEF RowInv
  <1>1. PICK e \in Nat : /\ DOMAIN notices' = DOMAIN notices \cup {e} /\ notices'[e] = r
                         /\ \A d \in DOMAIN notices : d < e /\ notices'[d] = notices[d]
                         /\ e \notin DOMAIN notices
    <2>1. Len(notices) + 1 \in Nat
      BY <1>0 DEF BillingShape
    <2> QED
      BY <1>0, <2>1, NoticeSent
  <1>2. /\ \A d \in DOMAIN notices : d \in Nat
        /\ \A d \in DOMAIN notices : notices[d].type = "bought" => notices[d].of \in DOMAIN purchases
        /\ notices' \in Seq(Notices)
    BY <1>0 DEF BillingShape
  <1>3. \A d \in DOMAIN notices :
            /\ Word(d)' = Word(d)
            /\ \A n \in DOMAIN purchases : (Concerns(d, n)' <=> Concerns(d, n))
    BY <1>0, <1>1, <1>2, OldWordsStand
  <1>4. /\ ~Done(e)' /\ \A d \in DOMAIN notices : (Done(d)' <=> Done(d))
        /\ ~Current(e)' /\ \A d \in DOMAIN notices : (Current(d)' <=> Current(d))
    BY <1>1 DEF Done, Current
  <1>5. InTurn /\ \A b \in DOMAIN notices : Current(b) => RowStands(notices[b].of)
    BY DEF RowInv
  <1>6. \A n \in DOMAIN purchases : RowStands(n) => RowStands(n)'
    BY <1>1, <1>3, <1>4 DEF RowStands
  <1>7. \A b \in DOMAIN notices' : Current(b)' => RowStands(notices[b].of)'
    <2> SUFFICES ASSUME NEW b \in DOMAIN notices, Current(b), NEW n, n = notices[b].of
                 PROVE  RowStands(n)' /\ n = notices'[b].of
      BY <1>1, <1>4
    <2>1. n \in DOMAIN purchases
      BY <1>2 DEF Current
    <2> QED
      BY <1>1, <1>5, <1>6, <2>1
  <1>8. \A h \in Handler : handling[h] # Waiting => handling[h].event \in DOMAIN notices
    BY <1>0 DEF BillingShape
  <1>9. \A h \in Handler : handling[h] # Waiting =>
          /\ ~(notices'[handling'[h].event].answered > 0)
          /\ \A d \in DOMAIN notices' : d < handling'[h].event => Done(d)'
    BY <1>1, <1>2, <1>4, <1>5, <1>8 DEF InTurn, Done
  <1>10. ASSUME NEW h \in Handler, handling[h].pc = "write"
         PROVE  /\ handling'[h].read = row'
                /\ \A b \in DOMAIN notices' : Current(b)' => Concerns(handling[h].event, notices[b].of)'
    <2> SUFFICES ASSUME NEW b \in DOMAIN notices, Current(b), NEW n, n = notices[b].of,
                        NEW d, d = handling[h].event
                 PROVE  /\ Concerns(d, n)' /\ n = notices'[b].of
                        /\ handling'[h].read = row' /\ d = handling'[h].event
      BY <1>1, <1>4, <1>5, <1>10 DEF InTurn
    <2>1. n \in DOMAIN purchases /\ d \in DOMAIN notices
      BY <1>2, <1>8, <1>10, BusyIsNotWaiting DEF Current
    <2> QED
      BY <1>1, <1>3, <1>5, <1>10, <2>1 DEF InTurn
  <1>11. InTurn'
    <2>1. \A g, h \in Handler : handling'[g] # Waiting /\ handling'[h] # Waiting => g = h
      BY <1>5 DEF InTurn
    <2>2. \A d, f \in DOMAIN notices' : d < f /\ Done(f)' => Done(d)'
      BY <1>1, <1>2, <1>4, <1>5 DEF InTurn
    <2> QED
      BY <1>9, <1>10, <2>1, <2>2 DEF InTurn, Done
  <1> QED
    BY <1>7, <1>11

\* In turn, the notices answered are those before the one being handled.
LEMMA PrefixIsDone ==
  ASSUME PaidInv, InTurn, NEW h \in Handler, handling[h] # Waiting, NEW e, e = handling[h].event
  PROVE  /\ e \in DOMAIN notices /\ \A d \in DOMAIN notices : d \in Nat
         /\ \A d \in DOMAIN notices : Done(d) <=> d < e
  <1>1. e \in DOMAIN notices /\ \A d \in DOMAIN notices : d \in Nat
    BY DEF PaidInv, BillingShape
  <1>2. ~Done(e) /\ \A d \in DOMAIN notices : d < e => Done(d)
    BY DEF InTurn
  <1>3. ASSUME NEW d \in DOMAIN notices, Done(d)
        PROVE  d < e
    BY <1>1, <1>2, <1>3 DEF InTurn
  <1> QED
    BY <1>1, <1>2, <1>3

\* Answering it leaves nobody at work, and this notice the last one answered.
LEMMA AnsweredInTurn ==
  ASSUME PaidInv, PaidInv', InTurn, NEW h \in Handler, handling[h] # Waiting,
         NEW e, e = handling[h].event, Answer(h), purchases' = purchases
  PROVE  /\ InTurn'
         /\ DOMAIN notices' = DOMAIN notices /\ e \in DOMAIN notices
         /\ \A d \in DOMAIN notices : d \in Nat /\ (Done(d)' <=> d <= e)
         /\ \A d \in DOMAIN notices : notices'[d].type = notices[d].type /\ notices'[d].of = notices[d].of
         /\ \A d \in DOMAIN notices : Word(d)' = Word(d)
         /\ \A d \in DOMAIN notices : \A n \in DOMAIN purchases : (Concerns(d, n)' <=> Concerns(d, n))
  <1>0. BillingShape /\ BillingShape'
    BY DEF PaidInv
  <1>1. /\ e \in DOMAIN notices /\ \A d \in DOMAIN notices : d \in Nat
        /\ \A d \in DOMAIN notices : Done(d) <=> d < e
    BY PrefixIsDone
  <1>2. /\ notices' \in Seq(Notices) /\ DOMAIN notices' = DOMAIN notices
        /\ notices'[e].answered = notices[e].answered + 1
        /\ \A d \in DOMAIN notices : d # e => notices'[d].answered = notices[d].answered
        /\ \A d \in DOMAIN notices : notices'[d].type = notices[d].type /\ notices'[d].of = notices[d].of
        /\ \A d \in DOMAIN notices : notices[d].type = "updated" => notices'[d].status = notices[d].status
        /\ handling'[h] = Waiting
        /\ \A g \in Handler : g # h => handling'[g] = handling[g]
    BY <1>0, EventAnswered
  <1>3. \A g \in Handler : handling'[g] = Waiting
    BY <1>2 DEF InTurn
  <1>4. notices[e].answered \in Nat
    <2>1. notices[e] \in Notices
      BY <1>0, <1>1 DEF BillingShape
    <2> QED
      BY <2>1 DEF Notices
  <1>5. \A d \in DOMAIN notices : Done(d)' <=> d <= e
    <2> TAKE d \in DOMAIN notices
    <2>1. CASE d = e
      BY <1>1, <1>2, <1>4, <2>1 DEF Done
    <2>2. CASE d # e
      <3>1. Done(d)' <=> Done(d)
        BY <1>2, <2>2 DEF Done
      <3> QED
        BY <1>1, <2>2, <3>1
    <2> QED
      BY <2>1, <2>2
  <1>6. InTurn'
    <2>1. \A d, f \in DOMAIN notices' : d < f /\ Done(f)' => Done(d)'
      BY <1>1, <1>2, <1>5
    <2> QED
      BY <1>3, <2>1, BusyIsNotWaiting DEF InTurn
  <1>7. \A d \in DOMAIN notices :
            /\ Word(d)' = Word(d)
            /\ \A n \in DOMAIN purchases : (Concerns(d, n)' <=> Concerns(d, n))
    <2>1. /\ DOMAIN purchases \subseteq DOMAIN purchases'
          /\ \A n \in DOMAIN purchases : purchases'[n].provider = purchases[n].provider
          /\ DOMAIN notices \subseteq DOMAIN notices'
          /\ \A f \in DOMAIN notices' \ DOMAIN notices : \A d \in DOMAIN notices : d < f
      BY <1>2
    <2> QED
      BY <1>0, <1>2, <2>1, OldWordsStand
  <1> QED
    BY <1>1, <1>2, <1>5, <1>6, <1>7

\* A notice that is not about the row's purchase.
LEMMA NotConcerned ==
  ASSUME PaidInv, PaidInv', InTurn, NEW h \in Handler, handling[h] # Waiting,
         NEW e, e = handling[h].event, Answer(h), purchases' = purchases, row' = row,
         notices[e].type # "bought",
         \A b \in DOMAIN notices : Current(b) => RowStands(notices[b].of) /\ ~Concerns(e, notices[b].of)
  PROVE  InTurn' /\ \A b \in DOMAIN notices' : Current(b)' => RowStands(notices[b].of)'
  <1>1. /\ InTurn'
        /\ DOMAIN notices' = DOMAIN notices /\ e \in DOMAIN notices
        /\ \A d \in DOMAIN notices : d \in Nat /\ (Done(d)' <=> d <= e)
        /\ \A d \in DOMAIN notices : notices'[d].type = notices[d].type /\ notices'[d].of = notices[d].of
        /\ \A d \in DOMAIN notices : Word(d)' = Word(d)
        /\ \A d \in DOMAIN notices : \A n \in DOMAIN purchases : (Concerns(d, n)' <=> Concerns(d, n))
    BY AnsweredInTurn
  <1>2. \A d \in DOMAIN notices : Done(d) <=> d < e
    BY PrefixIsDone
  <1>3. \A b \in DOMAIN notices : Current(b)' => Current(b)
    BY <1>1, <1>2 DEF Current
  <1> SUFFICES ASSUME NEW b \in DOMAIN notices, Current(b), NEW n, n = notices[b].of
               PROVE  RowStands(n)' /\ n = notices'[b].of
    BY <1>1, <1>3
  <1>4. n \in DOMAIN purchases /\ RowStands(n) /\ ~Concerns(e, n)
    BY DEF PaidInv, BillingShape, Current
  <1>5. PICK l \in DOMAIN notices :
          /\ Done(l) /\ Concerns(l, n) /\ row.status = Word(l)
          /\ \A d \in DOMAIN notices : Done(d) /\ Concerns(d, n) => d <= l
    BY <1>4 DEF RowStands
  <1>6. /\ Done(l)' /\ Concerns(l, n)' /\ row'.status = Word(l)'
        /\ \A d \in DOMAIN notices' : Done(d)' /\ Concerns(d, n)' => d <= l
    BY <1>1, <1>2, <1>4, <1>5
  <1>7. \E f \in DOMAIN notices' :
          /\ Done(f)' /\ Concerns(f, n)' /\ row'.status = Word(f)'
          /\ \A d \in DOMAIN notices' : Done(d)' /\ Concerns(d, n)' => d <= f
    BY <1>1, <1>5, <1>6
  <1> QED
    BY <1>1, <1>4, <1>7 DEF RowStands

\* A subscription is found by an event that is about its purchase, and by no other.
LEMMA MatchIsConcern ==
  ASSUME PaidInv, HistoryInv, InTurn, NEW h \in Handler, handling[h] # Waiting,
         NEW e, e = handling[h].event, notices[e].type \in {"updated", "canceled"},
         NEW b \in DOMAIN notices, Current(b), RowStands(notices[b].of)
  PROVE  MatchesRow(h) <=> Concerns(e, notices[b].of)
  <1> DEFINE n == notices[b].of  k == notices[e].of
  <1>1. /\ e \in DOMAIN notices /\ \A d \in DOMAIN notices : d \in Nat
        /\ \A d \in DOMAIN notices : Done(d) <=> d < e
    BY PrefixIsDone
  <1>2. n \in DOMAIN purchases /\ k \in DOMAIN purchases /\ purchases \in Seq(Purchase)
    BY <1>1 DEF PaidInv, BillingShape, Current
  <1>3. /\ row.provider = purchases[n].provider /\ row.customer = purchases[n].customer
        /\ row.subscription = n
    BY DEF RowStands
  <1>4. BoughtBy(b, n) /\ b < e
    BY <1>1 DEF Current, BoughtBy
  <1>5. /\ purchases[n].customer = Customer(purchases[n].provider, n)
        /\ purchases[k].customer = Customer(purchases[k].provider, k)
        /\ notices[e].type = "updated" => purchases[k].provider = "stripe"
    BY <1>1, <1>2 DEF HistoryInv
  <1>6. purchases[n].provider \in Providers /\ purchases[k].provider \in Providers
    <2>1. purchases[n] \in Purchase /\ purchases[k] \in Purchase
      BY <1>2
    <2> QED
      BY <2>1 DEF Purchase
  <1>7. MatchesRow(h) <=> /\ row.provider = purchases[k].provider
                          /\ \/ row.provider = "stripe" /\ row.subscription = k
                             \/ row.customer = purchases[k].customer
    BY DEF MatchesRow, Bought, Event
  <1>8. Concerns(e, n) <=> \/ k = n
                           \/ notices[e].type = "canceled" /\ AtPaystack(k) /\ AtPaystack(n)
    BY <1>4 DEF Concerns
  <1> HIDE DEF n, k
  <1>9. /\ purchases[n].provider = "stripe" => purchases[n].customer = n
        /\ purchases[k].provider = "stripe" => purchases[k].customer = k
        /\ purchases[n].provider = "paystack" => purchases[n].customer = "payer"
        /\ purchases[k].provider = "paystack" => purchases[k].customer = "payer"
    BY <1>5 DEF Customer
  <1>10. /\ purchases[n].provider = "stripe" \/ AtPaystack(n)
         /\ purchases[k].provider = "stripe" \/ AtPaystack(k)
    BY <1>6 DEF Providers, AtPaystack
  <1>11. CASE k = n
    BY <1>3, <1>7, <1>8, <1>11 DEF n
  <1>12. CASE k # n
    <2>1. ASSUME MatchesRow(h)
          PROVE  Concerns(e, n)
      <3>1. AtPaystack(k) /\ AtPaystack(n)
        BY <1>3, <1>7, <1>9, <1>10, <1>12, <2>1 DEF AtPaystack
      <3>2. notices[e].type = "canceled"
        BY <1>5, <3>1 DEF AtPaystack
      <3> QED
        BY <1>8, <3>1, <3>2
    <2>2. ASSUME Concerns(e, n)
          PROVE  MatchesRow(h)
      <3>1. AtPaystack(k) /\ AtPaystack(n)
        BY <1>8, <1>12, <2>2
      <3> QED
        BY <1>3, <1>7, <1>9, <3>1 DEF AtPaystack
    <2> QED
      BY <2>1, <2>2 DEF n
  <1> QED
    BY <1>11, <1>12 DEF n

LEMMA RowStep ==
  ASSUME PaidInv, HistoryInv, RowInv, [BillingNext]_billingVars
  PROVE  RowInv'
  <1>0. PaidInv /\ PaidInv' /\ BillingShape
    BY PaidStep DEF PaidInv
  <1>n. \A d \in DOMAIN notices : d \in Nat
    BY <1>0 DEF BillingShape
  <1>1. CASE UNCHANGED <<purchases, notices, row, handling, disordered, billingFaults>>
    BY <1>1 DEF RowInv, InTurn, Current, Done, RowStands, Concerns, Word, AtPaystack, BoughtBy
  <1>2. ASSUME NEW p \in Providers, NEW plan \in PaidPlan, Buy(p, plan)
        PROVE  RowInv'
    <2> DEFINE r == [type |-> "bought", of |-> Len(purchases) + 1, answered |-> 0]
    <2>1. /\ notices' = Append(notices, r) /\ r \in Notices /\ r.answered = 0
          /\ DOMAIN purchases \subseteq DOMAIN purchases'
          /\ \A m \in DOMAIN purchases : purchases'[m] = purchases[m]
      BY <1>0, <1>2, PurchaseMade
    <2>2. UNCHANGED <<row, handling, disordered, billingFaults>>
      BY <1>2 DEF Buy
    <2> HIDE DEF r
    <2> QED
      BY <1>0, <2>1, <2>2, NoticeWaits
  <1>3. ASSUME NEW n \in DOMAIN purchases, NEW s \in {"active", "past_due"}, ChangeStatus(n, s)
        PROVE  RowInv'
    <2> DEFINE r == [type |-> "updated", of |-> n, answered |-> 0, status |-> s]
    <2>1. /\ notices' = Append(notices, r) /\ r \in Notices /\ r.answered = 0
          /\ DOMAIN purchases \subseteq DOMAIN purchases'
          /\ \A m \in DOMAIN purchases : /\ purchases'[m].provider = purchases[m].provider
                                         /\ purchases'[m].plan = purchases[m].plan
                                         /\ purchases'[m].customer = purchases[m].customer
      BY <1>0, <1>3, StatusChanged
    <2>2. UNCHANGED <<row, handling, disordered, billingFaults>>
      BY <1>3 DEF ChangeStatus
    <2> HIDE DEF r
    <2> QED
      BY <1>0, <2>1, <2>2, NoticeWaits
  <1>4. ASSUME NEW n \in DOMAIN purchases, Cancel(n)
        PROVE  RowInv'
    <2> DEFINE r == [type |-> "canceled", of |-> n, answered |-> 0]
    <2>1. /\ notices' = Append(notices, r) /\ r \in Notices /\ r.answered = 0
          /\ DOMAIN purchases \subseteq DOMAIN purchases'
          /\ \A m \in DOMAIN purchases : /\ purchases'[m].provider = purchases[m].provider
                                         /\ purchases'[m].plan = purchases[m].plan
                                         /\ purchases'[m].customer = purchases[m].customer
      BY <1>0, <1>4, PurchaseCanceled
    <2>2. UNCHANGED <<row, handling, disordered, billingFaults>>
      BY <1>4 DEF Cancel
    <2> HIDE DEF r
    <2> QED
      BY <1>0, <2>1, <2>2, NoticeWaits
  <1>5. ASSUME NEW n \in DOMAIN links, Charge(n)
        PROVE  RowInv'
    <2> DEFINE r == [type |-> "link_paid", of |-> n, answered |-> 0]
    <2>1. r \in Notices /\ r.answered = 0
      BY <1>0 DEF Notices, BillingShape
    <2>2. notices' = Append(notices, r) /\ UNCHANGED <<purchases, row, handling, disordered, billingFaults>>
      BY <1>5 DEF Charge, Notice
    <2> HIDE DEF r
    <2> QED
      BY <1>0, <2>1, <2>2, NoticeWaits
  <1>6. ASSUME NEW h \in Handler, NEW e \in DOMAIN notices, Receive(h, e)
        PROVE  RowInv'
    <2> DEFINE r == [pc |-> "look up", event |-> e]
    <2>1. /\ UNCHANGED <<purchases, notices, row, billingFaults>>
          /\ disordered' = (disordered \/ ~InOrder(e))
      BY <1>6 DEF Receive
    <2>2. handling' = [handling EXCEPT ![h] = r] /\ r.pc = "look up" /\ r.event = e
      BY <1>6 DEF Receive
    <2> HIDE DEF r
    <2>3. /\ handling'[h].pc = "look up" /\ handling'[h].event = e
          /\ \A g \in Handler : g # h => handling'[g] = handling[g]
      BY <1>0, <2>2 DEF BillingShape
    <2>4. disordered' \in BOOLEAN /\ billingFaults' \in Nat
      BY <2>1 DEF RowInv
    <2>5. ASSUME ~disordered', billingFaults' = 0
          PROVE  /\ InTurn'
                 /\ \A b \in DOMAIN notices' : Current(b)' => RowStands(notices[b].of)'
      <3>1. ~disordered /\ InOrder(e) /\ billingFaults = 0
        BY <2>1, <2>5
      <3>2. /\ notices[e].answered = 0 /\ \A g \in Handler : handling[g] = Waiting
            /\ \A d \in DOMAIN notices : d < e => Done(d)
        <4>1. \A d \in DOMAIN notices : d < e => d \in 1..(e - 1)
          BY <1>0 DEF BillingShape
        <4> QED
          BY <3>1, <4>1 DEF InOrder, Done
      <3>3. InTurn /\ \A b \in DOMAIN notices : Current(b) => RowStands(notices[b].of)
        BY <3>1 DEF RowInv
      <3>4. \A g \in Handler : g # h => handling'[g] = Waiting
        BY <2>3, <3>2
      <3>5. ~Done(e)
        BY <3>2 DEF Done
      <3>6. \A d \in DOMAIN notices : Done(d)' <=> Done(d)
        BY <2>1 DEF Done
      <3>7. InTurn'
        <4>1. \A d, f \in DOMAIN notices' : d < f /\ Done(f)' => Done(d)'
          BY <2>1, <3>3, <3>6 DEF InTurn
        <4>2. \A g \in Handler : handling'[g] # Waiting => g = h
          BY <3>4
        <4>3. \A g \in Handler : handling'[g].pc # "write"
          BY <2>3, <3>4, BusyIsNotWaiting
        <4>4. /\ ~(notices'[handling'[h].event].answered > 0)
              /\ \A d \in DOMAIN notices' : d < handling'[h].event => Done(d)'
          BY <2>1, <2>3, <3>2, <3>5, <3>6 DEF Done
        <4> QED
          BY <4>1, <4>2, <4>3, <4>4 DEF InTurn, Done
      <3>0. UNCHANGED <<purchases, notices, row>>
        BY <2>1
      <3>8. \A b \in DOMAIN notices' : Current(b)' => RowStands(notices[b].of)'
        BY <3>0, <3>3 DEF Current, Done, RowStands, Concerns, Word, AtPaystack, BoughtBy
      <3> QED
        BY <3>7, <3>8
    <2> QED
      BY <2>4, <2>5 DEF RowInv
  <1>7. ASSUME NEW h \in Handler, \/ Activate(h) \/ FindSubscription(h) \/ WriteSubscription(h)
                                  \/ HandlePaymentWebhook(h)
        PROVE  /\ handling[h] # Waiting /\ purchases' = purchases
               /\ disordered' = disordered
               /\ billingFaults' = billingFaults \/ billingFaults' = billingFaults + 1
    BY <1>7, BusyIsNotWaiting DEF Activate, FindSubscription, WriteSubscription, HandlePaymentWebhook,
       BillingFails, BillingHolds
  <1>8. ASSUME NEW h \in Handler, \/ Activate(h) \/ FindSubscription(h) \/ WriteSubscription(h)
                                  \/ HandlePaymentWebhook(h),
               ~disordered /\ billingFaults' = billingFaults =>
                  (InTurn /\ (\A b \in DOMAIN notices : Current(b) => RowStands(notices[b].of))
                   => /\ InTurn'
                      /\ \A b \in DOMAIN notices' : Current(b)' => RowStands(notices[b].of)')
        PROVE  RowInv'
    <2>1. disordered' = disordered /\ (billingFaults' = billingFaults \/ billingFaults' = billingFaults + 1)
      BY <1>7, <1>8
    <2>2. disordered' \in BOOLEAN /\ billingFaults' \in Nat /\ billingFaults \in Nat
      BY <2>1 DEF RowInv
    <2>3. ASSUME ~disordered', billingFaults' = 0
          PROVE  ~disordered /\ billingFaults = 0 /\ billingFaults' = billingFaults
      BY <2>1, <2>2, <2>3
    <2> QED
      BY <1>8, <2>2, <2>3 DEF RowInv
  <1>9. ASSUME NEW h \in Handler, Activate(h)
        PROVE  RowInv'
    <2> SUFFICES ASSUME ~disordered, billingFaults' = billingFaults, InTurn,
                        \A b \in DOMAIN notices : Current(b) => RowStands(notices[b].of)
                 PROVE  /\ InTurn'
                        /\ \A b \in DOMAIN notices' : Current(b)' => RowStands(notices[b].of)'
      BY <1>8, <1>9
    <2>0. PICK e : e = handling[h].event
      OBVIOUS
    <2>1. /\ handling[h] # Waiting /\ Answer(h) /\ purchases' = purchases
          /\ row' = Subscription(notices[e].of) /\ notices[e].type = "bought"
      <3>1. billingFaults' # billingFaults + 1
        BY DEF RowInv
      <3> QED
        BY <1>7, <1>9, <2>0, <3>1 DEF Activate, Event, BillingFails
    <2>2. /\ InTurn'
          /\ DOMAIN notices' = DOMAIN notices /\ e \in DOMAIN notices
          /\ \A d \in DOMAIN notices : d \in Nat /\ (Done(d)' <=> d <= e)
          /\ \A d \in DOMAIN notices : notices'[d].type = notices[d].type /\ notices'[d].of = notices[d].of
          /\ \A d \in DOMAIN notices : Word(d)' = Word(d)
          /\ \A d \in DOMAIN notices : \A n \in DOMAIN purchases : (Concerns(d, n)' <=> Concerns(d, n))
      BY <1>0, <2>0, <2>1, AnsweredInTurn
    <2>3. \A b \in DOMAIN notices' : Current(b)' => b = e
      BY <2>1, <2>2 DEF Current
    <2>4. PICK n : n = notices[e].of
      OBVIOUS
    <2>5. n \in DOMAIN purchases /\ n = notices'[e].of
      BY <1>0, <2>1, <2>2, <2>4 DEF BillingShape
    <2>6. /\ row'.provider = purchases[n].provider /\ row'.customer = purchases[n].customer
          /\ row'.subscription = n /\ row'.plan = purchases[n].plan /\ row'.status = "active"
      BY <1>0, <2>1, <2>4, <2>5, SubscriptionIsRow
    <2>7. Done(e)' /\ Concerns(e, n)' /\ Word(e)' = "active"
          /\ \A d \in DOMAIN notices' : Done(d)' => d <= e
      BY <2>1, <2>2, <2>4, <2>5 DEF Concerns, Word
    <2>8. RowStands(n)'
      BY <2>1, <2>2, <2>6, <2>7 DEF RowStands
    <2> QED
      BY <2>2, <2>3, <2>5, <2>8
  <1>10. ASSUME NEW h \in Handler, HandlePaymentWebhook(h)
         PROVE  RowInv'
    <2> SUFFICES ASSUME ~disordered, billingFaults' = billingFaults, InTurn,
                        \A b \in DOMAIN notices : Current(b) => RowStands(notices[b].of)
                 PROVE  /\ InTurn'
                        /\ \A b \in DOMAIN notices' : Current(b)' => RowStands(notices[b].of)'
      BY <1>8, <1>10
    <2>0. PICK e : e = handling[h].event
      OBVIOUS
    <2>1. /\ handling[h] # Waiting /\ Answer(h) /\ purchases' = purchases
          /\ row' = row /\ notices[e].type = "link_paid"
      <3>1. billingFaults' # billingFaults + 1
        BY DEF RowInv
      <3> QED
        BY <1>7, <1>10, <2>0, <3>1 DEF HandlePaymentWebhook, Event, BillingFails
    <2>2. \A n : ~Concerns(e, n)
      BY <2>1 DEF Concerns
    <2> QED
      BY <1>0, <2>0, <2>1, <2>2, NotConcerned
  <1>11. ASSUME NEW h \in Handler, FindSubscription(h)
         PROVE  RowInv'
    <2> SUFFICES ASSUME ~disordered, billingFaults' = billingFaults, InTurn,
                        \A b \in DOMAIN notices : Current(b) => RowStands(notices[b].of)
                 PROVE  /\ InTurn'
                        /\ \A b \in DOMAIN notices' : Current(b)' => RowStands(notices[b].of)'
      BY <1>8, <1>11
    <2>0. PICK e : e = handling[h].event
      OBVIOUS
    <2>1. /\ handling[h] # Waiting /\ purchases' = purchases /\ row' = row
          /\ notices[e].type \in {"updated", "canceled"}
          /\ \/ ~MatchesRow(h) /\ Answer(h)
             \/ /\ MatchesRow(h) /\ notices' = notices
                /\ handling' = [handling EXCEPT ![h] = [pc |-> "write", event |-> e, read |-> row]]
      <3>1. billingFaults' # billingFaults + 1
        BY DEF RowInv
      <3> QED
        BY <1>7, <1>11, <2>0, <3>1 DEF FindSubscription, Event, BillingFails
    <2>2. \A b \in DOMAIN notices : Current(b) => (MatchesRow(h) <=> Concerns(e, notices[b].of))
      BY <1>0, <2>0, <2>1, MatchIsConcern
    <2>3. CASE ~MatchesRow(h) /\ Answer(h)
      BY <1>0, <2>0, <2>1, <2>2, <2>3, NotConcerned
    <2>4. CASE /\ MatchesRow(h) /\ notices' = notices
               /\ handling' = [handling EXCEPT ![h] = [pc |-> "write", event |-> e, read |-> row]]
      <3> DEFINE r == [pc |-> "write", event |-> e, read |-> row]
      <3>1. r.pc = "write" /\ r.event = e /\ r.read = row /\ handling' = [handling EXCEPT ![h] = r]
        BY <2>4
      <3> HIDE DEF r
      <3>2. handling'[h].pc = "write" /\ handling'[h].event = e /\ handling'[h].read = row
            /\ \A g \in Handler : g # h => handling'[g] = handling[g]
        BY <1>0, <3>1 DEF BillingShape
      <3>3. \A g \in Handler : g # h => handling'[g] = Waiting
        BY <2>1, <3>2 DEF InTurn
      <3>4. UNCHANGED <<purchases, notices, row>>
        BY <2>1, <2>4
      <3>5. \A b \in DOMAIN notices' : /\ Done(b)' <=> Done(b)
                                       /\ Current(b)' <=> Current(b)
                                       /\ \A n : (Concerns(b, n)' <=> Concerns(b, n))
        BY <3>4 DEF Done, Current, Concerns, AtPaystack, BoughtBy
      <3>6. e \in DOMAIN notices
        BY <1>0, <2>0, <2>1 DEF BillingShape
      <3>7. InTurn'
        <4>1. \A d, g \in DOMAIN notices' : d < g /\ Done(g)' => Done(d)'
          BY <3>4, <3>5 DEF InTurn
        <4>2. \A g \in Handler : handling'[g] # Waiting => g = h
          BY <3>3
        <4>3. \A g \in Handler : handling'[g].pc = "write" => g = h
          BY <3>3, BusyIsNotWaiting
        <4>4. /\ ~(notices'[handling'[h].event].answered > 0)
              /\ \A d \in DOMAIN notices' : d < handling'[h].event => Done(d)'
          BY <2>0, <2>1, <3>2, <3>4, <3>5 DEF InTurn, Done
        <4>5. \A b \in DOMAIN notices' : Current(b)' => Concerns(e, notices[b].of)
          BY <2>2, <2>4, <3>4, <3>5
        <4>6. handling'[h].read = row'
          BY <3>2, <3>4
        <4>7. \A b \in DOMAIN notices' : Current(b)' => Concerns(handling[h].event, notices[b].of)'
          <5> SUFFICES ASSUME NEW b \in DOMAIN notices', Current(b)', NEW n, n = notices[b].of
                       PROVE  Concerns(e, n)' /\ e = handling'[h].event /\ n = notices'[b].of
            OBVIOUS
          <5> QED
            BY <3>2, <3>4, <3>5, <3>6, <4>5
        <4> QED
          BY <4>1, <4>2, <4>3, <4>4, <4>6, <4>7 DEF InTurn, Done
      <3>8. \A b \in DOMAIN notices' : Current(b)' => RowStands(notices[b].of)'
        BY <3>4 DEF Current, Done, RowStands, Concerns, Word, AtPaystack, BoughtBy
      <3> QED
        BY <3>7, <3>8
    <2> QED
      BY <2>1, <2>3, <2>4
  <1>12. ASSUME NEW h \in Handler, WriteSubscription(h)
         PROVE  RowInv'
    <2> SUFFICES ASSUME ~disordered, billingFaults' = billingFaults, InTurn,
                        \A b \in DOMAIN notices : Current(b) => RowStands(notices[b].of)
                 PROVE  /\ InTurn'
                        /\ \A b \in DOMAIN notices' : Current(b)' => RowStands(notices[b].of)'
      BY <1>8, <1>12
    <2>0. PICK e : e = handling[h].event
      OBVIOUS
    <2>1. /\ handling[h] # Waiting /\ handling[h].pc = "write" /\ Answer(h) /\ purchases' = purchases
          /\ row' = IF notices[e].type = "canceled" THEN Downgraded(handling[h].read)
                    ELSE [handling[h].read EXCEPT !.status = notices[e].status]
      <3>1. billingFaults' # billingFaults + 1
        BY DEF RowInv
      <3> QED
        BY <1>7, <1>12, <2>0, <3>1 DEF WriteSubscription, Event, BillingFails
    <2>2. /\ InTurn'
          /\ DOMAIN notices' = DOMAIN notices /\ e \in DOMAIN notices
          /\ \A d \in DOMAIN notices : d \in Nat /\ (Done(d)' <=> d <= e)
          /\ \A d \in DOMAIN notices : notices'[d].type = notices[d].type /\ notices'[d].of = notices[d].of
          /\ \A d \in DOMAIN notices : Word(d)' = Word(d)
          /\ \A d \in DOMAIN notices : \A n \in DOMAIN purchases : (Concerns(d, n)' <=> Concerns(d, n))
      BY <1>0, <2>0, <2>1, AnsweredInTurn
    <2>3. \A d \in DOMAIN notices : Done(d) <=> d < e
      BY <1>0, <2>0, <2>1, PrefixIsDone
    <2>4. /\ notices[e].type \in {"updated", "canceled"} /\ row \in SubscriptionRow /\ handling[h].read = row
          /\ notices[e].type = "updated" => notices[e].status \in {"active", "past_due"}
      <3>1. notices[e] \in Notices
        BY <1>0, <2>2 DEF BillingShape
      <3>2. notices[e].type = "updated" => notices[e].status \in {"active", "past_due"}
        BY <3>1 DEF Notices
      <3> QED
        BY <1>0, <2>0, <2>1, <3>2 DEF BillingShape, InTurn
    <2>5. /\ row'.provider = row.provider /\ row'.customer = row.customer
          /\ row'.subscription = row.subscription /\ row'.status = Word(e)
          /\ row'.plan = IF notices[e].type = "canceled" THEN Starter ELSE row.plan
      <3>1. CASE notices[e].type = "canceled"
        BY <2>1, <2>4, <3>1, DowngradedIsRow DEF Word
      <3>2. CASE notices[e].type = "updated"
        <4>1. notices[e].status \in Standings
          BY <2>4, <3>2 DEF Standings
        <4> QED
          BY <2>1, <2>4, <3>2, <4>1, RestatedIsRow DEF Word
      <3> QED
        BY <2>4, <3>1, <3>2
    <2>6. \A b \in DOMAIN notices : Current(b)' => Current(b)
      BY <2>2, <2>3, <2>4 DEF Current
    <2> SUFFICES ASSUME NEW b \in DOMAIN notices, Current(b), NEW n, n = notices[b].of
                 PROVE  RowStands(n)' /\ n = notices'[b].of
      BY <2>2, <2>6
    <2>7. n \in DOMAIN purchases /\ RowStands(n) /\ Concerns(e, n)
      BY <1>0, <2>0, <2>1 DEF BillingShape, Current, InTurn
    <2>8. PICK l \in DOMAIN notices :
            /\ Done(l) /\ Concerns(l, n) /\ row.status = Word(l)
            /\ \A d \in DOMAIN notices : Done(d) /\ Concerns(d, n) => d <= l
      BY <2>7 DEF RowStands
    <2>9. row.status = "canceled" => Word(e) = "canceled"
      BY <2>2, <2>3, <2>7, <2>8 DEF HistoryInv
    <2>10. Word(e) = "canceled" <=> notices[e].type = "canceled"
      BY <2>4 DEF Word
    <2>11. row'.plan = IF row'.status = "canceled" THEN Starter ELSE purchases[n].plan
      BY <2>5, <2>7, <2>9, <2>10 DEF RowStands
    <2>12. /\ Done(e)' /\ Concerns(e, n)' /\ row'.status = Word(e)'
           /\ \A d \in DOMAIN notices' : Done(d)' => d <= e
      BY <2>2, <2>5, <2>7
    <2>13. /\ row'.provider = purchases'[n].provider /\ row'.customer = purchases'[n].customer
           /\ row'.subscription = n
      BY <2>1, <2>5, <2>7 DEF RowStands
    <2> QED
      BY <2>1, <2>2, <2>11, <2>12, <2>13 DEF RowStands
  <1> QED
    BY <1>1, <1>2, <1>3, <1>4, <1>5, <1>6, <1>9, <1>10, <1>11, <1>12
    DEF BillingNext, billingVars, Providers, CreatePaymentLink

\* When every notice was handled once, in order, alone and without a failure, the
\* tenant has the plan of the last purchase as it stands at its provider, for any
\* number of purchases at two providers, renewals and cancellations.
THEOREM PlanIsLastPurchase == BillingSpec => []PlanFollowsPurchases
  <1>1. ASSUME PaidInv, HistoryInv, RowInv
        PROVE  PlanFollowsPurchases
    <2> DEFINE last == Len(purchases)
    <2> SUFFICES ASSUME Settled, ~disordered, billingFaults = 0, purchases # <<>>
                 PROVE  /\ row.plan = IF purchases[last].status = "canceled" THEN Starter
                                      ELSE purchases[last].plan
                        /\ row.status = purchases[last].status
      BY DEF PlanFollowsPurchases
    <2>1. /\ last \in DOMAIN purchases /\ \A n \in DOMAIN purchases : n \in Nat /\ n <= last
          /\ \A d \in DOMAIN notices : d \in Nat
          /\ \A d \in DOMAIN notices : notices[d].type = "bought" => notices[d].of \in DOMAIN purchases
      BY <1>1 DEF PaidInv, BillingShape
    <2> HIDE DEF last
    <2>2. \A e \in DOMAIN notices : Done(e)
      BY DEF Settled, Done
    <2>3. PICK b \in DOMAIN notices : BoughtBy(b, last)
      BY <1>1, <2>1 DEF HistoryInv
    <2>4. Current(b)
      <3> SUFFICES ASSUME NEW c \in DOMAIN notices, notices[c].type = "bought", c > b
                   PROVE  FALSE
        BY <2>1, <2>2, <2>3 DEF Current, BoughtBy
      <3>1. notices[b].of < notices[c].of
        BY <1>1, <2>1, <2>3 DEF HistoryInv, BoughtBy
      <3> QED
        BY <2>1, <2>3, <3>1 DEF BoughtBy
    <2>5. RowStands(last)
      BY <1>1, <2>3, <2>4 DEF RowInv, BoughtBy
    <2>6. PICK e \in DOMAIN notices : /\ Concerns(e, last) /\ row.status = Word(e)
                                      /\ \A d \in DOMAIN notices : Concerns(d, last) => d <= e
      BY <2>2, <2>5 DEF RowStands
    <2>7. PICK f \in DOMAIN notices : /\ Concerns(f, last) /\ purchases[last].status = Word(f)
                                      /\ \A d \in DOMAIN notices : Concerns(d, last) => d <= f
      BY <1>1, <2>1 DEF HistoryInv
    <2>8. e = f
      BY <2>1, <2>6, <2>7
    <2> QED
      BY <2>5, <2>6, <2>7, <2>8 DEF RowStands
  <1>2. BillingInit => PaidInv /\ HistoryInv /\ RowInv
    BY PaidStart, HistoryStart, RowStart
  <1>3. PaidInv /\ HistoryInv /\ RowInv /\ [BillingNext]_billingVars
        => PaidInv' /\ HistoryInv' /\ RowInv'
    BY PaidStep, HistoryStep, RowStep
  <1> QED
    BY <1>1, <1>2, <1>3, PTL DEF BillingSpec

-----------------------------------------------------------------------------
(* How often a notice is answered *)

Held(e) == {h \in Handler : handling[h] # Waiting /\ handling[h].event = e}

\* A provider stops at DeliveryLimit answers, but the deliveries under way by
\* then are answered too.
DeliveredInv ==
    \A e \in DOMAIN notices :
        notices[e].answered + Cardinality(Held(e)) < DeliveryLimit + Cardinality(Handler)

LEMMA HeldIsFinite ==
  ASSUME NEW S \in SUBSET Handler
  PROVE  /\ IsFiniteSet(S) /\ Cardinality(S) \in Nat /\ Cardinality(Handler) \in Nat
         /\ Cardinality(S) <= Cardinality(Handler)
         /\ \A T \in SUBSET S : Cardinality(T) \in Nat /\ Cardinality(T) <= Cardinality(S)
<1>1. IsFiniteSet(Handler) /\ Cardinality(Handler) \in Nat
  BY BillingAssumption, FS_CardinalityType
<1>2. IsFiniteSet(S) /\ Cardinality(S) <= Cardinality(Handler)
  BY <1>1, FS_Subset
<1>3. Cardinality(S) \in Nat
  BY <1>2, FS_CardinalityType
<1>4. ASSUME NEW T \in SUBSET S PROVE Cardinality(T) \in Nat /\ Cardinality(T) <= Cardinality(S)
  <2>1. IsFiniteSet(T) /\ Cardinality(T) <= Cardinality(S)
    BY <1>2, FS_Subset
  <2> QED  BY <2>1, FS_CardinalityType
<1> QED  BY <1>1, <1>2, <1>3, <1>4

LEMMA NoticeCounts ==
  ASSUME BillingShape, NEW e \in DOMAIN notices
  PROVE  notices[e].answered \in Nat
<1>1. notices[e] \in Notices
  BY DEF BillingShape
<1> QED  BY <1>1 DEF Notices

LEMMA DeliveredStart == BillingInit => DeliveredInv
  BY DEF BillingInit, DeliveredInv

\* What a step does to the notices and the requests.
NoticeAdded ==
    /\ handling' = handling
    /\ \E r \in Notices : notices' = Append(notices, r) /\ r.answered = 0

HandlerMoved(h) ==
    /\ notices' = notices
    /\ \E r \in Handles : /\ handling' = [handling EXCEPT ![h] = r]
                          /\ r # Waiting => handling[h] # Waiting /\ r.event = handling[h].event

LEMMA BillingEffect ==
  ASSUME BillingShape, [BillingNext]_billingVars
  PROVE  \/ UNCHANGED <<notices, handling>>
         \/ NoticeAdded
         \/ \E h \in Handler : \/ \E e \in DOMAIN notices : Receive(h, e)
                               \/ handling[h] # Waiting /\ (HandlerMoved(h) \/ Answer(h))
<1>1. ASSUME NEW p \in Providers, NEW plan \in PaidPlan, Buy(p, plan)
      PROVE  NoticeAdded
  <2> DEFINE r == [type |-> "bought", of |-> Len(purchases) + 1, answered |-> 0]
  <2>1. notices' = Append(notices, r) /\ r \in Notices /\ r.answered = 0
    BY <1>1, PurchaseMade
  <2> QED  BY <1>1, <2>1 DEF NoticeAdded, Buy
<1>2. ASSUME NEW n \in DOMAIN purchases, NEW s \in {"active", "past_due"}, ChangeStatus(n, s)
      PROVE  NoticeAdded
  <2> DEFINE r == [type |-> "updated", of |-> n, answered |-> 0, status |-> s]
  <2>1. notices' = Append(notices, r) /\ r \in Notices /\ r.answered = 0
    BY <1>2, StatusChanged
  <2> QED  BY <1>2, <2>1 DEF NoticeAdded, ChangeStatus
<1>3. ASSUME NEW n \in DOMAIN purchases, Cancel(n)
      PROVE  NoticeAdded
  <2> DEFINE r == [type |-> "canceled", of |-> n, answered |-> 0]
  <2>1. notices' = Append(notices, r) /\ r \in Notices /\ r.answered = 0
    BY <1>3, PurchaseCanceled
  <2> QED  BY <1>3, <2>1 DEF NoticeAdded, Cancel
<1>4. ASSUME NEW n \in DOMAIN links, Charge(n)
      PROVE  NoticeAdded
  <2> DEFINE r == [type |-> "link_paid", of |-> n, answered |-> 0]
  <2>1. notices' = Append(notices, r) /\ r \in Notices /\ r.answered = 0
    BY <1>4 DEF Charge, Notice, Notices, BillingShape
  <2> QED  BY <1>4, <2>1 DEF NoticeAdded, Charge
<1>5. ASSUME NEW h \in Handler,
             Activate(h) \/ FindSubscription(h) \/ WriteSubscription(h) \/ HandlePaymentWebhook(h)
      PROVE  handling[h] # Waiting /\ (HandlerMoved(h) \/ Answer(h))
  <2>1. handling[h].pc \in {"look up", "write"}
    BY <1>5 DEF Activate, FindSubscription, WriteSubscription, HandlePaymentWebhook
  <2>2. handling[h] # Waiting
    BY <2>1, BusyIsNotWaiting
  <2>3. CASE handling' = [handling EXCEPT ![h] = Waiting] /\ notices' = notices
    BY <2>2, <2>3, BusyIsNotWaiting DEF HandlerMoved
  <2>4. CASE FindSubscription(h)
             /\ handling' = [handling EXCEPT ![h] = [pc |-> "write", event |-> @.event, read |-> row]]
             /\ notices' = notices
    <3> DEFINE r == [pc |-> "write", event |-> handling[h].event, read |-> row]
    <3>1. handling[h].event \in Nat /\ row \in SubscriptionRow
      BY <2>2 DEF BillingShape
    <3>2. r \in Handles /\ r.event = handling[h].event
      BY <3>1 DEF Handles
    <3>3. handling' = [handling EXCEPT ![h] = r]
      BY <2>4
    <3> HIDE DEF r
    <3> QED  BY <2>2, <2>4, <3>2, <3>3 DEF HandlerMoved
  <2> QED
    BY <1>5, <2>2, <2>3, <2>4 DEF Activate, FindSubscription, WriteSubscription, HandlePaymentWebhook
<1> QED
  BY <1>1, <1>2, <1>3, <1>4, <1>5 DEF BillingNext, billingVars, CreatePaymentLink, Providers

LEMMA DeliveredStep ==
  ASSUME BillingShape, DeliveredInv, [BillingNext]_billingVars
  PROVE  DeliveredInv'
<1>0. DeliveryLimit \in Nat /\ DeliveryLimit >= 1 /\ Cardinality(Handler) \in Nat
  BY BillingAssumption, FS_CardinalityType
<1>1. CASE UNCHANGED <<notices, handling>>
  BY <1>1 DEF DeliveredInv, Held
<1>2. CASE NoticeAdded
  <2>1. PICK r \in Notices : notices' = Append(notices, r) /\ r.answered = 0
    BY <1>2 DEF NoticeAdded
  <2>2. /\ DOMAIN notices' = DOMAIN notices \cup {Len(notices) + 1}
        /\ notices'[Len(notices) + 1] = r
        /\ \A e \in DOMAIN notices : notices'[e] = notices[e]
    BY <2>1, NoticeSent
  <2> SUFFICES ASSUME NEW e \in DOMAIN notices'
               PROVE  notices'[e].answered + Cardinality(Held(e)') < DeliveryLimit + Cardinality(Handler)
    BY DEF DeliveredInv
  <2>3. Held(e)' = Held(e)
    BY <1>2 DEF NoticeAdded, Held
  <2>4. CASE e \in DOMAIN notices
    BY <2>2, <2>3, <2>4 DEF DeliveredInv
  <2>5. CASE e \notin DOMAIN notices
    <3>1. Held(e) = {}
      BY <2>5 DEF Held, BillingShape
    <3>2. Cardinality(Held(e)) = 0
      BY <3>1, FS_EmptySet
    <3> QED  BY <1>0, <2>1, <2>2, <2>3, <2>5, <3>2
  <2> QED  BY <2>4, <2>5
<1>3. ASSUME NEW h \in Handler, NEW d \in DOMAIN notices, Receive(h, d)
      PROVE  DeliveredInv'
  <2> SUFFICES ASSUME NEW e \in DOMAIN notices
               PROVE  notices[e].answered + Cardinality(Held(e)') < DeliveryLimit + Cardinality(Handler)
    BY <1>3 DEF DeliveredInv, Receive
  <2> DEFINE r == [pc |-> "look up", event |-> d]
  <2>0. r \in Handles /\ r.event = d /\ r # Waiting
    <3>1. d \in Nat
      BY DEF BillingShape
    <3> QED  BY <3>1 DEF Handles, Waiting
  <2>1. handling' = [handling EXCEPT ![h] = r] /\ notices[d].answered < DeliveryLimit
        /\ handling[h] = Waiting
    BY <1>3 DEF Receive
  <2> HIDE DEF r
  <2>2. handling'[h] = r /\ \A g \in Handler : g # h => handling'[g] = handling[g]
    BY <2>0, <2>1, HandlerSet
  <2>3. CASE e = d
    <3>1. Held(e)' \in SUBSET Handler
      BY DEF Held
    <3> QED  BY <1>0, <2>1, <2>3, <3>1, HeldIsFinite, NoticeCounts
  <2>4. CASE e # d
    <3>1. Held(e)' = Held(e)
      BY <2>0, <2>1, <2>2, <2>4 DEF Held
    <3> QED  BY <3>1 DEF DeliveredInv
  <2> QED  BY <2>3, <2>4
<1>4. ASSUME NEW h \in Handler, handling[h] # Waiting, HandlerMoved(h)
      PROVE  DeliveredInv'
  <2>1. PICK r \in Handles : /\ handling' = [handling EXCEPT ![h] = r]
                             /\ r # Waiting => r.event = handling[h].event
    BY <1>4 DEF HandlerMoved
  <2>2. handling'[h] = r /\ \A g \in Handler : g # h => handling'[g] = handling[g]
    BY <2>1, HandlerSet
  <2>3. notices' = notices
    BY <1>4 DEF HandlerMoved
  <2> SUFFICES ASSUME NEW e \in DOMAIN notices
               PROVE  notices[e].answered + Cardinality(Held(e)') < DeliveryLimit + Cardinality(Handler)
    BY <2>3 DEF DeliveredInv
  <2>4. Held(e)' \in SUBSET Held(e) /\ Held(e) \in SUBSET Handler
    BY <1>4, <2>1, <2>2 DEF Held
  <2>5. Cardinality(Held(e)') <= Cardinality(Held(e)) /\ Cardinality(Held(e)') \in Nat
        /\ Cardinality(Held(e)) \in Nat
    BY <2>4, HeldIsFinite
  <2>6. notices[e].answered + Cardinality(Held(e)) < DeliveryLimit + Cardinality(Handler)
    BY DEF DeliveredInv
  <2> QED  BY <1>0, <2>5, <2>6, NoticeCounts
<1>5. ASSUME NEW h \in Handler, handling[h] # Waiting, Answer(h)
      PROVE  DeliveredInv'
  <2> DEFINE d == handling[h].event
  <2>1. /\ d \in DOMAIN notices /\ DOMAIN notices' = DOMAIN notices
        /\ notices'[d].answered = notices[d].answered + 1
        /\ \A e \in DOMAIN notices : e # d => notices'[e].answered = notices[e].answered
        /\ handling'[h] = Waiting
        /\ \A g \in Handler : g # h => handling'[g] = handling[g]
    BY <1>5, EventAnswered
  <2> SUFFICES ASSUME NEW e \in DOMAIN notices
               PROVE  notices'[e].answered + Cardinality(Held(e)') < DeliveryLimit + Cardinality(Handler)
    BY <2>1 DEF DeliveredInv
  <2>2. notices[e].answered + Cardinality(Held(e)) < DeliveryLimit + Cardinality(Handler)
    BY DEF DeliveredInv
  <2>3. CASE e = d
    <3>1. h \in Held(e) /\ Held(e)' = Held(e) \ {h} /\ Held(e) \in SUBSET Handler
      BY <1>5, <2>1, <2>3 DEF Held
    <3>2. IsFiniteSet(Held(e)) /\ Cardinality(Held(e)) \in Nat
      BY <3>1, HeldIsFinite
    <3>3. Cardinality(Held(e)') = Cardinality(Held(e)) - 1
      BY <3>1, <3>2, FS_RemoveElement
    <3>4. notices'[e].answered = notices[e].answered + 1 /\ notices[e].answered \in Nat
      BY <2>1, <2>3, NoticeCounts
    <3> QED  BY <1>0, <2>2, <3>2, <3>3, <3>4
  <2>4. CASE e # d
    <3>1. Held(e)' = Held(e)
      BY <1>5, <2>1, <2>4 DEF Held
    <3> QED  BY <2>1, <2>2, <2>4, <3>1
  <2> QED  BY <2>3, <2>4
<1> QED
  BY <1>1, <1>2, <1>3, <1>4, <1>5, BillingEffect

\* A charge is told by one notice, and confirmed in the chat no more often than
\* that notice is answered.
ConfirmedInv ==
    /\ \A d, e \in DOMAIN notices :
          notices[d].type = "link_paid" /\ notices[e].type = "link_paid" /\ notices[d].of = notices[e].of
          => d = e
    /\ \A n \in DOMAIN links : links[n].confirmed > 0 =>
          \E e \in DOMAIN notices : /\ notices[e].type = "link_paid" /\ notices[e].of = n
                                    /\ links[n].confirmed <= notices[e].answered

LEMMA ConfirmedStart == BillingInit => ConfirmedInv
  BY DEF BillingInit, ConfirmedInv

LEMMA LinkConfirmed ==
  ASSUME links \in Seq(Links), NEW n \in DOMAIN links,
         \/ links' = [links EXCEPT ![n] = Confirmed(Marked(@))]
         \/ links' = [links EXCEPT ![n] = Marked(@)]
  PROVE  /\ DOMAIN links' = DOMAIN links
         /\ \A m \in DOMAIN links : m # n => links'[m] = links[m]
         /\ links'[n].confirmed \in {links[n].confirmed, links[n].confirmed + 1}
<1> DEFINE r == Marked(links[n])  s == Confirmed(Marked(links[n]))
<1>0. links[n] \in Links
  OBVIOUS
<1>1. r \in Links /\ r.confirmed = links[n].confirmed
  BY <1>0 DEF Marked, Links
<1>2. s \in Links /\ s.confirmed = links[n].confirmed + 1
  <2> HIDE DEF r
  <2>1. Confirmed(r) \in Links /\ Confirmed(r).confirmed = r.confirmed + 1
    BY <1>1 DEF Links, Confirmed
  <2> QED  BY <1>1, <2>1 DEF r
<1>3. links' = [links EXCEPT ![n] = r] \/ links' = [links EXCEPT ![n] = s]
  OBVIOUS
<1> HIDE DEF r, s
<1>4. ASSUME NEW x \in Links, links' = [links EXCEPT ![n] = x]
      PROVE  /\ DOMAIN links' = DOMAIN links /\ links'[n] = x
             /\ \A m \in DOMAIN links : m # n => links'[m] = links[m]
  BY <1>4, OneIsSet
<1> QED  BY <1>1, <1>2, <1>3, <1>4

\* Notices keep what they say; a step that confirms no link keeps the invariant.
LEMMA ConfirmedKept ==
  ASSUME BillingShape, ConfirmedInv,
         DOMAIN notices' = DOMAIN notices, DOMAIN links' = DOMAIN links,
         \A e \in DOMAIN notices : /\ notices'[e].type = notices[e].type /\ notices'[e].of = notices[e].of
                                   /\ notices'[e].answered >= notices[e].answered
                                   /\ notices'[e].answered \in Nat,
         \A n \in DOMAIN links : links'[n].confirmed = links[n].confirmed /\ links[n].confirmed \in Nat
  PROVE  ConfirmedInv'
<1>1. ASSUME NEW n \in DOMAIN links, links'[n].confirmed > 0
      PROVE  \E e \in DOMAIN notices : /\ notices'[e].type = "link_paid" /\ notices'[e].of = n
                                       /\ links'[n].confirmed <= notices'[e].answered
  <2>1. PICK e \in DOMAIN notices : /\ notices[e].type = "link_paid" /\ notices[e].of = n
                                    /\ links[n].confirmed <= notices[e].answered
    BY <1>1 DEF ConfirmedInv
  <2>2. notices[e].answered \in Nat
    BY NoticeCounts
  <2> QED  BY <2>1, <2>2
<1> QED  BY <1>1 DEF ConfirmedInv

LEMMA ConfirmedStep ==
  ASSUME PaidInv, ConfirmedInv, [BillingNext]_billingVars
  PROVE  ConfirmedInv'
<1>0. /\ BillingShape /\ links \in Seq(Links)
      /\ \A e \in DOMAIN notices : notices[e].answered \in Nat
      /\ \A n \in DOMAIN links : links[n].confirmed \in Nat
  <2>1. BillingShape /\ links \in Seq(Links)
    BY DEF PaidInv, BillingShape
  <2>2. \A n \in DOMAIN links : links[n] \in Links
    BY <2>1
  <2> QED  BY <2>1, <2>2, NoticeCounts DEF Links
<1>1. CASE UNCHANGED <<notices, links>>
  BY <1>1 DEF ConfirmedInv
<1>2. ASSUME NEW r \in Notices, notices' = Append(notices, r), DOMAIN links' = DOMAIN links,
             \A n \in DOMAIN links : links'[n].confirmed = links[n].confirmed,
             r.type = "link_paid" => ~ links[r.of].charged
      PROVE  ConfirmedInv'
  <2>1. /\ DOMAIN notices' = DOMAIN notices \cup {Len(notices) + 1}
        /\ notices'[Len(notices) + 1] = r
        /\ \A e \in DOMAIN notices : notices'[e] = notices[e]
    BY <1>0, <1>2, NoticeSent
  <2>2. \A e \in DOMAIN notices : notices[e].type = "link_paid" => links[notices[e].of].charged
    BY DEF PaidInv
  <2>3. \A d, e \in DOMAIN notices' :
          notices'[d].type = "link_paid" /\ notices'[e].type = "link_paid" /\ notices'[d].of = notices'[e].of
          => d = e
    BY <1>2, <2>1, <2>2 DEF ConfirmedInv
  <2>4. \A n \in DOMAIN links' : links'[n].confirmed > 0 =>
          \E e \in DOMAIN notices' : /\ notices'[e].type = "link_paid" /\ notices'[e].of = n
                                     /\ links'[n].confirmed <= notices'[e].answered
    BY <1>2, <2>1 DEF ConfirmedInv
  <2> QED  BY <2>3, <2>4 DEF ConfirmedInv
<1>3. ASSUME NEW p \in Providers, NEW plan \in PaidPlan, Buy(p, plan)
      PROVE  ConfirmedInv'
  <2> DEFINE r == [type |-> "bought", of |-> Len(purchases) + 1, answered |-> 0]
  <2>1. notices' = Append(notices, r) /\ r \in Notices /\ r.type # "link_paid" /\ links' = links
    BY <1>0, <1>3, PurchaseMade DEF Buy
  <2> HIDE DEF r
  <2> QED  BY <1>2, <2>1
<1>4. ASSUME NEW n \in DOMAIN purchases, NEW s \in {"active", "past_due"}, ChangeStatus(n, s)
      PROVE  ConfirmedInv'
  <2> DEFINE r == [type |-> "updated", of |-> n, answered |-> 0, status |-> s]
  <2>1. notices' = Append(notices, r) /\ r \in Notices /\ r.type # "link_paid" /\ links' = links
    BY <1>0, <1>4, StatusChanged DEF ChangeStatus
  <2> HIDE DEF r
  <2> QED  BY <1>2, <2>1
<1>5. ASSUME NEW n \in DOMAIN purchases, Cancel(n)
      PROVE  ConfirmedInv'
  <2> DEFINE r == [type |-> "canceled", of |-> n, answered |-> 0]
  <2>1. notices' = Append(notices, r) /\ r \in Notices /\ r.type # "link_paid" /\ links' = links
    BY <1>0, <1>5, PurchaseCanceled DEF Cancel
  <2> HIDE DEF r
  <2> QED  BY <1>2, <2>1
<1>6. ASSUME NEW n \in DOMAIN links, Charge(n)
      PROVE  ConfirmedInv'
  <2> DEFINE r == [type |-> "link_paid", of |-> n, answered |-> 0]
  <2>1. n \in Nat
    BY <1>0
  <2>2. r \in Notices /\ r.of = n
    BY <2>1 DEF Notices
  <2>3. /\ notices' = Append(notices, r) /\ ~ links[n].charged
        /\ links' = [links EXCEPT ![n].charged = TRUE]
    BY <1>6 DEF Charge, Notice
  <2> HIDE DEF r
  <2>4. /\ DOMAIN links' = DOMAIN links
        /\ \A m \in DOMAIN links : links'[m].confirmed = links[m].confirmed
    <3> DEFINE x == [links[n] EXCEPT !.charged = TRUE]
    <3>1. links[n] \in Links
      BY <1>0
    <3>2. x \in Links /\ x.confirmed = links[n].confirmed
      BY <3>1 DEF Links
    <3>3. links' = [links EXCEPT ![n] = x]
      BY <2>3
    <3> HIDE DEF x
    <3> QED  BY <1>0, <3>2, <3>3, OneIsSet
  <2> QED  BY <1>2, <2>2, <2>3, <2>4
<1>7. CASE CreatePaymentLink
  <2> DEFINE new == [charged |-> FALSE, status |-> "pending", confirmed |-> 0]
  <2>1. new \in Links /\ new.confirmed = 0
    BY DEF Links
  <2>2. links' = Append(links, new) /\ notices' = notices
    BY <1>7 DEF CreatePaymentLink, NewLink
  <2> HIDE DEF new
  <2>3. /\ DOMAIN links' = DOMAIN links \cup {Len(links) + 1}
        /\ \A n \in DOMAIN links : links'[n] = links[n]
        /\ links'[Len(links) + 1] = new
    BY <1>0, <2>1, <2>2
  <2> QED  BY <2>1, <2>2, <2>3 DEF ConfirmedInv
<1>8. ASSUME NEW h \in Handler, handling[h] # Waiting, Answer(h), links' = links
      PROVE  ConfirmedInv'
  <2>1. /\ handling[h].event \in DOMAIN notices /\ DOMAIN notices' = DOMAIN notices
        /\ notices'[handling[h].event].answered = notices[handling[h].event].answered + 1
        /\ \A d \in DOMAIN notices : d # handling[h].event => notices'[d].answered = notices[d].answered
        /\ \A d \in DOMAIN notices : notices'[d].type = notices[d].type /\ notices'[d].of = notices[d].of
    BY <1>0, <1>8, EventAnswered
  <2>2. \A d \in DOMAIN notices : notices'[d].answered >= notices[d].answered /\ notices'[d].answered \in Nat
    BY <1>0, <2>1
  <2> QED  BY <1>0, <1>8, <2>1, <2>2, ConfirmedKept
<1>9. ASSUME NEW h \in Handler, Activate(h) \/ FindSubscription(h) \/ WriteSubscription(h)
      PROVE  ConfirmedInv'
  <2>1. handling[h].pc \in {"look up", "write"} /\ links' = links /\ (notices' = notices \/ Answer(h))
    BY <1>9 DEF Activate, FindSubscription, WriteSubscription
  <2>2. handling[h] # Waiting
    BY <2>1, BusyIsNotWaiting
  <2> QED  BY <1>1, <1>8, <2>1, <2>2
<1>10. ASSUME NEW h \in Handler, HandlePaymentWebhook(h)
       PROVE  ConfirmedInv'
  <2> DEFINE e == handling[h].event  n == notices[e].of
  <2>0. handling[h] # Waiting /\ notices[e].type = "link_paid"
    <3>1. handling[h].pc = "look up" /\ Event(h).type = "link_paid"
      BY <1>10 DEF HandlePaymentWebhook
    <3> QED  BY <3>1, BusyIsNotWaiting DEF Event
  <2>1. CASE UNCHANGED <<notices, links>>
    BY <1>1, <2>1
  <2>2. CASE /\ Answer(h)
             /\ \/ links' = [links EXCEPT ![n] = Confirmed(Marked(@))]
                \/ links' = [links EXCEPT ![n] = Marked(@)]
    <3>1. n \in DOMAIN links
      BY <1>0, <2>0 DEF BillingShape
    <3>2. /\ DOMAIN links' = DOMAIN links
          /\ \A m \in DOMAIN links : m # n => links'[m] = links[m]
          /\ links'[n].confirmed \in {links[n].confirmed, links[n].confirmed + 1}
      BY <1>0, <2>2, <3>1, LinkConfirmed
    <3>3. /\ e \in DOMAIN notices /\ DOMAIN notices' = DOMAIN notices
          /\ notices'[e].answered = notices[e].answered + 1
          /\ \A d \in DOMAIN notices : d # e => notices'[d].answered = notices[d].answered
          /\ \A d \in DOMAIN notices : notices'[d].type = notices[d].type /\ notices'[d].of = notices[d].of
      BY <1>0, <2>0, <2>2, EventAnswered
    <3>4. \A d, c \in DOMAIN notices' :
            notices'[d].type = "link_paid" /\ notices'[c].type = "link_paid" /\ notices'[d].of = notices'[c].of
            => d = c
      BY <3>3 DEF ConfirmedInv
    <3>5. links'[n].confirmed <= notices'[e].answered
      <4>1. links[n].confirmed = 0 \/ links[n].confirmed <= notices[e].answered
        BY <1>0, <2>0, <3>1, <3>3 DEF ConfirmedInv
      <4> QED  BY <1>0, <3>1, <3>2, <3>3, <4>1
    <3>6. ASSUME NEW m \in DOMAIN links', links'[m].confirmed > 0
          PROVE  \E d \in DOMAIN notices' : /\ notices'[d].type = "link_paid" /\ notices'[d].of = m
                                            /\ links'[m].confirmed <= notices'[d].answered
      <4>1. CASE m = n
        BY <2>0, <3>3, <3>5, <4>1
      <4>2. CASE m # n
        <5>1. m \in DOMAIN links /\ links'[m] = links[m]
          BY <3>2, <4>2
        <5>2. PICK d \in DOMAIN notices : /\ notices[d].type = "link_paid" /\ notices[d].of = m
                                          /\ links[m].confirmed <= notices[d].answered
          BY <3>6, <5>1 DEF ConfirmedInv
        <5>3. d # e
          BY <4>2, <5>2
        <5> QED  BY <3>3, <5>1, <5>2, <5>3
      <4> QED  BY <4>1, <4>2
    <3> QED  BY <3>4, <3>6 DEF ConfirmedInv
  <2> QED  BY <1>10, <2>1, <2>2 DEF HandlePaymentWebhook, Event
<1> QED
  BY <1>1, <1>3, <1>4, <1>5, <1>6, <1>7, <1>9, <1>10
  DEF BillingNext, billingVars, Receive, Providers

\* No row names a subscription that was not bought.
SoldInv ==
    /\ row.subscription <= Len(purchases)
    /\ \A h \in Handler : handling[h].pc = "write" => handling[h].read.subscription <= Len(purchases)

LEMMA SoldStart == BillingInit => SoldInv
  BY DEF BillingInit, SoldInv, FreePlan, Waiting

LEMMA SoldStep ==
  ASSUME BillingShape, SoldInv, [BillingNext]_billingVars
  PROVE  SoldInv'
<1>0. /\ purchases \in Seq(Purchase) /\ Len(purchases) \in Nat /\ row \in SubscriptionRow
      /\ row.subscription \in Nat
      /\ \A h \in Handler : handling[h].pc = "write" =>
            handling[h].read \in SubscriptionRow /\ handling[h].read.subscription \in Nat
  <2>1. purchases \in Seq(Purchase) /\ row \in SubscriptionRow
    BY DEF BillingShape
  <2>2. ASSUME NEW h \in Handler, handling[h].pc = "write" PROVE handling[h].read \in SubscriptionRow
    <3>1. handling[h] \in Handles
      BY DEF BillingShape
    <3>2. handling[h] \in [pc : {"write"}, event : Nat, read : SubscriptionRow]
      BY <2>2, <3>1, BusyIsNotWaiting DEF Handles
    <3> QED  BY <3>2
  <2>3. \A r \in SubscriptionRow : r.subscription \in Nat
    BY DEF SubscriptionRow
  <2> QED  BY <2>1, <2>2, <2>3
<1>1. ASSUME Len(purchases') \in Nat, Len(purchases') >= Len(purchases), UNCHANGED <<row, handling>>
      PROVE  SoldInv'
  BY <1>0, <1>1 DEF SoldInv
<1>2. ASSUME NEW h \in Handler, NEW r \in Handles, handling' = [handling EXCEPT ![h] = r],
             r.pc # "write" \/ r.read = row,
             row' = row \/ row'.subscription <= Len(purchases), purchases' = purchases
      PROVE  SoldInv'
  <2>1. handling'[h] = r /\ \A g \in Handler : g # h => handling'[g] = handling[g]
    BY <1>2, HandlerSet
  <2> QED  BY <1>2, <2>1 DEF SoldInv
<1>3. ASSUME NEW p \in Providers, NEW plan \in PaidPlan, Buy(p, plan)
      PROVE  SoldInv'
  <2> DEFINE new == [provider |-> p, plan |-> plan, status |-> "active",
                     customer |-> Customer(p, Len(purchases) + 1)]
  <2>1. purchases' = Append(purchases, new) /\ UNCHANGED <<row, handling>>
    BY <1>3 DEF Buy
  <2> HIDE DEF new
  <2>2. Len(purchases') = Len(purchases) + 1
    BY <1>0, <2>1
  <2> QED  BY <1>0, <1>1, <2>1, <2>2
<1>4. ASSUME DOMAIN purchases' = DOMAIN purchases, purchases' \in Seq(Purchase), UNCHANGED <<row, handling>>
      PROVE  SoldInv'
  <2>1. Len(purchases') = Len(purchases)
    BY <1>0, <1>4
  <2> QED  BY <1>0, <1>1, <1>4, <2>1
<1>5. ASSUME NEW n \in DOMAIN purchases, NEW s \in {"active", "past_due"}, ChangeStatus(n, s)
      PROVE  SoldInv'
  BY <1>4, <1>5, StatusChanged DEF ChangeStatus
<1>6. ASSUME NEW n \in DOMAIN purchases, Cancel(n)
      PROVE  SoldInv'
  BY <1>4, <1>6, PurchaseCanceled DEF Cancel
<1>7. CASE UNCHANGED <<purchases, row, handling>>
  BY <1>7 DEF SoldInv
<1>8. ASSUME NEW h \in Handler, NEW e \in DOMAIN notices, Receive(h, e)
      PROVE  SoldInv'
  <2> DEFINE r == [pc |-> "look up", event |-> e]
  <2>1. e \in Nat
    BY DEF BillingShape
  <2>2. r \in Handles /\ r.pc # "write"
    BY <2>1 DEF Handles
  <2>3. handling' = [handling EXCEPT ![h] = r] /\ UNCHANGED <<purchases, row>>
    BY <1>8 DEF Receive
  <2> HIDE DEF r
  <2> QED  BY <1>2, <2>2, <2>3
<1>9. ASSUME NEW h \in Handler, Activate(h)
      PROVE  SoldInv'
  <2>1. /\ handling' = [handling EXCEPT ![h] = Waiting] /\ purchases' = purchases
        /\ row' = row \/ row' = Subscription(Event(h).of)
    BY <1>9 DEF Activate, Answer
  <2>2. Event(h).of \in DOMAIN purchases
    <3>1. handling[h].pc = "look up" /\ Event(h).type = "bought"
      BY <1>9 DEF Activate
    <3>2. handling[h] # Waiting
      BY <3>1, BusyIsNotWaiting
    <3> QED  BY <3>1, <3>2 DEF Event, BillingShape
  <2>3. Subscription(Event(h).of).subscription <= Len(purchases)
    BY <1>0, <2>2, SubscriptionIsRow
  <2> QED  BY <1>2, <2>1, <2>3, BusyIsNotWaiting
<1>10. ASSUME NEW h \in Handler, FindSubscription(h)
       PROVE  SoldInv'
  <2>1. UNCHANGED <<purchases, row>>
    BY <1>10 DEF FindSubscription
  <2>2. CASE handling' = [handling EXCEPT ![h] = Waiting]
    BY <1>2, <2>1, <2>2, BusyIsNotWaiting
  <2>3. CASE handling' = [handling EXCEPT ![h] = [pc |-> "write", event |-> @.event, read |-> row]]
    <3> DEFINE r == [pc |-> "write", event |-> handling[h].event, read |-> row]
    <3>1. handling[h] # Waiting
      BY <1>10, BusyIsNotWaiting DEF FindSubscription
    <3>2. handling[h].event \in Nat
      BY <3>1 DEF BillingShape
    <3>3. r \in Handles /\ r.read = row
      BY <1>0, <3>2 DEF Handles
    <3>4. handling' = [handling EXCEPT ![h] = r]
      BY <2>3
    <3> HIDE DEF r
    <3> QED  BY <1>2, <2>1, <3>3, <3>4
  <2> QED  BY <1>10, <2>2, <2>3 DEF FindSubscription, Answer
<1>11. ASSUME NEW h \in Handler, WriteSubscription(h)
       PROVE  SoldInv'
  <2>1. /\ handling' = [handling EXCEPT ![h] = Waiting] /\ purchases' = purchases
        /\ handling[h].pc = "write"
        /\ \/ row' = row \/ row' = Downgraded(handling[h].read)
           \/ row' = [handling[h].read EXCEPT !.status = Event(h).status]
    BY <1>11 DEF WriteSubscription, Answer
  <2>2. handling[h].read \in SubscriptionRow /\ handling[h].read.subscription <= Len(purchases)
    BY <1>0, <2>1 DEF SoldInv
  <2>3. Downgraded(handling[h].read).subscription = handling[h].read.subscription
    BY <2>2, DowngradedIsRow
  <2>4. \A s : [handling[h].read EXCEPT !.status = s].subscription = handling[h].read.subscription
    BY <2>2 DEF SubscriptionRow
  <2> QED  BY <1>2, <2>1, <2>2, <2>3, <2>4, BusyIsNotWaiting
<1>12. ASSUME NEW h \in Handler, HandlePaymentWebhook(h)
       PROVE  SoldInv'
  BY <1>2, <1>12, BusyIsNotWaiting DEF HandlePaymentWebhook, Answer
<1> QED
  BY <1>1, <1>3, <1>5, <1>6, <1>7, <1>8, <1>9, <1>10, <1>11, <1>12
  DEF BillingNext, billingVars, CreatePaymentLink, Charge, Providers

BillingTypedInv == PaidInv /\ DeliveredInv /\ ConfirmedInv /\ SoldInv

LEMMA BillingIsTyped == BillingTypedInv => BillingTypeOK
<1> SUFFICES ASSUME BillingTypedInv PROVE BillingTypeOK
  OBVIOUS
<1>0. /\ DeliveryLimit \in Nat /\ DeliveryLimit >= 1 /\ Cardinality(Handler) \in Nat
      /\ row \in SubscriptionRow /\ links \in Seq(Links) /\ Len(purchases) \in Nat
  <2>1. DeliveryLimit \in Nat /\ DeliveryLimit >= 1 /\ Cardinality(Handler) \in Nat
    BY BillingAssumption, FS_CardinalityType
  <2>2. row \in SubscriptionRow /\ links \in Seq(Links) /\ purchases \in Seq(Purchase)
    BY DEF BillingTypedInv, PaidInv, BillingShape
  <2> QED  BY <2>1, <2>2
<1>1. /\ row.plan \in PaidPlan \cup {Starter} /\ row.status \in {"active", "past_due", "canceled"}
      /\ row.subscription \in 0..Len(purchases)
  BY <1>0 DEF BillingTypedInv, SoldInv, SubscriptionRow, Standings
<1>2. ASSUME NEW n \in DOMAIN links
      PROVE  /\ links[n].status \in {"pending", "paid"}
             /\ links[n].confirmed < DeliveryLimit + Cardinality(Handler)
  <2>1. links[n] \in Links
    BY <1>0
  <2>2. links[n].confirmed \in Nat /\ links[n].status \in {"pending", "paid"}
    BY <2>1 DEF Links
  <2>3. CASE links[n].confirmed > 0
    <3>1. PICK e \in DOMAIN notices : links[n].confirmed <= notices[e].answered
      BY <2>3 DEF BillingTypedInv, ConfirmedInv
    <3>2. notices[e].answered + Cardinality(Held(e)) < DeliveryLimit + Cardinality(Handler)
      BY DEF BillingTypedInv, DeliveredInv
    <3>3. Cardinality(Held(e)) \in Nat /\ notices[e].answered \in Nat
      <4>1. Held(e) \in SUBSET Handler
        BY DEF Held
      <4> QED  BY <4>1, HeldIsFinite, NoticeCounts DEF BillingTypedInv, PaidInv
    <3> QED  BY <1>0, <2>2, <3>1, <3>2, <3>3
  <2> QED  BY <1>0, <2>2, <2>3
<1> QED  BY <1>1, <1>2 DEF BillingTypeOK

-----------------------------------------------------------------------------
(* Every part keeps its types *)

RepliesTypedInv ==
    /\ RepliesInv
    /\ settings.mode \in Modes /\ settings.days # {}
    /\ now \in [day : Days, hour : Hours]

LEMMA RepliesTypedStart == RepliesInit => RepliesTypedInv
<1> SUFFICES ASSUME RepliesInit PROVE RepliesTypedInv
  OBVIOUS
<1>1. RepliesInv
  BY RepliesStart
<1>2. settings.mode \in Modes /\ 1 \in settings.days
  BY DEF RepliesInit, DefaultSettings, DefaultDays, Modes
<1>3. now \in [day : Days, hour : Hours]
  BY AssistantRepliesAssumption DEF RepliesInit, Days, Hours
<1> QED  BY <1>1, <1>2, <1>3 DEF RepliesTypedInv

LEMMA RepliesTypedStep ==
  ASSUME RepliesTypedInv, [RepliesNext]_replyVars
  PROVE  RepliesTypedInv'
<1>0. RepliesInv /\ RepliesInv'
  BY RepliesStep DEF RepliesTypedInv
<1>1. ASSUME NEW request \in Requests, SaveConfig(request)
      PROVE  RepliesTypedInv'
  <2>1. /\ request.mode \in Modes \cup {""} /\ request.days \in {{}, {1, 7}}
        /\ settings' = Normalised(request) /\ now' = now
    BY <1>1 DEF Requests, SaveConfig, Accepted
  <2>2. Normalised(request).mode \in Modes
    BY <2>1 DEF Normalised, Modes
  <2>3. Normalised(request).days # {}
    <3>1. 1 \in DefaultDays
      BY DEF DefaultDays
    <3> QED  BY <2>1, <3>1 DEF Normalised
  <2> QED  BY <1>0, <2>1, <2>2, <2>3 DEF RepliesTypedInv
<1>2. ASSUME NEW enabled \in BOOLEAN, SetEnabled(enabled)
      PROVE  RepliesTypedInv'
  <2>1. settings = [enabled |-> settings.enabled, mode |-> settings.mode,
                    start |-> settings.start, end |-> settings.end, days |-> settings.days,
                    threshold |-> settings.threshold, row |-> settings.row]
    BY <1>0 DEF RepliesInv
  <2>2. settings'.days = settings.days /\ now' = now
    BY <1>2, <2>1 DEF SetEnabled
  <2>3. settings'.mode \in Modes
    <3>1. CASE settings.row = Unsaved
      <4>1. settings' = [settings EXCEPT !.enabled = enabled, !.row = "saved",
                                         !.mode = IF enabled THEN "always_on" ELSE "after_hours"]
        BY <1>2, <3>1 DEF SetEnabled
      <4>2. settings'.mode = IF enabled THEN "always_on" ELSE "after_hours"
        BY <2>1, <4>1
      <4> QED  BY <4>2 DEF Modes
    <3>2. CASE settings.row # Unsaved
      BY <1>2, <2>1, <3>2 DEF SetEnabled, RepliesTypedInv
    <3> QED  BY <3>1, <3>2
  <2> QED  BY <1>0, <2>2, <2>3 DEF RepliesTypedInv
<1>3. CASE HourPasses
  <2>1. UNCHANGED settings /\ now \in [day : Days, hour : Hours]
    BY <1>3 DEF HourPasses, RepliesTypedInv
  <2>2. CASE now.hour + 1 \in Hours
    BY <1>0, <1>3, <2>1, <2>2 DEF HourPasses, RepliesTypedInv
  <2>3. CASE now.hour + 1 \notin Hours
    <3>1. now' = [day |-> (now.day % 7) + 1, hour |-> 0]
      BY <1>3, <2>3 DEF HourPasses
    <3>2. (now.day % 7) + 1 \in Days /\ 0 \in Hours
      BY <2>1, AssistantRepliesAssumption DEF Days, Hours
    <3> QED  BY <1>0, <2>1, <3>1, <3>2 DEF RepliesTypedInv
  <2> QED  BY <2>2, <2>3
<1>4. CASE UNCHANGED <<settings, now>>
  BY <1>0, <1>4 DEF RepliesTypedInv
<1> QED
  BY <1>1, <1>2, <1>3, <1>4 DEF RepliesNext, replyVars, Ask

\* Whatever the webhooks, the agents, the editors and the providers do, what the
\* assistant's tables hold is in the ranges the code reads them with; a link is
\* confirmed in the chat less often than its notice can be delivered, and more
\* texts than edits, or more unread messages than arrived, are never recorded.
THEOREM AssistantIsTyped == AssistantSpec => []AssistantTypeOK
<1> DEFINE Inv == MessagesTypedInv /\ BaseInv /\ RepliesTypedInv /\ ChunksInv /\ BillingTypedInv
<1>1. AssistantInit => Inv
  BY MessagesTypedStart, BaseStart, RepliesTypedStart, ChunksStart, PaidStart, DeliveredStart,
     ConfirmedStart, SoldStart DEF AssistantInit, BillingTypedInv
<1>2. Inv /\ [AssistantNext]_AssistantVars => Inv'
  <2> SUFFICES ASSUME Inv, [AssistantNext]_AssistantVars PROVE Inv'
    OBVIOUS
  <2>1. /\ [MessagesNext]_messageVars /\ [BaseNext]_baseVars /\ [RepliesNext]_replyVars
        /\ ChunksNext \/ UNCHANGED chunkVars
        /\ [BillingNext]_billingVars
    BY DEF AssistantNext, AssistantVars
  <2>2. MessagesTypedInv'
    BY <2>1, MessagesTypedStep
  <2>3. BaseInv'
    BY <2>1, BaseStep
  <2>4. RepliesTypedInv'
    BY <2>1, RepliesTypedStep
  <2>5. ChunksInv'
    BY <2>1, ChunksStep, ChunksStutter
  <2>6. BillingTypedInv'
    BY <2>1, PaidStep, DeliveredStep, ConfirmedStep, SoldStep DEF BillingTypedInv, PaidInv
  <2> QED  BY <2>2, <2>3, <2>4, <2>5, <2>6
<1>3. Inv => AssistantTypeOK
  BY MessagesAreTyped, BaseIsTyped, BillingIsTyped
  DEF AssistantTypeOK, ChunksInv, RepliesTypedInv, RepliesInv, RepliesTypeOK
<1> HIDE DEF Inv
<1> QED  BY <1>1, <1>2, <1>3, PTL DEF AssistantSpec
===============================================================================
