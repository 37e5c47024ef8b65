----------------------------- MODULE AudienceProofs -----------------------------
(***************************************************************************)
(* Those a workspace writes to. A keyword sent once is recorded once, for  *)
(* any number of overlapping requests. With one request at a time, under   *)
(* faults and restarts, the status follows the ledger, the last keyword    *)
(* stands and the plan's capacity is kept but for what a failed check lets *)
(* in; the sweep keeps what was delivered to the recipient it takes,       *)
(* however the requests overlap.                                           *)
(***************************************************************************)
EXTENDS MCWorkspace, FiniteSetTheorems, TLAPS

-----------------------------------------------------------------------------
(* A keyword is recorded once *)

Within == {"project", "wait", "commit"}

\* A transaction keeps its fields, and none is under way in what an import has
\* left to do.
Orderly(r) ==
    /\ "pc" \in DOMAIN r
    /\ r.pc \in Within \cup {"append"} /\ r.op = "import" =>
          "pc" \in DOMAIN r.rest /\ r.rest.pc \notin Within \cup {"append"}
    /\ r.pc \in Within =>
          r = [op |-> r.op, key |-> r.key, pc |-> r.pc, held |-> r.held,
               event |-> r.event, rest |-> r.rest]

\* KeywordRecordedOnce is not inductive: the keys of the transactions under way
\* count as keys of the ledger.
LedgerInv ==
    /\ req = [p \in Proc |-> req[p]]
    /\ \A p \in Proc : Orderly(req[p])
    /\ \A p \in InFlight : ~SameKey(req[p].event.key)
    /\ \A p, q \in InFlight :
          req[p].event.key = req[q].event.key /\ req[p].event.key # <<>> => p = q
    /\ KeywordRecordedOnce

LEMMA LedgerStart == AudienceInit => LedgerInv
  BY DEF AudienceInit, LedgerInv, Orderly, Vacant, InFlight, SameKey, KeywordRecordedOnce, Within

\* A step that begins no transaction and adds no keyword to the ledger.
LEMMA NoKeyAdded ==
  ASSUME LedgerInv,
         req' = [p \in Proc |-> req'[p]],
         \A p \in Proc : Orderly(req'[p]),
         \A p \in Proc : req'[p].pc \in Within =>
              req[p].pc \in Within /\ req'[p].event.key = req[p].event.key,
         \A e \in ledger' : e \in ledger \/ e.key = <<>>
  PROVE  LedgerInv'
  <1>1. \A p \in InFlight' : p \in InFlight /\ req'[p].event.key = req[p].event.key
    BY DEF InFlight, Within
  <1>2. (\A p \in InFlight : ~SameKey(req[p].event.key))'
    BY <1>1 DEF LedgerInv, SameKey
  <1>3. (\A p, q \in InFlight :
           req[p].event.key = req[q].event.key /\ req[p].event.key # <<>> => p = q)'
    BY <1>1 DEF LedgerInv
  <1>4. KeywordRecordedOnce'
    BY DEF LedgerInv, KeywordRecordedOnce
  <1>5. QED
    BY <1>2, <1>3, <1>4 DEF LedgerInv

\* A request that moves on outside every transaction.
LEMMA MovesOutside ==
  ASSUME LedgerInv, NEW p \in Proc, NEW state,
         Orderly(state), state.pc \notin Within,
         req' = [req EXCEPT ![p] = state],
         \A e \in ledger' : e \in ledger \/ e.key = <<>>
  PROVE  LedgerInv'
  <1>1. /\ req' = [q \in Proc |-> req'[q]]
        /\ \A q \in Proc : req'[q] = IF q = p THEN state ELSE req[q]
    BY DEF LedgerInv
  <1>2. \A q \in Proc : Orderly(req'[q])
    BY <1>1 DEF LedgerInv
  <1>3. \A q \in Proc : req'[q].pc \in Within =>
          req[q].pc \in Within /\ req'[q].event.key = req[q].event.key
    BY <1>1
  <1>4. QED
    BY <1>1, <1>2, <1>3, NoKeyAdded

LEMMA VacantIsOrderly == Orderly(Vacant) /\ Vacant.pc = "idle"
  BY DEF Orderly, Vacant, Within

LEMMA NothingMoves ==
  ASSUME LedgerInv, req' = req, \A e \in ledger' : e \in ledger \/ e.key = <<>>
  PROVE  LedgerInv'
  BY NoKeyAdded DEF LedgerInv

LEMMA FinishKeeps ==
  ASSUME LedgerInv, NEW p \in Proc, Finish(p),
         \A e \in ledger' : e \in ledger \/ e.key = <<>>
  PROVE  LedgerInv'
  BY VacantIsOrderly, MovesOutside DEF Finish, Within

LEMMA GotoKeeps ==
  ASSUME LedgerInv, NEW p \in Proc, NEW pc, pc \notin Within \cup {"append"}, Goto(p, pc), ledger' = ledger
  PROVE  LedgerInv'
  <1> DEFINE state == [req[p] EXCEPT !.pc = pc]
  <1>1. "pc" \in DOMAIN req[p]
    BY DEF LedgerInv, Orderly
  <1>2. DOMAIN state = DOMAIN req[p] /\ state.pc = pc
    BY <1>1
  <1>3. req' = [req EXCEPT ![p] = state]
    BY DEF Goto
  <1> HIDE DEF state
  <1>4. Orderly(state) /\ state.pc \notin Within
    BY <1>1, <1>2 DEF Orderly
  <1>5. QED
    BY <1>3, <1>4, MovesOutside

\* Beginnings of requests.
LEMMA StartKeeps ==
  ASSUME LedgerInv, NEW p \in Proc, NEW state, Orderly(state), state.pc \notin Within,
         Start(p, state), ledger' = ledger
  PROVE  LedgerInv'
  BY MovesOutside DEF Start

LEMMA NewRequestKeeps ==
  ASSUME LedgerInv, NEW p \in Proc, NewRequest(p)
  PROVE  LedgerInv'
  <1>1. ASSUME NEW x, CreateContact(p, x)
        PROVE  LedgerInv'
    <2>1. Orderly([op |-> "manual", pc |-> "lookup", person |-> x, source |-> "operator"])
      BY DEF Orderly, Within
    <2>2. QED
      BY <1>1, <2>1, StartKeeps DEF CreateContact, Within
  <1>2. ASSUME NEW x, NEW i, NEW word, Webhook(p, x, i, word)
        PROVE  LedgerInv'
    <2> DEFINE state == [op |-> "inbound", pc |-> "lookup", person |-> x,
                         source |-> "inbound_keyword",
                         type |-> ClassifyConsentKeyword(word), key |-> <<x, i>>]
    <2>1. Orderly(state) /\ state.pc \notin Within
      BY DEF Orderly, Within
    <2>2. Start(p, state) /\ ledger' = ledger
      BY <1>2 DEF Webhook
    <2> HIDE DEF state
    <2>3. QED
      BY <2>1, <2>2, StartKeeps
  <1>3. ASSUME NEW people, NEW type, ImportContacts(p, people, type)
        PROVE  LedgerInv'
    <2> DEFINE state == [op |-> "import", pc |-> "lookup", todo |-> people, type |-> type,
                         known |-> [x \in people |-> "new"]]
    <2>1. Orderly(state) /\ state.pc \notin Within
      BY DEF Orderly, Within
    <2>2. Start(p, state) /\ ledger' = ledger
      BY <1>3 DEF ImportContacts
    <2> HIDE DEF state
    <2>3. QED
      BY <2>1, <2>2, StartKeeps
  <1>4. ASSUME NEW r, DeleteRecipient(p, r)
        PROVE  LedgerInv'
    <2> DEFINE state == [op |-> "erase", pc |-> "append", row |-> r, type |-> "revoked",
                         source |-> "operator", key |-> <<>>]
    <2>1. Orderly(state) /\ state.pc \notin Within
      BY DEF Orderly, Within
    <2>2. Start(p, state) /\ ledger' = ledger
      BY <1>4 DEF DeleteRecipient
    <2> HIDE DEF state
    <2>3. QED
      BY <2>1, <2>2, StartKeeps
  <1>5. ASSUME SweepList(p)
        PROVE  LedgerInv'
    <2>1. Orderly([op |-> "sweep", pc |-> "delete", ids |-> FindAnonymizedExpired])
      BY DEF Orderly, Within
    <2>2. QED
      BY <1>5, <2>1, StartKeeps DEF SweepList, Within
  <1>6. QED
    BY <1>1, <1>2, <1>3, <1>4, <1>5 DEF NewRequest

-----------------------------------------------------------------------------
(* The transaction *)

LEMMA AfterApplyKeeps ==
  ASSUME LedgerInv, NEW p \in Proc, req[p].pc \in Within \cup {"append"}, AfterApply(p)
  PROVE  \E state : /\ Orderly(state) /\ state.pc \notin Within
                    /\ req' = [req EXCEPT ![p] = state]
  <1>1. CASE req[p].op = "import"
    <2>1. "pc" \in DOMAIN req[p].rest /\ req[p].rest.pc \notin Within \cup {"append"}
      BY <1>1 DEF LedgerInv, Orderly
    <2>2. Orderly(req[p].rest)
      BY <2>1 DEF Orderly
    <2>3. QED
      BY <1>1, <2>1, <2>2 DEF AfterApply
  <1>2. CASE req[p].op # "import"
    BY <1>2, VacantIsOrderly DEF AfterApply, Finish, Within
  <1>3. QED
    BY <1>1, <1>2

\* The key of a transaction that begins is neither in the ledger nor under way.
LEMMA AppendKeeps ==
  ASSUME LedgerInv, NEW p \in Proc, ApplyAppend(p)
  PROVE  LedgerInv'
  <1>1. req[p].pc = "append" /\ ~KeyPending(req[p].key) /\ ledger' = ledger /\ p \notin InFlight
    BY DEF ApplyAppend, InFlight
  <1>2. CASE AfterApply(p)
    <2>1. PICK state : /\ Orderly(state) /\ state.pc \notin Within
                       /\ req' = [req EXCEPT ![p] = state]
      BY <1>1, <1>2, AfterApplyKeeps
    <2>2. QED
      BY <1>1, <2>1, MovesOutside
  <1>3. CASE /\ ~SameKey(req[p].key)
             /\ req' = [req EXCEPT ![p] = Transaction(p, "project", FALSE,
                   [row |-> req[p].row, type |-> req[p].type, source |-> req[p].source,
                    key |-> req[p].key, at |-> now + 1],
                   IF req[p].op = "import" THEN req[p].rest ELSE Vacant)]
    <2> DEFINE event == [row |-> req[p].row, type |-> req[p].type, source |-> req[p].source,
                         key |-> req[p].key, at |-> now + 1]
               rest == IF req[p].op = "import" THEN req[p].rest ELSE Vacant
               state == Transaction(p, "project", FALSE, event, rest)
    <2>1. event.key = req[p].key
      OBVIOUS
    <2>2. req[p].op = "import" => "pc" \in DOMAIN rest /\ rest.pc \notin Within \cup {"append"}
      BY <1>1 DEF LedgerInv, Orderly
    <2>3. req' = [req EXCEPT ![p] = state]
      BY <1>3
    <2> HIDE DEF event, rest
    <2>4. /\ state.pc = "project" /\ state.event = event /\ state.op = req[p].op
          /\ state.rest = rest /\ "pc" \in DOMAIN state
          /\ state = [op |-> state.op, key |-> state.key, pc |-> state.pc, held |-> state.held,
                      event |-> state.event, rest |-> state.rest]
      BY DEF Transaction
    <2> HIDE DEF state
    <2>5. Orderly(state)
      BY <2>2, <2>4 DEF Orderly
    <2>6. /\ req' = [q \in Proc |-> req'[q]]
          /\ \A q \in Proc : req'[q] = IF q = p THEN state ELSE req[q]
      BY <2>3 DEF LedgerInv
    <2>7. \A q \in Proc : Orderly(req'[q])
      BY <2>5, <2>6 DEF LedgerInv
    <2>8. \A q \in InFlight' : \/ q = p /\ req'[q].event.key = req[p].key
                               \/ q # p /\ q \in InFlight /\ req'[q] = req[q]
      BY <2>1, <2>4, <2>6 DEF InFlight
    <2>9. (\A q \in InFlight : ~SameKey(req[q].event.key))'
      BY <1>1, <1>3, <2>8 DEF LedgerInv, SameKey
    <2>10. (\A r, q \in InFlight :
              req[r].event.key = req[q].event.key /\ req[r].event.key # <<>> => r = q)'
      BY <1>1, <2>8 DEF LedgerInv, KeyPending
    <2>11. KeywordRecordedOnce'
      BY <1>1 DEF LedgerInv, KeywordRecordedOnce
    <2>12. QED
      BY <2>6, <2>7, <2>9, <2>10, <2>11 DEF LedgerInv
  <1>4. QED
    BY <1>2, <1>3 DEF ApplyAppend

\* Within the transaction the event stays the same.
LEMMA WithinKeeps ==
  ASSUME LedgerInv, NEW p \in Proc, req[p].pc \in Within, NEW pc \in Within, NEW held,
         req' = [req EXCEPT ![p] = Transaction(p, pc, held, req[p].event, req[p].rest)],
         ledger' = ledger
  PROVE  LedgerInv'
  <1> DEFINE state == Transaction(p, pc, held, req[p].event, req[p].rest)
  <1>1. /\ state.pc = pc /\ state.event = req[p].event /\ state.op = req[p].op
        /\ state.rest = req[p].rest /\ "pc" \in DOMAIN state
        /\ state = [op |-> state.op, key |-> state.key, pc |-> state.pc, held |-> state.held,
                    event |-> state.event, rest |-> state.rest]
    BY DEF Transaction
  <1> HIDE DEF state
  <1>2. Orderly(state)
    BY <1>1 DEF Orderly, LedgerInv
  <1>3. req' = [req EXCEPT ![p] = state]
    BY DEF state
  <1>4. /\ req' = [q \in Proc |-> req'[q]]
        /\ \A q \in Proc : req'[q] = IF q = p THEN state ELSE req[q]
    BY <1>3 DEF LedgerInv
  <1>5. \A q \in Proc : Orderly(req'[q])
    BY <1>2, <1>4 DEF LedgerInv
  <1>6. \A q \in Proc : req'[q].pc \in Within =>
          req[q].pc \in Within /\ req'[q].event.key = req[q].event.key
    BY <1>1, <1>4
  <1>7. QED
    BY <1>4, <1>5, <1>6, NoKeyAdded

LEMMA ProjectKeeps ==
  ASSUME LedgerInv, NEW p \in Proc, ApplyProject(p) \/ ApplyLock(p)
  PROVE  LedgerInv'
  <1>1. \E pc \in Within : \E held :
          req' = [req EXCEPT ![p] = Transaction(p, pc, held, req[p].event, req[p].rest)]
    BY DEF ApplyProject, ApplyLock, Within
  <1>2. req[p].pc \in Within /\ ledger' = ledger
    BY DEF ApplyProject, ApplyLock, Within
  <1>3. QED
    BY <1>1, <1>2, WithinKeeps

LEMMA CommitKeeps ==
  ASSUME LedgerInv, NEW p \in Proc, ApplyCommit(p)
  PROVE  LedgerInv'
  <1> DEFINE e == req[p].event
  <1>1. req[p].pc = "commit" /\ p \in InFlight /\ AfterApply(p)
        /\ \A f \in ledger' : f \in ledger \/ f = e
    BY DEF ApplyCommit, InFlight
  <1>2. PICK state : /\ Orderly(state) /\ state.pc \notin Within
                     /\ req' = [req EXCEPT ![p] = state]
    BY <1>1, AfterApplyKeeps DEF Within
  <1>3. /\ req' = [q \in Proc |-> req'[q]]
        /\ \A q \in Proc : req'[q] = IF q = p THEN state ELSE req[q]
    BY <1>2 DEF LedgerInv
  <1>4. \A q \in Proc : Orderly(req'[q])
    BY <1>2, <1>3 DEF LedgerInv
  <1>5. \A q \in InFlight' : q # p /\ q \in InFlight /\ req'[q] = req[q]
    BY <1>2, <1>3 DEF InFlight, Within
  <1>6. (\A q \in InFlight : ~SameKey(req[q].event.key))'
    <2> SUFFICES ASSUME NEW q \in InFlight', req'[q].event.key # <<>>,
                        NEW f \in ledger', f.key = req'[q].event.key
                 PROVE  FALSE
      BY DEF SameKey
    <2>1. q # p /\ q \in InFlight /\ req'[q] = req[q]
      BY <1>5
    <2>2. CASE f \in ledger
      BY <2>1, <2>2 DEF LedgerInv, SameKey
    <2>3. CASE f = e
      BY <1>1, <2>1, <2>3 DEF LedgerInv
    <2>4. QED
      BY <1>1, <2>2, <2>3
  <1>7. (\A r, q \in InFlight :
           req[r].event.key = req[q].event.key /\ req[r].event.key # <<>> => r = q)'
    BY <1>5 DEF LedgerInv
  <1>8. KeywordRecordedOnce'
    <2> SUFFICES ASSUME NEW f \in ledger', NEW g \in ledger', f.key = g.key, f.key # <<>>
                 PROVE  f = g
      BY DEF KeywordRecordedOnce
    <2>1. \A h \in ledger : h.key = e.key => h.key = <<>>
      BY <1>1 DEF LedgerInv, SameKey
    <2>2. QED
      BY <1>1, <2>1 DEF LedgerInv, KeywordRecordedOnce
  <1>9. QED
    BY <1>3, <1>4, <1>6, <1>7, <1>8 DEF LedgerInv

\* Steps of a request outside its transaction.
LEMMA RegisterKeeps ==
  ASSUME LedgerInv, NEW p \in Proc,
         RegisterLookup(p) \/ RegisterQuota(p) \/ RegisterInsert(p)
  PROVE  LedgerInv'
  <1>1. ledger' = ledger
    BY DEF RegisterLookup, RegisterQuota, RegisterInsert
  <1>2. Finish(p) \/ Goto(p, "create") \/ Goto(p, "count") \/ Goto(p, "find")
    BY DEF RegisterLookup, RegisterQuota, RegisterInsert, AfterRegister
  <1>3. QED
    BY <1>1, <1>2, FinishKeeps, GotoKeeps DEF Within

LEMMA RecordKeeps ==
  ASSUME LedgerInv, NEW p \in Proc, RecordKeyword(p)
  PROVE  LedgerInv'
  <1>1. PICK r : r = GetByRoutingValue(req[p].person, "digits")
    OBVIOUS
  <1> DEFINE state == [op |-> "inbound", pc |-> "append", row |-> r, source |-> req[p].source,
                       type |-> req[p].type, key |-> req[p].key]
  <1>2. ledger' = ledger /\ (Finish(p) \/ req' = [req EXCEPT ![p] = state])
    BY <1>1 DEF RecordKeyword
  <1>3. Orderly(state) /\ state.pc \notin Within
    BY DEF Orderly, Within
  <1> HIDE DEF state
  <1>4. QED
    BY <1>2, <1>3, FinishKeeps, MovesOutside

LEMMA ImportKeeps ==
  ASSUME LedgerInv, NEW p \in Proc, ImportLookup(p) \/ ImportQuota(p)
  PROVE  LedgerInv'
  <1>1. CASE ImportLookup(p)
    <2> DEFINE known == [x \in req[p].todo |->
                   LET r == GetByRoutingValue(x, "digits")
                   IN  IF r = 0 THEN "new" ELSE contacts[r].status]
               moved == [req[p] EXCEPT !.pc = "quota"]
               state == [moved EXCEPT !.known = known]
    <2>1. req' = [req EXCEPT ![p] = state] /\ ledger' = ledger
      BY <1>1 DEF ImportLookup
    <2>2. "pc" \in DOMAIN req[p]
      BY DEF LedgerInv, Orderly
    <2> HIDE DEF known
    <2>3. "pc" \in DOMAIN moved /\ moved.pc = "quota"
      BY <2>2
    <2> HIDE DEF moved
    <2>4. "pc" \in DOMAIN state /\ state.pc = "quota"
      BY <2>3
    <2> HIDE DEF state
    <2>5. Orderly(state) /\ state.pc \notin Within
      BY <2>4 DEF Orderly, Within
    <2>6. QED
      BY <2>1, <2>5, MovesOutside
  <1>2. CASE ImportQuota(p)
    BY <1>2, FinishKeeps, GotoKeeps DEF ImportQuota, Within
  <1>3. QED
    BY <1>1, <1>2

LEMMA AfterRowIsOutside ==
  ASSUME LedgerInv, NEW p \in Proc, req[p].pc \in {"lookup", "row"}, NEW x
  PROVE  Orderly(AfterRow(p, x)) /\ "pc" \in DOMAIN AfterRow(p, x)
         /\ AfterRow(p, x).pc \notin Within \cup {"append"}
  <1> DEFINE rest == [req[p] EXCEPT !.todo = @ \ {x}]
  <1>1. "pc" \in DOMAIN req[p]
    BY DEF LedgerInv, Orderly
  <1>2. "pc" \in DOMAIN rest /\ rest.pc \in {"lookup", "row"}
    BY <1>1
  <1>3. AfterRow(p, x) = Vacant \/ AfterRow(p, x) = rest
    BY DEF AfterRow
  <1> HIDE DEF rest
  <1>4. Orderly(rest) /\ rest.pc \notin Within \cup {"append"}
    BY <1>2 DEF Orderly, Within
  <1>5. "pc" \in DOMAIN Vacant
    BY DEF Vacant
  <1>6. QED
    BY <1>2, <1>3, <1>4, <1>5, VacantIsOrderly DEF Within

LEMMA ImportRowKeeps ==
  ASSUME LedgerInv, NEW p \in Proc, NEW x, ImportRow(p, x)
  PROVE  LedgerInv'
  <1>1. req[p].pc = "row" /\ ledger' = ledger
    BY DEF ImportRow
  <1>2. PICK rest : rest = AfterRow(p, x)
    OBVIOUS
  <1>3. Orderly(rest) /\ "pc" \in DOMAIN rest /\ rest.pc \notin Within \cup {"append"}
    BY <1>1, <1>2, AfterRowIsOutside
  <1>4. PICK r : r = GetByRoutingValue(x, "digits")
    OBVIOUS
  <1>5. PICK row : row = IF r # 0 THEN r ELSE spent.contacts + 1
    OBVIOUS
  <1>6. \/ req' = [req EXCEPT ![p] = rest]
        \/ req' = [req EXCEPT ![p] =
                      [op |-> "import", pc |-> "append", source |-> "csv_import", key |-> <<>>,
                       type |-> req[p].type, rest |-> rest, row |-> row]]
    BY <1>2, <1>4, <1>5 DEF ImportRow
  <1>7. CASE req' = [req EXCEPT ![p] = rest]
    BY <1>1, <1>3, <1>7, MovesOutside
  <1>8. CASE req' = [req EXCEPT ![p] =
                      [op |-> "import", pc |-> "append", source |-> "csv_import", key |-> <<>>,
                       type |-> req[p].type, rest |-> rest, row |-> row]]
    <2> DEFINE state == [op |-> "import", pc |-> "append", source |-> "csv_import", key |-> <<>>,
                         type |-> req[p].type, rest |-> rest, row |-> row]
    <2>1. state.rest = rest /\ state.pc = "append" /\ "pc" \in DOMAIN state
          /\ req' = [req EXCEPT ![p] = state]
      BY <1>8
    <2> HIDE DEF state
    <2>2. Orderly(state) /\ state.pc \notin Within
      BY <1>3, <2>1 DEF Orderly, Within
    <2>3. QED
      BY <1>1, <2>1, <2>2, MovesOutside
  <1>9. QED
    BY <1>6, <1>7, <1>8

LEMMA HardDeleteKeeps ==
  ASSUME LedgerInv, NEW p \in Proc, NEW r, HardDelete(p, r)
  PROVE  LedgerInv'
  <1> DEFINE state == [req[p] EXCEPT !.ids = @ \ {r}]
  <1>1. "pc" \in DOMAIN req[p] /\ req[p].pc = "delete"
    BY DEF LedgerInv, Orderly, HardDelete
  <1>2. "pc" \in DOMAIN state /\ state.pc = "delete"
    BY <1>1
  <1>3. req' = [req EXCEPT ![p] = Vacant] \/ req' = [req EXCEPT ![p] = state]
    BY DEF HardDelete
  <1>4. \A e \in ledger' : e \in ledger
    BY DEF HardDelete, Cascade
  <1> HIDE DEF state
  <1>5. Orderly(state) /\ state.pc \notin Within
    BY <1>2 DEF Orderly, Within
  <1>6. QED
    BY <1>3, <1>4, <1>5, VacantIsOrderly, MovesOutside DEF Within

LEMMA StatementFailsKeeps ==
  ASSUME LedgerInv, NEW p \in Proc, StatementFails(p)
  PROVE  LedgerInv'
  <1>1. ledger' = ledger
    BY DEF StatementFails
  <1>2. CASE req[p].pc = "create" /\ AfterRegister(p)
    BY <1>1, <1>2, FinishKeeps, GotoKeeps DEF AfterRegister, Within
  <1>3. CASE /\ req[p].pc \in {"lookup", "row"}
             /\ \E x \in req[p].todo : req' = [req EXCEPT ![p] = AfterRow(p, x)]
    BY <1>1, <1>3, AfterRowIsOutside, MovesOutside
  <1>4. CASE req[p].pc \in {"append", "project", "commit"} /\ AfterApply(p)
    <2>1. PICK state : /\ Orderly(state) /\ state.pc \notin Within
                       /\ req' = [req EXCEPT ![p] = state]
      BY <1>4, AfterApplyKeeps DEF Within
    <2>2. QED
      BY <1>1, <2>1, MovesOutside
  <1>5. CASE Finish(p)
    BY <1>1, <1>5, FinishKeeps
  <1>6. CASE Goto(p, "count") \/ Goto(p, "create") \/ Goto(p, "row")
    BY <1>1, <1>6, GotoKeeps DEF Within
  <1>7. WriteFails(p) => \/ req[p].pc = "create" /\ AfterRegister(p)
                         \/ /\ req[p].pc \in {"lookup", "row"}
                            /\ \E x \in req[p].todo : req' = [req EXCEPT ![p] = AfterRow(p, x)]
                         \/ req[p].pc \in {"append", "project", "commit"} /\ AfterApply(p)
    BY DEF WriteFails
  <1>8. LookupFails(p) => \/ /\ req[p].pc \in {"lookup", "row"}
                             /\ \E x \in req[p].todo : req' = [req EXCEPT ![p] = AfterRow(p, x)]
                          \/ Goto(p, "count") \/ Finish(p)
    BY DEF LookupFails
  <1>9. QuotaFails(p) => Goto(p, "create") \/ Goto(p, "row") \/ Finish(p)
    BY DEF QuotaFails
  <1>10. QED
    BY <1>2, <1>3, <1>4, <1>5, <1>6, <1>7, <1>8, <1>9 DEF StatementFails

\* Contacts that are heard of take events with them, and add none.
LEMMA HeardOfKeeps ==
  ASSUME LedgerInv, NEW x, HeardOf(x)
  PROVE  LedgerInv'
  <1>1. req' = req /\ \A e \in ledger' : e \in ledger
    BY DEF HeardOf, SaveContact, ResolveAndMigrateLID, Cascade
  <1>2. QED
    BY <1>1, NothingMoves

\* The back-fill writes events without a keyword, and no request survives.
LEMMA RestartKeeps ==
  ASSUME LedgerInv, GatewayRestarts
  PROVE  LedgerInv'
  <1>1. req' = [p \in Proc |-> req'[p]] /\ \A p \in Proc : req'[p] = Vacant
    BY DEF GatewayRestarts
  <1>2. \A e \in Backfill : e.key = <<>>
    BY DEF Backfill
  <1>3. \A e \in ledger' : e \in ledger \/ e.key = <<>>
    BY <1>2 DEF GatewayRestarts
  <1>4. QED
    BY <1>1, <1>3, VacantIsOrderly, NoKeyAdded DEF Within

LEMMA LedgerStep ==
  ASSUME LedgerInv, [AudienceNext]_audienceVars
  PROVE  LedgerInv'
  <1>1. ASSUME NEW p \in Proc, RequestStep(p)
        PROVE  LedgerInv'
    BY <1>1, RegisterKeeps, RecordKeeps, AppendKeeps, ProjectKeeps, CommitKeeps, ImportKeeps,
       ImportRowKeeps, HardDeleteKeeps, StatementFailsKeeps
    DEF RequestStep
  <1>2. ASSUME NEW x, SyncContacts(x) \/ HistorySync(x) \/ NameEvent(x)
        PROVE  LedgerInv'
    BY <1>2, HeardOfKeeps DEF SyncContacts, HistorySync, NameEvent
  <1>3. ASSUME NEW r, RetentionElapses(r) \/ Delivered(r)
        PROVE  LedgerInv'
    BY <1>3, NothingMoves DEF RetentionElapses, Delivered
  <1>4. CASE UNCHANGED audienceVars
    BY <1>4, NothingMoves DEF audienceVars
  <1>5. QED
    BY <1>1, <1>2, <1>3, <1>4, NewRequestKeeps, RestartKeeps DEF AudienceNext

\* However often a message is delivered, by whatever requests that overlap or
\* fail, and whenever the gateway restarts, the keyword in it is one event of
\* the ledger.
THEOREM KeywordIsRecordedOnce == AudienceSpec => []KeywordRecordedOnce
  <1>1. LedgerInv => KeywordRecordedOnce
    BY DEF LedgerInv
  <1>2. QED
    BY LedgerStart, LedgerStep, <1>1, PTL DEF AudienceSpec

-----------------------------------------------------------------------------
(* What one request at a time keeps *)

\* The row of a contact.
Origins == {"inbound_keyword", "operator", "csv_import", "whatsapp_sync"}
Contact == [person : Person, form : Forms, source : Origins, status : {"active", "opted_out"},
            erased : BOOLEAN, expired : BOOLEAN]

\* An erased contact has no number to be found by, and takes no message.
Directory ==
    /\ contacts \in [RowIds -> {NoContact} \cup Contact]
    /\ spent = [contacts |-> spent.contacts, requests |-> spent.requests,
                faults |-> spent.faults, syncs |-> spent.syncs, unmetered |-> spent.unmetered]
    /\ spent.contacts \in Nat /\ spent.unmetered \in Nat /\ now \in Nat
    /\ \A r \in Present : r <= spent.contacts
    /\ \A r \in Present : contacts[r].erased => contacts[r].form = "redacted" /\ contacts[r].status = "opted_out"
    /\ history \in [RowIds -> {"none", "linked", "unlinked", "lost"}]
    /\ said \in [Person -> Seq({"stop", "start"})]

\* A keyword some person sent: whose, and which of theirs.
Keyword(k) == k = <<k[1], k[2]>> /\ k[1] \in Person /\ k[2] \in 1..Len(said[k[1]])

\* A row of the ledger is about a contact that is there; the key of a keyword is
\* that of the contact's own person.
EventRow(e) ==
    /\ e.row \in Present /\ e.type \in Types /\ e.at \in Nat /\ e.at <= now
    /\ IF e.source = "inbound_keyword"
       THEN Keyword(e.key) /\ contacts[e.row].person = e.key[1]
       ELSE e.key = <<>>

\* The row a contact's status is projected from.
Newest(e) == \A f \in ledger : f.row = e.row => f.at <= e.at

\* The rows of one contact are ordered by time, and one of them is the newest.
Chronicle ==
    /\ \A e \in ledger : EventRow(e)
    /\ \A e, f \in ledger : e.row = f.row /\ e.at = f.at => e = f
    /\ \A e \in ledger : \E f \in ledger : f.row = e.row /\ Newest(f)

\* The status of a contact with a row in the ledger says what the newest says.
Projected ==
    \A e \in ledger : Newest(e) /\ ~contacts[e.row].erased =>
        (contacts[e.row].status = "opted_out" <=> e.type = "revoked")

\* A newest keyword that was not missed is the last this contact's ledger holds.
InOrder ==
    \A e \in ledger : Newest(e) /\ e.source = "inbound_keyword" /\ e.key \notin missed =>
        \A f \in ledger : f.row = e.row /\ f.source = "inbound_keyword" => f.key[2] <= e.key[2]

\* The contacts the plan's capacity is about, and how many it lets in: a check
\* that failed let in what it did not count.
Allowed == ContactsLimit + spent.unmetered
Counted == {r \in Present : contacts[r].source # "whatsapp_sync"}

HasContact(x) == \E r \in Present : contacts[r].person = x /\ contacts[r].form = "digits"

\* A keyword's answer is settled: recorded, or missed. One that is not is the
\* latest of its person.
Known(k) == k \in missed \/ \E e \in ledger : e.key = k
Latter(k) == Known(k) \/ k[2] = Len(said[k[1]])

\* The states of a request, one kind after the other. A message or a form that
\* looks its contact up: before "create" it has found the row, or room for one.
Registration(s) ==
    /\ s.pc \in {"lookup", "count", "create", "find"}
    /\ IF s.op = "inbound"
       THEN /\ s = [op |-> "inbound", pc |-> s.pc, person |-> s.person, source |-> "inbound_keyword",
                    type |-> s.type, key |-> s.key]
            /\ s.type \in Types /\ Keyword(s.key) /\ s.key[1] = s.person /\ Latter(s.key)
       ELSE /\ s.op = "manual"
            /\ s = [op |-> "manual", pc |-> s.pc, person |-> s.person, source |-> "operator"]
            /\ s.pc # "find"
    /\ s.person \in Person
    /\ s.pc = "create" => HasContact(s.person) \/ Cardinality(Counted) + 1 <= Allowed

\* An import counted the new rows before it creates the first.
New(s) == {x \in s.todo : s.known[x] = "new"}
Import(s) ==
    /\ s.op = "import"
    /\ s.pc \in {"lookup", "quota", "row"}
    /\ s = [op |-> "import", pc |-> s.pc, todo |-> s.todo, type |-> s.type, known |-> s.known]
    /\ s.todo \subseteq Person /\ s.type \in Types \cup {"none"}
    /\ s.pc # "lookup" => \A x \in s.todo : s.known[x] # "new" => HasContact(x)
    /\ s.pc = "row" => Cardinality(Counted) + Cardinality(New(s)) <= Allowed

\* What follows a transaction: the end of the request, or an import's next row.
Remaining(s) == s = Vacant \/ (Import(s) /\ s.pc = "row")

\* An event that may go to the ledger: a keyword is still its person's latest.
Recordable(s) ==
    /\ s.row \in RowIds /\ s.type \in Types
    /\ (s.row \in Present /\ contacts[s.row].erased) => s.type = "revoked"
    /\ IF s.source = "inbound_keyword"
       THEN /\ Keyword(s.key) /\ Latter(s.key)
            /\ s.row \in Present /\ contacts[s.row].person = s.key[1] /\ contacts[s.row].form = "digits"
       ELSE s.key = <<>>

\* A request on its way into the transaction of an event.
Appending(s) ==
    /\ s.pc = "append"
    /\ IF s.op = "import"
       THEN /\ s = [op |-> "import", pc |-> "append", row |-> s.row, source |-> s.source,
                    type |-> s.type, key |-> s.key, rest |-> s.rest]
            /\ Remaining(s.rest)
       ELSE /\ s = [op |-> s.op, pc |-> "append", row |-> s.row, source |-> s.source,
                    type |-> s.type, key |-> s.key]
            /\ s.op \in {"inbound", "erase"}
    /\ s.op = "inbound" <=> s.source = "inbound_keyword"
    /\ Recordable(s)

\* A transaction: its event is newer than every row of its contact, and its key
\* is not in the ledger.
Transacting(s) ==
    /\ s.pc \in {"project", "commit"}
    /\ s = [op |-> s.op, key |-> s.key, pc |-> s.pc, held |-> s.held, event |-> s.event, rest |-> s.rest]
    /\ s.event = [row |-> s.event.row, type |-> s.event.type, source |-> s.event.source,
                  key |-> s.event.key, at |-> s.event.at]
    /\ s.op \in {"inbound", "erase", "import"}
    /\ s.pc = "commit" => s.held = TRUE
    /\ Remaining(s.rest)
    /\ s.op = "inbound" <=> s.event.source = "inbound_keyword"
    /\ s.key = s.event.key
    /\ Recordable(s.event)
    /\ s.key # <<>> => \A e \in ledger : e.key # s.key
    /\ s.event.at \in Nat /\ s.event.at <= now
    /\ \A e \in ledger : e.row = s.event.row => e.at < s.event.at

Sweeping(s) == s.pc = "delete" /\ s = [op |-> "sweep", pc |-> "delete", ids |-> s.ids] /\ s.ids \subseteq RowIds

Request(s) == s = Vacant \/ Registration(s) \/ Import(s) \/ Appending(s) \/ Transacting(s) \/ Sweeping(s)

\* Every keyword is recorded, missed, or in the hands of a request.
Heard ==
    \A x \in Person : \A i \in 1..Len(said[x]) :
        Known(<<x, i>>) \/ \E p \in Proc : req[p].op = "inbound" /\ req[p].key = <<x, i>>

Requests ==
    /\ req = [p \in Proc |-> req[p]]
    /\ \A p \in Proc : Request(req[p])
    /\ ~Overlapping

\* What holds of the directory and the ledger whatever a request does next.
Settled == Directory /\ Chronicle /\ Projected /\ InOrder /\ WithinCapacity

LEMMA ContactIsThere == \A c \in Contact : c # NoContact
  <1> SUFFICES ASSUME NEW c \in Contact, c = NoContact PROVE FALSE
    OBVIOUS
  <1>1. "form" \in DOMAIN c
    BY DEF Contact
  <1>2. "form" \notin DOMAIN NoContact
    BY DEF NoContact
  <1>3. QED
    BY <1>1, <1>2

LEMMA PresentRow ==
  ASSUME Directory, NEW r \in Present
  PROVE  r \in RowIds /\ contacts[r] \in Contact
  BY DEF Directory, Present

LEMMA Unaccompanied ==
  ASSUME NEW p \in Proc, ~Overlapping, req[p] # Vacant
  PROVE  \A q \in Proc : q # p => req[q] = Vacant
  BY DEF Overlapping

-----------------------------------------------------------------------------
(* The directory and the ledger *)

LEMMA KeptIsFinite ==
  ASSUME Directory
  PROVE  Present \subseteq RowIds /\ IsFiniteSet(Present) /\ IsFiniteSet(Counted)
         /\ Cardinality(Present) \in Nat /\ Cardinality(Counted) \in Nat
         /\ Cardinality(Counted) <= Cardinality(Present)
  <1>1. IsFiniteSet(RowIds)
    BY FS_Interval, AudienceAssumption DEF RowIds
  <1>2. Present \subseteq RowIds /\ Counted \subseteq Present
    BY DEF Present, Counted
  <1>3. IsFiniteSet(Present) /\ IsFiniteSet(Counted)
    BY <1>1, <1>2, FS_Subset
  <1>4. QED
    BY <1>2, <1>3, FS_CardinalityType, FS_Subset

LEMMA WithinIsKept == WithinCapacity <=> Cardinality(Counted) <= Allowed
  BY DEF WithinCapacity, Counted, Allowed

LEMMA AllowedIsNat ==
  ASSUME Directory
  PROVE  Allowed \in Nat /\ ContactsLimit <= Allowed /\ ContactsLimit \in Nat
  BY AudienceAssumption DEF Directory, Allowed

\* A statement that fails spends a fault, and no contact.
Failing == \E n \in Nat : Failed(n)

LEMMA FailureSpends ==
  ASSUME Directory, NEW n \in Nat, Failed(n)
  PROVE  /\ spent' = [contacts |-> spent'.contacts, requests |-> spent'.requests,
                      faults |-> spent'.faults, syncs |-> spent'.syncs,
                      unmetered |-> spent'.unmetered]
         /\ spent'.contacts = spent.contacts /\ spent'.unmetered = spent.unmetered + n
         /\ Allowed' = Allowed + n /\ Allowed' \in Nat /\ Allowed <= Allowed'
  <1>1. spent' = [contacts |-> spent.contacts, requests |-> spent.requests,
                  faults |-> spent.faults + 1, syncs |-> spent.syncs,
                  unmetered |-> spent.unmetered + n]
    BY DEF Directory, Failed
  <1>2. Allowed \in Nat /\ ContactsLimit \in Nat /\ spent.unmetered \in Nat
    BY AllowedIsNat DEF Directory
  <1>3. Allowed' = Allowed + n
    BY <1>1, <1>2 DEF Allowed
  <1>4. QED
    BY <1>1, <1>2, <1>3

\* What a step spends when no quota check fails, and what it may spend.
LEMMA SameAllowed ==
  ASSUME Directory, spent'.unmetered = spent.unmetered
  PROVE  /\ Allowed' = Allowed /\ Allowed \in Nat /\ Allowed' \in Nat /\ Allowed <= Allowed'
         /\ spent'.unmetered \in Nat
  <1>1. Allowed' = Allowed /\ Allowed \in Nat /\ spent'.unmetered \in Nat
    BY AllowedIsNat DEF Allowed, Directory
  <1>2. QED
    BY <1>1

LEMMA Spending ==
  ASSUME Directory, spent' = spent \/ Failing
  PROVE  /\ spent' = [contacts |-> spent'.contacts, requests |-> spent'.requests,
                      faults |-> spent'.faults, syncs |-> spent'.syncs,
                      unmetered |-> spent'.unmetered]
         /\ spent'.contacts = spent.contacts /\ spent'.unmetered \in Nat
         /\ Allowed' \in Nat /\ Allowed <= Allowed'
  <1>1. CASE spent' = spent
    BY <1>1, SameAllowed DEF Directory
  <1>2. CASE Failing
    <2>1. PICK n \in Nat : Failed(n)
      BY <1>2 DEF Failing
    <2>2. QED
      BY <2>1, FailureSpends DEF Directory
  <1>3. QED
    BY <1>1, <1>2

\* A step that changes neither the directory nor the ledger.
LEMMA UntouchedKeeps ==
  ASSUME Settled, contacts' = contacts, ledger' = ledger, said' = said,
         missed \subseteq missed', now' \in Nat, now <= now',
         spent'.contacts = spent.contacts, spent'.unmetered \in Nat, Allowed <= Allowed',
         spent' = [contacts |-> spent'.contacts, requests |-> spent'.requests,
                   faults |-> spent'.faults, syncs |-> spent'.syncs,
                   unmetered |-> spent'.unmetered],
         history' \in [RowIds -> {"none", "linked", "unlinked", "lost"}]
  PROVE  Settled'
  <1>1. Present' = Present
    BY DEF Present
  <1>2. Directory'
    BY <1>1 DEF Settled, Directory
  <1>3. \A e \in ledger : e.at <= now'
    BY DEF Settled, Chronicle, EventRow, Directory
  <1>4. Chronicle'
    BY <1>1, <1>3 DEF Settled, Chronicle, EventRow, Keyword, Newest
  <1>5. Projected'
    BY DEF Settled, Projected, Newest
  <1>6. InOrder'
    BY DEF Settled, InOrder, Newest
  <1>7. WithinCapacity'
    <2>1. Counted' = Counted /\ Cardinality(Counted) \in Nat /\ Allowed \in Nat
      BY <1>1, KeptIsFinite, AllowedIsNat DEF Counted, Settled
    <2>2. Cardinality(Counted) <= Allowed
      BY WithinIsKept DEF Settled
    <2>3. Allowed' \in Nat
      BY AudienceAssumption DEF Allowed
    <2>4. Cardinality(Counted') <= Allowed'
      BY <2>1, <2>2, <2>3
    <2>5. QED
      BY <2>4 DEF WithinCapacity, Counted, Allowed
  <1>8. QED
    BY <1>2, <1>4, <1>5, <1>6, <1>7 DEF Settled

\* A row is added to the directory.
LEMMA CreationKeeps ==
  ASSUME Settled, NEW x \in Person, NEW form \in Forms \ {"redacted"}, NEW source \in Origins,
         spent.contacts < MaxRows,
         contacts' = [contacts EXCEPT ![spent.contacts + 1] = ContactRow(x, form, source)],
         spent' = [contacts |-> spent.contacts + 1, requests |-> spent'.requests,
                   faults |-> spent'.faults, syncs |-> spent'.syncs,
                   unmetered |-> spent'.unmetered],
         spent'.unmetered = spent.unmetered,
         source # "whatsapp_sync" => Cardinality(Counted) + 1 <= Allowed,
         UNCHANGED <<ledger, missed, said, now, history>>
  PROVE  /\ Settled'
         /\ Present' = Present \cup {spent.contacts + 1}
         /\ spent.contacts + 1 \in RowIds
         /\ contacts'[spent.contacts + 1] = ContactRow(x, form, source)
         /\ \A r \in Present : contacts'[r] = contacts[r]
         /\ source = "whatsapp_sync" => Counted' = Counted
         /\ source # "whatsapp_sync" => Cardinality(Counted') = Cardinality(Counted) + 1
  <1> DEFINE n == spent.contacts + 1
             row == ContactRow(x, form, source)
  <1>0. Directory /\ Chronicle
    BY DEF Settled
  <1>1. n \in RowIds /\ n \notin Present
    BY <1>0, AudienceAssumption DEF Directory, RowIds
  <1>2. row \in Contact /\ row # NoContact /\ ~row.erased /\ row.person = x /\ row.source = source
    <2>1. row \in Contact /\ ~row.erased /\ row.person = x /\ row.source = source
      BY DEF ContactRow, Contact
    <2>2. QED
      BY <2>1, ContactIsThere
  <1>3. contacts'[n] = row /\ \A r \in RowIds : r # n => contacts'[r] = contacts[r]
    BY <1>0, <1>1 DEF Directory
  <1> HIDE DEF row
  <1>4. Present' = Present \cup {n}
    BY <1>1, <1>2, <1>3 DEF Present
  <1>5. \A r \in Present : contacts'[r] = contacts[r] /\ r \in RowIds
    BY <1>1, <1>3 DEF Present
  <1>6. spent'.contacts = n /\ n \in Nat
    BY <1>0 DEF Directory
  <1>7. Directory'
    <2>1. contacts' \in [RowIds -> {NoContact} \cup Contact]
      BY <1>0, <1>1, <1>2 DEF Directory, row
    <2>2. \A r \in Present' : r <= spent'.contacts
      BY <1>0, <1>4, <1>5, <1>6, AudienceAssumption DEF Directory, RowIds
    <2>3. \A r \in Present' : contacts'[r].erased =>
             contacts'[r].form = "redacted" /\ contacts'[r].status = "opted_out"
      BY <1>0, <1>2, <1>3, <1>4, <1>5 DEF Directory
    <2>4. spent' = [contacts |-> spent'.contacts, requests |-> spent'.requests,
                    faults |-> spent'.faults, syncs |-> spent'.syncs,
                    unmetered |-> spent'.unmetered]
      BY <1>6
    <2>5. QED
      BY <1>0, <1>6, <2>1, <2>2, <2>3, <2>4 DEF Directory
  <1>8. Chronicle'
    BY <1>0, <1>4, <1>5 DEF Chronicle, EventRow, Keyword, Newest
  <1>9. Projected'
    BY <1>0, <1>5 DEF Settled, Projected, Newest, Chronicle, EventRow
  <1>10. InOrder'
    BY DEF Settled, InOrder, Newest
  <1>11. Counted' = IF source = "whatsapp_sync" THEN Counted ELSE Counted \cup {n}
    BY <1>2, <1>3, <1>4, <1>5 DEF Counted
  <1>12. source # "whatsapp_sync" => Cardinality(Counted') = Cardinality(Counted) + 1
    <2>1. n \notin Counted /\ IsFiniteSet(Counted)
      BY <1>0, <1>1, KeptIsFinite DEF Counted
    <2>2. Cardinality(Counted \cup {n}) = Cardinality(Counted) + 1
      BY <2>1, FS_AddElement
    <2>3. QED
      BY <1>11, <2>2
  <1>13. WithinCapacity'
    <2>1. Cardinality(Counted') <= Allowed
      BY <1>11, <1>12, WithinIsKept DEF Settled
    <2>2. Allowed' = Allowed
      BY <1>0, SameAllowed
    <2>3. QED
      BY <2>1, <2>2 DEF WithinCapacity, Counted, Allowed
  <1>14. QED
    BY <1>1, <1>3, <1>4, <1>5, <1>7, <1>8, <1>9, <1>10, <1>11, <1>12, <1>13 DEF Settled, row

\* Rows that stay keep their person and their form, or their form is a phone's
\* where it was a LID.
LEMMA RewriteKeeps ==
  ASSUME Settled, NEW r \in Present, NEW row \in Contact,
         contacts' = [contacts EXCEPT ![r] = row],
         row.person = contacts[r].person, row.source = contacts[r].source,
         row.erased => row.form = "redacted" /\ row.status = "opted_out",
         row.erased \/ (row.status = contacts[r].status /\ ~contacts[r].erased),
         UNCHANGED <<ledger, missed, said, now, history>>,
         spent' = spent \/ spent' = [spent EXCEPT !.requests = @ + 1]
  PROVE  Settled' /\ Present' = Present /\ Counted' = Counted
         /\ contacts'[r] = row /\ \A s \in Present : s # r => contacts'[s] = contacts[s]
  <1>0. Directory /\ Chronicle /\ r \in RowIds
    BY DEF Settled, Present
  <1>1. contacts'[r] = row /\ \A s \in RowIds : s # r => contacts'[s] = contacts[s]
    BY <1>0 DEF Directory
  <1>2. Present' = Present
    BY <1>1, ContactIsThere DEF Present
  <1>3. \A s \in Present : s \in RowIds
    BY DEF Present
  <1>4. Counted' = Counted
    BY <1>1, <1>2, <1>3 DEF Counted
  <1>5. Directory'
    <2>1. contacts' \in [RowIds -> {NoContact} \cup Contact]
      BY <1>0 DEF Directory
    <2>2. spent' = [contacts |-> spent'.contacts, requests |-> spent'.requests,
                    faults |-> spent'.faults, syncs |-> spent'.syncs,
                    unmetered |-> spent'.unmetered]
          /\ spent'.contacts = spent.contacts /\ spent'.unmetered = spent.unmetered
      BY <1>0 DEF Directory
    <2>3. \A s \in Present' : contacts'[s].erased =>
             contacts'[s].form = "redacted" /\ contacts'[s].status = "opted_out"
      BY <1>0, <1>1, <1>2, <1>3 DEF Directory
    <2>4. QED
      BY <1>0, <1>2, <2>1, <2>2, <2>3 DEF Directory
  <1>6. Chronicle'
    BY <1>0, <1>1, <1>2, <1>3 DEF Chronicle, EventRow, Keyword, Newest
  <1>7. Projected'
    BY <1>0, <1>1, <1>3 DEF Settled, Projected, Newest, Chronicle, EventRow
  <1>8. InOrder'
    BY DEF Settled, InOrder, Newest
  <1>9. WithinCapacity'
    <2>1. spent'.unmetered = spent.unmetered
      BY <1>0 DEF Directory
    <2>2. Allowed' = Allowed
      BY <1>0, <2>1, SameAllowed
    <2>3. Cardinality(Counted') <= Allowed'
      BY <1>4, <2>2, WithinIsKept DEF Settled
    <2>4. QED
      BY <2>3 DEF WithinCapacity, Counted, Allowed
  <1>10. QED
    BY <1>1, <1>2, <1>3, <1>4, <1>5, <1>6, <1>7, <1>8, <1>9 DEF Settled

\* The transaction of an event commits.
LEMMA CommitSettles ==
  ASSUME Settled, NEW e,
         e = [row |-> e.row, type |-> e.type, source |-> e.source, key |-> e.key, at |-> e.at],
         Recordable(e), e.row \in Present, e.at \in Nat, e.at <= now,
         \A f \in ledger : f.row = e.row => f.at < e.at,
         e.key # <<>> => \A f \in ledger : f.key # e.key,
         ledger' = ledger \cup {e},
         contacts' = [contacts EXCEPT ![e.row].status =
                          IF e.type = "revoked" THEN "opted_out" ELSE "active"],
         UNCHANGED <<missed, said, now, history, spent>>
  PROVE  Settled' /\ Present' = Present /\ Counted' = Counted
         /\ \A s \in Present : /\ contacts'[s].form = contacts[s].form
                               /\ contacts'[s].person = contacts[s].person
                               /\ contacts'[s].erased = contacts[s].erased
  <1> DEFINE r == e.row
             decided == IF e.type = "revoked" THEN "opted_out" ELSE "active"
  <1>0. Directory /\ Chronicle /\ r \in RowIds /\ contacts[r] \in Contact
    BY PresentRow DEF Settled, Present
  <1>1. /\ contacts'[r] = [contacts[r] EXCEPT !.status = decided]
        /\ \A s \in RowIds : s # r => contacts'[s] = contacts[s]
    BY <1>0 DEF Directory
  <1>2. /\ contacts'[r] \in Contact /\ contacts'[r].status = decided
        /\ contacts'[r].person = contacts[r].person /\ contacts'[r].form = contacts[r].form
        /\ contacts'[r].source = contacts[r].source /\ contacts'[r].erased = contacts[r].erased
    BY <1>0, <1>1 DEF Contact
  <1>3. Present' = Present
    BY <1>0, <1>1, <1>2, ContactIsThere DEF Present
  <1>4. \A s \in Present : s \in RowIds
    BY DEF Present
  <1>5. Counted' = Counted
    BY <1>1, <1>2, <1>3, <1>4 DEF Counted
  <1>6. contacts[r].erased => decided = "opted_out"
    BY DEF Recordable
  <1>7. Directory'
    <2>1. contacts' \in [RowIds -> {NoContact} \cup Contact]
      <3>1. contacts' = [s \in RowIds |-> contacts'[s]]
        BY <1>0 DEF Directory
      <3>2. \A s \in RowIds : contacts'[s] \in {NoContact} \cup Contact
        BY <1>0, <1>1, <1>2 DEF Directory
      <3>3. QED
        BY <3>1, <3>2
    <2>2. \A s \in Present' : contacts'[s].erased =>
             contacts'[s].form = "redacted" /\ contacts'[s].status = "opted_out"
      BY <1>0, <1>1, <1>2, <1>3, <1>4, <1>6 DEF Directory
    <2>3. QED
      BY <1>0, <1>3, <2>1, <2>2 DEF Directory
  <1>8. EventRow(e)
    BY DEF Recordable, EventRow
  <1>9. \A f \in ledger' : EventRow(f)'
    <2>1. \A f \in ledger' : f.row \in Present /\ contacts'[f.row].person = contacts[f.row].person
      BY <1>0, <1>1, <1>2, <1>4, <1>8 DEF Chronicle, EventRow
    <2>2. \A f \in ledger' : EventRow(f)
      BY <1>0, <1>8 DEF Chronicle
    <2>3. QED
      BY <1>3, <2>1, <2>2 DEF EventRow, Keyword
  <1>10. \A f \in ledger : f.at \in Nat
    BY <1>0 DEF Chronicle, EventRow
  <1>11. Newest(e)' /\ \A f \in ledger : f.row # r => (Newest(f)' <=> Newest(f))
    BY <1>10 DEF Newest
  <1>12. \A f \in ledger : f.row = r => ~Newest(f)'
    BY <1>10 DEF Newest
  <1>13. Chronicle'
    <2>1. \A f, g \in ledger' : f.row = g.row /\ f.at = g.at => f = g
      BY <1>0, <1>10 DEF Chronicle
    <2>2. \A f \in ledger' : \E g \in ledger' : g.row = f.row /\ Newest(g)'
      BY <1>0, <1>11 DEF Chronicle
    <2>3. QED
      BY <1>9, <2>1, <2>2 DEF Chronicle
  <1>14. \A f \in ledger' : Newest(f)' => f = e \/ (f \in ledger /\ f.row # r /\ Newest(f) /\ f.row \in Present)
    BY <1>0, <1>11, <1>12 DEF Chronicle, EventRow
  <1>15. Projected'
    <2> SUFFICES ASSUME NEW f \in ledger', Newest(f)', ~contacts'[f.row].erased
                 PROVE  contacts'[f.row].status = "opted_out" <=> f.type = "revoked"
      BY DEF Projected
    <2>1. CASE f = e
      BY <1>2, <2>1
    <2>2. CASE f \in ledger /\ f.row # r /\ Newest(f) /\ f.row \in Present
      BY <1>1, <1>4, <2>2 DEF Settled, Projected
    <2>3. QED
      BY <1>14, <2>1, <2>2
  <1>16. InOrder'
    <2> SUFFICES ASSUME NEW f \in ledger', Newest(f)', f.source = "inbound_keyword", f.key \notin missed,
                        NEW g \in ledger', g.row = f.row, g.source = "inbound_keyword"
                 PROVE  g.key[2] <= f.key[2]
      BY DEF InOrder
    <2>1. CASE f = e
      <3>1. Keyword(g.key) /\ Keyword(f.key) /\ g.key[1] = f.key[1]
        BY <1>0, <1>8, <2>1 DEF Chronicle, EventRow
      <3>2. f.key # <<>>
        BY <3>1 DEF Keyword
      <3>3. f.key[2] = Len(said[f.key[1]])
        BY <2>1, <3>2 DEF Recordable, Latter, Known
      <3>4. Len(said[f.key[1]]) \in Nat
        BY <1>0, <3>1 DEF Keyword, Directory
      <3>5. QED
        BY <3>1, <3>3, <3>4 DEF Keyword
    <2>2. CASE f \in ledger /\ f.row # r /\ Newest(f)
      BY <2>2 DEF Settled, InOrder
    <2>3. QED
      BY <1>14, <2>1, <2>2
  <1>17. WithinCapacity'
    <2>1. spent'.unmetered = spent.unmetered
      BY <1>0 DEF Directory
    <2>2. Allowed' = Allowed
      BY <1>0, <2>1, SameAllowed
    <2>3. Cardinality(Counted') <= Allowed'
      BY <1>5, <2>2, WithinIsKept DEF Settled
    <2>4. QED
      BY <2>3 DEF WithinCapacity, Counted, Allowed
  <1>18. \A s \in Present : /\ contacts'[s].form = contacts[s].form
                            /\ contacts'[s].person = contacts[s].person
                            /\ contacts'[s].erased = contacts[s].erased
    BY <1>1, <1>2, <1>4
  <1>19. QED
    BY <1>3, <1>5, <1>7, <1>13, <1>15, <1>16, <1>17, <1>18 DEF Settled

\* A row is deleted, and its events with it.
LEMMA CascadeKeeps ==
  ASSUME Settled, NEW r \in Present, Cascade(r), UNCHANGED <<said, now>>,
         spent' = [contacts |-> spent.contacts, requests |-> spent'.requests,
                   faults |-> spent'.faults, syncs |-> spent'.syncs,
                   unmetered |-> spent'.unmetered],
         spent'.unmetered = spent.unmetered,
         history' \in [RowIds -> {"none", "linked", "unlinked", "lost"}]
  PROVE  Settled' /\ Present' = Present \ {r} /\ Counted' = Counted \ {r}
         /\ \A s \in Present : s # r => contacts'[s] = contacts[s]
  <1>0. Directory /\ Chronicle /\ r \in RowIds
    BY DEF Settled, Present
  <1>1. contacts'[r] = NoContact /\ \A s \in RowIds : s # r => contacts'[s] = contacts[s]
    BY <1>0 DEF Directory, Cascade
  <1>2. Present' = Present \ {r}
    BY <1>1 DEF Present
  <1>3. \A s \in Present : s \in RowIds
    BY DEF Present
  <1>4. Counted' = Counted \ {r}
    BY <1>1, <1>2, <1>3 DEF Counted
  <1>5. ledger' = {e \in ledger : e.row # r} /\ missed \subseteq missed'
    BY DEF Cascade
  <1>6. Directory'
    <2>1. contacts' \in [RowIds -> {NoContact} \cup Contact]
      BY <1>0 DEF Directory, Cascade
    <2>2. \A s \in Present' : contacts'[s].erased =>
             contacts'[s].form = "redacted" /\ contacts'[s].status = "opted_out"
      BY <1>0, <1>1, <1>2, <1>3 DEF Directory
    <2>3. spent' = [contacts |-> spent'.contacts, requests |-> spent'.requests,
                    faults |-> spent'.faults, syncs |-> spent'.syncs,
                    unmetered |-> spent'.unmetered]
          /\ spent'.contacts = spent.contacts /\ spent'.unmetered = spent.unmetered
      OBVIOUS
    <2>4. QED
      BY <1>0, <1>2, <2>1, <2>2, <2>3 DEF Directory
  <1>7. \A e \in ledger' : Newest(e)' <=> Newest(e)
    BY <1>5 DEF Newest
  <1>8. Chronicle'
    <2>1. \A e \in ledger' : EventRow(e)'
      BY <1>0, <1>1, <1>2, <1>3, <1>5 DEF Chronicle, EventRow, Keyword
    <2>2. \A e \in ledger' : \E f \in ledger' : f.row = e.row /\ Newest(f)'
      BY <1>0, <1>5, <1>7 DEF Chronicle
    <2>3. QED
      BY <1>0, <1>5, <2>1, <2>2 DEF Chronicle
  <1>9. Projected'
    BY <1>0, <1>1, <1>3, <1>5, <1>7 DEF Settled, Projected, Chronicle, EventRow
  <1>10. InOrder'
    BY <1>5, <1>7 DEF Settled, InOrder
  <1>11. Cardinality(Counted') <= Cardinality(Counted)
    BY <1>0, <1>4, KeptIsFinite, FS_Subset
  <1>12. Cardinality(Counted') \in Nat
    BY <1>0, <1>4, KeptIsFinite, FS_Subset, FS_CardinalityType
  <1>13. WithinCapacity'
    <2>1. Cardinality(Counted') <= Allowed
      BY <1>0, <1>11, <1>12, WithinIsKept, KeptIsFinite, AllowedIsNat DEF Settled
    <2>2. Allowed' = Allowed
      BY <1>0, SameAllowed
    <2>3. QED
      BY <2>1, <2>2 DEF WithinCapacity, Counted, Allowed
  <1>14. QED
    BY <1>1, <1>2, <1>3, <1>4, <1>6, <1>8, <1>9, <1>10, <1>13 DEF Settled

\* The back-fill: an event for every row that has none, as its status says.
LEMMA BackfillKeeps ==
  ASSUME Settled, ledger' = ledger \cup Backfill, missed \subseteq missed',
         UNCHANGED <<contacts, history, now, said>>,
         spent' = [spent EXCEPT !.faults = @ + 1]
  PROVE  Settled'
  <1>0. Directory /\ Chronicle
    BY DEF Settled
  <1>1. Present' = Present
    BY DEF Present
  <1>2. \A e \in Backfill : /\ e.row \in Present /\ ~HasEvent(e.row, ledger)
                            /\ e.type = IF contacts[e.row].status = "opted_out" THEN "revoked" ELSE "granted"
                            /\ e.source = "legacy" /\ e.key = <<>> /\ e.at = now
    BY DEF Backfill
  <1>3. \A e, f \in Backfill : e.row = f.row => e = f
    BY DEF Backfill
  <1>4. \A e \in Backfill : EventRow(e)
    BY <1>0, <1>2 DEF EventRow, Directory, Types
  <1>5. \A e \in ledger', f \in ledger' : e.row = f.row =>
           e = f \/ (e \in ledger /\ f \in ledger)
    BY <1>2, <1>3 DEF HasEvent
  <1>6. \A e \in ledger : Newest(e)' <=> Newest(e)
    BY <1>5 DEF Newest
  <1>7. \A e \in ledger' : e.at \in Nat
    BY <1>0, <1>4 DEF Chronicle, EventRow
  <1>8. \A e \in ledger' : e \in ledger \/ (e \in Backfill /\ Newest(e)')
    BY <1>2, <1>3, <1>7 DEF Newest, HasEvent
  <1>9. Directory'
    BY <1>0, <1>1 DEF Directory
  <1>10. Chronicle'
    <2>1. \A e \in ledger' : EventRow(e)'
      BY <1>0, <1>1, <1>4 DEF Chronicle, EventRow, Keyword
    <2>2. \A e, f \in ledger' : e.row = f.row /\ e.at = f.at => e = f
      BY <1>0, <1>5 DEF Chronicle
    <2>3. \A e \in ledger' : \E f \in ledger' : f.row = e.row /\ Newest(f)'
      BY <1>0, <1>6, <1>8 DEF Chronicle
    <2>4. QED
      BY <2>1, <2>2, <2>3 DEF Chronicle
  <1>11. Projected'
    BY <1>2, <1>6, <1>8 DEF Settled, Projected
  <1>12. InOrder'
    <2>1. \A e \in ledger' : e.source = "inbound_keyword" => e \in ledger
      BY <1>2
    <2>2. QED
      BY <1>6, <2>1 DEF Settled, InOrder
  <1>13. WithinCapacity'
    <2>1. spent'.unmetered = spent.unmetered
      BY <1>0 DEF Directory
    <2>2. QED
      BY <1>1, <2>1 DEF Settled, WithinCapacity
  <1>14. QED
    BY <1>9, <1>10, <1>11, <1>12, <1>13 DEF Settled

\* The three statements follow.
LEMMA SettledMeans ==
  ASSUME Settled
  PROVE  StatusFollowsLedger /\ LastKeywordStands /\ WithinCapacity
  <1>1. ASSUME NEW r \in Present, HasEvent(r, ledger)
        PROVE  Latest(r, ledger) \in ledger /\ Latest(r, ledger).row = r /\ Newest(Latest(r, ledger))
    <2>1. \E e \in ledger : e.row = r /\ \A f \in ledger : f.row = r => f.at <= e.at
      BY <1>1 DEF Settled, Chronicle, HasEvent, Newest
    <2>2. QED
      BY <2>1 DEF Latest, Newest
  <1>2. StatusFollowsLedger
    BY <1>1 DEF Settled, Directory, Projected, StatusFollowsLedger
  <1>3. LastKeywordStands
    BY <1>1 DEF Settled, InOrder, LastKeywordStands
  <1>4. QED
    BY <1>2, <1>3 DEF Settled

-----------------------------------------------------------------------------
(* What a request goes by *)

\* No keyword is forgotten.
KeywordsKept ==
    /\ \A e \in ledger : e \in ledger' \/ e.key = <<>> \/ e.key \in missed'
    /\ missed \subseteq missed' /\ said' = said

\* What a step leaves true of what a request has found: the rows of the numbers
\* it looked up, and the keywords that were heard.
Preserving ==
    /\ \A r \in Present : contacts[r].form = "digits" =>
          r \in Present' /\ contacts'[r].form = "digits" /\ contacts'[r].person = contacts[r].person
    /\ \A r \in Present' : contacts'[r].erased => r \in Present /\ contacts[r].erased
    /\ KeywordsKept

RoomStays ==
    /\ Cardinality(Counted) \in Nat /\ Cardinality(Counted') \in Nat
    /\ Cardinality(Counted') <= Cardinality(Counted)
    /\ Allowed \in Nat /\ Allowed' \in Nat /\ Allowed <= Allowed'

\* What happens around a request without undoing what it has found out.
Undisturbing ==
    /\ Preserving /\ RoomStays
    /\ \A e \in ledger' : e \in ledger
    /\ now' \in Nat /\ now <= now'

LEMMA RowsStay ==
  ASSUME Preserving, NEW x, HasContact(x)
  PROVE  HasContact(x)'
  BY DEF Preserving, KeywordsKept, HasContact

LEMMA LatterStays ==
  ASSUME Preserving, NEW k, Keyword(k), Latter(k)
  PROVE  Keyword(k)' /\ Latter(k)'
  <1>1. Keyword(k)' /\ k # <<>>
    BY DEF Preserving, KeywordsKept, Keyword
  <1>2. Latter(k)'
    BY <1>1 DEF Preserving, KeywordsKept, Latter, Known
  <1>3. QED
    BY <1>1, <1>2

LEMMA NewIsFinite ==
  ASSUME NEW s, s.todo \subseteq Person
  PROVE  IsFiniteSet(New(s)) /\ Cardinality(New(s)) \in Nat
  <1>1. New(s) \subseteq Person
    BY DEF New
  <1>2. QED
    BY <1>1, FS_Subset, FS_CardinalityType, AudienceAssumption

LEMMA RegistrationStays ==
  ASSUME Preserving, RoomStays, NEW s, Registration(s)
  PROVE  Registration(s)'
  <1>1. s.op = "inbound" => Keyword(s.key)' /\ Latter(s.key)'
    <2>1. s.op = "inbound" => Keyword(s.key) /\ Latter(s.key)
      BY DEF Registration
    <2>2. QED
      BY <2>1, LatterStays
  <1>2. s.pc = "create" => HasContact(s.person)' \/ Cardinality(Counted') + 1 <= Allowed'
    BY RowsStay DEF Registration, RoomStays
  <1>3. QED
    BY <1>1, <1>2 DEF Registration

LEMMA ImportStays ==
  ASSUME Preserving, RoomStays, NEW s, Import(s)
  PROVE  Import(s)'
  <1>1. s.pc # "lookup" => \A x \in s.todo : s.known[x] # "new" => HasContact(x)'
    BY RowsStay DEF Import
  <1>2. Cardinality(New(s)) \in Nat
    BY NewIsFinite DEF Import
  <1>3. s.pc = "row" => Cardinality(Counted') + Cardinality(New(s)) <= Allowed'
    BY <1>2 DEF Import, RoomStays
  <1>4. New(s)' = New(s)
    BY DEF New
  <1>5. QED
    BY <1>1, <1>3, <1>4 DEF Import

LEMMA RemainingStays ==
  ASSUME Preserving, RoomStays, NEW s, Remaining(s)
  PROVE  Remaining(s)'
  BY ImportStays DEF Remaining

LEMMA RecordableStays ==
  ASSUME Preserving, NEW s, Recordable(s)
  PROVE  Recordable(s)'
  <1>1. CASE s.source = "inbound_keyword"
    <2>1. Keyword(s.key)' /\ Latter(s.key)'
      BY <1>1, LatterStays DEF Recordable
    <2>2. QED
      BY <1>1, <2>1 DEF Recordable, Preserving, KeywordsKept
  <1>2. CASE s.source # "inbound_keyword"
    BY <1>2 DEF Recordable, Preserving, KeywordsKept
  <1>3. QED
    BY <1>1, <1>2

LEMMA RequestStays ==
  ASSUME Undisturbing, NEW s, Request(s), now \in Nat
  PROVE  Request(s)'
  <1>1. CASE Registration(s)
    BY <1>1, RegistrationStays DEF Request, Undisturbing
  <1>2. CASE Import(s)
    BY <1>2, ImportStays DEF Request, Undisturbing
  <1>3. CASE Appending(s)
    <2>1. Recordable(s)'
      BY <1>3, RecordableStays DEF Appending, Undisturbing
    <2>2. s.op = "import" => Remaining(s.rest)'
      BY <1>3, RemainingStays DEF Appending, Undisturbing
    <2>3. Appending(s)'
      BY <1>3, <2>1, <2>2 DEF Appending
    <2>4. QED
      BY <2>3 DEF Request
  <1>4. CASE Transacting(s)
    <2>1. Recordable(s.event)'
      BY <1>4, RecordableStays DEF Transacting, Undisturbing
    <2>2. Remaining(s.rest)'
      BY <1>4, RemainingStays DEF Transacting, Undisturbing
    <2>3. Transacting(s)'
      BY <1>4, <2>1, <2>2 DEF Transacting, Undisturbing
    <2>4. QED
      BY <2>3 DEF Request
  <1>5. CASE Sweeping(s)
    BY <1>5 DEF Request, Sweeping
  <1>6. CASE s = Vacant
    BY <1>6 DEF Request
  <1>7. QED
    BY <1>1, <1>2, <1>3, <1>4, <1>5, <1>6 DEF Request

\* The requests go on as they were, around a step that disturbs none of them.
LEMMA RequestsStay ==
  ASSUME Requests, Heard, Undisturbing, req' = req, now \in Nat
  PROVE  Requests' /\ Heard'
  <1>1. ASSUME NEW p \in Proc
        PROVE  Request(req[p])'
    <2>1. PICK s : s = req[p]
      OBVIOUS
    <2>2. Request(s)
      BY <2>1 DEF Requests
    <2>3. Request(s)'
      BY <2>2, RequestStays
    <2>4. s = req'[p]
      BY <2>1
    <2>5. QED
      BY <2>3, <2>4
  <1>2. Requests'
    BY <1>1 DEF Requests, Overlapping
  <1>3. Heard'
    <2> SUFFICES ASSUME NEW x \in Person, NEW i \in 1..Len(said[x])
                 PROVE  Known(<<x, i>>)' \/ \E p \in Proc : req[p].op = "inbound" /\ req[p].key = <<x, i>>
      BY DEF Heard, Undisturbing, Preserving, KeywordsKept
    <2>1. Known(<<x, i>>) => Known(<<x, i>>)'
      BY DEF Known, Undisturbing, Preserving, KeywordsKept
    <2>2. QED
      BY <2>1 DEF Heard
  <1>4. QED
    BY <1>2, <1>3

\* One request at a time: what the theorem is about.
SerialInv == Settled /\ Heard /\ Requests

LEMMA VacantRequest == Request(Vacant) /\ Vacant.op = "idle" /\ Vacant.pc = "idle"
  BY DEF Request, Vacant

\* What only the request itself changes disturbs no request.
LEMMA StillUndisturbed ==
  ASSUME Settled, contacts' = contacts, ledger' = ledger, said' = said, missed \subseteq missed',
         now' \in Nat, now <= now', Allowed' \in Nat, Allowed <= Allowed'
  PROVE  Undisturbing
  <1>1. Present' = Present
    BY DEF Present
  <1>2. Counted' = Counted
    BY <1>1 DEF Counted
  <1>3. Cardinality(Counted) \in Nat
    BY KeptIsFinite DEF Settled
  <1>4. Allowed \in Nat
    BY AllowedIsNat DEF Settled
  <1>5. QED
    BY <1>1, <1>2, <1>3, <1>4 DEF Undisturbing, Preserving, KeywordsKept, RoomStays

LEMMA OthersWait ==
  ASSUME Requests, NEW p \in Proc, req[p].pc # "idle"
  PROVE  Request(req[p]) /\ \A q \in Proc : q # p => req[q] = Vacant
  <1>1. req[p] # Vacant
    BY VacantRequest
  <1>2. QED
    BY <1>1, Unaccompanied DEF Requests

LEMMA RequestMovesOn ==
  ASSUME Requests, NEW p \in Proc, NEW state, Request(state)',
         \A q \in Proc : q # p => req[q] = Vacant,
         req' = [req EXCEPT ![p] = state]
  PROVE  Requests' /\ req'[p] = state
  <1>1. req' = [q \in Proc |-> req'[q]] /\ req'[p] = state
        /\ \A q \in Proc : q # p => req'[q] = Vacant
    BY DEF Requests
  <1>2. ASSUME NEW q \in Proc
        PROVE  Request(req[q])'
    <2>1. CASE q = p
      <3>1. state = req'[q]
        BY <1>1, <2>1
      <3>2. QED
        BY <3>1
    <2>2. CASE q # p
      <3>1. Vacant = req'[q]
        BY <1>1, <2>2
      <3>2. Request(Vacant)'
        BY DEF Request
      <3>3. QED
        BY <3>1, <3>2
    <2>3. QED
      BY <2>1, <2>2
  <1>3. ~Overlapping'
    BY <1>1 DEF Overlapping
  <1>4. QED
    BY <1>1, <1>2, <1>3 DEF Requests

LEMMA StillHeard ==
  ASSUME Heard, NEW p \in Proc, \A q \in Proc : q # p => req[q] = Vacant, said' = said,
         \A k : Known(k) /\ k # <<>> => Known(k)',
         NEW word, word = req[p].key,
         req[p].op = "inbound" => Known(word)' \/ (req'[p].op = "inbound" /\ req'[p].key = word)
  PROVE  Heard'
  <1> SUFFICES ASSUME NEW x \in Person, NEW i \in 1..Len(said[x])
               PROVE  Known(<<x, i>>)' \/ \E q \in Proc : req'[q].op = "inbound" /\ req'[q].key = <<x, i>>
    BY DEF Heard
  <1>1. CASE Known(<<x, i>>)
    BY <1>1
  <1>2. CASE \E q \in Proc : req[q].op = "inbound" /\ req[q].key = <<x, i>>
    <2>1. req[p].op = "inbound" /\ req[p].key = <<x, i>>
      BY <1>2, VacantRequest
    <2>2. word = <<x, i>>
      BY <2>1
    <2>3. QED
      BY <2>1, <2>2
  <1>3. QED
    BY <1>1, <1>2 DEF Heard

\* A request takes a step that leaves the directory and the ledger alone.
LEMMA QuietStep ==
  ASSUME SerialInv, NEW p \in Proc, NEW state, req[p].pc # "idle",
         contacts' = contacts, ledger' = ledger, said' = said, history' = history,
         missed \subseteq missed', now' \in Nat, now <= now',
         spent' = spent \/ Failing,
         Request(state)', req' = [req EXCEPT ![p] = state],
         req[p].op = "inbound" =>
             req[p].key \in missed' \/ Known(req[p].key) \/ (state.op = "inbound" /\ state.key = req[p].key)
  PROVE  SerialInv'
  <1>1. \A q \in Proc : q # p => req[q] = Vacant
    BY OthersWait DEF SerialInv
  <1>2. Settled'
    <2>1. Settled /\ Directory
      BY DEF SerialInv, Settled
    <2>2. history' \in [RowIds -> {"none", "linked", "unlinked", "lost"}]
      BY <2>1 DEF Directory
    <2>3. QED
      BY <2>1, <2>2, Spending, UntouchedKeeps
  <1>3. Requests' /\ req'[p] = state
    BY <1>1, RequestMovesOn DEF SerialInv
  <1>4. \A k : Known(k) => Known(k)'
    BY DEF Known
  <1>5. PICK word : word = req[p].key
    OBVIOUS
  <1>6. req[p].op = "inbound" => Known(word)' \/ (req'[p].op = "inbound" /\ req'[p].key = word)
    <2>1. word \in missed' => Known(word)'
      BY DEF Known
    <2>2. Known(req[p].key) => Known(word)'
      BY <1>4, <1>5
    <2>3. QED
      BY <1>3, <1>5, <2>1, <2>2
  <1>7. Heard'
    BY <1>1, <1>4, <1>5, <1>6, StillHeard DEF SerialInv
  <1>8. QED
    BY <1>2, <1>3, <1>7 DEF SerialInv

-----------------------------------------------------------------------------
(* Registration *)

LEMMA Found ==
  ASSUME NEW x, NEW form
  PROVE  LET r == GetByRoutingValue(x, form)
         IN  /\ r # 0 => r \in Present /\ contacts[r].person = x /\ contacts[r].form = form
             /\ r = 0 => \A s \in Present : ~(contacts[s].person = x /\ contacts[s].form = form)
  <1>1. \A r \in Present : r # 0
    BY AudienceAssumption DEF Present, RowIds
  <1>2. QED
    BY <1>1 DEF GetByRoutingValue

LEMMA FoundDigits ==
  ASSUME NEW x
  PROVE  GetByRoutingValue(x, "digits") # 0 <=> HasContact(x)
  BY Found DEF HasContact

\* A request takes a step that keeps what it knows true.
LEMMA QuietMove ==
  ASSUME SerialInv, NEW p \in Proc, NEW state, req[p].pc # "idle",
         contacts' = contacts, ledger' = ledger, said' = said, history' = history,
         missed \subseteq missed', now' = now,
         spent' = spent \/ Failing,
         Request(state), req' = [req EXCEPT ![p] = state],
         req[p].op = "inbound" =>
             req[p].key \in missed' \/ Known(req[p].key) \/ (state.op = "inbound" /\ state.key = req[p].key)
  PROVE  SerialInv'
  <1>1. now \in Nat /\ now' \in Nat /\ now <= now'
    BY DEF SerialInv, Settled, Directory
  <1>2. Undisturbing
    BY <1>1, Spending, StillUndisturbed DEF SerialInv, Settled
  <1>3. Request(state)'
    BY <1>1, <1>2, RequestStays
  <1>4. QED
    BY <1>1, <1>3, QuietStep

LEMMA QuietEnd ==
  ASSUME SerialInv, NEW p \in Proc, req[p].pc # "idle",
         contacts' = contacts, ledger' = ledger, said' = said, history' = history,
         missed \subseteq missed', now' = now,
         spent' = spent \/ Failing,
         Finish(p),
         req[p].op = "inbound" => req[p].key \in missed' \/ Known(req[p].key)
  PROVE  SerialInv'
  BY VacantRequest, QuietMove DEF Finish

LEMMA RegistrationMoves ==
  ASSUME NEW s, Registration(s), NEW pc \in {"lookup", "count", "create", "find"},
         pc = "create" => HasContact(s.person) \/ Cardinality(Counted) + 1 <= Allowed,
         s.op = "manual" => pc # "find"
  PROVE  LET t == [s EXCEPT !.pc = pc]
         IN  Registration(t) /\ t.op = s.op /\ (s.op = "inbound" => t.key = s.key)
  <1> DEFINE t == [s EXCEPT !.pc = pc]
  <1>1. CASE s.op = "inbound"
    <2>1. s = [op |-> "inbound", pc |-> s.pc, person |-> s.person, source |-> "inbound_keyword",
               type |-> s.type, key |-> s.key]
          /\ s.type \in Types /\ Keyword(s.key) /\ s.key[1] = s.person /\ Latter(s.key) /\ s.person \in Person
      BY <1>1 DEF Registration
    <2>2. t = [op |-> "inbound", pc |-> pc, person |-> s.person, source |-> "inbound_keyword",
               type |-> s.type, key |-> s.key]
      BY <2>1
    <2> HIDE DEF t
    <2>3. t.op = "inbound" /\ t.pc = pc /\ t.person = s.person /\ t.type = s.type /\ t.key = s.key
      BY <2>2
    <2>4. Registration(t)
      BY <2>1, <2>2, <2>3 DEF Registration
    <2>5. QED
      BY <1>1, <2>3, <2>4 DEF t
  <1>2. CASE s.op # "inbound"
    <2>1. s = [op |-> "manual", pc |-> s.pc, person |-> s.person, source |-> "operator"]
          /\ s.person \in Person
      BY <1>2 DEF Registration
    <2>2. t = [op |-> "manual", pc |-> pc, person |-> s.person, source |-> "operator"]
      BY <2>1
    <2> HIDE DEF t
    <2>3. t.op = "manual" /\ t.pc = pc /\ t.person = s.person /\ s.op = "manual"
      BY <2>1, <2>2
    <2>4. Registration(t)
      BY <2>1, <2>2, <2>3 DEF Registration
    <2>5. QED
      BY <1>2, <2>3, <2>4 DEF t
  <1>3. QED
    BY <1>1, <1>2

\* Which kind of request is at a given place.
LEMMA Kinds ==
  ASSUME NEW s
  PROVE  /\ Registration(s) => s.op \in {"inbound", "manual"} /\ s.pc \in {"lookup", "count", "create", "find"}
         /\ Import(s) => s.op = "import" /\ s.pc \in {"lookup", "quota", "row"}
         /\ Appending(s) => s.pc = "append"
         /\ Transacting(s) => s.pc \in {"project", "commit"}
         /\ Sweeping(s) => s.pc = "delete"
         /\ s = Vacant => s.pc = "idle"
  <1>1. Registration(s) => s.op \in {"inbound", "manual"} /\ s.pc \in {"lookup", "count", "create", "find"}
    BY DEF Registration
  <1>2. s = Vacant => s.pc = "idle"
    BY VacantRequest
  <1>3. QED
    BY <1>1, <1>2 DEF Import, Appending, Transacting, Sweeping

LEMMA RegistrationAt ==
  ASSUME Requests, NEW p \in Proc,
         req[p].op \in {"inbound", "manual"}, req[p].pc \in {"lookup", "count", "create", "find"}
  PROVE  Registration(req[p])
  BY Kinds DEF Requests, Request

LEMMA RegisteringAt ==
  ASSUME Requests, NEW p \in Proc, req[p].pc \in {"count", "create", "find"}
  PROVE  Registration(req[p]) /\ req[p].op \in {"inbound", "manual"}
  BY Kinds DEF Requests, Request

LEMMA ImportAt ==
  ASSUME Requests, NEW p \in Proc,
         req[p].pc \in {"quota", "row"} \/ (req[p].pc = "lookup" /\ req[p].op = "import")
  PROVE  Import(req[p])
  BY Kinds DEF Requests, Request

LEMMA AppendingAt ==
  ASSUME Requests, NEW p \in Proc, req[p].pc = "append"
  PROVE  Appending(req[p])
  BY Kinds DEF Requests, Request

LEMMA TransactingAt ==
  ASSUME Requests, NEW p \in Proc, req[p].pc \in {"project", "wait", "commit"}
  PROVE  Transacting(req[p])
  BY Kinds DEF Requests, Request

LEMMA RegistrationGoes ==
  ASSUME SerialInv, NEW p \in Proc, Registration(req[p]),
         contacts' = contacts, ledger' = ledger, said' = said, history' = history,
         missed' = missed, now' = now, spent' = spent \/ Failing,
         NEW pc \in {"count", "create", "find"}, Goto(p, pc),
         pc = "create" => HasContact(req[p].person) \/ Cardinality(Counted) + 1 <= Allowed,
         req[p].op = "manual" => pc # "find"
  PROVE  SerialInv'
  <1>1. PICK s : s = req[p]
    OBVIOUS
  <1>2. PICK t : t = [s EXCEPT !.pc = pc]
    OBVIOUS
  <1>3. Registration(t) /\ t.op = s.op /\ (s.op = "inbound" => t.key = s.key)
    BY <1>1, <1>2, RegistrationMoves
  <1>4. req' = [req EXCEPT ![p] = t] /\ req[p].pc # "idle"
    BY <1>1, <1>2 DEF Goto, Registration
  <1>5. QED
    BY <1>1, <1>3, <1>4, QuietMove DEF Request

LEMMA LookupStep ==
  ASSUME SerialInv, NEW p \in Proc, RegisterLookup(p)
  PROVE  SerialInv'
  <1>1. Registration(req[p])
    BY RegistrationAt DEF RegisterLookup, SerialInv
  <1>2. CASE HasContact(req[p].person)
    <2>1. Goto(p, "create")
      BY <1>2, FoundDigits DEF RegisterLookup
    <2>2. QED
      BY <1>1, <1>2, <2>1, RegistrationGoes DEF RegisterLookup
  <1>3. CASE ~HasContact(req[p].person)
    <2>1. Goto(p, "count")
      BY <1>3, FoundDigits DEF RegisterLookup
    <2>2. QED
      BY <1>1, <2>1, RegistrationGoes DEF RegisterLookup
  <1>4. QED
    BY <1>2, <1>3

LEMMA RegisterQuotaStep ==
  ASSUME SerialInv, NEW p \in Proc, RegisterQuota(p)
  PROVE  SerialInv'
  <1>1. Registration(req[p]) /\ req[p].op \in {"inbound", "manual"}
    BY RegisteringAt DEF RegisterQuota, SerialInv
  <1>2. CASE AtCapacity(1)
    <2>1. CASE req[p].op = "inbound"
      <3>1. Goto(p, "find")
        BY <1>2, <2>1 DEF RegisterQuota, AfterRegister
      <3>2. QED
        BY <1>1, <2>1, <3>1, RegistrationGoes DEF RegisterQuota
    <2>2. CASE req[p].op # "inbound"
      BY <1>2, <2>2, QuietEnd DEF RegisterQuota, AfterRegister
    <2>3. QED
      BY <2>1, <2>2
  <1>3. CASE ~AtCapacity(1)
    <2>1. Cardinality(Counted) + 1 <= Allowed
      BY <1>3, KeptIsFinite, AllowedIsNat DEF AtCapacity, SerialInv, Settled
    <2>2. Goto(p, "create")
      BY <1>3 DEF RegisterQuota
    <2>3. QED
      BY <1>1, <2>1, <2>2, RegistrationGoes DEF RegisterQuota
  <1>4. QED
    BY <1>2, <1>3

LEMMA FindStep ==
  ASSUME SerialInv, NEW p \in Proc, RecordKeyword(p)
  PROVE  SerialInv'
  <1>1. Registration(req[p]) /\ req[p].op = "inbound"
    <2>1. Registration(req[p]) /\ req[p].pc = "find"
      BY RegisteringAt DEF RecordKeyword, SerialInv
    <2>2. QED
      BY <2>1 DEF Registration
  <1>2. PICK r : r = GetByRoutingValue(req[p].person, "digits")
    OBVIOUS
  <1>3. CASE r = 0
    <2>1. Finish(p) /\ missed' = missed \cup {req[p].key}
      BY <1>2, <1>3 DEF RecordKeyword
    <2>2. QED
      BY <2>1, QuietEnd DEF RecordKeyword
  <1>4. CASE r # 0
    <2>1. PICK state : state = [op |-> "inbound", pc |-> "append", row |-> r,
                                source |-> req[p].source, type |-> req[p].type, key |-> req[p].key]
      OBVIOUS
    <2>2. req' = [req EXCEPT ![p] = state] /\ missed' = missed
      BY <1>2, <1>4, <2>1 DEF RecordKeyword
    <2>3. /\ state.op = "inbound" /\ state.pc = "append" /\ state.row = r
          /\ state.source = req[p].source /\ state.type = req[p].type /\ state.key = req[p].key
          /\ state = [op |-> "inbound", pc |-> "append", row |-> state.row, source |-> state.source,
                      type |-> state.type, key |-> state.key]
      BY <2>1
    <2>4. r \in Present /\ contacts[r].person = req[p].person /\ contacts[r].form = "digits"
      BY <1>2, <1>4, Found
    <2>5. /\ req[p].source = "inbound_keyword" /\ req[p].type \in Types
          /\ Keyword(req[p].key) /\ req[p].key[1] = req[p].person /\ Latter(req[p].key)
      BY <1>1 DEF Registration
    <2>6. r \in RowIds /\ ~contacts[r].erased
      BY <2>4, PresentRow DEF SerialInv, Settled, Directory
    <2>7. Recordable(state)
      BY <2>3, <2>4, <2>5, <2>6 DEF Recordable
    <2>8. Appending(state)
      BY <2>3, <2>5, <2>7 DEF Appending
    <2>9. QED
      BY <2>2, <2>3, <2>8, QuietMove DEF RecordKeyword, Request
  <1>5. QED
    BY <1>3, <1>4

-----------------------------------------------------------------------------
(* Import *)

LEMMA ImportLookupStep ==
  ASSUME SerialInv, NEW p \in Proc, ImportLookup(p)
  PROVE  SerialInv'
  <1>1. Import(req[p]) /\ req[p].pc = "lookup"
    BY ImportAt DEF ImportLookup, SerialInv
  <1> DEFINE known == [x \in req[p].todo |->
                 LET r == GetByRoutingValue(x, "digits")
                 IN  IF r = 0 THEN "new" ELSE contacts[r].status]
  <1>2. PICK state : state = [[req[p] EXCEPT !.pc = "quota"] EXCEPT !.known = known]
    OBVIOUS
  <1>3. req' = [req EXCEPT ![p] = state]
    BY <1>2 DEF ImportLookup
  <1>4. req[p] = [op |-> "import", pc |-> req[p].pc, todo |-> req[p].todo, type |-> req[p].type,
                  known |-> req[p].known]
        /\ req[p].todo \subseteq Person /\ req[p].type \in Types \cup {"none"}
    BY <1>1 DEF Import
  <1>5. \A x \in req[p].todo : known[x] # "new" => HasContact(x)
    <2> SUFFICES ASSUME NEW x \in req[p].todo, ~HasContact(x)
                 PROVE  known[x] = "new"
      OBVIOUS
    <2>1. GetByRoutingValue(x, "digits") = 0
      BY FoundDigits
    <2>2. QED
      BY <2>1
  <1> HIDE DEF known
  <1>6. state = [op |-> "import", pc |-> "quota", todo |-> req[p].todo, type |-> req[p].type, known |-> known]
    <2>1. PICK moved : moved = [req[p] EXCEPT !.pc = "quota"]
      OBVIOUS
    <2>2. moved = [op |-> "import", pc |-> "quota", todo |-> req[p].todo, type |-> req[p].type,
                   known |-> req[p].known]
      BY <1>4, <2>1
    <2>3. state = [moved EXCEPT !.known = known]
      BY <1>2, <2>1
    <2>4. QED
      BY <2>2, <2>3
  <1>7. state.op = "import" /\ state.pc = "quota" /\ state.todo = req[p].todo /\ state.type = req[p].type
        /\ state.known = known
    BY <1>6
  <1>8. Import(state)
    BY <1>4, <1>5, <1>6, <1>7 DEF Import
  <1>9. QED
    BY <1>1, <1>3, <1>4, <1>8, QuietMove DEF ImportLookup, Request, Import

LEMMA ImportQuotaStep ==
  ASSUME SerialInv, NEW p \in Proc, ImportQuota(p)
  PROVE  SerialInv'
  <1>1. Import(req[p]) /\ req[p].pc = "quota" /\ req[p].op = "import"
    BY ImportAt DEF ImportQuota, SerialInv, Import
  <1>2. CASE AtCapacity(NewRecipients(p))
    <2>1. Finish(p)
      BY <1>2 DEF ImportQuota
    <2>2. QED
      BY <1>1, <2>1, QuietEnd DEF ImportQuota
  <1>3. CASE ~AtCapacity(NewRecipients(p))
    <2>1. PICK s : s = req[p]
      OBVIOUS
    <2>2. PICK state : state = [s EXCEPT !.pc = "row"]
      OBVIOUS
    <2>3. req' = [req EXCEPT ![p] = state]
      BY <1>3, <2>1, <2>2 DEF ImportQuota, Goto
    <2>4. s = [op |-> "import", pc |-> "quota", todo |-> s.todo, type |-> s.type, known |-> s.known]
          /\ s.todo \subseteq Person /\ s.type \in Types \cup {"none"}
          /\ \A x \in s.todo : s.known[x] # "new" => HasContact(x)
      BY <1>1, <2>1 DEF Import
    <2>5. state = [op |-> "import", pc |-> "row", todo |-> s.todo, type |-> s.type, known |-> s.known]
      BY <2>2, <2>4
    <2>6. state.op = "import" /\ state.pc = "row" /\ state.todo = s.todo /\ state.type = s.type
          /\ state.known = s.known
      BY <2>5
    <2>7. New(state) = New(s)
      BY <2>6 DEF New
    <2>8. Cardinality(Present) + Cardinality(New(s)) <= ContactsLimit
      <3>1. ~(Cardinality(Present) + Cardinality(New(s)) > ContactsLimit)
        BY <1>3, <2>1 DEF AtCapacity, New, NewRecipients
      <3>2. Cardinality(Present) \in Nat /\ Cardinality(New(s)) \in Nat /\ ContactsLimit \in Nat
        BY <2>4, KeptIsFinite, NewIsFinite, AudienceAssumption DEF SerialInv, Settled
      <3>3. QED
        BY <3>1, <3>2
    <2>9. Cardinality(Counted) + Cardinality(New(state)) <= Allowed
      <3>1. Cardinality(Present) \in Nat /\ Cardinality(New(s)) \in Nat /\ Cardinality(Counted) \in Nat
            /\ Cardinality(Counted) <= Cardinality(Present) /\ ContactsLimit \in Nat
            /\ ContactsLimit <= Allowed /\ Allowed \in Nat
        BY <2>4, KeptIsFinite, NewIsFinite, AllowedIsNat DEF SerialInv, Settled
      <3>2. QED
        BY <2>7, <2>8, <3>1
    <2>10. Import(state)
      BY <2>4, <2>5, <2>6, <2>9 DEF Import
    <2>11. QED
      BY <1>1, <2>3, <2>10, QuietMove DEF ImportQuota, Request
  <1>4. QED
    BY <1>2, <1>3

\* What is left to do after a contact's transaction.
LEMMA AfterApplyStep ==
  ASSUME SerialInv, NEW p \in Proc, req[p].op \in {"inbound", "erase", "import"},
         req[p].pc \in {"append", "project", "commit"}, AfterApply(p)
  PROVE  \E state : /\ Remaining(state) /\ req' = [req EXCEPT ![p] = state]
  <1>1. CASE req[p].op = "import"
    <2>1. Remaining(req[p].rest)
      BY <1>1, AppendingAt, TransactingAt DEF Appending, Transacting, SerialInv
    <2>2. req' = [req EXCEPT ![p] = req[p].rest]
      BY <1>1 DEF AfterApply
    <2>3. QED
      BY <2>1, <2>2
  <1>2. CASE req[p].op # "import"
    BY <1>2 DEF AfterApply, Finish, Remaining
  <1>3. QED
    BY <1>1, <1>2

LEMMA RemainingIsRequest ==
  ASSUME NEW s, Remaining(s)
  PROVE  Request(s)
  BY DEF Remaining, Request

LEMMA AppendStep ==
  ASSUME SerialInv, NEW p \in Proc, ApplyAppend(p)
  PROVE  SerialInv'
  <1>1. Appending(req[p]) /\ req[p].pc = "append"
    BY AppendingAt DEF ApplyAppend, SerialInv
  <1>2. req[p].op \in {"inbound", "erase", "import"} /\ Recordable(req[p])
        /\ (req[p].op = "inbound" <=> req[p].source = "inbound_keyword")
    BY <1>1 DEF Appending
  <1>3. CASE SameKey(req[p].key) \/ req[p].row \notin Present
    <2>1. AfterApply(p) /\ now' = now
      BY <1>3 DEF ApplyAppend
    <2>2. PICK state : Remaining(state) /\ req' = [req EXCEPT ![p] = state]
      BY <1>1, <1>2, <2>1, AfterApplyStep
    <2>3. req[p].op = "inbound" => Known(req[p].key)
      BY <1>2, <1>3 DEF Recordable, SameKey, Known
    <2>4. QED
      BY <1>1, <2>1, <2>2, <2>3, RemainingIsRequest, QuietMove DEF ApplyAppend
  <1>4. CASE ~SameKey(req[p].key) /\ req[p].row \in Present
    <2>1. PICK s : s = req[p]
      OBVIOUS
    <2>2. PICK event : event = [row |-> s.row, type |-> s.type, source |-> s.source, key |-> s.key,
                                at |-> now + 1]
      OBVIOUS
    <2>3. PICK rest : rest = IF s.op = "import" THEN s.rest ELSE Vacant
      OBVIOUS
    <2>4. PICK state : state = [op |-> s.op, key |-> s.key, pc |-> "project", held |-> FALSE,
                                event |-> event, rest |-> rest]
      OBVIOUS
    <2>5. req' = [req EXCEPT ![p] = state] /\ now' = now + 1
      BY <1>4, <2>1, <2>2, <2>3, <2>4 DEF ApplyAppend, Transaction
    <2>6. now \in Nat /\ now' \in Nat /\ now <= now'
      BY <2>5 DEF SerialInv, Settled, Directory
    <2>7. Undisturbing
      <3>1. Directory /\ Settled /\ spent' = spent
        BY DEF SerialInv, Settled, ApplyAppend
      <3>2. Allowed' \in Nat /\ Allowed <= Allowed'
        BY <3>1, Spending
      <3>3. QED
        BY <2>6, <3>1, <3>2, StillUndisturbed DEF ApplyAppend
    <2>8. event.row = s.row /\ event.type = s.type /\ event.source = s.source /\ event.key = s.key
          /\ event.at = now'
          /\ event = [row |-> event.row, type |-> event.type, source |-> event.source,
                      key |-> event.key, at |-> event.at]
      BY <2>2, <2>5
    <2>9. Recordable(event)'
      <3>1. Recordable(event)
        BY <1>2, <2>1, <2>8 DEF Recordable
      <3>2. QED
        BY <2>7, <3>1, RecordableStays DEF Undisturbing
    <2>10. Remaining(rest)'
      <3>1. Remaining(rest)
        BY <1>1, <2>1, <2>3 DEF Appending, Remaining
      <3>2. QED
        BY <2>7, <3>1, RemainingStays DEF Undisturbing
    <2>11. state.op = s.op /\ state.key = s.key /\ state.pc = "project" /\ state.event = event
           /\ state.rest = rest
           /\ state = [op |-> state.op, key |-> state.key, pc |-> state.pc, held |-> state.held,
                       event |-> state.event, rest |-> state.rest]
      BY <2>4
    <2>12. s.key # <<>> => \A e \in ledger' : e.key # s.key
      BY <1>4, <2>1 DEF SameKey, ApplyAppend
    <2>13. \A e \in ledger' : e.at < event.at
      BY <2>5, <2>6, <2>8 DEF SerialInv, Settled, Chronicle, EventRow, ApplyAppend
    <2>14. Transacting(state)'
      BY <1>2, <2>1, <2>6, <2>8, <2>9, <2>10, <2>11, <2>12, <2>13 DEF Transacting
    <2>15. Request(state)'
      BY <2>14 DEF Request
    <2>16. req[p].op = "inbound" => state.op = "inbound" /\ state.key = req[p].key
      BY <2>1, <2>11
    <2>17. contacts' = contacts /\ ledger' = ledger /\ said' = said /\ history' = history
           /\ missed' = missed /\ spent' = spent
      BY DEF ApplyAppend
    <2>18. QED
      BY <1>1, <2>5, <2>6, <2>15, <2>16, <2>17, QuietStep
  <1>5. QED
    BY <1>3, <1>4

\* Alone, a transaction finds its event the newest and the row free.
LEMMA ProjectStep ==
  ASSUME SerialInv, NEW p \in Proc, ApplyProject(p)
  PROVE  SerialInv'
  <1>1. Transacting(req[p]) /\ req[p].pc = "project"
    BY TransactingAt DEF ApplyProject, SerialInv
  <1>2. PICK s : s = req[p]
    OBVIOUS
  <1>3. \A f \in ledger \cup {s.event} : f.row = s.event.row => f = s.event \/ f.at < s.event.at
    BY <1>1, <1>2 DEF Transacting
  <1>4. s.event.at \in Nat /\ \A f \in ledger : f.at \in Nat
    BY <1>1, <1>2 DEF Transacting, SerialInv, Settled, Chronicle, EventRow
  <1>5. Latest(s.event.row, ledger \cup {s.event}) = s.event
    <2>1. s.event \in ledger \cup {s.event} /\ s.event.row = s.event.row
          /\ \A f \in ledger \cup {s.event} : f.row = s.event.row => f.at <= s.event.at
      BY <1>3, <1>4
    <2>2. \A e \in ledger \cup {s.event} :
             e.row = s.event.row /\ (\A f \in ledger \cup {s.event} : f.row = s.event.row => f.at <= e.at)
             => e = s.event
      BY <1>3, <1>4
    <2>3. QED
      BY <2>1, <2>2 DEF Latest
  <1>6. ~Locked(s.event.row)
    <2>1. \A q \in Proc : q # p => req[q] = Vacant
      BY <1>1, OthersWait DEF SerialInv
    <2>2. QED
      BY <1>1, <2>1, VacantRequest DEF Locked, InFlight
  <1>7. PICK state : state = [op |-> s.op, key |-> s.key, pc |-> "commit", held |-> TRUE,
                              event |-> s.event, rest |-> s.rest]
    OBVIOUS
  <1>8. req' = [req EXCEPT ![p] = state]
    BY <1>2, <1>5, <1>6, <1>7 DEF ApplyProject, Transaction
  <1>9. state.op = s.op /\ state.key = s.key /\ state.pc = "commit" /\ state.held = TRUE
        /\ state.event = s.event /\ state.rest = s.rest
        /\ state = [op |-> state.op, key |-> state.key, pc |-> state.pc, held |-> state.held,
                    event |-> state.event, rest |-> state.rest]
    BY <1>7
  <1>10. Transacting(state)
    BY <1>1, <1>2, <1>9 DEF Transacting
  <1>11. req[p].pc # "idle" /\ contacts' = contacts /\ ledger' = ledger /\ said' = said
         /\ history' = history /\ missed' = missed /\ now' = now /\ spent' = spent
    BY DEF ApplyProject
  <1>12. Request(state) /\ (req[p].op = "inbound" => state.op = "inbound" /\ state.key = req[p].key)
    BY <1>2, <1>9, <1>10 DEF Request
  <1>13. QED
    BY <1>8, <1>11, <1>12, QuietMove

LEMMA LockStep ==
  ASSUME SerialInv, NEW p \in Proc, ApplyLock(p)
  PROVE  FALSE
  BY TransactingAt DEF ApplyLock, SerialInv, Transacting

\* A request takes a step, whatever it does to the directory and the ledger.
LEMMA StepTaken ==
  ASSUME SerialInv, NEW p \in Proc, NEW state, req[p].pc # "idle",
         Settled', Request(state)', req' = [req EXCEPT ![p] = state],
         KeywordsKept,
         req[p].op = "inbound" => \/ state.op = "inbound" /\ state.key = req[p].key
                                  \/ req[p].key \in missed'
                                  \/ \E e \in ledger' : e.key = req[p].key
  PROVE  SerialInv'
  <1>1. \A q \in Proc : q # p => req[q] = Vacant
    BY OthersWait DEF SerialInv
  <1>2. Requests' /\ req'[p] = state
    BY <1>1, RequestMovesOn DEF SerialInv
  <1>3. \A k : Known(k) /\ k # <<>> => Known(k)'
    BY DEF Known, KeywordsKept
  <1>4. PICK word : word = req[p].key
    OBVIOUS
  <1>5. req[p].op = "inbound" => Known(word)' \/ (req'[p].op = "inbound" /\ req'[p].key = word)
    BY <1>2, <1>4 DEF Known
  <1>6. Heard'
    BY <1>1, <1>3, <1>4, <1>5, StillHeard DEF SerialInv, KeywordsKept
  <1>7. QED
    BY <1>2, <1>6 DEF SerialInv

LEMMA AfterRowRemains ==
  ASSUME Directory, NEW p \in Proc, Import(req[p]), req[p].pc = "row", NEW x \in req[p].todo
  PROVE  /\ Remaining(AfterRow(p, x))
         /\ AfterRow(p, x) # Vacant =>
               /\ AfterRow(p, x).todo = req[p].todo \ {x} /\ AfterRow(p, x).known = req[p].known
               /\ AfterRow(p, x).type = req[p].type
               /\ AfterRow(p, x) = [op |-> "import", pc |-> "row", todo |-> AfterRow(p, x).todo,
                                    type |-> req[p].type, known |-> req[p].known]
  <1>1. PICK s : s = req[p]
    OBVIOUS
  <1>2. PICK rest : rest = [s EXCEPT !.todo = @ \ {x}]
    OBVIOUS
  <1>3. s = [op |-> "import", pc |-> "row", todo |-> s.todo, type |-> s.type, known |-> s.known]
        /\ s.todo \subseteq Person /\ s.type \in Types \cup {"none"}
        /\ (\A y \in s.todo : s.known[y] # "new" => HasContact(y))
        /\ Cardinality(Counted) + Cardinality(New(s)) <= Allowed
    BY <1>1 DEF Import
  <1>4. rest = [op |-> "import", pc |-> "row", todo |-> s.todo \ {x}, type |-> s.type, known |-> s.known]
    BY <1>2, <1>3
  <1>5. rest.op = "import" /\ rest.pc = "row" /\ rest.todo = s.todo \ {x} /\ rest.type = s.type
        /\ rest.known = s.known
    BY <1>4
  <1>6. AfterRow(p, x) = rest \/ AfterRow(p, x) = Vacant
    BY <1>1, <1>2 DEF AfterRow
  <1>7. Cardinality(New(rest)) <= Cardinality(New(s))
        /\ Cardinality(New(rest)) \in Nat /\ Cardinality(New(s)) \in Nat
    <2>1. New(rest) \subseteq New(s)
      BY <1>5 DEF New
    <2>2. IsFiniteSet(New(s)) /\ Cardinality(New(s)) \in Nat
      BY <1>3, NewIsFinite
    <2>3. rest.todo \subseteq Person
      BY <1>3, <1>5
    <2>4. Cardinality(New(rest)) \in Nat
      BY <2>3, NewIsFinite
    <2>5. QED
      BY <2>1, <2>2, <2>4, FS_Subset
  <1>8. Remaining(rest)
    <2>1. Cardinality(Counted) \in Nat /\ Allowed \in Nat
      BY KeptIsFinite, AllowedIsNat
    <2>2. Cardinality(Counted) + Cardinality(New(rest)) <= Allowed
      BY <1>3, <1>7, <2>1
    <2>3. QED
      BY <1>3, <1>4, <1>5, <2>2 DEF Remaining, Import
  <1>9. QED
    BY <1>1, <1>4, <1>5, <1>6, <1>8 DEF Remaining

\* A contact that could not be looked up is left out of the import.
LEMMA LeftOutRemains ==
  ASSUME NEW p \in Proc, Import(req[p]), req[p].pc = "lookup", NEW x \in req[p].todo
  PROVE  Request(AfterRow(p, x))
  <1>1. PICK s : s = req[p]
    OBVIOUS
  <1>2. PICK rest : rest = [s EXCEPT !.todo = @ \ {x}]
    OBVIOUS
  <1>3. s = [op |-> "import", pc |-> "lookup", todo |-> s.todo, type |-> s.type, known |-> s.known]
        /\ s.todo \subseteq Person /\ s.type \in Types \cup {"none"}
    BY <1>1 DEF Import
  <1>4. rest = [op |-> "import", pc |-> "lookup", todo |-> s.todo \ {x}, type |-> s.type, known |-> s.known]
    BY <1>2, <1>3
  <1>5. rest.op = "import" /\ rest.pc = "lookup" /\ rest.todo = s.todo \ {x} /\ rest.type = s.type
        /\ rest.known = s.known
    BY <1>4
  <1>6. Import(rest)
    BY <1>3, <1>4, <1>5 DEF Import
  <1>7. AfterRow(p, x) = rest \/ AfterRow(p, x) = Vacant
    BY <1>1, <1>2 DEF AfterRow
  <1>8. QED
    BY <1>6, <1>7 DEF Request

LEMMA WriteFailsStep ==
  ASSUME SerialInv, NEW p \in Proc, WriteFails(p),
         UNCHANGED <<contacts, ledger, history, now, said>>
  PROVE  SerialInv'
  <1>1. contacts' = contacts /\ ledger' = ledger /\ said' = said /\ history' = history /\ now' = now
        /\ Failing /\ Directory
    BY DEF WriteFails, Failing, SerialInv, Settled
  <1>2. CASE req[p].pc = "create" /\ AfterRegister(p) /\ missed' = missed
    <2>1. Registration(req[p]) /\ req[p].op \in {"inbound", "manual"}
      BY <1>2, RegisteringAt DEF SerialInv
    <2>2. CASE req[p].op = "inbound"
      <3>1. Goto(p, "find")
        BY <1>2, <2>2 DEF AfterRegister
      <3>2. QED
        BY <1>1, <1>2, <2>1, <2>2, <3>1, RegistrationGoes
    <2>3. CASE req[p].op # "inbound"
      BY <1>1, <1>2, <2>3, QuietEnd DEF AfterRegister
    <2>4. QED
      BY <2>2, <2>3
  <1>3. CASE /\ req[p].pc = "row" /\ missed' = missed
             /\ \E x \in req[p].todo : req' = [req EXCEPT ![p] = AfterRow(p, x)]
    <2>1. PICK x \in req[p].todo : req' = [req EXCEPT ![p] = AfterRow(p, x)]
      BY <1>3
    <2>2. PICK state : state = AfterRow(p, x)
      OBVIOUS
    <2>3. Import(req[p]) /\ req[p].op = "import"
      BY <1>3, ImportAt DEF SerialInv, Import
    <2>4. Request(state)
      BY <1>1, <1>3, <2>2, <2>3, AfterRowRemains, RemainingIsRequest
    <2>5. req' = [req EXCEPT ![p] = state]
      BY <2>1, <2>2
    <2>6. QED
      BY <1>1, <1>3, <2>3, <2>4, <2>5, QuietMove
  <1>4. CASE /\ req[p].pc \in {"append", "project", "commit"}
             /\ AfterApply(p) /\ missed' = missed \cup Keywords({p})
    <2>1. req[p].op \in {"inbound", "erase", "import"}
      BY <1>4, AppendingAt, TransactingAt DEF Appending, Transacting, SerialInv
    <2>2. PICK state : Remaining(state) /\ req' = [req EXCEPT ![p] = state]
      BY <1>4, <2>1, AfterApplyStep
    <2>3. req[p].op = "inbound" => req[p].key \in missed'
      BY <1>4 DEF Keywords
    <2>4. QED
      BY <1>1, <1>4, <2>2, <2>3, RemainingIsRequest, QuietMove
  <1>5. QED
    BY <1>2, <1>3, <1>4 DEF WriteFails

LEMMA LookupFailsStep ==
  ASSUME SerialInv, NEW p \in Proc, LookupFails(p),
         UNCHANGED <<contacts, ledger, history, now, said>>
  PROVE  SerialInv'
  <1>1. contacts' = contacts /\ ledger' = ledger /\ said' = said /\ history' = history /\ now' = now
        /\ Failing
    BY DEF LookupFails, Failing
  <1>2. CASE /\ req[p].pc = "lookup" /\ req[p].op = "import" /\ missed' = missed
             /\ \E x \in req[p].todo : req' = [req EXCEPT ![p] = AfterRow(p, x)]
    <2>1. PICK x \in req[p].todo : req' = [req EXCEPT ![p] = AfterRow(p, x)]
      BY <1>2
    <2>2. PICK state : state = AfterRow(p, x)
      OBVIOUS
    <2>3. Import(req[p])
      BY <1>2, ImportAt DEF SerialInv
    <2>4. Request(state)
      BY <1>2, <2>2, <2>3, LeftOutRemains
    <2>5. req' = [req EXCEPT ![p] = state]
      BY <2>1, <2>2
    <2>6. QED
      BY <1>1, <1>2, <2>4, <2>5, QuietMove
  <1>3. CASE req[p].pc = "lookup" /\ req[p].op # "import" /\ missed' = missed /\ Goto(p, "count")
    <2>1. Registration(req[p])
      BY <1>3, Kinds DEF SerialInv, Requests, Request
    <2>2. QED
      BY <1>1, <1>3, <2>1, RegistrationGoes
  <1>4. CASE req[p].pc = "find" /\ Finish(p) /\ missed' = missed \cup {req[p].key}
    BY <1>1, <1>4, QuietEnd
  <1>5. QED
    BY <1>2, <1>3, <1>4 DEF LookupFails

\* A registration whose quota could not be read has room: the row it adds is
\* one of those let in unmetered.
LEMMA RegistrationLetIn ==
  ASSUME SerialInv, NEW p \in Proc, req[p].pc = "count", Goto(p, "create"), Failed(1),
         UNCHANGED <<contacts, ledger, history, now, said, missed>>
  PROVE  SerialInv'
  <1>1. Directory /\ Settled /\ Failing /\ now' \in Nat /\ now <= now'
    BY DEF SerialInv, Settled, Directory, Failing
  <1>2. PICK s : s = req[p]
    OBVIOUS
  <1>3. PICK t : t = [s EXCEPT !.pc = "create"]
    OBVIOUS
  <1>4. Registration(s) /\ s.pc = "count"
    BY <1>2, RegisteringAt DEF SerialInv
  <1>5. Undisturbing
    BY <1>1, Spending, StillUndisturbed
  <1>6. Cardinality(Counted') + 1 <= Allowed'
    <2>1. Allowed' = Allowed + 1 /\ Allowed \in Nat
      BY <1>1, FailureSpends, AllowedIsNat
    <2>2. Counted' = Counted
      BY DEF Counted, Present
    <2>3. Cardinality(Counted) \in Nat /\ Cardinality(Counted) <= Allowed
      BY <1>1, KeptIsFinite, WithinIsKept DEF Settled
    <2>4. QED
      BY <2>1, <2>2, <2>3
  <1>7. Registration(t)' /\ t.op = s.op /\ (s.op = "inbound" => t.key = s.key)
    <2>1. CASE s.op = "inbound"
      <3>1. s = [op |-> "inbound", pc |-> s.pc, person |-> s.person, source |-> "inbound_keyword",
                 type |-> s.type, key |-> s.key]
            /\ s.type \in Types /\ Keyword(s.key) /\ s.key[1] = s.person /\ Latter(s.key)
            /\ s.person \in Person
        BY <1>4, <2>1 DEF Registration
      <3>2. t = [op |-> "inbound", pc |-> "create", person |-> s.person, source |-> "inbound_keyword",
                 type |-> s.type, key |-> s.key]
        BY <1>3, <3>1
      <3>3. t.op = "inbound" /\ t.pc = "create" /\ t.person = s.person /\ t.type = s.type /\ t.key = s.key
            /\ t.source = "inbound_keyword"
        BY <3>2
      <3>4. Keyword(t.key)' /\ Latter(t.key)'
        BY <1>5, <3>1, <3>3, LatterStays DEF Undisturbing
      <3>5. Registration(t)'
        BY <1>6, <3>1, <3>2, <3>3, <3>4 DEF Registration
      <3>6. QED
        BY <2>1, <3>3, <3>5
    <2>2. CASE s.op # "inbound"
      <3>1. s = [op |-> "manual", pc |-> s.pc, person |-> s.person, source |-> "operator"]
            /\ s.person \in Person
        BY <1>4, <2>2 DEF Registration
      <3>2. t = [op |-> "manual", pc |-> "create", person |-> s.person, source |-> "operator"]
        BY <1>3, <3>1
      <3>3. t.op = "manual" /\ t.pc = "create" /\ t.person = s.person /\ s.op = "manual"
            /\ t.source = "operator"
        BY <3>1, <3>2
      <3>4. Registration(t)'
        BY <1>6, <3>1, <3>2, <3>3 DEF Registration
      <3>5. QED
        BY <2>2, <3>3, <3>4
    <2>3. QED
      BY <2>1, <2>2
  <1>8. Request(t)' /\ req' = [req EXCEPT ![p] = t]
    BY <1>2, <1>3, <1>7 DEF Request, Goto
  <1>9. QED
    BY <1>1, <1>2, <1>7, <1>8, QuietStep

\* An import whose quota could not be read has room for its new rows likewise.
LEMMA ImportLetIn ==
  ASSUME SerialInv, NEW p \in Proc, req[p].pc = "quota", Goto(p, "row"), Failed(NewRecipients(p)),
         UNCHANGED <<contacts, ledger, history, now, said, missed>>
  PROVE  SerialInv'
  <1>1. Directory /\ Settled /\ now' \in Nat /\ now <= now'
    BY DEF SerialInv, Settled, Directory
  <1>2. PICK s : s = req[p]
    OBVIOUS
  <1>3. PICK state : state = [s EXCEPT !.pc = "row"]
    OBVIOUS
  <1>4. Import(s) /\ s.pc = "quota"
    BY <1>2, ImportAt DEF SerialInv
  <1>5. s = [op |-> "import", pc |-> "quota", todo |-> s.todo, type |-> s.type, known |-> s.known]
        /\ s.todo \subseteq Person /\ s.type \in Types \cup {"none"}
        /\ \A x \in s.todo : s.known[x] # "new" => HasContact(x)
    BY <1>4 DEF Import
  <1>6. state = [op |-> "import", pc |-> "row", todo |-> s.todo, type |-> s.type, known |-> s.known]
    BY <1>3, <1>5
  <1>7. state.op = "import" /\ state.pc = "row" /\ state.todo = s.todo /\ state.type = s.type
        /\ state.known = s.known
    BY <1>6
  <1>8. New(state) = New(s) /\ NewRecipients(p) = Cardinality(New(s)) /\ Cardinality(New(s)) \in Nat
    BY <1>2, <1>5, <1>7, NewIsFinite DEF New, NewRecipients
  <1>9. Failing
    BY <1>8 DEF Failing
  <1>10. Undisturbing
    BY <1>1, <1>9, Spending, StillUndisturbed
  <1>11. Cardinality(Counted') + Cardinality(New(state)) <= Allowed'
    <2>1. Allowed' = Allowed + Cardinality(New(s)) /\ Allowed \in Nat
      BY <1>1, <1>8, FailureSpends, AllowedIsNat
    <2>2. Counted' = Counted
      BY DEF Counted, Present
    <2>3. Cardinality(Counted) \in Nat /\ Cardinality(Counted) <= Allowed
      BY <1>1, KeptIsFinite, WithinIsKept DEF Settled
    <2>4. QED
      BY <1>8, <2>1, <2>2, <2>3
  <1>12. \A x \in state.todo : state.known[x] # "new" => HasContact(x)'
    BY <1>5, <1>7, <1>10, RowsStay DEF Undisturbing
  <1>13. New(state)' = New(state)
    BY DEF New
  <1>14. Import(state)'
    BY <1>5, <1>6, <1>7, <1>11, <1>12, <1>13 DEF Import
  <1>15. Request(state)' /\ req' = [req EXCEPT ![p] = state]
    BY <1>2, <1>3, <1>14 DEF Request, Goto
  <1>16. req[p].op # "inbound" /\ contacts' = contacts /\ ledger' = ledger /\ said' = said
         /\ history' = history /\ missed \subseteq missed'
    BY <1>2, <1>5
  <1>17. QED
    BY <1>1, <1>9, <1>15, <1>16, QuietStep

LEMMA FailureStep ==
  ASSUME SerialInv, NEW p \in Proc, StatementFails(p)
  PROVE  SerialInv'
  <1>1. contacts' = contacts /\ ledger' = ledger /\ said' = said /\ history' = history /\ now' = now
    BY DEF StatementFails
  <1>2. CASE WriteFails(p)
    BY <1>1, <1>2, WriteFailsStep
  <1>3. CASE LookupFails(p)
    BY <1>1, <1>3, LookupFailsStep
  <1>4. CASE QuotaFails(p)
    <2>1. missed' = missed
      BY <1>4 DEF QuotaFails
    <2>2. CASE req[p].pc = "count" /\ Goto(p, "create") /\ Failed(1)
      BY <1>1, <2>1, <2>2, RegistrationLetIn
    <2>3. CASE req[p].pc = "quota" /\ Goto(p, "row") /\ Failed(NewRecipients(p))
      BY <1>1, <2>1, <2>3, ImportLetIn
    <2>4. CASE req[p].pc = "quota" /\ Finish(p) /\ Failed(0)
      <3>1. Failing
        BY <2>4 DEF Failing
      <3>2. req[p].op = "import"
        BY <2>4, ImportAt DEF SerialInv, Import
      <3>3. QED
        BY <1>1, <2>1, <2>4, <3>1, <3>2, QuietEnd
    <2>5. QED
      BY <1>4, <2>2, <2>3, <2>4 DEF QuotaFails
  <1>5. QED
    BY <1>2, <1>3, <1>4 DEF StatementFails

\* A number that is not in the directory gets a row.
LEMMA CreatedPreserves ==
  ASSUME SerialInv, NEW x \in Person, NEW source \in Origins, source # "whatsapp_sync",
         ~HasContact(x), Create(x, "digits", source), Cardinality(Counted) + 1 <= Allowed,
         UNCHANGED <<ledger, missed, said, now, history>>
  PROVE  /\ Settled' /\ Preserving /\ HasContact(x)'
         /\ Cardinality(Counted') = Cardinality(Counted) + 1 /\ Allowed' = Allowed
         /\ spent.contacts + 1 \in Present' /\ ~contacts'[spent.contacts + 1].erased
         /\ spent.contacts + 1 \in RowIds
  <1> DEFINE n == spent.contacts + 1
  <1>1. GetByRoutingValue(x, "digits") = 0
    BY FoundDigits
  <1>2. /\ spent.contacts < MaxRows
        /\ contacts' = [contacts EXCEPT ![n] = ContactRow(x, "digits", source)]
        /\ spent' = [spent EXCEPT !.contacts = @ + 1]
    BY <1>1 DEF Create
  <1>3. spent' = [contacts |-> spent.contacts + 1, requests |-> spent'.requests,
                  faults |-> spent'.faults, syncs |-> spent'.syncs,
                  unmetered |-> spent'.unmetered]
    BY <1>2 DEF SerialInv, Settled, Directory
  <1>4. "digits" \in Forms \ {"redacted"}
    BY DEF Forms
  <1>5. /\ Settled' /\ Present' = Present \cup {n} /\ n \in RowIds
        /\ contacts'[n] = ContactRow(x, "digits", source)
        /\ \A r \in Present : contacts'[r] = contacts[r]
        /\ Cardinality(Counted') = Cardinality(Counted) + 1
    <2>0. spent'.unmetered = spent.unmetered
      BY <1>2 DEF SerialInv, Settled, Directory
    <2>1. PICK form : form = "digits"
      OBVIOUS
    <2>2. contacts' = [contacts EXCEPT ![spent.contacts + 1] = ContactRow(x, form, source)]
      BY <1>2, <2>1
    <2>3. Settled /\ form \in Forms \ {"redacted"} /\ spent.contacts < MaxRows
      BY <1>2, <1>4, <2>1 DEF SerialInv
    <2>4. /\ Settled' /\ Present' = Present \cup {spent.contacts + 1}
          /\ spent.contacts + 1 \in RowIds
          /\ contacts'[spent.contacts + 1] = ContactRow(x, form, source)
          /\ \A r \in Present : contacts'[r] = contacts[r]
          /\ source # "whatsapp_sync" => Cardinality(Counted') = Cardinality(Counted) + 1
      BY <1>3, <2>0, <2>2, <2>3, CreationKeeps
    <2>5. QED
      BY <2>1, <2>4
  <1>6. contacts'[n].person = x /\ contacts'[n].form = "digits" /\ ~contacts'[n].erased
    BY <1>5 DEF ContactRow
  <1>7. HasContact(x)'
    BY <1>5, <1>6 DEF HasContact
  <1>8. Preserving
    BY <1>5, <1>6 DEF Preserving, KeywordsKept
  <1>9. Allowed' = Allowed
    <2>1. Directory /\ spent'.unmetered = spent.unmetered
      BY <1>2 DEF SerialInv, Settled, Directory
    <2>2. QED
      BY <2>1, SameAllowed
  <1>10. QED
    BY <1>5, <1>6, <1>7, <1>8, <1>9

LEMMA RegisterStep ==
  ASSUME SerialInv, NEW p \in Proc, RegisterInsert(p)
  PROVE  SerialInv'
  <1>1. Registration(req[p]) /\ req[p].op \in {"inbound", "manual"} /\ req[p].pc = "create"
    BY RegisteringAt DEF RegisterInsert, SerialInv
  <1>2. CASE HasContact(req[p].person)
    <2>1. contacts' = contacts /\ spent' = spent
      BY <1>2, FoundDigits DEF RegisterInsert, Create
    <2>2. CASE req[p].op = "inbound"
      <3>1. Goto(p, "find")
        BY <2>2 DEF RegisterInsert, AfterRegister
      <3>2. QED
        BY <1>1, <2>1, <2>2, <3>1, RegistrationGoes DEF RegisterInsert
    <2>3. CASE req[p].op # "inbound"
      BY <1>1, <2>1, <2>3, QuietEnd DEF RegisterInsert, AfterRegister
    <2>4. QED
      BY <2>2, <2>3
  <1>3. CASE ~HasContact(req[p].person)
    <2>1. PICK s : s = req[p]
      OBVIOUS
    <2>2. s.person \in Person /\ s.source \in Origins /\ s.source # "whatsapp_sync"
          /\ Cardinality(Counted) + 1 <= Allowed
      BY <1>1, <1>3, <2>1 DEF Registration, Origins
    <2>3. Settled' /\ Preserving
      <3>1. Create(s.person, "digits", s.source)
        BY <2>1 DEF RegisterInsert
      <3>2. ~HasContact(s.person)
        BY <1>3, <2>1
      <3>3. QED
        BY <2>2, <3>1, <3>2, CreatedPreserves DEF RegisterInsert
    <2>4. CASE s.op = "inbound"
      <3>1. PICK state : state = [s EXCEPT !.pc = "find"]
        OBVIOUS
      <3>2. req' = [req EXCEPT ![p] = state]
        BY <2>1, <2>4, <3>1 DEF RegisterInsert, AfterRegister, Goto
      <3>3. Registration(s)
        BY <1>1, <2>1
      <3>4. Registration(state) /\ state.op = "inbound" /\ state.key = s.key
        BY <2>4, <3>1, <3>3, RegistrationMoves
      <3>5. state.pc = "find"
        BY <2>4, <3>1, <3>3 DEF Registration
      <3>6. Keyword(state.key)' /\ Latter(state.key)'
        BY <2>3, <3>4, LatterStays DEF Registration
      <3>7. Registration(state)'
        BY <3>4, <3>5, <3>6 DEF Registration
      <3>8. QED
        BY <1>1, <2>1, <2>3, <3>2, <3>4, <3>7, StepTaken DEF Request, Preserving
    <2>5. CASE s.op # "inbound"
      <3>1. req' = [req EXCEPT ![p] = Vacant]
        BY <2>1, <2>5 DEF RegisterInsert, AfterRegister, Finish
      <3>2. Request(Vacant)'
        BY DEF Request
      <3>3. QED
        BY <1>1, <2>1, <2>3, <2>5, <3>1, <3>2, StepTaken DEF Preserving
    <2>6. QED
      BY <2>4, <2>5
  <1>4. QED
    BY <1>2, <1>3

-----------------------------------------------------------------------------
(* The rows of an import, and an operator's event *)

\* A contact of the import gets a row, which the plan has room for.
LEMMA RowCreated ==
  ASSUME SerialInv, NEW p \in Proc, Import(req[p]), req[p].pc = "row", NEW x \in req[p].todo,
         ~HasContact(x), Create(x, "digits", "csv_import"), UNCHANGED <<ledger, missed, said, now, history>>,
         NEW rest, rest = AfterRow(p, x)
  PROVE  /\ Settled' /\ Preserving /\ Remaining(rest)'
         /\ spent.contacts + 1 \in RowIds /\ spent.contacts + 1 \in Present'
         /\ ~contacts'[spent.contacts + 1].erased
  <1>1. PICK s : s = req[p]
    OBVIOUS
  <1>2. s.todo \subseteq Person /\ s.type \in Types \cup {"none"}
        /\ (\A y \in s.todo : s.known[y] # "new" => HasContact(y))
        /\ Cardinality(Counted) + Cardinality(New(s)) <= Allowed
    BY <1>1 DEF Import
  <1>3. x \in New(s) /\ x \in Person
    BY <1>1, <1>2 DEF New
  <1>4. IsFiniteSet(New(s)) /\ Cardinality(New(s)) \in Nat
    BY <1>2, NewIsFinite
  <1>5. Cardinality(New(s) \ {x}) = Cardinality(New(s)) - 1
    BY <1>3, <1>4, FS_RemoveElement
  <1>6. Cardinality(New(s) \ {x}) \in Nat
    BY <1>4, FS_Subset, FS_CardinalityType
  <1>7. Cardinality(Counted) \in Nat /\ Allowed \in Nat
    BY KeptIsFinite, AllowedIsNat DEF SerialInv, Settled
  <1>8. Cardinality(Counted) + 1 <= Allowed
    BY <1>2, <1>4, <1>5, <1>6, <1>7
  <1>9. /\ Settled' /\ Preserving /\ Cardinality(Counted') = Cardinality(Counted) + 1
        /\ Allowed' = Allowed
        /\ spent.contacts + 1 \in RowIds /\ spent.contacts + 1 \in Present'
        /\ ~contacts'[spent.contacts + 1].erased
    <2>1. "csv_import" \in Origins
      BY DEF Origins
    <2>2. QED
      BY <1>3, <1>8, <2>1, CreatedPreserves
  <1>10. Remaining(rest)'
    <2>1. CASE rest = Vacant
      BY <2>1 DEF Remaining
    <2>2. CASE rest # Vacant
      <3>1. /\ rest.todo = s.todo \ {x} /\ rest.known = s.known /\ rest.type = s.type
            /\ rest = [op |-> "import", pc |-> "row", todo |-> rest.todo, type |-> rest.type,
                       known |-> rest.known]
        BY <1>1, <2>2, AfterRowRemains DEF SerialInv, Settled
      <3>2. rest.op = "import" /\ rest.pc = "row"
        BY <3>1
      <3>3. New(rest) = New(s) \ {x}
        BY <3>1 DEF New
      <3>4. Cardinality(Counted') + Cardinality(New(rest)) <= Allowed'
        BY <1>2, <1>4, <1>5, <1>7, <1>9, <3>3
      <3>5. \A y \in rest.todo : rest.known[y] # "new" => HasContact(y)'
        BY <1>2, <1>9, <3>1, RowsStay
      <3>6. Import(rest)'
        BY <1>2, <3>1, <3>2, <3>4, <3>5 DEF Import, New
      <3>7. QED
        BY <3>2, <3>6 DEF Remaining
    <2>3. QED
      BY <2>1, <2>2
  <1>11. QED
    BY <1>9, <1>10

LEMMA ImportRowStep ==
  ASSUME SerialInv, NEW p \in Proc, NEW x, ImportRow(p, x)
  PROVE  SerialInv'
  <1>1. Import(req[p]) /\ req[p].pc = "row" /\ req[p].op = "import" /\ x \in req[p].todo
    BY ImportAt DEF ImportRow, SerialInv, Import
  <1>2. UNCHANGED <<ledger, history, now, said, missed>>
    BY DEF ImportRow
  <1>3. PICK rest : rest = AfterRow(p, x)
    OBVIOUS
  <1>4. Remaining(rest)
    BY <1>1, <1>3, AfterRowRemains DEF SerialInv, Settled
  <1>5. req[p].type \in Types \cup {"none"}
    BY <1>1 DEF Import
  <1>6. CASE OptOutGuard(p, x)
    <2>1. req' = [req EXCEPT ![p] = rest] /\ contacts' = contacts /\ spent' = spent
      BY <1>3, <1>6 DEF ImportRow
    <2>2. QED
      BY <1>1, <1>2, <1>4, <2>1, RemainingIsRequest, QuietMove
  <1>7. CASE ~OptOutGuard(p, x)
    <2>1. PICK r : r = GetByRoutingValue(x, "digits")
      OBVIOUS
    <2>2. PICK row : row = IF r # 0 THEN r ELSE spent.contacts + 1
      OBVIOUS
    <2>3. PICK state : state = IF req[p].type = "none" THEN rest
                               ELSE [op |-> "import", pc |-> "append", source |-> "csv_import", key |-> <<>>,
                                     type |-> req[p].type, rest |-> rest, row |-> row]
      OBVIOUS
    <2>4. Create(x, "digits", "csv_import") /\ req' = [req EXCEPT ![p] = state]
      BY <1>3, <1>7, <2>1, <2>2, <2>3 DEF ImportRow
    <2>5. req[p].type # "none" =>
             /\ state.op = "import" /\ state.pc = "append" /\ state.source = "csv_import"
             /\ state.key = <<>> /\ state.type = req[p].type /\ state.rest = rest /\ state.row = row
             /\ state = [op |-> "import", pc |-> "append", row |-> state.row, source |-> state.source,
                         type |-> state.type, key |-> state.key, rest |-> state.rest]
      BY <2>3
    <2>6. req[p].type = "none" => state = rest
      BY <2>3
    <2>7. CASE HasContact(x)
      <3>1. contacts' = contacts /\ spent' = spent /\ row = r
        BY <2>2, <2>4, <2>7, FoundDigits, <2>1 DEF Create
      <3>2. r \in Present /\ contacts[r].form = "digits"
        BY <2>1, <2>7, FoundDigits, Found
      <3>3. r \in RowIds /\ ~contacts[r].erased
        BY <3>2, PresentRow DEF SerialInv, Settled, Directory
      <3>4. req[p].type # "none" => Recordable(state)
        BY <1>5, <2>5, <3>1, <3>3 DEF Recordable
      <3>5. req[p].type # "none" => Appending(state)
        BY <1>4, <2>5, <3>4 DEF Appending
      <3>6. Request(state)
        BY <1>4, <2>6, <3>5, RemainingIsRequest DEF Request
      <3>7. QED
        BY <1>1, <1>2, <2>4, <3>1, <3>6, QuietMove
    <2>8. CASE ~HasContact(x)
      <3>1. row = spent.contacts + 1
        BY <2>1, <2>2, <2>8, FoundDigits
      <3>2. Settled' /\ Preserving /\ Remaining(rest)'
            /\ row \in RowIds /\ row \in Present' /\ ~contacts'[row].erased
        BY <1>1, <1>2, <1>3, <2>4, <2>8, <3>1, RowCreated
      <3>3. req[p].type # "none" => Recordable(state)'
        BY <1>5, <2>5, <3>2 DEF Recordable
      <3>4. req[p].type # "none" => Appending(state)'
        BY <2>5, <3>2, <3>3 DEF Appending
      <3>5. Request(state)'
        <4>1. Remaining(rest)' => Request(rest)'
          BY DEF Remaining, Request
        <4>2. QED
          BY <2>6, <3>2, <3>4, <4>1 DEF Request
      <3>6. QED
        BY <1>1, <2>4, <3>2, <3>5, StepTaken DEF Preserving
    <2>9. QED
      BY <2>7, <2>8
  <1>8. QED
    BY <1>6, <1>7

LEMMA CommitStep ==
  ASSUME SerialInv, NEW p \in Proc, ApplyCommit(p)
  PROVE  SerialInv'
  <1>1. Transacting(req[p]) /\ req[p].pc = "commit"
    BY TransactingAt DEF ApplyCommit, SerialInv
  <1>2. PICK s : s = req[p]
    OBVIOUS
  <1>3. PICK e : e = s.event
    OBVIOUS
  <1>4. /\ s.held = TRUE /\ s.op \in {"inbound", "erase", "import"} /\ Recordable(e)
        /\ e = [row |-> e.row, type |-> e.type, source |-> e.source, key |-> e.key, at |-> e.at]
        /\ e.at \in Nat /\ e.at <= now /\ (\A f \in ledger : f.row = e.row => f.at < e.at)
        /\ s.key = e.key /\ (e.key # <<>> => \A f \in ledger : f.key # e.key)
        /\ (s.op = "inbound" => e.source = "inbound_keyword")
    BY <1>1, <1>2, <1>3 DEF Transacting
  <1>5. PICK state : Remaining(state) /\ req' = [req EXCEPT ![p] = state]
    BY <1>1, <1>2, <1>4, AfterApplyStep DEF ApplyCommit
  <1>6. UNCHANGED <<history, now, said, missed, spent>>
    BY DEF ApplyCommit
  <1>7. CASE e.row \in Present
    <2>1. /\ ledger' = ledger \cup {e}
          /\ contacts' = [contacts EXCEPT ![e.row].status =
                              IF e.type = "revoked" THEN "opted_out" ELSE "active"]
      BY <1>2, <1>3, <1>4, <1>7 DEF ApplyCommit
    <2>2. /\ Settled' /\ Present' = Present /\ Counted' = Counted
          /\ \A r \in Present : /\ contacts'[r].form = contacts[r].form
                                /\ contacts'[r].person = contacts[r].person
                                /\ contacts'[r].erased = contacts[r].erased
      BY <1>4, <1>6, <1>7, <2>1, CommitSettles DEF SerialInv
    <2>3. Preserving
      BY <1>6, <2>1, <2>2 DEF Preserving, KeywordsKept
    <2>4. RoomStays
      <3>1. Directory /\ spent' = spent
        BY <1>6 DEF SerialInv, Settled
      <3>2. QED
        BY <2>2, <3>1, Spending, AllowedIsNat, KeptIsFinite DEF RoomStays
    <2>5. Request(state)'
      <3>1. Remaining(state)'
        BY <1>5, <2>3, <2>4, RemainingStays
      <3>2. QED
        BY <3>1 DEF Remaining, Request
    <2>6. req[p].op = "inbound" => \E f \in ledger' : f.key = req[p].key
      BY <1>2, <1>4, <2>1
    <2>7. QED
      BY <1>1, <1>5, <2>2, <2>3, <2>5, <2>6, StepTaken DEF Preserving
  <1>8. CASE e.row \notin Present
    <2>1. ledger' = ledger /\ contacts' = contacts
      BY <1>2, <1>3, <1>8 DEF ApplyCommit
    <2>2. s.op # "inbound"
      BY <1>4, <1>8 DEF Recordable
    <2>3. QED
      BY <1>1, <1>2, <1>5, <1>6, <2>1, <2>2, RemainingIsRequest, QuietMove
  <1>9. QED
    BY <1>7, <1>8

LEMMA CascadedPreserves ==
  ASSUME Settled, NEW r \in Present, contacts[r].form # "digits", Cascade(r), UNCHANGED <<said, now>>,
         spent' = spent, history' \in [RowIds -> {"none", "linked", "unlinked", "lost"}]
  PROVE  Settled' /\ Preserving /\ RoomStays /\ Undisturbing
  <1>1. Settled' /\ Present' = Present \ {r} /\ Counted' = Counted \ {r}
        /\ \A s \in Present : s # r => contacts'[s] = contacts[s]
    <2>1. spent' = [contacts |-> spent.contacts, requests |-> spent'.requests,
                    faults |-> spent'.faults, syncs |-> spent'.syncs,
                    unmetered |-> spent'.unmetered]
      BY DEF Settled, Directory
    <2>2. QED
      BY <2>1, CascadeKeeps
  <1>2. \A e \in ledger : e \in ledger' \/ e.key = <<>> \/ e.key \in missed'
    BY DEF Cascade
  <1>3. missed \subseteq missed' /\ \A e \in ledger' : e \in ledger
    BY DEF Cascade
  <1>4. Preserving
    BY <1>1, <1>2, <1>3 DEF Preserving, KeywordsKept
  <1>5. RoomStays
    <2>1. IsFiniteSet(Counted) /\ Cardinality(Counted) \in Nat
      BY KeptIsFinite DEF Settled
    <2>2. Allowed \in Nat /\ Allowed' \in Nat /\ Allowed <= Allowed'
      BY SameAllowed DEF Settled
    <2>3. QED
      BY <1>1, <2>1, <2>2, FS_Subset, FS_CardinalityType DEF RoomStays
  <1>6. Undisturbing
    BY <1>3, <1>4, <1>5 DEF Undisturbing, Settled, Directory
  <1>7. QED
    BY <1>1, <1>4, <1>5, <1>6

-----------------------------------------------------------------------------
(* The sweep, the account and faults *)

\* A deleted row takes no decision of the sweep with it.
LEMMA HardDeleteStep ==
  ASSUME SerialInv, NEW p \in Proc, NEW r, HardDelete(p, r)
  PROVE  SerialInv'
  <1>1. Sweeping(req[p]) /\ req[p].pc = "delete"
    BY Kinds DEF HardDelete, SerialInv, Requests, Request
  <1>2. PICK s : s = req[p]
    OBVIOUS
  <1>3. s = [op |-> "sweep", pc |-> "delete", ids |-> s.ids] /\ s.ids \subseteq RowIds
    BY <1>1, <1>2 DEF Sweeping
  <1>4. PICK state : state = IF s.ids = {r} THEN Vacant ELSE [s EXCEPT !.ids = @ \ {r}]
    OBVIOUS
  <1>5. req' = [req EXCEPT ![p] = state]
    BY <1>2, <1>4 DEF HardDelete
  <1>6. Request(state)'
    <2>1. CASE s.ids = {r}
      BY <1>4, <2>1 DEF Request
    <2>2. CASE s.ids # {r}
      <3>1. state = [op |-> "sweep", pc |-> "delete", ids |-> s.ids \ {r}]
        BY <1>3, <1>4, <2>2
      <3>2. Sweeping(state)'
        BY <1>3, <3>1 DEF Sweeping
      <3>3. QED
        BY <3>2 DEF Request
    <2>3. QED
      BY <2>1, <2>2
  <1>7. UNCHANGED <<now, said, spent>>
    BY DEF HardDelete
  <1>8. s.op # "inbound"
    BY <1>3
  <1>9. CASE r \in Present
    <2>1. Cascade(r) /\ history' = Unlinked(r)
      BY <1>9 DEF HardDelete
    <2>2. history' \in [RowIds -> {"none", "linked", "unlinked", "lost"}]
      BY <2>1 DEF Unlinked, SerialInv, Settled, Directory
    <2>3. spent' = [contacts |-> spent.contacts, requests |-> spent'.requests,
                    faults |-> spent'.faults, syncs |-> spent'.syncs,
                    unmetered |-> spent'.unmetered]
      BY <1>7 DEF SerialInv, Settled, Directory
    <2>4. Settled'
      BY <1>7, <1>9, <2>1, <2>2, <2>3, CascadeKeeps DEF SerialInv
    <2>5. KeywordsKept
      BY <1>7, <2>1 DEF KeywordsKept, Cascade
    <2>6. QED
      BY <1>1, <1>2, <1>5, <1>6, <1>8, <2>4, <2>5, StepTaken
  <1>10. CASE r \notin Present
    <2>1. UNCHANGED <<contacts, ledger, history, missed>>
      BY <1>10 DEF HardDelete
    <2>2. Settled'
      <3>1. Directory /\ now \in Nat /\ history \in [RowIds -> {"none", "linked", "unlinked", "lost"}]
        BY DEF SerialInv, Settled, Directory
      <3>2. QED
        BY <1>7, <2>1, <3>1, Spending, UntouchedKeeps DEF SerialInv
    <2>3. KeywordsKept
      BY <1>7, <2>1 DEF KeywordsKept
    <2>4. QED
      BY <1>1, <1>2, <1>5, <1>6, <1>8, <2>2, <2>3, StepTaken
  <1>11. QED
    BY <1>9, <1>10

-----------------------------------------------------------------------------
(* Requests that begin *)

LEMMA StartsAlone ==
  ASSUME Requests, NEW p \in Proc, NEW state, state # Vacant, Start(p, state), ~Overlapping'
  PROVE  /\ \A q \in Proc : req[q] = Vacant
         /\ req' = [req EXCEPT ![p] = state] /\ req'[p] = state
         /\ spent' = [spent EXCEPT !.requests = @ + 1]
  <1>1. req[p] = Vacant /\ req' = [req EXCEPT ![p] = state]
        /\ spent' = [spent EXCEPT !.requests = @ + 1]
    BY DEF Start
  <1>2. req'[p] = state /\ \A q \in Proc : q # p => req'[q] = req[q]
    BY <1>1 DEF Requests
  <1>3. QED
    BY <1>1, <1>2 DEF Overlapping

LEMMA StartTaken ==
  ASSUME SerialInv, NEW p \in Proc, NEW state, state # Vacant, Start(p, state), ~Overlapping',
         Settled', Request(state)', KeywordsKept
  PROVE  SerialInv'
  <1>1. /\ \A q \in Proc : req[q] = Vacant
        /\ req' = [req EXCEPT ![p] = state]
    BY StartsAlone DEF SerialInv
  <1>2. Requests'
    BY <1>1, RequestMovesOn DEF SerialInv
  <1>3. \A k : Known(k) /\ k # <<>> => Known(k)'
    BY DEF Known, KeywordsKept
  <1>4. PICK word : word = req[p].key
    OBVIOUS
  <1>5. req[p].op # "inbound"
    BY <1>1, VacantRequest
  <1>6. Heard'
    BY <1>1, <1>3, <1>4, <1>5, StillHeard DEF SerialInv, KeywordsKept
  <1>7. QED
    BY <1>2, <1>6 DEF SerialInv

\* A request that has only begun.
LEMMA QuietStart ==
  ASSUME SerialInv, NEW p \in Proc, NEW state, state # Vacant, Start(p, state), ~Overlapping',
         Request(state), UNCHANGED <<contacts, ledger, history, now, said, missed>>
  PROVE  SerialInv'
  <1>1. spent' = [spent EXCEPT !.requests = @ + 1]
    BY StartsAlone DEF SerialInv
  <1>2. spent' = [contacts |-> spent'.contacts, requests |-> spent'.requests,
                  faults |-> spent'.faults, syncs |-> spent'.syncs,
                  unmetered |-> spent'.unmetered]
        /\ spent'.contacts = spent.contacts /\ spent'.unmetered = spent.unmetered
    BY <1>1 DEF SerialInv, Settled, Directory
  <1>3. now \in Nat /\ now' \in Nat /\ now <= now' /\ Directory /\ Settled
        /\ history \in [RowIds -> {"none", "linked", "unlinked", "lost"}]
    BY DEF SerialInv, Settled, Directory
  <1>4. Settled'
    BY <1>2, <1>3, SameAllowed, UntouchedKeeps
  <1>5. Undisturbing
    BY <1>2, <1>3, SameAllowed, StillUndisturbed
  <1>6. Request(state)'
    BY <1>3, <1>5, RequestStays
  <1>7. QED
    BY <1>4, <1>5, <1>6, StartTaken DEF Undisturbing, Preserving

LEMMA CreateContactStep ==
  ASSUME SerialInv, NEW p \in Proc, NEW x \in Person, CreateContact(p, x), ~Overlapping'
  PROVE  SerialInv'
  <1>1. PICK state : state = [op |-> "manual", pc |-> "lookup", person |-> x, source |-> "operator"]
    OBVIOUS
  <1>2. state.op = "manual" /\ state.pc = "lookup" /\ state.person = x
    BY <1>1
  <1>3. Registration(state) /\ state # Vacant
    BY <1>1, <1>2, VacantRequest DEF Registration
  <1>4. QED
    BY <1>1, <1>3, QuietStart DEF CreateContact, Request

LEMMA ImportStartStep ==
  ASSUME SerialInv, NEW p \in Proc, NEW people \in SUBSET Person, NEW type \in Types \cup {"none"},
         ImportContacts(p, people, type), ~Overlapping'
  PROVE  SerialInv'
  <1>1. PICK known : known = [x \in people |-> "new"]
    OBVIOUS
  <1>2. PICK state : state = [op |-> "import", pc |-> "lookup", todo |-> people, type |-> type,
                              known |-> known]
    OBVIOUS
  <1>3. state.op = "import" /\ state.pc = "lookup" /\ state.todo = people /\ state.type = type
        /\ state.known = known
    BY <1>2
  <1>4. Import(state) /\ state # Vacant
    BY <1>2, <1>3, VacantRequest DEF Import
  <1>5. Start(p, state) /\ UNCHANGED <<contacts, ledger, history, now, said, missed>>
    BY <1>1, <1>2 DEF ImportContacts
  <1>6. QED
    BY <1>4, <1>5, QuietStart DEF Request

LEMMA SweepStep ==
  ASSUME SerialInv, NEW p \in Proc, SweepList(p), ~Overlapping'
  PROVE  SerialInv'
  <1>1. PICK state : state = [op |-> "sweep", pc |-> "delete", ids |-> FindAnonymizedExpired]
    OBVIOUS
  <1>2. FindAnonymizedExpired \subseteq RowIds
    BY DEF FindAnonymizedExpired, Present
  <1>3. state.op = "sweep" /\ state.pc = "delete" /\ state.ids \subseteq RowIds
        /\ state = [op |-> "sweep", pc |-> "delete", ids |-> state.ids]
    BY <1>1, <1>2
  <1>4. Sweeping(state) /\ state # Vacant
    BY <1>3, VacantRequest DEF Sweeping
  <1>5. QED
    BY <1>1, <1>4, QuietStart DEF SweepList, Request

\* An erasure redacts the row at once, and then records that it did.
LEMMA EraseStep ==
  ASSUME SerialInv, NEW p \in Proc, NEW r, DeleteRecipient(p, r), ~Overlapping'
  PROVE  SerialInv'
  <1>1. r \in Present /\ r \in RowIds /\ contacts[r] \in Contact
    BY PresentRow DEF DeleteRecipient, SerialInv, Settled
  <1>2. PICK row : row = [person |-> contacts[r].person, form |-> "redacted", source |-> contacts[r].source,
                          status |-> "opted_out", erased |-> TRUE, expired |-> contacts[r].expired]
    OBVIOUS
  <1>3. row \in Contact /\ row.person = contacts[r].person /\ row.source = contacts[r].source
        /\ row.erased = TRUE /\ row.form = "redacted" /\ row.status = "opted_out"
    BY <1>1, <1>2 DEF Contact, Forms
  <1>4. contacts \in [RowIds -> {NoContact} \cup Contact]
    BY DEF SerialInv, Settled, Directory
  <1>5. contacts'[r] = row
    BY <1>1, <1>2, <1>4 DEF DeleteRecipient, Anonymize, Contact
  <1>6. /\ contacts' = [s \in RowIds |-> contacts'[s]]
        /\ \A s \in RowIds : s # r => contacts'[s] = contacts[s]
    BY <1>1, <1>4 DEF DeleteRecipient, Anonymize
  <1>7. contacts' = [contacts EXCEPT ![r] = row]
    BY <1>4, <1>5, <1>6
  <1>8. PICK state : state = [op |-> "erase", pc |-> "append", row |-> r, type |-> "revoked",
                              source |-> "operator", key |-> <<>>]
    OBVIOUS
  <1>9. /\ state.op = "erase" /\ state.pc = "append" /\ state.row = r /\ state.type = "revoked"
        /\ state.source = "operator" /\ state.key = <<>>
        /\ state = [op |-> state.op, pc |-> "append", row |-> state.row, source |-> state.source,
                    type |-> state.type, key |-> state.key]
    BY <1>8
  <1>10. Start(p, state) /\ UNCHANGED <<ledger, history, now, said, missed>>
    BY <1>8 DEF DeleteRecipient
  <1>11. state # Vacant
    BY <1>9, VacantRequest
  <1>12. spent' = [spent EXCEPT !.requests = @ + 1]
    BY <1>10 DEF Start
  <1>13. Settled'
    BY <1>1, <1>3, <1>7, <1>10, <1>12, RewriteKeeps DEF SerialInv
  <1>14. Request(state)'
    <2>1. Recordable(state)'
      BY <1>1, <1>9 DEF Recordable, Types
    <2>2. Appending(state)'
      BY <1>9, <2>1 DEF Appending
    <2>3. QED
      BY <2>2 DEF Request
  <1>15. KeywordsKept
    BY <1>10 DEF KeywordsKept
  <1>16. QED
    BY <1>10, <1>11, <1>13, <1>14, <1>15, StartTaken

-----------------------------------------------------------------------------
(* A message arrives, and every step *)

\* A message arrives, new or again.
LEMMA KeywordStep ==
  ASSUME SerialInv, NEW p \in Proc, NEW x \in Person, NEW i \in 1..MaxWords, NEW word \in {"stop", "start"},
         Webhook(p, x, i, word), ~Overlapping'
  PROVE  SerialInv'
  <1> DEFINE type == ClassifyConsentKeyword(word)
  <1>1. PICK state : state = [op |-> "inbound", pc |-> "lookup", person |-> x,
                              source |-> "inbound_keyword", type |-> type, key |-> <<x, i>>]
    OBVIOUS
  <1>2. Start(p, state) /\ UNCHANGED <<contacts, ledger, history, now, missed>>
    BY <1>1 DEF Webhook
  <1>3. type \in Types
    BY DEF ClassifyConsentKeyword, Types
  <1> HIDE DEF type
  <1>4. /\ state.op = "inbound" /\ state.pc = "lookup" /\ state.person = x /\ state.type = type
        /\ state.key = <<x, i>>
        /\ state = [op |-> "inbound", pc |-> "lookup", person |-> state.person,
                    source |-> "inbound_keyword", type |-> state.type, key |-> state.key]
    BY <1>1
  <1>5. state # Vacant
    BY <1>4, VacantRequest
  <1>6. /\ \A q \in Proc : req[q] = Vacant
        /\ req' = [req EXCEPT ![p] = state] /\ req'[p] = state
        /\ spent' = [spent EXCEPT !.requests = @ + 1]
    BY <1>2, <1>5, StartsAlone DEF SerialInv
  <1>7. said \in [Person -> Seq({"stop", "start"})] /\ said[x] \in Seq({"stop", "start"})
    BY DEF SerialInv, Settled, Directory
  <1>8. \/ i = Len(said[x]) + 1 /\ said' = [said EXCEPT ![x] = Append(said[x], word)]
        \/ i \in 1..Len(said[x]) /\ said' = said
    BY <1>7 DEF Webhook
  <1>9. /\ said' \in [Person -> Seq({"stop", "start"})]
        /\ \A y \in Person : y # x => said'[y] = said[y]
        /\ i \in 1..Len(said'[x]) /\ \A j \in 1..Len(said[x]) : j \in 1..Len(said'[x])
        /\ \A j \in 1..Len(said'[x]) : j \in 1..Len(said[x]) \/ (j = i /\ i = Len(said'[x]))
    <2>1. CASE i = Len(said[x]) + 1 /\ said' = [said EXCEPT ![x] = Append(said[x], word)]
      <3>1. said'[x] = Append(said[x], word)
        BY <1>7, <2>1
      <3>2. Len(said'[x]) = Len(said[x]) + 1 /\ said'[x] \in Seq({"stop", "start"}) /\ Len(said[x]) \in Nat
        BY <1>7, <3>1
      <3>3. said' \in [Person -> Seq({"stop", "start"})] /\ \A y \in Person : y # x => said'[y] = said[y]
        BY <1>7, <2>1, <3>1, <3>2
      <3>4. QED
        BY <2>1, <3>2, <3>3
    <2>2. CASE i \in 1..Len(said[x]) /\ said' = said
      BY <1>7, <2>2
    <2>3. QED
      BY <1>8, <2>1, <2>2
  <1>10. \A k : Keyword(k) => Keyword(k)'
    BY <1>9 DEF Keyword
  <1>11. Present' = Present
    BY <1>2 DEF Present
  <1>12. Settled'
    <2>1. spent' = [contacts |-> spent'.contacts, requests |-> spent'.requests,
                    faults |-> spent'.faults, syncs |-> spent'.syncs,
                    unmetered |-> spent'.unmetered]
          /\ spent'.contacts = spent.contacts /\ spent'.unmetered = spent.unmetered
      BY <1>6 DEF SerialInv, Settled, Directory
    <2>2. Directory'
      BY <1>2, <1>9, <1>11, <2>1 DEF SerialInv, Settled, Directory
    <2>3. \A e \in ledger : EventRow(e)'
      BY <1>2, <1>10, <1>11 DEF SerialInv, Settled, Chronicle, EventRow
    <2>4. Chronicle'
      BY <1>2, <2>3 DEF SerialInv, Settled, Chronicle, Newest
    <2>5. Projected' /\ InOrder'
      BY <1>2 DEF SerialInv, Settled, Projected, InOrder, Newest
    <2>6. WithinCapacity'
      BY <1>2, <1>11, <2>1 DEF SerialInv, Settled, WithinCapacity
    <2>7. QED
      BY <2>2, <2>4, <2>5, <2>6 DEF Settled
  <1>13. \A k : Known(k) => Known(k)'
    BY <1>2 DEF Known
  <1>14. PICK key : key = <<x, i>>
    OBVIOUS
  <1>15. Known(key) \/ i = Len(said'[x])
    <2>1. CASE i \in 1..Len(said[x])
      <3>1. Known(<<x, i>>)
        BY <1>6, <2>1, VacantRequest DEF SerialInv, Heard
      <3>2. QED
        BY <1>14, <3>1
    <2>2. CASE i \notin 1..Len(said[x])
      BY <1>9, <2>2
    <2>3. QED
      BY <2>1, <2>2
  <1>16. Keyword(key)' /\ Latter(key)'
    <2>1. key[1] = x /\ key[2] = i /\ key = <<key[1], key[2]>>
      BY <1>14
    <2>2. Keyword(key)'
      BY <1>9, <2>1 DEF Keyword
    <2>3. Latter(key)'
      BY <1>13, <1>15, <2>1 DEF Latter
    <2>4. QED
      BY <2>2, <2>3
  <1>17. Request(state)'
    <2>1. state.key = key /\ key[1] = x
      BY <1>4, <1>14
    <2>2. Registration(state)'
      BY <1>3, <1>4, <1>16, <2>1 DEF Registration
    <2>3. QED
      BY <2>2 DEF Request
  <1>18. Requests'
    BY <1>6, <1>17, RequestMovesOn DEF SerialInv
  <1>19. Heard'
    <2> SUFFICES ASSUME NEW y \in Person, NEW j \in 1..Len(said'[y])
                 PROVE  Known(<<y, j>>)' \/ \E q \in Proc : req'[q].op = "inbound" /\ req'[q].key = <<y, j>>
      BY DEF Heard
    <2>1. CASE j \in 1..Len(said[y])
      <3>1. Known(<<y, j>>)
        BY <1>6, <2>1, VacantRequest DEF SerialInv, Heard
      <3>2. QED
        BY <1>13, <3>1
    <2>2. CASE j \notin 1..Len(said[y])
      BY <1>4, <1>6, <1>9, <2>2
    <2>3. QED
      BY <2>1, <2>2
  <1>20. QED
    BY <1>12, <1>18, <1>19 DEF SerialInv

-----------------------------------------------------------------------------
(* What happens around the requests *)

LEMMA AroundKeeps ==
  ASSUME SerialInv, Settled', Undisturbing, req' = req
  PROVE  SerialInv'
  BY RequestsStay DEF SerialInv, Settled, Directory

LEMMA SaveStep ==
  ASSUME SerialInv, NEW x \in Person, NEW form \in {"plus", "lid"}, SaveContact(x, form)
  PROVE  SerialInv'
  <1>1. UNCHANGED <<ledger, history, now, said, missed, req>> /\ now \in Nat
    BY DEF SaveContact, SerialInv, Settled, Directory
  <1>2. CASE contacts' = contacts /\ spent' = [spent EXCEPT !.syncs = @ + 1]
    <2>1. spent' = [contacts |-> spent'.contacts, requests |-> spent'.requests,
                    faults |-> spent'.faults, syncs |-> spent'.syncs,
                    unmetered |-> spent'.unmetered]
          /\ spent'.contacts = spent.contacts /\ spent'.unmetered = spent.unmetered
      BY <1>2 DEF SerialInv, Settled, Directory
    <2>2. Settled /\ Directory /\ history \in [RowIds -> {"none", "linked", "unlinked", "lost"}]
      BY DEF SerialInv, Settled, Directory
    <2>3. Settled' /\ Undisturbing
      BY <1>1, <1>2, <2>1, <2>2, SameAllowed, UntouchedKeeps, StillUndisturbed
    <2>4. QED
      BY <1>1, <2>3, AroundKeeps
  <1>3. CASE /\ spent.contacts < MaxRows
             /\ contacts' = [contacts EXCEPT ![spent.contacts + 1] = ContactRow(x, form, "whatsapp_sync")]
             /\ spent' = [spent EXCEPT !.syncs = @ + 1, !.contacts = @ + 1]
    <2>1. spent' = [contacts |-> spent.contacts + 1, requests |-> spent'.requests,
                    faults |-> spent'.faults, syncs |-> spent'.syncs,
                    unmetered |-> spent'.unmetered]
      BY <1>3 DEF SerialInv, Settled, Directory
    <2>0. spent'.unmetered = spent.unmetered
      BY <1>3 DEF SerialInv, Settled, Directory
    <2>2. form \in Forms \ {"redacted"} /\ "whatsapp_sync" \in Origins
      BY DEF Forms, Origins
    <2>3. /\ Settled' /\ Present' = Present \cup {spent.contacts + 1}
          /\ contacts'[spent.contacts + 1] = ContactRow(x, form, "whatsapp_sync")
          /\ (\A r \in Present : contacts'[r] = contacts[r]) /\ Counted' = Counted
      <3>1. PICK source \in Origins : source = "whatsapp_sync"
        BY <2>2
      <3>2. contacts' = [contacts EXCEPT ![spent.contacts + 1] = ContactRow(x, form, source)]
        BY <1>3, <3>1
      <3>3. spent.contacts < MaxRows /\ UNCHANGED <<ledger, missed, said, now, history>>
            /\ (source # "whatsapp_sync" => Cardinality(Counted) + 1 <= Allowed)
        BY <1>1, <1>3, <3>1
      <3>4. /\ Settled' /\ Present' = Present \cup {spent.contacts + 1}
            /\ contacts'[spent.contacts + 1] = ContactRow(x, form, source)
            /\ (\A r \in Present : contacts'[r] = contacts[r])
            /\ (source = "whatsapp_sync" => Counted' = Counted)
        BY <2>0, <2>1, <2>2, <3>2, <3>3, CreationKeeps DEF SerialInv
      <3>5. QED
        BY <3>1, <3>4
    <2>4. ~contacts'[spent.contacts + 1].erased
      BY <2>3 DEF ContactRow
    <2>5. Preserving
      BY <1>1, <2>3, <2>4 DEF Preserving, KeywordsKept
    <2>6. RoomStays
      <3>1. Directory
        BY DEF SerialInv, Settled
      <3>2. QED
        BY <2>0, <2>3, <3>1, SameAllowed, KeptIsFinite DEF RoomStays
    <2>7. Undisturbing
      BY <1>1, <2>5, <2>6 DEF Undisturbing
    <2>8. QED
      BY <1>1, <2>3, <2>7, AroundKeeps
  <1>4. QED
    BY <1>2, <1>3 DEF SaveContact

\* A row that stays keeps the number it is known by, and comes no closer to erasure.
LEMMA RewriteUndisturbing ==
  ASSUME SerialInv, NEW r \in Present, NEW row \in Contact, contacts' = [contacts EXCEPT ![r] = row],
         row.person = contacts[r].person, row.source = contacts[r].source,
         row.erased = contacts[r].erased, row.status = contacts[r].status,
         row.erased => row.form = "redacted", contacts[r].form # "digits",
         UNCHANGED <<ledger, missed, said, now, history, spent, req>>
  PROVE  SerialInv'
  <1>1. row.erased => row.status = "opted_out"
    BY DEF SerialInv, Settled, Directory
  <1>2. row.erased \/ (row.status = contacts[r].status /\ ~contacts[r].erased)
    BY DEF Contact
  <1>3. Settled' /\ Present' = Present /\ Counted' = Counted
        /\ contacts'[r] = row /\ \A s \in Present : s # r => contacts'[s] = contacts[s]
    BY <1>1, <1>2, RewriteKeeps DEF SerialInv
  <1>4. Preserving
    BY <1>3 DEF Preserving, KeywordsKept
  <1>5. RoomStays
    <2>1. Directory
      BY DEF SerialInv, Settled
    <2>2. QED
      BY <1>3, <2>1, SameAllowed, KeptIsFinite DEF RoomStays
  <1>6. Undisturbing
    BY <1>4, <1>5 DEF Undisturbing, SerialInv, Settled, Directory
  <1>7. QED
    BY <1>3, <1>6, AroundKeeps

LEMMA MigrateStep ==
  ASSUME SerialInv, NEW x \in Person, ResolveAndMigrateLID(x)
  PROVE  SerialInv'
  <1>1. PICK lid : lid = GetByRoutingValue(x, "lid")
    OBVIOUS
  <1>2. lid \in Present /\ contacts[lid].form = "lid" /\ contacts[lid] \in Contact
    BY <1>1, Found, PresentRow DEF ResolveAndMigrateLID, SerialInv, Settled
  <1>3. UNCHANGED <<now, said, req, spent>>
    BY DEF ResolveAndMigrateLID
  <1>4. CASE contacts' = [contacts EXCEPT ![lid].form = "plus"] /\ UNCHANGED <<ledger, history, missed>>
    <2>1. PICK row : row = [contacts[lid] EXCEPT !.form = "plus"]
      OBVIOUS
    <2>2. row \in Contact /\ row.person = contacts[lid].person /\ row.source = contacts[lid].source
          /\ row.erased = contacts[lid].erased /\ row.status = contacts[lid].status
      BY <1>2, <2>1 DEF Contact, Forms
    <2>3. ~contacts[lid].erased
      BY <1>2 DEF SerialInv, Settled, Directory
    <2>4. contacts' = [contacts EXCEPT ![lid] = row]
      BY <1>4, <2>1
    <2>5. QED
      BY <1>2, <1>3, <1>4, <2>2, <2>3, <2>4, RewriteUndisturbing
  <1>5. CASE Cascade(lid) /\ history' = [history EXCEPT ![lid] = IF @ = "linked" THEN "lost" ELSE @]
    <2>1. history' \in [RowIds -> {"none", "linked", "unlinked", "lost"}]
      BY <1>5 DEF SerialInv, Settled, Directory
    <2>2. Settled' /\ Undisturbing
      BY <1>2, <1>3, <1>5, <2>1, CascadedPreserves DEF SerialInv
    <2>3. QED
      BY <1>3, <2>2, AroundKeeps
  <1>6. QED
    BY <1>1, <1>4, <1>5 DEF ResolveAndMigrateLID

LEMMA ElapseStep ==
  ASSUME SerialInv, NEW r, RetentionElapses(r)
  PROVE  SerialInv'
  <1>1. r \in Present /\ contacts[r].erased /\ contacts[r] \in Contact
        /\ contacts[r].form = "redacted"
    BY PresentRow DEF RetentionElapses, SerialInv, Settled, Directory
  <1>2. PICK row : row = [contacts[r] EXCEPT !.expired = TRUE]
    OBVIOUS
  <1>3. row \in Contact /\ row.person = contacts[r].person /\ row.source = contacts[r].source
        /\ row.erased = contacts[r].erased /\ row.status = contacts[r].status /\ row.form = contacts[r].form
    BY <1>1, <1>2 DEF Contact
  <1>4. contacts' = [contacts EXCEPT ![r] = row]
    BY <1>2 DEF RetentionElapses
  <1>5. UNCHANGED <<ledger, missed, said, now, history, spent, req>>
    BY DEF RetentionElapses
  <1>6. (row.erased => row.form = "redacted") /\ contacts[r].form # "digits"
    BY <1>1, <1>3
  <1>7. QED
    BY <1>1, <1>3, <1>4, <1>5, <1>6, RewriteUndisturbing

LEMMA DeliveredStep ==
  ASSUME SerialInv, NEW r, Delivered(r)
  PROVE  SerialInv'
  <1>1. history' \in [RowIds -> {"none", "linked", "unlinked", "lost"}] /\ now \in Nat
        /\ spent' = [contacts |-> spent'.contacts, requests |-> spent'.requests,
                     faults |-> spent'.faults, syncs |-> spent'.syncs,
                     unmetered |-> spent'.unmetered]
    BY DEF Delivered, SerialInv, Settled, Directory
  <1>2. UNCHANGED <<contacts, ledger, now, said, missed, req, spent>>
    BY DEF Delivered
  <1>3. Directory /\ Settled
    BY DEF SerialInv, Settled
  <1>4. Settled' /\ Undisturbing
    BY <1>1, <1>2, <1>3, SameAllowed, UntouchedKeeps, StillUndisturbed
  <1>5. QED
    BY <1>2, <1>4, AroundKeeps

LEMMA RestartStep ==
  ASSUME SerialInv, GatewayRestarts
  PROVE  SerialInv'
  <1>1. /\ req' = [p \in Proc |-> Vacant] /\ ledger' = ledger \cup Backfill
        /\ missed' = missed \cup Keywords(Proc) /\ spent' = [spent EXCEPT !.faults = @ + 1]
        /\ UNCHANGED <<contacts, history, now, said>>
    BY DEF GatewayRestarts
  <1>2. Settled'
    BY <1>1, BackfillKeeps DEF SerialInv
  <1>3. \A p \in Proc : req'[p] = Vacant
    BY <1>1
  <1>4. Request(Vacant)'
    BY DEF Request
  <1>5. Requests'
    <2>1. ASSUME NEW p \in Proc
          PROVE  Request(req[p])'
      BY <1>3, <1>4, <2>1
    <2>2. QED
      BY <1>1, <1>3, <2>1 DEF Requests, Overlapping
  <1>6. Heard'
    <2>1. \A k : Known(k) => Known(k)'
      BY <1>1 DEF Known
    <2>2. \A p \in Proc : req[p].op = "inbound" => req[p].key \in missed'
      BY <1>1 DEF Keywords
    <2>3. \A k : k \in missed' => Known(k)'
      BY DEF Known
    <2>4. QED
      BY <1>1, <2>1, <2>2, <2>3 DEF SerialInv, Heard
  <1>7. QED
    BY <1>2, <1>5, <1>6 DEF SerialInv

-----------------------------------------------------------------------------
(* The theorem *)

LEMMA SerialStart == AudienceInit => SerialInv
  <1> SUFFICES ASSUME AudienceInit PROVE SerialInv
    OBVIOUS
  <1>1. Present = {} /\ Counted = {} /\ ledger = {} /\ Present = Counted
    BY DEF AudienceInit, Present, Counted
  <1>2. Directory
    BY <1>1 DEF AudienceInit, Directory
  <1>3. WithinCapacity
    BY <1>1, <1>2, FS_EmptySet, AllowedIsNat, WithinIsKept
  <1>4. Settled
    BY <1>1, <1>2, <1>3 DEF Settled, Chronicle, Projected, InOrder
  <1>5. Heard
    BY DEF AudienceInit, Heard
  <1>6. Requests
    BY VacantRequest DEF AudienceInit, Requests, Overlapping
  <1>7. QED
    BY <1>4, <1>5, <1>6 DEF SerialInv

LEMMA NothingStep ==
  ASSUME SerialInv, UNCHANGED audienceVars
  PROVE  SerialInv'
  <1>1. UNCHANGED <<contacts, ledger, history, now, said, missed, req, spent>> /\ now \in Nat
    BY DEF audienceVars, SerialInv, Settled, Directory
  <1>2. Directory /\ Settled /\ history \in [RowIds -> {"none", "linked", "unlinked", "lost"}]
    BY DEF SerialInv, Settled, Directory
  <1>3. Settled' /\ Undisturbing
    BY <1>1, <1>2, Spending, UntouchedKeeps, StillUndisturbed
  <1>4. QED
    BY <1>1, <1>3, AroundKeeps

LEMMA SerialStep ==
  ASSUME SerialInv, AudienceNext, ~Overlapping'
  PROVE  SerialInv'
  <1>1. ASSUME NEW p \in Proc, NewRequest(p)
        PROVE  SerialInv'
    <2>1. CASE \E x \in Person : CreateContact(p, x)
      BY <2>1, CreateContactStep
    <2>2. CASE \E x \in Person : \E i \in 1..MaxWords, word \in {"stop", "start"} : Webhook(p, x, i, word)
      BY <2>2, KeywordStep
    <2>3. CASE \E people \in SUBSET Person \ {{}}, type \in Types \cup {"none"} : ImportContacts(p, people, type)
      BY <2>3, ImportStartStep
    <2>4. CASE \E r \in RowIds : DeleteRecipient(p, r)
      BY <2>4, EraseStep
    <2>5. CASE SweepList(p)
      BY <2>5, SweepStep
    <2>6. QED
      BY <1>1, <2>1, <2>2, <2>3, <2>4, <2>5 DEF NewRequest
  <1>2. ASSUME NEW p \in Proc, RequestStep(p)
        PROVE  SerialInv'
    BY <1>2, LookupStep, RegisterQuotaStep, RegisterStep, FindStep, AppendStep, ProjectStep, LockStep, CommitStep,
       ImportLookupStep, ImportQuotaStep, ImportRowStep, HardDeleteStep, FailureStep DEF RequestStep
  <1>3. ASSUME NEW x \in Person, HeardOf(x)
        PROVE  SerialInv'
    BY <1>3, SaveStep, MigrateStep DEF HeardOf
  <1>4. ASSUME NEW r \in RowIds, RetentionElapses(r) \/ Delivered(r)
        PROVE  SerialInv'
    BY <1>4, ElapseStep, DeliveredStep
  <1>5. QED
    BY <1>1, <1>2, <1>3, <1>4, RestartStep DEF AudienceNext, SyncContacts, HistorySync, NameEvent

-----------------------------------------------------------------------------
(* What was delivered to an erased recipient *)

Whole(c) ==
    /\ c = [person |-> c.person, form |-> c.form, source |-> c.source, status |-> c.status,
            erased |-> c.erased, expired |-> c.expired]
    /\ c.erased \in BOOLEAN
    /\ c.erased => c.form = "redacted"

\* However the requests overlap: an erased row is known under no number or LID.
ErasedInv ==
    /\ contacts = [r \in RowIds |-> contacts[r]]
    /\ \A r \in Present : Whole(contacts[r])
    /\ history = [r \in RowIds |-> history[r]]

\* At most one row is written.
LEMMA RowWritten ==
  ASSUME ErasedInv, NEW r, NEW row, Whole(row) \/ row = NoContact,
         contacts' = [contacts EXCEPT ![r] = row], history' = [s \in RowIds |-> history'[s]]
  PROVE  ErasedInv'
  <1>1. /\ contacts' = [s \in RowIds |-> contacts'[s]]
        /\ \A s \in RowIds : contacts'[s] = IF s = r THEN row ELSE contacts[s]
    BY DEF ErasedInv
  <1>2. \A s \in Present' : Whole(contacts'[s])
    BY <1>1 DEF ErasedInv, Present
  <1>3. QED
    BY <1>1, <1>2 DEF ErasedInv, Whole

LEMMA NothingWritten ==
  ASSUME ErasedInv, contacts' = contacts, history' = [s \in RowIds |-> history'[s]]
  PROVE  ErasedInv'
  BY DEF ErasedInv, Present, Whole

LEMMA NewIsWhole ==
  ASSUME NEW x, NEW form, NEW source
  PROVE  Whole(ContactRow(x, form, source))
  BY DEF Whole, ContactRow

LEMMA CreateWrites ==
  ASSUME ErasedInv, NEW x, NEW form, NEW source, Create(x, form, source), history' = history
  PROVE  ErasedInv'
  <1>1. PICK row : row = ContactRow(x, form, source)
    OBVIOUS
  <1>2. contacts' = contacts \/ contacts' = [contacts EXCEPT ![spent.contacts + 1] = row]
    BY <1>1 DEF Create
  <1>3. Whole(row)
    BY <1>1, NewIsWhole
  <1>4. history' = [s \in RowIds |-> history'[s]]
    BY DEF ErasedInv
  <1>5. QED
    BY <1>2, <1>3, <1>4, RowWritten, NothingWritten

LEMMA StatusWrites ==
  ASSUME ErasedInv, NEW r \in Present, NEW decided, contacts' = [contacts EXCEPT ![r].status = decided],
         history' = history
  PROVE  ErasedInv'
  <1>1. PICK row : row = [contacts[r] EXCEPT !.status = decided]
    OBVIOUS
  <1>2. Whole(row)
    <2>1. Whole(contacts[r])
      BY DEF ErasedInv
    <2>2. row = [person |-> contacts[r].person, form |-> contacts[r].form, source |-> contacts[r].source,
                 status |-> decided, erased |-> contacts[r].erased, expired |-> contacts[r].expired]
      BY <1>1, <2>1 DEF Whole
    <2>3. row.erased = contacts[r].erased /\ row.form = contacts[r].form
          /\ row = [person |-> row.person, form |-> row.form, source |-> row.source,
                    status |-> row.status, erased |-> row.erased, expired |-> row.expired]
      BY <2>2
    <2>4. QED
      BY <2>1, <2>3 DEF Whole
  <1>3. contacts' = [contacts EXCEPT ![r] = row] /\ history' = [s \in RowIds |-> history'[s]]
    BY <1>1 DEF ErasedInv
  <1>4. QED
    BY <1>2, <1>3, RowWritten

LEMMA CommitWrites ==
  ASSUME ErasedInv, NEW p \in Proc, ApplyCommit(p)
  PROVE  ErasedInv'
  <1>1. PICK e : e = req[p].event
    OBVIOUS
  <1>2. PICK decided : decided = IF e.type = "revoked" THEN "opted_out" ELSE "active"
    OBVIOUS
  <1>3. \/ contacts' = contacts
        \/ e.row \in Present /\ contacts' = [contacts EXCEPT ![e.row].status = decided]
    BY <1>1, <1>2 DEF ApplyCommit
  <1>4. history' = history /\ history' = [s \in RowIds |-> history'[s]]
    BY DEF ApplyCommit, ErasedInv
  <1>5. QED
    BY <1>3, <1>4, StatusWrites, NothingWritten

LEMMA EraseWrites ==
  ASSUME ErasedInv, NEW p \in Proc, NEW r, DeleteRecipient(p, r)
  PROVE  ErasedInv'
  <1>1. r \in Present /\ r \in RowIds /\ Whole(contacts[r])
    BY DEF DeleteRecipient, ErasedInv, Present
  <1>2. PICK row : row = [person |-> contacts[r].person, form |-> "redacted", source |-> contacts[r].source,
                          status |-> "opted_out", erased |-> TRUE, expired |-> contacts[r].expired]
    OBVIOUS
  <1>3. Whole(row)
    BY <1>2 DEF Whole
  <1>4. contacts'[r] = row
    BY <1>1, <1>2 DEF DeleteRecipient, Anonymize, ErasedInv, Whole
  <1>5. /\ contacts' = [s \in RowIds |-> contacts'[s]]
        /\ \A s \in RowIds : s # r => contacts'[s] = contacts[s]
    BY <1>1 DEF DeleteRecipient, Anonymize, ErasedInv
  <1>6. contacts' = [contacts EXCEPT ![r] = row]
    BY <1>4, <1>5 DEF ErasedInv
  <1>7. history' = [s \in RowIds |-> history'[s]]
    BY DEF DeleteRecipient, ErasedInv
  <1>8. QED
    BY <1>3, <1>6, <1>7, RowWritten

LEMMA CascadeWrites ==
  ASSUME ErasedInv, NEW r, Cascade(r), history' = [s \in RowIds |-> history'[s]]
  PROVE  ErasedInv'
  BY RowWritten DEF Cascade

LEMMA ElapseWrites ==
  ASSUME ErasedInv, NEW r, RetentionElapses(r)
  PROVE  ErasedInv'
  <1>1. Whole(contacts[r])
    BY DEF RetentionElapses, ErasedInv
  <1>2. PICK row : row = [contacts[r] EXCEPT !.expired = TRUE]
    OBVIOUS
  <1>3. Whole(row)
    BY <1>1, <1>2 DEF Whole
  <1>4. contacts' = [contacts EXCEPT ![r] = row] /\ history' = [s \in RowIds |-> history'[s]]
    BY <1>2 DEF RetentionElapses, ErasedInv
  <1>5. QED
    BY <1>3, <1>4, RowWritten

LEMMA MigrateWrites ==
  ASSUME ErasedInv, NEW x, ResolveAndMigrateLID(x)
  PROVE  /\ ErasedInv'
         /\ \A r \in RowIds : history[r] = "linked" /\ contacts[r].erased => history'[r] # "lost"
  <1>1. PICK lid : lid = GetByRoutingValue(x, "lid")
    OBVIOUS
  <1>2. lid \in Present /\ contacts[lid].form = "lid" /\ Whole(contacts[lid])
    BY <1>1, Found DEF ResolveAndMigrateLID, ErasedInv
  <1>3. ~contacts[lid].erased
    BY <1>2 DEF Whole
  <1>4. CASE contacts' = [contacts EXCEPT ![lid].form = "plus"] /\ history' = history
    <2>1. PICK row : row = [contacts[lid] EXCEPT !.form = "plus"]
      OBVIOUS
    <2>2. Whole(row)
      BY <1>2, <1>3, <2>1 DEF Whole
    <2>3. contacts' = [contacts EXCEPT ![lid] = row] /\ history' = [s \in RowIds |-> history'[s]]
      BY <1>4, <2>1 DEF ErasedInv
    <2>4. QED
      BY <1>4, <2>2, <2>3, RowWritten
  <1>5. CASE Cascade(lid) /\ history' = [history EXCEPT ![lid] = IF @ = "linked" THEN "lost" ELSE @]
    <2>1. history' = [s \in RowIds |-> history'[s]] /\ \A r \in RowIds : r # lid => history'[r] = history[r]
      BY <1>5 DEF ErasedInv
    <2>2. QED
      BY <1>3, <1>5, <2>1, CascadeWrites
  <1>6. QED
    BY <1>1, <1>4, <1>5 DEF ResolveAndMigrateLID

LEMMA SaveWrites ==
  ASSUME ErasedInv, NEW x, NEW form, SaveContact(x, form)
  PROVE  ErasedInv'
  <1>1. PICK row : row = ContactRow(x, form, "whatsapp_sync")
    OBVIOUS
  <1>2. contacts' = contacts \/ contacts' = [contacts EXCEPT ![spent.contacts + 1] = row]
    BY <1>1 DEF SaveContact
  <1>3. Whole(row)
    BY <1>1, NewIsWhole
  <1>4. history' = [s \in RowIds |-> history'[s]]
    BY DEF ErasedInv, SaveContact
  <1>5. QED
    BY <1>2, <1>3, <1>4, RowWritten, NothingWritten

LEMMA SweepWrites ==
  ASSUME ErasedInv, NEW p \in Proc, NEW r, HardDelete(p, r)
  PROVE  /\ ErasedInv'
         /\ \A s \in RowIds : history[s] = "linked" => history'[s] # "lost"
  <1>1. CASE r \in Present /\ Cascade(r) /\ history' = Unlinked(r)
    <2>1. history' = [s \in RowIds |-> history'[s]]
          /\ \A s \in RowIds : history[s] = "linked" => history'[s] # "lost"
      BY <1>1 DEF Unlinked, ErasedInv
    <2>2. QED
      BY <1>1, <2>1, CascadeWrites
  <1>2. CASE contacts' = contacts /\ history' = history
    <2>1. history' = [s \in RowIds |-> history'[s]]
      BY <1>2 DEF ErasedInv
    <2>2. QED
      BY <1>2, <2>1, NothingWritten
  <1>3. QED
    BY <1>1, <1>2 DEF HardDelete

\* Whatever happens, an erased recipient's deliveries are not lost.
Unspoilt == \A r \in RowIds : history[r] = "linked" /\ contacts[r].erased => history'[r] # "lost"

LEMMA ErasedStart == AudienceInit => ErasedInv
  BY DEF AudienceInit, ErasedInv, Present

LEMMA StillWrites ==
  ASSUME ErasedInv, contacts' = contacts, history' = history
  PROVE  ErasedInv' /\ Unspoilt
  BY NothingWritten DEF ErasedInv, Unspoilt

LEMMA SameHistory ==
  ASSUME ErasedInv', history' = history
  PROVE  ErasedInv' /\ Unspoilt
  BY DEF Unspoilt

LEMMA RequestWrites ==
  ASSUME ErasedInv, NEW p \in Proc, NewRequest(p) \/ RequestStep(p)
  PROVE  ErasedInv' /\ Unspoilt
  <1>1. ASSUME NEW x, CreateContact(p, x)
        PROVE  ErasedInv' /\ Unspoilt
    BY <1>1, StillWrites DEF CreateContact
  <1>2. ASSUME NEW x, NEW i, NEW word, Webhook(p, x, i, word)
        PROVE  ErasedInv' /\ Unspoilt
    BY <1>2, StillWrites DEF Webhook
  <1>3. ASSUME NEW people, NEW type, ImportContacts(p, people, type)
        PROVE  ErasedInv' /\ Unspoilt
    BY <1>3, StillWrites DEF ImportContacts
  <1>4. ASSUME NEW r, DeleteRecipient(p, r)
        PROVE  ErasedInv' /\ Unspoilt
    BY <1>4, EraseWrites, SameHistory DEF DeleteRecipient
  <1>5. CASE SweepList(p)
    BY <1>5, StillWrites DEF SweepList
  <1>6. CASE RegisterLookup(p) \/ RegisterQuota(p)
    BY <1>6, StillWrites DEF RegisterLookup, RegisterQuota
  <1>7. CASE RegisterInsert(p)
    BY <1>7, CreateWrites, SameHistory DEF RegisterInsert
  <1>8. CASE RecordKeyword(p)
    BY <1>8, StillWrites DEF RecordKeyword
  <1>9. CASE ApplyAppend(p) \/ ApplyProject(p) \/ ApplyLock(p)
    BY <1>9, StillWrites DEF ApplyAppend, ApplyProject, ApplyLock
  <1>10. CASE ApplyCommit(p)
    BY <1>10, CommitWrites, SameHistory DEF ApplyCommit
  <1>11. CASE ImportLookup(p) \/ ImportQuota(p)
    BY <1>11, StillWrites DEF ImportLookup, ImportQuota
  <1>12. ASSUME NEW x, ImportRow(p, x)
         PROVE  ErasedInv' /\ Unspoilt
    <2>1. history' = history /\ (contacts' = contacts \/ Create(x, "digits", "csv_import"))
      BY <1>12 DEF ImportRow
    <2>2. QED
      BY <2>1, StillWrites, CreateWrites, SameHistory
  <1>13. ASSUME NEW r, HardDelete(p, r)
         PROVE  ErasedInv' /\ Unspoilt
    BY <1>13, SweepWrites DEF Unspoilt
  <1>14. CASE StatementFails(p)
    BY <1>14, StillWrites DEF StatementFails
  <1>15. CASE NewRequest(p)
    BY <1>1, <1>2, <1>3, <1>4, <1>5, <1>15 DEF NewRequest
  <1>16. CASE RequestStep(p)
    BY <1>6, <1>7, <1>8, <1>9, <1>10, <1>11, <1>12, <1>13, <1>14, <1>16 DEF RequestStep
  <1>17. QED
    BY <1>15, <1>16

LEMMA ErasedStep ==
  ASSUME ErasedInv, AudienceNext \/ UNCHANGED audienceVars
  PROVE  ErasedInv' /\ (Unspoilt \/ UNCHANGED audienceVars)
  <1>1. ASSUME NEW x, HeardOf(x)
        PROVE  ErasedInv' /\ Unspoilt
    <2>1. CASE SaveContact(x, "plus") \/ SaveContact(x, "lid")
      BY <2>1, SaveWrites, SameHistory DEF SaveContact
    <2>2. CASE ResolveAndMigrateLID(x)
      BY <2>2, MigrateWrites DEF Unspoilt
    <2>3. QED
      BY <1>1, <2>1, <2>2 DEF HeardOf
  <1>2. ASSUME NEW r, RetentionElapses(r)
        PROVE  ErasedInv' /\ Unspoilt
    BY <1>2, ElapseWrites, SameHistory DEF RetentionElapses
  <1>3. ASSUME NEW r, Delivered(r)
        PROVE  ErasedInv' /\ Unspoilt
    <2>1. contacts' = contacts /\ history[r] = "none" /\ history' = [history EXCEPT ![r] = "linked"]
      BY <1>3 DEF Delivered
    <2>2. history' = [s \in RowIds |-> history'[s]]
      BY <2>1 DEF ErasedInv
    <2>3. Unspoilt
      BY <2>1 DEF ErasedInv, Unspoilt
    <2>4. QED
      BY <2>1, <2>2, <2>3, NothingWritten
  <1>4. CASE GatewayRestarts
    BY <1>4, StillWrites DEF GatewayRestarts
  <1>5. CASE UNCHANGED audienceVars
    BY <1>5, StillWrites DEF audienceVars
  <1>6. QED
    BY <1>1, <1>2, <1>3, <1>4, <1>5, RequestWrites DEF AudienceNext, SyncContacts, HistorySync, NameEvent

\* Without overlapping requests, whatever statements fail and whenever the
\* gateway restarts, a contact's status is the projection of its consent
\* ledger, a redelivered keyword undoes no later one, and the plan's capacity
\* is exceeded by no more than the contacts let in where the plan or the count
\* could not be read; and the retention sweep keeps what was delivered to the
\* recipient it takes, however the requests overlap.
THEOREM SerialAudienceIsKept == WorkspaceSpec => AudienceIsKept
  <1> DEFINE Serial == part = "audience" => SerialInv
  <1>1. WorkspaceInit => Serial /\ ErasedInv
    BY SerialStart, ErasedStart DEF WorkspaceInit
  <1>2. Serial /\ [WorkspaceNext]_WorkspaceVars => Serial'
    <2> SUFFICES ASSUME Serial, [WorkspaceNext]_WorkspaceVars, part' = "audience"
                 PROVE  SerialInv'
      OBVIOUS
    <2>1. CASE UNCHANGED WorkspaceVars
      BY <2>1, NothingStep DEF WorkspaceVars
    <2>2. CASE WorkspaceNext
      <3>1. part = "audience" /\ AudienceNext /\ ~Overlapping'
        BY <2>2 DEF WorkspaceNext
      <3>2. QED
        BY <3>1, SerialStep
    <2>3. QED
      BY <2>1, <2>2
  <1>3. ErasedInv /\ [WorkspaceNext]_WorkspaceVars => ErasedInv' /\ (Unspoilt \/ UNCHANGED audienceVars)
    <2> SUFFICES ASSUME ErasedInv, [WorkspaceNext]_WorkspaceVars
                 PROVE  ErasedInv' /\ (Unspoilt \/ UNCHANGED audienceVars)
      OBVIOUS
    <2>1. AudienceNext \/ UNCHANGED audienceVars
      BY DEF WorkspaceNext, WorkspaceVars
    <2>2. QED
      BY <2>1, ErasedStep
  <1>4. Serial => (part = "audience" => StatusFollowsLedger /\ LastKeywordStands /\ WithinCapacity)
    BY SettledMeans DEF SerialInv
  <1>5. (Unspoilt \/ UNCHANGED audienceVars) => [Unspoilt]_audienceVars
    OBVIOUS
  <1> HIDE DEF Serial
  <1>6. WorkspaceSpec => [](part = "audience" => StatusFollowsLedger /\ LastKeywordStands /\ WithinCapacity)
    BY <1>1, <1>2, <1>4, PTL DEF WorkspaceSpec
  <1>7. WorkspaceSpec => [][Unspoilt]_audienceVars
    BY <1>1, <1>3, <1>5, PTL DEF WorkspaceSpec
  <1>8. QED
    BY <1>6, <1>7 DEF AudienceIsKept, HistoryKept, Unspoilt
=================================================================================
