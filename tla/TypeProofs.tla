------------------------------ MODULE TypeProofs ------------------------------
(***************************************************************************)
(* The types of the parts of a workspace, for any number of contacts,      *)
(* members, teams, channels and sessions, and whatever requests overlap,   *)
(* statements fail and processes restart: every row refers to rows that    *)
(* exist, a request that waits knows what it acts on, a tenant has one     *)
(* row of a platform.                                                      *)
(***************************************************************************)
EXTENDS AudienceProofs, WorkspaceProofs, ChannelProofs, WellFoundedInduction

-----------------------------------------------------------------------------
(* The audience, however the requests overlap *)

Keys == Person \X (1..MaxWords)

EventTyped(e, n) ==
    /\ e.row \in RowIds /\ e.type \in Types /\ e.source \in Sources
    /\ e.at \in Nat /\ e.at <= n
    /\ e.key = <<>> \/ e.key \in Keys

\* The fields of a request, one kind after the other.
RegistrationTyped(s) ==
    /\ s.pc \in {"lookup", "count", "create", "find"} /\ s.person \in Person
    /\ IF s.op = "inbound"
       THEN /\ s = [op |-> "inbound", pc |-> s.pc, person |-> s.person, source |-> "inbound_keyword",
                    type |-> s.type, key |-> s.key]
            /\ s.type \in Types /\ s.key \in Keys
       ELSE /\ s.op = "manual" /\ s.pc # "find"
            /\ s = [op |-> "manual", pc |-> s.pc, person |-> s.person, source |-> "operator"]

ImportTyped(s) ==
    /\ s.op = "import" /\ s.pc \in {"lookup", "quota", "row"}
    /\ s = [op |-> "import", pc |-> s.pc, todo |-> s.todo, type |-> s.type, known |-> s.known]
    /\ s.todo \subseteq Person /\ s.type \in Types \cup {"none"}

RestTyped(s) == s = Vacant \/ (ImportTyped(s) /\ s.pc = "row")

AppendTyped(s) ==
    /\ s.pc = "append" /\ s.op \in {"inbound", "erase", "import"}
    /\ s.op = "import" => RestTyped(s.rest)
    /\ s.row \in RowIds /\ s.type \in Types /\ s.source \in Sources
    /\ s.key = <<>> \/ s.key \in Keys
    /\ s.op = "inbound" => s.key \in Keys

TransactionTyped(s, n) ==
    /\ s.pc \in Within /\ s.op \in {"inbound", "erase", "import"}
    /\ s.op = "import" => RestTyped(s.rest)
    /\ s.op = "inbound" => s.key \in Keys
    /\ EventTyped(s.event, n)

RequestTyped(s, n) ==
    s = Vacant \/ RegistrationTyped(s) \/ ImportTyped(s) \/ AppendTyped(s)
    \/ TransactionTyped(s, n) \/ Sweeping(s)

DirectoryTyped ==
    /\ contacts \in [RowIds -> {NoContact} \cup Contact]
    /\ spent = [contacts |-> spent.contacts, requests |-> spent.requests,
                faults |-> spent.faults, syncs |-> spent.syncs, unmetered |-> spent.unmetered]
    /\ spent.contacts \in Nat
    /\ history \in [RowIds -> {"none", "linked", "unlinked", "lost"}]

LedgerTyped ==
    /\ now \in Nat
    /\ \A e \in ledger : EventTyped(e, now)
    /\ missed \subseteq Keys

RequestsTyped ==
    /\ req = [p \in Proc |-> req[p]]
    /\ \A p \in Proc : RequestTyped(req[p], now)

AudienceTyped == DirectoryTyped /\ LedgerTyped /\ RequestsTyped

LEMMA LaterIsTyped ==
  ASSUME NEW s, NEW n \in Nat, NEW m \in Nat, n <= m, RequestTyped(s, n)
  PROVE  RequestTyped(s, m)
  BY DEF RequestTyped, TransactionTyped, EventTyped

LEMMA VacantIsTyped ==
  ASSUME NEW n
  PROVE  RequestTyped(Vacant, n) /\ Vacant.pc = "idle" /\ Vacant.op = "idle"
  BY DEF RequestTyped, Vacant

LEMMA MovedIsTyped ==
  ASSUME AudienceTyped, NEW p \in Proc, NEW state, now' \in Nat, now <= now',
         RequestTyped(state, now'), req' = [req EXCEPT ![p] = state]
  PROVE  RequestsTyped'
  <1>1. /\ req' = [q \in Proc |-> req'[q]]
        /\ \A q \in Proc : req'[q] = IF q = p THEN state ELSE req[q]
    BY DEF AudienceTyped, RequestsTyped
  <1>2. \A q \in Proc : RequestTyped(req[q], now')
    BY LaterIsTyped DEF AudienceTyped, RequestsTyped, LedgerTyped
  <1>3. QED
    BY <1>1, <1>2 DEF RequestsTyped

LEMMA SpentStays ==
  ASSUME DirectoryTyped,
         \/ spent' = spent \/ spent' = [spent EXCEPT !.requests = @ + 1]
         \/ spent' = [spent EXCEPT !.faults = @ + 1] \/ spent' = [spent EXCEPT !.syncs = @ + 1]
         \/ \E n : Failed(n)
  PROVE  /\ spent' = [contacts |-> spent'.contacts, requests |-> spent'.requests,
                      faults |-> spent'.faults, syncs |-> spent'.syncs, unmetered |-> spent'.unmetered]
         /\ spent'.contacts = spent.contacts
  <1>1. spent = [contacts |-> spent.contacts, requests |-> spent.requests,
                 faults |-> spent.faults, syncs |-> spent.syncs, unmetered |-> spent.unmetered]
    BY DEF DirectoryTyped
  <1>2. CASE spent' = spent
    BY <1>1, <1>2
  <1>3. CASE spent' = [spent EXCEPT !.requests = @ + 1]
    BY <1>1, <1>3
  <1>4. CASE spent' = [spent EXCEPT !.faults = @ + 1]
    BY <1>1, <1>4
  <1>5. CASE spent' = [spent EXCEPT !.syncs = @ + 1]
    BY <1>1, <1>5
  <1>6. CASE \E n : Failed(n)
    <2>1. PICK n : Failed(n)
      BY <1>6
    <2>2. spent' = [contacts |-> spent.contacts, requests |-> spent.requests,
                    faults |-> spent.faults + 1, syncs |-> spent.syncs,
                    unmetered |-> spent.unmetered + n]
      BY <1>1, <2>1 DEF Failed
    <2>3. QED
      BY <2>2
  <1>7. QED
    BY <1>2, <1>3, <1>4, <1>5, <1>6

\* A request moves on, the directory and the ledger stay.
LEMMA QuietIsTyped ==
  ASSUME AudienceTyped, contacts' = contacts, ledger' = ledger, history' = history,
         missed' \subseteq missed \cup Keys, now' \in Nat, now <= now',
         \/ spent' = spent \/ spent' = [spent EXCEPT !.requests = @ + 1]
         \/ spent' = [spent EXCEPT !.faults = @ + 1] \/ \E n : Failed(n),
         NEW p \in Proc, NEW state, RequestTyped(state, now'), req' = [req EXCEPT ![p] = state]
  PROVE  AudienceTyped'
  <1>1. DirectoryTyped'
    BY SpentStays DEF AudienceTyped, DirectoryTyped
  <1>2. LedgerTyped'
    BY DEF AudienceTyped, LedgerTyped, EventTyped
  <1>3. RequestsTyped'
    BY MovedIsTyped
  <1>4. QED
    BY <1>1, <1>2, <1>3 DEF AudienceTyped

\* Where a request is, and what kind it is then.
LEMMA KindsTyped ==
  ASSUME NEW s, NEW n, RequestTyped(s, n)
  PROVE  /\ s.pc \in {"count", "create", "find"} => RegistrationTyped(s)
         /\ s.pc = "lookup" => RegistrationTyped(s) \/ ImportTyped(s)
         /\ s.pc \in {"quota", "row"} => ImportTyped(s)
         /\ s.pc = "append" => AppendTyped(s)
         /\ s.pc \in {"project", "wait", "commit"} => TransactionTyped(s, n)
         /\ s.pc = "delete" => Sweeping(s)
  BY VacantIsTyped DEF RequestTyped, RegistrationTyped, ImportTyped, AppendTyped, TransactionTyped,
     Sweeping, Within

LEMMA RequestIsTyped ==
  ASSUME AudienceTyped, NEW p \in Proc
  PROVE  RequestTyped(req[p], now)
  BY DEF AudienceTyped, RequestsTyped

LEMMA FoundIsRow ==
  ASSUME NEW x, NEW form, GetByRoutingValue(x, form) # 0
  PROVE  GetByRoutingValue(x, form) \in RowIds /\ GetByRoutingValue(x, form) \in Present
  BY Found DEF Present

-----------------------------------------------------------------------------
\* A registration goes on with the same fields.
LEMMA RegistrationGoesTyped ==
  ASSUME NEW s, RegistrationTyped(s), NEW pc \in {"lookup", "count", "create", "find"},
         s.op = "manual" => pc # "find", NEW t, t = [s EXCEPT !.pc = pc]
  PROVE  RegistrationTyped(t)
  <1>1. CASE s.op = "inbound"
    <2>1. s = [op |-> "inbound", pc |-> s.pc, person |-> s.person, source |-> "inbound_keyword",
               type |-> s.type, key |-> s.key]
          /\ s.type \in Types /\ s.key \in Keys /\ s.person \in Person
      BY <1>1 DEF RegistrationTyped
    <2>2. t = [op |-> "inbound", pc |-> pc, person |-> s.person, source |-> "inbound_keyword",
               type |-> s.type, key |-> s.key]
      BY <2>1
    <2>3. t.op = "inbound" /\ t.pc = pc /\ t.person = s.person /\ t.type = s.type /\ t.key = s.key
      BY <2>2
    <2>4. QED
      BY <2>1, <2>2, <2>3 DEF RegistrationTyped
  <1>2. CASE s.op # "inbound"
    <2>1. s = [op |-> "manual", pc |-> s.pc, person |-> s.person, source |-> "operator"]
          /\ s.person \in Person /\ s.op = "manual"
      BY <1>2 DEF RegistrationTyped
    <2>2. t = [op |-> "manual", pc |-> pc, person |-> s.person, source |-> "operator"]
      BY <2>1
    <2>3. t.op = "manual" /\ t.pc = pc /\ t.person = s.person
      BY <2>2
    <2>4. QED
      BY <2>1, <2>2, <2>3 DEF RegistrationTyped
  <1>3. QED
    BY <1>1, <1>2

LEMMA AfterRegisterTyped ==
  ASSUME AudienceTyped, NEW p \in Proc, req[p].pc \in {"count", "create"}, AfterRegister(p)
  PROVE  \E state : (\A n : RequestTyped(state, n)) /\ req' = [req EXCEPT ![p] = state]
  <1>1. RegistrationTyped(req[p])
    BY RequestIsTyped, KindsTyped
  <1>2. CASE req[p].op = "inbound"
    <2>1. PICK t : t = [req[p] EXCEPT !.pc = "find"]
      OBVIOUS
    <2>2. RegistrationTyped(t)
      BY <1>1, <1>2, <2>1, RegistrationGoesTyped
    <2>3. req' = [req EXCEPT ![p] = t]
      BY <1>2, <2>1 DEF AfterRegister, Goto
    <2>4. QED
      BY <2>2, <2>3 DEF RequestTyped
  <1>3. CASE req[p].op # "inbound"
    <2>1. req' = [req EXCEPT ![p] = Vacant]
      BY <1>3 DEF AfterRegister, Finish
    <2>2. QED
      BY <2>1, VacantIsTyped
  <1>4. QED
    BY <1>2, <1>3

LEMMA GotoTyped ==
  ASSUME AudienceTyped, NEW p \in Proc, RegistrationTyped(req[p]), NEW pc \in {"count", "create"},
         Goto(p, pc)
  PROVE  \E state : (\A n : RequestTyped(state, n)) /\ req' = [req EXCEPT ![p] = state]
  <1>1. PICK t : t = [req[p] EXCEPT !.pc = pc]
    OBVIOUS
  <1>2. RegistrationTyped(t) /\ req' = [req EXCEPT ![p] = t]
    BY <1>1, RegistrationGoesTyped DEF Goto
  <1>3. QED
    BY <1>2 DEF RequestTyped

LEMMA LookupTyped ==
  ASSUME AudienceTyped, NEW p \in Proc, RegisterLookup(p) \/ RegisterQuota(p)
  PROVE  AudienceTyped'
  <1>1. /\ UNCHANGED <<contacts, ledger, history, now, said, missed, spent>>
        /\ now \in Nat /\ now' \in Nat /\ now <= now'
    BY DEF RegisterLookup, RegisterQuota, AudienceTyped, LedgerTyped
  <1>2. RegistrationTyped(req[p])
    BY RequestIsTyped, KindsTyped DEF RegisterLookup, RegisterQuota, ImportTyped
  <1>3. \E state : (\A n : RequestTyped(state, n)) /\ req' = [req EXCEPT ![p] = state]
    <2>1. CASE Goto(p, "count") \/ Goto(p, "create")
      BY <1>2, <2>1, GotoTyped
    <2>2. CASE req[p].pc = "count" /\ AfterRegister(p)
      BY <2>2, AfterRegisterTyped
    <2>3. QED
      BY <2>1, <2>2 DEF RegisterLookup, RegisterQuota
  <1>4. PICK state : RequestTyped(state, now') /\ req' = [req EXCEPT ![p] = state]
    BY <1>3
  <1>5. QED
    BY <1>1, <1>4, QuietIsTyped

LEMMA RecordTyped ==
  ASSUME AudienceTyped, NEW p \in Proc, RecordKeyword(p)
  PROVE  AudienceTyped'
  <1>1. /\ UNCHANGED <<contacts, ledger, history, now, said, spent>>
        /\ now \in Nat /\ now' \in Nat /\ now <= now'
    BY DEF RecordKeyword, AudienceTyped, LedgerTyped
  <1>2. RegistrationTyped(req[p]) /\ req[p].pc = "find"
    BY RequestIsTyped, KindsTyped DEF RecordKeyword
  <1>3. /\ req[p].op = "inbound" /\ req[p].key \in Keys /\ req[p].type \in Types
        /\ req[p].source = "inbound_keyword"
    BY <1>2 DEF RegistrationTyped
  <1>4. PICK r : r = GetByRoutingValue(req[p].person, "digits")
    OBVIOUS
  <1>5. CASE r = 0 /\ Finish(p) /\ missed' = missed \cup {req[p].key}
    <2>1. missed' \subseteq missed \cup Keys /\ req' = [req EXCEPT ![p] = Vacant]
      BY <1>3, <1>5 DEF Finish
    <2>2. QED
      BY <1>1, <2>1, VacantIsTyped, QuietIsTyped
  <1>6. CASE r # 0 /\ missed' = missed
    <2>1. PICK state : state = [op |-> "inbound", pc |-> "append", row |-> r,
                                source |-> req[p].source, type |-> req[p].type, key |-> req[p].key]
      OBVIOUS
    <2>2. /\ state.op = "inbound" /\ state.pc = "append" /\ state.row = r /\ state.source = req[p].source
          /\ state.type = req[p].type /\ state.key = req[p].key
      BY <2>1
    <2>3. r \in RowIds
      BY <1>4, <1>6, FoundIsRow
    <2>4. AppendTyped(state)
      BY <1>3, <2>2, <2>3 DEF AppendTyped, Sources
    <2>5. req' = [req EXCEPT ![p] = state]
      BY <1>4, <1>6, <2>1 DEF RecordKeyword
    <2>6. missed' \subseteq missed \cup Keys
      BY <1>6
    <2>7. RequestTyped(state, now')
      BY <2>4 DEF RequestTyped
    <2>8. QED
      BY <1>1, <2>5, <2>6, <2>7, QuietIsTyped
  <1>7. QED
    BY <1>4, <1>5, <1>6 DEF RecordKeyword

-----------------------------------------------------------------------------
LEMMA RowIsTyped ==
  ASSUME DirectoryTyped, NEW r, NEW row \in {NoContact} \cup Contact,
         contacts' = contacts \/ contacts' = [contacts EXCEPT ![r] = row]
  PROVE  contacts' \in [RowIds -> {NoContact} \cup Contact]
  BY DEF DirectoryTyped

LEMMA NewIsContact ==
  ASSUME NEW x \in Person, NEW form \in Forms, NEW source \in Origins
  PROVE  ContactRow(x, form, source) \in Contact
  BY DEF ContactRow, Contact

LEMMA CreateTyped ==
  ASSUME DirectoryTyped, NEW x \in Person, NEW form \in Forms, NEW source \in Origins,
         Create(x, form, source), history' = history
  PROVE  DirectoryTyped'
  <1>1. PICK row : row = ContactRow(x, form, source)
    OBVIOUS
  <1>2. row \in Contact
    BY <1>1, NewIsContact
  <1>3. \/ UNCHANGED <<contacts, spent>>
        \/ /\ contacts' = [contacts EXCEPT ![spent.contacts + 1] = row]
           /\ spent' = [spent EXCEPT !.contacts = @ + 1]
    BY <1>1 DEF Create
  <1>4. contacts' \in [RowIds -> {NoContact} \cup Contact]
    BY <1>2, <1>3, RowIsTyped
  <1>5. /\ spent' = [contacts |-> spent'.contacts, requests |-> spent'.requests,
                     faults |-> spent'.faults, syncs |-> spent'.syncs, unmetered |-> spent'.unmetered]
        /\ spent'.contacts \in Nat
    BY <1>3 DEF DirectoryTyped
  <1>6. QED
    BY <1>4, <1>5 DEF DirectoryTyped

LEMMA InsertTyped ==
  ASSUME AudienceTyped, NEW p \in Proc, RegisterInsert(p)
  PROVE  AudienceTyped'
  <1>1. /\ UNCHANGED <<ledger, history, now, said, missed>> /\ req[p].pc = "create"
        /\ now \in Nat /\ now' \in Nat /\ now <= now'
    BY DEF RegisterInsert, AudienceTyped, LedgerTyped
  <1>2. RegistrationTyped(req[p])
    BY <1>1, RequestIsTyped, KindsTyped
  <1>3. req[p].person \in Person /\ req[p].source \in Origins /\ "digits" \in Forms
    BY <1>2 DEF RegistrationTyped, Origins, Forms
  <1>4. PICK x \in Person, source \in Origins : x = req[p].person /\ source = req[p].source
    BY <1>3
  <1>5. DirectoryTyped'
    BY <1>1, <1>3, <1>4, CreateTyped DEF RegisterInsert, AudienceTyped
  <1>6. PICK state : RequestTyped(state, now') /\ req' = [req EXCEPT ![p] = state]
    BY <1>1, AfterRegisterTyped DEF RegisterInsert
  <1>7. RequestsTyped'
    BY <1>1, <1>6, MovedIsTyped
  <1>8. LedgerTyped'
    BY <1>1 DEF AudienceTyped, LedgerTyped
  <1>9. QED
    BY <1>5, <1>7, <1>8 DEF AudienceTyped

-----------------------------------------------------------------------------
LEMMA RestIsTyped ==
  ASSUME NEW s, RestTyped(s), NEW n
  PROVE  RequestTyped(s, n)
  BY DEF RestTyped, RequestTyped

LEMMA AfterApplyTyped ==
  ASSUME AudienceTyped, NEW p \in Proc, AppendTyped(req[p]) \/ TransactionTyped(req[p], now), AfterApply(p)
  PROVE  \E state : (\A n : RequestTyped(state, n)) /\ req' = [req EXCEPT ![p] = state]
  <1>1. PICK rest : rest = req[p].rest
    OBVIOUS
  <1>2. CASE req[p].op = "import"
    <2>1. RestTyped(rest) /\ req' = [req EXCEPT ![p] = rest]
      BY <1>1, <1>2 DEF AppendTyped, TransactionTyped, AfterApply
    <2>2. QED
      BY <2>1, RestIsTyped
  <1>3. CASE req[p].op # "import"
    <2>1. req' = [req EXCEPT ![p] = Vacant]
      BY <1>3 DEF AfterApply, Finish
    <2>2. QED
      BY <2>1, VacantIsTyped
  <1>4. QED
    BY <1>2, <1>3

\* A request within its transaction, with a typed event.
LEMMA WithinIsTyped ==
  ASSUME NEW p, NEW pc \in Within, NEW held, NEW event, NEW rest, NEW n, EventTyped(event, n),
         req[p].op \in {"inbound", "erase", "import"},
         req[p].op = "import" => RestTyped(rest),
         req[p].op = "inbound" => req[p].key \in Keys,
         NEW state, state = Transaction(p, pc, held, event, rest)
  PROVE  RequestTyped(state, n)
  <1>1. /\ state.op = req[p].op /\ state.key = req[p].key /\ state.pc = pc
        /\ state.event = event /\ state.rest = rest
    BY DEF Transaction
  <1>2. TransactionTyped(state, n)
    BY <1>1 DEF TransactionTyped
  <1>3. QED
    BY <1>2 DEF RequestTyped

LEMMA AppendTypedStep ==
  ASSUME AudienceTyped, NEW p \in Proc, ApplyAppend(p)
  PROVE  AudienceTyped'
  <1>1. UNCHANGED <<contacts, ledger, history, said, missed, spent>> /\ now \in Nat
    BY DEF ApplyAppend, AudienceTyped, LedgerTyped
  <1>2. AppendTyped(req[p]) /\ req[p].pc = "append"
    BY RequestIsTyped, KindsTyped DEF ApplyAppend
  <1>3. CASE AfterApply(p) /\ now' = now
    <2>1. PICK state : RequestTyped(state, now') /\ req' = [req EXCEPT ![p] = state]
      BY <1>2, <1>3, AfterApplyTyped
    <2>2. now' \in Nat /\ now <= now'
      BY <1>1, <1>3
    <2>3. QED
      BY <1>1, <2>1, <2>2, QuietIsTyped
  <1>4. CASE ~(AfterApply(p) /\ now' = now)
    <2>1. PICK s : s = req[p]
      OBVIOUS
    <2>2. PICK event, rest :
            /\ event = [row |-> s.row, type |-> s.type, source |-> s.source, key |-> s.key, at |-> now + 1]
            /\ rest = (IF s.op = "import" THEN s.rest ELSE Vacant)
      OBVIOUS
    <2>3. PICK state : state = Transaction(p, "project", FALSE, event, rest)
      OBVIOUS
    <2>4. now' = now + 1 /\ req' = [req EXCEPT ![p] = state]
      BY <1>4, <2>1, <2>2, <2>3 DEF ApplyAppend
    <2>5. event.row = s.row /\ event.type = s.type /\ event.source = s.source
          /\ event.key = s.key /\ event.at = now + 1
      BY <2>2
    <2>6. EventTyped(event, now')
      BY <1>1, <1>2, <2>1, <2>4, <2>5 DEF EventTyped, AppendTyped
    <2>7. RequestTyped(state, now')
      BY <1>2, <2>1, <2>2, <2>3, <2>6, WithinIsTyped DEF AppendTyped, Within
    <2>8. now' \in Nat /\ now <= now'
      BY <1>1, <2>4
    <2>9. QED
      BY <1>1, <2>4, <2>7, <2>8, QuietIsTyped
  <1>5. QED
    BY <1>3, <1>4

LEMMA TransactTyped ==
  ASSUME AudienceTyped, NEW p \in Proc, ApplyProject(p) \/ ApplyLock(p)
  PROVE  AudienceTyped'
  <1>0. UNCHANGED <<contacts, ledger, history, now, said, missed, spent>>
    BY DEF ApplyProject, ApplyLock
  <1>1. /\ UNCHANGED <<contacts, ledger, history, now, said, missed, spent>>
        /\ now' \in Nat /\ now <= now'
    BY <1>0 DEF AudienceTyped, LedgerTyped
  <1>2. TransactionTyped(req[p], now)
    BY RequestIsTyped, KindsTyped DEF ApplyProject, ApplyLock
  <1>3. PICK event, rest : event = req[p].event /\ rest = req[p].rest
    OBVIOUS
  <1>4. PICK pc, held : pc \in Within /\ req' = [req EXCEPT ![p] = Transaction(p, pc, held, event, rest)]
    <2>1. "wait" \in Within /\ "commit" \in Within
      BY DEF Within
    <2>2. CASE ApplyLock(p)
      BY <1>3, <2>1, <2>2 DEF ApplyLock
    <2>3. CASE ApplyProject(p)
      <3>1. PICK wins : wins = (Latest(event.row, ledger \cup {event}).type = event.type)
        OBVIOUS
      <3>2. req' = [req EXCEPT ![p] = Transaction(p, IF wins /\ Locked(event.row) THEN "wait" ELSE "commit",
                                                  wins /\ ~Locked(event.row), event, rest)]
        BY <1>3, <2>3, <3>1 DEF ApplyProject
      <3>3. QED
        BY <2>1, <3>2
    <2>4. QED
      BY <2>2, <2>3
  <1>5. PICK state : state = Transaction(p, pc, held, event, rest)
    OBVIOUS
  <1>6. RequestTyped(state, now')
    BY <1>1, <1>2, <1>3, <1>4, <1>5, WithinIsTyped DEF TransactionTyped
  <1>7. QED
    BY <1>1, <1>4, <1>5, <1>6, QuietIsTyped

LEMMA StatusIsTyped ==
  ASSUME DirectoryTyped, NEW r \in Present, NEW to \in {"active", "opted_out"},
         contacts' = [contacts EXCEPT ![r].status = to]
  PROVE  contacts' \in [RowIds -> {NoContact} \cup Contact]
  <1>1. PICK row : row = [contacts[r] EXCEPT !.status = to]
    OBVIOUS
  <1>2. contacts[r] \in Contact
    BY DEF Present, DirectoryTyped
  <1>3. row \in Contact
    BY <1>1, <1>2 DEF Contact
  <1>4. contacts' = [contacts EXCEPT ![r] = row]
    BY <1>1
  <1>5. QED
    BY <1>3, <1>4, RowIsTyped

LEMMA CommitTyped ==
  ASSUME AudienceTyped, NEW p \in Proc, ApplyCommit(p)
  PROVE  AudienceTyped'
  <1>1. /\ UNCHANGED <<history, now, said, missed, spent>>
        /\ now \in Nat /\ now' \in Nat /\ now <= now'
    BY DEF ApplyCommit, AudienceTyped, LedgerTyped
  <1>2. TransactionTyped(req[p], now)
    BY RequestIsTyped, KindsTyped DEF ApplyCommit
  <1>3. PICK e, to : e = req[p].event /\ to = (IF e.type = "revoked" THEN "opted_out" ELSE "active")
    OBVIOUS
  <1>4. /\ ledger' \subseteq ledger \cup {e}
        /\ contacts' = contacts \/ (e.row \in Present /\ contacts' = [contacts EXCEPT ![e.row].status = to])
    BY <1>3 DEF ApplyCommit
  <1>5. EventTyped(e, now)
    BY <1>2, <1>3 DEF TransactionTyped
  <1>6. LedgerTyped'
    BY <1>1, <1>4, <1>5 DEF AudienceTyped, LedgerTyped
  <1>7. contacts' \in [RowIds -> {NoContact} \cup Contact]
    BY <1>3, <1>4, StatusIsTyped DEF AudienceTyped, DirectoryTyped
  <1>8. DirectoryTyped'
    BY <1>1, <1>7 DEF AudienceTyped, DirectoryTyped
  <1>9. PICK state : RequestTyped(state, now') /\ req' = [req EXCEPT ![p] = state]
    BY <1>2, AfterApplyTyped DEF ApplyCommit
  <1>10. RequestsTyped'
    BY <1>1, <1>9, MovedIsTyped
  <1>11. QED
    BY <1>6, <1>8, <1>10 DEF AudienceTyped

-----------------------------------------------------------------------------
LEMMA ImportTypedStep ==
  ASSUME AudienceTyped, NEW p \in Proc, ImportLookup(p) \/ ImportQuota(p)
  PROVE  AudienceTyped'
  <1>1. /\ UNCHANGED <<contacts, ledger, history, now, said, missed, spent>>
        /\ now \in Nat /\ now' \in Nat /\ now <= now'
    BY DEF ImportLookup, ImportQuota, AudienceTyped, LedgerTyped
  <1>2. PICK s : s = req[p]
    OBVIOUS
  <1>3. ImportTyped(s)
    BY <1>2, RequestIsTyped, KindsTyped DEF ImportLookup, ImportQuota, RegistrationTyped
  <1>4. s = [op |-> "import", pc |-> s.pc, todo |-> s.todo, type |-> s.type, known |-> s.known]
        /\ s.todo \subseteq Person /\ s.type \in Types \cup {"none"}
    BY <1>3 DEF ImportTyped
  <1>5. ASSUME NEW pc \in {"quota", "row"}, NEW known, NEW state,
               state = [op |-> "import", pc |-> pc, todo |-> s.todo, type |-> s.type, known |-> known]
        PROVE  RequestTyped(state, now')
    <2>1. /\ state.op = "import" /\ state.pc = pc /\ state.todo = s.todo /\ state.type = s.type
          /\ state.known = known
      BY <1>5
    <2>2. ImportTyped(state)
      BY <1>4, <1>5, <2>1 DEF ImportTyped
    <2>3. QED
      BY <2>2 DEF RequestTyped
  <1>6. CASE ImportLookup(p)
    <2>1. PICK known : req' = [req EXCEPT ![p] = [[@ EXCEPT !.pc = "quota"] EXCEPT !.known = known]]
      BY <1>6 DEF ImportLookup
    <2>2. PICK state : state = [[s EXCEPT !.pc = "quota"] EXCEPT !.known = known]
      OBVIOUS
    <2>3. req' = [req EXCEPT ![p] = state]
      BY <1>2, <2>1, <2>2
    <2>4. PICK once : once = [s EXCEPT !.pc = "quota"]
      OBVIOUS
    <2>5. once = [op |-> "import", pc |-> "quota", todo |-> s.todo, type |-> s.type, known |-> s.known]
      BY <1>4, <2>4
    <2>6. state = [op |-> "import", pc |-> "quota", todo |-> s.todo, type |-> s.type, known |-> known]
      <3>1. state = [once EXCEPT !.known = known]
        BY <2>2, <2>4
      <3>2. QED
        BY <2>5, <3>1
    <2>7. RequestTyped(state, now')
      BY <1>5, <2>6
    <2>8. QED
      BY <1>1, <2>3, <2>7, QuietIsTyped
  <1>7. CASE ImportQuota(p) /\ Finish(p)
    BY <1>1, <1>7, VacantIsTyped, QuietIsTyped DEF Finish
  <1>8. CASE ImportQuota(p) /\ Goto(p, "row")
    <2>1. PICK state : state = [s EXCEPT !.pc = "row"]
      OBVIOUS
    <2>2. req' = [req EXCEPT ![p] = state]
      BY <1>2, <1>8, <2>1 DEF Goto
    <2>3. state = [op |-> "import", pc |-> "row", todo |-> s.todo, type |-> s.type, known |-> s.known]
      BY <1>4, <2>1
    <2>4. RequestTyped(state, now')
      BY <1>5, <2>3
    <2>5. QED
      BY <1>1, <2>2, <2>4, QuietIsTyped
  <1>9. QED
    BY <1>6, <1>7, <1>8 DEF ImportQuota

LEMMA AfterRowTyped ==
  ASSUME NEW p, ImportTyped(req[p]), NEW pc \in {"lookup", "row"}, req[p].pc = pc, NEW x
  PROVE  /\ AfterRow(p, x) = Vacant \/ ImportTyped(AfterRow(p, x))
         /\ pc = "row" => RestTyped(AfterRow(p, x))
  <1>1. PICK s : s = req[p]
    OBVIOUS
  <1>2. PICK rest : rest = [s EXCEPT !.todo = @ \ {x}]
    OBVIOUS
  <1>3. s = [op |-> "import", pc |-> pc, todo |-> s.todo, type |-> s.type, known |-> s.known]
        /\ s.todo \subseteq Person /\ s.type \in Types \cup {"none"}
    BY <1>1 DEF ImportTyped
  <1>4. rest = [op |-> "import", pc |-> pc, todo |-> s.todo \ {x}, type |-> s.type, known |-> s.known]
    BY <1>2, <1>3
  <1>5. rest.op = "import" /\ rest.pc = pc /\ rest.todo = s.todo \ {x} /\ rest.type = s.type
        /\ rest.known = s.known
    BY <1>4
  <1>6. AfterRow(p, x) = rest \/ AfterRow(p, x) = Vacant
    BY <1>1, <1>2 DEF AfterRow
  <1>7. ImportTyped(rest)
    BY <1>3, <1>4, <1>5 DEF ImportTyped
  <1>8. QED
    BY <1>5, <1>6, <1>7 DEF RestTyped

LEMMA ImportRowTyped ==
  ASSUME AudienceTyped, NEW p \in Proc, NEW x \in Person, ImportRow(p, x)
  PROVE  AudienceTyped'
  <1>1. /\ UNCHANGED <<ledger, history, now, said, missed>> /\ req[p].pc = "row"
        /\ now \in Nat /\ now' \in Nat /\ now <= now'
    BY DEF ImportRow, AudienceTyped, LedgerTyped
  <1>2. ImportTyped(req[p])
    BY <1>1, RequestIsTyped, KindsTyped
  <1>3. PICK rest : rest = AfterRow(p, x)
    OBVIOUS
  <1>4. RestTyped(rest)
    BY <1>1, <1>2, <1>3, AfterRowTyped
  <1>5. PICK r, type : r = GetByRoutingValue(x, "digits") /\ type = req[p].type
    OBVIOUS
  <1>6. LedgerTyped'
    BY <1>1 DEF AudienceTyped, LedgerTyped
  <1>7. CASE req' = [req EXCEPT ![p] = rest] /\ UNCHANGED <<contacts, spent>>
    BY <1>1, <1>4, <1>7, RestIsTyped, QuietIsTyped
  <1>8. ASSUME Create(x, "digits", "csv_import")
        PROVE  DirectoryTyped'
    <2>1. "digits" \in Forms /\ "csv_import" \in Origins
      BY DEF Forms, Origins
    <2>2. QED
      BY <1>1, <1>8, <2>1, CreateTyped DEF AudienceTyped
  <1>9. CASE Create(x, "digits", "csv_import") /\ req' = [req EXCEPT ![p] = rest]
    <2>1. RequestsTyped'
      BY <1>1, <1>4, <1>9, RestIsTyped, MovedIsTyped
    <2>2. QED
      BY <1>6, <1>8, <1>9, <2>1 DEF AudienceTyped
  <1>10. PICK row : row = IF r # 0 THEN r ELSE spent.contacts + 1
    OBVIOUS
  <1>11. CASE /\ Create(x, "digits", "csv_import") /\ type # "none"
              /\ req' = [req EXCEPT ![p] =
                    [op |-> "import", pc |-> "append", source |-> "csv_import", key |-> <<>>,
                     type |-> type, rest |-> rest, row |-> row]]
    <2>1. PICK state : state = [op |-> "import", pc |-> "append", source |-> "csv_import", key |-> <<>>,
                                type |-> type, rest |-> rest, row |-> row]
      OBVIOUS
    <2>2. /\ state.op = "import" /\ state.pc = "append" /\ state.source = "csv_import" /\ state.key = <<>>
          /\ state.type = type /\ state.rest = rest /\ state.row = row
      BY <2>1
    <2>3. row \in RowIds
      <3>1. CASE r # 0
        BY <1>5, <1>10, <3>1, FoundIsRow
      <3>2. CASE r = 0
        BY <1>5, <1>10, <1>11, <3>2, AudienceAssumption DEF Create, RowIds, AudienceTyped, DirectoryTyped
      <3>3. QED
        BY <3>1, <3>2
    <2>4. type \in Types
      BY <1>2, <1>5, <1>11 DEF ImportTyped
    <2>5. AppendTyped(state)
      BY <1>4, <2>2, <2>3, <2>4 DEF AppendTyped, Sources
    <2>6. RequestTyped(state, now') /\ req' = [req EXCEPT ![p] = state]
      BY <1>11, <2>1, <2>5 DEF RequestTyped
    <2>7. RequestsTyped'
      BY <1>1, <2>6, MovedIsTyped
    <2>8. QED
      BY <1>6, <1>8, <1>11, <2>7 DEF AudienceTyped
  <1>12. QED
    BY <1>3, <1>5, <1>7, <1>9, <1>10, <1>11 DEF ImportRow

-----------------------------------------------------------------------------
LEMMA CascadeTyped ==
  ASSUME AudienceTyped, NEW r, Cascade(r), now' = now, spent' = spent,
         history' \in [RowIds -> {"none", "linked", "unlinked", "lost"}]
  PROVE  DirectoryTyped' /\ LedgerTyped'
  <1>1. contacts' = [contacts EXCEPT ![r] = NoContact] /\ ledger' \subseteq ledger
    BY DEF Cascade
  <1>2. \A e \in ledger : e.key # <<>> => e.key \in Keys
    BY DEF AudienceTyped, LedgerTyped, EventTyped
  <1>3. missed' \subseteq Keys
    BY <1>2 DEF Cascade, AudienceTyped, LedgerTyped
  <1>4. contacts' \in [RowIds -> {NoContact} \cup Contact]
    BY <1>1, RowIsTyped DEF AudienceTyped
  <1>5. DirectoryTyped'
    BY <1>4 DEF AudienceTyped, DirectoryTyped
  <1>6. LedgerTyped'
    BY <1>1, <1>3 DEF AudienceTyped, LedgerTyped
  <1>7. QED
    BY <1>5, <1>6

LEMMA DeleteTyped ==
  ASSUME AudienceTyped, NEW p \in Proc, NEW r, HardDelete(p, r)
  PROVE  AudienceTyped'
  <1>1. /\ UNCHANGED <<now, said, spent>> /\ req[p].pc = "delete"
        /\ now \in Nat /\ now' \in Nat /\ now <= now'
    BY DEF HardDelete, AudienceTyped, LedgerTyped
  <1>2. PICK ids : ids = req[p].ids
    OBVIOUS
  <1>3. req[p] = [op |-> "sweep", pc |-> "delete", ids |-> ids] /\ ids \subseteq RowIds
    BY <1>1, <1>2, RequestIsTyped, KindsTyped DEF Sweeping
  <1>4. PICK rest : rest = [req[p] EXCEPT !.ids = @ \ {r}]
    OBVIOUS
  <1>5. rest = [op |-> "sweep", pc |-> "delete", ids |-> ids \ {r}]
    BY <1>3, <1>4
  <1>6. RequestTyped(rest, now')
    <2>1. rest.pc = "delete" /\ rest.ids = ids \ {r}
      BY <1>5
    <2>2. Sweeping(rest)
      BY <1>3, <1>5, <2>1 DEF Sweeping
    <2>3. QED
      BY <2>2 DEF RequestTyped
  <1>7. req' = [req EXCEPT ![p] = Vacant] \/ req' = [req EXCEPT ![p] = rest]
    BY <1>4 DEF HardDelete
  <1>8. RequestsTyped'
    BY <1>1, <1>6, <1>7, VacantIsTyped, MovedIsTyped
  <1>9. CASE Cascade(r) /\ history' = Unlinked(r)
    <2>1. history' \in [RowIds -> {"none", "linked", "unlinked", "lost"}]
      BY <1>9 DEF Unlinked, AudienceTyped, DirectoryTyped
    <2>2. QED
      BY <1>1, <1>8, <1>9, <2>1, CascadeTyped DEF AudienceTyped
  <1>10. CASE UNCHANGED <<contacts, ledger, history, missed>>
    <2>1. DirectoryTyped' /\ LedgerTyped'
      BY <1>1, <1>10 DEF AudienceTyped, DirectoryTyped, LedgerTyped
    <2>2. QED
      BY <1>8, <2>1 DEF AudienceTyped
  <1>11. QED
    BY <1>9, <1>10 DEF HardDelete

\* What a request that ends, is interrupted or fails had to record.
LEMMA KeywordsTyped ==
  ASSUME AudienceTyped, NEW ps, ps \subseteq Proc
  PROVE  Keywords(ps) \subseteq Keys
  <1>1. ASSUME NEW s, RequestTyped(s, now), s.op = "inbound"
        PROVE  s.key \in Keys
    BY <1>1, VacantIsTyped DEF RequestTyped, RegistrationTyped, ImportTyped, AppendTyped, TransactionTyped,
       Sweeping
  <1>2. \A p \in ps : req[p].op = "inbound" => req[p].key \in Keys
    BY <1>1, RequestIsTyped
  <1>3. QED
    BY <1>2 DEF Keywords

LEMMA WriteFailsTyped ==
  ASSUME AudienceTyped, NEW p \in Proc, WriteFails(p), UNCHANGED <<contacts, ledger, history, now, said>>
  PROVE  AudienceTyped'
  <1>1. /\ UNCHANGED <<contacts, ledger, history>> /\ \E n : Failed(n)
        /\ now \in Nat /\ now' \in Nat /\ now <= now'
    BY DEF WriteFails, AudienceTyped, LedgerTyped
  <1>2. RequestTyped(req[p], now)
    BY RequestIsTyped
  <1>3. CASE req[p].pc = "create" /\ AfterRegister(p) /\ missed' = missed
    <2>1. PICK state : RequestTyped(state, now') /\ req' = [req EXCEPT ![p] = state]
      BY <1>3, AfterRegisterTyped
    <2>2. missed' \subseteq missed \cup Keys
      BY <1>3
    <2>3. QED
      BY <1>1, <2>1, <2>2, QuietIsTyped
  <1>4. CASE /\ req[p].pc = "row" /\ missed' = missed
             /\ \E x \in req[p].todo : req' = [req EXCEPT ![p] = AfterRow(p, x)]
    <2>1. PICK x : req' = [req EXCEPT ![p] = AfterRow(p, x)]
      BY <1>4
    <2>2. PICK state : state = AfterRow(p, x)
      OBVIOUS
    <2>3. RequestTyped(state, now') /\ req' = [req EXCEPT ![p] = state]
      BY <1>2, <1>4, <2>1, <2>2, KindsTyped, AfterRowTyped, RestIsTyped
    <2>4. missed' \subseteq missed \cup Keys
      BY <1>4
    <2>5. QED
      BY <1>1, <2>3, <2>4, QuietIsTyped
  <1>5. CASE /\ req[p].pc \in {"append", "project", "commit"}
             /\ AfterApply(p) /\ missed' = missed \cup Keywords({p})
    <2>1. AppendTyped(req[p]) \/ TransactionTyped(req[p], now)
      BY <1>2, <1>5, KindsTyped
    <2>2. PICK state : RequestTyped(state, now') /\ req' = [req EXCEPT ![p] = state]
      BY <1>5, <2>1, AfterApplyTyped
    <2>3. Keywords({p}) \subseteq Keys
      BY KeywordsTyped
    <2>4. missed' \subseteq missed \cup Keys
      BY <1>5, <2>3
    <2>5. QED
      BY <1>1, <2>2, <2>4, QuietIsTyped
  <1>6. QED
    BY <1>3, <1>4, <1>5 DEF WriteFails

LEMMA LookupFailsTyped ==
  ASSUME AudienceTyped, NEW p \in Proc, LookupFails(p), UNCHANGED <<contacts, ledger, history, now, said>>
  PROVE  AudienceTyped'
  <1>1. /\ UNCHANGED <<contacts, ledger, history>> /\ \E n : Failed(n)
        /\ now \in Nat /\ now' \in Nat /\ now <= now'
    BY DEF LookupFails, AudienceTyped, LedgerTyped
  <1>2. RequestTyped(req[p], now)
    BY RequestIsTyped
  <1>3. CASE /\ req[p].pc = "lookup" /\ req[p].op = "import" /\ missed' = missed
             /\ \E x \in req[p].todo : req' = [req EXCEPT ![p] = AfterRow(p, x)]
    <2>1. PICK x : req' = [req EXCEPT ![p] = AfterRow(p, x)]
      BY <1>3
    <2>2. PICK state : state = AfterRow(p, x)
      OBVIOUS
    <2>3. ImportTyped(req[p])
      BY <1>2, <1>3, KindsTyped DEF RegistrationTyped
    <2>4. RequestTyped(state, now')
      BY <1>3, <2>2, <2>3, AfterRowTyped, VacantIsTyped DEF RequestTyped
    <2>5. req' = [req EXCEPT ![p] = state] /\ missed' \subseteq missed \cup Keys
      BY <1>3, <2>1, <2>2
    <2>6. QED
      BY <1>1, <2>4, <2>5, QuietIsTyped
  <1>4. CASE req[p].pc = "lookup" /\ req[p].op # "import" /\ missed' = missed /\ Goto(p, "count")
    <2>1. RegistrationTyped(req[p])
      BY <1>2, <1>4, KindsTyped DEF ImportTyped
    <2>2. PICK state : RequestTyped(state, now') /\ req' = [req EXCEPT ![p] = state]
      BY <1>4, <2>1, GotoTyped
    <2>3. missed' \subseteq missed \cup Keys
      BY <1>4
    <2>4. QED
      BY <1>1, <2>2, <2>3, QuietIsTyped
  <1>5. CASE req[p].pc = "find" /\ Finish(p) /\ missed' = missed \cup {req[p].key}
    <2>1. req[p].key \in Keys
      BY <1>2, <1>5, KindsTyped DEF RegistrationTyped
    <2>2. missed' \subseteq missed \cup Keys /\ req' = [req EXCEPT ![p] = Vacant]
      BY <1>5, <2>1 DEF Finish
    <2>3. QED
      BY <1>1, <2>2, VacantIsTyped, QuietIsTyped
  <1>6. QED
    BY <1>3, <1>4, <1>5 DEF LookupFails

LEMMA QuotaFailsTyped ==
  ASSUME AudienceTyped, NEW p \in Proc, QuotaFails(p), UNCHANGED <<contacts, ledger, history, now, said>>
  PROVE  AudienceTyped'
  <1>1. /\ UNCHANGED <<contacts, ledger, history>> /\ \E n : Failed(n)
        /\ now \in Nat /\ now' \in Nat /\ now <= now' /\ missed' \subseteq missed \cup Keys
    BY DEF QuotaFails, AudienceTyped, LedgerTyped
  <1>2. RequestTyped(req[p], now)
    BY RequestIsTyped
  <1>3. CASE req[p].pc = "count" /\ Goto(p, "create")
    <2>1. RegistrationTyped(req[p])
      BY <1>2, <1>3, KindsTyped
    <2>2. PICK state : RequestTyped(state, now') /\ req' = [req EXCEPT ![p] = state]
      BY <1>3, <2>1, GotoTyped
    <2>3. QED
      BY <1>1, <2>2, QuietIsTyped
  <1>4. CASE req[p].pc = "quota" /\ Goto(p, "row")
    <2>1. PICK s : s = req[p]
      OBVIOUS
    <2>2. s = [op |-> "import", pc |-> s.pc, todo |-> s.todo, type |-> s.type, known |-> s.known]
          /\ s.todo \subseteq Person /\ s.type \in Types \cup {"none"}
      BY <1>2, <1>4, <2>1, KindsTyped DEF ImportTyped
    <2>3. PICK state : state = [s EXCEPT !.pc = "row"]
      OBVIOUS
    <2>4. state = [op |-> "import", pc |-> "row", todo |-> s.todo, type |-> s.type, known |-> s.known]
      BY <2>2, <2>3
    <2>5. state.op = "import" /\ state.pc = "row" /\ state.todo = s.todo /\ state.type = s.type
          /\ state.known = s.known
      BY <2>4
    <2>6. RequestTyped(state, now')
      BY <2>2, <2>4, <2>5 DEF RequestTyped, ImportTyped
    <2>7. req' = [req EXCEPT ![p] = state]
      BY <1>4, <2>1, <2>3 DEF Goto
    <2>8. QED
      BY <1>1, <2>6, <2>7, QuietIsTyped
  <1>5. CASE Finish(p)
    BY <1>1, <1>5, VacantIsTyped, QuietIsTyped DEF Finish
  <1>6. QED
    BY <1>3, <1>4, <1>5 DEF QuotaFails

LEMMA FailureTyped ==
  ASSUME AudienceTyped, NEW p \in Proc, StatementFails(p)
  PROVE  AudienceTyped'
  BY WriteFailsTyped, LookupFailsTyped, QuotaFailsTyped DEF StatementFails

-----------------------------------------------------------------------------
LEMMA StartedIsTyped ==
  ASSUME AudienceTyped, NEW p \in Proc, NEW state, RequestTyped(state, now),
         Start(p, state), UNCHANGED <<contacts, ledger, history, now, missed>>
  PROVE  AudienceTyped'
  <1>1. now' \in Nat /\ now <= now' /\ RequestTyped(state, now') /\ missed' \subseteq missed \cup Keys
    BY DEF AudienceTyped, LedgerTyped
  <1>2. spent' = [spent EXCEPT !.requests = @ + 1] /\ req' = [req EXCEPT ![p] = state]
    BY DEF Start
  <1>3. QED
    BY <1>1, <1>2, QuietIsTyped

LEMMA WebhookTyped ==
  ASSUME AudienceTyped, NEW p \in Proc, NEW x \in Person, NEW i \in 1..MaxWords, NEW word,
         Webhook(p, x, i, word)
  PROVE  AudienceTyped'
  <1>1. PICK key, type : key = <<x, i>> /\ type = ClassifyConsentKeyword(word)
    OBVIOUS
  <1>2. PICK state : state = [op |-> "inbound", pc |-> "lookup", person |-> x, source |-> "inbound_keyword",
                              type |-> type, key |-> key]
    OBVIOUS
  <1>3. key \in Keys /\ type \in Types
    BY <1>1 DEF Keys, Types, ClassifyConsentKeyword
  <1>4. state.op = "inbound" /\ state.pc = "lookup" /\ state.person = x /\ state.type = type /\ state.key = key
    BY <1>2
  <1>5. RegistrationTyped(state)
    BY <1>2, <1>3, <1>4 DEF RegistrationTyped
  <1>6. Start(p, state) /\ UNCHANGED <<contacts, ledger, history, now, missed>>
    BY <1>1, <1>2 DEF Webhook
  <1>7. QED
    BY <1>5, <1>6, StartedIsTyped DEF RequestTyped

LEMMA FormTyped ==
  ASSUME AudienceTyped, NEW p \in Proc, NEW x \in Person, CreateContact(p, x)
  PROVE  AudienceTyped'
  <1>1. PICK state : state = [op |-> "manual", pc |-> "lookup", person |-> x, source |-> "operator"]
    OBVIOUS
  <1>2. state.op = "manual" /\ state.pc = "lookup" /\ state.person = x
    BY <1>1
  <1>3. RegistrationTyped(state)
    BY <1>1, <1>2 DEF RegistrationTyped
  <1>4. Start(p, state) /\ UNCHANGED <<contacts, ledger, history, now, missed>>
    BY <1>1 DEF CreateContact
  <1>5. QED
    BY <1>3, <1>4, StartedIsTyped DEF RequestTyped

LEMMA ImportStartTyped ==
  ASSUME AudienceTyped, NEW p \in Proc, NEW people \in SUBSET Person, NEW type \in Types \cup {"none"},
         ImportContacts(p, people, type)
  PROVE  AudienceTyped'
  <1>1. PICK known : known = [x \in people |-> "new"]
    OBVIOUS
  <1>2. PICK state : state = [op |-> "import", pc |-> "lookup", todo |-> people, type |-> type, known |-> known]
    OBVIOUS
  <1>3. state.op = "import" /\ state.pc = "lookup" /\ state.todo = people /\ state.type = type
        /\ state.known = known
    BY <1>2
  <1>4. ImportTyped(state)
    BY <1>2, <1>3 DEF ImportTyped
  <1>5. Start(p, state) /\ UNCHANGED <<contacts, ledger, history, now, missed>>
    BY <1>1, <1>2 DEF ImportContacts
  <1>6. QED
    BY <1>4, <1>5, StartedIsTyped DEF RequestTyped

LEMMA SweepTyped ==
  ASSUME AudienceTyped, NEW p \in Proc, SweepList(p)
  PROVE  AudienceTyped'
  <1>1. PICK ids : ids = FindAnonymizedExpired
    OBVIOUS
  <1>2. PICK state : state = [op |-> "sweep", pc |-> "delete", ids |-> ids]
    OBVIOUS
  <1>3. state.pc = "delete" /\ state.ids = ids /\ ids \subseteq RowIds
    BY <1>1, <1>2 DEF FindAnonymizedExpired, Present
  <1>4. Sweeping(state)
    BY <1>2, <1>3 DEF Sweeping
  <1>5. Start(p, state) /\ UNCHANGED <<contacts, ledger, history, now, missed>>
    BY <1>1, <1>2 DEF SweepList
  <1>6. QED
    BY <1>4, <1>5, StartedIsTyped DEF RequestTyped

LEMMA EraseTyped ==
  ASSUME AudienceTyped, NEW p \in Proc, NEW r \in RowIds, DeleteRecipient(p, r)
  PROVE  AudienceTyped'
  <1>1. PICK state : state = [op |-> "erase", pc |-> "append", row |-> r, type |-> "revoked",
                              source |-> "operator", key |-> <<>>]
    OBVIOUS
  <1>2. /\ state.op = "erase" /\ state.pc = "append" /\ state.row = r /\ state.type = "revoked"
        /\ state.source = "operator" /\ state.key = <<>>
    BY <1>1
  <1>3. AppendTyped(state)
    BY <1>2 DEF AppendTyped, Types, Sources
  <1>4. /\ UNCHANGED <<ledger, history, now, missed>> /\ now' \in Nat /\ now <= now'
        /\ spent' = [spent EXCEPT !.requests = @ + 1] /\ req' = [req EXCEPT ![p] = state]
    BY <1>1 DEF DeleteRecipient, Start, AudienceTyped, LedgerTyped
  <1>5. RequestsTyped'
    BY <1>3, <1>4, MovedIsTyped DEF RequestTyped
  <1>6. contacts[r] \in Contact
    BY DEF DeleteRecipient, Present, AudienceTyped, DirectoryTyped
  <1>7. PICK row : row = [person |-> contacts[r].person, form |-> "redacted", source |-> contacts[r].source,
                          status |-> "opted_out", erased |-> TRUE, expired |-> contacts[r].expired]
    OBVIOUS
  <1>8. row \in Contact
    BY <1>6, <1>7 DEF Contact, Forms
  <1>9. contacts' = [contacts EXCEPT ![r] = row]
    <2>1. contacts'[r] = row
      BY <1>6, <1>7 DEF DeleteRecipient, Anonymize, Contact, AudienceTyped, DirectoryTyped
    <2>2. /\ contacts' = [s \in RowIds |-> contacts'[s]]
          /\ \A s \in RowIds : s # r => contacts'[s] = contacts[s]
      BY DEF DeleteRecipient, Anonymize, AudienceTyped, DirectoryTyped
    <2>3. QED
      BY <2>1, <2>2 DEF AudienceTyped, DirectoryTyped
  <1>10. contacts' \in [RowIds -> {NoContact} \cup Contact]
    BY <1>8, <1>9, RowIsTyped DEF AudienceTyped
  <1>11. DirectoryTyped'
    BY <1>4, <1>10, SpentStays DEF AudienceTyped, DirectoryTyped
  <1>12. LedgerTyped'
    BY <1>4 DEF AudienceTyped, LedgerTyped
  <1>13. QED
    BY <1>5, <1>11, <1>12 DEF AudienceTyped

-----------------------------------------------------------------------------
\* The directory changes, the requests do not.
LEMMA AroundTyped ==
  ASSUME AudienceTyped, DirectoryTyped', UNCHANGED <<ledger, now, missed, req>>
  PROVE  AudienceTyped'
  BY DEF AudienceTyped, LedgerTyped, RequestsTyped

LEMMA ElapseTyped ==
  ASSUME AudienceTyped, NEW r \in RowIds, RetentionElapses(r)
  PROVE  AudienceTyped'
  <1>1. UNCHANGED <<ledger, history, now, missed, req, spent>> /\ r \in Present
    BY DEF RetentionElapses
  <1>2. PICK row : row = [contacts[r] EXCEPT !.expired = TRUE]
    OBVIOUS
  <1>3. row \in Contact
    BY <1>1, <1>2 DEF Contact, Present, AudienceTyped, DirectoryTyped
  <1>4. contacts' \in [RowIds -> {NoContact} \cup Contact]
    BY <1>2, <1>3, RowIsTyped DEF RetentionElapses, AudienceTyped
  <1>5. DirectoryTyped'
    BY <1>1, <1>4 DEF AudienceTyped, DirectoryTyped
  <1>6. QED
    BY <1>1, <1>5, AroundTyped

LEMMA DeliveredTyped ==
  ASSUME AudienceTyped, NEW r \in RowIds, Delivered(r)
  PROVE  AudienceTyped'
  <1>1. UNCHANGED <<contacts, ledger, now, missed, req, spent>> /\ history' = [history EXCEPT ![r] = "linked"]
    BY DEF Delivered
  <1>2. DirectoryTyped'
    BY <1>1 DEF AudienceTyped, DirectoryTyped
  <1>3. QED
    BY <1>1, <1>2, AroundTyped

LEMMA SaveTyped ==
  ASSUME AudienceTyped, NEW x \in Person, NEW form \in {"plus", "lid"}, SaveContact(x, form)
  PROVE  AudienceTyped'
  <1>1. UNCHANGED <<ledger, history, now, missed, req>> /\ DirectoryTyped
    BY DEF SaveContact, AudienceTyped
  <1>2. PICK row : row = ContactRow(x, form, "whatsapp_sync")
    OBVIOUS
  <1>3. row \in Contact
    <2>1. form \in Forms /\ "whatsapp_sync" \in Origins
      BY DEF Forms, Origins
    <2>2. QED
      BY <1>2, <2>1, NewIsContact
  <1>4. \/ contacts' = contacts /\ spent' = [spent EXCEPT !.syncs = @ + 1]
        \/ /\ contacts' = [contacts EXCEPT ![spent.contacts + 1] = row]
           /\ spent' = [spent EXCEPT !.syncs = @ + 1, !.contacts = @ + 1]
    BY <1>2 DEF SaveContact
  <1>5. contacts' \in [RowIds -> {NoContact} \cup Contact]
    BY <1>1, <1>3, <1>4, RowIsTyped
  <1>6. /\ spent' = [contacts |-> spent'.contacts, requests |-> spent'.requests,
                     faults |-> spent'.faults, syncs |-> spent'.syncs, unmetered |-> spent'.unmetered]
        /\ spent'.contacts \in Nat
    <2>1. CASE spent' = [spent EXCEPT !.syncs = @ + 1]
      BY <1>1, <2>1, SpentStays DEF DirectoryTyped
    <2>2. CASE spent' = [spent EXCEPT !.syncs = @ + 1, !.contacts = @ + 1]
      <3>1. spent' = [contacts |-> spent.contacts + 1, requests |-> spent'.requests,
                      faults |-> spent'.faults, syncs |-> spent'.syncs, unmetered |-> spent'.unmetered]
        BY <1>1, <2>2 DEF DirectoryTyped
      <3>2. spent'.contacts = spent.contacts + 1
        BY <3>1
      <3>3. QED
        BY <1>1, <3>1, <3>2 DEF DirectoryTyped
    <2>3. QED
      BY <1>4, <2>1, <2>2
  <1>7. DirectoryTyped'
    BY <1>1, <1>5, <1>6 DEF DirectoryTyped
  <1>8. QED
    BY <1>1, <1>7, AroundTyped

LEMMA MigrateTyped ==
  ASSUME AudienceTyped, NEW x \in Person, ResolveAndMigrateLID(x)
  PROVE  AudienceTyped'
  <1>1. PICK lid : lid = GetByRoutingValue(x, "lid")
    OBVIOUS
  <1>2. lid \in Present /\ UNCHANGED <<now, req, spent>>
    BY <1>1, Found DEF ResolveAndMigrateLID
  <1>3. CASE contacts' = [contacts EXCEPT ![lid].form = "plus"] /\ UNCHANGED <<ledger, history, missed>>
    <2>1. PICK row : row = [contacts[lid] EXCEPT !.form = "plus"]
      OBVIOUS
    <2>2. row \in Contact
      BY <1>2, <2>1 DEF Contact, Forms, Present, AudienceTyped, DirectoryTyped
    <2>3. contacts' = [contacts EXCEPT ![lid] = row]
      BY <1>3, <2>1
    <2>4. contacts' \in [RowIds -> {NoContact} \cup Contact]
      BY <2>2, <2>3, RowIsTyped DEF AudienceTyped
    <2>5. DirectoryTyped'
      BY <1>2, <1>3, <2>4 DEF AudienceTyped, DirectoryTyped
    <2>6. QED
      BY <1>2, <1>3, <2>5, AroundTyped
  <1>4. CASE Cascade(lid) /\ history' = [history EXCEPT ![lid] = IF @ = "linked" THEN "lost" ELSE @]
    <2>1. history' \in [RowIds -> {"none", "linked", "unlinked", "lost"}]
      BY <1>4 DEF AudienceTyped, DirectoryTyped
    <2>2. DirectoryTyped' /\ LedgerTyped'
      BY <1>2, <1>4, <2>1, CascadeTyped
    <2>3. RequestsTyped'
      BY <1>2 DEF AudienceTyped, RequestsTyped
    <2>4. QED
      BY <2>2, <2>3 DEF AudienceTyped
  <1>5. QED
    BY <1>1, <1>3, <1>4 DEF ResolveAndMigrateLID

LEMMA RestartTyped ==
  ASSUME AudienceTyped, GatewayRestarts
  PROVE  AudienceTyped'
  <1>1. /\ UNCHANGED <<contacts, history, now>> /\ spent' = [spent EXCEPT !.faults = @ + 1]
        /\ req' = [p \in Proc |-> Vacant] /\ ledger' = ledger \cup Backfill
        /\ missed' = missed \cup Keywords(Proc) /\ now \in Nat
    BY DEF GatewayRestarts, AudienceTyped, LedgerTyped
  <1>2. RequestsTyped'
    BY <1>1, VacantIsTyped DEF RequestsTyped
  <1>3. DirectoryTyped'
    BY <1>1, SpentStays DEF AudienceTyped, DirectoryTyped
  <1>4. \A e \in Backfill : EventTyped(e, now)
    BY <1>1 DEF Backfill, EventTyped, Present, Types, Sources
  <1>5. Keywords(Proc) \subseteq Keys
    BY KeywordsTyped
  <1>6. LedgerTyped'
    BY <1>1, <1>4, <1>5 DEF AudienceTyped, LedgerTyped
  <1>7. QED
    BY <1>2, <1>3, <1>6 DEF AudienceTyped

LEMMA RequestStepTyped ==
  ASSUME AudienceTyped, NEW p \in Proc, NewRequest(p) \/ RequestStep(p)
  PROVE  AudienceTyped'
  <1>1. CASE NewRequest(p)
    BY <1>1, FormTyped, WebhookTyped, ImportStartTyped, EraseTyped, SweepTyped DEF NewRequest
  <1>2. CASE RequestStep(p)
    BY <1>2, LookupTyped, InsertTyped, RecordTyped, AppendTypedStep, TransactTyped, CommitTyped,
       ImportTypedStep, ImportRowTyped, DeleteTyped, FailureTyped DEF RequestStep
  <1>3. QED
    BY <1>1, <1>2

LEMMA AudienceTypedStart == AudienceInit => AudienceTyped
  <1> SUFFICES ASSUME AudienceInit PROVE AudienceTyped
    OBVIOUS
  <1>1. RequestsTyped
    BY VacantIsTyped DEF AudienceInit, RequestsTyped
  <1>2. LedgerTyped
    BY DEF AudienceInit, LedgerTyped
  <1>3. DirectoryTyped
    BY DEF AudienceInit, DirectoryTyped
  <1>4. QED
    BY <1>1, <1>2, <1>3 DEF AudienceTyped

LEMMA AudienceTypedStep ==
  ASSUME AudienceTyped, AudienceNext \/ UNCHANGED audienceVars
  PROVE  AudienceTyped'
  <1>1. ASSUME NEW x \in Person, HeardOf(x)
        PROVE  AudienceTyped'
    BY <1>1, SaveTyped, MigrateTyped DEF HeardOf
  <1>2. CASE UNCHANGED audienceVars
    BY <1>2 DEF audienceVars, AudienceTyped, DirectoryTyped, LedgerTyped, RequestsTyped
  <1>3. QED
    BY <1>1, <1>2, RequestStepTyped, ElapseTyped, DeliveredTyped, RestartTyped
    DEF AudienceNext, SyncContacts, HistorySync, NameEvent

LEMMA AudienceIsTyped == AudienceTyped => AudienceTypeOK
  <1> SUFFICES ASSUME AudienceTyped PROVE AudienceTypeOK
    OBVIOUS
  <1>1. \A r \in Present : /\ contacts[r].person \in Person /\ contacts[r].form \in Forms
                           /\ contacts[r].status \in {"active", "opted_out"}
    BY DEF Present, AudienceTyped, DirectoryTyped, Contact
  <1>2. QED
    BY <1>1 DEF AudienceTypeOK, AudienceTyped, DirectoryTyped, LedgerTyped, EventTyped, Keys

-----------------------------------------------------------------------------
(* The rows of the teams *)

\* The rows that a membership of u in t refers to.
Stands(t, u) == teams[t] = "open" /\ users[u] # Unknown

\* TeamsTypeOK is not inductive: a role that is about to be written is that of a
\* membership whose workspace and user have their rows.
TeamsTyped ==
    /\ TeamsShape
    /\ TeamsTypeOK
    /\ \A i \in invites : i.by \in Member
    /\ \A q \in TeamRequest :
          asking[q].pc = "change" => Stands(asking[q].team, asking[q].who)

LEMMA TeamsTypedStart == TeamsInit => TeamsTyped
  BY ShapeStart DEF TeamsInit, TeamsTyped, TeamsTypeOK, Quiet

\* A user that is active in a workspace has a row.
LEMMA HomeIsKnown ==
  ASSUME NEW row, row.home \in Team
  PROVE  row # Unknown
  BY TeamAssumption DEF Unknown

\* Rows that are referred to stay, and a row that is written refers to rows.
LEMMA RowsStand ==
  ASSUME TeamsTyped, TeamsShape',
         \A t \in Team : teams[t] = "open" => teams'[t] = "open",
         \A u \in Member : users[u] # Unknown => users'[u] # Unknown,
         \A u \in Member : users'[u] = users[u] \/ teams'[users'[u].home] = "open",
         \A t \in Team, u \in Member :
            \/ seats'[t][u] = seats[t][u] \/ seats'[t][u] = NoSeat
            \/ teams'[t] = "open" /\ users'[u] # Unknown,
         \A i \in invites' :
            \/ \E j \in invites : i.team = j.team /\ i.by = j.by
            \/ teams'[i.team] = "open" /\ i.by \in Member /\ users'[i.by] # Unknown,
         \A q \in TeamRequest :
            \/ asking'[q] = asking[q]
            \/ asking'[q].pc = "change" =>
                  teams'[asking'[q].team] = "open" /\ users'[asking'[q].who] # Unknown
  PROVE  TeamsTyped'
  <1>1. \A u \in Member : users'[u] = Unknown \/ teams'[users'[u].home] = "open"
    BY DEF TeamsTyped, TeamsTypeOK, TeamsShape, UserRow
  <1>2. \A t \in Team, u \in Member :
           seats'[t][u] # NoSeat => teams'[t] = "open" /\ users'[u] # Unknown
    BY DEF TeamsTyped, TeamsTypeOK
  <1>3. \A i \in invites' :
           i.by \in Member /\ teams'[i.team] = "open" /\ users'[i.by] # Unknown
    BY DEF TeamsTyped, TeamsTypeOK, TeamsShape, InviteRow
  <1>4. ASSUME NEW q \in TeamRequest, asking'[q].pc = "change"
        PROVE  teams'[asking'[q].team] = "open" /\ users'[asking'[q].who] # Unknown
    <2>1. CASE asking'[q] = asking[q]
      <3>1. Asked(asking[q])
        BY <1>4, <2>1 DEF TeamsTyped, TeamsShape, Quiet
      <3>2. asking[q].team \in Team /\ asking[q].who \in Member
        BY <3>1 DEF Asked
      <3>3. Stands(asking[q].team, asking[q].who)
        BY <1>4, <2>1 DEF TeamsTyped
      <3>4. QED
        BY <2>1, <3>2, <3>3 DEF Stands
    <2>2. QED
      BY <1>4, <2>1
  <1>5. TeamsTypeOK'
    BY <1>1, <1>2, <1>3 DEF TeamsTypeOK
  <1>6. QED
    BY <1>3, <1>4, <1>5 DEF TeamsTyped, Stands

\* An invitation that moves on is from and to the same.
LEMMA MovedKeeps ==
  ASSUME TeamsTyped, NEW i \in invites, NEW next, invites' = Moved(i, next)
  PROVE  \A j \in invites' : \E k \in invites : j.team = k.team /\ j.by = k.by
  <1> DEFINE k == [i EXCEPT !.status = next]
  <1>1. InviteRow(i)
    BY DEF TeamsTyped, TeamsShape
  <1>2. k.team = i.team /\ k.by = i.by
    BY <1>1 DEF InviteRow
  <1>3. \A j \in invites' : j \in invites \/ j = k
    BY DEF Moved
  <1> HIDE DEF k
  <1>4. QED
    BY <1>2, <1>3

LEMMA QuietTyped ==
  ASSUME TeamsTyped, NEW q \in TeamRequest,
         \/ RequestEnds(q) \/ CreateInvitation(q)
         \/ \E i \in invites : RevokeInvitation(q, i) \/ AcceptExpired(q, i)
  PROVE  TeamsTyped'
  <1>1. TeamsShape /\ TeamsShape'
    BY ShapeStep DEF TeamsTyped, TeamsNext
  <1>2. UNCHANGED <<users, teams, seats>> /\ asking' = [asking EXCEPT ![q] = Quiet]
    BY <1>1, PaperQuiets
  <1>3. \A p \in TeamRequest : asking'[p] = asking[p] \/ asking'[p] = Quiet
    BY <1>1, <1>2, RequestMoves
  <1>4. \A i \in invites' :
            \/ \E j \in invites : i.team = j.team /\ i.by = j.by
            \/ teams'[i.team] = "open" /\ i.by \in Member /\ users'[i.by] # Unknown
    <2>1. CASE RequestEnds(q)
      BY <2>1 DEF RequestEnds
    <2>2. CASE CreateInvitation(q)
      <3>1. PICK i : i = [id |-> Cardinality(invites), team |-> asking[q].team,
                          email |-> asking[q].who, role |-> asking[q].as,
                          by |-> asking[q].by, status |-> "pending"]
        OBVIOUS
      <3>2. invites' = invites \cup {i} /\ teams[asking[q].team] = "open"
            /\ users[asking[q].by] # Unknown
        BY <2>2, <3>1 DEF CreateInvitation
      <3>3. asking[q].by \in Member
        BY <1>1, <2>2, ActorIsAsked DEF CreateInvitation, Acting, Asked
      <3>4. i.team = asking[q].team /\ i.by = asking[q].by
        BY <3>1
      <3>5. QED
        BY <1>2, <3>2, <3>3, <3>4
    <2>3. ASSUME NEW i \in invites, RevokeInvitation(q, i) \/ AcceptExpired(q, i)
          PROVE  \A j \in invites' : \E k \in invites : j.team = k.team /\ j.by = k.by
      <3>1. \E next : invites' = Moved(i, next)
        BY <2>3 DEF RevokeInvitation, AcceptExpired
      <3>2. QED
        BY <3>1, MovedKeeps
    <2>4. QED
      BY <2>1, <2>2, <2>3
  <1>5. Quiet.pc = "quiet"
    BY DEF Quiet
  <1>6. QED
    BY <1>1, <1>2, <1>3, <1>4, <1>5, RowsStand

\* A change of role is begun for a member.
LEMMA WritesTyped ==
  ASSUME TeamsTyped, NEW q \in TeamRequest,
         \/ CreateWorkspace(q) \/ \E u \in Member : RemoveMember(q, u)
         \/ \E u \in Member, r \in Seat : InviteMember(q, u, r) \/ UpdateMemberRole(q, u, r)
  PROVE  TeamsTyped'
  <1>1. TeamsShape /\ TeamsShape'
    BY ShapeStep DEF TeamsTyped, TeamsNext
  <1>2. Asked(asking[q]) /\ UNCHANGED <<users, teams, seats, invites>>
    BY <1>1, ActorIsAsked
    DEF CreateWorkspace, RemoveMember, InviteMember, UpdateMemberRole, Acting
  <1>3. asking[q].team \in Team
    BY <1>2 DEF Asked
  <1>4. \E a : /\ asking' = [asking EXCEPT ![q] = a]
               /\ a.pc = "change" => teams[a.team] = "open" /\ users[a.who] # Unknown
    <2>1. CASE CreateWorkspace(q)
      <3>1. PICK a : a = About(q, "create", asking[q].by, "owner")
        OBVIOUS
      <3>2. asking' = [asking EXCEPT ![q] = a] /\ a.pc = "create"
        BY <2>1, <3>1 DEF CreateWorkspace, Writes, About
      <3>3. QED
        BY <3>2
    <2>2. ASSUME NEW u \in Member, RemoveMember(q, u)
          PROVE  \E a : asking' = [asking EXCEPT ![q] = a] /\ a.pc = "remove"
      <3>1. PICK a : a = About(q, "remove", u, NoSeat)
        OBVIOUS
      <3>2. asking' = [asking EXCEPT ![q] = a] /\ a.pc = "remove"
        BY <2>2, <3>1 DEF RemoveMember, Writes, About
      <3>3. QED
        BY <3>2
    <2>3. ASSUME NEW u \in Member, NEW r \in Seat, InviteMember(q, u, r)
          PROVE  \E a : asking' = [asking EXCEPT ![q] = a] /\ a.pc = "invite"
      <3>1. PICK a : a = About(q, "invite", u, r)
        OBVIOUS
      <3>2. asking' = [asking EXCEPT ![q] = a] /\ a.pc = "invite"
        BY <2>3, <3>1 DEF InviteMember, Writes, About
      <3>3. QED
        BY <3>2
    <2>4. ASSUME NEW u \in Member, NEW r \in Seat, UpdateMemberRole(q, u, r)
          PROVE  \E a : /\ asking' = [asking EXCEPT ![q] = a]
                        /\ teams[a.team] = "open" /\ users[a.who] # Unknown
      <3>1. PICK a : a = About(q, "change", u, r)
        OBVIOUS
      <3>2. asking' = [asking EXCEPT ![q] = a] /\ u \in Members(asking[q].team)
        BY <2>4, <3>1 DEF UpdateMemberRole, Writes
      <3>3. a.team = asking[q].team /\ a.who = u
        BY <3>1 DEF About
      <3>4. teams[asking[q].team] = "open" /\ users[u] # Unknown
        BY <1>3, <3>2 DEF Members, TeamsTyped, TeamsTypeOK
      <3>5. QED
        BY <3>2, <3>3, <3>4
    <2>5. QED
      BY <2>1, <2>2, <2>3, <2>4
  <1>5. PICK a : /\ asking' = [asking EXCEPT ![q] = a]
                 /\ a.pc = "change" => teams[a.team] = "open" /\ users[a.who] # Unknown
    BY <1>4
  <1>6. \A p \in TeamRequest : asking'[p] = asking[p] \/ asking'[p] = a
    BY <1>1, <1>5 DEF TeamsShape
  <1>7. QED
    BY <1>1, <1>2, <1>5, <1>6, RowsStand

LEMMA FoundsTyped ==
  ASSUME TeamsTyped, TeamsShape', NEW t \in Team, NEW u \in Member, Founds(t, u), invites' = invites,
         \A q \in TeamRequest : asking'[q] = asking[q] \/ asking'[q].pc # "change"
  PROVE  TeamsTyped'
  <1>1. TeamsShape
    BY DEF TeamsTyped
  <1>2. /\ \A p \in Member : IF p = u THEN users'[p].home = t ELSE users'[p] = users[p]
        /\ \A s \in Team : teams'[s] = IF s = t THEN "open" ELSE teams[s]
        /\ \A s \in Team, p \in Member :
              seats'[s][p] = IF s = t /\ p = u THEN "owner" ELSE seats[s][p]
    BY <1>1, FoundsShape
  <1>3. users'[u] # Unknown
    BY <1>2, HomeIsKnown
  <1>4. QED
    BY <1>2, <1>3, RowsStand

LEMMA SyncTyped ==
  ASSUME TeamsTyped, NEW q \in TeamRequest, NEW u \in Member,
         SyncNewUser(q, u) \/ SyncUser(q, u) \/ SyncUserHeals(q, u)
  PROVE  TeamsTyped'
  <1>1. TeamsShape /\ TeamsShape'
    BY ShapeStep DEF TeamsTyped, TeamsNext
  <1>2. ASSUME NEW a, Asked(a), a.pc = "act", asking' = [asking EXCEPT ![q] = a]
        PROVE  \A p \in TeamRequest : asking'[p] = asking[p] \/ asking'[p].pc # "change"
    <2>1. \A p \in TeamRequest : asking'[p] = IF p = q THEN a ELSE asking[p]
      BY <1>1, <1>2, RequestMoves
    <2>2. QED
      BY <1>2, <2>1
  <1>3. CASE SyncNewUser(q, u)
    <2>1. PICK t, a : /\ t \in Team /\ Founds(t, u) /\ Asked(a) /\ a.pc = "act"
                      /\ asking' = [asking EXCEPT ![q] = a]
      BY <1>1, <1>3, SyncNewEffect
    <2>2. invites' = invites
      BY <1>3 DEF SyncNewUser
    <2>3. QED
      BY <1>1, <1>2, <2>1, <2>2, FoundsTyped
  <1>4. CASE SyncUser(q, u)
    <2>1. /\ UNCHANGED <<users, teams, seats, invites>>
          /\ \E a : Asked(a) /\ a.pc = "act" /\ asking' = [asking EXCEPT ![q] = a]
      BY <1>1, <1>4, SyncEffect
    <2>2. \A p \in TeamRequest : asking'[p] = asking[p] \/ asking'[p].pc # "change"
      BY <1>2, <2>1
    <2>3. QED
      BY <1>1, <2>1, <2>2, RowsStand
  <1>5. CASE SyncUserHeals(q, u)
    <2>1. PICK t, r : t = users[u].home /\ r = users[u].role
      OBVIOUS
    <2>2. /\ users[u] # Unknown /\ seats' = Seated(t, u, r) /\ Acts(q, u, t, r)
          /\ UNCHANGED <<users, teams, invites>>
      BY <1>5, <2>1 DEF SyncUserHeals
    <2>3. t \in Team /\ r \in MaybeSeat
      BY <1>1, <2>1, <2>2 DEF TeamsShape, UserRow
    <2>4. \A s \in Team, p \in Member : seats'[s][p] = IF s = t /\ p = u THEN r ELSE seats[s][p]
      BY <1>1, <2>2, <2>3, SeatedAs
    <2>5. teams[t] = "open"
      BY <2>1, <2>2 DEF TeamsTyped, TeamsTypeOK
    <2>6. \E a : Asked(a) /\ a.pc = "act" /\ asking' = [asking EXCEPT ![q] = a]
      BY <1>1, <2>2, <2>3, Begins
    <2>7. \A p \in TeamRequest : asking'[p] = asking[p] \/ asking'[p].pc # "change"
      BY <1>2, <2>6
    <2>8. QED
      BY <1>1, <2>2, <2>4, <2>5, <2>7, RowsStand
  <1>6. QED
    BY <1>3, <1>4, <1>5

\* A user moves to a workspace that is open and takes a seat there.
LEMMA MovesTyped ==
  ASSUME TeamsTyped, NEW q \in TeamRequest,
         \/ \E i \in invites : AcceptInvitation(q, i)
         \/ \E t \in Team : SwitchWorkspace(q, t)
  PROVE  TeamsTyped'
  <1>1. TeamsShape /\ TeamsShape'
    BY ShapeStep DEF TeamsTyped, TeamsNext
  <1> SUFFICES ASSUME NEW t, NEW u, t \in Team, u \in Member, teams[t] = "open",
                      \A s \in Team, p \in Member :
                         seats'[s][p] = seats[s][p] \/ (s = t /\ p = u),
                      \A p \in Member : IF p = u THEN users'[p].home = t ELSE users'[p] = users[p],
                      teams' = teams,
                      \A i \in invites' : \E j \in invites : i.team = j.team /\ i.by = j.by,
                      asking' = [asking EXCEPT ![q] = Quiet]
               PROVE  TeamsTyped'
    <2>1. ASSUME NEW i \in invites, AcceptInvitation(q, i)
          PROVE  \E t, u :
                    /\ t \in Team /\ u \in Member /\ teams[t] = "open"
                    /\ \A s \in Team, p \in Member :
                         seats'[s][p] = seats[s][p] \/ (s = t /\ p = u)
                    /\ \A p \in Member : IF p = u THEN users'[p].home = t ELSE users'[p] = users[p]
                    /\ teams' = teams
                    /\ \A k \in invites' : \E j \in invites : k.team = j.team /\ k.by = j.by
                    /\ asking' = [asking EXCEPT ![q] = Quiet]
      <3>1. PICK t, u : t = i.team /\ u = asking[q].by
        OBVIOUS
      <3>2. /\ Asked(asking[q]) /\ InviteRow(i)
            /\ \A s \in Team, p \in Member :
                  seats'[s][p] = IF s = t /\ p = u THEN i.role ELSE seats[s][p]
            /\ \A p \in Member : IF p = u THEN users'[p].home = t ELSE users'[p] = users[p]
            /\ teams' = teams
            /\ asking' = [asking EXCEPT ![q] = Quiet]
        BY <1>1, <2>1, <3>1, AcceptEffect
      <3>3. t \in Team /\ u \in Member /\ teams[t] = "open"
        BY <3>1, <3>2 DEF Asked, InviteRow, TeamsTyped, TeamsTypeOK
      <3>4. \A k \in invites' : \E j \in invites : k.team = j.team /\ k.by = j.by
        BY <2>1, MovedKeeps DEF AcceptInvitation
      <3>5. QED
        BY <3>2, <3>3, <3>4
    <2>2. ASSUME NEW t \in Team, SwitchWorkspace(q, t)
          PROVE  \E u :
                    /\ u \in Member /\ teams[t] = "open"
                    /\ \A s \in Team, p \in Member :
                         seats'[s][p] = seats[s][p] \/ (s = t /\ p = u)
                    /\ \A p \in Member : IF p = u THEN users'[p].home = t ELSE users'[p] = users[p]
                    /\ teams' = teams
                    /\ \A k \in invites' : \E j \in invites : k.team = j.team /\ k.by = j.by
                    /\ asking' = [asking EXCEPT ![q] = Quiet]
      <3>1. PICK u : u = asking[q].by
        OBVIOUS
      <3>2. /\ Asked(asking[q])
            /\ \A s \in Team, p \in Member :
                  seats'[s][p] = IF s = t /\ p = u THEN RoleIn(t, u) ELSE seats[s][p]
            /\ \A p \in Member : IF p = u THEN users'[p].home = t ELSE users'[p] = users[p]
            /\ UNCHANGED <<teams, invites>>
            /\ asking' = [asking EXCEPT ![q] = Quiet]
        BY <1>1, <2>2, <3>1, SwitchEffect
      <3>3. u \in Member /\ teams[t] = "open"
        BY <2>2, <3>1, <3>2 DEF Asked, SwitchWorkspace
      <3>4. QED
        BY <3>2, <3>3
    <2>3. QED
      BY <2>1, <2>2
  <1>2. users'[u] # Unknown
    BY HomeIsKnown
  <1>3. \A p \in TeamRequest : asking'[p] = asking[p] \/ asking'[p].pc # "change"
    BY <1>1, RequestMoves DEF Quiet
  <1>4. QED
    BY <1>1, <1>2, <1>3, RowsStand

LEMMA RemovalTyped ==
  ASSUME TeamsTyped, NEW q \in TeamRequest, WriteRemoval(q)
  PROVE  TeamsTyped'
  <1>1. TeamsShape /\ TeamsShape'
    BY ShapeStep DEF TeamsTyped, TeamsNext
  <1>2. /\ \A s \in Team, p \in Member : seats'[s][p] = NoSeat \/ seats'[s][p] = seats[s][p]
        /\ UNCHANGED <<users, teams, invites>>
        /\ \A p \in TeamRequest : asking'[p] = Quiet \/ asking'[p] = asking[p]
    BY <1>1, RemovalEffect
  <1>3. Quiet.pc = "quiet"
    BY DEF Quiet
  <1>4. QED
    BY <1>1, <1>2, <1>3, RowsStand

LEMMA RoleTyped ==
  ASSUME TeamsTyped, NEW q \in TeamRequest, WriteRole(q)
  PROVE  TeamsTyped'
  <1>1. TeamsShape /\ TeamsShape'
    BY ShapeStep DEF TeamsTyped, TeamsNext
  <1>2. PICK t, u : t = asking[q].team /\ u = asking[q].who
    OBVIOUS
  <1>3. /\ asking[q].pc = "change"
        /\ \A s \in Team, p \in Member : seats'[s][p] = seats[s][p] \/ (s = t /\ p = u)
        /\ UNCHANGED <<users, teams, invites>>
        /\ asking' = [asking EXCEPT ![q] = Quiet]
    BY <1>1, <1>2, RoleEffect
  <1>4. teams[t] = "open" /\ users[u] # Unknown
    BY <1>2, <1>3 DEF TeamsTyped, Stands
  <1>5. \A p \in TeamRequest : asking'[p] = asking[p] \/ asking'[p].pc # "change"
    BY <1>1, <1>3, RequestMoves DEF Quiet
  <1>6. QED
    BY <1>1, <1>3, <1>4, <1>5, RowsStand

\* What is left when a workspace is deleted refers neither to it nor to the
\* users that were active in it.
LEMMA DeletionTyped ==
  ASSUME TeamsTyped, NEW q \in TeamRequest, DeleteWorkspace(q)
  PROVE  TeamsTyped'
  <1>1. TeamsShape /\ TeamsShape'
    BY ShapeStep DEF TeamsTyped, TeamsNext
  <1>2. PICK t, u, away : t = asking[q].team /\ u = asking[q].by /\ away = Leaving(t)
    OBVIOUS
  <1>3. /\ Asked(asking[q])
        /\ \A s \in Team, p \in Member :
              seats'[s][p] = IF s = t \/ p \in away THEN NoSeat ELSE seats[s][p]
        /\ \A s \in Team : teams'[s] = IF s = t THEN "deleted" ELSE teams[s]
        /\ \A p \in Member :
              \/ users'[p] = Unknown
              \/ p \notin away /\ users'[p] = users[p]
              \/ p \notin away /\ UserRow(users'[p]) /\ users'[p].home \in Team \ {t}
                               /\ seats[users'[p].home][p] # NoSeat
    BY <1>1, <1>2, DeletionEffect
  <1>4. \A p \in Member : p \in away <=> users[p].home = t
    BY <1>2 DEF Leaving
  <1>5. \A p \in Member : p \notin away /\ users[p] # Unknown => users'[p] # Unknown
    <2>1. CASE users' = [p \in Member |-> IF p \in away THEN Unknown ELSE users[p]]
      BY <2>1
    <2>2. ASSUME NEW s \in Team, NEW r, r = [home |-> s, role |-> seats[s][u]],
                 users' = [p \in Member |-> IF p \in away THEN Unknown
                                            ELSE IF p = u THEN r ELSE users[p]]
          PROVE  \A p \in Member : p \notin away /\ users[p] # Unknown => users'[p] # Unknown
      <3>1. r # Unknown
        BY <2>2, HomeIsKnown
      <3>2. QED
        BY <2>2, <3>1
    <2>3. QED
      BY <1>2, <2>1, <2>2 DEF DeleteWorkspace
  <1>6. \A p \in Member : users'[p] = Unknown \/ teams'[users'[p].home] = "open"
    <2> SUFFICES ASSUME NEW p \in Member, users'[p] # Unknown
                 PROVE  teams'[users'[p].home] = "open"
      OBVIOUS
    <2>1. CASE p \notin away /\ users'[p] = users[p]
      <3>1. users[p].home \in Team /\ users[p].home # t /\ teams[users[p].home] = "open"
        BY <1>4, <2>1 DEF TeamsTyped, TeamsTypeOK, TeamsShape, UserRow
      <3>2. QED
        BY <1>3, <2>1, <3>1
    <2>2. CASE users'[p].home \in Team \ {t} /\ seats[users'[p].home][p] # NoSeat
      BY <1>3, <2>2 DEF TeamsTyped, TeamsTypeOK
    <2>3. QED
      BY <1>3, <2>1, <2>2
  <1>7. \A s \in Team, p \in Member :
           seats'[s][p] # NoSeat => teams'[s] = "open" /\ users'[p] # Unknown
    BY <1>3, <1>5 DEF TeamsTyped, TeamsTypeOK
  <1>8. invites' = {i \in invites : i.team # t /\ i.by \notin away}
    BY <1>2 DEF DeleteWorkspace
  <1>9. \A i \in invites' :
           i.by \in Member /\ teams'[i.team] = "open" /\ users'[i.by] # Unknown
    BY <1>3, <1>5, <1>8 DEF TeamsTyped, TeamsTypeOK, TeamsShape, InviteRow
  <1>10. ASSUME NEW p \in TeamRequest, asking'[p].pc = "change"
         PROVE  teams'[asking'[p].team] = "open" /\ users'[asking'[p].who] # Unknown
    <2>1. PICK gone : gone = {seat \in Team \X Member : seat[1] = t \/ seat[2] \in away}
      OBVIOUS
    <2>2. PICK next : next = Without(gone)
      OBVIOUS
    <2>3. asking' = [next EXCEPT ![q] = Quiet]
      BY <1>2, <2>1, <2>2 DEF DeleteWorkspace
    <2>4. asking'[p] = next[p] /\ next[p] # Quiet
      BY <1>10, <2>2, <2>3 DEF Quiet, Without
    <2>5. /\ asking'[p] = asking[p] /\ asking[p].pc = "change"
          /\ SeatOf(p) \notin gone
      BY <1>10, <2>2, <2>4 DEF Without
    <2>6. Asked(asking[p])
      BY <1>1, <2>5 DEF TeamsShape, Quiet
    <2>7. asking[p].team \in Team /\ asking[p].who \in Member
      BY <2>6 DEF Asked
    <2>8. asking[p].team # t /\ asking[p].who \notin away
      BY <2>1, <2>5, <2>7 DEF SeatOf
    <2>9. teams[asking[p].team] = "open" /\ users[asking[p].who] # Unknown
      BY <2>5 DEF TeamsTyped, Stands
    <2>10. QED
      BY <1>3, <1>5, <2>5, <2>7, <2>8, <2>9
  <1>11. TeamsTypeOK'
    BY <1>6, <1>7, <1>9 DEF TeamsTypeOK
  <1>12. QED
    BY <1>1, <1>9, <1>10, <1>11 DEF TeamsTyped, Stands

LEMMA MigrationTyped ==
  ASSUME TeamsTyped, MigrateMembers
  PROVE  TeamsTyped'
  <1>1. TeamsShape /\ TeamsShape'
    BY ShapeStep DEF TeamsTyped, TeamsNext
  <1>2. /\ \A t \in Team, u \in Member :
              ~(users[u].home = t /\ seats[t][u] = NoSeat) => seats'[t][u] = seats[t][u]
        /\ UNCHANGED <<users, teams, invites>>
        /\ \A p \in TeamRequest : asking'[p] = Quiet
    BY <1>1, MigrationEffect
  <1>3. \A t \in Team, u \in Member :
           users[u].home = t => teams[t] = "open" /\ users[u] # Unknown
    BY HomeIsKnown DEF TeamsTyped, TeamsTypeOK
  <1>4. \A t \in Team, u \in Member :
           seats'[t][u] = seats[t][u] \/ (teams'[t] = "open" /\ users'[u] # Unknown)
    BY <1>2, <1>3
  <1>5. Quiet.pc = "quiet"
    BY DEF Quiet
  <1>6. QED
    BY <1>1, <1>2, <1>4, <1>5, RowsStand

LEMMA TeamsTypedStep ==
  ASSUME TeamsTyped, TeamsNext \/ UNCHANGED teamVars
  PROVE  TeamsTyped'
  <1>1. ASSUME NEW q \in TeamRequest, WriteWorkspace(q)
        PROVE  TeamsTyped'
    <2>1. TeamsShape /\ TeamsShape'
      BY ShapeStep DEF TeamsTyped
    <2>2. PICK t \in Team : Founds(t, asking[q].by)
      BY <1>1, <2>1, WorkspaceEffect
    <2>3. asking[q].by \in Member /\ invites' = invites /\ asking' = [asking EXCEPT ![q] = Quiet]
      BY <1>1, <2>1, WorkspaceEffect DEF Asked
    <2>4. \A p \in TeamRequest : asking'[p] = asking[p] \/ asking'[p].pc # "change"
      BY <2>1, <2>3, RequestMoves DEF Quiet
    <2>5. QED
      BY <2>1, <2>2, <2>3, <2>4, FoundsTyped
  <1>2. CASE UNCHANGED teamVars
    BY <1>2 DEF teamVars, TeamsTyped, TeamsShape, TeamsTypeOK, Stands
  <1>3. QED
    BY <1>1, <1>2, QuietTyped, WritesTyped, SyncTyped, MovesTyped, RemovalTyped, RoleTyped,
       DeletionTyped, MigrationTyped
    DEF TeamsNext

-----------------------------------------------------------------------------
(* The channels of a tenant *)

\* A tenant has one row of a platform, whichever bot it is for.
OneRow ==
    \A t \in Tenant : \A r, s \in rows[t] : r.platform = s.platform => r = s

RegistryTyped == WebhookInv /\ OneRow

LEMMA RegistryTypedStart == RegistryInit => RegistryTyped
  BY WebhookStart DEF RegistryInit, RegistryTyped, OneRow

LEMMA RegistryTypedStep ==
  ASSUME RegistryTyped, [RegistryNext]_registryVars
  PROVE  RegistryTyped'
  <1>1. WebhookInv /\ WebhookInv'
    BY WebhookStep DEF RegistryTyped
  <1>2. \/ rows' = rows
        \/ \E t, gone : t \in Tenant /\ rows' = [rows EXCEPT ![t] = @ \ gone]
        \/ \E t, c : t \in Tenant /\ rows' = [rows EXCEPT ![t] = Upserted(t, c)]
    <2>1. ASSUME NEW q \in ChannelRequest, WriteRow(q)
          PROVE  rows' = rows \/ \E t, c : rows' = [rows EXCEPT ![t] = Upserted(t, c)]
      BY <2>1 DEF WriteRow
    <2>2. ASSUME NEW t \in Tenant, HandleDisconnectTelegram(t)
          PROVE  \E gone : rows' = [rows EXCEPT ![t] = @ \ gone]
      BY <2>2 DEF HandleDisconnectTelegram
    <2>3. ASSUME NEW t, NEW c, rows' = [rows EXCEPT ![t] = Upserted(t, c)], t \notin Tenant
          PROVE  rows' = rows
      BY <1>1, <2>3 DEF WebhookInv
    <2>4. QED
      BY <2>1, <2>2, <2>3
      DEF RegistryNext, registryVars, CreateChannel, ConfigureTelegramWebhook, GetWebhookInfo,
          DeleteWebhook, SetWebhook, RequestCrashes
  <1>3. ASSUME NEW t \in Tenant, NEW gone, rows' = [rows EXCEPT ![t] = @ \ gone]
        PROVE  OneRow'
    <2>1. \A s \in Tenant : rows'[s] \subseteq rows[s]
      BY <1>1, <1>3 DEF WebhookInv
    <2>2. QED
      BY <2>1 DEF RegistryTyped, OneRow
  <1>4. ASSUME NEW t \in Tenant, NEW c, rows' = [rows EXCEPT ![t] = Upserted(t, c)]
        PROVE  OneRow'
    <2>1. \A s \in Tenant : rows'[s] = IF s = t THEN Upserted(t, c) ELSE rows[s]
      BY <1>1, <1>4 DEF WebhookInv
    <2>2. \A r \in Upserted(t, c) : r = c \/ (r \in rows[t] /\ r.platform # c.platform)
      BY DEF Upserted, OfPlatform
    <2>3. QED
      BY <2>1, <2>2 DEF RegistryTyped, OneRow
  <1>5. CASE rows' = rows
    BY <1>1, <1>5 DEF RegistryTyped, OneRow
  <1>6. QED
    BY <1>1, <1>2, <1>3, <1>4, <1>5 DEF RegistryTyped

LEMMA RegistryIsTyped == RegistryTyped => RegistryTypeOK
  <1> SUFFICES ASSUME RegistryTyped
               PROVE  RegistryTypeOK
    OBVIOUS
  <1>1. /\ \A t \in Tenant : rows[t] \subseteq Channels
        /\ webhook \in [Bot -> Tenant \cup {Nobody}]
    BY DEF RegistryTyped, WebhookInv
  <1>2. ASSUME NEW t \in Tenant, NEW p
        PROVE  Cardinality(OfPlatform(t, p)) <= 1
    <2>1. \A r, s \in OfPlatform(t, p) : r = s
      BY DEF RegistryTyped, OneRow, OfPlatform
    <2>2. CASE OfPlatform(t, p) = {}
      BY <2>2, FS_EmptySet
    <2>3. ASSUME NEW r \in OfPlatform(t, p)
          PROVE  Cardinality(OfPlatform(t, p)) = 1
      <3>1. OfPlatform(t, p) = {r}
        BY <2>1
      <3>2. QED
        BY <3>1, FS_Singleton
    <2>4. QED
      BY <2>2, <2>3
  <1>3. QED
    BY <1>1, <1>2 DEF RegistryTypeOK

-----------------------------------------------------------------------------
(* The types of the sessions, whatever went wrong *)

\* A device is that of an account.
SessionsTypedInv ==
    /\ DevicesShape /\ SessionsShape
    /\ \A d \in Paired : devices[d].account \in Account

LEMMA SessionsTypedStart == SessionsInit => SessionsTypedInv
  <1> SUFFICES ASSUME SessionsInit PROVE SessionsTypedInv
    OBVIOUS
  <1>1. Paired = {}
    BY DEF SessionsInit, Paired
  <1>2. DevicesShape
    BY SessionsStart DEF SessionsInv
  <1>3. SessionsShape
    BY NoSessionIsNone, NothingIsNothing
    DEF SessionsInit, SessionsShape, Clients, Holds, Tidied
  <1>4. QED
    BY <1>1, <1>2, <1>3 DEF SessionsTypedInv

LEMMA AccountsStay ==
  ASSUME SessionsTypedInv, [SessionsNext]_sessionVars
  PROVE  \A d \in Paired' : devices'[d].account \in Account
  <1>1. DevicesKept
    BY DevicesStep DEF SessionsTypedInv
  <1>2. CASE Paired' = Paired
    BY <1>1, <1>2 DEF SessionsTypedInv, DevicesKept
  <1>3. ASSUME NEW s \in Slot, NEW a \in Account, Scan(s, a)
        PROVE  \A d \in Paired' : devices'[d].account \in Account
    <2>1. PICK n : n = Cardinality(Paired) + 1
      OBVIOUS
    <2>2. PICK row : row = [account |-> a, by |-> sessions[s].workspace, stored |-> TRUE, linked |-> TRUE]
      OBVIOUS
    <2>3. Paired' = Paired \cup {n} /\ devices'[n] = row
      BY <1>3, <2>1, <2>2, ScanDevices DEF SessionsTypedInv
    <2>4. row.account = a
      BY <2>2
    <2>5. QED
      BY <1>1, <2>3, <2>4 DEF SessionsTypedInv, DevicesKept
  <1>4. ASSUME NEW w \in Workspace, Disconnect(w)
        PROVE  Paired' = Paired
    BY <1>4 DEF Disconnect, Logout, Paired
  <1>5. ASSUME NEW w \in Workspace,
               GetQR(w) \/ HandleDisconnectChannel(w) \/ LookUpDevice(w) \/ OpenSession(w)
        PROVE  Paired' = Paired
    BY <1>5 DEF GetQR, HandleDisconnectChannel, LookUpDevice, OpenSession, Paired
  <1>6. ASSUME NEW w \in Workspace, NEW a \in Account,
               CreateWhatsAppChannel(w, a) \/ HandleWhatsAppOAuthCallback(w, a)
        PROVE  Paired' = Paired
    BY <1>6 DEF CreateWhatsAppChannel, HandleWhatsAppOAuthCallback, ConnectCloudApi, Paired
  <1>7. ASSUME NEW s \in Slot,
               CodesRunOut(s) \/ PairSuccess(s) \/ ConnectionLost(s) \/ Reconnect(s) \/ LoggedOut(s)
        PROVE  Paired' = Paired
    BY <1>7 DEF CodesRunOut, PairSuccess, ConnectionLost, Reconnect, LoggedOut, Paired
  <1>8. ASSUME NEW d \in Paired, Unlink(d)
        PROVE  Paired' = Paired
    BY <1>8 DEF Unlink, Paired
  <1>9. CASE RestoreSessions \/ UNCHANGED sessionVars
    <2>1. Paired' = Paired
      BY <1>9 DEF RestoreSessions, RestoreLabelled, sessionVars, Paired
    <2>2. QED
      BY <1>2, <2>1
  <1>10. QED
    BY <1>2, <1>3, <1>4, <1>5, <1>6, <1>7, <1>8, <1>9 DEF SessionsNext

\* The rows are typed and the map holds what it should.
LEMMA ShapeFrom ==
  ASSUME SessionsShape, Paired' = Paired,
         UNCHANGED <<channel, opening>>,
         mapped' \in [Workspace -> Slot \cup {Nothing}],
         Clients(sessions', Paired), Holds(mapped', sessions'), Tidied(mapped', sessions')
  PROVE  SessionsShape'
  BY DEF SessionsShape, Clients, Client, Holds, Tidied, ChannelOf

\* A session is closed, and the map may lose some of those it has.
LEMMA ClosingShape ==
  ASSUME SessionsShape, NEW s \in Slot, sessions[s] # NoSession,
         \A w \in Workspace : mapped'[w] = mapped[w] \/ mapped'[w] = Nothing,
         sessions' = Tidy(Closed(sessions, s), mapped')
  PROVE  Clients(sessions', Paired) /\ Holds(mapped', sessions') /\ Tidied(mapped', sessions')
  <1>1. PICK map : map = mapped'
    OBVIOUS
  <1>2. /\ sessions' = Tidy(Closed(sessions, s), map)
        /\ \A w \in Workspace : map[w] = mapped[w] \/ map[w] = Nothing
    BY <1>1
  <1>3. Clients(sessions', Paired) /\ Holds(map, sessions') /\ Tidied(map, sessions')
    BY <1>2, ClosingEffect
  <1>4. QED
    BY <1>1, <1>3

\* A session that has a device comes up or goes down.
LEMMA RestatedShape ==
  ASSUME SessionsShape, NEW s \in Slot, NEW state \in {"up", "down"},
         sessions[s] # NoSession, sessions[s].device \in Paired,
         sessions' = [sessions EXCEPT ![s].state = state], mapped' = mapped
  PROVE  Clients(sessions', Paired) /\ Holds(mapped', sessions') /\ Tidied(mapped', sessions')
  <1>1. PICK client : client = [sessions[s] EXCEPT !.state = state]
    OBVIOUS
  <1>2. Clients(sessions, Paired) /\ Holds(mapped, sessions) /\ Tidied(mapped, sessions)
    BY DEF SessionsShape
  <1>3. Client(sessions[s], Paired)
    BY <1>2 DEF Clients
  <1>4. /\ Client(client, Paired) /\ client # NoSession /\ client.state = state
        /\ client.workspace = sessions[s].workspace
    BY <1>1, <1>3, RestatedIsClient
  <1>5. sessions' = [sessions EXCEPT ![s] = client]
    BY <1>1
  <1>6. /\ Clients(sessions', Paired)
        /\ \A c \in Slot : sessions'[c] = IF c = s THEN client ELSE sessions[c]
    BY <1>2, <1>4, <1>5 DEF Clients
  <1>7. QED
    BY <1>2, <1>4, <1>6 DEF Holds, Tidied

LEMMA RowTaken ==
  ASSUME SessionsShape, UNCHANGED opening, Paired' = Paired, NEW w \in Workspace, NEW row,
         row = NoChannel \/ ChannelOf(row, Paired), channel' = [channel EXCEPT ![w] = row],
         mapped' \in [Workspace -> Slot \cup {Nothing}],
         Clients(sessions', Paired), Holds(mapped', sessions'), Tidied(mapped', sessions')
  PROVE  SessionsShape'
  <1>1. /\ channel' = [v \in Workspace |-> channel'[v]]
        /\ \A v \in Workspace : channel'[v] = IF v = w THEN row ELSE channel[v]
    BY DEF SessionsShape
  <1>2. \A v \in Workspace : channel'[v] = NoChannel \/ ChannelOf(channel'[v], Paired)
    BY <1>1 DEF SessionsShape
  <1>3. QED
    BY <1>1, <1>2 DEF SessionsShape

LEMMA OwnRow ==
  ASSUME NEW paired, NEW a, NEW kind, NEW device \in paired \cup {Nothing}, NEW row,
         row = ChannelRow("active", a, <<kind, a>>, device)
  PROVE  ChannelOf(row, paired)
  <1>1. row.status = "active" /\ row.account = a /\ row.key = <<kind, a>> /\ row.device = device
    BY DEF ChannelRow
  <1>2. QED
    BY <1>1 DEF ChannelOf

LEMMA PairSuccessShape ==
  ASSUME SessionsTypedInv, NEW s \in Slot, PairSuccess(s)
  PROVE  SessionsShape'
  <1>1. PICK w, e, a : w = sessions[s].workspace /\ e = sessions[s].device /\ a = devices[e].account
    OBVIOUS
  <1>2. SessionsShape /\ sessions[s].state = "pairing" /\ UNCHANGED opening /\ Paired' = Paired
    BY DEF PairSuccess, Paired, SessionsTypedInv
  <1>3. w \in Workspace /\ e \in Paired /\ sessions[s] # NoSession
    BY <1>1, <1>2, DevicesUsed
  <1>4. CASE /\ mapped' = [mapped EXCEPT ![w] = Nothing] /\ channel' = channel
             /\ sessions' = Tidy(Closed(sessions, s), mapped')
    <2>1. /\ mapped' \in [Workspace -> Slot \cup {Nothing}]
          /\ \A v \in Workspace : mapped'[v] = mapped[v] \/ mapped'[v] = Nothing
      BY <1>2, <1>4 DEF SessionsShape
    <2>2. QED
      BY <1>2, <1>3, <1>4, <2>1, ClosingShape, ShapeFrom
  <1>5. ASSUME sessions' = [sessions EXCEPT ![s].state = "up"], mapped' = mapped
        PROVE  /\ Clients(sessions', Paired) /\ Holds(mapped', sessions') /\ Tidied(mapped', sessions')
               /\ mapped' \in [Workspace -> Slot \cup {Nothing}]
    BY <1>1, <1>2, <1>3, <1>5, RestatedShape DEF SessionsShape
  <1>6. CASE /\ channel' = [channel EXCEPT ![w] = ChannelRow("active", a, <<"phone", a>>, e)]
             /\ sessions' = [sessions EXCEPT ![s].state = "up"] /\ mapped' = mapped
    <2>1. PICK row : row = ChannelRow("active", a, <<"phone", a>>, e)
      OBVIOUS
    <2>2. ChannelOf(row, Paired) /\ channel' = [channel EXCEPT ![w] = row]
      BY <1>3, <1>6, <2>1, OwnRow
    <2>3. QED
      BY <1>2, <1>3, <1>5, <1>6, <2>2, RowTaken
  <1>7. CASE sessions' = [sessions EXCEPT ![s].state = "up"] /\ UNCHANGED <<channel, mapped>>
    BY <1>2, <1>5, <1>7, ShapeFrom
  <1>8. QED
    BY <1>1, <1>4, <1>6, <1>7 DEF PairSuccess

LEMMA ScanShape ==
  ASSUME SessionsTypedInv, NEW s \in Slot, NEW a, Scan(s, a)
  PROVE  SessionsShape'
  <1>1. PICK n, w : n = Cardinality(Paired) + 1 /\ w = sessions[s].workspace
    OBVIOUS
  <1>2. PICK client : client = Session(w, "pairing", n)
    OBVIOUS
  <1>3. Paired' = Paired \cup {n}
    BY <1>1, ScanDevices DEF SessionsTypedInv
  <1>4. /\ SessionsShape /\ sessions[s].state = "waiting" /\ UNCHANGED <<channel, mapped, opening>>
        /\ sessions' = [sessions EXCEPT ![s] = client]
    BY <1>1, <1>2 DEF Scan, SessionsTypedInv
  <1>5. sessions[s] # NoSession /\ w \in Workspace /\ n \in Paired'
    BY <1>1, <1>3, <1>4, NoSessionIsNone, DevicesUsed
  <1>6. /\ Client(client, Paired') /\ client # NoSession /\ client.state = "pairing"
        /\ client.workspace = w /\ client.device = n
    BY <1>2, <1>5, PairingIsClient
  <1>7. \A c \in Slot : sessions'[c] = IF c = s THEN client ELSE sessions[c]
    BY <1>4 DEF SessionsShape, Clients
  <1>8. Clients(sessions', Paired')
    BY <1>3, <1>4, <1>6 DEF SessionsShape, Clients, Client
  <1>9. Holds(mapped', sessions') /\ Tidied(mapped', sessions')
    BY <1>1, <1>4, <1>6, <1>7 DEF SessionsShape, Holds, Tidied
  <1>10. /\ channel' = [v \in Workspace |-> channel'[v]]
         /\ \A v \in Workspace : channel'[v] = NoChannel \/ ChannelOf(channel'[v], Paired')
    BY <1>3, <1>4 DEF SessionsShape, ChannelOf
  <1>11. QED
    BY <1>3, <1>4, <1>8, <1>9, <1>10 DEF SessionsShape

LEMMA DisconnectShape ==
  ASSUME SessionsTypedInv, NEW w \in Workspace, Disconnect(w)
  PROVE  SessionsShape'
  <1>1. SessionsShape /\ Paired' = Paired /\ UNCHANGED opening
        /\ channel' = [channel EXCEPT ![w] = NoChannel] /\ mapped' = [mapped EXCEPT ![w] = Nothing]
    BY DEF Disconnect, Logout, Paired, SessionsTypedInv
  <1>2. /\ mapped' \in [Workspace -> Slot \cup {Nothing}]
        /\ \A v \in Workspace : mapped'[v] = IF v = w THEN Nothing ELSE mapped[v]
    BY <1>1 DEF SessionsShape
  <1>3. mapped[w] # Nothing => mapped[w] \in Slot /\ sessions[mapped[w]] # NoSession
                               /\ sessions[mapped[w]].workspace = w
    BY <1>1 DEF SessionsShape, Holds
  <1>4. CASE mapped[w] # Nothing /\ sessions' = Tidy(Closed(sessions, mapped[w]), mapped')
    <2>1. Clients(sessions', Paired) /\ Holds(mapped', sessions') /\ Tidied(mapped', sessions')
      <3>1. PICK s : s = mapped[w]
        OBVIOUS
      <3>2. s \in Slot /\ sessions[s] # NoSession /\ sessions' = Tidy(Closed(sessions, s), mapped')
        BY <1>3, <1>4, <3>1
      <3>3. QED
        BY <1>1, <1>2, <3>2, ClosingShape
    <2>2. QED
      BY <1>1, <1>2, <2>1, RowTaken
  <1>5. CASE sessions' = sessions /\ (mapped[w] = Nothing \/ Holding(w, "down"))
    <2>1. Clients(sessions', Paired) /\ Holds(mapped', sessions')
      BY <1>1, <1>2, <1>5 DEF SessionsShape, Holds
    <2>2. Tidied(mapped', sessions')
      <3> SUFFICES ASSUME NEW s \in Slot, sessions[s].state = "closed"
                   PROVE  mapped'[sessions[s].workspace] = s
        BY <1>5 DEF Tidied
      <3>1. mapped[sessions[s].workspace] = s
        BY <1>1 DEF SessionsShape, Tidied
      <3>2. sessions[s].workspace \in Workspace
        BY <1>1, NoSessionIsNone, DevicesUsed
      <3>3. sessions[s].workspace # w
        BY <1>5, <3>1, NothingIsNothing DEF Holding
      <3>4. QED
        BY <1>2, <3>1, <3>2, <3>3
    <2>3. QED
      BY <1>1, <1>2, <2>1, <2>2, RowTaken
  <1>6. QED
    BY <1>4, <1>5 DEF Disconnect, Holding

LEMMA GetQRShape ==
  ASSUME SessionsTypedInv, NEW w \in Workspace, GetQR(w)
  PROVE  SessionsShape'
  <1>1. SessionsShape /\ Paired' = Paired /\ UNCHANGED <<channel, opening>>
    BY DEF GetQR, Paired, SessionsTypedInv
  <1>2. CASE mapped'[w] # Nothing
    <2>1. CodeShown(w, FreeSlot) /\ FreeSlot \in Slot
      BY <1>1, <1>2, GetQREffect
    <2>2. mapped' \in [Workspace -> Slot \cup {Nothing}]
      BY <1>1, <2>1 DEF CodeShown, SessionsShape
    <2>3. QED
      BY <1>1, <2>1, <2>2, ShapeFrom DEF CodeShown
  <1>3. CASE mapped'[w] = Nothing
    <2>1. PICK m, closed : /\ m = mapped[w]
                           /\ closed = (IF m = Nothing THEN sessions ELSE Closed(sessions, m))
      OBVIOUS
    <2>2. mapped' = [mapped EXCEPT ![w] = Nothing] /\ sessions' = Tidy(closed, mapped')
      <3>1. mapped' # [mapped EXCEPT ![w] = FreeSlot] \/ FreeSlots = {}
        BY <1>1, <1>3, FreshSlot, NothingIsNothing DEF SessionsShape
      <3>2. QED
        BY <2>1, <3>1 DEF GetQR
    <2>3. /\ mapped' \in [Workspace -> Slot \cup {Nothing}]
          /\ \A v \in Workspace : mapped'[v] = IF v = w THEN Nothing ELSE mapped[v]
      BY <1>1, <2>2 DEF SessionsShape
    <2>4. Clients(sessions', Paired) /\ Holds(mapped', sessions') /\ Tidied(mapped', sessions')
      <3>1. CASE m = Nothing
        <4>1. PICK map : map = mapped'
          OBVIOUS
        <4>2. sessions' = Tidy(sessions, map) /\ Clients(sessions, Paired) /\ Holds(map, sessions)
          BY <1>1, <2>1, <2>2, <2>3, <3>1, <4>1 DEF SessionsShape, Holds
        <4>3. Clients(sessions', Paired) /\ Holds(map, sessions') /\ Tidied(map, sessions')
          BY <4>2, TidyEffect
        <4>4. QED
          BY <4>1, <4>3
      <3>2. CASE m # Nothing
        <4>1. m \in Slot /\ sessions[m] # NoSession /\ sessions' = Tidy(Closed(sessions, m), mapped')
          BY <1>1, <2>1, <2>2, <3>2 DEF SessionsShape, Holds
        <4>2. \A v \in Workspace : mapped'[v] = mapped[v] \/ mapped'[v] = Nothing
          BY <2>3
        <4>3. QED
          BY <1>1, <4>1, <4>2, ClosingShape
      <3>3. QED
        BY <3>1, <3>2
    <2>5. QED
      BY <1>1, <2>3, <2>4, ShapeFrom
  <1>4. QED
    BY <1>2, <1>3

LEMMA ReconnectShape ==
  ASSUME SessionsTypedInv, NEW s \in Slot, Reconnect(s)
  PROVE  SessionsShape'
  <1>1. PICK lost, client, open :
           /\ lost = Connected(sessions, s, sessions[s].device)
           /\ client = [lost[s] EXCEPT !.state = "up"] /\ open = [lost EXCEPT ![s] = client]
    OBVIOUS
  <1>2. /\ SessionsShape /\ Paired' = Paired /\ UNCHANGED <<channel, mapped, opening>>
        /\ sessions' = Tidy(open, mapped) /\ sessions[s].state \in {"down", "closed"}
    BY <1>1 DEF Reconnect, Paired, SessionsTypedInv
  <1>3. sessions[s] # NoSession
    BY <1>2, NoSessionIsNone
  <1>4. Clients(sessions, Paired) /\ Holds(mapped, sessions)
    BY <1>2 DEF SessionsShape
  <1>5. Client(sessions[s], Paired) /\ sessions[s].device \in Paired
    BY <1>3, <1>4 DEF Clients, Client, Reconnect
  <1>6. /\ Clients(lost, Paired) /\ lost[s] = sessions[s]
        /\ \A c \in Slot : lost[c] = NoSession <=> sessions[c] = NoSession
        /\ \A c \in Slot : sessions[c] # NoSession => lost[c].workspace = sessions[c].workspace
    BY <1>1, <1>4, ConnectedEffect
  <1>7. Client(client, Paired) /\ client # NoSession /\ client.workspace = sessions[s].workspace
    BY <1>1, <1>5, <1>6, RestatedIsClient
  <1>8. Clients(open, Paired) /\ \A c \in Slot : open[c] = IF c = s THEN client ELSE lost[c]
    BY <1>1, <1>6, <1>7 DEF Clients
  <1>9. Holds(mapped, open)
    BY <1>4, <1>6, <1>7, <1>8 DEF Holds
  <1>10. Clients(sessions', Paired) /\ Holds(mapped, sessions') /\ Tidied(mapped, sessions')
    BY <1>2, <1>8, <1>9, TidyEffect
  <1>11. QED
    BY <1>2, <1>10, ShapeFrom DEF SessionsShape

LEMMA OpenSessionShape ==
  ASSUME SessionsTypedInv, NEW w \in Workspace, OpenSession(w)
  PROVE  SessionsShape'
  <1>1. /\ SessionsShape /\ Paired' = Paired /\ UNCHANGED channel
        /\ opening[w] # Nothing /\ opening' = [opening EXCEPT ![w] = Nothing]
    BY DEF OpenSession, Paired, SessionsTypedInv
  <1>2. opening' \in [Workspace -> Paired \cup {Nothing}]
    BY <1>1 DEF SessionsShape
  <1>3. CASE UNCHANGED <<mapped, sessions>>
    BY <1>1, <1>2, <1>3 DEF SessionsShape
  <1>4. CASE ~UNCHANGED <<mapped, sessions>>
    <2>1. PICK s, d, lost, client, open, map :
             /\ s = FreeSlot /\ d = opening[w] /\ lost = Connected(sessions, s, d)
             /\ client = Session(w, "up", d) /\ open = [lost EXCEPT ![s] = client] /\ map = mapped'
      OBVIOUS
    <2>2. /\ FreeSlots # {} /\ mapped' = [mapped EXCEPT ![w] = s] /\ sessions' = Tidy(open, map)
      BY <1>4, <2>1 DEF OpenSession
    <2>3. s \in Slot /\ sessions[s] = NoSession /\ d \in Paired
      BY <1>1, <2>1, <2>2, FreshSlot, DevicesUsed
    <2>4. /\ mapped' \in [Workspace -> Slot \cup {Nothing}]
          /\ \A v \in Workspace : map[v] = IF v = w THEN s ELSE mapped[v]
      BY <1>1, <2>1, <2>2, <2>3 DEF SessionsShape
    <2>5. Clients(sessions, Paired) /\ Holds(mapped, sessions)
      BY <1>1 DEF SessionsShape
    <2>6. /\ Clients(lost, Paired)
          /\ \A c \in Slot : lost[c] = NoSession <=> sessions[c] = NoSession
          /\ \A c \in Slot : sessions[c] # NoSession => lost[c].workspace = sessions[c].workspace
      BY <2>1, <2>5, ConnectedEffect
    <2>7. Client(client, Paired) /\ client # NoSession /\ client.workspace = w
      BY <2>1, <2>3, UpIsClient
    <2>8. Clients(open, Paired) /\ \A c \in Slot : open[c] = IF c = s THEN client ELSE lost[c]
      BY <2>1, <2>3, <2>6, <2>7 DEF Clients
    <2>9. Holds(map, open)
      BY <2>3, <2>4, <2>5, <2>6, <2>7, <2>8 DEF Holds
    <2>10. Clients(sessions', Paired) /\ Holds(map, sessions') /\ Tidied(map, sessions')
      BY <2>2, <2>8, <2>9, TidyEffect
    <2>11. QED
      BY <1>1, <1>2, <2>1, <2>4, <2>10 DEF SessionsShape
  <1>5. QED
    BY <1>3, <1>4

LEMMA LoggedOutShape ==
  ASSUME SessionsTypedInv, NEW s \in Slot, LoggedOut(s)
  PROVE  SessionsShape'
  <1>1. PICK w, row : w = sessions[s].workspace /\ row = Suspended(channel[w])
    OBVIOUS
  <1>2. /\ SessionsShape /\ UNCHANGED <<mapped, opening>> /\ Paired' = Paired
        /\ sessions[s].state \in {"up", "down"}
        /\ sessions' = Tidy(Closed(sessions, s), mapped')
        /\ channel' = [channel EXCEPT ![w] = row]
    BY <1>1 DEF LoggedOut, Paired, SessionsTypedInv
  <1>3. w \in Workspace /\ sessions[s] # NoSession
    BY <1>1, <1>2, DevicesUsed
  <1>4. row = NoChannel \/ ChannelOf(row, Paired)
    BY <1>1, <1>2, <1>3, SuspendedRow DEF SessionsShape
  <1>5. Clients(sessions', Paired) /\ Holds(mapped', sessions') /\ Tidied(mapped', sessions')
    BY <1>2, <1>3, ClosingShape
  <1>6. mapped' \in [Workspace -> Slot \cup {Nothing}]
    BY <1>2 DEF SessionsShape
  <1>7. QED
    BY <1>2, <1>3, <1>4, <1>5, <1>6, RowTaken

LEMMA RowWrittenShape ==
  ASSUME SessionsTypedInv, NEW w \in Workspace, NEW a,
         (\E known \in BOOLEAN : ConnectCloudApi(w, a, known)) \/ HandleDisconnectChannel(w)
  PROVE  SessionsShape'
  <1>1. SessionsShape /\ UNCHANGED <<mapped, opening, sessions>> /\ Paired' = Paired
    BY DEF ConnectCloudApi, HandleDisconnectChannel, Paired, SessionsTypedInv
  <1>2. /\ Clients(sessions', Paired) /\ Holds(mapped', sessions') /\ Tidied(mapped', sessions')
        /\ mapped' \in [Workspace -> Slot \cup {Nothing}]
    BY <1>1 DEF SessionsShape
  <1>3. ASSUME NEW known \in BOOLEAN, ConnectCloudApi(w, a, known)
        PROVE  SessionsShape'
    <2>1. PICK kind, row : /\ kind = (IF known THEN "phone" ELSE "phone_number_id")
                           /\ row = ChannelRow("active", a, <<kind, a>>, Nothing)
      OBVIOUS
    <2>2. channel' = [channel EXCEPT ![w] = row]
      BY <1>3, <2>1 DEF ConnectCloudApi, AccountKey
    <2>3. ChannelOf(row, Paired)
      BY <2>1, OwnRow
    <2>4. QED
      BY <1>1, <1>2, <2>2, <2>3, RowTaken
  <1>4. CASE HandleDisconnectChannel(w)
    <2>1. channel' = [channel EXCEPT ![w] = NoChannel]
      BY <1>4 DEF HandleDisconnectChannel
    <2>2. QED
      BY <1>1, <1>2, <2>1, RowTaken
  <1>5. QED
    BY <1>3, <1>4

LEMMA LookUpShape ==
  ASSUME SessionsTypedInv, NEW w \in Workspace, LookUpDevice(w)
  PROVE  SessionsShape'
  <1>1. /\ SessionsShape /\ UNCHANGED <<channel, sessions, mapped>> /\ Paired' = Paired
        /\ opening' = [opening EXCEPT ![w] = channel[w].device]
        /\ channel[w].status = "active" /\ channel[w].device # Nothing
    BY DEF LookUpDevice, Paired, SessionsTypedInv
  <1>2. channel[w].device \in Paired
    BY <1>1, NoSessionIsNone DEF SessionsShape, ChannelOf
  <1>3. opening' \in [Workspace -> Paired \cup {Nothing}]
    BY <1>1, <1>2 DEF SessionsShape
  <1>4. QED
    BY <1>1, <1>3 DEF SessionsShape

\* A code runs out, a connection is lost, a device is unlinked.
LEMMA PassingShape ==
  ASSUME SessionsTypedInv,
         \/ \E s \in Slot : CodesRunOut(s) \/ ConnectionLost(s)
         \/ \E d \in Paired : Unlink(d)
         \/ UNCHANGED sessionVars
  PROVE  SessionsShape'
  <1>1. SessionsShape /\ UNCHANGED <<channel, mapped, opening>> /\ Paired' = Paired
    BY DEF CodesRunOut, ConnectionLost, Unlink, sessionVars, Paired, SessionsTypedInv
  <1>2. ASSUME NEW s \in Slot, CodesRunOut(s)
        PROVE  Clients(sessions', Paired) /\ Holds(mapped', sessions') /\ Tidied(mapped', sessions')
    <2>1. sessions[s] # NoSession /\ sessions' = Tidy(Closed(sessions, s), mapped')
      BY <1>1, <1>2, NoSessionIsNone DEF CodesRunOut
    <2>2. QED
      BY <1>1, <2>1, ClosingShape
  <1>3. ASSUME NEW s \in Slot, ConnectionLost(s)
        PROVE  Clients(sessions', Paired) /\ Holds(mapped', sessions') /\ Tidied(mapped', sessions')
    <2>1. /\ sessions[s] # NoSession /\ sessions[s].device \in Paired
          /\ sessions' = [sessions EXCEPT ![s].state = "down"]
      BY <1>1, <1>3, DevicesUsed DEF ConnectionLost
    <2>2. QED
      BY <1>1, <2>1, RestatedShape
  <1>4. ASSUME sessions' = sessions
        PROVE  Clients(sessions', Paired) /\ Holds(mapped', sessions') /\ Tidied(mapped', sessions')
    BY <1>1, <1>4 DEF SessionsShape
  <1>5. (\E s \in Slot : CodesRunOut(s) \/ ConnectionLost(s)) \/ sessions' = sessions
    BY DEF Unlink, sessionVars
  <1>6. Clients(sessions', Paired) /\ Holds(mapped', sessions') /\ Tidied(mapped', sessions')
    <2>1. CASE \E s \in Slot : CodesRunOut(s) \/ ConnectionLost(s)
      <3>1. PICK s \in Slot : CodesRunOut(s) \/ ConnectionLost(s)
        BY <2>1
      <3>2. CASE CodesRunOut(s)
        BY <1>2, <3>2
      <3>3. CASE ConnectionLost(s)
        BY <1>3, <3>3
      <3>4. QED
        BY <3>1, <3>2, <3>3
    <2>2. QED
      BY <1>4, <1>5, <2>1
  <1>7. QED
    BY <1>1, <1>6, ShapeFrom DEF SessionsShape

\* The greatest of some numbers is one of them: nothing is above it.
LEMMA MaxIsThere ==
  ASSUME NEW S, S \subseteq Nat, IsFiniteSet(S), S # {}
  PROVE  Max(S) \in S
  <1> DEFINE Above(d) == {e \in S : e > d}
             Sets == {Above(d) : d \in S}
  <1>1. Sets \subseteq FiniteSubsetsOf(S) /\ Sets # {}
    <2>1. \A d \in S : Above(d) \in SUBSET S /\ IsFiniteSet(Above(d))
      BY FS_Subset
    <2>2. QED
      BY <2>1 DEF FiniteSubsetsOf
  <1>2. PICK least \in Sets : \A T \in Sets : <<T, least>> \notin StrictSubsetOrdering(S)
    <2>1. IsWellFoundedOn(StrictSubsetOrdering(S), FiniteSubsetsOf(S))
      BY FS_StrictSubsetOrderingWellFounded
    <2> HIDE DEF Sets
    <2>2. QED
      BY <1>1, <2>1, WFMin
  <1>3. PICK d \in S : least = Above(d)
    BY <1>2
  <1>4. \A e \in S : ~(e > d)
    <2> SUFFICES ASSUME NEW e \in S, e > d PROVE FALSE
      OBVIOUS
    <2>1. /\ Above(e) \subseteq S /\ Above(d) \subseteq S
          /\ Above(e) \subseteq Above(d)
      <3>1. d \in Nat /\ e \in Nat /\ \A f \in S : f \in Nat
        OBVIOUS
      <3>2. \A f \in S : f > e => f > d
        BY <3>1
      <3>3. QED
        BY <3>2
    <2>2. e \in Above(d) /\ e \notin Above(e)
      OBVIOUS
    <2>3. Above(e) \in Sets
      OBVIOUS
    <2> HIDE DEF Above, Sets
    <2>4. <<Above(e), Above(d)>> \in StrictSubsetOrdering(S)
      BY <2>1, <2>2 DEF StrictSubsetOrdering
    <2>5. QED
      BY <1>2, <1>3, <2>3, <2>4
  <1>5. \A e \in S : d >= e
    BY <1>4
  <1>6. QED
    BY <1>5 DEF Max

LEMMA RestoreShape ==
  ASSUME SessionsTypedInv, RestoreSessions
  PROVE  SessionsShape'
  <1>0. PICK labelled \in SUBSET Workspace : RestoreLabelled(labelled)
    BY DEF RestoreSessions
  <1>1. PICK restored \in SUBSET Restorable(labelled) :
           /\ restored \subseteq Slot
           /\ sessions' = [s \in Slot |-> IF s \in restored
                              THEN Session(CHOOSE v \in DeviceOwners(s, labelled) : TRUE, "up", s)
                              ELSE NoSession]
           /\ mapped' = [w \in Workspace |->
                 LET own == {d \in restored : (CHOOSE v \in DeviceOwners(d, labelled) : TRUE) = w} IN
                 IF own = {} THEN Nothing ELSE Max(own)]
           /\ opening' = [w \in Workspace |-> Nothing] /\ UNCHANGED <<channel, devices>>
    BY <1>0 DEF RestoreLabelled
  <1>2. PICK owner : owner = [d \in restored |-> CHOOSE v \in DeviceOwners(d, labelled) : TRUE]
    OBVIOUS
  <1>3. SessionsShape /\ DevicesShape /\ Paired' = Paired
    BY <1>1 DEF SessionsTypedInv, Paired
  <1>4. \A d \in restored : d \in Paired /\ owner[d] \in Workspace
    BY <1>1, <1>2, <1>3, SomeoneOwns DEF Restorable
  <1>5. \A s \in Slot : sessions'[s] = IF s \in restored THEN Session(owner[s], "up", s) ELSE NoSession
    BY <1>1, <1>2
  <1>6. \A w \in Workspace :
           mapped'[w] = IF {d \in restored : owner[d] = w} = {} THEN Nothing
                        ELSE Max({d \in restored : owner[d] = w})
    <2> SUFFICES ASSUME NEW w \in Workspace
                 PROVE  mapped'[w] = IF {d \in restored : owner[d] = w} = {} THEN Nothing
                                     ELSE Max({d \in restored : owner[d] = w})
      OBVIOUS
    <2>1. {d \in restored : (CHOOSE v \in DeviceOwners(d, labelled) : TRUE) = w}
            = {d \in restored : owner[d] = w}
      BY <1>2
    <2>2. QED
      BY <1>1, <2>1
  <1>7. \A w \in Workspace : mapped'[w] # Nothing => mapped'[w] \in restored /\ owner[mapped'[w]] = w
    <2> SUFFICES ASSUME NEW w \in Workspace, mapped'[w] # Nothing
                 PROVE  mapped'[w] \in restored /\ owner[mapped'[w]] = w
      OBVIOUS
    <2>1. PICK own : own = {d \in restored : owner[d] = w}
      OBVIOUS
    <2>2. mapped'[w] = IF own = {} THEN Nothing ELSE Max(own)
      BY <1>6, <2>1
    <2>3. own # {} /\ mapped'[w] = Max(own)
      BY <2>2
    <2>4. own \subseteq Paired /\ Paired \subseteq Nat /\ IsFiniteSet(Paired)
      BY <1>3, <1>4, <2>1, FS_Interval DEF DevicesShape
    <2>5. own \subseteq Nat /\ IsFiniteSet(own)
      BY <2>4, FS_Subset
    <2>6. Max(own) \in own
      BY <2>3, <2>5, MaxIsThere
    <2>7. QED
      BY <2>1, <2>3, <2>6
  <1>8. \A s \in restored : s \in Slot =>
           /\ Client(sessions'[s], Paired) /\ sessions'[s] # NoSession /\ sessions'[s].state = "up"
           /\ sessions'[s].workspace = owner[s] /\ sessions'[s].device = s
    BY <1>4, <1>5, UpIsClient
  <1>9. Clients(sessions', Paired)
    <2>1. sessions' = [s \in Slot |-> sessions'[s]]
      BY <1>1
    <2>2. QED
      BY <1>5, <1>8, <2>1 DEF Clients
  <1>10. mapped' \in [Workspace -> Slot \cup {Nothing}]
    <2>1. mapped' = [w \in Workspace |-> mapped'[w]]
      BY <1>1
    <2>2. QED
      BY <1>1, <1>7, <2>1
  <1>11. Holds(mapped', sessions')
    <2> SUFFICES ASSUME NEW w \in Workspace, mapped'[w] # Nothing
                 PROVE  /\ mapped'[w] \in Slot /\ sessions'[mapped'[w]] # NoSession
                        /\ sessions'[mapped'[w]].workspace = w
      BY DEF Holds
    <2>1. mapped'[w] \in restored /\ mapped'[w] \in Slot /\ owner[mapped'[w]] = w
      BY <1>1, <1>7
    <2>2. QED
      BY <1>8, <2>1
  <1>12. Tidied(mapped', sessions')
    BY <1>5, <1>8, NoSessionIsNone DEF Tidied
  <1>13. UNCHANGED channel /\ opening' \in [Workspace -> Paired \cup {Nothing}]
    BY <1>1
  <1>14. QED
    BY <1>3, <1>9, <1>10, <1>11, <1>12, <1>13 DEF SessionsShape

LEMMA SessionsTypedStep == SessionsTypedInv /\ [SessionsNext]_sessionVars => SessionsTypedInv'
  <1> SUFFICES ASSUME SessionsTypedInv, [SessionsNext]_sessionVars
               PROVE  SessionsTypedInv'
    OBVIOUS
  <1>1. DevicesShape' /\ \A d \in Paired' : devices'[d].account \in Account
    BY DevicesStep, AccountsStay DEF SessionsTypedInv
  <1>2. ASSUME NEW w \in Workspace,
               GetQR(w) \/ Disconnect(w) \/ HandleDisconnectChannel(w) \/ LookUpDevice(w) \/ OpenSession(w)
        PROVE  SessionsShape'
    BY <1>2, GetQRShape, DisconnectShape, RowWrittenShape, LookUpShape, OpenSessionShape
  <1>3. ASSUME NEW w \in Workspace, NEW a \in Account,
               CreateWhatsAppChannel(w, a) \/ HandleWhatsAppOAuthCallback(w, a)
        PROVE  SessionsShape'
    <2>1. \E known \in BOOLEAN : ConnectCloudApi(w, a, known)
      BY <1>3 DEF CreateWhatsAppChannel, HandleWhatsAppOAuthCallback
    <2>2. QED
      BY <2>1, RowWrittenShape
  <1>4. ASSUME NEW s \in Slot, PairSuccess(s) \/ Reconnect(s) \/ LoggedOut(s)
        PROVE  SessionsShape'
    BY <1>4, PairSuccessShape, ReconnectShape, LoggedOutShape
  <1>5. ASSUME NEW s \in Slot, CodesRunOut(s) \/ ConnectionLost(s)
        PROVE  SessionsShape'
    BY <1>5, PassingShape
  <1>6. ASSUME NEW s \in Slot, NEW a \in Account, Scan(s, a)
        PROVE  SessionsShape'
    BY <1>6, ScanShape
  <1>7. ASSUME NEW d \in Paired, Unlink(d)
        PROVE  SessionsShape'
    BY <1>7, PassingShape
  <1>8. ASSUME RestoreSessions
        PROVE  SessionsShape'
    BY <1>8, RestoreShape
  <1>9. ASSUME UNCHANGED sessionVars
        PROVE  SessionsShape'
    BY <1>9, PassingShape
  <1>10. SessionsShape'
    BY <1>2, <1>3, <1>4, <1>5, <1>6, <1>7, <1>8, <1>9 DEF SessionsNext
  <1>11. QED
    BY <1>1, <1>10 DEF SessionsTypedInv

LEMMA SessionsAreTyped == SessionsTypedInv => SessionsTypeOK
  <1> SUFFICES ASSUME SessionsTypedInv PROVE SessionsTypeOK
    OBVIOUS
  <1>1. SessionsShape /\ \A d \in Paired : devices[d].account \in Account
    BY DEF SessionsTypedInv
  <1>2. \A w \in Workspace : channel[w].status \in {"none", "active", "suspended"}
    BY <1>1, NoSessionIsNone DEF SessionsShape, ChannelOf
  <1>3. \A w \in Workspace : /\ mapped[w] # Nothing =>
                                   mapped[w] \in Slot /\ sessions[mapped[w]] # NoSession
                                   /\ sessions[mapped[w]].workspace = w
                             /\ opening[w] \in Paired \cup {Nothing}
    BY <1>1 DEF SessionsShape, Holds
  <1>4. \A s \in Slot : sessions[s] = NoSession \/ Client(sessions[s], Paired)
    BY <1>1 DEF SessionsShape, Clients
  <1>5. \A s \in Slot : /\ sessions[s].state \in {"none", "waiting", "pairing", "up", "down", "closed"}
                        /\ sessions[s].state \in {"pairing", "up", "down"} => sessions[s].device \in Paired
    BY <1>4, NoSessionIsNone DEF Client
  <1>6. QED
    BY <1>1, <1>2, <1>3, <1>5 DEF SessionsTypeOK

-----------------------------------------------------------------------------
(* The parts together *)

\* The rows of every part refer to rows that exist and the requests and
\* processes at work on them hold what their next statement reads, for any
\* number of contacts, teams, channels and sessions, whatever fails, overlaps or
\* restarts.
THEOREM WorkspaceIsTyped == WorkspaceSpec => []WorkspaceTypeOK
  <1> DEFINE Typed == AudienceTyped /\ TeamsTyped /\ RegistryTyped /\ SessionsTypedInv
  <1>1. WorkspaceInit => Typed
    BY AudienceTypedStart, TeamsTypedStart, RegistryTypedStart, SessionsTypedStart DEF WorkspaceInit
  <1>2. Typed /\ [WorkspaceNext]_WorkspaceVars => Typed'
    <2> SUFFICES ASSUME Typed, [WorkspaceNext]_WorkspaceVars
                 PROVE  Typed'
      OBVIOUS
    <2>1. /\ AudienceNext \/ UNCHANGED audienceVars
          /\ TeamsNext \/ UNCHANGED teamVars
          /\ RegistryNext \/ UNCHANGED registryVars
          /\ SessionsNext \/ UNCHANGED sessionVars
      BY DEF WorkspaceNext, WorkspaceVars
    <2>2. AudienceTyped'
      BY <2>1, AudienceTypedStep
    <2>3. TeamsTyped'
      BY <2>1, TeamsTypedStep
    <2>4. RegistryTyped'
      BY <2>1, RegistryTypedStep
    <2>5. SessionsTypedInv'
      BY <2>1, SessionsTypedStep
    <2>6. QED
      BY <2>2, <2>3, <2>4, <2>5
  <1>3. Typed => WorkspaceTypeOK
    BY AudienceIsTyped, RegistryIsTyped, SessionsAreTyped DEF WorkspaceTypeOK, TeamsTyped
  <1> HIDE DEF Typed
  <1>4. QED
    BY <1>1, <1>2, <1>3, PTL DEF WorkspaceSpec
=============================================================================
