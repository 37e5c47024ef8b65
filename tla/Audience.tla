-------------------------------- MODULE Audience --------------------------------
(***************************************************************************)
(* The contact directory of a workspace and its consent ledger: messages   *)
(* that arrive by the provider's webhook, the synchronisation of a paired  *)
(* WhatsApp account, operator requests (create, import, erase), the        *)
(* retention sweep and the migrations a restart runs. consent_events is    *)
(* append-only; contacts.status is a projection of it.                     *)
(*                                                                         *)
(* A person has one WhatsApp number, and the directory may know it under   *)
(* three routing values: the digits (Cloud API webhooks and imports), the  *)
(* digits after a plus (a paired session), or a device-scoped LID.         *)
(* A request is a process of several database statements; Proc bounds how  *)
(* many are under way.                                                     *)
(***************************************************************************)
EXTENDS Naturals, FiniteSets, Sequences

CONSTANTS
    Person, Proc,
    ContactsLimit,  \* subscriptions.contacts_limit
    MaxRows,        \* bound: contact rows ever created
    MaxWords,       \* bound: consent keywords a person sends
    MaxRequests,    \* bound: requests ever started
    MaxFaults,      \* bound: statements that fail and restarts of the gateway
    MaxSyncs        \* bound: contacts read from the paired account

ASSUME AudienceAssumption ==
    /\ IsFiniteSet(Person)
    /\ {ContactsLimit, MaxRows, MaxWords, MaxRequests, MaxFaults, MaxSyncs} \subseteq Nat

VARIABLES
    contacts, \* the directory
    ledger,   \* consent_events
    history,  \* what became of each row's campaign_deliveries
    now,      \* CURRENT_TIMESTAMP, as a count of transactions
    said,     \* the keywords each person has sent, in order
    missed,   \* keywords delivered that the ledger did not record, or records no more
    req,      \* what each request is doing
    spent     \* what has been used of each bound, and the contacts let in unmetered

audienceVars == <<contacts, ledger, history, now, said, missed, req, spent>>

RowIds == 1..MaxRows
Forms == {"digits", "plus", "lid", "redacted"}
Sources == {"inbound_keyword", "csv_import", "operator", "legacy"}
Types == {"granted", "revoked"}

NoContact == [person |-> "none"]
ContactRow(x, form, source) ==
    [person |-> x, form |-> form, source |-> source, status |-> "active",
     erased |-> FALSE, expired |-> FALSE]
Vacant == [op |-> "idle", pc |-> "idle"]

Present == {r \in RowIds : contacts[r] # NoContact}

\* The id of the row with this routing value, or 0.
GetByRoutingValue(x, form) ==
    IF \E r \in Present : contacts[r].person = x /\ contacts[r].form = form
    THEN CHOOSE r \in Present : contacts[r].person = x /\ contacts[r].form = form
    ELSE 0

Latest(r, events) ==
    CHOOSE e \in events : e.row = r /\ \A f \in events : f.row = r => f.at <= e.at
HasEvent(r, events) == \E e \in events : e.row = r

\* The unique index makes the upsert leave the row it meets as it is.
Create(x, form, source) ==
    LET r == GetByRoutingValue(x, form) IN
    IF r # 0 THEN UNCHANGED <<contacts, spent>>
    ELSE /\ spent.contacts < MaxRows
         /\ contacts' = [contacts EXCEPT ![spent.contacts + 1] = ContactRow(x, form, source)]
         /\ spent' = [spent EXCEPT !.contacts = @ + 1]

AtCapacity(new) == Cardinality(Present) + new > ContactsLimit

AudienceInit ==
    /\ contacts = [r \in RowIds |-> NoContact]
    /\ ledger = {}
    /\ history = [r \in RowIds |-> "none"]
    /\ now = 0
    /\ said = [x \in Person |-> <<>>]
    /\ missed = {}
    /\ req = [p \in Proc |-> Vacant]
    /\ spent = [contacts |-> 0, requests |-> 0, faults |-> 0, syncs |-> 0, unmetered |-> 0]

Start(p, request) ==
    /\ req[p] = Vacant
    /\ spent.requests < MaxRequests
    /\ req' = [req EXCEPT ![p] = request]
    /\ spent' = [spent EXCEPT !.requests = @ + 1]

Goto(p, pc) == req' = [req EXCEPT ![p].pc = pc]
Finish(p) == req' = [req EXCEPT ![p] = Vacant]

-----------------------------------------------------------------------------
(* What people do, and messages that arrive *)

ClassifyConsentKeyword(word) == IF word = "stop" THEN "revoked" ELSE "granted"

\* The platform posts a message again until it has seen an answer.
Webhook(p, x, i, word) ==
    /\ i <= MaxWords
    /\ \/ i = Len(said[x]) + 1 /\ said' = [said EXCEPT ![x] = Append(@, word)]
       \/ i \in DOMAIN said[x] /\ word = said[x][i] /\ said' = said
    /\ Start(p, [op |-> "inbound", pc |-> "lookup", person |-> x, source |-> "inbound_keyword",
                 type |-> ClassifyConsentKeyword(word), key |-> <<x, i>>])
    /\ UNCHANGED <<contacts, ledger, history, now, missed>>

CreateContact(p, x) ==
    /\ Start(p, [op |-> "manual", pc |-> "lookup", person |-> x, source |-> "operator"])
    /\ UNCHANGED <<contacts, ledger, history, now, said, missed>>

(* RegisterContact: is it there, does the plan allow it, insert *)

RegisterLookup(p) ==
    /\ req[p].pc = "lookup"
    /\ req[p].op \in {"inbound", "manual"}
    /\ Goto(p, IF GetByRoutingValue(req[p].person, "digits") # 0 THEN "create" ELSE "count")
    /\ UNCHANGED <<contacts, ledger, history, now, said, missed, spent>>

AfterRegister(p) == IF req[p].op = "inbound" THEN Goto(p, "find") ELSE Finish(p)

\* A webhook goes on to the keyword although the contact was refused.
RegisterQuota(p) ==
    /\ req[p].pc = "count"
    /\ IF AtCapacity(1) THEN AfterRegister(p) ELSE Goto(p, "create")
    /\ UNCHANGED <<contacts, ledger, history, now, said, missed, spent>>

RegisterInsert(p) ==
    /\ req[p].pc = "create"
    /\ Create(req[p].person, "digits", req[p].source)
    /\ AfterRegister(p)
    /\ UNCHANGED <<ledger, history, now, said, missed>>

RecordKeyword(p) ==
    /\ req[p].pc = "find"
    /\ LET r == GetByRoutingValue(req[p].person, "digits") IN
       IF r = 0 THEN Finish(p) /\ missed' = missed \cup {req[p].key}
       ELSE /\ req' = [req EXCEPT ![p] = [op |-> "inbound", pc |-> "append", row |-> r,
                            source |-> req[p].source, type |-> req[p].type, key |-> req[p].key]]
            /\ missed' = missed
    /\ UNCHANGED <<contacts, ledger, history, now, said, spent>>

-----------------------------------------------------------------------------
(* ApplyEvent: one transaction, three statements, READ COMMITTED *)

InFlight == {p \in Proc : req[p].pc \in {"project", "wait", "commit"}}

SameKey(k) == k # <<>> /\ \E e \in ledger : e.key = k

\* Mistaken variant, for mutation: the conflict is with committed rows only.
KeyPendingIgnored(k) == FALSE
KeyPending(k) == k # <<>> /\ \E q \in InFlight : req[q].event.key = k

\* A row is locked from the UPDATE that changes it to the commit.
Locked(r) == \E q \in InFlight : req[q].pc = "commit" /\ req[q].held /\ req[q].event.row = r

Keywords(ps) == {req[q].key : q \in {r \in ps : req[r].op = "inbound"}}

AfterApply(p) ==
    IF req[p].op = "import" THEN req' = [req EXCEPT ![p] = req[p].rest] ELSE Finish(p)

\* What a request is within its transaction.
Transaction(p, pc, held, event, rest) ==
    [op |-> req[p].op, key |-> req[p].key, pc |-> pc, held |-> held, event |-> event, rest |-> rest]

\* ON CONFLICT DO NOTHING waits for a transaction that holds the same key.
ApplyAppend(p) ==
    /\ req[p].pc = "append"
    /\ ~KeyPending(req[p].key)
    /\ IF SameKey(req[p].key) \/ req[p].row \notin Present
       THEN AfterApply(p) /\ now' = now
       ELSE /\ now' = now + 1
            /\ req' = [req EXCEPT ![p] = Transaction(p, "project", FALSE,
                   [row |-> req[p].row, type |-> req[p].type, source |-> req[p].source,
                    key |-> req[p].key, at |-> now + 1],
                   IF req[p].op = "import" THEN req[p].rest ELSE Vacant)]
    /\ UNCHANGED <<contacts, ledger, history, said, missed, spent>>

\* The statement sees what was committed when it began, and its own event.
ApplyProject(p) ==
    /\ req[p].pc = "project"
    /\ LET e == req[p].event
           wins == Latest(e.row, ledger \cup {e}).type = e.type IN
       req' = [req EXCEPT ![p] = Transaction(p, IF wins /\ Locked(e.row) THEN "wait" ELSE "commit",
                                             wins /\ ~Locked(e.row), e, req[p].rest)]
    /\ UNCHANGED <<contacts, ledger, history, now, said, missed, spent>>

ApplyLock(p) ==
    /\ req[p].pc = "wait"
    /\ ~Locked(req[p].event.row)
    /\ req' = [req EXCEPT ![p] = Transaction(p, "commit", TRUE, req[p].event, req[p].rest)]
    /\ UNCHANGED <<contacts, ledger, history, now, said, missed, spent>>

ApplyCommit(p) ==
    /\ req[p].pc = "commit"
    /\ LET e == req[p].event IN
       /\ ledger' = IF e.row \in Present THEN ledger \cup {e} ELSE ledger
       /\ contacts' = IF req[p].held /\ e.row \in Present
                  THEN [contacts EXCEPT ![e.row].status =
                            IF e.type = "revoked" THEN "opted_out" ELSE "active"]
                  ELSE contacts
    /\ AfterApply(p)
    /\ UNCHANGED <<history, now, said, missed, spent>>

-----------------------------------------------------------------------------
(* ImportContacts: look every row up, check the plan, then row by row *)

ImportContacts(p, people, type) ==
    /\ Start(p, [op |-> "import", pc |-> "lookup", todo |-> people, type |-> type,
                 known |-> [x \in people |-> "new"]])
    /\ UNCHANGED <<contacts, ledger, history, now, said, missed>>

ImportLookup(p) ==
    /\ req[p].op = "import" /\ req[p].pc = "lookup"
    /\ req' = [req EXCEPT ![p] = [[@ EXCEPT !.pc = "quota"] EXCEPT !.known = [x \in req[p].todo |->
           LET r == GetByRoutingValue(x, "digits") IN IF r = 0 THEN "new" ELSE contacts[r].status]]]
    /\ UNCHANGED <<contacts, ledger, history, now, said, missed, spent>>

NewRecipients(p) == Cardinality({x \in req[p].todo : req[p].known[x] = "new"})

ImportQuota(p) ==
    /\ req[p].pc = "quota"
    /\ IF AtCapacity(NewRecipients(p))
       THEN Finish(p) ELSE Goto(p, "row")
    /\ UNCHANGED <<contacts, ledger, history, now, said, missed, spent>>

AfterRow(p, x) ==
    LET rest == [req[p] EXCEPT !.todo = @ \ {x}] IN IF rest.todo = {} THEN Vacant ELSE rest

OptOutGuard(p, x) == req[p].known[x] = "opted_out" /\ req[p].type = "granted"

ImportRow(p, x) ==
    /\ req[p].pc = "row"
    /\ x \in req[p].todo
    /\ LET r == GetByRoutingValue(x, "digits") IN
       IF OptOutGuard(p, x)
       THEN req' = [req EXCEPT ![p] = AfterRow(p, x)] /\ UNCHANGED <<contacts, spent>>
       ELSE /\ Create(x, "digits", "csv_import")
            /\ req' = [req EXCEPT ![p] =
                   IF req[p].type = "none" THEN AfterRow(p, x)
                   ELSE [op |-> "import", pc |-> "append", source |-> "csv_import", key |-> <<>>,
                         type |-> req[p].type, rest |-> AfterRow(p, x),
                         row |-> IF r # 0 THEN r ELSE spent.contacts + 1]]
    /\ UNCHANGED <<ledger, history, now, said, missed>>

-----------------------------------------------------------------------------
(* Erasure, and the sweep that ends its retention *)

Anonymize(r) == [contacts EXCEPT ![r].form = "redacted", ![r].status = "opted_out", ![r].erased = TRUE]

DeleteRecipient(p, r) ==
    /\ r \in Present /\ ~Locked(r)
    /\ contacts' = Anonymize(r)
    /\ Start(p, [op |-> "erase", pc |-> "append", row |-> r, type |-> "revoked",
                 source |-> "operator", key |-> <<>>])
    /\ UNCHANGED <<ledger, history, now, said, missed>>

RetentionElapses(r) ==
    /\ r \in Present /\ contacts[r].erased /\ ~contacts[r].expired
    /\ contacts' = [contacts EXCEPT ![r].expired = TRUE]
    /\ UNCHANGED <<ledger, history, now, said, missed, req, spent>>

FindAnonymizedExpired == {r \in Present : contacts[r].erased /\ contacts[r].expired}

SweepList(p) ==
    /\ FindAnonymizedExpired # {}
    /\ Start(p, [op |-> "sweep", pc |-> "delete", ids |-> FindAnonymizedExpired])
    /\ UNCHANGED <<contacts, ledger, history, now, said, missed>>

\* DELETE cascades to whatever still refers to the row.
Cascade(r) ==
    /\ contacts' = [contacts EXCEPT ![r] = NoContact]
    /\ ledger' = {e \in ledger : e.row # r}
    /\ missed' = missed \cup {e.key : e \in {f \in ledger : f.row = r /\ f.key # <<>>}}

\* Mistaken variant, for mutation: the deliveries are left to the cascade.
UnlinkedNot(r) == [history EXCEPT ![r] = IF @ = "linked" THEN "lost" ELSE @]

Unlinked(r) == [history EXCEPT ![r] = IF @ = "linked" THEN "unlinked" ELSE @]

HardDelete(p, r) ==
    /\ req[p].pc = "delete"
    /\ r \in req[p].ids /\ ~Locked(r)
    /\ IF r \in Present THEN Cascade(r) /\ history' = Unlinked(r)
       ELSE UNCHANGED <<contacts, ledger, history, missed>>
    /\ req' = [req EXCEPT ![p] = IF req[p].ids = {r} THEN Vacant ELSE [req[p] EXCEPT !.ids = @ \ {r}]]
    /\ UNCHANGED <<now, said, spent>>

Delivered(r) ==
    /\ r \in Present /\ contacts[r].status = "active" /\ history[r] = "none"
    /\ history' = [history EXCEPT ![r] = "linked"]
    /\ UNCHANGED <<contacts, ledger, now, said, missed, req, spent>>

-----------------------------------------------------------------------------
(* The paired WhatsApp account *)

SaveContact(x, form) ==
    /\ spent.syncs < MaxSyncs
    /\ LET r == GetByRoutingValue(x, form) IN
       IF r # 0 THEN contacts' = contacts /\ spent' = [spent EXCEPT !.syncs = @ + 1]
       ELSE /\ spent.contacts < MaxRows
            /\ contacts' = [contacts EXCEPT ![spent.contacts + 1] = ContactRow(x, form, "whatsapp_sync")]
            /\ spent' = [spent EXCEPT !.syncs = @ + 1, !.contacts = @ + 1]
    /\ UNCHANGED <<ledger, history, now, said, missed, req>>

\* The LID's row takes the phone's routing value, or gives way to its row.
ResolveAndMigrateLID(x) ==
    LET lid == GetByRoutingValue(x, "lid")
        phone == GetByRoutingValue(x, "plus") IN
    /\ lid # 0 /\ ~Locked(lid)
    /\ IF phone = 0
       THEN contacts' = [contacts EXCEPT ![lid].form = "plus"] /\ UNCHANGED <<ledger, history, missed>>
       ELSE Cascade(lid) /\ history' = [history EXCEPT ![lid] = IF @ = "linked" THEN "lost" ELSE @]
    /\ UNCHANGED <<now, said, req, spent>>

\* Of whoever is heard of: with the phone behind the LID, or without.
HeardOf(x) == SaveContact(x, "plus") \/ SaveContact(x, "lid") \/ ResolveAndMigrateLID(x)

\* Every contact and group participant the paired account knows.
SyncContacts(x) == HeardOf(x)

\* Companion contacts, chats and push names of the history.
HistorySync(x) == HeardOf(x)

\* A push name or an address book entry that changes.
NameEvent(x) == HeardOf(x)

-----------------------------------------------------------------------------
(* Failures and restarts *)

Failed(unmetered) == spent' = [spent EXCEPT !.faults = @ + 1, !.unmetered = @ + unmetered]

\* A statement that writes fails: its transaction is rolled back, and the
\* request goes on.
WriteFails(p) ==
    /\ Failed(0)
    /\ \/ req[p].pc = "create" /\ AfterRegister(p) /\ missed' = missed
       \/ /\ req[p].pc = "row" /\ missed' = missed
          /\ \E x \in req[p].todo : req' = [req EXCEPT ![p] = AfterRow(p, x)]
       \/ /\ req[p].pc \in {"append", "project", "commit"}
          /\ AfterApply(p) /\ missed' = missed \cup Keywords({p})

\* A contact that cannot be looked up is taken for new by a registration, left
\* out by an import, and none of a keyword's.
LookupFails(p) ==
    /\ Failed(0)
    /\ \/ /\ req[p].pc = "lookup" /\ missed' = missed
          /\ IF req[p].op = "import"
             THEN \E x \in req[p].todo : req' = [req EXCEPT ![p] = AfterRow(p, x)]
             ELSE Goto(p, "count")
       \/ req[p].pc = "find" /\ Finish(p) /\ missed' = missed \cup {req[p].key}

\* A plan or a count that cannot be read lets a registration through, and an
\* import too, unless it holds more than the plan allows with no other contact.
QuotaFails(p) ==
    /\ missed' = missed
    /\ \/ req[p].pc = "count" /\ Goto(p, "create") /\ Failed(1)
       \/ req[p].pc = "quota" /\ Goto(p, "row") /\ Failed(NewRecipients(p))
       \/ req[p].pc = "quota" /\ NewRecipients(p) > ContactsLimit /\ Finish(p) /\ Failed(0)

StatementFails(p) ==
    /\ spent.faults < MaxFaults
    /\ WriteFails(p) \/ LookupFails(p) \/ QuotaFails(p)
    /\ UNCHANGED <<contacts, ledger, history, now, said>>

\* main's two back-fills: an event for every row that has none.
Backfill ==
    {[row |-> r, type |-> IF contacts[r].status = "opted_out" THEN "revoked" ELSE "granted",
      source |-> "legacy", key |-> <<>>, at |-> now] : r \in {s \in Present : ~HasEvent(s, ledger)}}

GatewayRestarts ==
    /\ spent.faults < MaxFaults
    /\ req' = [p \in Proc |-> Vacant]
    /\ ledger' = ledger \cup Backfill
    /\ missed' = missed \cup Keywords(Proc)
    /\ spent' = [spent EXCEPT !.faults = @ + 1]
    /\ UNCHANGED <<contacts, history, now, said>>

RequestStep(p) ==
    \/ RegisterLookup(p) \/ RegisterQuota(p) \/ RegisterInsert(p) \/ RecordKeyword(p)
    \/ ApplyAppend(p) \/ ApplyProject(p) \/ ApplyLock(p) \/ ApplyCommit(p)
    \/ ImportLookup(p) \/ ImportQuota(p) \/ \E x \in Person : ImportRow(p, x)
    \/ \E r \in RowIds : HardDelete(p, r)
    \/ StatementFails(p)

NewRequest(p) ==
    \/ \E x \in Person : \/ CreateContact(p, x)
                         \/ \E i \in 1..MaxWords, word \in {"stop", "start"} : Webhook(p, x, i, word)
    \/ \E people \in SUBSET Person \ {{}}, type \in Types \cup {"none"} : ImportContacts(p, people, type)
    \/ \E r \in RowIds : DeleteRecipient(p, r)
    \/ SweepList(p)

AudienceNext ==
    \/ \E p \in Proc : NewRequest(p) \/ RequestStep(p)
    \/ \E x \in Person : SyncContacts(x) \/ HistorySync(x) \/ NameEvent(x)
    \/ \E r \in RowIds : RetentionElapses(r) \/ Delivered(r)
    \/ GatewayRestarts

AudienceSpec == AudienceInit /\ [][AudienceNext]_audienceVars

-----------------------------------------------------------------------------
Overlapping == \E p, q \in Proc : p # q /\ Vacant \notin {req[p], req[q]}

AudienceTypeOK ==
    /\ \A r \in Present : /\ contacts[r].person \in Person /\ contacts[r].form \in Forms
                          /\ contacts[r].status \in {"active", "opted_out"}
    /\ \A e \in ledger : e.row \in RowIds /\ e.type \in Types /\ e.source \in Sources /\ e.at <= now
    /\ history \in [RowIds -> {"none", "linked", "unlinked", "lost"}]
    /\ missed \subseteq Person \X (1..MaxWords)

\* contacts.status is the projection of the latest event of the ledger, on
\* every row that has one, whatever statements fail and whenever the gateway
\* restarts; an erased row is opted out even before its event is written.
StatusFollowsLedger ==
    \A r \in Present :
        /\ contacts[r].erased => contacts[r].status = "opted_out"
        /\ HasEvent(r, ledger) /\ ~contacts[r].erased =>
               (contacts[r].status = "opted_out" <=> Latest(r, ledger).type = "revoked")

\* A redelivered STOP or START does not undo a later one: when the last
\* decision about a row is a keyword, it is the newest keyword recorded for it.
\* (A keyword whose own delivery failed is answered all the same, and one
\* whose row the sweep has taken is no longer in the ledger, though no platform
\* delivers again what is older than the retention: delivered again after a
\* newer one, either is recorded as the newer.)
LastKeywordStands ==
    \A r \in Present : HasEvent(r, ledger) =>
        LET last == Latest(r, ledger) IN
        last.source = "inbound_keyword" /\ last.key \notin missed =>
            \A e \in ledger : e.row = r /\ e.source = "inbound_keyword" => e.key[2] <= last.key[2]

\* Registrations and imports keep within the plan's contact capacity, but for
\* those whose plan or count could not be read. (The contacts of a paired
\* account are saved without a check.)
WithinCapacity ==
    Cardinality({r \in Present : contacts[r].source # "whatsapp_sync"})
        <= ContactsLimit + spent.unmetered

\* "A delayed webhook cannot resurrect a contact who later opted out": nobody
\* is active whose latest event is the keyword STOP.
NeverResurrected ==
    \A r \in Present :
        HasEvent(r, ledger) /\ Latest(r, ledger).type = "revoked"
            /\ Latest(r, ledger).source = "inbound_keyword" => contacts[r].status = "opted_out"

\* However often a message is delivered, by whatever overlapping requests, the
\* keyword in it is one event of the ledger.
KeywordRecordedOnce ==
    \A e, f \in ledger : e.key = f.key /\ e.key # <<>> => e = f

\* The sweep takes a recipient, never what was delivered to it.
HistoryKept ==
    [][\A r \in RowIds : history[r] = "linked" /\ contacts[r].erased => history'[r] # "lost"]_audienceVars

\* An import finds the row a paired account saved for the same number instead
\* of adding a second recipient.
ImportReusesRow ==
    [][\A r \in RowIds, s \in Present :
          contacts[r] = NoContact /\ contacts'[r] # NoContact /\ contacts'[r].source = "csv_import"
          => ~(contacts[s].person = contacts'[r].person /\ contacts[s].form = "plus")]_audienceVars
=============================================================================
