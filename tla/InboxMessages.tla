----------------------------- MODULE InboxMessages -----------------------------
(***************************************************************************)
(* The messages of one WhatsApp conversation as the inbox records them:    *)
(* replies sent from the dashboard and from the paired phone, the echoes   *)
(* and receipts the session reports for them in any order, edits and       *)
(* deletions pushed to the platform, and the unread counter.               *)
(***************************************************************************)
EXTENDS Naturals, FiniteSets, Sequences

CONSTANTS
    Agent,     \* requests of agents under way
    Body,      \* message texts
    MaxOut,    \* bound: messages sent to the contact
    MaxIn,     \* bound: messages the contact sends
    MaxEdits,  \* bound: edits and deletions
    MaxFaults  \* bound: statements and platform calls that fail

ASSUME InboxMessagesAssumption == {MaxOut, MaxIn, MaxEdits, MaxFaults} \subseteq Nat

VARIABLES
    out,      \* what was sent: by whom, what the contact sees, how old
    inbox,    \* the outbound messages, by created_at
    received, \* how many inbound messages are recorded
    unread,   \* conversations.unread_count
    readUpTo, \* how many of them the last MarkAsRead covered
    pending,  \* inbound messages recorded and not yet counted
    missed,   \* how many since that reading will never be counted
    call,     \* the requests
    edits, faults

inboundVars == <<received, unread, readUpTo, pending, missed>>
messageVars == <<out, inbox, inboundVars, call, edits, faults>>

Free == [pc |-> "free"]
Keys == {inbox[n].key : n \in DOMAIN inbox}

Message(key, body, status) ==
    [key |-> key, body |-> body, version |-> 0, deleted |-> FALSE, status |-> status]

MessagesInit ==
    /\ out = <<>> /\ inbox = <<>>
    /\ received = 0 /\ unread = 0 /\ readUpTo = 0 /\ pending = 0 /\ missed = 0
    /\ call = [a \in Agent |-> Free]
    /\ edits = 0 /\ faults = 0

Fails == faults < MaxFaults /\ faults' = faults + 1

AlreadyRecorded(key) == key \in Keys

CreateMessage(message) ==
    inbox' = IF AlreadyRecorded(message.key) THEN inbox ELSE Append(inbox, message)

-----------------------------------------------------------------------------
(* Messages to the contact *)

Sent(by, body) == Append(out, [by |-> by, body |-> body, version |-> 0, revoked |-> FALSE,
                               recent |-> TRUE])

SendReply(a, body) ==
    /\ call[a] = Free /\ Len(out) < MaxOut
    /\ out' = Sent("dashboard", body)
    /\ call' = [call EXCEPT ![a] = [pc |-> "record", sent |-> Len(out) + 1]]
    /\ UNCHANGED <<inbox, inboundVars, edits, faults>>

RecordReply(a) ==
    /\ call[a].pc = "record"
    /\ \/ /\ CreateMessage(Message(call[a].sent, out[call[a].sent].body, "sent"))
          /\ faults' = faults
       \/ Fails /\ inbox' = inbox
    /\ call' = [call EXCEPT ![a] = Free]
    /\ UNCHANGED <<out, inboundVars, edits>>

SendFromPhone(body) ==
    /\ Len(out) < MaxOut
    /\ out' = Sent("phone", body)
    /\ UNCHANGED <<inbox, inboundVars, call, edits, faults>>

\* An outbound message with this text was recorded in the last ten seconds.
RecentlyRecorded(body) ==
    \E n \in DOMAIN inbox : inbox[n].body = body /\ inbox[n].version = 0 /\ ~inbox[n].deleted
                        /\ out[inbox[n].key].recent

Echo(k) ==
    /\ k \in DOMAIN out
    /\ ~RecentlyRecorded(out[k].body)
    /\ CreateMessage(Message(k, out[k].body, "sent"))
    /\ UNCHANGED <<out, inboundVars, call, edits, faults>>

\* For the messages in the order they were sent.
TenSecondsPass(k) ==
    /\ k \in DOMAIN out /\ out[k].recent
    /\ \A earlier \in 1..(k - 1) : ~out[earlier].recent
    /\ out' = [out EXCEPT ![k].recent = FALSE]
    /\ UNCHANGED <<inbox, inboundVars, call, edits, faults>>

\* Mistaken variant, for mutation: the latest receipt wins.
MergedStatusLatest(old, new) == new

MergedStatus(old, new) == IF old = "read" THEN old ELSE new

\* A receipt for a message that is not recorded is dropped.
Receipt(n, status) ==
    /\ n \in DOMAIN inbox
    /\ inbox' = [inbox EXCEPT ![n].status = MergedStatus(@, status)]
    /\ UNCHANGED <<out, inboundVars, call, edits, faults>>

-----------------------------------------------------------------------------
(* Edits and deletions: the row first, then the platform *)

Changeable(n) == n \in DOMAIN inbox /\ ~inbox[n].deleted

EditMessage(a, n) ==
    /\ call[a] = Free /\ edits < MaxEdits /\ Changeable(n)
    /\ edits' = edits + 1
    /\ inbox' = [inbox EXCEPT ![n].version = edits + 1]
    /\ call' = [call EXCEPT ![a] = [pc |-> "edit", sent |-> inbox[n].key, version |-> edits + 1]]
    /\ UNCHANGED <<out, inboundVars, faults>>

DeleteMessage(a, n) ==
    /\ call[a] = Free /\ edits < MaxEdits /\ Changeable(n)
    /\ edits' = edits + 1
    /\ inbox' = [inbox EXCEPT ![n].deleted = TRUE]
    /\ call' = [call EXCEPT ![a] = [pc |-> "revoke", sent |-> inbox[n].key]]
    /\ UNCHANGED <<out, inboundVars, faults>>

\* A revoked message cannot be edited; what the platform answers is logged.
EditOnPlatform(a) ==
    /\ call[a].pc = "edit"
    /\ \/ /\ out' = IF out[call[a].sent].revoked THEN out
                    ELSE [out EXCEPT ![call[a].sent].version = call[a].version]
          /\ faults' = faults
       \/ Fails /\ out' = out
    /\ call' = [call EXCEPT ![a] = Free]
    /\ UNCHANGED <<inbox, inboundVars, edits>>

RevokeOnPlatform(a) ==
    /\ call[a].pc = "revoke"
    /\ \/ out' = [out EXCEPT ![call[a].sent].revoked = TRUE] /\ faults' = faults
       \/ Fails /\ out' = out
    /\ call' = [call EXCEPT ![a] = Free]
    /\ UNCHANGED <<inbox, inboundVars, edits>>

-----------------------------------------------------------------------------
(* Messages from the contact *)

Arrive ==
    /\ pending = 0 /\ received < MaxIn
    /\ received' = received + 1 /\ pending' = 1
    /\ UNCHANGED <<out, inbox, unread, readUpTo, missed, call, edits, faults>>

\* Mistaken variant, for mutation: the counter is set, not raised.
UnreadAfterOne(count) == 1

UnreadAfter(count) == count + 1

\* Its error is ignored; dying before it comes to the same.
CountUnread ==
    /\ pending = 1
    /\ pending' = 0
    /\ \/ unread' = UnreadAfter(unread) /\ UNCHANGED <<missed, faults>>
       \/ Fails /\ missed' = missed + 1 /\ unread' = unread
    /\ UNCHANGED <<out, inbox, received, readUpTo, call, edits>>

MarkAsRead ==
    /\ unread' = 0 /\ missed' = 0
    /\ readUpTo' = received
    /\ UNCHANGED <<out, inbox, received, pending, call, edits, faults>>

MessagesNext ==
    \/ \E a \in Agent : \/ \E body \in Body : SendReply(a, body)
                        \/ RecordReply(a) \/ EditOnPlatform(a) \/ RevokeOnPlatform(a)
                        \/ \E n \in DOMAIN inbox : EditMessage(a, n) \/ DeleteMessage(a, n)
    \/ \E body \in Body : SendFromPhone(body)
    \/ \E k \in DOMAIN out : Echo(k) \/ TenSecondsPass(k)
    \/ \E n \in DOMAIN inbox, status \in {"delivered", "read"} : Receipt(n, status)
    \/ Arrive \/ CountUnread \/ MarkAsRead

MessagesSpec == MessagesInit /\ [][MessagesNext]_messageVars

-----------------------------------------------------------------------------
MessagesTypeOK ==
    /\ \A n \in DOMAIN inbox : /\ inbox[n].body \in Body /\ inbox[n].version \in 0..MaxEdits
                               /\ inbox[n].status \in {"sent", "delivered", "read"}
    /\ \A n \in DOMAIN inbox : inbox[n].key \in DOMAIN out
    /\ unread \in 0..MaxIn /\ pending \in {0, 1}

\* A reply from the dashboard is in the inbox exactly once when its request
\* has ended without a failure, whether its echo comes before or after.
RepliesRecordedOnce ==
    \A k \in DOMAIN out :
        LET rows == {n \in DOMAIN inbox : inbox[n].key = k} IN
        /\ Cardinality(rows) <= 1
        /\ out[k].by = "dashboard" /\ faults = 0
           /\ (\A a \in Agent : call[a].pc = "record" => call[a].sent # k) => rows # {}

\* Receipts in any order never take back that a message was read, whatever
\* is edited or recorded meanwhile.
ReadIsFinal ==
    [][\A n \in DOMAIN inbox : inbox[n].status = "read" => inbox'[n].status = "read"]_messageVars

\* With one request at a time and no failure, the contact sees what the inbox
\* shows.
ContactSeesInbox ==
    faults = 0 /\ (\A a \in Agent : call[a].pc \notin {"edit", "revoke"}) =>
        \A n \in DOMAIN inbox : LET sent == out[inbox[n].key] IN
            sent.revoked = inbox[n].deleted /\ sent.version = inbox[n].version

\* Of the messages recorded since the conversation was last read, the badge misses
\* none but those whose own count failed.
UnreadCovers == received - readUpTo <= unread + pending + missed

\* The inbox is a faithful record: each reply is in it once, what it shows is
\* what the contact sees, and what was read stays read.
InboxIsFaithful == [](RepliesRecordedOnce /\ ContactSeesInbox) /\ ReadIsFinal
=============================================================================
