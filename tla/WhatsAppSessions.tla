---------------------------- MODULE WhatsAppSessions ----------------------------
(***************************************************************************)
(* The WhatsApp connections of the workspaces: the row of tenant_channels  *)
(* and its ownership key, the devices paired by QR code, the sessions the  *)
(* manager holds in memory, and the account's own side: unlinking, losing  *)
(* a connection, one connection per device.                                *)
(***************************************************************************)
EXTENDS Naturals, FiniteSets, FiniteSetsExt

CONSTANTS
    Workspace,
    Account,           \* phone numbers
    Slot,              \* bound: sessions held at a time, a set of numbers
    PairingLimit,      \* bound: QR codes scanned
    ChannelFaultLimit  \* bound: statements, calls and logouts that fail

\* No session is held in the slot that stands for none.
ASSUME SlotAssumption == 0 \notin Slot

VARIABLES
    channel,   \* [Workspace -> the whatsapp row of tenant_channels]
    devices,   \* the paired devices, [1..paired -> ...]
    sessions,  \* [Slot -> a client and its event handler]
    mapped,    \* m.clients, [Workspace -> Slot or Nothing]
    opening,   \* [Workspace -> the device ensureSession has looked up]
    irregular, \* a failure, a row changed past the manager, a device not logged out
    channelFaults

sessionVars == <<channel, devices, sessions, mapped, opening, irregular, channelFaults>>

Nothing == 0
NoChannel == [status |-> "none"]
NoSession == [state |-> "none"]

SessionsInit ==
    /\ channel = [w \in Workspace |-> NoChannel]
    /\ devices = <<>>
    /\ sessions = [s \in Slot |-> NoSession]
    /\ mapped = [w \in Workspace |-> Nothing]
    /\ opening = [w \in Workspace |-> Nothing]
    /\ irregular = FALSE /\ channelFaults = 0

Holding(w, state) == mapped[w] # Nothing /\ sessions[mapped[w]].state = state

FreeSlots == {s \in Slot : sessions[s] = NoSession}
FreeSlot == CHOOSE s \in FreeSlots : TRUE

Session(w, state, device) == [state |-> state, workspace |-> w, device |-> device]

Closed(clients, s) == [clients EXCEPT ![s].state = "closed"]

\* A client that is closed stays only as long as the map holds it.
Tidy(clients, map) ==
    [s \in Slot |-> IF clients[s].state = "closed" /\ (\A w \in Workspace : map[w] # s)
                    THEN NoSession ELSE clients[s]]

\* The platform keeps one connection per device and closes the one before.
Connected(clients, s, device) ==
    [c \in Slot |-> IF c # s /\ clients[c].state = "up" /\ clients[c].device = device
                    THEN [clients[c] EXCEPT !.state = "closed"] ELSE clients[c]]

\* uq_active_whatsapp_account_identity
OwnedElsewhere(w, key) ==
    \E v \in Workspace \ {w} : channel[v].status = "active" /\ channel[v].key = key

ChannelRow(status, account, key, device) ==
    [status |-> status, account |-> account, key |-> key, device |-> device]

ChannelFails == channelFaults < ChannelFaultLimit /\ channelFaults' = channelFaults + 1

Regular == UNCHANGED <<irregular, channelFaults>>

-----------------------------------------------------------------------------
(* Pairing by QR code *)

\* The code on display is kept; a client that is neither connected nor waiting
\* is closed and replaced, even if no code comes.
GetQR(w) ==
    /\ ~Holding(w, "up") /\ ~Holding(w, "waiting") /\ FreeSlots # {}
    /\ LET fresh == FreeSlot
           closed == IF mapped[w] = Nothing THEN sessions ELSE Closed(sessions, mapped[w])
           \* The channel of codes closes, or none comes in fifteen seconds.
           given == {TRUE} \cup (IF channelFaults < ChannelFaultLimit THEN {FALSE} ELSE {})
       IN  \E code \in given :
              /\ mapped' = [mapped EXCEPT ![w] = IF code THEN fresh ELSE Nothing]
              /\ sessions' = Tidy(IF code THEN [closed EXCEPT ![fresh] = Session(w, "waiting", Nothing)]
                                  ELSE closed, mapped')
              /\ channelFaults' = IF code THEN channelFaults ELSE channelFaults + 1
              /\ irregular' = (irregular \/ ~code)
    /\ UNCHANGED <<channel, devices, opening>>

CodesRunOut(s) ==
    /\ sessions[s].state = "waiting"
    /\ sessions' = Tidy(Closed(sessions, s), mapped)
    /\ UNCHANGED <<channel, devices, mapped, opening>> /\ Regular

Paired == DOMAIN devices

\* The account scans the code: the device is stored before the event is handled.
Scan(s, account) ==
    /\ sessions[s].state = "waiting" /\ Cardinality(Paired) < PairingLimit
    /\ LET device == Cardinality(Paired) + 1 IN
       /\ devices' = [d \in 1..device |-> IF d \in Paired THEN devices[d]
                                          ELSE [account |-> account, by |-> sessions[s].workspace,
                                               stored |-> TRUE, linked |-> TRUE]]
       /\ sessions' = [sessions EXCEPT ![s] = Session(sessions[s].workspace, "pairing", device)]
    /\ UNCHANGED <<channel, mapped, opening>> /\ Regular

\* A refused pairing leaves its device stored and linked; one whose row cannot
\* be written leaves the session connected.
PairSuccess(s) ==
    /\ sessions[s].state = "pairing"
    /\ LET w == sessions[s].workspace
           account == devices[sessions[s].device].account
           key == <<"phone", account>>
       IN  \/ /\ OwnedElsewhere(w, key)
              /\ mapped' = [mapped EXCEPT ![w] = Nothing]
              /\ sessions' = Tidy(Closed(sessions, s), mapped')
              /\ channel' = channel /\ Regular
           \/ /\ ~OwnedElsewhere(w, key)
              /\ channel' = [channel EXCEPT ![w] = ChannelRow("active", account, key, sessions[s].device)]
              /\ sessions' = [sessions EXCEPT ![s].state = "up"]
              /\ mapped' = mapped /\ Regular
           \/ /\ ChannelFails /\ irregular' = TRUE
              /\ sessions' = [sessions EXCEPT ![s].state = "up"]
              /\ UNCHANGED <<channel, mapped>>
    /\ UNCHANGED <<devices, opening>>

-----------------------------------------------------------------------------
(* Rows written past the manager *)

\* The key is the display phone, or the number's id at Meta without one.
AccountKey(account, phoneKnown) == <<IF phoneKnown THEN "phone" ELSE "phone_number_id", account>>

ConnectCloudApi(w, account, phoneKnown) ==
    LET key == AccountKey(account, phoneKnown) IN
    /\ ~OwnedElsewhere(w, key)
    /\ channel' = [channel EXCEPT ![w] = ChannelRow("active", account, key, Nothing)]
    /\ irregular' = (irregular \/ mapped[w] # Nothing \/ opening[w] # Nothing)
    /\ UNCHANGED <<devices, sessions, mapped, opening, channelFaults>>

\* Credentials that Meta verifies: it names the phone, or the label ends in the
\* number's id.
CreateWhatsAppChannel(w, account) == \E known \in BOOLEAN : ConnectCloudApi(w, account, known)

\* Every lookup of the phone may fail; the channel is saved all the same.
HandleWhatsAppOAuthCallback(w, account) == \E known \in BOOLEAN : ConnectCloudApi(w, account, known)

\* DELETE /channels/whatsapp: the row and nothing else.
HandleDisconnectChannel(w) ==
    /\ channel[w] # NoChannel
    /\ channel' = [channel EXCEPT ![w] = NoChannel]
    /\ irregular' = TRUE
    /\ UNCHANGED <<devices, sessions, mapped, opening, channelFaults>>

-----------------------------------------------------------------------------
(* Sessions *)

\* Mistaken variant, for mutation: closed without logging out.
LogoutNot(d) == devices

Logout(d) == [devices EXCEPT ![d] = [account |-> devices[d].account, by |-> devices[d].by,
                                     stored |-> FALSE, linked |-> FALSE]]

\* POST /channels/whatsapp/disconnect: a connected client logs out first, and a
\* logout that fails is ignored.
Disconnect(w) ==
    /\ channel[w] # NoChannel \/ mapped[w] # Nothing
    /\ channel' = [channel EXCEPT ![w] = NoChannel]
    /\ mapped' = [mapped EXCEPT ![w] = Nothing]
    /\ \/ /\ Holding(w, "up")
          /\ sessions' = Tidy(Closed(sessions, mapped[w]), mapped')
          /\ \/ /\ devices' = Logout(sessions[mapped[w]].device)
                /\ Regular
             \/ ChannelFails /\ irregular' = TRUE /\ UNCHANGED devices
       \/ /\ mapped[w] # Nothing /\ ~Holding(w, "up")
          /\ sessions' = IF Holding(w, "down") THEN sessions
                         ELSE Tidy(Closed(sessions, mapped[w]), mapped')
          /\ irregular' = TRUE
          /\ UNCHANGED <<devices, channelFaults>>
       \/ /\ mapped[w] = Nothing /\ irregular' = TRUE
          /\ UNCHANGED <<sessions, devices, channelFaults>>
    /\ UNCHANGED opening

ConnectionLost(s) ==
    /\ sessions[s].state = "up"
    /\ sessions' = [sessions EXCEPT ![s].state = "down"]
    /\ UNCHANGED <<channel, devices, mapped, opening>> /\ Regular

\* By the client itself, or by ensureSession.
Reconnect(s) ==
    /\ \/ sessions[s].state = "down"
       \/ /\ sessions[s].state = "closed" /\ sessions[s].device # Nothing
          /\ mapped[sessions[s].workspace] = s
    /\ sessions' = Tidy([Connected(sessions, s, sessions[s].device) EXCEPT ![s].state = "up"], mapped)
    /\ UNCHANGED <<channel, devices, mapped, opening>> /\ Regular

\* ensureSession reads the row and the device, then opens a client and maps it,
\* without the manager's lock.
LookUpDevice(w) ==
    /\ ~Holding(w, "up") /\ opening[w] = Nothing
    /\ channel[w].status = "active" /\ channel[w].device # Nothing
    /\ devices[channel[w].device].stored
    /\ opening' = [opening EXCEPT ![w] = channel[w].device]
    /\ UNCHANGED <<channel, devices, sessions, mapped>> /\ Regular

OpenSession(w) ==
    /\ opening[w] # Nothing
    /\ opening' = [opening EXCEPT ![w] = Nothing]
    /\ \/ /\ FreeSlots # {} /\ devices[opening[w]].linked
          /\ LET s == FreeSlot IN
             /\ mapped' = [mapped EXCEPT ![w] = s]
             /\ sessions' = Tidy([Connected(sessions, s, opening[w])
                                     EXCEPT ![s] = Session(w, "up", opening[w])], mapped')
       \/ UNCHANGED <<mapped, sessions>>
    /\ UNCHANGED <<channel, devices>> /\ Regular

Unlink(d) ==
    /\ devices[d].linked
    /\ devices' = [devices EXCEPT ![d].linked = FALSE]
    /\ UNCHANGED <<channel, sessions, mapped, opening>> /\ Regular

\* Mistaken variant, for mutation: a status the column's readers do not know.
SuspendedOtherwise(row) == IF row = NoChannel THEN row ELSE [row EXCEPT !.status = "disconnected"]

Suspended(row) == IF row = NoChannel THEN row ELSE [row EXCEPT !.status = "suspended"]

\* The session stays mapped; the row is suspended whatever connection it is of.
LoggedOut(s) ==
    /\ sessions[s].state \in {"up", "down"} /\ ~devices[sessions[s].device].linked
    /\ devices' = [devices EXCEPT ![sessions[s].device].stored = FALSE]
    /\ sessions' = Tidy(Closed(sessions, s), mapped)
    /\ channel' = [channel EXCEPT ![sessions[s].workspace] = Suspended(@)]
    /\ UNCHANGED <<mapped, opening>> /\ Regular

\* The rows that own a device by their key; if there are none, as for rows older
\* than the key, the active ones of its account whose label shows the number.
DeviceOwners(d, labelled) ==
    LET active == {w \in Workspace : channel[w].status = "active"}
        keyed == {w \in active : channel[w].key = <<"phone", devices[d].account>>}
    IN  IF keyed # {} THEN keyed
                      ELSE {w \in active \cap labelled : channel[w].account = devices[d].account}

Restorable(labelled) ==
    {d \in Paired : /\ devices[d].stored /\ devices[d].linked
                    /\ Cardinality(DeviceOwners(d, labelled)) = 1}

\* A restart opens a session for every stored device that can connect and that
\* exactly one active row owns.
RestoreLabelled(labelled) ==
    \E restored \in SUBSET Restorable(labelled) :
        LET owner(d) == CHOOSE w \in DeviceOwners(d, labelled) : TRUE IN
        /\ restored \subseteq Slot
        /\ sessions' = [s \in Slot |-> IF s \in restored THEN Session(owner(s), "up", s) ELSE NoSession]
        /\ mapped' = [w \in Workspace |-> LET own == {d \in restored : owner(d) = w} IN
                                          IF own = {} THEN Nothing ELSE Max(own)]
        /\ opening' = [w \in Workspace |-> Nothing]
        /\ UNCHANGED <<channel, devices>> /\ Regular

\* Which labels show the number: they are free text, of Meta or of the user.
RestoreSessions == \E labelled \in SUBSET Workspace : RestoreLabelled(labelled)

SessionsNext ==
    \/ \E w \in Workspace : \/ GetQR(w) \/ Disconnect(w) \/ HandleDisconnectChannel(w)
                            \/ LookUpDevice(w) \/ OpenSession(w)
                            \/ \E a \in Account : \/ CreateWhatsAppChannel(w, a)
                                                \/ HandleWhatsAppOAuthCallback(w, a)
    \/ \E s \in Slot : \/ CodesRunOut(s) \/ PairSuccess(s) \/ ConnectionLost(s)
                       \/ Reconnect(s) \/ LoggedOut(s)
                       \/ \E a \in Account : Scan(s, a)
    \/ \E d \in Paired : Unlink(d)
    \/ RestoreSessions

SessionsSpec == SessionsInit /\ [][SessionsNext]_sessionVars

-----------------------------------------------------------------------------
SessionsTypeOK ==
    /\ \A w \in Workspace : /\ channel[w].status \in {"none", "active", "suspended"}
                            /\ mapped[w] # Nothing =>
                                   mapped[w] \in Slot /\ sessions[mapped[w]] # NoSession
                                   /\ sessions[mapped[w]].workspace = w
                            /\ opening[w] \in Paired \cup {Nothing}
    /\ \A s \in Slot : sessions[s].state \in {"none", "waiting", "pairing", "up", "down", "closed"}
    /\ \A s \in Slot : sessions[s].state \in {"pairing", "up", "down"} => sessions[s].device \in Paired
    /\ \A d \in Paired : devices[d].account \in Account

PairedOnce(d) ==
    \A e \in Paired \ {d} : devices[e].account # devices[d].account /\ devices[e].by # devices[d].by

\* As long as nothing failed, no row was changed past the manager, every
\* disconnection has logged its device out and no account or workspace was paired
\* twice, a session belongs to the workspace that owns its account: through lost
\* connections, refused pairings, reconnections that race with a disconnection,
\* and restarts.
LiveSessionOwnsAccount ==
    ~irregular /\ (\A d \in Paired : PairedOnce(d)) =>
        \A s \in Slot :
            sessions[s].state = "up" /\ devices[sessions[s].device].linked =>
                /\ channel[sessions[s].workspace].status = "active"
                /\ channel[sessions[s].workspace].account = devices[sessions[s].device].account

\* What is claimed at src/apps/api-gateway/cmd/main.go:69: an active account
\* belongs to one workspace.
OneWorkspacePerAccount ==
    \A v, w \in Workspace : channel[v].status = "active" /\ channel[w].status = "active"
                            /\ channel[v].account = channel[w].account => v = w

=============================================================================
