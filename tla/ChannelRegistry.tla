---------------------------- MODULE ChannelRegistry ----------------------------
(***************************************************************************)
(* Connecting channels through the API: the quota on rows, the Telegram    *)
(* webhook that is set before the row is written, and the sync of Telegram *)
(* contacts, which takes the webhook away for as long as it polls.         *)
(***************************************************************************)
EXTENDS Naturals, FiniteSets

CONSTANTS
    Tenant,
    Bot,                \* Telegram bots
    OtherPlatform,      \* platforms without a verification of their own
    ChannelRequest,     \* requests under way
    ChannelsLimit,      \* subscriptions.channels_limit, of a plan that has one
    RegistryFaultLimit  \* bound: calls that fail and requests that crash

\* Every plan allows a channel; the server works on finitely many requests.
ASSUME ChannelRegistryAssumption ==
    ChannelsLimit \in Nat \ {0} /\ IsFiniteSet(ChannelRequest)

VARIABLES
    rows,       \* [Tenant -> rows of tenant_channels], Telegram's with its bot
    webhook,    \* [Bot -> the tenant its updates are delivered to, or Nobody]
    connecting, \* [ChannelRequest -> what it is doing]
    registryFaults

registryVars == <<rows, webhook, connecting, registryFaults>>

Nobody == "nobody"

\* The platform with a webhook is not one of the others, and no tenant is called
\* like the address that is missing.
ASSUME PlatformAssumption == "telegram" \notin OtherPlatform /\ Nobody \notin Tenant

Ready == [pc |-> "ready"]

RegistryInit ==
    /\ rows = [t \in Tenant |-> {}]
    /\ webhook = [b \in Bot |-> Nobody]
    /\ connecting = [q \in ChannelRequest |-> Ready]
    /\ registryFaults = 0

RegistryFails == registryFaults < RegistryFaultLimit /\ registryFaults' = registryFaults + 1
RegistryHolds == registryFaults' = registryFaults

Ends(q) == connecting' = [connecting EXCEPT ![q] = Ready]
Goes(q, state) == connecting' = [connecting EXCEPT ![q] = state]

OfPlatform(t, platform) == {r \in rows[t] : r.platform = platform}

Channels == [platform : {"telegram"}, bot : Bot] \cup [platform : OtherPlatform]

-----------------------------------------------------------------------------
\* Mistaken variant, for mutation: a count at the limit passes.
QuotaAllowsOneMore(t) == Cardinality(rows[t]) <= ChannelsLimit

\* Suspended rows count, and so does the row that would be replaced.
QuotaAllows(t) == Cardinality(rows[t]) < ChannelsLimit

\* A quota whose plan or rows cannot be read lets the request through.
CreateChannel(q, t, channel) ==
    /\ connecting[q] = Ready
    /\ \/ QuotaAllows(t) /\ RegistryHolds
       \/ RegistryFails
    /\ Goes(q, [pc |-> IF channel.platform = "telegram" THEN "webhook" ELSE "row",
                tenant |-> t, channel |-> channel])
    /\ UNCHANGED <<rows, webhook>>

ConfigureTelegramWebhook(q) ==
    /\ connecting[q].pc = "webhook"
    /\ \/ /\ webhook' = [webhook EXCEPT ![connecting[q].channel.bot] = connecting[q].tenant]
          /\ Goes(q, [connecting[q] EXCEPT !.pc = "row"]) /\ RegistryHolds
       \/ RegistryFails /\ Ends(q) /\ webhook' = webhook
    /\ rows' = rows

Upserted(t, channel) == (rows[t] \ OfPlatform(t, channel.platform)) \cup {channel}

\* A row that cannot be written leaves the webhook where it was moved to.
WriteRow(q) ==
    /\ connecting[q].pc = "row"
    /\ LET t == connecting[q].tenant
           channel == connecting[q].channel
       IN  \/ /\ rows' = [rows EXCEPT ![t] = Upserted(t, channel)]
              /\ RegistryHolds
           \/ RegistryFails /\ rows' = rows
    /\ Ends(q) /\ webhook' = webhook

\* The row and nothing else: the webhook stays.
HandleDisconnectTelegram(t) ==
    /\ OfPlatform(t, "telegram") # {}
    /\ rows' = [rows EXCEPT ![t] = @ \ OfPlatform(t, "telegram")]
    /\ UNCHANGED <<webhook, connecting, registryFaults>>

-----------------------------------------------------------------------------
(* HandleTelegramSyncContacts *)

\* An address that cannot be read counts as none.
GetWebhookInfo(q, t) ==
    /\ connecting[q] = Ready
    /\ \E r \in OfPlatform(t, "telegram") :
          \/ Goes(q, [pc |-> "read", bot |-> r.bot, saved |-> webhook[r.bot]]) /\ RegistryHolds
          \/ Goes(q, [pc |-> "read", bot |-> r.bot, saved |-> Nobody]) /\ RegistryFails
    /\ UNCHANGED <<rows, webhook>>

\* Mistaken variant, for mutation: restored whatever was read.
RestoresAlways(saved) == TRUE

Restores(saved) == saved # Nobody

DeleteWebhook(q) ==
    /\ connecting[q].pc = "read"
    /\ IF Restores(connecting[q].saved)
       THEN \/ /\ webhook' = [webhook EXCEPT ![connecting[q].bot] = Nobody]
               /\ Goes(q, [connecting[q] EXCEPT !.pc = "restore"]) /\ RegistryHolds
            \/ /\ RegistryFails /\ webhook' = webhook
               /\ Goes(q, [connecting[q] EXCEPT !.pc = "restore"])
       ELSE Ends(q) /\ webhook' = webhook /\ RegistryHolds
    /\ rows' = rows

\* Deferred, so after every way out of the poll but a crash.
SetWebhook(q) ==
    /\ connecting[q].pc = "restore"
    /\ \/ webhook' = [webhook EXCEPT ![connecting[q].bot] = connecting[q].saved] /\ RegistryHolds
       \/ RegistryFails /\ webhook' = webhook
    /\ Ends(q) /\ rows' = rows

RequestCrashes(q) ==
    /\ connecting[q] # Ready /\ RegistryFails /\ Ends(q)
    /\ UNCHANGED <<rows, webhook>>

RegistryNext ==
    \/ \E q \in ChannelRequest : \/ \E t \in Tenant, c \in Channels : CreateChannel(q, t, c)
                                 \/ ConfigureTelegramWebhook(q) \/ WriteRow(q)
                                 \/ \E t \in Tenant : GetWebhookInfo(q, t)
                                 \/ DeleteWebhook(q) \/ SetWebhook(q) \/ RequestCrashes(q)
    \/ \E t \in Tenant : HandleDisconnectTelegram(t)

RegistrySpec == RegistryInit /\ [][RegistryNext]_registryVars

-----------------------------------------------------------------------------
RegistryTypeOK ==
    /\ \A t \in Tenant : rows[t] \subseteq Channels
    /\ \A t \in Tenant, p \in OtherPlatform \cup {"telegram"} : Cardinality(OfPlatform(t, p)) <= 1
    /\ webhook \in [Bot -> Tenant \cup {Nobody}]

\* Requests that passed the quota check together go over the limit by at most
\* their number less one, and every call that failed lets at most one more row
\* over it, whatever connects and disconnects between.
OverByRequestsAtMost ==
    \A t \in Tenant :
        Cardinality(rows[t]) < ChannelsLimit + Cardinality(ChannelRequest) + registryFaults

\* A bot that a tenant connected keeps a webhook once no sync is under way,
\* however the syncs and the connections of several requests interleave, as
\* long as no call fails and no request crashes.
WebhookComesBack ==
    registryFaults = 0 =>
        \A t \in Tenant : \A r \in OfPlatform(t, "telegram") :
            (\A q \in ChannelRequest : connecting[q].pc \notin {"read", "restore"})
                => webhook[r.bot] # Nobody
=============================================================================
