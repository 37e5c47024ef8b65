----------------------------- MODULE ChannelProofs -----------------------------
(***************************************************************************)
(* The channels of a workspace. Connecting: how far the requests that      *)
(* connect channels can go over the quota, and that the webhook of a bot   *)
(* comes back, for every limit and every number of requests under way.     *)
(* Sessions: a live session belongs to the workspace that holds its        *)
(* account, for any number of workspaces, accounts and sessions.           *)
(***************************************************************************)
EXTENDS ChannelRegistry, WhatsAppSessions, FiniteSetTheorems, TLAPS

-----------------------------------------------------------------------------
(* Connecting a channel *)

\* The requests that have passed the quota check of a tenant and may yet write.
Passed(t) == {q \in ChannelRequest :
                 connecting[q].pc \in {"webhook", "row"} /\ connecting[q].tenant = t}

Shaped(state) ==
    /\ state.pc \in {"webhook", "row"} =>
          state = [pc |-> state.pc, tenant |-> state.tenant, channel |-> state.channel]
    /\ state.pc = "read" => state = [pc |-> state.pc, bot |-> state.bot, saved |-> state.saved]

\* OverByRequestsAtMost is not inductive: the requests that may yet write count
\* as rows that are written, and so do the lookups that failed.
QuotaInv ==
    /\ rows = [t \in Tenant |-> rows[t]]
    /\ connecting = [q \in ChannelRequest |-> connecting[q]]
    /\ \A q \in ChannelRequest : Shaped(connecting[q])
    /\ registryFaults \in Nat
    /\ \A t \in Tenant :
          /\ IsFiniteSet(rows[t])
          /\ Cardinality(rows[t]) + Cardinality(Passed(t))
                < ChannelsLimit + Cardinality(ChannelRequest) + registryFaults

LEMMA PassedIsFinite ==
  ASSUME NEW S, S \subseteq ChannelRequest
  PROVE  IsFiniteSet(S) /\ Cardinality(S) \in Nat /\ Cardinality(S) <= Cardinality(ChannelRequest)
         /\ Cardinality(ChannelRequest) \in Nat
  BY ChannelRegistryAssumption, FS_Subset, FS_CardinalityType

LEMMA QuotaStart == RegistryInit => QuotaInv
  <1> SUFFICES ASSUME RegistryInit
               PROVE  QuotaInv
    OBVIOUS
  <1>1. /\ rows = [t \in Tenant |-> rows[t]] /\ \A t \in Tenant : rows[t] = {}
        /\ connecting = [q \in ChannelRequest |-> connecting[q]]
        /\ \A q \in ChannelRequest : connecting[q].pc = "ready"
        /\ registryFaults = 0
    BY DEF RegistryInit, Ready
  <1>2. ASSUME NEW t \in Tenant
        PROVE  Cardinality(rows[t]) + Cardinality(Passed(t))
                  < ChannelsLimit + Cardinality(ChannelRequest) + registryFaults
    <2>1. Passed(t) = {}
      BY <1>1 DEF Passed
    <2>2. Cardinality(rows[t]) = 0 /\ Cardinality(Passed(t)) = 0
      BY <1>1, <2>1, FS_EmptySet
    <2>3. Cardinality(ChannelRequest) \in Nat /\ ChannelsLimit \in Nat \ {0}
      BY ChannelRegistryAssumption, FS_CardinalityType
    <2>4. QED
      BY <1>1, <2>2, <2>3
  <1>3. QED
    BY <1>1, <1>2, FS_EmptySet DEF QuotaInv, Shaped

\* A step that gives no request the right to write, and adds no row.
LEMMA NothingGained ==
  ASSUME QuotaInv,
         rows' = [t \in Tenant |-> rows'[t]],
         connecting' = [q \in ChannelRequest |-> connecting'[q]],
         \A q \in ChannelRequest : Shaped(connecting'[q]),
         registryFaults' \in Nat, registryFaults <= registryFaults',
         \A t \in Tenant : rows'[t] \subseteq rows[t] /\ Passed(t)' \subseteq Passed(t)
  PROVE  QuotaInv'
  <1> SUFFICES ASSUME NEW t \in Tenant
               PROVE  /\ IsFiniteSet(rows'[t])
                      /\ Cardinality(rows'[t]) + Cardinality(Passed(t)')
                            < ChannelsLimit + Cardinality(ChannelRequest) + registryFaults'
    BY DEF QuotaInv, Shaped
  <1>1. IsFiniteSet(rows[t]) /\ rows'[t] \in SUBSET rows[t]
    BY DEF QuotaInv
  <1>2. /\ IsFiniteSet(rows'[t]) /\ Cardinality(rows'[t]) <= Cardinality(rows[t])
        /\ Cardinality(rows[t]) \in Nat /\ Cardinality(rows'[t]) \in Nat
    BY <1>1, FS_Subset, FS_CardinalityType
  <1>3. Passed(t) \subseteq ChannelRequest /\ Passed(t)' \in SUBSET Passed(t)
    BY DEF Passed
  <1>4. IsFiniteSet(Passed(t)) /\ Cardinality(Passed(t)) \in Nat
        /\ Cardinality(ChannelRequest) \in Nat
    BY <1>3, PassedIsFinite
  <1>5. Cardinality(Passed(t)') <= Cardinality(Passed(t)) /\ Cardinality(Passed(t)') \in Nat
    BY <1>3, <1>4, FS_Subset, FS_CardinalityType
  <1>6. Cardinality(rows[t]) + Cardinality(Passed(t)) < ChannelsLimit + Cardinality(ChannelRequest) + registryFaults
    BY DEF QuotaInv
  <1>7. ChannelsLimit \in Nat /\ registryFaults \in Nat
    BY ChannelRegistryAssumption DEF QuotaInv
  <1>8. QED
    BY <1>2, <1>4, <1>5, <1>6, <1>7

\* A request that goes on to something that is no right to write.
LEMMA GoesWithout ==
  ASSUME QuotaInv, NEW q \in ChannelRequest, NEW state,
         state.pc \notin {"webhook", "row"}, Shaped(state),
         Goes(q, state), rows' = rows,
         registryFaults' \in Nat, registryFaults <= registryFaults'
  PROVE  QuotaInv'
  <1>1. connecting' = [p \in ChannelRequest |-> connecting'[p]]
        /\ \A p \in ChannelRequest : connecting'[p] = IF p = q THEN state ELSE connecting[p]
    BY DEF Goes, QuotaInv
  <1>2. \A p \in ChannelRequest : Shaped(connecting'[p])
    BY <1>1 DEF QuotaInv
  <1>3. \A t \in Tenant : Passed(t)' \subseteq Passed(t)
    BY <1>1 DEF Passed
  <1>4. QED
    BY <1>1, <1>2, <1>3, NothingGained DEF QuotaInv

LEMMA EndsWithout ==
  ASSUME QuotaInv, NEW q \in ChannelRequest, Ends(q), rows' = rows,
         registryFaults' \in Nat, registryFaults <= registryFaults'
  PROVE  QuotaInv'
  <1>1. Ready.pc \notin {"webhook", "row"} /\ Shaped(Ready) /\ Goes(q, Ready)
    BY DEF Ready, Shaped, Ends, Goes
  <1>2. QED
    BY <1>1, GoesWithout

LEMMA CreateChannelStep ==
  ASSUME QuotaInv, NEW q \in ChannelRequest, NEW t \in Tenant, NEW c, CreateChannel(q, t, c)
  PROVE  QuotaInv'
  <1> DEFINE state == [pc |-> IF c.platform = "telegram" THEN "webhook" ELSE "row",
                       tenant |-> t, channel |-> c]
  <1>0. registryFaults \in Nat /\ registryFaults' \in Nat /\ registryFaults <= registryFaults'
    BY DEF QuotaInv, CreateChannel, RegistryFails, RegistryHolds
  <1>1. state.tenant = t /\ Shaped(state) /\ state.pc \in {"webhook", "row"}
    BY DEF Shaped
  <1>2. connecting' = [p \in ChannelRequest |-> connecting'[p]]
        /\ \A p \in ChannelRequest : connecting'[p] = IF p = q THEN state ELSE connecting[p]
    BY DEF CreateChannel, Goes, QuotaInv
  <1> HIDE DEF state
  <1>3. \A p \in ChannelRequest : Shaped(connecting'[p])
    BY <1>1, <1>2 DEF QuotaInv
  <1>4. ASSUME NEW s \in Tenant
        PROVE  Cardinality(rows'[s]) + Cardinality(Passed(s)')
                  < ChannelsLimit + Cardinality(ChannelRequest) + registryFaults'
    <2>1. rows' = rows /\ IsFiniteSet(rows[s]) /\ Cardinality(rows[s]) \in Nat
      BY FS_CardinalityType DEF CreateChannel, QuotaInv
    <2>2. CASE s = t /\ QuotaAllows(t) /\ RegistryHolds
      <3>1. Cardinality(rows[t]) < ChannelsLimit
        BY <2>2 DEF QuotaAllows
      <3>2. Passed(t)' \subseteq ChannelRequest
        BY DEF Passed
      <3>3. Cardinality(Passed(t)') \in Nat /\ Cardinality(ChannelRequest) \in Nat
            /\ Cardinality(Passed(t)') <= Cardinality(ChannelRequest)
        BY <3>2, PassedIsFinite
      <3>4. QED
        BY <1>0, <2>1, <2>2, <3>1, <3>3, ChannelRegistryAssumption
    <2>3. CASE s = t /\ RegistryFails
      <3>1. Passed(t) \subseteq ChannelRequest /\ Passed(t)' = Passed(t) \cup {q}
        BY <1>1, <1>2 DEF Passed
      <3>2. /\ IsFiniteSet(Passed(t)) /\ Cardinality(Passed(t)) \in Nat
            /\ Cardinality(ChannelRequest) \in Nat
        BY <3>1, PassedIsFinite
      <3>3. /\ Cardinality(Passed(t)') \in Nat
            /\ Cardinality(Passed(t)') <= Cardinality(Passed(t)) + 1
        <4>1. Cardinality(Passed(t) \cup {q}) = IF q \in Passed(t) THEN Cardinality(Passed(t))
                                                ELSE Cardinality(Passed(t)) + 1
          BY <3>2, FS_AddElement
        <4>2. QED
          BY <3>1, <3>2, <4>1
      <3>4. Cardinality(rows[t]) + Cardinality(Passed(t))
               < ChannelsLimit + Cardinality(ChannelRequest) + registryFaults
        BY DEF QuotaInv
      <3>5. registryFaults' = registryFaults + 1
        BY <2>3 DEF RegistryFails
      <3>6. QED
        BY <1>0, <2>1, <2>3, <3>2, <3>3, <3>4, <3>5, ChannelRegistryAssumption
    <2>4. CASE s # t
      <3>1. Passed(s)' = Passed(s)
        <4>1. connecting[q].pc = "ready"
          BY DEF CreateChannel, Ready
        <4>2. QED
          BY <1>1, <1>2, <2>4, <4>1 DEF Passed
      <3>2. /\ Cardinality(rows[s]) + Cardinality(Passed(s))
                  < ChannelsLimit + Cardinality(ChannelRequest) + registryFaults
            /\ Passed(s) \subseteq ChannelRequest
        BY DEF QuotaInv, Passed
      <3>3. Cardinality(Passed(s)) \in Nat /\ Cardinality(ChannelRequest) \in Nat
        BY <3>2, PassedIsFinite
      <3>4. QED
        BY <1>0, <2>1, <3>1, <3>2, <3>3, ChannelRegistryAssumption
    <2>5. QED
      BY <2>2, <2>3, <2>4 DEF CreateChannel
  <1>5. rows' = rows
    BY DEF CreateChannel
  <1>6. QED
    BY <1>0, <1>2, <1>3, <1>4, <1>5 DEF QuotaInv

LEMMA WriteRowStep ==
  ASSUME QuotaInv, NEW q \in ChannelRequest, WriteRow(q)
  PROVE  QuotaInv'
  <1> DEFINE t == connecting[q].tenant
             c == connecting[q].channel
  <1>0. registryFaults \in Nat /\ registryFaults' \in Nat /\ registryFaults <= registryFaults'
    BY DEF QuotaInv, WriteRow, RegistryFails, RegistryHolds
  <1>1. CASE rows' = rows
    BY <1>0, <1>1, EndsWithout DEF WriteRow
  <1>2. CASE rows' = [rows EXCEPT ![t] = Upserted(t, c)]
    <2>1. rows' = [s \in Tenant |-> rows'[s]]
          /\ \A s \in Tenant : rows'[s] = IF s = t THEN Upserted(t, c) ELSE rows[s]
      BY <1>2 DEF QuotaInv
    <2>2. connecting' = [p \in ChannelRequest |-> connecting'[p]]
          /\ \A p \in ChannelRequest : connecting'[p] = IF p = q THEN Ready ELSE connecting[p]
      BY DEF WriteRow, Ends, QuotaInv
    <2>3. \A p \in ChannelRequest : Shaped(connecting'[p])
      BY <2>2 DEF QuotaInv, Shaped, Ready
    <2>4. ASSUME NEW s \in Tenant
          PROVE  /\ IsFiniteSet(rows'[s])
                 /\ Cardinality(rows'[s]) + Cardinality(Passed(s)')
                       < ChannelsLimit + Cardinality(ChannelRequest) + registryFaults'
      <3>1. IsFiniteSet(rows[s]) /\ Cardinality(rows[s]) \in Nat
            /\ Cardinality(rows[s]) + Cardinality(Passed(s))
                  < ChannelsLimit + Cardinality(ChannelRequest) + registryFaults
        BY FS_CardinalityType DEF QuotaInv
      <3>2. Passed(s) \subseteq ChannelRequest /\ Passed(s)' = Passed(s) \ {q}
        BY <2>2 DEF Passed, Ready
      <3>3. IsFiniteSet(Passed(s)) /\ Cardinality(Passed(s)) \in Nat
            /\ Cardinality(ChannelRequest) \in Nat
        BY <3>2, PassedIsFinite
      <3>4. Cardinality(Passed(s)') = IF q \in Passed(s) THEN Cardinality(Passed(s)) - 1
                                      ELSE Cardinality(Passed(s))
        BY <3>2, <3>3, FS_RemoveElement
      <3>5. CASE s = t
        <4>1. q \in Passed(s)
          BY <3>5 DEF WriteRow, Passed
        <4> DEFINE kept == rows[s] \ OfPlatform(s, c.platform)
        <4>2. IsFiniteSet(kept) /\ Cardinality(kept) <= Cardinality(rows[s])
              /\ Cardinality(kept) \in Nat
          BY <3>1, FS_Subset, FS_CardinalityType
        <4>3. rows'[s] = kept \cup {c}
          BY <2>1, <3>5 DEF Upserted
        <4> HIDE DEF kept
        <4>4. /\ IsFiniteSet(kept \cup {c})
              /\ Cardinality(kept \cup {c}) = IF c \in kept THEN Cardinality(kept)
                                               ELSE Cardinality(kept) + 1
          BY <4>2, FS_AddElement
        <4>5. Cardinality(rows'[s]) \in Nat /\ Cardinality(rows'[s]) <= Cardinality(kept) + 1
          BY <4>2, <4>3, <4>4, FS_CardinalityType
        <4>6. QED
          BY <1>0, <3>1, <3>3, <3>4, <4>1, <4>2, <4>3, <4>4, <4>5, ChannelRegistryAssumption
      <3>6. CASE s # t
        <4>1. rows'[s] = rows[s]
          BY <2>1, <3>6
        <4>2. QED
          BY <1>0, <3>1, <3>3, <3>4, <4>1, ChannelRegistryAssumption
      <3>7. QED
        BY <3>5, <3>6
    <2>5. QED
      BY <1>0, <2>1, <2>2, <2>3, <2>4 DEF QuotaInv
  <1>3. QED
    BY <1>1, <1>2 DEF WriteRow

LEMMA ConfigureStep ==
  ASSUME QuotaInv, NEW q \in ChannelRequest, ConfigureTelegramWebhook(q)
  PROVE  QuotaInv'
  <1>0. registryFaults' \in Nat /\ registryFaults <= registryFaults'
    BY DEF QuotaInv, ConfigureTelegramWebhook, RegistryFails, RegistryHolds
  <1>1. rows' = rows
    BY DEF ConfigureTelegramWebhook
  <1>2. CASE Ends(q)
    BY <1>0, <1>1, <1>2, EndsWithout
  <1>3. CASE Goes(q, [connecting[q] EXCEPT !.pc = "row"])
    <2> DEFINE state == [pc |-> "row", tenant |-> connecting[q].tenant,
                         channel |-> connecting[q].channel]
    <2>1. connecting[q].pc = "webhook" /\ Shaped(connecting[q])
      BY DEF ConfigureTelegramWebhook, QuotaInv
    <2>2. [connecting[q] EXCEPT !.pc = "row"] = state
      BY <2>1 DEF Shaped
    <2>3. state.pc = "row" /\ state.tenant = connecting[q].tenant /\ Shaped(state)
      BY DEF Shaped
    <2>4. connecting' = [p \in ChannelRequest |-> connecting'[p]]
          /\ \A p \in ChannelRequest : connecting'[p] = IF p = q THEN state ELSE connecting[p]
      BY <1>3, <2>2 DEF Goes, QuotaInv
    <2> HIDE DEF state
    <2>5. \A p \in ChannelRequest : Shaped(connecting'[p])
      BY <2>3, <2>4 DEF QuotaInv
    <2>6. \A s \in Tenant : Passed(s)' \subseteq Passed(s)
      BY <2>1, <2>3, <2>4 DEF Passed
    <2>7. QED
      BY <1>0, <1>1, <2>4, <2>5, <2>6, NothingGained DEF QuotaInv
  <1>4. QED
    BY <1>2, <1>3 DEF ConfigureTelegramWebhook

LEMMA GetWebhookInfoStep ==
  ASSUME QuotaInv, NEW q \in ChannelRequest, NEW t \in Tenant, GetWebhookInfo(q, t)
  PROVE  QuotaInv'
  <1>1. PICK r, saved : Goes(q, [pc |-> "read", bot |-> r.bot, saved |-> saved])
    BY DEF GetWebhookInfo
  <1> DEFINE state == [pc |-> "read", bot |-> r.bot, saved |-> saved]
  <1>2. state.pc \notin {"webhook", "row"} /\ Shaped(state) /\ Goes(q, state)
    BY <1>1 DEF Shaped
  <1>3. rows' = rows /\ registryFaults' \in Nat /\ registryFaults <= registryFaults'
    BY DEF GetWebhookInfo, QuotaInv, RegistryFails, RegistryHolds
  <1> HIDE DEF state
  <1>4. QED
    BY <1>2, <1>3, GoesWithout

LEMMA DeleteWebhookStep ==
  ASSUME QuotaInv, NEW q \in ChannelRequest, DeleteWebhook(q)
  PROVE  QuotaInv'
  <1>0. registryFaults' \in Nat /\ registryFaults <= registryFaults'
    BY DEF QuotaInv, DeleteWebhook, RegistryFails, RegistryHolds
  <1>1. rows' = rows
    BY DEF DeleteWebhook
  <1>2. CASE Ends(q)
    BY <1>0, <1>1, <1>2, EndsWithout
  <1>3. CASE Goes(q, [connecting[q] EXCEPT !.pc = "restore"])
    <2> DEFINE state == [pc |-> "restore", bot |-> connecting[q].bot, saved |-> connecting[q].saved]
    <2>1. connecting[q].pc = "read" /\ Shaped(connecting[q])
      BY DEF DeleteWebhook, QuotaInv
    <2>2. [connecting[q] EXCEPT !.pc = "restore"] = state
      BY <2>1 DEF Shaped
    <2>3. state.pc \notin {"webhook", "row"} /\ Shaped(state) /\ Goes(q, state)
      BY <1>3, <2>2 DEF Shaped
    <2> HIDE DEF state
    <2>4. QED
      BY <1>0, <1>1, <2>3, GoesWithout
  <1>4. QED
    BY <1>2, <1>3 DEF DeleteWebhook

LEMMA DisconnectStep ==
  ASSUME QuotaInv, NEW t \in Tenant, HandleDisconnectTelegram(t)
  PROVE  QuotaInv'
  <1>1. rows' = [s \in Tenant |-> rows'[s]] /\ \A s \in Tenant : rows'[s] \subseteq rows[s]
    BY DEF HandleDisconnectTelegram, QuotaInv
  <1>2. connecting' = connecting /\ registryFaults' = registryFaults /\ registryFaults \in Nat
    BY DEF HandleDisconnectTelegram, QuotaInv
  <1>3. QED
    BY <1>1, <1>2, NothingGained DEF QuotaInv, Passed

LEMMA QuotaStep ==
  ASSUME QuotaInv, [RegistryNext]_registryVars
  PROVE  QuotaInv'
  <1>1. ASSUME NEW q \in ChannelRequest, SetWebhook(q) \/ RequestCrashes(q)
        PROVE  QuotaInv'
    <2>1. registryFaults' \in Nat /\ registryFaults <= registryFaults'
      BY <1>1 DEF QuotaInv, SetWebhook, RequestCrashes, RegistryFails, RegistryHolds
    <2>2. QED
      BY <1>1, <2>1, EndsWithout DEF SetWebhook, RequestCrashes
  <1>2. CASE UNCHANGED registryVars
    BY <1>2 DEF registryVars, QuotaInv, Passed
  <1>3. QED
    BY <1>1, <1>2, CreateChannelStep, WriteRowStep, ConfigureStep, GetWebhookInfoStep,
       DeleteWebhookStep, DisconnectStep
    DEF RegistryNext

\* However many requests connect channels at the same time, a workspace goes over
\* its limit by at most one row less than there are requests, and one more for
\* every call that failed: with one request at a time and no failing call it
\* never does.
THEOREM QuotaIsHeld == RegistrySpec => []OverByRequestsAtMost
  <1>1. ASSUME QuotaInv
        PROVE  OverByRequestsAtMost
    <2> SUFFICES ASSUME NEW t \in Tenant
                 PROVE  Cardinality(rows[t]) < ChannelsLimit + Cardinality(ChannelRequest) + registryFaults
      BY DEF OverByRequestsAtMost
    <2>1. Passed(t) \subseteq ChannelRequest
      BY DEF Passed
    <2>2. Cardinality(Passed(t)) \in Nat /\ Cardinality(ChannelRequest) \in Nat
      BY <2>1, PassedIsFinite
    <2>3. Cardinality(rows[t]) \in Nat
          /\ Cardinality(rows[t]) + Cardinality(Passed(t))
                < ChannelsLimit + Cardinality(ChannelRequest) + registryFaults
      BY <1>1, FS_CardinalityType DEF QuotaInv
    <2>4. QED
      BY <1>1, <2>2, <2>3, ChannelRegistryAssumption DEF QuotaInv
  <1>2. QED
    BY QuotaStart, QuotaStep, <1>1, PTL DEF RegistrySpec

\* What a request is doing, with the types of what it holds.
Writer(state) ==
    /\ state = [pc |-> state.pc, tenant |-> state.tenant, channel |-> state.channel]
    /\ state.pc \in {"webhook", "row"}
    /\ state.tenant \in Tenant
    /\ state.channel \in Channels
    /\ state.pc = "webhook" => state.channel.platform = "telegram"

Syncer(state) ==
    /\ state = [pc |-> state.pc, bot |-> state.bot, saved |-> state.saved]
    /\ state.pc \in {"read", "restore"}
    /\ state.bot \in Bot
    /\ state.saved \in Tenant \cup {Nobody}
    /\ state.pc = "restore" => state.saved # Nobody

Proper(state) == state = Ready \/ Writer(state) \/ Syncer(state)

IsOf(row, b) == row.platform = "telegram" /\ row.bot = b

\* A bot is connected from the moment its webhook is set.
Joined(b) ==
    \/ \E t \in Tenant : \E r \in rows[t] : IsOf(r, b)
    \/ \E q \in ChannelRequest : connecting[q].pc = "row" /\ IsOf(connecting[q].channel, b)

Restoring(b) == \E q \in ChannelRequest : connecting[q].pc = "restore" /\ connecting[q].bot = b

\* WebhookComesBack is not inductive: a webhook that is missing is in the hands
\* of a request that will set it again, and that request knows the address.
WebhookInv ==
    /\ registryFaults \in Nat
    /\ webhook \in [Bot -> Tenant \cup {Nobody}]
    /\ rows \in [Tenant -> SUBSET Channels]
    /\ connecting = [q \in ChannelRequest |-> connecting[q]]
    /\ \A q \in ChannelRequest : Proper(connecting[q])
    /\ registryFaults = 0 =>
          \A b \in Bot : Joined(b) => webhook[b] # Nobody \/ Restoring(b)

LEMMA WebhookStart == RegistryInit => WebhookInv
  <1> SUFFICES ASSUME RegistryInit
               PROVE  WebhookInv
    OBVIOUS
  <1>1. /\ registryFaults \in Nat
        /\ webhook \in [Bot -> Tenant \cup {Nobody}]
        /\ rows \in [Tenant -> SUBSET Channels] /\ \A t \in Tenant : rows[t] = {}
        /\ connecting = [q \in ChannelRequest |-> connecting[q]]
        /\ \A q \in ChannelRequest : connecting[q] = Ready
    BY DEF RegistryInit
  <1>2. \A b \in Bot : ~Joined(b)
    BY <1>1 DEF Joined, Ready
  <1>3. QED
    BY <1>1, <1>2 DEF WebhookInv, Proper

\* What a request that moves on leaves of the others' states.
LEMMA MovesOn ==
  ASSUME WebhookInv, NEW q \in ChannelRequest, NEW state, Proper(state), Goes(q, state)
  PROVE  /\ connecting' = [p \in ChannelRequest |-> connecting'[p]]
         /\ \A p \in ChannelRequest : connecting'[p] = IF p = q THEN state ELSE connecting[p]
         /\ \A p \in ChannelRequest : Proper(connecting'[p])
  <1>1. /\ connecting' = [p \in ChannelRequest |-> connecting'[p]]
        /\ \A p \in ChannelRequest : connecting'[p] = IF p = q THEN state ELSE connecting[p]
    BY DEF Goes, WebhookInv
  <1>2. QED
    BY <1>1 DEF WebhookInv

\* A call that fails leaves nothing to keep but the types.
LEMMA AfterFailure ==
  ASSUME WebhookInv, NEW q \in ChannelRequest, NEW state, Proper(state), Goes(q, state),
         RegistryFails, webhook' = webhook, rows' = rows
  PROVE  WebhookInv'
  <1>1. /\ connecting' = [p \in ChannelRequest |-> connecting'[p]]
        /\ \A p \in ChannelRequest : Proper(connecting'[p])
    BY MovesOn
  <1>2. registryFaults' \in Nat /\ registryFaults' # 0
    BY DEF RegistryFails, WebhookInv
  <1>3. QED
    BY <1>1, <1>2 DEF WebhookInv, Proper, Writer, Syncer, Channels

\* A request that moves on and disturbs no webhook: it neither was restoring one
\* nor is to write the row of a bot.
LEMMA MovesQuietly ==
  ASSUME WebhookInv, NEW q \in ChannelRequest, NEW state, Proper(state), Goes(q, state),
         RegistryHolds, webhook' = webhook, rows' = rows,
         connecting[q].pc # "restore",
         \A b \in Bot : ~(state.pc = "row" /\ IsOf(state.channel, b))
  PROVE  WebhookInv'
  <1>1. /\ connecting' = [p \in ChannelRequest |-> connecting'[p]]
        /\ \A p \in ChannelRequest : Proper(connecting'[p])
        /\ \A p \in ChannelRequest : connecting'[p] = IF p = q THEN state ELSE connecting[p]
    BY MovesOn
  <1>2. ASSUME NEW b \in Bot, Joined(b)'
        PROVE  Joined(b)
    BY <1>1, <1>2 DEF Joined
  <1>3. ASSUME NEW b \in Bot, Restoring(b)
        PROVE  Restoring(b)'
    BY <1>1, <1>3 DEF Restoring
  <1>4. registryFaults' = registryFaults
    BY DEF RegistryHolds
  <1>5. (registryFaults = 0 =>
            \A b \in Bot : Joined(b) => webhook[b] # Nobody \/ Restoring(b))'
    BY <1>2, <1>3, <1>4 DEF WebhookInv
  <1>6. QED
    BY <1>1, <1>4, <1>5 DEF WebhookInv

LEMMA ReadyIsProper == Proper(Ready) /\ Ready.pc = "ready"
  BY DEF Proper, Ready

LEMMA CreateKeepsWebhooks ==
  ASSUME WebhookInv, NEW q \in ChannelRequest, NEW t \in Tenant, NEW c \in Channels,
         CreateChannel(q, t, c)
  PROVE  WebhookInv'
  <1> DEFINE state == [pc |-> IF c.platform = "telegram" THEN "webhook" ELSE "row",
                       tenant |-> t, channel |-> c]
  <1>1. state.tenant = t /\ state.channel = c
        /\ state.pc = (IF c.platform = "telegram" THEN "webhook" ELSE "row")
        /\ state = [pc |-> state.pc, tenant |-> state.tenant, channel |-> state.channel]
    OBVIOUS
  <1>2. Goes(q, state) /\ connecting[q].pc = "ready" /\ webhook' = webhook /\ rows' = rows
    BY DEF CreateChannel, Ready
  <1> HIDE DEF state
  <1>3. Proper(state)
    BY <1>1 DEF Proper, Writer
  <1>4. \A b \in Bot : ~(state.pc = "row" /\ IsOf(state.channel, b))
    BY <1>1 DEF IsOf
  <1>5. RegistryHolds \/ RegistryFails
    BY DEF CreateChannel
  <1>6. QED
    BY <1>2, <1>3, <1>4, <1>5, MovesQuietly, AfterFailure

LEMMA ConfigureKeepsWebhooks ==
  ASSUME WebhookInv, NEW q \in ChannelRequest, ConfigureTelegramWebhook(q)
  PROVE  WebhookInv'
  <1>1. Writer(connecting[q]) /\ connecting[q].pc = "webhook" /\ rows' = rows
    BY DEF ConfigureTelegramWebhook, WebhookInv, Proper, Syncer, Ready
  <1>2. CASE RegistryFails /\ Ends(q) /\ webhook' = webhook
    BY <1>1, <1>2, AfterFailure, ReadyIsProper DEF Ends, Goes
  <1>3. CASE /\ webhook' = [webhook EXCEPT ![connecting[q].channel.bot] = connecting[q].tenant]
             /\ Goes(q, [connecting[q] EXCEPT !.pc = "row"]) /\ RegistryHolds
    <2> DEFINE state == [pc |-> "row", tenant |-> connecting[q].tenant,
                         channel |-> connecting[q].channel]
               bot == connecting[q].channel.bot
    <2>1. [connecting[q] EXCEPT !.pc = "row"] = state
      BY <1>1 DEF Writer
    <2>2. Goes(q, state)
      BY <1>3, <2>1
    <2>3. /\ state.pc = "row" /\ state.tenant = connecting[q].tenant
          /\ state.channel = connecting[q].channel
          /\ state = [pc |-> state.pc, tenant |-> state.tenant, channel |-> state.channel]
      OBVIOUS
    <2> HIDE DEF state
    <2>4. Proper(state)
      BY <1>1, <2>3 DEF Proper, Writer
    <2>5. /\ connecting' = [p \in ChannelRequest |-> connecting'[p]]
          /\ \A p \in ChannelRequest : Proper(connecting'[p])
          /\ \A p \in ChannelRequest : connecting'[p] = IF p = q THEN state ELSE connecting[p]
      BY <2>2, <2>4, MovesOn
    <2>6. bot \in Bot /\ connecting[q].tenant \in Tenant
      BY <1>1, PlatformAssumption DEF Writer, Channels
    <2>7. /\ webhook' \in [Bot -> Tenant \cup {Nobody}]
          /\ \A b \in Bot : webhook'[b] = IF b = bot THEN connecting[q].tenant ELSE webhook[b]
      BY <1>3, <2>6 DEF WebhookInv
    <2>8. registryFaults' = registryFaults
      BY <1>3 DEF RegistryHolds
    <2>9. ASSUME NEW b \in Bot, Joined(b)', registryFaults = 0
          PROVE  webhook'[b] # Nobody \/ Restoring(b)'
      <3>1. CASE b = bot
        BY <2>6, <2>7, <3>1, PlatformAssumption
      <3>2. CASE b # bot
        <4>1. ~IsOf(state.channel, b)
          BY <2>3, <3>2 DEF IsOf
        <4>2. Joined(b)
          BY <1>1, <2>3, <2>5, <2>9, <4>1 DEF Joined
        <4>3. webhook[b] # Nobody \/ Restoring(b)
          BY <2>9, <4>2 DEF WebhookInv
        <4>4. Restoring(b) => Restoring(b)'
          BY <1>1, <2>5 DEF Restoring
        <4>5. QED
          BY <2>7, <3>2, <4>3, <4>4
      <3>3. QED
        BY <3>1, <3>2
    <2>10. QED
      BY <1>1, <2>5, <2>7, <2>8, <2>9 DEF WebhookInv
  <1>4. QED
    BY <1>2, <1>3 DEF ConfigureTelegramWebhook

LEMMA WriteKeepsWebhooks ==
  ASSUME WebhookInv, NEW q \in ChannelRequest, WriteRow(q)
  PROVE  WebhookInv'
  <1> DEFINE t == connecting[q].tenant
             c == connecting[q].channel
  <1>1. connecting[q].pc = "row" /\ Writer(connecting[q]) /\ webhook' = webhook /\ Goes(q, Ready)
    BY DEF WriteRow, WebhookInv, Proper, Syncer, Ready, Ends, Goes
  <1>2. CASE RegistryFails /\ rows' = rows
    BY <1>1, <1>2, AfterFailure, ReadyIsProper
  <1>3. CASE rows' = [rows EXCEPT ![t] = Upserted(t, c)] /\ RegistryHolds
    <2>1. /\ connecting' = [p \in ChannelRequest |-> connecting'[p]]
          /\ \A p \in ChannelRequest : Proper(connecting'[p])
          /\ \A p \in ChannelRequest : connecting'[p] = IF p = q THEN Ready ELSE connecting[p]
      BY <1>1, ReadyIsProper, MovesOn
    <2>2. t \in Tenant /\ c \in Channels /\ Upserted(t, c) \subseteq rows[t] \cup {c}
      BY <1>1 DEF Writer, Upserted
    <2>3. /\ rows' \in [Tenant -> SUBSET Channels]
          /\ \A s \in Tenant : rows'[s] = IF s = t THEN Upserted(t, c) ELSE rows[s]
      BY <1>3, <2>2 DEF WebhookInv
    <2>4. ASSUME NEW b \in Bot, Joined(b)'
          PROVE  Joined(b)
      <3>1. CASE \E s \in Tenant : \E r \in rows'[s] : IsOf(r, b)
        <4>1. PICK s \in Tenant : \E r \in rows'[s] : IsOf(r, b)
          BY <3>1
        <4>2. PICK r : r \in rows'[s] /\ IsOf(r, b)
          BY <4>1
        <4>3. r \in rows[s] \/ r = c
          BY <2>2, <2>3, <4>1, <4>2
        <4>4. QED
          BY <1>1, <4>1, <4>2, <4>3 DEF Joined
      <3>2. CASE \E p \in ChannelRequest :
                    connecting'[p].pc = "row" /\ IsOf(connecting'[p].channel, b)
        BY <2>1, <3>2, ReadyIsProper DEF Joined
      <3>3. QED
        BY <2>4, <3>1, <3>2 DEF Joined
    <2>5. ASSUME NEW b \in Bot, Restoring(b)
          PROVE  Restoring(b)'
      BY <1>1, <2>1, <2>5 DEF Restoring
    <2>6. registryFaults' = registryFaults
      BY <1>3 DEF RegistryHolds
    <2>7. (registryFaults = 0 =>
              \A b \in Bot : Joined(b) => webhook[b] # Nobody \/ Restoring(b))'
      BY <1>1, <2>4, <2>5, <2>6 DEF WebhookInv
    <2>8. QED
      BY <1>1, <2>1, <2>3, <2>6, <2>7 DEF WebhookInv
  <1>4. QED
    BY <1>2, <1>3 DEF WriteRow

LEMMA DisconnectKeepsWebhooks ==
  ASSUME WebhookInv, NEW t \in Tenant, HandleDisconnectTelegram(t)
  PROVE  WebhookInv'
  <1>1. /\ webhook' = webhook /\ connecting' = connecting /\ registryFaults' = registryFaults
        /\ rows' \in [Tenant -> SUBSET Channels] /\ \A s \in Tenant : rows'[s] \subseteq rows[s]
    BY DEF HandleDisconnectTelegram, WebhookInv
  <1>2. \A b \in Bot : Joined(b)' => Joined(b)
    BY <1>1 DEF Joined
  <1>3. \A b \in Bot : Restoring(b)' <=> Restoring(b)
    BY <1>1 DEF Restoring
  <1>4. QED
    BY <1>1, <1>2, <1>3 DEF WebhookInv

LEMMA GetInfoKeepsWebhooks ==
  ASSUME WebhookInv, NEW q \in ChannelRequest, NEW t \in Tenant, GetWebhookInfo(q, t)
  PROVE  WebhookInv'
  <1>1. PICK r \in OfPlatform(t, "telegram") :
          \/ Goes(q, [pc |-> "read", bot |-> r.bot, saved |-> webhook[r.bot]]) /\ RegistryHolds
          \/ Goes(q, [pc |-> "read", bot |-> r.bot, saved |-> Nobody]) /\ RegistryFails
    BY DEF GetWebhookInfo
  <1>2. r \in Channels /\ r.platform = "telegram"
    BY DEF WebhookInv, OfPlatform
  <1>3. r.bot \in Bot
    BY <1>2, PlatformAssumption DEF Channels
  <1>4. webhook[r.bot] \in Tenant \cup {Nobody} /\ webhook' = webhook /\ rows' = rows
        /\ connecting[q].pc = "ready"
    BY <1>3 DEF WebhookInv, GetWebhookInfo, Ready
  <1>5. PICK saved \in Tenant \cup {Nobody} :
          /\ Goes(q, [pc |-> "read", bot |-> r.bot, saved |-> saved])
          /\ RegistryHolds \/ RegistryFails
    BY <1>1, <1>4
  <1> DEFINE state == [pc |-> "read", bot |-> r.bot, saved |-> saved]
  <1>6. state.pc = "read" /\ state.bot = r.bot /\ state.saved = saved
        /\ state = [pc |-> state.pc, bot |-> state.bot, saved |-> state.saved]
        /\ Goes(q, state)
    BY <1>5
  <1> HIDE DEF state
  <1>7. Proper(state)
    BY <1>3, <1>6 DEF Proper, Syncer
  <1>8. CASE RegistryHolds
    BY <1>4, <1>6, <1>7, <1>8, MovesQuietly
  <1>9. CASE RegistryFails
    BY <1>4, <1>6, <1>7, <1>9, AfterFailure
  <1>10. QED
    BY <1>5, <1>8, <1>9

LEMMA DeleteKeepsWebhooks ==
  ASSUME WebhookInv, NEW q \in ChannelRequest, DeleteWebhook(q)
  PROVE  WebhookInv'
  <1>1. Syncer(connecting[q]) /\ connecting[q].pc = "read" /\ rows' = rows
    BY DEF DeleteWebhook, WebhookInv, Proper, Writer, Ready
  <1> DEFINE state == [pc |-> "restore", bot |-> connecting[q].bot, saved |-> connecting[q].saved]
             bot == connecting[q].bot
  <1>2. [connecting[q] EXCEPT !.pc = "restore"] = state
    BY <1>1 DEF Syncer
  <1>3. state.pc = "restore" /\ state.bot = bot /\ state.saved = connecting[q].saved
        /\ state = [pc |-> state.pc, bot |-> state.bot, saved |-> state.saved]
    OBVIOUS
  <1>4. ASSUME Restores(connecting[q].saved)
        PROVE  Proper([connecting[q] EXCEPT !.pc = "restore"])
    <2> HIDE DEF state
    <2>1. Proper(state)
      BY <1>1, <1>3, <1>4 DEF Proper, Syncer, Restores
    <2>2. QED
      BY <1>2, <2>1
  <1>5. CASE Ends(q) /\ webhook' = webhook /\ RegistryHolds
    BY <1>1, <1>5, MovesQuietly, ReadyIsProper DEF Ends, Goes
  <1>6. CASE /\ Restores(connecting[q].saved)
             /\ RegistryFails /\ webhook' = webhook
             /\ Goes(q, [connecting[q] EXCEPT !.pc = "restore"])
    BY <1>1, <1>4, <1>6, AfterFailure
  <1>7. CASE /\ Restores(connecting[q].saved)
             /\ webhook' = [webhook EXCEPT ![connecting[q].bot] = Nobody]
             /\ Goes(q, [connecting[q] EXCEPT !.pc = "restore"]) /\ RegistryHolds
    <2>1. Goes(q, state) /\ Proper(state)
      BY <1>2, <1>4, <1>7
    <2> HIDE DEF state
    <2>2. /\ connecting' = [p \in ChannelRequest |-> connecting'[p]]
          /\ \A p \in ChannelRequest : Proper(connecting'[p])
          /\ \A p \in ChannelRequest : connecting'[p] = IF p = q THEN state ELSE connecting[p]
      BY <2>1, MovesOn
    <2>3. bot \in Bot
      BY <1>1 DEF Syncer
    <2>4. /\ webhook' \in [Bot -> Tenant \cup {Nobody}]
          /\ \A b \in Bot : webhook'[b] = IF b = bot THEN Nobody ELSE webhook[b]
      BY <1>7, <2>3 DEF WebhookInv
    <2>5. registryFaults' = registryFaults
      BY <1>7 DEF RegistryHolds
    <2>6. ASSUME NEW b \in Bot, Joined(b)', registryFaults = 0
          PROVE  webhook'[b] # Nobody \/ Restoring(b)'
      <3>1. CASE b = bot
        <4>1. connecting'[q].pc = "restore" /\ connecting'[q].bot = b
          BY <1>3, <2>2, <3>1
        <4>2. QED
          BY <4>1 DEF Restoring
      <3>2. CASE b # bot
        <4>1. Joined(b)
          BY <1>1, <1>3, <2>2, <2>6 DEF Joined
        <4>2. webhook[b] # Nobody \/ Restoring(b)
          BY <2>6, <4>1 DEF WebhookInv
        <4>3. Restoring(b) => Restoring(b)'
          BY <1>1, <2>2 DEF Restoring
        <4>4. QED
          BY <2>4, <3>2, <4>2, <4>3
      <3>3. QED
        BY <3>1, <3>2
    <2>7. QED
      BY <1>1, <2>2, <2>4, <2>5, <2>6 DEF WebhookInv
  <1>8. QED
    BY <1>5, <1>6, <1>7 DEF DeleteWebhook

LEMMA SetKeepsWebhooks ==
  ASSUME WebhookInv, NEW q \in ChannelRequest, SetWebhook(q)
  PROVE  WebhookInv'
  <1>1. Syncer(connecting[q]) /\ connecting[q].pc = "restore" /\ rows' = rows /\ Goes(q, Ready)
    BY DEF SetWebhook, WebhookInv, Proper, Writer, Ready, Ends, Goes
  <1> DEFINE bot == connecting[q].bot
             saved == connecting[q].saved
  <1>2. CASE RegistryFails /\ webhook' = webhook
    BY <1>1, <1>2, AfterFailure, ReadyIsProper
  <1>3. CASE webhook' = [webhook EXCEPT ![bot] = saved] /\ RegistryHolds
    <2>1. /\ connecting' = [p \in ChannelRequest |-> connecting'[p]]
          /\ \A p \in ChannelRequest : Proper(connecting'[p])
          /\ \A p \in ChannelRequest : connecting'[p] = IF p = q THEN Ready ELSE connecting[p]
      BY <1>1, ReadyIsProper, MovesOn
    <2>2. bot \in Bot /\ saved \in Tenant \cup {Nobody} /\ saved # Nobody
      BY <1>1 DEF Syncer
    <2>3. /\ webhook' \in [Bot -> Tenant \cup {Nobody}]
          /\ \A b \in Bot : webhook'[b] = IF b = bot THEN saved ELSE webhook[b]
      BY <1>3, <2>2 DEF WebhookInv
    <2>4. registryFaults' = registryFaults
      BY <1>3 DEF RegistryHolds
    <2>5. ASSUME NEW b \in Bot, Joined(b)', registryFaults = 0
          PROVE  webhook'[b] # Nobody \/ Restoring(b)'
      <3>1. CASE b = bot
        BY <2>2, <2>3, <3>1
      <3>2. CASE b # bot
        <4>1. Joined(b)
          BY <1>1, <2>1, <2>5, ReadyIsProper DEF Joined
        <4>2. webhook[b] # Nobody \/ Restoring(b)
          BY <2>5, <4>1 DEF WebhookInv
        <4>3. Restoring(b) => Restoring(b)'
          BY <2>1, <3>2 DEF Restoring
        <4>4. QED
          BY <2>3, <3>2, <4>2, <4>3
      <3>3. QED
        BY <3>1, <3>2
    <2>6. QED
      BY <1>1, <2>1, <2>3, <2>4, <2>5 DEF WebhookInv
  <1>4. QED
    BY <1>2, <1>3 DEF SetWebhook

LEMMA WebhookStep ==
  ASSUME WebhookInv, [RegistryNext]_registryVars
  PROVE  WebhookInv'
  <1>1. ASSUME NEW q \in ChannelRequest, RequestCrashes(q)
        PROVE  WebhookInv'
    BY <1>1, AfterFailure, ReadyIsProper DEF RequestCrashes, Ends, Goes
  <1>2. CASE UNCHANGED registryVars
    <2>1. /\ webhook' = webhook /\ connecting' = connecting /\ registryFaults' = registryFaults
          /\ rows' = rows
      BY <1>2 DEF registryVars
    <2>2. \A b \in Bot : (Joined(b)' <=> Joined(b)) /\ (Restoring(b)' <=> Restoring(b))
      BY <2>1 DEF Joined, Restoring
    <2>3. QED
      BY <2>1, <2>2 DEF WebhookInv
  <1>3. QED
    BY <1>1, <1>2, CreateKeepsWebhooks, ConfigureKeepsWebhooks, WriteKeepsWebhooks,
       GetInfoKeepsWebhooks, DeleteKeepsWebhooks, SetKeepsWebhooks, DisconnectKeepsWebhooks
    DEF RegistryNext

\* However the requests that connect a bot and the syncs that take its webhook
\* away interleave, a bot that is connected has a webhook whenever no sync is
\* under way, if no call fails and no request crashes.
THEOREM WebhookIsRestored == RegistrySpec => []WebhookComesBack
  <1>1. ASSUME WebhookInv
        PROVE  WebhookComesBack
    <2> SUFFICES ASSUME registryFaults = 0, NEW t \in Tenant, NEW r \in OfPlatform(t, "telegram"),
                        \A q \in ChannelRequest : connecting[q].pc \notin {"read", "restore"}
                 PROVE  webhook[r.bot] # Nobody
      BY DEF WebhookComesBack
    <2>1. r \in rows[t] /\ r \in Channels /\ r.platform = "telegram"
      BY <1>1 DEF WebhookInv, OfPlatform
    <2>2. r.bot \in Bot
      BY <2>1, PlatformAssumption DEF Channels
    <2>3. Joined(r.bot) /\ ~Restoring(r.bot)
      BY <2>1 DEF Joined, IsOf, Restoring
    <2>4. QED
      BY <1>1, <2>2, <2>3 DEF WebhookInv
  <1>2. QED
    BY WebhookStart, WebhookStep, <1>1, PTL DEF RegistrySpec

-----------------------------------------------------------------------------
(* The sessions of WhatsApp *)

DeviceRow(d) ==
    /\ d = [account |-> d.account, by |-> d.by, stored |-> d.stored, linked |-> d.linked]
    /\ d.linked \in BOOLEAN

ChannelOf(row, paired) ==
    /\ row = ChannelRow(row.status, row.account, row.key, row.device)
    /\ row.status \in {"active", "suspended"}
    /\ \E kind : row.key = <<kind, row.account>>
    /\ row.device \in paired \cup {Nothing}

Client(c, paired) ==
    /\ c = Session(c.workspace, c.state, c.device)
    /\ c.workspace \in Workspace
    /\ c.state \in {"waiting", "pairing", "up", "down", "closed"}
    /\ c.device \in paired \cup {Nothing}
    /\ c.state \in {"pairing", "up", "down"} => c.device \in paired
    /\ c.state = "waiting" => c.device = Nothing

Clients(clients, paired) ==
    /\ clients = [s \in Slot |-> clients[s]]
    /\ \A s \in Slot : clients[s] = NoSession \/ Client(clients[s], paired)

\* The map holds sessions of the workspaces it holds them for.
Holds(map, clients) ==
    \A w \in Workspace : map[w] # Nothing =>
        map[w] \in Slot /\ clients[map[w]] # NoSession /\ clients[map[w]].workspace = w

Tidied(map, clients) ==
    \A s \in Slot : clients[s].state = "closed" => map[clients[s].workspace] = s

DevicesShape ==
    /\ \E n \in Nat : Paired = 1..n
    /\ devices = [d \in Paired |-> devices[d]]
    /\ \A d \in Paired : DeviceRow(devices[d])
    /\ irregular \in BOOLEAN

SessionsShape ==
    /\ channel = [w \in Workspace |-> channel[w]]
    /\ \A w \in Workspace : channel[w] = NoChannel \/ ChannelOf(channel[w], Paired)
    /\ Clients(sessions, Paired)
    /\ mapped \in [Workspace -> Slot \cup {Nothing}]
    /\ opening \in [Workspace -> Paired \cup {Nothing}]
    /\ Holds(mapped, sessions) /\ Tidied(mapped, sessions)

\* What LiveSessionOwnsAccount supposes.
Good == ~irregular /\ \A d \in Paired : PairedOnce(d)

Owns(w, d) == channel[w].status = "active" /\ channel[w].account = devices[d].account

HasDevice(s) == sessions[s] # NoSession /\ sessions[s].device # Nothing

HasRow(w) == channel[w] # NoChannel /\ channel[w].device # Nothing

\* LiveSessionOwnsAccount holds of every session that could be reconnected, and
\* the map has a session of its workspace.
SessionsOwn ==
    \A s \in Slot :
        HasDevice(s) /\ sessions[s].state # "pairing" /\ devices[sessions[s].device].linked =>
            Owns(sessions[s].workspace, sessions[s].device) /\ mapped[sessions[s].workspace] # Nothing

\* A device that is being opened, or that a row names, is one the workspace has
\* paired.
OpeningsOwn ==
    \A w \in Workspace : opening[w] # Nothing =>
        /\ devices[opening[w]].by = w
        /\ devices[opening[w]].linked => Owns(w, opening[w])

RowsOwn ==
    \A w \in Workspace : HasRow(w) =>
        /\ devices[channel[w].device].by = w
        /\ channel[w].account = devices[channel[w].device].account

\* A restart may open the device of another workspace, one that has been refused
\* the account. That session is the only one of the workspace that it is given to.
ForeignAlone ==
    \A s \in Slot :
        LET w == sessions[s].workspace IN
        HasDevice(s) /\ devices[sessions[s].device].by # w =>
            /\ mapped[w] = s /\ opening[w] = Nothing /\ ~HasRow(w)
            /\ \A c \in Slot : sessions[c] # NoSession /\ sessions[c].workspace = w => c = s

\* A device that is being paired is nowhere else.
PairingAlone ==
    \A s \in Slot : sessions[s].state = "pairing" =>
        /\ devices[sessions[s].device].by = sessions[s].workspace
        /\ mapped[sessions[s].workspace] = s
        /\ \A c \in Slot : HasDevice(c) /\ sessions[c].device = sessions[s].device => c = s
        /\ \A w \in Workspace : /\ opening[w] # sessions[s].device
                                /\ HasRow(w) => channel[w].device # sessions[s].device

\* A code is displayed by the session the map has, unless the workspace has a
\* device already.
WaitingMapped ==
    \A s \in Slot : sessions[s].state = "waiting" =>
        \/ mapped[sessions[s].workspace] = s
        \/ \E d \in Paired : devices[d].by = sessions[s].workspace

Rules == SessionsOwn /\ OpeningsOwn /\ RowsOwn /\ ForeignAlone /\ PairingAlone /\ WaitingMapped

\* LiveSessionOwnsAccount is not inductive: a session that is down or closed must
\* own its account too, and so must a device that is about to be opened.
SessionsInv == DevicesShape /\ (Good => SessionsShape /\ Rules)

LEMMA NothingIsNothing == Nothing \notin Slot /\ (DevicesShape => Nothing \notin Paired)
  BY SlotAssumption DEF Nothing, DevicesShape

LEMMA NoSessionIsNone == NoSession.state = "none" /\ NoChannel.status = "none"
  BY DEF NoSession, NoChannel

LEMMA SessionIsClient ==
  ASSUME NEW w \in Workspace, NEW paired, NEW state \in {"waiting", "pairing", "up", "down", "closed"},
         NEW device \in paired \cup {Nothing},
         state \in {"pairing", "up", "down"} => device \in paired,
         state = "waiting" => device = Nothing
  PROVE  /\ Client(Session(w, state, device), paired)
         /\ Session(w, state, device) # NoSession
         /\ Session(w, state, device).workspace = w
         /\ Session(w, state, device).state = state
         /\ Session(w, state, device).device = device
  <1>1. PICK c : c = Session(w, state, device)
    OBVIOUS
  <1>2. c.workspace = w /\ c.state = state /\ c.device = device
    BY <1>1 DEF Session
  <1>3. c # NoSession
    <2>1. NoSession.state = "none"
      BY DEF NoSession
    <2>2. QED
      BY <1>2, <2>1
  <1>4. Client(c, paired)
    BY <1>1, <1>2 DEF Client
  <1>5. QED
    BY <1>1, <1>2, <1>3, <1>4

\* What is tidied away is closed and not mapped.
LEMMA TidyEffect ==
  ASSUME NEW clients, NEW paired, NEW map, Clients(clients, paired), Holds(map, clients),
         NEW next, next = Tidy(clients, map)
  PROVE  /\ Clients(next, paired)
         /\ Holds(map, next)
         /\ Tidied(map, next)
         /\ \A s \in Slot : next[s] = NoSession \/ next[s] = clients[s]
         /\ \A s \in Slot : clients[s].state # "closed" => next[s] = clients[s]
         /\ \A s \in Slot : clients[s].state = "closed" /\ (\A w \in Workspace : map[w] # s)
                                => next[s] = NoSession
  <1>1. /\ next = [s \in Slot |-> next[s]]
        /\ \A s \in Slot : next[s] = IF clients[s].state = "closed"
                                        /\ (\A w \in Workspace : map[w] # s)
                                     THEN NoSession ELSE clients[s]
    BY DEF Tidy
  <1>2. Clients(next, paired)
    BY <1>1 DEF Clients
  <1>3. Holds(map, next)
    BY <1>1 DEF Holds
  <1>4. Tidied(map, next)
    <2> SUFFICES ASSUME NEW s \in Slot, next[s].state = "closed"
                 PROVE  map[next[s].workspace] = s
      BY DEF Tidied
    <2>1. NoSession.state # "closed"
      BY DEF NoSession
    <2>2. PICK w \in Workspace : map[w] = s /\ next[s] = clients[s]
      BY <1>1, <2>1
    <2>3. clients[s].workspace = w
      BY <2>2, NothingIsNothing DEF Holds
    <2>4. QED
      BY <2>2, <2>3
  <1>5. QED
    BY <1>1, <1>2, <1>3, <1>4

LEMMA ClosedIsClient ==
  ASSUME NEW w \in Workspace, NEW paired, NEW device \in paired \cup {Nothing},
         NEW client, client = Session(w, "closed", device)
  PROVE  /\ Client(client, paired) /\ client # NoSession /\ client.state = "closed"
         /\ client.workspace = w /\ client.device = device
  <1>1. /\ "closed" \in {"waiting", "pairing", "up", "down", "closed"}
        /\ "closed" \notin {"pairing", "up", "down"} /\ "closed" # "waiting"
    OBVIOUS
  <1>2. QED
    BY <1>1, SessionIsClient

LEMMA ClosedEffect ==
  ASSUME NEW clients, NEW paired, Clients(clients, paired), NEW s \in Slot, clients[s] # NoSession,
         NEW next, next = Closed(clients, s)
  PROVE  /\ Clients(next, paired)
         /\ next[s] # NoSession /\ next[s].state = "closed"
         /\ next[s].workspace = clients[s].workspace /\ next[s].device = clients[s].device
         /\ \A c \in Slot : c # s => next[c] = clients[c]
  <1> DEFINE client == [clients[s] EXCEPT !.state = "closed"]
  <1>1. Client(clients[s], paired)
    BY DEF Clients
  <1>2. client = Session(clients[s].workspace, "closed", clients[s].device)
    BY <1>1 DEF Client, Session
  <1>3. next = [clients EXCEPT ![s] = client]
    BY DEF Closed
  <1>4. /\ Client(client, paired) /\ client # NoSession /\ client.state = "closed"
        /\ client.workspace = clients[s].workspace /\ client.device = clients[s].device
    <2> HIDE DEF client
    <2>1. clients[s].workspace \in Workspace /\ clients[s].device \in paired \cup {Nothing}
      BY <1>1 DEF Client
    <2>2. QED
      BY <1>2, <2>1, ClosedIsClient
  <1> HIDE DEF client
  <1>5. QED
    BY <1>3, <1>4 DEF Clients

\* One connection per device.
LEMMA ConnectedEffect ==
  ASSUME NEW clients, NEW paired, Clients(clients, paired), NEW s, NEW device,
         NEW next, next = Connected(clients, s, device)
  PROVE  /\ Clients(next, paired)
         /\ \A c \in Slot : next[c] = NoSession <=> clients[c] = NoSession
         /\ \A c \in Slot : clients[c] # NoSession =>
               /\ next[c].workspace = clients[c].workspace /\ next[c].device = clients[c].device
               /\ next[c].state = clients[c].state
                  \/ (next[c].state = "closed" /\ clients[c].state = "up")
         /\ s \in Slot => next[s] = clients[s]
  <1>1. ASSUME NEW c \in Slot
        PROVE  /\ next[c] = NoSession \/ Client(next[c], paired)
               /\ next[c] = NoSession <=> clients[c] = NoSession
               /\ clients[c] # NoSession =>
                     /\ next[c].workspace = clients[c].workspace
                     /\ next[c].device = clients[c].device
                     /\ next[c].state = clients[c].state
                        \/ (next[c].state = "closed" /\ clients[c].state = "up")
               /\ c = s => next[c] = clients[c]
    <2>1. CASE c # s /\ clients[c].state = "up" /\ clients[c].device = device
      <3> DEFINE client == [clients[c] EXCEPT !.state = "closed"]
      <3>1. clients[c] # NoSession
        BY <2>1 DEF NoSession
      <3>2. Client(clients[c], paired)
        BY <3>1 DEF Clients
      <3>3. client = Session(clients[c].workspace, "closed", clients[c].device)
        BY <3>2 DEF Client, Session
      <3>4. next[c] = client
        BY <2>1 DEF Connected
      <3> HIDE DEF client
      <3>5. clients[c].workspace \in Workspace /\ clients[c].device \in paired \cup {Nothing}
        BY <3>2 DEF Client
      <3>6. /\ Client(client, paired) /\ client # NoSession /\ client.state = "closed"
            /\ client.workspace = clients[c].workspace /\ client.device = clients[c].device
        BY <3>3, <3>5, ClosedIsClient
      <3>7. QED
        BY <2>1, <3>1, <3>4, <3>6
    <2>2. CASE ~(c # s /\ clients[c].state = "up" /\ clients[c].device = device)
      <3>1. next[c] = clients[c]
        BY <2>2 DEF Connected
      <3>2. QED
        BY <3>1 DEF Clients
    <2>3. QED
      BY <2>1, <2>2
  <1>2. next = [c \in Slot |-> next[c]]
    BY DEF Connected
  <1>3. Clients(next, paired)
    BY <1>1, <1>2 DEF Clients
  <1>4. QED
    BY <1>1, <1>3

LEMMA FreshSlot ==
  ASSUME FreeSlots # {}
  PROVE  FreeSlot \in Slot /\ sessions[FreeSlot] = NoSession
  BY DEF FreeSlots, FreeSlot

LEMMA SessionsStart == SessionsInit => SessionsInv
  <1> SUFFICES ASSUME SessionsInit PROVE SessionsInv
    OBVIOUS
  <1>1. Paired = {} /\ devices = <<>>
    BY DEF SessionsInit, Paired
  <1>2. DevicesShape
    <2>1. Paired = 1..0 /\ 0 \in Nat
      BY <1>1
    <2>2. devices = [d \in Paired |-> devices[d]]
      BY DEF SessionsInit, Paired
    <2>3. QED
      BY <1>1, <2>1, <2>2 DEF SessionsInit, DevicesShape
  <1>3. SessionsShape
    BY NoSessionIsNone, NothingIsNothing
    DEF SessionsInit, SessionsShape, Clients, Holds, Tidied
  <1>4. Rules
    BY NoSessionIsNone DEF SessionsInit, Rules, SessionsOwn, OpeningsOwn, RowsOwn, ForeignAlone,
       PairingAlone, WaitingMapped, HasDevice, HasRow
  <1>5. QED
    BY <1>2, <1>3, <1>4 DEF SessionsInv

\* A workspace has paired one device, and an account is that of one device.
LEMMA GoodDevices ==
  ASSUME Good, NEW d \in Paired, NEW e \in Paired,
         devices[d].by = devices[e].by \/ devices[d].account = devices[e].account
  PROVE  d = e
  BY DEF Good, PairedOnce

\* Devices stay with who paired them, and what has gone wrong stays so.
DevicesKept ==
    /\ Paired \subseteq Paired'
    /\ \A d \in Paired : devices'[d].by = devices[d].by /\ devices'[d].account = devices[d].account
    /\ irregular => irregular'

LEMMA GoodBefore == DevicesKept /\ Good' => Good
  BY DEF DevicesKept, Good, PairedOnce

LEMMA RowUnlinked ==
  ASSUME NEW row, DeviceRow(row), NEW next, next = [row EXCEPT !.linked = FALSE]
  PROVE  next = [account |-> row.account, by |-> row.by, stored |-> row.stored, linked |-> FALSE]
  BY DEF DeviceRow

LEMMA RowUnstored ==
  ASSUME NEW row, DeviceRow(row), NEW next, next = [row EXCEPT !.stored = FALSE]
  PROVE  next = [account |-> row.account, by |-> row.by, stored |-> FALSE, linked |-> row.linked]
  BY DEF DeviceRow

LEMMA DeviceMarked ==
  ASSUME DevicesShape, NEW d,
         \/ devices' = Logout(d)
         \/ devices' = [devices EXCEPT ![d].linked = FALSE]
         \/ devices' = [devices EXCEPT ![d].stored = FALSE]
  PROVE  /\ Paired' = Paired /\ devices' = [e \in Paired' |-> devices'[e]]
         /\ \A e \in Paired : /\ DeviceRow(devices'[e]) /\ devices'[e].by = devices[e].by
                              /\ devices'[e].account = devices[e].account
                              /\ devices'[e].linked => devices[e].linked
                              /\ e # d => devices'[e] = devices[e]
  <1>1. Paired' = Paired /\ devices' = [e \in Paired' |-> devices'[e]]
        /\ \A e \in Paired : e # d => devices'[e] = devices[e]
    BY DEF DevicesShape, Paired, Logout
  <1>2. ASSUME d \in Paired
        PROVE  /\ DeviceRow(devices'[d]) /\ devices'[d].by = devices[d].by
               /\ devices'[d].account = devices[d].account
               /\ devices'[d].linked => devices[d].linked
    <2>1. CASE devices' = Logout(d)
      BY <1>2, <2>1 DEF DevicesShape, DeviceRow, Logout, Paired
    <2>2. CASE devices' = [devices EXCEPT ![d].linked = FALSE]
      <3> DEFINE row == [devices[d] EXCEPT !.linked = FALSE]
      <3>1. devices' = [devices EXCEPT ![d] = row]
        BY <2>2
      <3>2. DeviceRow(devices[d])
        BY <1>2 DEF DevicesShape
      <3>3. row = [account |-> devices[d].account, by |-> devices[d].by,
                   stored |-> devices[d].stored, linked |-> FALSE]
        BY <3>2, RowUnlinked
      <3> HIDE DEF row
      <3>4. /\ DeviceRow(row) /\ row.by = devices[d].by /\ row.account = devices[d].account
            /\ row.linked => devices[d].linked
        BY <3>2, <3>3 DEF DeviceRow
      <3>5. QED
        BY <1>2, <3>1, <3>4 DEF Paired
    <2>3. CASE devices' = [devices EXCEPT ![d].stored = FALSE]
      <3> DEFINE row == [devices[d] EXCEPT !.stored = FALSE]
      <3>1. devices' = [devices EXCEPT ![d] = row]
        BY <2>3
      <3>2. DeviceRow(devices[d])
        BY <1>2 DEF DevicesShape
      <3>3. row = [account |-> devices[d].account, by |-> devices[d].by,
                   stored |-> FALSE, linked |-> devices[d].linked]
        BY <3>2, RowUnstored
      <3> HIDE DEF row
      <3>4. /\ DeviceRow(row) /\ row.by = devices[d].by /\ row.account = devices[d].account
            /\ row.linked => devices[d].linked
        BY <3>2, <3>3 DEF DeviceRow
      <3>5. QED
        BY <1>2, <3>1, <3>4 DEF Paired
    <2>4. QED
      BY <2>1, <2>2, <2>3
  <1>3. QED
    BY <1>1, <1>2 DEF DevicesShape

LEMMA MarkedKeeps ==
  ASSUME DevicesShape, NEW d,
         \/ devices' = Logout(d)
         \/ devices' = [devices EXCEPT ![d].linked = FALSE]
         \/ devices' = [devices EXCEPT ![d].stored = FALSE],
         irregular' = irregular
  PROVE  DevicesShape' /\ DevicesKept
  <1>1. /\ Paired' = Paired /\ devices' = [e \in Paired' |-> devices'[e]]
        /\ \A e \in Paired : /\ DeviceRow(devices'[e]) /\ devices'[e].by = devices[e].by
                             /\ devices'[e].account = devices[e].account
    BY DeviceMarked
  <1>2. QED
    BY <1>1 DEF DevicesShape, DevicesKept

\* A device is paired.
LEMMA ScanDevices ==
  ASSUME DevicesShape, NEW s \in Slot, NEW a, Scan(s, a), NEW n, n = Cardinality(Paired) + 1
  PROVE  /\ n \notin Paired /\ n # Nothing /\ Paired' = Paired \cup {n}
         /\ \A d \in Paired : devices'[d] = devices[d]
         /\ devices'[n] = [account |-> a, by |-> sessions[s].workspace, stored |-> TRUE, linked |-> TRUE]
         /\ devices' = [d \in Paired' |-> devices'[d]]
  <1>1. PICK m \in Nat : Paired = 1..m
    BY DEF DevicesShape
  <1>2. n = m + 1
    <2>1. Cardinality(1..m) = m
      BY FS_Interval
    <2>2. QED
      BY <1>1, <2>1
  <1>3. PICK row : row = [account |-> a, by |-> sessions[s].workspace,
                          stored |-> TRUE, linked |-> TRUE]
    OBVIOUS
  <1>4. devices' = [d \in 1..n |-> IF d \in Paired THEN devices[d] ELSE row]
    BY <1>3 DEF Scan
  <1>5. /\ n \notin Paired /\ n # Nothing /\ Paired' = Paired \cup {n}
        /\ \A d \in Paired : devices'[d] = devices[d]
        /\ devices'[n] = row
        /\ devices' = [d \in Paired' |-> devices'[d]]
    BY <1>1, <1>2, <1>4 DEF Paired, Nothing
  <1>6. QED
    BY <1>3, <1>5

LEMMA ScanKeeps ==
  ASSUME DevicesShape, NEW s \in Slot, NEW a, Scan(s, a)
  PROVE  DevicesShape' /\ DevicesKept
  <1> DEFINE n == Cardinality(Paired) + 1
  <1>1. /\ Paired' = Paired \cup {n}
        /\ \A d \in Paired : devices'[d] = devices[d]
        /\ devices'[n] = [account |-> a, by |-> sessions[s].workspace, stored |-> TRUE, linked |-> TRUE]
        /\ devices' = [d \in Paired' |-> devices'[d]]
    BY ScanDevices
  <1>2. irregular' = irregular
    BY DEF Scan, Regular
  <1>3. PICK m \in Nat : Paired = 1..m
    BY DEF DevicesShape
  <1>4. n = m + 1
    <2>1. Cardinality(1..m) = m
      BY FS_Interval
    <2>2. QED
      BY <1>3, <2>1
  <1>5. Paired' = 1..(m + 1)
    BY <1>1, <1>3, <1>4
  <1>6. DeviceRow(devices'[n])
    BY <1>1 DEF DeviceRow
  <1> HIDE DEF n
  <1>7. \A d \in Paired' : DeviceRow(devices'[d])
    BY <1>1, <1>6 DEF DevicesShape
  <1>8. DevicesShape'
    BY <1>1, <1>2, <1>5, <1>7 DEF DevicesShape
  <1>9. QED
    BY <1>1, <1>2, <1>8 DEF DevicesKept

\* The rows, the devices and the map stay; no session begins, changes hands, or
\* comes to display a code or to pair a device, and none that pairs stops.
Continues(s) ==
    /\ sessions[s] # NoSession
    /\ sessions'[s].workspace = sessions[s].workspace /\ sessions'[s].device = sessions[s].device
    /\ sessions'[s].state = "pairing" <=> sessions[s].state = "pairing"
    /\ sessions'[s].state = "waiting" => sessions[s].state = "waiting"

LEMMA ShapeStays ==
  ASSUME DevicesShape, SessionsShape, UNCHANGED <<channel, devices, mapped, opening>>,
         Clients(sessions', Paired), Holds(mapped, sessions'), Tidied(mapped, sessions')
  PROVE  SessionsShape'
  <1>1. Paired' = Paired
    BY DEF Paired
  <1>2. QED
    BY <1>1 DEF SessionsShape, Clients, Client, Holds, Tidied, ChannelOf

LEMMA QuietKeeps ==
  ASSUME DevicesShape, SessionsShape, Good, Rules,
         UNCHANGED <<channel, devices, mapped, opening>>,
         \A s \in Slot : sessions'[s] = NoSession \/ Continues(s)
  PROVE  Rules'
  <1>1. /\ Paired' = Paired
        /\ \A w \in Workspace : HasRow(w)' = HasRow(w)
        /\ \A w \in Workspace, d \in Paired : Owns(w, d)' = Owns(w, d)
    BY DEF Paired, HasRow, Owns
  <1>2. \A s \in Slot : HasDevice(s)' => HasDevice(s) /\ Continues(s)
    BY DEF HasDevice, Continues
  <1>3. \A s \in Slot : sessions'[s] # NoSession => sessions[s] # NoSession /\ Continues(s)
    BY DEF Continues
  <1>4. \A s \in Slot : sessions'[s].state \in {"pairing", "waiting"} => Continues(s)
    BY NoSessionIsNone
  <1>5. SessionsOwn'
    BY <1>2 DEF Rules, SessionsOwn, Continues, Owns
  <1>6. OpeningsOwn' /\ RowsOwn'
    BY DEF Rules, OpeningsOwn, RowsOwn, Owns, HasRow
  <1>7. ForeignAlone'
    BY <1>2, <1>3 DEF Rules, ForeignAlone, Continues, HasRow
  <1>8. PairingAlone'
    BY <1>2, <1>4 DEF Rules, PairingAlone, Continues, HasRow
  <1>9. WaitingMapped'
    BY <1>1, <1>4 DEF Rules, WaitingMapped, Continues
  <1>10. QED
    BY <1>5, <1>6, <1>7, <1>8, <1>9 DEF Rules

\* The conclusion of every step.
LEMMA CodesRunOutKeeps ==
  ASSUME DevicesShape, SessionsShape, Good, Rules, NEW s \in Slot, CodesRunOut(s)
  PROVE  SessionsShape' /\ Rules'
  <1>1. PICK closed : closed = Closed(sessions, s)
    OBVIOUS
  <1>2. sessions[s] # NoSession
    BY NoSessionIsNone DEF CodesRunOut
  <1>3. Clients(sessions, Paired) /\ Holds(mapped, sessions)
    BY DEF SessionsShape
  <1>4. /\ Clients(closed, Paired) /\ closed[s] # NoSession /\ closed[s].state = "closed"
        /\ closed[s].workspace = sessions[s].workspace /\ closed[s].device = sessions[s].device
        /\ \A c \in Slot : c # s => closed[c] = sessions[c]
    BY <1>1, <1>2, <1>3, ClosedEffect
  <1>5. Holds(mapped, closed)
    BY <1>3, <1>4 DEF Holds
  <1>6. sessions' = Tidy(closed, mapped) /\ UNCHANGED <<channel, devices, mapped, opening>>
    BY <1>1 DEF CodesRunOut
  <1>7. /\ Clients(sessions', Paired) /\ Holds(mapped, sessions') /\ Tidied(mapped, sessions')
        /\ \A c \in Slot : sessions'[c] = NoSession \/ sessions'[c] = closed[c]
    BY <1>4, <1>5, <1>6, TidyEffect
  <1>8. \A c \in Slot : sessions'[c] = NoSession \/ Continues(c)
    <2> SUFFICES ASSUME NEW c \in Slot, sessions'[c] # NoSession
                 PROVE  Continues(c)
      OBVIOUS
    <2>1. sessions'[c] = closed[c]
      BY <1>7
    <2>2. CASE c = s
      BY <1>2, <1>4, <2>1, <2>2 DEF Continues, CodesRunOut
    <2>3. CASE c # s
      BY <1>4, <2>1, <2>3 DEF Continues
    <2>4. QED
      BY <2>2, <2>3
  <1>9. QED
    BY <1>6, <1>7, <1>8, ShapeStays, QuietKeeps

LEMMA RestatedIsClient ==
  ASSUME NEW paired, NEW c, Client(c, paired), NEW state \in {"up", "down"}, c.device \in paired,
         NEW next, next = [c EXCEPT !.state = state]
  PROVE  /\ Client(next, paired) /\ next # NoSession /\ next.state = state
         /\ next.workspace = c.workspace /\ next.device = c.device
  <1>1. next = Session(c.workspace, state, c.device)
    BY DEF Client, Session
  <1>2. c.workspace \in Workspace /\ c.device \in paired \cup {Nothing}
    BY DEF Client
  <1>3. /\ state \in {"waiting", "pairing", "up", "down", "closed"}
        /\ state \in {"pairing", "up", "down"} => c.device \in paired
        /\ state = "waiting" => c.device = Nothing
    OBVIOUS
  <1>4. QED
    BY <1>1, <1>2, <1>3, SessionIsClient

LEMMA ConnectionLostKeeps ==
  ASSUME DevicesShape, SessionsShape, Good, Rules, NEW s \in Slot, ConnectionLost(s)
  PROVE  SessionsShape' /\ Rules'
  <1>1. PICK client : client = [sessions[s] EXCEPT !.state = "down"]
    OBVIOUS
  <1>2. sessions[s] # NoSession /\ sessions[s].state = "up"
    BY NoSessionIsNone DEF ConnectionLost
  <1>3. Clients(sessions, Paired) /\ Holds(mapped, sessions) /\ Tidied(mapped, sessions)
    BY DEF SessionsShape
  <1>4. Client(sessions[s], Paired) /\ sessions[s].device \in Paired
    BY <1>2, <1>3 DEF Clients, Client
  <1>5. /\ Client(client, Paired) /\ client # NoSession /\ client.state = "down"
        /\ client.workspace = sessions[s].workspace /\ client.device = sessions[s].device
    BY <1>1, <1>4, RestatedIsClient
  <1>6. sessions' = [sessions EXCEPT ![s] = client] /\ UNCHANGED <<channel, devices, mapped, opening>>
    BY <1>1 DEF ConnectionLost
  <1>7. /\ Clients(sessions', Paired)
        /\ \A c \in Slot : sessions'[c] = IF c = s THEN client ELSE sessions[c]
    BY <1>3, <1>5, <1>6 DEF Clients
  <1>8. Holds(mapped, sessions') /\ Tidied(mapped, sessions')
    BY <1>3, <1>5, <1>7 DEF Holds, Tidied
  <1>9. \A c \in Slot : sessions'[c] = NoSession \/ Continues(c)
    BY <1>2, <1>5, <1>7 DEF Continues
  <1>10. QED
    BY <1>6, <1>7, <1>8, <1>9, ShapeStays, QuietKeeps

LEMMA ReconnectKeeps ==
  ASSUME DevicesShape, SessionsShape, Good, Rules, NEW s \in Slot, Reconnect(s)
  PROVE  SessionsShape' /\ Rules'
  <1>1. PICK lost : lost = Connected(sessions, s, sessions[s].device)
    OBVIOUS
  <1>2. sessions[s] # NoSession /\ sessions[s].state \in {"down", "closed"}
    BY NoSessionIsNone DEF Reconnect
  <1>3. Clients(sessions, Paired) /\ Holds(mapped, sessions)
    BY DEF SessionsShape
  <1>4. Client(sessions[s], Paired) /\ sessions[s].device \in Paired
    BY <1>2, <1>3 DEF Clients, Client, Reconnect
  <1>5. /\ Clients(lost, Paired)
        /\ \A c \in Slot : lost[c] = NoSession <=> sessions[c] = NoSession
        /\ \A c \in Slot : sessions[c] # NoSession =>
              /\ lost[c].workspace = sessions[c].workspace /\ lost[c].device = sessions[c].device
              /\ lost[c].state = sessions[c].state
                 \/ (lost[c].state = "closed" /\ sessions[c].state = "up")
        /\ lost[s] = sessions[s]
    BY <1>1, <1>3, ConnectedEffect
  <1>6. PICK client : client = [lost[s] EXCEPT !.state = "up"]
    OBVIOUS
  <1>7. /\ Client(client, Paired) /\ client # NoSession /\ client.state = "up"
        /\ client.workspace = sessions[s].workspace /\ client.device = sessions[s].device
    BY <1>4, <1>5, <1>6, RestatedIsClient
  <1>8. PICK open : open = [lost EXCEPT ![s] = client]
    OBVIOUS
  <1>9. /\ Clients(open, Paired)
        /\ \A c \in Slot : open[c] = IF c = s THEN client ELSE lost[c]
    BY <1>5, <1>7, <1>8 DEF Clients
  <1>10. sessions' = Tidy(open, mapped) /\ UNCHANGED <<channel, devices, mapped, opening>>
    BY <1>1, <1>6, <1>8 DEF Reconnect
  <1>11. Holds(mapped, open)
    BY <1>3, <1>5, <1>7, <1>9 DEF Holds
  <1>12. /\ Clients(sessions', Paired) /\ Holds(mapped, sessions') /\ Tidied(mapped, sessions')
         /\ \A c \in Slot : sessions'[c] = NoSession \/ sessions'[c] = open[c]
    BY <1>9, <1>10, <1>11, TidyEffect
  <1>13. \A c \in Slot : sessions'[c] = NoSession \/ Continues(c)
    <2> SUFFICES ASSUME NEW c \in Slot, sessions'[c] # NoSession
                 PROVE  Continues(c)
      OBVIOUS
    <2>1. sessions'[c] = open[c]
      BY <1>12
    <2>2. CASE c = s
      BY <1>2, <1>7, <1>9, <2>1, <2>2 DEF Continues
    <2>3. CASE c # s
      BY <1>5, <1>9, <2>1, <2>3 DEF Continues
    <2>4. QED
      BY <2>2, <2>3
  <1>14. QED
    BY <1>10, <1>12, <1>13, ShapeStays, QuietKeeps

LEMMA UnlinkKeeps ==
  ASSUME DevicesShape, SessionsShape, Good, Rules, NEW d \in Paired, Unlink(d)
  PROVE  SessionsShape' /\ Rules'
  <1>1. /\ Paired' = Paired
        /\ \A e \in Paired : /\ devices'[e].by = devices[e].by
                             /\ devices'[e].account = devices[e].account
                             /\ devices'[e].linked => devices[e].linked
    BY DeviceMarked DEF Unlink
  <1>2. UNCHANGED <<channel, sessions, mapped, opening>>
    BY DEF Unlink
  <1>3. SessionsShape'
    BY <1>1, <1>2 DEF SessionsShape
  <1>4. /\ \A s \in Slot : HasDevice(s) => sessions[s].device \in Paired
        /\ \A s \in Slot : sessions[s].state = "pairing" => sessions[s].device \in Paired
    BY NoSessionIsNone DEF SessionsShape, Clients, Client, HasDevice
  <1>5. \A w \in Workspace : /\ opening[w] # Nothing => opening[w] \in Paired
                             /\ HasRow(w) => channel[w].device \in Paired
    BY DEF SessionsShape, ChannelOf, HasRow
  <1>6. SessionsOwn'
    <2> SUFFICES ASSUME NEW s \in Slot, HasDevice(s), sessions[s].state # "pairing",
                        devices'[sessions[s].device].linked
                 PROVE  /\ channel[sessions[s].workspace].status = "active"
                        /\ channel[sessions[s].workspace].account = devices'[sessions[s].device].account
                        /\ mapped[sessions[s].workspace] # Nothing
      BY <1>2 DEF SessionsOwn, HasDevice, Owns
    <2>1. QED
      BY <1>1, <1>4 DEF Rules, SessionsOwn, Owns
  <1>7. OpeningsOwn' /\ RowsOwn'
    BY <1>1, <1>2, <1>5 DEF Rules, OpeningsOwn, RowsOwn, Owns, HasRow
  <1>8. ForeignAlone'
    BY <1>1, <1>2, <1>4 DEF Rules, ForeignAlone, HasDevice, HasRow
  <1>9. PairingAlone'
    BY <1>1, <1>2, <1>4 DEF Rules, PairingAlone, HasDevice, HasRow
  <1>10. WaitingMapped'
    BY <1>1, <1>2 DEF Rules, WaitingMapped
  <1>11. QED
    BY <1>3, <1>6, <1>7, <1>8, <1>9, <1>10 DEF Rules

LEMMA LookUpDeviceKeeps ==
  ASSUME DevicesShape, SessionsShape, Good, Rules, NEW w \in Workspace, LookUpDevice(w)
  PROVE  SessionsShape' /\ Rules'
  <1>1. PICK d : d = channel[w].device
    OBVIOUS
  <1>2. /\ UNCHANGED <<channel, devices, sessions, mapped>> /\ Paired' = Paired
        /\ opening' = [opening EXCEPT ![w] = d] /\ opening[w] = Nothing
        /\ channel[w].status = "active" /\ d # Nothing
    BY <1>1 DEF LookUpDevice, Paired
  <1>3. HasRow(w) /\ d \in Paired
    BY <1>1, <1>2, NoSessionIsNone DEF HasRow, SessionsShape, ChannelOf
  <1>4. \A v \in Workspace : opening'[v] = IF v = w THEN d ELSE opening[v]
    BY <1>2 DEF SessionsShape
  <1>5. SessionsShape'
    BY <1>2, <1>3 DEF SessionsShape
  <1>6. devices[d].by = w /\ Owns(w, d)
    BY <1>1, <1>2, <1>3 DEF Rules, RowsOwn, Owns
  <1>7. SessionsOwn' /\ RowsOwn' /\ WaitingMapped'
    BY <1>2 DEF Rules, SessionsOwn, RowsOwn, WaitingMapped, HasDevice, HasRow, Owns
  <1>8. OpeningsOwn'
    BY <1>2, <1>4, <1>6 DEF Rules, OpeningsOwn, Owns
  <1>9. ForeignAlone'
    BY <1>2, <1>3, <1>4 DEF Rules, ForeignAlone, HasDevice, HasRow
  <1>10. PairingAlone'
    BY <1>1, <1>2, <1>3, <1>4 DEF Rules, PairingAlone, HasDevice, HasRow
  <1>11. QED
    BY <1>5, <1>7, <1>8, <1>9, <1>10 DEF Rules

\* The row of a workspace none of whose sessions or devices are in use.
LEMMA ConnectCloudApiKeeps ==
  ASSUME DevicesShape, SessionsShape, Good, Rules, NEW w \in Workspace, NEW a, NEW known,
         ConnectCloudApi(w, a, known), ~irregular'
  PROVE  SessionsShape' /\ Rules'
  <1>1. PICK r : r = ChannelRow("active", a, AccountKey(a, known), Nothing)
    OBVIOUS
  <1>2. /\ UNCHANGED <<devices, sessions, mapped, opening>> /\ Paired' = Paired
        /\ channel' = [channel EXCEPT ![w] = r]
        /\ mapped[w] = Nothing /\ opening[w] = Nothing
    BY <1>1 DEF ConnectCloudApi, Paired
  <1>3. ChannelOf(r, Paired) /\ r.device = Nothing
    BY <1>1 DEF ChannelOf, ChannelRow, AccountKey
  <1>4. \A v \in Workspace : channel'[v] = IF v = w THEN r ELSE channel[v]
    BY <1>2 DEF SessionsShape
  <1>5. SessionsShape'
    BY <1>2, <1>3 DEF SessionsShape
  <1>6. \A v \in Workspace : HasRow(v)' => v # w /\ HasRow(v)
    BY <1>3, <1>4 DEF HasRow
  <1>7. \A s \in Slot : sessions[s] # NoSession => sessions[s].workspace \in Workspace
    BY DEF SessionsShape, Clients, Client
  <1>8. SessionsOwn'
    <2> SUFFICES ASSUME NEW s \in Slot, HasDevice(s), sessions[s].state # "pairing",
                        devices[sessions[s].device].linked
                 PROVE  /\ channel'[sessions[s].workspace].status = "active"
                        /\ channel'[sessions[s].workspace].account = devices[sessions[s].device].account
                        /\ mapped[sessions[s].workspace] # Nothing
      BY <1>2 DEF SessionsOwn, HasDevice, Owns
    <2>1. /\ Owns(sessions[s].workspace, sessions[s].device)
          /\ mapped[sessions[s].workspace] # Nothing
      BY DEF Rules, SessionsOwn
    <2>2. sessions[s].workspace \in Workspace \ {w}
      BY <1>2, <1>7, <2>1 DEF HasDevice
    <2>3. QED
      BY <1>4, <2>1, <2>2 DEF Owns
  <1>9. OpeningsOwn' /\ RowsOwn' /\ WaitingMapped'
    BY <1>2, <1>4, <1>6 DEF Rules, OpeningsOwn, RowsOwn, WaitingMapped, Owns
  <1>10. ForeignAlone'
    BY <1>2, <1>6, <1>7 DEF Rules, ForeignAlone, HasDevice
  <1>11. PairingAlone'
    BY <1>2, <1>4, <1>6 DEF Rules, PairingAlone, HasDevice
  <1>12. QED
    BY <1>5, <1>8, <1>9, <1>10, <1>11 DEF Rules

LEMMA PairingIsClient ==
  ASSUME NEW w \in Workspace, NEW paired, NEW device \in paired,
         NEW client, client = Session(w, "pairing", device)
  PROVE  /\ Client(client, paired) /\ client # NoSession /\ client.state = "pairing"
         /\ client.workspace = w /\ client.device = device
  <1>1. /\ "pairing" \in {"waiting", "pairing", "up", "down", "closed"}
        /\ "pairing" # "waiting"
    OBVIOUS
  <1>2. QED
    BY <1>1, SessionIsClient

LEMMA ScanPairs ==
  ASSUME DevicesShape, SessionsShape, Good, Rules, NEW s \in Slot, NEW a, Scan(s, a), Good'
  PROVE  SessionsShape' /\ Rules'
  <1>1. PICK n : n = Cardinality(Paired) + 1
    OBVIOUS
  <1>2. /\ n \notin Paired /\ n # Nothing /\ Paired' = Paired \cup {n}
        /\ \A d \in Paired : devices'[d] = devices[d]
        /\ devices'[n].by = sessions[s].workspace
    <2>1. /\ n \notin Paired /\ n # Nothing /\ Paired' = Paired \cup {n}
          /\ \A d \in Paired : devices'[d] = devices[d]
          /\ devices'[n] = [account |-> a, by |-> sessions[s].workspace,
                            stored |-> TRUE, linked |-> TRUE]
      BY <1>1, ScanDevices
    <2>2. QED
      BY <2>1
  <1>3. PICK w : w = sessions[s].workspace
    OBVIOUS
  <1>4. PICK client : client = Session(w, "pairing", n)
    OBVIOUS
  <1>5. /\ sessions[s].state = "waiting" /\ UNCHANGED <<channel, mapped, opening>>
        /\ sessions' = [sessions EXCEPT ![s] = client]
    BY <1>1, <1>3, <1>4 DEF Scan
  <1>6. sessions[s] # NoSession /\ w \in Workspace /\ n \in Paired'
    BY <1>2, <1>3, <1>5, NoSessionIsNone DEF SessionsShape, Clients, Client
  <1>7. /\ Client(client, Paired') /\ client # NoSession /\ client.state = "pairing"
        /\ client.workspace = w /\ client.device = n
    BY <1>4, <1>6, PairingIsClient
  <1>8. \A c \in Slot : sessions'[c] = IF c = s THEN client ELSE sessions[c]
    BY <1>5 DEF SessionsShape, Clients
  <1>9. SessionsShape'
    <2>1. Clients(sessions', Paired')
      BY <1>2, <1>5, <1>7 DEF SessionsShape, Clients, Client
    <2>2. Holds(mapped', sessions') /\ Tidied(mapped', sessions')
      BY <1>3, <1>5, <1>7, <1>8 DEF SessionsShape, Holds, Tidied
    <2>3. /\ channel' = [v \in Workspace |-> channel'[v]]
          /\ \A v \in Workspace : channel'[v] = NoChannel \/ ChannelOf(channel'[v], Paired')
          /\ opening' \in [Workspace -> Paired' \cup {Nothing}]
          /\ mapped' \in [Workspace -> Slot \cup {Nothing}]
      BY <1>2, <1>5 DEF SessionsShape, ChannelOf
    <2>4. QED
      BY <2>1, <2>2, <2>3 DEF SessionsShape
  \* The workspace had no device: it would have paired two.
  <1>10. \A d \in Paired : devices[d].by # w
    <2> SUFFICES ASSUME NEW d \in Paired, devices[d].by = w PROVE FALSE
      OBVIOUS
    <2>1. devices'[d].by = devices'[n].by
      BY <1>2, <1>3
    <2>2. QED
      BY <1>2, <2>1 DEF Good, PairedOnce
  <1>11. mapped[w] = s
    BY <1>3, <1>5, <1>10 DEF Rules, WaitingMapped
  <1>12. /\ \A c \in Slot : HasDevice(c) => sessions[c].device \in Paired
         /\ \A c \in Slot : sessions[c].state = "pairing" => sessions[c].device \in Paired
         /\ \A v \in Workspace : /\ opening[v] # Nothing => opening[v] \in Paired
                                 /\ HasRow(v) => channel[v].device \in Paired
    BY NoSessionIsNone DEF SessionsShape, Clients, Client, ChannelOf, HasDevice, HasRow
  <1>13. /\ \A c \in Slot : c # s => (HasDevice(c)' <=> HasDevice(c))
         /\ \A v \in Workspace : HasRow(v)' <=> HasRow(v)
    BY <1>5, <1>8 DEF HasDevice, HasRow
  <1>14. SessionsOwn'
    <2> SUFFICES ASSUME NEW c \in Slot, c # s, HasDevice(c), sessions[c].state # "pairing",
                        devices'[sessions[c].device].linked
                 PROVE  /\ channel[sessions[c].workspace].status = "active"
                        /\ channel[sessions[c].workspace].account = devices'[sessions[c].device].account
                        /\ mapped[sessions[c].workspace] # Nothing
      BY <1>5, <1>7, <1>8, <1>13 DEF SessionsOwn, Owns
    <2>1. devices'[sessions[c].device] = devices[sessions[c].device]
      BY <1>2, <1>12
    <2>2. QED
      BY <2>1 DEF Rules, SessionsOwn, Owns
  <1>15. OpeningsOwn' /\ RowsOwn'
    BY <1>2, <1>5, <1>12, <1>13 DEF Rules, OpeningsOwn, RowsOwn, Owns
  <1>16. ForeignAlone'
    <2> SUFFICES ASSUME NEW c \in Slot, HasDevice(c)', NEW v, v = sessions'[c].workspace,
                        devices'[sessions'[c].device].by # v
                 PROVE  /\ mapped[v] = c /\ opening[v] = Nothing /\ ~HasRow(v)'
                        /\ \A e \in Slot : sessions'[e] # NoSession /\ sessions'[e].workspace = v
                                           => e = c
      BY <1>5 DEF ForeignAlone
    <2>1. c # s
      BY <1>2, <1>3, <1>7, <1>8
    <2>2. /\ HasDevice(c) /\ sessions'[c] = sessions[c]
          /\ devices[sessions[c].device].by # sessions[c].workspace
      BY <1>2, <1>8, <1>12, <1>13, <2>1
    <2>3. v = sessions[c].workspace
      BY <2>2
    <2>4. /\ mapped[v] = c /\ opening[v] = Nothing /\ ~HasRow(v)
          /\ \A e \in Slot : sessions[e] # NoSession /\ sessions[e].workspace = v => e = c
      BY <2>2, <2>3 DEF Rules, ForeignAlone
    <2>5. v # w
      BY <1>3, <1>6, <2>1, <2>4
    <2>6. v \in Workspace
      BY <2>2, <2>3 DEF HasDevice, SessionsShape, Clients, Client
    <2>7. \A e \in Slot : sessions'[e] # NoSession /\ sessions'[e].workspace = v => e = c
      BY <1>7, <1>8, <2>4, <2>5
    <2>8. QED
      BY <1>13, <2>2, <2>3, <2>4, <2>6, <2>7
  <1>17. PairingAlone'
    <2> SUFFICES ASSUME NEW c \in Slot, sessions'[c].state = "pairing"
                 PROVE  /\ devices'[sessions'[c].device].by = sessions'[c].workspace
                        /\ mapped[sessions'[c].workspace] = c
                        /\ \A e \in Slot : HasDevice(e)' /\ sessions'[e].device = sessions'[c].device
                                           => e = c
                        /\ \A v \in Workspace : /\ opening[v] # sessions'[c].device
                                                /\ HasRow(v) => channel[v].device # sessions'[c].device
      BY <1>5, <1>13 DEF PairingAlone
    <2>1. CASE c = s
      <3>1. \A e \in Slot : HasDevice(e)' /\ sessions'[e].device = n => e = c
        BY <1>2, <1>8, <1>12, <1>13, <2>1
      <3>2. \A v \in Workspace : opening[v] # n /\ (HasRow(v) => channel[v].device # n)
        BY <1>2, <1>12
      <3>3. QED
        BY <1>2, <1>3, <1>7, <1>8, <1>11, <2>1, <3>1, <3>2
    <2>2. CASE c # s
      <3>1. /\ sessions'[c] = sessions[c] /\ sessions[c].device \in Paired
            /\ sessions[c].state = "pairing"
        BY <1>8, <1>12, <2>2
      <3>2. /\ devices[sessions[c].device].by = sessions[c].workspace
            /\ mapped[sessions[c].workspace] = c
            /\ \A e \in Slot : HasDevice(e) /\ sessions[e].device = sessions[c].device => e = c
            /\ \A v \in Workspace : /\ opening[v] # sessions[c].device
                                    /\ HasRow(v) => channel[v].device # sessions[c].device
        BY <3>1 DEF Rules, PairingAlone
      <3>3. \A e \in Slot : HasDevice(e)' /\ sessions'[e].device = sessions[c].device => e = c
        BY <1>2, <1>7, <1>8, <1>13, <3>1, <3>2
      <3>4. QED
        BY <1>2, <3>1, <3>2, <3>3
    <2>3. QED
      BY <2>1, <2>2
  <1>18. WaitingMapped'
    BY <1>2, <1>5, <1>7, <1>8 DEF Rules, WaitingMapped
  <1>19. QED
    BY <1>9, <1>14, <1>15, <1>16, <1>17, <1>18 DEF Rules

LEMMA DevicesUsed ==
  ASSUME SessionsShape
  PROVE  /\ \A c \in Slot : HasDevice(c) =>
               sessions[c].device \in Paired /\ sessions[c].workspace \in Workspace
         /\ \A c \in Slot : sessions[c] # NoSession => sessions[c].workspace \in Workspace
         /\ \A c \in Slot : sessions[c].state \in {"pairing", "up", "down"} =>
               sessions[c] # NoSession /\ sessions[c].device \in Paired
         /\ \A v \in Workspace : /\ opening[v] # Nothing => opening[v] \in Paired
                                 /\ HasRow(v) => channel[v].device \in Paired
  BY NoSessionIsNone DEF SessionsShape, Clients, Client, ChannelOf, HasDevice, HasRow

\* The sessions of a workspace have one device between them.
LEMMA SameDevice ==
  ASSUME Good, SessionsShape, Rules, NEW c \in Slot, NEW e \in Slot, HasDevice(c), HasDevice(e),
         sessions[c].workspace = sessions[e].workspace
  PROVE  sessions[c].device = sessions[e].device
  <1>1. PICK w : w = sessions[c].workspace
    OBVIOUS
  <1>2. ForeignAlone
    BY DEF Rules
  <1>3. CASE devices[sessions[c].device].by # w
    <2>1. e = c
      BY <1>1, <1>2, <1>3 DEF ForeignAlone, HasDevice
    <2>2. QED
      BY <2>1
  <1>4. CASE devices[sessions[e].device].by # w
    <2>1. e = c
      BY <1>1, <1>2, <1>4 DEF ForeignAlone, HasDevice
    <2>2. QED
      BY <2>1
  <1>5. CASE devices[sessions[c].device].by = w /\ devices[sessions[e].device].by = w
    BY <1>5, DevicesUsed, GoodDevices
  <1>6. QED
    BY <1>3, <1>4, <1>5

\* It is the one that is being opened, and the one of the row.
LEMMA SameOpening ==
  ASSUME Good, SessionsShape, Rules, NEW c \in Slot, HasDevice(c),
         NEW w \in Workspace, w = sessions[c].workspace, opening[w] # Nothing
  PROVE  sessions[c].device = opening[w]
  <1>1. devices[sessions[c].device].by = w
    BY DEF Rules, ForeignAlone
  <1>2. devices[opening[w]].by = w
    BY DEF Rules, OpeningsOwn
  <1>3. sessions[c].device \in Paired /\ opening[w] \in Paired
    BY DevicesUsed
  <1>4. QED
    BY <1>1, <1>2, <1>3, GoodDevices

\* A device that is being paired is the only one of its workspace.
LEMMA PairingHasAll ==
  ASSUME DevicesShape, Good, SessionsShape, Rules, NEW s \in Slot, sessions[s].state = "pairing",
         NEW w, w = sessions[s].workspace
  PROVE  /\ w \in Workspace /\ mapped[w] = s /\ opening[w] = Nothing /\ HasDevice(s)
         /\ devices[sessions[s].device].by = w
         /\ \A c \in Slot : HasDevice(c) /\ sessions[c].workspace = w => c = s
  <1>1. sessions[s] # NoSession /\ sessions[s].device \in Paired
    BY DevicesUsed
  <1>2. PairingAlone
    BY DEF Rules
  <1>3. HasDevice(s) /\ w \in Workspace
    <2>1. sessions[s].device # Nothing
      BY <1>1, NothingIsNothing
    <2>2. QED
      BY <1>1, <2>1, DevicesUsed DEF HasDevice
  <1>4. /\ devices[sessions[s].device].by = w /\ mapped[w] = s
        /\ \A c \in Slot : HasDevice(c) /\ sessions[c].device = sessions[s].device => c = s
        /\ opening[w] # sessions[s].device
    BY <1>2, <1>3 DEF PairingAlone
  <1>5. \A c \in Slot : HasDevice(c) /\ sessions[c].workspace = w => c = s
    BY <1>3, <1>4, SameDevice
  <1>6. opening[w] = Nothing
    BY <1>3, <1>4, SameOpening
  <1>7. QED
    BY <1>3, <1>4, <1>5, <1>6

\* A session is closed, and stays if the map still has it.
LEMMA ClosingEffect ==
  ASSUME SessionsShape, NEW s \in Slot, sessions[s] # NoSession,
         NEW map, \A w \in Workspace : map[w] = mapped[w] \/ map[w] = Nothing,
         NEW next, next = Tidy(Closed(sessions, s), map)
  PROVE  /\ Clients(next, Paired) /\ Holds(map, next) /\ Tidied(map, next)
         /\ \A c \in Slot : next[c] # NoSession =>
               /\ sessions[c] # NoSession
               /\ next[c].workspace = sessions[c].workspace /\ next[c].device = sessions[c].device
               /\ c # s => next[c] = sessions[c]
               /\ c = s => next[c].state = "closed"
         /\ (\A w \in Workspace : map[w] # s) => next[s] = NoSession
  <1>1. PICK closed : closed = Closed(sessions, s)
    OBVIOUS
  <1>2. Clients(sessions, Paired) /\ Holds(mapped, sessions)
    BY DEF SessionsShape
  <1>3. /\ Clients(closed, Paired) /\ closed[s] # NoSession /\ closed[s].state = "closed"
        /\ closed[s].workspace = sessions[s].workspace /\ closed[s].device = sessions[s].device
        /\ \A c \in Slot : c # s => closed[c] = sessions[c]
    BY <1>1, <1>2, ClosedEffect
  <1>4. Holds(map, closed)
    BY <1>2, <1>3 DEF Holds
  <1>5. next = Tidy(closed, map)
    BY <1>1
  <1>6. /\ Clients(next, Paired) /\ Holds(map, next) /\ Tidied(map, next)
        /\ \A c \in Slot : next[c] = NoSession \/ next[c] = closed[c]
        /\ closed[s].state = "closed" /\ (\A w \in Workspace : map[w] # s) => next[s] = NoSession
    BY <1>3, <1>4, <1>5, TidyEffect
  <1>7. QED
    BY <1>3, <1>6

LEMMA SuspendedRow ==
  ASSUME NEW row, NEW paired, row = NoChannel \/ ChannelOf(row, paired),
         NEW next, next = Suspended(row)
  PROVE  /\ next = NoChannel <=> row = NoChannel
         /\ next = NoChannel \/ ChannelOf(next, paired)
         /\ row # NoChannel => next.account = row.account /\ next.device = row.device
  <1>1. CASE row = NoChannel
    BY <1>1 DEF Suspended
  <1>2. CASE row # NoChannel
    <2>1. ChannelOf(row, paired)
      BY <1>2
    <2>2. next = ChannelRow("suspended", row.account, row.key, row.device)
      <3>1. next = [row EXCEPT !.status = "suspended"]
        BY <1>2 DEF Suspended
      <3>2. row = ChannelRow(row.status, row.account, row.key, row.device)
        BY <2>1 DEF ChannelOf
      <3>3. QED
        BY <3>1, <3>2 DEF ChannelRow
    <2>3. /\ next.status = "suspended" /\ next.account = row.account /\ next.key = row.key
          /\ next.device = row.device
      BY <2>2 DEF ChannelRow
    <2>4. next # NoChannel
      BY <2>3, NoSessionIsNone
    <2>5. ChannelOf(next, paired)
      BY <2>1, <2>2, <2>3 DEF ChannelOf
    <2>6. QED
      BY <1>2, <2>3, <2>4, <2>5
  <1>3. QED
    BY <1>1, <1>2

LEMMA PairSuccessKeeps ==
  ASSUME DevicesShape, SessionsShape, Good, Rules, NEW s \in Slot, PairSuccess(s), ~irregular'
  PROVE  SessionsShape' /\ Rules'
  <1>1. PICK w, e, a : w = sessions[s].workspace /\ e = sessions[s].device /\ a = devices[e].account
    OBVIOUS
  <1>2. sessions[s].state = "pairing" /\ UNCHANGED <<devices, opening>> /\ Paired' = Paired
    BY DEF PairSuccess, Paired
  <1>3. /\ w \in Workspace /\ mapped[w] = s /\ opening[w] = Nothing /\ HasDevice(s)
        /\ devices[e].by = w /\ e \in Paired
        /\ \A c \in Slot : HasDevice(c) /\ sessions[c].workspace = w => c = s
    BY <1>1, <1>2, PairingHasAll, DevicesUsed
  <1>4. /\ \A c \in Slot : HasDevice(c) /\ sessions[c].device = e => c = s
        /\ \A v \in Workspace : opening[v] # e /\ (HasRow(v) => channel[v].device # e)
    BY <1>1, <1>2 DEF Rules, PairingAlone
  <1>5. CASE /\ mapped' = [mapped EXCEPT ![w] = Nothing]
             /\ sessions' = Tidy(Closed(sessions, s), mapped')
             /\ channel' = channel
    <2>1. \A v \in Workspace : mapped'[v] = IF v = w THEN Nothing ELSE mapped[v]
      BY <1>5 DEF SessionsShape
    <2>2. sessions[s] # NoSession /\ \A v \in Workspace : mapped'[v] # s
      BY <1>1, <1>3, <2>1, NothingIsNothing DEF HasDevice, SessionsShape, Holds
    <2>3. /\ Clients(sessions', Paired) /\ Holds(mapped', sessions') /\ Tidied(mapped', sessions')
          /\ \A c \in Slot : sessions'[c] # NoSession =>
                /\ sessions[c] # NoSession
                /\ sessions'[c].workspace = sessions[c].workspace
                /\ sessions'[c].device = sessions[c].device
                /\ c # s => sessions'[c] = sessions[c]
          /\ sessions'[s] = NoSession
      <3>1. PICK map : map = mapped'
        OBVIOUS
      <3>2. sessions' = Tidy(Closed(sessions, s), map)
        BY <1>5, <3>1
      <3>3. \A v \in Workspace : map[v] = mapped[v] \/ map[v] = Nothing
        BY <2>1, <3>1
      <3>4. \A v \in Workspace : map[v] # s
        BY <2>2, <3>1
      <3>5. /\ Clients(sessions', Paired) /\ Holds(map, sessions') /\ Tidied(map, sessions')
            /\ \A c \in Slot : sessions'[c] # NoSession =>
                  /\ sessions[c] # NoSession
                  /\ sessions'[c].workspace = sessions[c].workspace
                  /\ sessions'[c].device = sessions[c].device
                  /\ c # s => sessions'[c] = sessions[c]
            /\ (\A v \in Workspace : map[v] # s) => sessions'[s] = NoSession
        BY <2>2, <3>2, <3>3, ClosingEffect
      <3>6. QED
        BY <3>1, <3>4, <3>5
    <2>4. SessionsShape'
      BY <1>2, <1>3, <1>5, <2>3 DEF SessionsShape
    <2>5. \A c \in Slot : sessions'[c] # NoSession => c # s /\ sessions'[c] = sessions[c]
      BY <2>3
    <2>6. \A c \in Slot : HasDevice(c)' => HasDevice(c) /\ sessions'[c] = sessions[c]
                                           /\ sessions[c].workspace # w
      BY <1>3, <2>5 DEF HasDevice
    <2>7. \A v \in Workspace : HasRow(v)' <=> HasRow(v)
      BY <1>5 DEF HasRow
    <2>8. SessionsOwn'
      <3> SUFFICES ASSUME NEW c \in Slot, HasDevice(c)', sessions'[c].state # "pairing",
                          devices[sessions'[c].device].linked
                   PROVE  /\ Owns(sessions'[c].workspace, sessions'[c].device)
                          /\ mapped'[sessions'[c].workspace] # Nothing
        BY <1>2, <1>5 DEF SessionsOwn, Owns
      <3>1. HasDevice(c) /\ sessions'[c] = sessions[c] /\ sessions[c].workspace # w
        BY <2>6
      <3>2. /\ Owns(sessions[c].workspace, sessions[c].device)
            /\ mapped[sessions[c].workspace] # Nothing /\ sessions[c].workspace \in Workspace
        BY <3>1, DevicesUsed DEF Rules, SessionsOwn
      <3>3. QED
        BY <2>1, <3>1, <3>2
    <2>9. OpeningsOwn' /\ RowsOwn'
      BY <1>2, <1>5, <2>7 DEF Rules, OpeningsOwn, RowsOwn, Owns
    <2>10. ForeignAlone'
      BY <1>2, <2>1, <2>5, <2>6, <2>7, DevicesUsed DEF Rules, ForeignAlone
    <2>11. PairingAlone'
      <3>1. \A c \in Slot : sessions'[c].state = "pairing" =>
               /\ sessions'[c] = sessions[c] /\ sessions[c].workspace \in Workspace
               /\ sessions[c].workspace # w
        <4> SUFFICES ASSUME NEW c \in Slot, sessions'[c].state = "pairing"
                     PROVE  /\ sessions'[c] = sessions[c] /\ sessions[c].workspace \in Workspace
                            /\ sessions[c].workspace # w
          OBVIOUS
        <4>1. c # s /\ sessions'[c] = sessions[c]
          BY <2>5, NoSessionIsNone
        <4>2. HasDevice(c) /\ sessions[c].workspace \in Workspace
          BY <4>1, PairingHasAll
        <4>3. QED
          BY <1>3, <4>1, <4>2
      <3>2. QED
        <4> SUFFICES ASSUME NEW c \in Slot, sessions'[c].state = "pairing"
                     PROVE  /\ devices[sessions'[c].device].by = sessions'[c].workspace
                            /\ mapped'[sessions'[c].workspace] = c
                            /\ \A g \in Slot : HasDevice(g)' /\ sessions'[g].device = sessions'[c].device
                                               => g = c
                            /\ \A v \in Workspace :
                                  /\ opening[v] # sessions'[c].device
                                  /\ HasRow(v)' => channel'[v].device # sessions'[c].device
          BY <1>2 DEF PairingAlone
        <4>1. /\ devices[sessions[c].device].by = sessions[c].workspace
              /\ mapped[sessions[c].workspace] = c
              /\ \A g \in Slot : HasDevice(g) /\ sessions[g].device = sessions[c].device => g = c
              /\ \A v \in Workspace : /\ opening[v] # sessions[c].device
                                      /\ HasRow(v) => channel[v].device # sessions[c].device
          BY <3>1 DEF Rules, PairingAlone
        <4>2. \A g \in Slot : HasDevice(g)' /\ sessions'[g].device = sessions'[c].device => g = c
          BY <2>6, <3>1, <4>1
        <4>3. \A v \in Workspace : HasRow(v)' => channel'[v].device # sessions'[c].device
          BY <1>5, <2>7, <3>1, <4>1
        <4>4. mapped'[sessions'[c].workspace] = c
          BY <2>1, <3>1, <4>1
        <4>5. QED
          BY <3>1, <4>1, <4>2, <4>3, <4>4
    <2>12. WaitingMapped'
      <3> SUFFICES ASSUME NEW c \in Slot, sessions'[c].state = "waiting"
                   PROVE  \/ mapped'[sessions'[c].workspace] = c
                          \/ \E d \in Paired : devices[d].by = sessions'[c].workspace
        BY <1>2 DEF WaitingMapped
      <3>1. sessions'[c] = sessions[c] /\ sessions[c].workspace \in Workspace
        BY <2>5, NoSessionIsNone, DevicesUsed
      <3>2. CASE sessions[c].workspace = w
        BY <1>3, <3>1, <3>2
      <3>3. CASE sessions[c].workspace # w
        BY <2>1, <3>1, <3>3 DEF Rules, WaitingMapped
      <3>4. QED
        BY <3>2, <3>3
    <2>13. QED
      BY <2>4, <2>8, <2>9, <2>10, <2>11, <2>12 DEF Rules
  <1>6. CASE /\ channel' = [channel EXCEPT ![w] = ChannelRow("active", a, <<"phone", a>>, e)]
             /\ sessions' = [sessions EXCEPT ![s].state = "up"]
             /\ mapped' = mapped
    <2>1. PICK client : client = [sessions[s] EXCEPT !.state = "up"]
      OBVIOUS
    <2>2. Client(sessions[s], Paired) /\ Clients(sessions, Paired)
          /\ Holds(mapped, sessions) /\ Tidied(mapped, sessions)
      BY <1>3 DEF SessionsShape, Clients, HasDevice
    <2>3. /\ Client(client, Paired) /\ client # NoSession /\ client.state = "up"
          /\ client.workspace = w /\ client.device = e
      BY <1>1, <1>3, <2>1, <2>2, RestatedIsClient
    <2>4. /\ Clients(sessions', Paired)
          /\ \A c \in Slot : sessions'[c] = IF c = s THEN client ELSE sessions[c]
      <3>1. sessions' = [sessions EXCEPT ![s] = client]
        BY <1>6, <2>1
      <3>2. QED
        BY <2>2, <2>3, <3>1 DEF Clients
    <2>5. Holds(mapped', sessions') /\ Tidied(mapped', sessions')
      BY <1>1, <1>6, <2>2, <2>3, <2>4 DEF Holds, Tidied
    <2>6. PICK r : r = ChannelRow("active", a, <<"phone", a>>, e)
      OBVIOUS
    <2>7. /\ ChannelOf(r, Paired) /\ r # NoChannel
          /\ r.status = "active" /\ r.account = a /\ r.device = e
      <3>1. r.status = "active" /\ r.account = a /\ r.device = e /\ r.key = <<"phone", a>>
        BY <2>6 DEF ChannelRow
      <3>2. r # NoChannel
        BY <3>1, NoSessionIsNone
      <3>3. ChannelOf(r, Paired)
        BY <1>3, <2>6, <3>1 DEF ChannelOf
      <3>4. QED
        BY <3>1, <3>2, <3>3
    <2>8. \A v \in Workspace : channel'[v] = IF v = w THEN r ELSE channel[v]
      BY <1>6, <2>6 DEF SessionsShape
    <2>9. SessionsShape'
      <3>1. channel' = [v \in Workspace |-> channel'[v]]
        BY <1>6 DEF SessionsShape
      <3>2. QED
        BY <1>2, <1>6, <2>4, <2>5, <2>7, <2>8, <3>1 DEF SessionsShape
    <2>10. \A c \in Slot : HasDevice(c)' => HasDevice(c)
      BY <1>3, <2>4 DEF HasDevice
    <2>11. \A c \in Slot : c # s => sessions'[c] = sessions[c]
      BY <2>4
    <2>12. \A v \in Workspace : v # w => channel'[v] = channel[v] /\ (HasRow(v)' <=> HasRow(v))
      BY <2>8 DEF HasRow
    <2>13. SessionsOwn'
      <3> SUFFICES ASSUME NEW c \in Slot, HasDevice(c)', sessions'[c].state # "pairing",
                          devices[sessions'[c].device].linked
                   PROVE  /\ channel'[sessions'[c].workspace].status = "active"
                          /\ channel'[sessions'[c].workspace].account
                             = devices[sessions'[c].device].account
                          /\ mapped[sessions'[c].workspace] # Nothing
        BY <1>2, <1>6 DEF SessionsOwn, Owns
      <3>1. CASE c = s
        BY <1>1, <1>3, <2>3, <2>4, <2>7, <2>8, <3>1, NothingIsNothing
      <3>2. CASE c # s
        <4>1. HasDevice(c) /\ sessions'[c] = sessions[c] /\ sessions[c].workspace # w
          BY <1>3, <2>10, <2>11, <3>2
        <4>2. QED
          BY <2>12, <4>1, DevicesUsed DEF Rules, SessionsOwn, Owns
      <3>3. QED
        BY <3>1, <3>2
    <2>14. OpeningsOwn'
      BY <1>2, <1>3, <2>12 DEF Rules, OpeningsOwn, Owns
    <2>15. RowsOwn'
      BY <1>1, <1>2, <1>3, <2>7, <2>8, <2>12 DEF Rules, RowsOwn
    <2>16. ForeignAlone'
      <3> SUFFICES ASSUME NEW c \in Slot, HasDevice(c)', NEW v, v = sessions'[c].workspace,
                          devices[sessions'[c].device].by # v
                   PROVE  /\ mapped[v] = c /\ opening[v] = Nothing /\ ~HasRow(v)'
                          /\ \A g \in Slot : sessions'[g] # NoSession /\ sessions'[g].workspace = v
                                             => g = c
        BY <1>2, <1>6 DEF ForeignAlone
      <3>1. c # s /\ sessions'[c] = sessions[c] /\ HasDevice(c)
        BY <1>3, <2>3, <2>4, <2>10
      <3>2. /\ mapped[v] = c /\ opening[v] = Nothing /\ ~HasRow(v)
            /\ \A g \in Slot : sessions[g] # NoSession /\ sessions[g].workspace = v => g = c
        BY <3>1 DEF Rules, ForeignAlone
      <3>3. v # w /\ v \in Workspace
        BY <1>3, <3>1, DevicesUsed
      <3>4. QED
        BY <2>3, <2>4, <2>12, <3>2, <3>3
    <2>17. PairingAlone'
      <3> SUFFICES ASSUME NEW c \in Slot, sessions'[c].state = "pairing"
                   PROVE  /\ devices[sessions'[c].device].by = sessions'[c].workspace
                          /\ mapped[sessions'[c].workspace] = c
                          /\ \A g \in Slot : HasDevice(g)' /\ sessions'[g].device = sessions'[c].device
                                             => g = c
                          /\ \A v \in Workspace :
                                /\ opening[v] # sessions'[c].device
                                /\ HasRow(v)' => channel'[v].device # sessions'[c].device
        BY <1>2, <1>6 DEF PairingAlone
      <3>1. c # s /\ sessions'[c] = sessions[c] /\ sessions[c].state = "pairing"
        BY <2>3, <2>4
      <3>2. /\ devices[sessions[c].device].by = sessions[c].workspace
            /\ mapped[sessions[c].workspace] = c
            /\ \A g \in Slot : HasDevice(g) /\ sessions[g].device = sessions[c].device => g = c
            /\ \A v \in Workspace : /\ opening[v] # sessions[c].device
                                    /\ HasRow(v) => channel[v].device # sessions[c].device
        BY <3>1 DEF Rules, PairingAlone
      <3>3. sessions[c].device # e
        BY <1>1, <1>3, <3>1, <3>2
      <3>4. \A g \in Slot : HasDevice(g)' /\ sessions'[g].device = sessions[c].device => g = c
        BY <2>3, <2>4, <2>10, <3>2, <3>3
      <3>5. \A v \in Workspace : HasRow(v)' => channel'[v].device # sessions[c].device
        BY <2>7, <2>8, <2>12, <3>2, <3>3
      <3>6. QED
        BY <3>1, <3>2, <3>4, <3>5
    <2>18. WaitingMapped'
      BY <1>2, <1>6, <2>3, <2>4 DEF Rules, WaitingMapped
    <2>19. QED
      BY <2>9, <2>13, <2>14, <2>15, <2>16, <2>17, <2>18 DEF Rules
  <1>7. QED
    BY <1>1, <1>5, <1>6 DEF PairSuccess

LEMMA LoggedOutKeeps ==
  ASSUME DevicesShape, SessionsShape, Good, Rules, NEW s \in Slot, LoggedOut(s)
  PROVE  SessionsShape' /\ Rules'
  <1>1. PICK w, d : w = sessions[s].workspace /\ d = sessions[s].device
    OBVIOUS
  <1>2. /\ sessions[s].state \in {"up", "down"} /\ ~devices[d].linked
        /\ UNCHANGED <<mapped, opening>>
        /\ devices' = [devices EXCEPT ![d].stored = FALSE]
        /\ sessions' = Tidy(Closed(sessions, s), mapped)
        /\ channel' = [channel EXCEPT ![w] = Suspended(channel[w])]
    BY <1>1 DEF LoggedOut
  <1>3. w \in Workspace /\ HasDevice(s) /\ sessions[s] # NoSession /\ d \in Paired
    BY <1>1, <1>2, DevicesUsed, NothingIsNothing DEF HasDevice
  <1>4. \A c \in Slot : HasDevice(c) /\ sessions[c].workspace = w => sessions[c].device = d
    BY <1>1, <1>3, SameDevice
  <1>5. /\ Paired' = Paired
        /\ \A e \in Paired : /\ devices'[e].by = devices[e].by
                             /\ devices'[e].account = devices[e].account
                             /\ devices'[e].linked => devices[e].linked
    BY <1>2, DeviceMarked
  <1>6. /\ Clients(sessions', Paired) /\ Holds(mapped, sessions') /\ Tidied(mapped, sessions')
        /\ \A c \in Slot : sessions'[c] # NoSession =>
              /\ sessions[c] # NoSession
              /\ sessions'[c].workspace = sessions[c].workspace
              /\ sessions'[c].device = sessions[c].device
              /\ c # s => sessions'[c] = sessions[c]
              /\ c = s => sessions'[c].state = "closed"
    <2>1. \A v \in Workspace : mapped[v] = mapped[v] \/ mapped[v] = Nothing
      OBVIOUS
    <2>2. QED
      BY <1>2, <1>3, <2>1, ClosingEffect
  <1>7. PICK row : row = Suspended(channel[w])
    OBVIOUS
  <1>8. \A v \in Workspace : channel'[v] = IF v = w THEN row ELSE channel[v]
    BY <1>2, <1>7 DEF SessionsShape
  <1>9. /\ row = NoChannel <=> channel[w] = NoChannel
        /\ row = NoChannel \/ ChannelOf(row, Paired)
        /\ channel[w] # NoChannel => row.account = channel[w].account /\ row.device = channel[w].device
    BY <1>3, <1>7, SuspendedRow DEF SessionsShape
  <1>10. \A v \in Workspace : /\ HasRow(v)' <=> HasRow(v)
                              /\ HasRow(v) => /\ channel'[v].account = channel[v].account
                                              /\ channel'[v].device = channel[v].device
    BY <1>8, <1>9 DEF HasRow
  <1>11. SessionsShape'
    <2>1. channel' = [v \in Workspace |-> channel'[v]]
      BY <1>2 DEF SessionsShape
    <2>2. \A v \in Workspace : channel'[v] = NoChannel \/ ChannelOf(channel'[v], Paired)
      BY <1>8, <1>9 DEF SessionsShape
    <2>3. QED
      BY <1>2, <1>5, <1>6, <2>1, <2>2 DEF SessionsShape
  <1>12. \A c \in Slot : HasDevice(c)' =>
            /\ HasDevice(c) /\ sessions'[c].workspace = sessions[c].workspace
            /\ sessions'[c].device = sessions[c].device
            /\ c # s => sessions'[c] = sessions[c]
            /\ sessions[c].device \in Paired /\ sessions[c].workspace \in Workspace
    BY <1>6, DevicesUsed DEF HasDevice
  <1>13. SessionsOwn'
    <2> SUFFICES ASSUME NEW c \in Slot, HasDevice(c)', sessions'[c].state # "pairing",
                        devices'[sessions'[c].device].linked
                 PROVE  /\ channel'[sessions'[c].workspace].status = "active"
                        /\ channel'[sessions'[c].workspace].account
                           = devices'[sessions'[c].device].account
                        /\ mapped[sessions'[c].workspace] # Nothing
      BY <1>2 DEF SessionsOwn, Owns
    <2>1. sessions[c].device # d /\ devices[sessions[c].device].linked
      BY <1>2, <1>5, <1>12
    <2>2. c # s /\ sessions'[c] = sessions[c] /\ sessions[c].workspace # w
      BY <1>1, <1>4, <1>12, <2>1
    <2>3. /\ Owns(sessions[c].workspace, sessions[c].device)
          /\ mapped[sessions[c].workspace] # Nothing
      BY <1>12, <2>1, <2>2 DEF Rules, SessionsOwn
    <2>4. QED
      BY <1>5, <1>8, <1>12, <2>2, <2>3 DEF Owns
  <1>14. OpeningsOwn'
    <2> SUFFICES ASSUME NEW v \in Workspace, opening[v] # Nothing
                 PROVE  /\ devices'[opening[v]].by = v
                        /\ devices'[opening[v]].linked =>
                              /\ channel'[v].status = "active"
                              /\ channel'[v].account = devices'[opening[v]].account
      BY <1>2 DEF OpeningsOwn, Owns
    <2>1. opening[v] \in Paired
      BY DevicesUsed
    <2>2. v = w => opening[v] = d
      BY <1>1, <1>3, SameOpening
    <2>3. QED
      BY <1>2, <1>5, <1>8, <2>1, <2>2 DEF Rules, OpeningsOwn, Owns
  <1>15. RowsOwn'
    BY <1>5, <1>10, DevicesUsed DEF Rules, RowsOwn
  <1>16. ForeignAlone'
    <2> SUFFICES ASSUME NEW c \in Slot, HasDevice(c)', NEW v, v = sessions'[c].workspace,
                        devices'[sessions'[c].device].by # v
                 PROVE  /\ mapped[v] = c /\ opening[v] = Nothing /\ ~HasRow(v)'
                        /\ \A g \in Slot : sessions'[g] # NoSession /\ sessions'[g].workspace = v
                                           => g = c
      BY <1>2 DEF ForeignAlone
    <2>1. /\ HasDevice(c) /\ v = sessions[c].workspace /\ v \in Workspace
          /\ devices[sessions[c].device].by # v
      BY <1>5, <1>12
    <2>2. /\ mapped[v] = c /\ opening[v] = Nothing /\ ~HasRow(v)
          /\ \A g \in Slot : sessions[g] # NoSession /\ sessions[g].workspace = v => g = c
      BY <2>1 DEF Rules, ForeignAlone
    <2>3. QED
      BY <1>6, <1>10, <2>1, <2>2
  <1>17. PairingAlone'
    <2> SUFFICES ASSUME NEW c \in Slot, sessions'[c].state = "pairing"
                 PROVE  /\ devices'[sessions'[c].device].by = sessions'[c].workspace
                        /\ mapped[sessions'[c].workspace] = c
                        /\ \A g \in Slot : HasDevice(g)' /\ sessions'[g].device = sessions'[c].device
                                           => g = c
                        /\ \A v \in Workspace :
                              /\ opening[v] # sessions'[c].device
                              /\ HasRow(v)' => channel'[v].device # sessions'[c].device
      BY <1>2 DEF PairingAlone
    <2>1. sessions'[c] = sessions[c] /\ sessions[c].state = "pairing"
      BY <1>6, NoSessionIsNone
    <2>2. /\ devices[sessions[c].device].by = sessions[c].workspace
          /\ mapped[sessions[c].workspace] = c
          /\ \A g \in Slot : HasDevice(g) /\ sessions[g].device = sessions[c].device => g = c
          /\ \A v \in Workspace : /\ opening[v] # sessions[c].device
                                  /\ HasRow(v) => channel[v].device # sessions[c].device
      BY <2>1 DEF Rules, PairingAlone
    <2>3. \A g \in Slot : HasDevice(g)' /\ sessions'[g].device = sessions[c].device => g = c
      BY <1>12, <2>2
    <2>4. \A v \in Workspace : HasRow(v)' => channel'[v].device # sessions[c].device
      BY <1>10, <2>2
    <2>5. sessions[c].device \in Paired
      BY <2>1, DevicesUsed
    <2>6. QED
      BY <1>5, <2>1, <2>2, <2>3, <2>4, <2>5
  <1>18. WaitingMapped'
    <2>1. \A c \in Slot : sessions'[c].state = "waiting" => sessions'[c] = sessions[c]
      BY <1>6, NoSessionIsNone
    <2>2. QED
      BY <1>2, <1>5, <2>1 DEF Rules, WaitingMapped
  <1>19. QED
    BY <1>11, <1>13, <1>14, <1>15, <1>16, <1>17, <1>18 DEF Rules

LEMMA LogoutUnlinks ==
  ASSUME DevicesShape, NEW d \in Paired
  PROVE  Logout(d)[d].linked = FALSE
  <1>1. PICK row : row = [account |-> devices[d].account, by |-> devices[d].by,
                          stored |-> FALSE, linked |-> FALSE]
    OBVIOUS
  <1>2. Logout(d) = [devices EXCEPT ![d] = row]
    BY <1>1 DEF Logout
  <1>3. Logout(d)[d] = row
    BY <1>2 DEF Paired
  <1>4. QED
    BY <1>1, <1>3

LEMMA DisconnectKeeps ==
  ASSUME DevicesShape, SessionsShape, Good, Rules, NEW w \in Workspace, Disconnect(w), ~irregular'
  PROVE  SessionsShape' /\ Rules'
  <1>1. PICK s, d : s = mapped[w] /\ d = sessions[s].device
    OBVIOUS
  <1>2. /\ s # Nothing /\ sessions[s].state = "up" /\ opening' = opening
        /\ channel' = [channel EXCEPT ![w] = NoChannel]
        /\ mapped' = [mapped EXCEPT ![w] = Nothing]
        /\ sessions' = Tidy(Closed(sessions, s), mapped')
        /\ devices' = Logout(d)
    BY <1>1 DEF Disconnect, Holding
  <1>3. /\ s \in Slot /\ sessions[s] # NoSession /\ sessions[s].workspace = w
        /\ HasDevice(s) /\ d \in Paired
    <2>1. s \in Slot /\ sessions[s] # NoSession /\ sessions[s].workspace = w
      BY <1>1, <1>2 DEF SessionsShape, Holds
    <2>2. QED
      BY <1>1, <1>2, <2>1, DevicesUsed, NothingIsNothing DEF HasDevice
  <1>4. \A c \in Slot : HasDevice(c) /\ sessions[c].workspace = w => sessions[c].device = d
    BY <1>1, <1>3, SameDevice
  <1>5. /\ Paired' = Paired
        /\ \A e \in Paired : /\ devices'[e].by = devices[e].by
                             /\ devices'[e].account = devices[e].account
                             /\ devices'[e].linked => devices[e].linked
        /\ ~devices'[d].linked
    BY <1>2, <1>3, DeviceMarked, LogoutUnlinks
  <1>6. \A v \in Workspace : /\ mapped'[v] = IF v = w THEN Nothing ELSE mapped[v]
                             /\ channel'[v] = IF v = w THEN NoChannel ELSE channel[v]
    BY <1>2 DEF SessionsShape
  <1>7. \A v \in Workspace : mapped'[v] # s
    BY <1>2, <1>3, <1>6 DEF SessionsShape, Holds
  <1>8. /\ Clients(sessions', Paired) /\ Holds(mapped', sessions') /\ Tidied(mapped', sessions')
        /\ \A c \in Slot : sessions'[c] # NoSession => c # s /\ sessions'[c] = sessions[c]
    <2>1. PICK map : map = mapped'
      OBVIOUS
    <2>2. sessions' = Tidy(Closed(sessions, s), map)
      BY <1>2, <2>1
    <2>3. \A v \in Workspace : map[v] = mapped[v] \/ map[v] = Nothing
      BY <1>6, <2>1
    <2>4. /\ Clients(sessions', Paired) /\ Holds(map, sessions') /\ Tidied(map, sessions')
          /\ \A c \in Slot : sessions'[c] # NoSession => (c # s => sessions'[c] = sessions[c])
          /\ (\A v \in Workspace : map[v] # s) => sessions'[s] = NoSession
      BY <1>3, <2>2, <2>3, ClosingEffect
    <2>5. QED
      BY <1>7, <2>1, <2>4
  <1>9. SessionsShape'
    <2>1. /\ channel' = [v \in Workspace |-> channel'[v]]
          /\ mapped' \in [Workspace -> Slot \cup {Nothing}]
      BY <1>2 DEF SessionsShape
    <2>2. \A v \in Workspace : channel'[v] = NoChannel \/ ChannelOf(channel'[v], Paired)
      BY <1>6 DEF SessionsShape
    <2>3. QED
      BY <1>2, <1>5, <1>8, <2>1, <2>2 DEF SessionsShape
  <1>10. \A v \in Workspace : HasRow(v)' => v # w /\ HasRow(v) /\ channel'[v] = channel[v]
    BY <1>6 DEF HasRow
  <1>11. \A c \in Slot : HasDevice(c)' =>
            /\ HasDevice(c) /\ c # s /\ sessions'[c] = sessions[c]
            /\ sessions[c].device \in Paired /\ sessions[c].workspace \in Workspace
    BY <1>8, DevicesUsed DEF HasDevice
  <1>12. SessionsOwn'
    <2> SUFFICES ASSUME NEW c \in Slot, HasDevice(c)', sessions'[c].state # "pairing",
                        devices'[sessions'[c].device].linked
                 PROVE  /\ channel'[sessions'[c].workspace].status = "active"
                        /\ channel'[sessions'[c].workspace].account
                           = devices'[sessions'[c].device].account
                        /\ mapped'[sessions'[c].workspace] # Nothing
      BY DEF SessionsOwn, Owns
    <2>1. /\ sessions[c].device # d /\ devices[sessions[c].device].linked
          /\ sessions'[c] = sessions[c] /\ HasDevice(c)
      BY <1>5, <1>11
    <2>2. sessions[c].workspace # w
      BY <1>4, <2>1
    <2>3. /\ Owns(sessions[c].workspace, sessions[c].device)
          /\ mapped[sessions[c].workspace] # Nothing
      BY <2>1 DEF Rules, SessionsOwn
    <2>4. QED
      BY <1>5, <1>6, <1>11, <2>1, <2>2, <2>3 DEF Owns
  <1>13. OpeningsOwn'
    <2> SUFFICES ASSUME NEW v \in Workspace, opening[v] # Nothing
                 PROVE  /\ devices'[opening[v]].by = v
                        /\ devices'[opening[v]].linked =>
                              /\ channel'[v].status = "active"
                              /\ channel'[v].account = devices'[opening[v]].account
      BY <1>2 DEF OpeningsOwn, Owns
    <2>1. opening[v] \in Paired
      BY DevicesUsed
    <2>2. v = w => opening[v] = d
      BY <1>1, <1>3, SameOpening
    <2>3. QED
      BY <1>5, <1>6, <2>1, <2>2 DEF Rules, OpeningsOwn, Owns
  <1>14. RowsOwn'
    BY <1>5, <1>10, DevicesUsed DEF Rules, RowsOwn
  <1>15. ForeignAlone'
    <2> SUFFICES ASSUME NEW c \in Slot, HasDevice(c)', NEW v, v = sessions'[c].workspace,
                        devices'[sessions'[c].device].by # v
                 PROVE  /\ mapped'[v] = c /\ opening[v] = Nothing /\ ~HasRow(v)'
                        /\ \A g \in Slot : sessions'[g] # NoSession /\ sessions'[g].workspace = v
                                           => g = c
      BY <1>2 DEF ForeignAlone
    <2>1. /\ HasDevice(c) /\ c # s /\ v = sessions[c].workspace /\ v \in Workspace
          /\ devices[sessions[c].device].by # v
      BY <1>5, <1>11
    <2>2. /\ mapped[v] = c /\ opening[v] = Nothing /\ ~HasRow(v)
          /\ \A g \in Slot : sessions[g] # NoSession /\ sessions[g].workspace = v => g = c
      BY <2>1 DEF Rules, ForeignAlone
    <2>3. v # w
      BY <1>1, <2>1, <2>2
    <2>4. QED
      BY <1>6, <1>8, <1>10, <2>1, <2>2, <2>3
  <1>16. PairingAlone'
    <2>1. opening' = opening
      BY <1>2
    <2> SUFFICES ASSUME NEW c \in Slot, sessions'[c].state = "pairing"
                 PROVE  /\ devices'[sessions'[c].device].by = sessions'[c].workspace
                        /\ mapped'[sessions'[c].workspace] = c
                        /\ \A g \in Slot : HasDevice(g)' /\ sessions'[g].device = sessions'[c].device
                                           => g = c
                        /\ \A v \in Workspace :
                              /\ opening[v] # sessions'[c].device
                              /\ HasRow(v)' => channel'[v].device # sessions'[c].device
      BY <2>1 DEF PairingAlone
    <2>2. c # s /\ sessions'[c] = sessions[c] /\ sessions[c].state = "pairing"
      BY <1>8, NoSessionIsNone
    <2>3. /\ devices[sessions[c].device].by = sessions[c].workspace
          /\ mapped[sessions[c].workspace] = c
          /\ \A g \in Slot : HasDevice(g) /\ sessions[g].device = sessions[c].device => g = c
          /\ \A v \in Workspace : /\ opening[v] # sessions[c].device
                                  /\ HasRow(v) => channel[v].device # sessions[c].device
      BY <2>2 DEF Rules, PairingAlone
    <2>4. \A g \in Slot : HasDevice(g)' /\ sessions'[g].device = sessions[c].device => g = c
      BY <1>11, <2>3
    <2>5. \A v \in Workspace : HasRow(v)' => channel'[v].device # sessions[c].device
      BY <1>10, <2>3
    <2>6. sessions[c].device \in Paired /\ sessions[c].workspace \in Workspace \ {w}
      BY <1>1, <2>2, <2>3, DevicesUsed
    <2>7. mapped'[sessions[c].workspace] = c
      BY <1>6, <2>3, <2>6
    <2>8. QED
      BY <1>5, <2>2, <2>3, <2>4, <2>5, <2>6, <2>7
  <1>17. WaitingMapped'
    <2> SUFFICES ASSUME NEW c \in Slot, sessions'[c].state = "waiting"
                 PROVE  \/ mapped'[sessions'[c].workspace] = c
                        \/ \E e \in Paired : devices'[e].by = sessions'[c].workspace
      BY <1>5 DEF WaitingMapped
    <2>1. c # s /\ sessions'[c] = sessions[c] /\ sessions[c].workspace \in Workspace
      BY <1>8, NoSessionIsNone, DevicesUsed
    <2>2. \/ mapped[sessions[c].workspace] = c
          \/ \E e \in Paired : devices[e].by = sessions[c].workspace
      BY <2>1 DEF Rules, WaitingMapped
    <2>3. CASE mapped[sessions[c].workspace] = c
      BY <1>1, <1>6, <2>1, <2>3
    <2>4. CASE \E e \in Paired : devices[e].by = sessions[c].workspace
      BY <1>5, <2>1, <2>4
    <2>5. QED
      BY <2>2, <2>3, <2>4
  <1>18. QED
    BY <1>9, <1>12, <1>13, <1>14, <1>15, <1>16, <1>17 DEF Rules

LEMMA NothingOpens ==
  ASSUME DevicesShape, SessionsShape, Good, Rules, NEW w \in Workspace,
         opening' = [opening EXCEPT ![w] = Nothing], UNCHANGED <<channel, devices, mapped, sessions>>
  PROVE  SessionsShape' /\ Rules'
  <1>1. Paired' = Paired /\ \A v \in Workspace : opening'[v] = IF v = w THEN Nothing ELSE opening[v]
    BY DEF SessionsShape, Paired
  <1>2. SessionsShape'
    BY <1>1 DEF SessionsShape
  <1>3. SessionsOwn' /\ RowsOwn' /\ WaitingMapped'
    BY DEF Rules, SessionsOwn, RowsOwn, WaitingMapped, HasDevice, HasRow, Owns, Paired
  <1>4. OpeningsOwn'
    BY <1>1 DEF Rules, OpeningsOwn, Owns
  <1>5. ForeignAlone'
    BY <1>1, DevicesUsed DEF Rules, ForeignAlone, HasDevice, HasRow
  <1>6. PairingAlone'
    <2> SUFFICES ASSUME NEW c \in Slot, sessions[c].state = "pairing"
                 PROVE  /\ devices[sessions[c].device].by = sessions[c].workspace
                        /\ mapped[sessions[c].workspace] = c
                        /\ \A g \in Slot : HasDevice(g) /\ sessions[g].device = sessions[c].device
                                           => g = c
                        /\ \A v \in Workspace :
                              /\ opening'[v] # sessions[c].device
                              /\ HasRow(v) => channel[v].device # sessions[c].device
      BY DEF PairingAlone, HasDevice, HasRow
    <2>1. sessions[c].device # Nothing
      BY DevicesUsed, NothingIsNothing
    <2>2. QED
      BY <1>1, <2>1 DEF Rules, PairingAlone
  <1>7. QED
    BY <1>2, <1>3, <1>4, <1>5, <1>6 DEF Rules

LEMMA UpIsClient ==
  ASSUME NEW w \in Workspace, NEW paired, NEW device \in paired,
         NEW client, client = Session(w, "up", device)
  PROVE  /\ Client(client, paired) /\ client # NoSession /\ client.state = "up"
         /\ client.workspace = w /\ client.device = device
  <1>1. /\ "up" \in {"waiting", "pairing", "up", "down", "closed"}
        /\ "up" # "waiting"
    OBVIOUS
  <1>2. QED
    BY <1>1, SessionIsClient

LEMMA WaitingIsClient ==
  ASSUME NEW w \in Workspace, NEW paired, NEW client, client = Session(w, "waiting", Nothing)
  PROVE  /\ Client(client, paired) /\ client # NoSession /\ client.state = "waiting"
         /\ client.workspace = w /\ client.device = Nothing
  <1>1. /\ "waiting" \in {"waiting", "pairing", "up", "down", "closed"}
        /\ "waiting" \notin {"pairing", "up", "down"}
        /\ Nothing \in paired \cup {Nothing}
    OBVIOUS
  <1>2. QED
    BY <1>1, SessionIsClient

LEMMA SomethingOpens ==
  ASSUME DevicesShape, SessionsShape, Good, Rules, NEW w \in Workspace, opening[w] # Nothing,
         NEW s \in Slot, sessions[s] = NoSession, NEW d, d = opening[w], devices[d].linked,
         opening' = [opening EXCEPT ![w] = Nothing], UNCHANGED <<channel, devices>>,
         mapped' = [mapped EXCEPT ![w] = s],
         Clients(sessions', Paired), Holds(mapped', sessions'), Tidied(mapped', sessions'),
         sessions'[s] # NoSession, sessions'[s].state = "up",
         sessions'[s].workspace = w, sessions'[s].device = d,
         \A c \in Slot : sessions'[c] # NoSession /\ c # s => Continues(c)
  PROVE  SessionsShape' /\ Rules'
  <1>1. Paired' = Paired /\ d \in Paired
    BY DEF SessionsShape, Paired
  <1>2. \A v \in Workspace : /\ opening'[v] = IF v = w THEN Nothing ELSE opening[v]
                             /\ mapped'[v] = IF v = w THEN s ELSE mapped[v]
    BY DEF SessionsShape
  <1>3. SessionsShape'
    <2>1. /\ mapped' \in [Workspace -> Slot \cup {Nothing}]
          /\ opening' \in [Workspace -> Paired \cup {Nothing}]
      BY DEF SessionsShape
    <2>2. QED
      BY <1>1, <2>1 DEF SessionsShape
  <1>4. devices[d].by = w /\ Owns(w, d)
    BY DEF Rules, OpeningsOwn
  <1>5. \A c \in Slot : HasDevice(c)' /\ c # s =>
            /\ HasDevice(c) /\ sessions'[c].workspace = sessions[c].workspace
            /\ sessions'[c].device = sessions[c].device
            /\ sessions'[c].state = "pairing" <=> sessions[c].state = "pairing"
            /\ sessions[c].device \in Paired /\ sessions[c].workspace \in Workspace
    BY DevicesUsed DEF HasDevice, Continues
  <1>6. \A v \in Workspace : HasRow(v)' <=> HasRow(v)
    BY DEF HasRow
  <1>7. SessionsOwn'
    <2> SUFFICES ASSUME NEW c \in Slot, HasDevice(c)', sessions'[c].state # "pairing",
                        devices[sessions'[c].device].linked
                 PROVE  /\ Owns(sessions'[c].workspace, sessions'[c].device)
                        /\ mapped'[sessions'[c].workspace] # Nothing
      BY DEF SessionsOwn, Owns
    <2>1. CASE c = s
      BY <1>2, <1>4, <2>1, NothingIsNothing
    <2>2. CASE c # s
      <3>1. /\ Owns(sessions[c].workspace, sessions[c].device)
            /\ mapped[sessions[c].workspace] # Nothing
        BY <1>5, <2>2 DEF Rules, SessionsOwn
      <3>2. QED
        BY <1>2, <1>5, <2>2, <3>1, NothingIsNothing
    <2>3. QED
      BY <2>1, <2>2
  <1>8. OpeningsOwn'
    BY <1>2 DEF Rules, OpeningsOwn, Owns
  <1>9. RowsOwn'
    BY <1>6 DEF Rules, RowsOwn
  <1>10. ForeignAlone'
    <2> SUFFICES ASSUME NEW c \in Slot, HasDevice(c)', NEW v, v = sessions'[c].workspace,
                        devices[sessions'[c].device].by # v
                 PROVE  /\ mapped'[v] = c /\ opening'[v] = Nothing /\ ~HasRow(v)'
                        /\ \A g \in Slot : sessions'[g] # NoSession /\ sessions'[g].workspace = v
                                           => g = c
      BY DEF ForeignAlone
    <2>1. c # s
      BY <1>4
    <2>2. /\ HasDevice(c) /\ v = sessions[c].workspace /\ v \in Workspace
          /\ devices[sessions[c].device].by # v
      BY <1>5, <2>1
    <2>3. /\ mapped[v] = c /\ opening[v] = Nothing /\ ~HasRow(v)
          /\ \A g \in Slot : sessions[g] # NoSession /\ sessions[g].workspace = v => g = c
      BY <2>2 DEF Rules, ForeignAlone
    <2>4. v # w
      BY <2>3
    <2>5. \A g \in Slot : sessions'[g] # NoSession /\ sessions'[g].workspace = v => g = c
      BY <2>3, <2>4 DEF Continues
    <2>6. QED
      BY <1>2, <1>6, <2>2, <2>3, <2>4, <2>5
  <1>11. PairingAlone'
    <2> SUFFICES ASSUME NEW c \in Slot, sessions'[c].state = "pairing"
                 PROVE  /\ devices[sessions'[c].device].by = sessions'[c].workspace
                        /\ mapped'[sessions'[c].workspace] = c
                        /\ \A g \in Slot : HasDevice(g)' /\ sessions'[g].device = sessions'[c].device
                                           => g = c
                        /\ \A v \in Workspace :
                              /\ opening'[v] # sessions'[c].device
                              /\ HasRow(v)' => channel[v].device # sessions'[c].device
      BY DEF PairingAlone
    <2>1. /\ c # s /\ sessions[c].state = "pairing"
          /\ sessions'[c].workspace = sessions[c].workspace
          /\ sessions'[c].device = sessions[c].device
      BY NoSessionIsNone DEF Continues
    <2>2. /\ devices[sessions[c].device].by = sessions[c].workspace
          /\ mapped[sessions[c].workspace] = c
          /\ \A g \in Slot : HasDevice(g) /\ sessions[g].device = sessions[c].device => g = c
          /\ \A v \in Workspace : /\ opening[v] # sessions[c].device
                                  /\ HasRow(v) => channel[v].device # sessions[c].device
      BY <2>1 DEF Rules, PairingAlone
    <2>3. sessions[c].device # d /\ sessions[c].device # Nothing
      BY <2>1, <2>2, DevicesUsed, NothingIsNothing
    <2>4. \A g \in Slot : HasDevice(g)' /\ sessions'[g].device = sessions[c].device => g = c
      BY <1>5, <2>2, <2>3
    <2>5. sessions[c].workspace \in Workspace /\ opening[sessions[c].workspace] = Nothing
      BY <2>1, PairingHasAll
    <2>6. mapped'[sessions[c].workspace] = c
      BY <1>2, <2>2, <2>5
    <2>7. \A v \in Workspace : opening'[v] # sessions[c].device
      BY <1>2, <2>2, <2>3
    <2>8. QED
      BY <1>6, <2>1, <2>2, <2>4, <2>6, <2>7
  <1>12. WaitingMapped'
    <2> SUFFICES ASSUME NEW c \in Slot, sessions'[c].state = "waiting"
                 PROVE  \/ mapped'[sessions'[c].workspace] = c
                        \/ \E e \in Paired : devices[e].by = sessions'[c].workspace
      BY <1>1 DEF WaitingMapped
    <2>1. /\ sessions[c].state = "waiting" /\ sessions[c] # NoSession
          /\ sessions'[c].workspace = sessions[c].workspace
          /\ sessions[c].workspace \in Workspace
      BY NoSessionIsNone, DevicesUsed DEF Continues
    <2>2. CASE sessions[c].workspace = w
      BY <1>1, <1>4, <2>1, <2>2
    <2>3. CASE sessions[c].workspace # w
      BY <1>2, <2>1, <2>3 DEF Rules, WaitingMapped
    <2>4. QED
      BY <2>2, <2>3
  <1>13. QED
    BY <1>3, <1>7, <1>8, <1>9, <1>10, <1>11, <1>12 DEF Rules

LEMMA OpenSessionKeeps ==
  ASSUME DevicesShape, SessionsShape, Good, Rules, NEW w \in Workspace, OpenSession(w)
  PROVE  SessionsShape' /\ Rules'
  <1>1. /\ opening[w] # Nothing /\ opening' = [opening EXCEPT ![w] = Nothing]
        /\ UNCHANGED <<channel, devices>>
    BY DEF OpenSession
  <1>2. CASE UNCHANGED <<mapped, sessions>>
    BY <1>1, <1>2, NothingOpens
  <1>3. CASE ~UNCHANGED <<mapped, sessions>>
    <2>1. PICK s, d, lost, client, open :
             /\ s = FreeSlot /\ d = opening[w] /\ lost = Connected(sessions, s, d)
             /\ client = Session(w, "up", d) /\ open = [lost EXCEPT ![s] = client]
      OBVIOUS
    <2>2. PICK map : map = mapped'
      OBVIOUS
    <2>3. /\ FreeSlots # {} /\ devices[d].linked /\ mapped' = [mapped EXCEPT ![w] = s]
          /\ sessions' = Tidy(open, map)
      BY <1>3, <2>1, <2>2 DEF OpenSession
    <2>4. s \in Slot /\ sessions[s] = NoSession /\ d \in Paired
      BY <1>1, <2>1, <2>3, FreshSlot, DevicesUsed
    <2>5. \A v \in Workspace : map[v] = IF v = w THEN s ELSE mapped[v]
      BY <2>2, <2>3 DEF SessionsShape
    <2>6. Clients(sessions, Paired) /\ Holds(mapped, sessions)
      BY DEF SessionsShape
    <2>7. /\ Clients(lost, Paired)
          /\ \A c \in Slot : lost[c] = NoSession <=> sessions[c] = NoSession
          /\ \A c \in Slot : sessions[c] # NoSession =>
                /\ lost[c].workspace = sessions[c].workspace
                /\ lost[c].device = sessions[c].device
                /\ lost[c].state = sessions[c].state
                   \/ (lost[c].state = "closed" /\ sessions[c].state = "up")
      BY <2>1, <2>6, ConnectedEffect
    <2>8. /\ Client(client, Paired) /\ client # NoSession /\ client.state = "up"
          /\ client.workspace = w /\ client.device = d
      BY <2>1, <2>4, UpIsClient
    <2>9. Clients(open, Paired) /\ \A c \in Slot : open[c] = IF c = s THEN client ELSE lost[c]
      BY <2>1, <2>4, <2>7, <2>8 DEF Clients
    <2>10. Holds(map, open)
      BY <2>4, <2>5, <2>6, <2>7, <2>8, <2>9 DEF Holds
    <2>11. /\ Clients(sessions', Paired) /\ Holds(map, sessions') /\ Tidied(map, sessions')
           /\ \A c \in Slot : sessions'[c] = NoSession \/ sessions'[c] = open[c]
      BY <2>3, <2>9, <2>10, TidyEffect
    <2>12. sessions'[s] = client
      <3>1. open[s] = client /\ client.state # "closed"
        BY <2>4, <2>8, <2>9
      <3>2. QED
        BY <2>3, <2>4, <3>1 DEF Tidy
    <2>13. \A c \in Slot : sessions'[c] # NoSession /\ c # s => Continues(c)
      <3> SUFFICES ASSUME NEW c \in Slot, sessions'[c] # NoSession, c # s
                   PROVE  Continues(c)
        OBVIOUS
      <3>1. sessions'[c] = lost[c]
        BY <2>9, <2>11
      <3>2. sessions[c] # NoSession
        BY <2>7, <3>1
      <3>3. QED
        BY <2>7, <3>1, <3>2 DEF Continues
    <2>14. Holds(mapped', sessions') /\ Tidied(mapped', sessions')
      BY <2>2, <2>11
    <2>15. d = opening[w] /\ mapped' = [mapped EXCEPT ![w] = s] /\ devices[d].linked
      BY <2>1, <2>3
    <2>16. QED
      BY <1>1, <2>4, <2>8, <2>11, <2>12, <2>13, <2>14, <2>15, SomethingOpens
  <1>4. QED
    BY <1>2, <1>3

\* A new code replaces the client that the map had.
CodeShown(w, s) ==
    /\ mapped' = [mapped EXCEPT ![w] = s]
    /\ UNCHANGED <<channel, devices, opening>>
    /\ Clients(sessions', Paired) /\ Holds(mapped', sessions') /\ Tidied(mapped', sessions')
    /\ sessions'[s].state = "waiting" /\ sessions'[s].workspace = w /\ sessions'[s].device = Nothing
    /\ \A c \in Slot : sessions'[c] # NoSession /\ c # s => sessions'[c] = sessions[c] /\ mapped[w] # c

LEMMA GetQREffect ==
  ASSUME SessionsShape, NEW w \in Workspace, GetQR(w), mapped'[w] # Nothing
  PROVE  CodeShown(w, FreeSlot) /\ FreeSlot \in Slot /\ sessions[FreeSlot] = NoSession
  <1>1. PICK s, m, client, map, closed, open :
           /\ s = FreeSlot /\ m = mapped[w] /\ map = mapped' /\ client = Session(w, "waiting", Nothing)
           /\ closed = (IF mapped[w] = Nothing THEN sessions ELSE Closed(sessions, m))
           /\ open = [closed EXCEPT ![s] = client]
    OBVIOUS
  <1>2. /\ FreeSlots # {} /\ mapped' = [mapped EXCEPT ![w] = s]
        /\ UNCHANGED <<channel, devices, opening>>
        /\ sessions' = Tidy(open, map)
    <2>1. mapped' # [mapped EXCEPT ![w] = Nothing]
      BY DEF SessionsShape
    <2>2. QED
      BY <1>1, <2>1 DEF GetQR
  <1>3. s \in Slot /\ sessions[s] = NoSession
    BY <1>1, <1>2, FreshSlot
  <1>4. Clients(sessions, Paired) /\ Holds(mapped, sessions)
    BY DEF SessionsShape
  <1>5. m # Nothing => m \in Slot /\ sessions[m] # NoSession /\ sessions[m].workspace = w
    BY <1>1, <1>4 DEF Holds
  <1>6. /\ Clients(closed, Paired)
        /\ \A c \in Slot : closed[c] = NoSession <=> sessions[c] = NoSession
        /\ \A c \in Slot : c # m => closed[c] = sessions[c]
        /\ m # Nothing => closed[m].state = "closed"
    <2>1. CASE m = Nothing
      BY <1>1, <1>4, <2>1
    <2>2. CASE m # Nothing
      <3>1. closed = Closed(sessions, m)
        BY <1>1, <2>2
      <3>2. /\ Clients(closed, Paired) /\ closed[m] # NoSession /\ closed[m].state = "closed"
            /\ \A c \in Slot : c # m => closed[c] = sessions[c]
        BY <1>4, <1>5, <2>2, <3>1, ClosedEffect
      <3>3. QED
        BY <1>5, <2>2, <3>2
    <2>3. QED
      BY <2>1, <2>2
  <1>7. /\ Client(client, Paired) /\ client # NoSession /\ client.state = "waiting"
        /\ client.workspace = w /\ client.device = Nothing
    BY <1>1, WaitingIsClient
  <1>8. Clients(open, Paired) /\ \A c \in Slot : open[c] = IF c = s THEN client ELSE closed[c]
    BY <1>1, <1>3, <1>6, <1>7 DEF Clients
  <1>9. \A v \in Workspace : map[v] = IF v = w THEN s ELSE mapped[v]
    BY <1>1, <1>2 DEF SessionsShape
  <1>10. Holds(map, open)
    <2> SUFFICES ASSUME NEW v \in Workspace, map[v] # Nothing
                 PROVE  map[v] \in Slot /\ open[map[v]] # NoSession /\ open[map[v]].workspace = v
      BY DEF Holds
    <2>1. CASE v = w
      BY <1>3, <1>7, <1>8, <1>9, <2>1
    <2>2. CASE v # w
      <3>1. /\ map[v] = mapped[v] /\ mapped[v] \in Slot
            /\ sessions[mapped[v]] # NoSession /\ sessions[mapped[v]].workspace = v
        BY <1>4, <1>9, <2>2 DEF Holds
      <3>2. mapped[v] # s /\ mapped[v] # m
        BY <1>3, <1>5, <2>2, <3>1, NothingIsNothing
      <3>3. QED
        BY <1>6, <1>8, <3>1, <3>2
    <2>3. QED
      BY <2>1, <2>2
  <1>11. /\ Clients(sessions', Paired) /\ Holds(map, sessions') /\ Tidied(map, sessions')
         /\ \A c \in Slot : sessions'[c] = NoSession \/ sessions'[c] = open[c]
    BY <1>2, <1>8, <1>10, TidyEffect
  <1>12. sessions'[s] = client
    <2>1. open[s] = client /\ client.state # "closed"
      BY <1>3, <1>7, <1>8
    <2>2. QED
      BY <1>2, <1>3, <2>1 DEF Tidy
  <1>13. m # Nothing => sessions'[m] = NoSession
    <2> SUFFICES ASSUME m # Nothing PROVE sessions'[m] = NoSession
      OBVIOUS
    <2>1. m \in Slot /\ m # s /\ open[m].state = "closed"
      BY <1>3, <1>5, <1>6, <1>8
    <2>2. \A v \in Workspace : map[v] # m
      BY <1>4, <1>5, <1>9, <2>1 DEF Holds
    <2>3. QED
      BY <1>2, <2>1, <2>2 DEF Tidy
  <1>14. \A c \in Slot : sessions'[c] # NoSession /\ c # s => sessions'[c] = sessions[c] /\ mapped[w] # c
    <2> SUFFICES ASSUME NEW c \in Slot, sessions'[c] # NoSession, c # s
                 PROVE  sessions'[c] = sessions[c] /\ mapped[w] # c
      OBVIOUS
    <2>1. c # m
      BY <1>13, NothingIsNothing
    <2>2. QED
      BY <1>1, <1>6, <1>8, <1>11, <2>1
  <1>15. Holds(mapped', sessions') /\ Tidied(mapped', sessions')
    BY <1>1, <1>11
  <1>16. CodeShown(w, s)
    BY <1>2, <1>7, <1>11, <1>12, <1>14, <1>15 DEF CodeShown
  <1>17. QED
    BY <1>1, <1>3, <1>16

LEMMA GetQRKeeps ==
  ASSUME DevicesShape, SessionsShape, Good, Rules, NEW w \in Workspace, NEW s \in Slot,
         sessions[s] = NoSession, CodeShown(w, s)
  PROVE  SessionsShape' /\ Rules'
  <1>1. /\ mapped' = [mapped EXCEPT ![w] = s] /\ UNCHANGED <<channel, devices, opening>>
        /\ Clients(sessions', Paired) /\ Holds(mapped', sessions') /\ Tidied(mapped', sessions')
        /\ sessions'[s].state = "waiting" /\ sessions'[s].workspace = w
        /\ sessions'[s].device = Nothing
        /\ \A c \in Slot : sessions'[c] # NoSession /\ c # s =>
              sessions'[c] = sessions[c] /\ mapped[w] # c
    BY DEF CodeShown
  <1>2. Paired' = Paired /\ \A v \in Workspace : mapped'[v] = IF v = w THEN s ELSE mapped[v]
    BY <1>1 DEF SessionsShape, Paired
  <1>3. SessionsShape'
    <2>1. mapped' \in [Workspace -> Slot \cup {Nothing}]
      BY <1>1 DEF SessionsShape
    <2>2. QED
      BY <1>1, <1>2, <2>1 DEF SessionsShape
  <1>4. \A c \in Slot : HasDevice(c)' =>
           /\ HasDevice(c) /\ c # s /\ sessions'[c] = sessions[c] /\ mapped[w] # c
           /\ sessions[c].device \in Paired /\ sessions[c].workspace \in Workspace
    BY <1>1, DevicesUsed DEF HasDevice
  <1>5. \A v \in Workspace : HasRow(v)' <=> HasRow(v)
    BY <1>1 DEF HasRow
  <1>6. SessionsOwn'
    <2> SUFFICES ASSUME NEW c \in Slot, HasDevice(c)', sessions'[c].state # "pairing",
                        devices[sessions'[c].device].linked
                 PROVE  /\ Owns(sessions'[c].workspace, sessions'[c].device)
                        /\ mapped'[sessions'[c].workspace] # Nothing
      BY <1>1 DEF SessionsOwn, Owns
    <2>1. /\ Owns(sessions[c].workspace, sessions[c].device)
          /\ mapped[sessions[c].workspace] # Nothing
      BY <1>4 DEF Rules, SessionsOwn
    <2>2. QED
      BY <1>2, <1>4, <2>1, NothingIsNothing
  <1>7. OpeningsOwn' /\ RowsOwn'
    BY <1>1, <1>5 DEF Rules, OpeningsOwn, RowsOwn, Owns
  <1>8. ForeignAlone'
    <2> SUFFICES ASSUME NEW c \in Slot, HasDevice(c)', NEW v, v = sessions'[c].workspace,
                        devices[sessions'[c].device].by # v
                 PROVE  /\ mapped'[v] = c /\ opening[v] = Nothing /\ ~HasRow(v)'
                        /\ \A g \in Slot : sessions'[g] # NoSession /\ sessions'[g].workspace = v
                                           => g = c
      BY <1>1 DEF ForeignAlone
    <2>1. /\ HasDevice(c) /\ v = sessions[c].workspace /\ v \in Workspace
          /\ devices[sessions[c].device].by # v /\ mapped[w] # c
      BY <1>4
    <2>2. /\ mapped[v] = c /\ opening[v] = Nothing /\ ~HasRow(v)
          /\ \A g \in Slot : sessions[g] # NoSession /\ sessions[g].workspace = v => g = c
      BY <2>1 DEF Rules, ForeignAlone
    <2>3. v # w
      BY <2>1, <2>2
    <2>4. \A g \in Slot : sessions'[g] # NoSession /\ sessions'[g].workspace = v => g = c
      BY <1>1, <2>2, <2>3
    <2>5. QED
      BY <1>2, <1>5, <2>1, <2>2, <2>3, <2>4
  <1>9. PairingAlone'
    <2> SUFFICES ASSUME NEW c \in Slot, sessions'[c].state = "pairing"
                 PROVE  /\ devices[sessions'[c].device].by = sessions'[c].workspace
                        /\ mapped'[sessions'[c].workspace] = c
                        /\ \A g \in Slot : HasDevice(g)' /\ sessions'[g].device = sessions'[c].device
                                           => g = c
                        /\ \A v \in Workspace :
                              /\ opening[v] # sessions'[c].device
                              /\ HasRow(v)' => channel[v].device # sessions'[c].device
      BY <1>1 DEF PairingAlone
    <2>1. /\ c # s /\ sessions'[c] = sessions[c] /\ mapped[w] # c
          /\ sessions[c].state = "pairing"
      BY <1>1, NoSessionIsNone
    <2>2. /\ devices[sessions[c].device].by = sessions[c].workspace
          /\ mapped[sessions[c].workspace] = c
          /\ \A g \in Slot : HasDevice(g) /\ sessions[g].device = sessions[c].device => g = c
          /\ \A v \in Workspace : /\ opening[v] # sessions[c].device
                                  /\ HasRow(v) => channel[v].device # sessions[c].device
      BY <2>1 DEF Rules, PairingAlone
    <2>3. \A g \in Slot : HasDevice(g)' /\ sessions'[g].device = sessions[c].device => g = c
      BY <1>4, <2>2
    <2>4. sessions[c].workspace \in Workspace \ {w}
      BY <2>1, <2>2, DevicesUsed
    <2>5. QED
      BY <1>2, <1>5, <2>1, <2>2, <2>3, <2>4
  <1>10. WaitingMapped'
    <2> SUFFICES ASSUME NEW c \in Slot, sessions'[c].state = "waiting"
                 PROVE  \/ mapped'[sessions'[c].workspace] = c
                        \/ \E e \in Paired : devices[e].by = sessions'[c].workspace
      BY <1>1, <1>2 DEF WaitingMapped
    <2>1. CASE c = s
      BY <1>1, <1>2, <2>1
    <2>2. CASE c # s
      <3>1. /\ sessions'[c] = sessions[c] /\ mapped[w] # c
            /\ sessions[c].workspace \in Workspace
        BY <1>1, <2>2, NoSessionIsNone, DevicesUsed
      <3>2. \/ mapped[sessions[c].workspace] = c
            \/ \E e \in Paired : devices[e].by = sessions[c].workspace
        BY <3>1 DEF Rules, WaitingMapped
      <3>3. QED
        BY <1>2, <3>1, <3>2
    <2>3. QED
      BY <2>1, <2>2
  <1>11. QED
    BY <1>3, <1>6, <1>7, <1>8, <1>9, <1>10 DEF Rules

LEMMA MaxOfOne ==
  ASSUME NEW n \in Nat
  PROVE  Max({n}) = n
  BY DEF Max

LEMMA SomeoneOwns ==
  ASSUME SessionsShape, NEW labelled, NEW d \in Restorable(labelled),
         NEW w, w = CHOOSE v \in DeviceOwners(d, labelled) : TRUE
  PROVE  w \in Workspace /\ Owns(w, d)
  <1>1. DeviceOwners(d, labelled) # {}
    BY FS_EmptySet DEF Restorable
  <1>2. w \in DeviceOwners(d, labelled)
    BY <1>1
  <1>3. /\ w \in Workspace /\ channel[w].status = "active"
        /\ \/ channel[w].key = <<"phone", devices[d].account>>
           \/ channel[w].account = devices[d].account
    <2> DEFINE active == {v \in Workspace : channel[v].status = "active"}
               keyed == {v \in active : channel[v].key = <<"phone", devices[d].account>>}
               shown == {v \in active \cap labelled : channel[v].account = devices[d].account}
    <2>1. DeviceOwners(d, labelled) = keyed \/ DeviceOwners(d, labelled) = shown
      BY DEF DeviceOwners
    <2>2. QED
      BY <1>2, <2>1
  <1>4. ChannelOf(channel[w], Paired)
    BY <1>3, NoSessionIsNone DEF SessionsShape
  <1>5. channel[w].account = devices[d].account
    BY <1>3, <1>4 DEF ChannelOf
  <1>6. QED
    BY <1>3, <1>5 DEF Owns

\* Each session that a restart opens is the only one of the workspace that owns
\* its account.
LEMMA RestoreEffect ==
  ASSUME DevicesShape, SessionsShape, Good, RestoreSessions
  PROVE  /\ UNCHANGED <<channel, devices>> /\ opening' = [w \in Workspace |-> Nothing]
         /\ Clients(sessions', Paired)
         /\ mapped' \in [Workspace -> Slot \cup {Nothing}]
         /\ Holds(mapped', sessions')
         /\ \A s \in Slot : sessions'[s] # NoSession =>
               /\ sessions'[s].state = "up" /\ sessions'[s].device = s /\ s \in Paired
               /\ sessions'[s].workspace \in Workspace
               /\ Owns(sessions'[s].workspace, s) /\ mapped'[sessions'[s].workspace] = s
  <1>0. PICK labelled \in SUBSET Workspace : RestoreLabelled(labelled)
    BY DEF RestoreSessions
  <1>1. PICK restored \in SUBSET Restorable(labelled) :
           /\ restored \subseteq Slot
           /\ sessions' = [s \in Slot |-> IF s \in restored
                              THEN Session(CHOOSE v \in DeviceOwners(s, labelled) : TRUE, "up", s)
                              ELSE NoSession]
           /\ mapped' = [w \in Workspace |->
                 LET own == {d \in restored : (CHOOSE v \in DeviceOwners(d, labelled) : TRUE) = w} IN
                 IF own = {} THEN Nothing ELSE Max(own)]
           /\ opening' = [w \in Workspace |-> Nothing] /\ UNCHANGED <<channel, devices>>
    BY <1>0 DEF RestoreLabelled
  <1>2. PICK owner : owner = [d \in restored |-> CHOOSE v \in DeviceOwners(d, labelled) : TRUE]
    OBVIOUS
  <1>3. \A d \in restored : d \in Paired /\ owner[d] \in Workspace /\ Owns(owner[d], d)
    BY <1>1, <1>2, SomeoneOwns DEF Restorable
  <1>4. \A d, e \in restored : owner[d] = owner[e] => d = e
    BY <1>3, GoodDevices DEF Owns
  <1>5. \A s \in Slot : sessions'[s] = IF s \in restored THEN Session(owner[s], "up", s) ELSE NoSession
    BY <1>1, <1>2
  <1>6. \A w \in Workspace :
           mapped'[w] = IF {d \in restored : owner[d] = w} = {} THEN Nothing
                        ELSE Max({d \in restored : owner[d] = w})
    <2> SUFFICES ASSUME NEW w \in Workspace
                 PROVE  mapped'[w] = IF {d \in restored : owner[d] = w} = {} THEN Nothing
                                     ELSE Max({d \in restored : owner[d] = w})
      OBVIOUS
    <2>1. {d \in restored : (CHOOSE v \in DeviceOwners(d, labelled) : TRUE) = w}
            = {d \in restored : owner[d] = w}
      BY <1>2
    <2>2. QED
      BY <1>1, <2>1
  <1>7. \A d \in restored : mapped'[owner[d]] = d
    <2> SUFFICES ASSUME NEW d \in restored PROVE mapped'[owner[d]] = d
      OBVIOUS
    <2>1. {e \in restored : owner[e] = owner[d]} = {d}
      BY <1>4
    <2>2. d \in Nat
      BY <1>3 DEF DevicesShape
    <2>3. QED
      BY <1>3, <1>6, <2>1, <2>2, MaxOfOne
  <1>8. \A w \in Workspace : mapped'[w] # Nothing => \E d \in restored : owner[d] = w /\ mapped'[w] = d
    <2> SUFFICES ASSUME NEW w \in Workspace, mapped'[w] # Nothing
                 PROVE  \E d \in restored : owner[d] = w /\ mapped'[w] = d
      OBVIOUS
    <2>1. PICK d \in restored : owner[d] = w
      <3>1. {d \in restored : owner[d] = w} # {}
        BY <1>6
      <3>2. QED
        BY <3>1
    <2>2. QED
      BY <1>7, <2>1
  <1>9. \A s \in Slot : s \in restored =>
           /\ Client(sessions'[s], Paired) /\ sessions'[s] # NoSession /\ sessions'[s].state = "up"
           /\ sessions'[s].workspace = owner[s] /\ sessions'[s].device = s
    BY <1>3, <1>5, UpIsClient
  <1>10. Clients(sessions', Paired)
    <2>1. sessions' = [s \in Slot |-> sessions'[s]]
      BY <1>1
    <2>2. QED
      BY <1>5, <1>9, <2>1 DEF Clients
  <1>11. Holds(mapped', sessions')
    <2> SUFFICES ASSUME NEW w \in Workspace, mapped'[w] # Nothing
                 PROVE  /\ mapped'[w] \in Slot /\ sessions'[mapped'[w]] # NoSession
                        /\ sessions'[mapped'[w]].workspace = w
      BY DEF Holds
    <2>1. PICK d \in restored : owner[d] = w /\ mapped'[w] = d
      BY <1>8
    <2>2. d \in Slot
      BY <1>1
    <2>3. QED
      BY <1>9, <2>1, <2>2
  <1>12. mapped' \in [Workspace -> Slot \cup {Nothing}]
    <2>1. mapped' = [w \in Workspace |-> mapped'[w]]
      BY <1>1
    <2>2. QED
      BY <1>1, <1>8, <2>1
  <1>13. \A s \in Slot : sessions'[s] # NoSession => s \in restored
    BY <1>5
  <1>14. \A s \in Slot : sessions'[s] # NoSession =>
            /\ sessions'[s].state = "up" /\ sessions'[s].device = s /\ s \in Paired
            /\ sessions'[s].workspace \in Workspace
            /\ Owns(sessions'[s].workspace, s) /\ mapped'[sessions'[s].workspace] = s
    BY <1>3, <1>7, <1>9, <1>13
  <1>15. /\ UNCHANGED <<channel, devices>> /\ opening' = [w \in Workspace |-> Nothing]
    BY <1>1
  <1>16. QED
    BY <1>10, <1>11, <1>12, <1>14, <1>15

LEMMA RestoreKeeps ==
  ASSUME DevicesShape, SessionsShape, Good, Rules, RestoreSessions
  PROVE  SessionsShape' /\ Rules'
  <1>1. /\ UNCHANGED <<channel, devices>> /\ opening' = [w \in Workspace |-> Nothing]
        /\ Clients(sessions', Paired)
        /\ mapped' \in [Workspace -> Slot \cup {Nothing}]
        /\ Holds(mapped', sessions')
        /\ \A s \in Slot : sessions'[s] # NoSession =>
              /\ sessions'[s].state = "up" /\ sessions'[s].device = s /\ s \in Paired
              /\ sessions'[s].workspace \in Workspace
              /\ Owns(sessions'[s].workspace, s) /\ mapped'[sessions'[s].workspace] = s
    BY RestoreEffect
  <1>2. Paired' = Paired
    BY <1>1 DEF Paired
  <1>3. \A s \in Slot : sessions'[s].state \notin {"closed", "pairing", "waiting"}
    BY <1>1, NoSessionIsNone
  <1>4. SessionsShape'
    BY <1>1, <1>2, <1>3 DEF SessionsShape, Tidied
  <1>5. SessionsOwn'
    BY <1>1, NothingIsNothing DEF SessionsOwn, HasDevice, Owns
  <1>6. OpeningsOwn' /\ RowsOwn' /\ PairingAlone' /\ WaitingMapped'
    BY <1>1, <1>3 DEF Rules, OpeningsOwn, RowsOwn, PairingAlone, WaitingMapped, HasRow
  <1>7. ForeignAlone'
    <2> SUFFICES ASSUME NEW c \in Slot, HasDevice(c)', NEW v, v = sessions'[c].workspace,
                        devices[sessions'[c].device].by # v
                 PROVE  /\ mapped'[v] = c /\ opening'[v] = Nothing /\ ~HasRow(v)'
                        /\ \A g \in Slot : sessions'[g] # NoSession /\ sessions'[g].workspace = v
                                           => g = c
      BY <1>1 DEF ForeignAlone
    <2>1. /\ sessions'[c].device = c /\ c \in Paired /\ v \in Workspace
          /\ Owns(v, c) /\ mapped'[v] = c /\ devices[c].by # v
      BY <1>1 DEF HasDevice
    <2>2. \A g \in Slot : sessions'[g] # NoSession /\ sessions'[g].workspace = v => g = c
      BY <1>1, <2>1
    <2>3. ~HasRow(v)
      <3> SUFFICES ASSUME HasRow(v) PROVE FALSE
        OBVIOUS
      <3>1. /\ channel[v].device \in Paired /\ devices[channel[v].device].by = v
            /\ channel[v].account = devices[channel[v].device].account
        BY <2>1, DevicesUsed DEF Rules, RowsOwn
      <3>2. channel[v].device = c
        BY <2>1, <3>1, GoodDevices DEF Owns
      <3>3. QED
        BY <2>1, <3>1, <3>2
    <2>4. QED
      BY <1>1, <2>1, <2>2, <2>3 DEF HasRow
  <1>8. QED
    BY <1>4, <1>5, <1>6, <1>7 DEF Rules

LEMMA DevicesStep ==
  ASSUME DevicesShape, [SessionsNext]_sessionVars
  PROVE  DevicesShape' /\ DevicesKept
  <1>1. ASSUME devices' = devices, irregular' \in BOOLEAN, irregular => irregular'
        PROVE  DevicesShape' /\ DevicesKept
    BY <1>1 DEF DevicesShape, DevicesKept, Paired
  <1>2. ASSUME NEW w \in Workspace, Disconnect(w)
        PROVE  DevicesShape' /\ DevicesKept
    <2>1. CASE devices' = devices
      <3>1. irregular' = irregular \/ irregular' = TRUE
        BY <1>2 DEF Disconnect, Regular, ChannelFails
      <3>2. irregular \in BOOLEAN
        BY DEF DevicesShape
      <3>3. CASE irregular' = irregular
        BY <1>1, <2>1, <3>2, <3>3
      <3>4. CASE irregular' = TRUE
        BY <1>1, <2>1, <3>4
      <3>5. QED
        BY <3>1, <3>3, <3>4
    <2>2. CASE devices' # devices
      BY <1>2, <2>2, MarkedKeeps DEF Disconnect, Regular
    <2>3. QED
      BY <2>1, <2>2
  <1>3. ASSUME NEW w \in Workspace, GetQR(w) \/ HandleDisconnectChannel(w) \/ LookUpDevice(w) \/ OpenSession(w)
        PROVE  DevicesShape' /\ DevicesKept
    BY <1>1, <1>3 DEF GetQR, HandleDisconnectChannel, LookUpDevice, OpenSession, Regular, DevicesShape
  <1>4. ASSUME NEW w \in Workspace, NEW a \in Account,
               CreateWhatsAppChannel(w, a) \/ HandleWhatsAppOAuthCallback(w, a)
        PROVE  DevicesShape' /\ DevicesKept
    BY <1>1, <1>4 DEF CreateWhatsAppChannel, HandleWhatsAppOAuthCallback, ConnectCloudApi, DevicesShape
  <1>5. ASSUME NEW s \in Slot, CodesRunOut(s) \/ PairSuccess(s) \/ ConnectionLost(s) \/ Reconnect(s)
        PROVE  DevicesShape' /\ DevicesKept
    BY <1>1, <1>5 DEF CodesRunOut, PairSuccess, ConnectionLost, Reconnect, Regular, ChannelFails,
       DevicesShape
  <1>6. ASSUME NEW s \in Slot, LoggedOut(s)
        PROVE  DevicesShape' /\ DevicesKept
    BY <1>6, MarkedKeeps DEF LoggedOut, Regular
  <1>7. ASSUME NEW s \in Slot, NEW a \in Account, Scan(s, a)
        PROVE  DevicesShape' /\ DevicesKept
    BY <1>7, ScanKeeps
  <1>8. ASSUME NEW d \in Paired, Unlink(d)
        PROVE  DevicesShape' /\ DevicesKept
    BY <1>8, MarkedKeeps DEF Unlink, Regular
  <1>9. CASE RestoreSessions \/ UNCHANGED sessionVars
    BY <1>1, <1>9 DEF RestoreSessions, RestoreLabelled, sessionVars, Regular, DevicesShape
  <1>10. QED
    BY <1>2, <1>3, <1>4, <1>5, <1>6, <1>7, <1>8, <1>9 DEF SessionsNext

LEMMA SessionsStep == SessionsInv /\ [SessionsNext]_sessionVars => SessionsInv'
  <1> SUFFICES ASSUME SessionsInv, [SessionsNext]_sessionVars, Good'
               PROVE  SessionsShape' /\ Rules'
    BY DevicesStep DEF SessionsInv
  <1>1. DevicesShape /\ Good /\ SessionsShape /\ Rules /\ ~irregular'
    BY DevicesStep, GoodBefore DEF SessionsInv, Good
  <1>2. ASSUME NEW w \in Workspace, GetQR(w)
        PROVE  SessionsShape' /\ Rules'
    <2>1. mapped'[w] # Nothing
      BY <1>1, <1>2, FreshSlot, NothingIsNothing DEF GetQR, SessionsShape
    <2>2. QED
      BY <1>1, <1>2, <2>1, GetQREffect, GetQRKeeps
  <1>3. ASSUME NEW w \in Workspace, Disconnect(w) \/ LookUpDevice(w) \/ OpenSession(w)
        PROVE  SessionsShape' /\ Rules'
    BY <1>1, <1>3, DisconnectKeeps, LookUpDeviceKeeps, OpenSessionKeeps
  <1>4. ASSUME NEW w \in Workspace, HandleDisconnectChannel(w)
        PROVE  SessionsShape' /\ Rules'
    BY <1>1, <1>4 DEF HandleDisconnectChannel
  <1>5. ASSUME NEW w \in Workspace, NEW a \in Account,
               CreateWhatsAppChannel(w, a) \/ HandleWhatsAppOAuthCallback(w, a)
        PROVE  SessionsShape' /\ Rules'
    BY <1>1, <1>5, ConnectCloudApiKeeps DEF CreateWhatsAppChannel, HandleWhatsAppOAuthCallback
  <1>6. ASSUME NEW s \in Slot, CodesRunOut(s) \/ PairSuccess(s) \/ ConnectionLost(s)
        PROVE  SessionsShape' /\ Rules'
    BY <1>1, <1>6, CodesRunOutKeeps, PairSuccessKeeps, ConnectionLostKeeps
  <1>7. ASSUME NEW s \in Slot, Reconnect(s) \/ LoggedOut(s)
        PROVE  SessionsShape' /\ Rules'
    BY <1>1, <1>7, ReconnectKeeps, LoggedOutKeeps
  <1>8. ASSUME NEW s \in Slot, NEW a \in Account, Scan(s, a)
        PROVE  SessionsShape' /\ Rules'
    BY <1>1, <1>8, ScanPairs
  <1>9. ASSUME NEW d \in Paired, Unlink(d)
        PROVE  SessionsShape' /\ Rules'
    BY <1>1, <1>9, UnlinkKeeps
  <1>10. CASE RestoreSessions
    BY <1>1, <1>10, RestoreKeeps
  <1>11. CASE UNCHANGED sessionVars
    <2>1. \A s \in Slot : sessions'[s] = NoSession \/ Continues(s)
      BY <1>11 DEF Continues, sessionVars
    <2>2. UNCHANGED <<channel, devices, mapped, opening, sessions>>
      BY <1>11 DEF sessionVars
    <2>3. Clients(sessions', Paired) /\ Holds(mapped, sessions') /\ Tidied(mapped, sessions')
      BY <1>1, <2>2 DEF SessionsShape
    <2>4. QED
      BY <1>1, <2>1, <2>2, <2>3, ShapeStays, QuietKeeps
  <1>12. QED
    BY <1>2, <1>3, <1>4, <1>5, <1>6, <1>7, <1>8, <1>9, <1>10, <1>11 DEF SessionsNext

LEMMA SessionsInvHolds == SessionsInv => LiveSessionOwnsAccount
  <1> SUFFICES ASSUME DevicesShape, SessionsShape, Rules, NEW s \in Slot, sessions[s].state = "up",
                      devices[sessions[s].device].linked
               PROVE  Owns(sessions[s].workspace, sessions[s].device)
    BY DEF SessionsInv, Good, LiveSessionOwnsAccount, Owns
  <1>1. HasDevice(s)
    BY DevicesUsed, NothingIsNothing DEF HasDevice
  <1>2. QED
    BY <1>1 DEF Rules, SessionsOwn

\* As long as nothing failed, no row was changed past the manager and every
\* account and workspace was paired once, a session belongs to the workspace that
\* owns its account, through lost connections, refused pairings, reconnections
\* that race with a disconnection, and restarts: for any number of workspaces,
\* accounts, sessions held and codes scanned.
THEOREM SessionsOwnAccounts == SessionsSpec => []LiveSessionOwnsAccount
  <1>1. SessionsSpec => []SessionsInv
    BY SessionsStart, SessionsStep, PTL DEF SessionsSpec
  <1>2. QED
    BY <1>1, SessionsInvHolds, PTL

=============================================================================
