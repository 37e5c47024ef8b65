------------------------------ MODULE MCWorkspace ------------------------------
(***************************************************************************)
(* One run for the parts of a workspace that share no state in the code:   *)
(* the part is chosen in the initial state, the others stay as they begin. *)
(* A workspace is the same model value in every part. The audience is      *)
(* checked twice: one request at a time, with faults, and two that overlap *)
(* without.                                                                *)
(***************************************************************************)
EXTENDS Audience, Teams, ChannelRegistry, WhatsAppSessions,
        CampaignReview, TLC

CONSTANTS x1, p1, p2, a1, u1, u2, w1, w2, b1, b2, c1

VARIABLE part

Same == Permutations({w1, w2}) \cup Permutations({p1, p2})

MaxOverlapping == 2 \* bound: requests started where they overlap
MaxSerialSyncs == 1 \* bound: contacts synchronised where they do not
MaxDisturbed == 3 \* bound: requests started where a statement fails or a contact is synchronised
MaxFaultyPairings == 1 \* bound: devices paired in a behaviour with a fault

WorkspaceVars == <<audienceVars, teamVars, registryVars, sessionVars, reviewVars, part>>

WorkspaceInit ==
    /\ part \in {"audience", "requests", "teams", "channels", "sessions", "review"}
    /\ AudienceInit /\ TeamsInit /\ RegistryInit /\ SessionsInit /\ ReviewInit

WorkspaceNext ==
    /\ part' = part
    /\ \/ /\ part = "audience" /\ AudienceNext
          /\ UNCHANGED <<teamVars, registryVars, sessionVars, reviewVars>>
          /\ ~Overlapping' /\ spent'.syncs <= MaxSerialSyncs
          /\ spent'.faults + spent'.syncs > 0 => spent'.requests <= MaxDisturbed
       \/ /\ part = "requests" /\ AudienceNext
          /\ UNCHANGED <<teamVars, registryVars, sessionVars, reviewVars>>
          /\ spent'.requests <= MaxOverlapping /\ spent'.faults = 0
       \/ /\ part = "teams" /\ TeamsNext
          /\ UNCHANGED <<audienceVars, registryVars, sessionVars, reviewVars>>
       \/ /\ part = "channels" /\ RegistryNext
          /\ UNCHANGED <<audienceVars, teamVars, sessionVars, reviewVars>>
       \/ /\ part = "sessions" /\ SessionsNext
          /\ channelFaults' > 0 => Cardinality(DOMAIN devices') <= MaxFaultyPairings
          /\ UNCHANGED <<audienceVars, teamVars, registryVars, reviewVars>>
       \/ /\ part = "review" /\ ReviewNext
          /\ UNCHANGED <<audienceVars, teamVars, registryVars, sessionVars>>

WorkspaceSpec == WorkspaceInit /\ [][WorkspaceNext]_WorkspaceVars

-----------------------------------------------------------------------------
WorkspaceTypeOK == AudienceTypeOK /\ TeamsTypeOK /\ RegistryTypeOK /\ SessionsTypeOK

\* Without overlapping requests, whatever statements fail and whenever the
\* gateway restarts: contacts.status is the projection of the ledger, a
\* redelivered keyword undoes no later one, and the plan's capacity is exceeded
\* by no more than the contacts let in where the plan or the count could not be
\* read. In every case the sweep keeps what was delivered to the recipient it takes.
AudienceIsKept ==
    /\ [](part = "audience" => StatusFollowsLedger /\ LastKeywordStands /\ WithinCapacity)
    /\ HistoryKept
=============================================================================
