--------------------------------- MODULE Teams ---------------------------------
(***************************************************************************)
(* Workspaces, their members and their invitations.  A request resolves    *)
(* the caller's workspace and role once, in the middleware, and acts on    *)
(* what it resolved; removing a member and changing a role count the       *)
(* owners first and write afterwards, in statements of their own.          *)
(***************************************************************************)
EXTENDS Naturals, FiniteSets

CONSTANTS
    Member,
    Team,               \* identities of workspaces, never used twice
    TeamRequest,        \* requests under way
    InviteLimit,        \* bound: invitations ever written
    WorkspaceLimit,     \* workspaces an owner may create
    TurnLimit,          \* bound: requests ever made
    TeamFaultLimit      \* bound: role queries that fail and restarts

VARIABLES
    users,          \* [Member -> the row of users: active workspace and role]
    teams,          \* [Team -> "unborn", "open" or "deleted"]
    seats,          \* [Team -> [Member -> role in tenant_members, or NoSeat]]
    invites,        \* rows of team_invitations
    asking,         \* [TeamRequest -> caller and what it is about to write]
    granted,        \* history: <<t, u, r>>, r was given to u in t
    disturbed,      \* history: what happened that the safeguards do not cover
    turns,          \* requests made so far
    teamFaults

teamVars == <<users, teams, seats, invites, asking, granted, disturbed, turns, teamFaults>>

Seat == {"owner", "admin", "member"}
NoSeat == "none"
Unknown == [home |-> "none", role |-> NoSeat]

\* No workspace has the identity that stands for none.
ASSUME TeamAssumption == Unknown.home \notin Team /\ IsFiniteSet(Member)

Quiet == [pc |-> "quiet"]

TeamsInit ==
    /\ users = [u \in Member |-> Unknown]
    /\ teams = [t \in Team |-> "unborn"]
    /\ seats = [t \in Team |-> [u \in Member |-> NoSeat]]
    /\ invites = {}
    /\ asking = [q \in TeamRequest |-> Quiet]
    /\ granted = {} /\ disturbed = {} /\ turns = 0 /\ teamFaults = 0

-----------------------------------------------------------------------------
Members(t) == {u \in Member : seats[t][u] # NoSeat}
Owners(t) == {u \in Member : seats[t][u] = "owner"}

\* Mistaken variant, for mutation: the role of the users row comes first.
RoleInReversed(t, u) == users[u].role

\* GetMemberRole and SwitchUserWorkspace: the row of users stands in.
RoleIn(t, u) == IF seats[t][u] # NoSeat THEN seats[t][u] ELSE users[u].role

Seated(t, u, r) == [seats EXCEPT ![t][u] = r]

\* What a new workspace writes, in one transaction.
Founds(t, u) ==
    /\ teams[t] = "unborn"
    /\ teams' = [teams EXCEPT ![t] = "open"]
    /\ users' = [users EXCEPT ![u] = [home |-> t, role |-> "owner"]]
    /\ seats' = Seated(t, u, "owner")
    /\ granted' = granted \cup {<<t, u, "owner">>}

Answers(q) == asking' = [asking EXCEPT ![q] = Quiet]
Acts(q, u, t, r) ==
    /\ turns < TurnLimit /\ turns' = turns + 1
    /\ asking' = [asking EXCEPT ![q] = [pc |-> "act", by |-> u, team |-> t, role |-> r,
                                        who |-> u, as |-> NoSeat]]
About(q, pc, u, r) == [pc |-> pc, by |-> asking[q].by, team |-> asking[q].team,
                       role |-> asking[q].role, who |-> u, as |-> r]
Writes(q, pc, u, r) == asking' = [asking EXCEPT ![q] = About(q, pc, u, r)]
Acting(q, pc) == asking[q].pc = pc

Busy == {q \in TeamRequest : ~Acting(q, "quiet")}
Overlap == IF Busy = {} THEN {} ELSE {"overlap"}

-----------------------------------------------------------------------------
(* AuthMiddleware: SyncUser, one at a time *)

SyncNewUser(q, u) ==
    /\ Acting(q, "quiet") /\ users[u] = Unknown
    /\ \E t \in Team : Founds(t, u) /\ Acts(q, u, t, "owner")
    /\ disturbed' = disturbed \cup Overlap
    /\ UNCHANGED <<invites, teamFaults>>

SyncUser(q, u) ==
    /\ Acting(q, "quiet") /\ users[u] # Unknown
    /\ Acts(q, u, users[u].home, RoleIn(users[u].home, u))
    /\ disturbed' = disturbed \cup Overlap
    /\ UNCHANGED <<users, teams, seats, invites, granted, teamFaults>>

\* A query that fails is taken for a missing row: the role of the users row is
\* written over the one of the membership.
SyncUserHeals(q, u) ==
    /\ Acting(q, "quiet") /\ users[u] # Unknown
    /\ teamFaults < TeamFaultLimit /\ teamFaults' = teamFaults + 1
    /\ seats' = Seated(users[u].home, u, users[u].role)
    /\ Acts(q, u, users[u].home, users[u].role)
    /\ disturbed' = disturbed \cup Overlap \cup {"query"}
    /\ UNCHANGED <<users, teams, invites, granted>>

RequestEnds(q) ==
    /\ q \in Busy /\ Answers(q)
    /\ UNCHANGED <<users, teams, seats, invites, granted, disturbed, turns, teamFaults>>

-----------------------------------------------------------------------------
(* Invitations *)

MayInvite(caller, r) == caller = "owner" \/ (caller = "admin" /\ r = "member")

InviteMember(q, u, r) ==
    /\ Acting(q, "act") /\ r # "owner" /\ MayInvite(asking[q].role, r)
    /\ seats[asking[q].team][u] = NoSeat
    /\ \A i \in invites : ~(i.team = asking[q].team /\ i.email = u /\ i.status = "pending")
    /\ Writes(q, "invite", u, r)
    /\ UNCHANGED <<users, teams, seats, invites, granted, disturbed, turns, teamFaults>>

\* The workspace and the inviter must still have their rows.
CreateInvitation(q) ==
    /\ Acting(q, "invite") /\ Cardinality(invites) < InviteLimit
    /\ teams[asking[q].team] = "open" /\ users[asking[q].by] # Unknown
    /\ invites' = invites \cup {[id |-> Cardinality(invites), team |-> asking[q].team,
                                 email |-> asking[q].who, role |-> asking[q].as,
                                 by |-> asking[q].by, status |-> "pending"]}
    /\ Answers(q)
    /\ UNCHANGED <<users, teams, seats, granted, disturbed, turns, teamFaults>>

Moved(i, status) == (invites \ {i}) \cup {[i EXCEPT !.status = status]}

RevokeInvitation(q, i) ==
    /\ Acting(q, "act") /\ asking[q].role \in {"owner", "admin"}
    /\ i.team = asking[q].team /\ i.status = "pending"
    /\ invites' = Moved(i, "revoked") /\ Answers(q)
    /\ UNCHANGED <<users, teams, seats, granted, disturbed, turns, teamFaults>>

\* Seven days pass and the link is opened after all.
AcceptExpired(q, i) ==
    /\ Acting(q, "act") /\ i.status = "pending"
    /\ invites' = Moved(i, "expired") /\ Answers(q)
    /\ UNCHANGED <<users, teams, seats, granted, disturbed, turns, teamFaults>>

\* The role of the invitation replaces the one of a membership that exists;
\* the role of the users row stays that of the workspace left.
AcceptInvitation(q, i) ==
    LET u == asking[q].by IN
    /\ Acting(q, "act") /\ i.status = "pending" /\ users[u] # Unknown
    /\ seats' = Seated(i.team, u, i.role)
    /\ users' = [users EXCEPT ![u].home = i.team]
    /\ invites' = Moved(i, "accepted")
    /\ granted' = granted \cup {<<i.team, u, i.role>>}
    /\ disturbed' = disturbed \cup (IF seats[i.team][u] # NoSeat THEN {"rejoin"} ELSE {})
    /\ Answers(q)
    /\ UNCHANGED <<teams, turns, teamFaults>>

-----------------------------------------------------------------------------
(* Members *)

\* Mistaken variant, for mutation: the count is forgotten.
KeepsOwnerUnchecked(t, u) == TRUE

KeepsOwner(t, u) == seats[t][u] = "owner" => Cardinality(Owners(t)) > 1

RemoveMember(q, u) ==
    LET t == asking[q].team IN
    /\ Acting(q, "act") /\ asking[q].role = "owner"
    /\ u \in Members(t) /\ KeepsOwner(t, u)
    /\ Writes(q, "remove", u, NoSeat)
    /\ UNCHANGED <<users, teams, seats, invites, granted, disturbed, turns, teamFaults>>

UpdateMemberRole(q, u, r) ==
    LET t == asking[q].team IN
    /\ Acting(q, "act") /\ asking[q].role = "owner"
    /\ Cardinality(Members(t)) > 1 /\ u \in Members(t)
    /\ r # "owner" => KeepsOwner(t, u)
    /\ Writes(q, "change", u, r)
    /\ UNCHANGED <<users, teams, seats, invites, granted, disturbed, turns, teamFaults>>

\* A membership is written by its row: a request whose row is gone finds none.
SeatOf(q) == <<asking[q].team, asking[q].who>>
Without(gone) == [q \in TeamRequest |->
                    IF asking[q].pc \in {"remove", "change"} /\ SeatOf(q) \in gone
                    THEN Quiet ELSE asking[q]]

WriteRemoval(q) ==
    LET t == asking[q].team
        u == asking[q].who IN
    /\ Acting(q, "remove")
    /\ seats' = Seated(t, u, NoSeat)
    /\ asking' = Without({SeatOf(q)})
    /\ disturbed' = disturbed \cup (IF users[u].home = t THEN {"active"} ELSE {})
    /\ UNCHANGED <<users, teams, invites, granted, turns, teamFaults>>

WriteRole(q) ==
    /\ Acting(q, "change")
    /\ seats' = Seated(asking[q].team, asking[q].who, asking[q].as)
    /\ granted' = granted \cup {<<asking[q].team, asking[q].who, asking[q].as>>}
    /\ Answers(q)
    /\ UNCHANGED <<users, teams, invites, disturbed, turns, teamFaults>>

-----------------------------------------------------------------------------
(* Workspaces *)

Owned(u) == {t \in Team : teams[t] = "open" /\ (seats[t][u] # NoSeat \/ users[u].home = t)
                          /\ RoleIn(t, u) = "owner"}

SwitchWorkspace(q, t) ==
    LET u == asking[q].by IN
    /\ Acting(q, "act") /\ teams[t] = "open" /\ users[u] # Unknown
    /\ seats[t][u] # NoSeat \/ users[u].home = t
    /\ seats' = Seated(t, u, RoleIn(t, u))
    /\ users' = [users EXCEPT ![u] = [home |-> t, role |-> RoleIn(t, u)]]
    /\ Answers(q)
    /\ UNCHANGED <<teams, invites, granted, disturbed, turns, teamFaults>>

CreateWorkspace(q) ==
    /\ Acting(q, "act") /\ Cardinality(Owned(asking[q].by)) < WorkspaceLimit
    /\ Writes(q, "create", asking[q].by, "owner")
    /\ UNCHANGED <<users, teams, seats, invites, granted, disturbed, turns, teamFaults>>

WriteWorkspace(q) ==
    /\ Acting(q, "create") /\ users[asking[q].by] # Unknown
    /\ \E t \in Team : Founds(t, asking[q].by)
    /\ Answers(q)
    /\ UNCHANGED <<invites, disturbed, turns, teamFaults>>

\* The row of a user refers to its workspace and goes with it, the caller's
\* too; memberships and invitations of such a user go with the row.
Leaving(t) == {u \in Member : users[u].home = t}

\* The workspace the caller moves to, if the caller's row is still there.
DeleteWorkspace(q) ==
    LET t == asking[q].team
        u == asking[q].by
        elsewhere == {s \in Team \ {t} : seats[s][u] # NoSeat} IN
    /\ Acting(q, "act") /\ asking[q].role = "owner" /\ seats[t][u] = "owner"
    /\ teams' = [teams EXCEPT ![t] = "deleted"]
    /\ seats' = [s \in Team |-> [p \in Member |->
                    IF s = t \/ p \in Leaving(t) THEN NoSeat ELSE seats[s][p]]]
    /\ invites' = {i \in invites : i.team # t /\ i.by \notin Leaving(t)}
    /\ IF u \in Leaving(t)
       THEN users' = [p \in Member |-> IF p \in Leaving(t) THEN Unknown ELSE users[p]]
       ELSE \E s \in elsewhere :
               users' = [p \in Member |->
                    IF p \in Leaving(t) THEN Unknown
                    ELSE IF p = u THEN [home |-> s, role |-> seats[s][u]] ELSE users[p]]
    /\ asking' = [Without({seat \in Team \X Member : seat[1] = t \/ seat[2] \in Leaving(t)})
                    EXCEPT ![q] = Quiet]
    /\ disturbed' = disturbed \cup
            (IF \E s \in Team \ {t}, p \in Leaving(t) : seats[s][p] # NoSeat
             THEN {"cascade"} ELSE {})
    /\ UNCHANGED <<granted, turns, teamFaults>>

\* The start-up migration gives every user a membership of the active workspace.
MigrateMembers ==
    /\ teamFaults < TeamFaultLimit /\ teamFaults' = teamFaults + 1
    /\ seats' = [t \in Team |-> [u \in Member |->
                    IF users[u].home = t /\ seats[t][u] = NoSeat
                    THEN IF users[u].role = "admin" THEN "owner" ELSE users[u].role
                    ELSE seats[t][u]]]
    /\ asking' = [q \in TeamRequest |-> Quiet]
    /\ UNCHANGED <<users, teams, invites, granted, disturbed, turns>>

TeamsNext ==
    \/ MigrateMembers
    \/ \E q \in TeamRequest :
          \/ \E u \in Member : \/ SyncNewUser(q, u) \/ SyncUser(q, u) \/ SyncUserHeals(q, u)
                               \/ RemoveMember(q, u)
                               \/ \E r \in Seat : InviteMember(q, u, r) \/ UpdateMemberRole(q, u, r)
          \/ \E i \in invites : RevokeInvitation(q, i) \/ AcceptExpired(q, i) \/ AcceptInvitation(q, i)
          \/ \E t \in Team : SwitchWorkspace(q, t)
          \/ CreateInvitation(q) \/ WriteRemoval(q) \/ WriteRole(q)
          \/ CreateWorkspace(q) \/ WriteWorkspace(q) \/ DeleteWorkspace(q) \/ RequestEnds(q)

TeamsSpec == TeamsInit /\ [][TeamsNext]_teamVars

-----------------------------------------------------------------------------
\* Rows refer to rows that exist: nobody is active in, seated in or invited to
\* a workspace that is not open, and only users that have a row are seated.
TeamsTypeOK ==
    /\ \A u \in Member : users[u] = Unknown \/ teams[users[u].home] = "open"
    /\ \A t \in Team, u \in Member :
          seats[t][u] # NoSeat => teams[t] = "open" /\ users[u] # Unknown
    /\ \A i \in invites : teams[i.team] = "open" /\ users[i.by] # Unknown

\* Requests act one at a time, no role query fails, no owner opens an
\* invitation of the own workspace and no user is deleted with another
\* workspace: then every open workspace keeps an owner, whatever members
\* are removed, promoted or demoted, and whoever leaves or deletes one.
OwnersRemain ==
    disturbed \subseteq {"active"} => \A t \in Team : teams[t] = "open" => Owners(t) # {}

\* A request acts with a role the caller was once given in the workspace it
\* acts on, as long as no role query failed and nobody was removed from a
\* workspace while active in it: a role never travels with the user.
ActsAsGranted ==
    disturbed \cap {"active", "query"} = {} =>
        \A q \in Busy : <<asking[q].team, asking[q].by, asking[q].role>> \in granted

\* What the comments of the two safeguards promise (usecase/team_usecase.go:
\* "Ensure we never delete the last owner", "guarantee at least one other
\* owner remains"), requests that overlap included.
OwnersRemainAlways ==
    disturbed \subseteq {"active", "overlap"} =>
        \A t \in Team : teams[t] = "open" => Owners(t) # {}

\* What the comment of DeleteWorkspace says: the caller moves to another
\* workspace when there is one (repository/postgres_identity.go).
DeletionReassigns ==
    [][\A q \in TeamRequest :
        DeleteWorkspace(q) =>
            \/ users'[asking[q].by] # Unknown
            \/ \A s \in Team \ {asking[q].team} : seats[s][asking[q].by] = NoSeat]_teamVars
=============================================================================
