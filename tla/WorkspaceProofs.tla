---------------------------- MODULE WorkspaceProofs ----------------------------
(***************************************************************************)
(* What the people of a workspace may do. Members: who acts in a team was  *)
(* granted the role, and an orderly team keeps an owner, for any number of *)
(* members, teams and requests. Decisions: when one call is served at a    *)
(* time, an approval, an answer of the brand and a dispatch each concern   *)
(* the version they were given for, whatever the number of versions. Both  *)
(* assumptions are needed: MCv_edit_race drops Serial, and an answer given *)
(* on a page that was not reloaded drops BrandReloads.                     *)
(***************************************************************************)
EXTENDS Teams, CampaignReview, FiniteSetTheorems, TLAPS

-----------------------------------------------------------------------------
(* Members *)

MaybeSeat == Seat \cup {NoSeat}

UserRow(row) ==
    /\ row = [home |-> row.home, role |-> row.role]
    /\ row.role \in MaybeSeat
    /\ row # Unknown => row.home \in Team

Asked(a) ==
    /\ a = [pc |-> a.pc, by |-> a.by, team |-> a.team, role |-> a.role, who |-> a.who, as |-> a.as]
    /\ a.pc \in {"act", "invite", "remove", "change", "create"}
    /\ a.by \in Member /\ a.team \in Team /\ a.role \in MaybeSeat
    /\ a.who \in Member /\ a.as \in MaybeSeat
    /\ a.pc \in {"invite", "change"} => a.as \in Seat

InviteRow(i) ==
    /\ i = [id |-> i.id, team |-> i.team, email |-> i.email, role |-> i.role, by |-> i.by,
            status |-> i.status]
    /\ i.team \in Team /\ i.role \in Seat

TeamsShape ==
    /\ users = [u \in Member |-> users[u]]
    /\ \A u \in Member : UserRow(users[u])
    /\ teams = [t \in Team |-> teams[t]]
    /\ seats \in [Team -> [Member -> MaybeSeat]]
    /\ asking = [q \in TeamRequest |-> asking[q]]
    /\ \A q \in TeamRequest : asking[q] = Quiet \/ Asked(asking[q])
    /\ \A i \in invites : InviteRow(i)

LEMMA SeatedAs ==
  ASSUME TeamsShape, NEW t \in Team, NEW u \in Member, NEW r \in MaybeSeat, seats' = Seated(t, u, r)
  PROVE  /\ seats' \in [Team -> [Member -> MaybeSeat]]
         /\ \A s \in Team, p \in Member : seats'[s][p] = IF s = t /\ p = u THEN r ELSE seats[s][p]
  BY DEF Seated, TeamsShape

\* A request that goes on to another state, or to none.
LEMMA RequestMoves ==
  ASSUME TeamsShape, NEW q \in TeamRequest, NEW a, a = Quiet \/ Asked(a),
         asking' = [asking EXCEPT ![q] = a]
  PROVE  /\ asking' = [p \in TeamRequest |-> asking'[p]]
         /\ \A p \in TeamRequest : asking'[p] = IF p = q THEN a ELSE asking[p]
         /\ \A p \in TeamRequest : asking'[p] = Quiet \/ Asked(asking'[p])
  <1>1. /\ asking' = [p \in TeamRequest |-> asking'[p]]
        /\ \A p \in TeamRequest : asking'[p] = IF p = q THEN a ELSE asking[p]
    BY DEF TeamsShape
  <1>2. QED
    BY <1>1 DEF TeamsShape

LEMMA ActorIsAsked ==
  ASSUME TeamsShape, NEW q \in TeamRequest, ~Acting(q, "quiet")
  PROVE  Asked(asking[q])
  BY DEF TeamsShape, Acting, Quiet

LEMMA AboutIsAsked ==
  ASSUME TeamsShape, NEW q \in TeamRequest, Asked(asking[q]), NEW u \in Member, NEW r \in MaybeSeat,
         NEW pc \in {"act", "invite", "remove", "change", "create"},
         pc \in {"invite", "change"} => r \in Seat
  PROVE  /\ Asked(About(q, pc, u, r))
         /\ About(q, pc, u, r).pc = pc /\ About(q, pc, u, r).by = asking[q].by
         /\ About(q, pc, u, r).team = asking[q].team /\ About(q, pc, u, r).role = asking[q].role
         /\ About(q, pc, u, r).who = u /\ About(q, pc, u, r).as = r
  <1>1. PICK a : a = About(q, pc, u, r)
    OBVIOUS
  <1>2. /\ a = [pc |-> a.pc, by |-> a.by, team |-> a.team, role |-> a.role,
                who |-> a.who, as |-> a.as]
        /\ a.pc = pc /\ a.by = asking[q].by /\ a.team = asking[q].team
        /\ a.role = asking[q].role /\ a.who = u /\ a.as = r
    BY <1>1 DEF About
  <1>3. Asked(a)
    BY <1>2 DEF Asked
  <1>4. QED
    BY <1>1, <1>2, <1>3

LEMMA RoleInIsSeat ==
  ASSUME TeamsShape, NEW t \in Team, NEW u \in Member
  PROVE  RoleIn(t, u) \in MaybeSeat
  BY DEF TeamsShape, RoleIn, UserRow

\* The request that begins, and what it takes from the middleware.
LEMMA Begins ==
  ASSUME TeamsShape, NEW q \in TeamRequest, NEW u \in Member, NEW t \in Team, NEW r \in MaybeSeat,
         Acts(q, u, t, r)
  PROVE  \E a : /\ Asked(a) /\ a.pc = "act" /\ a.team = t /\ a.by = u /\ a.role = r
                /\ asking' = [asking EXCEPT ![q] = a]
  <1> DEFINE a == [pc |-> "act", by |-> u, team |-> t, role |-> r, who |-> u, as |-> NoSeat]
  <1>1. /\ a = [pc |-> a.pc, by |-> a.by, team |-> a.team, role |-> a.role,
                who |-> a.who, as |-> a.as]
        /\ a.pc = "act" /\ a.by = u /\ a.team = t /\ a.role = r /\ a.who = u /\ a.as = NoSeat
        /\ asking' = [asking EXCEPT ![q] = a]
    BY DEF Acts
  <1> HIDE DEF a
  <1>2. Asked(a)
    BY <1>1 DEF Asked, MaybeSeat
  <1>3. QED
    BY <1>1, <1>2

\* The workspace that a user founds.
LEMMA FoundsShape ==
  ASSUME TeamsShape, NEW t \in Team, NEW u \in Member, Founds(t, u)
  PROVE  /\ users' = [p \in Member |-> users'[p]]
         /\ \A p \in Member : UserRow(users'[p])
         /\ \A p \in Member : IF p = u THEN users'[p].home = t ELSE users'[p] = users[p]
         /\ teams' = [s \in Team |-> teams'[s]]
         /\ \A s \in Team : teams'[s] = IF s = t THEN "open" ELSE teams[s]
         /\ seats' \in [Team -> [Member -> MaybeSeat]]
         /\ \A s \in Team, p \in Member :
               seats'[s][p] = IF s = t /\ p = u THEN "owner" ELSE seats[s][p]
  <1>1. "owner" \in MaybeSeat
    BY DEF MaybeSeat, Seat
  <1>2. seats' = Seated(t, u, "owner")
    BY DEF Founds
  <1>3. /\ seats' \in [Team -> [Member -> MaybeSeat]]
        /\ \A s \in Team, p \in Member :
              seats'[s][p] = IF s = t /\ p = u THEN "owner" ELSE seats[s][p]
    BY <1>1, <1>2, SeatedAs
  <1>4. /\ teams' = [s \in Team |-> teams'[s]]
        /\ \A s \in Team : teams'[s] = IF s = t THEN "open" ELSE teams[s]
    BY DEF Founds, TeamsShape
  <1>5. /\ users' = [p \in Member |-> users'[p]]
        /\ \A p \in Member : users'[p] = IF p = u THEN [home |-> t, role |-> "owner"] ELSE users[p]
    BY DEF Founds, TeamsShape
  <1>6. UserRow([home |-> t, role |-> "owner"])
    BY <1>1 DEF UserRow
  <1>7. QED
    BY <1>3, <1>4, <1>5, <1>6 DEF TeamsShape

LEMMA ShapeStart == TeamsInit => TeamsShape
  <1> SUFFICES ASSUME TeamsInit
               PROVE  TeamsShape
    OBVIOUS
  <1>1. UserRow(Unknown)
    BY DEF UserRow, Unknown, MaybeSeat
  <1>2. QED
    BY <1>1 DEF TeamsInit, TeamsShape, MaybeSeat

\* Steps that change requests and invitations only.
LEMMA PaperKeepsShape ==
  ASSUME TeamsShape, UNCHANGED <<users, teams, seats>>,
         NEW q \in TeamRequest, NEW a, a = Quiet \/ Asked(a), asking' = [asking EXCEPT ![q] = a],
         \A i \in invites' : InviteRow(i)
  PROVE  TeamsShape'
  <1>1. /\ asking' = [p \in TeamRequest |-> asking'[p]]
        /\ \A p \in TeamRequest : asking'[p] = Quiet \/ Asked(asking'[p])
    BY RequestMoves
  <1>2. QED
    BY <1>1 DEF TeamsShape

LEMMA MovedShape ==
  ASSUME TeamsShape, NEW i \in invites, NEW next, invites' = Moved(i, next)
  PROVE  \A j \in invites' : InviteRow(j)
  <1> DEFINE k == [i EXCEPT !.status = next]
  <1>1. InviteRow(i)
    BY DEF TeamsShape
  <1>2. /\ k = [id |-> k.id, team |-> k.team, email |-> k.email, role |-> k.role, by |-> k.by,
                status |-> k.status]
        /\ k.team = i.team /\ k.role = i.role
    BY <1>1 DEF InviteRow
  <1>3. \A j \in invites' : j \in invites \/ j = k
    BY DEF Moved
  <1> HIDE DEF k
  <1>4. InviteRow(k)
    BY <1>1, <1>2 DEF InviteRow
  <1>5. QED
    BY <1>3, <1>4 DEF TeamsShape

\* The team keeps an owner when this member's seat is lost.
Another(t, u) == seats[t][u] = "owner" => \E p \in Member : p # u /\ seats[t][p] = "owner"

\* What may cost an owner its seat.
Risky(a) == a.pc = "remove" \/ (a.pc = "change" /\ a.as # "owner")

LEMMA KeptOwner ==
  ASSUME TeamsShape, NEW t \in Team, NEW u \in Member, KeepsOwner(t, u)
  PROVE  Another(t, u)
  <1> SUFFICES ASSUME seats[t][u] = "owner", \A p \in Member : p # u => seats[t][p] # "owner"
               PROVE  FALSE
    BY DEF Another
  <1>1. Owners(t) \subseteq {u}
    BY DEF Owners
  <1>2. IsFiniteSet({u}) /\ Cardinality({u}) = 1
    BY FS_Singleton
  <1>3. IsFiniteSet(Owners(t)) /\ Cardinality(Owners(t)) <= 1
    BY <1>1, <1>2, FS_Subset
  <1>4. Cardinality(Owners(t)) \in Nat
    BY <1>3, FS_CardinalityType
  <1>5. QED
    BY <1>3, <1>4 DEF KeepsOwner

\* Requests that write no seat: they move on, or write an invitation.
PaperStep(q) ==
    \/ RequestEnds(q) \/ CreateInvitation(q) \/ CreateWorkspace(q)
    \/ \E u \in Member : RemoveMember(q, u)
    \/ \E u \in Member, r \in Seat : InviteMember(q, u, r) \/ UpdateMemberRole(q, u, r)
    \/ \E i \in invites : RevokeInvitation(q, i) \/ AcceptExpired(q, i)

LEMMA PaperQuiets ==
  ASSUME TeamsShape, NEW q \in TeamRequest,
         \/ RequestEnds(q) \/ CreateInvitation(q)
         \/ \E i \in invites : RevokeInvitation(q, i) \/ AcceptExpired(q, i)
  PROVE  /\ UNCHANGED <<users, teams, seats, granted, disturbed>>
         /\ q \in Busy
         /\ \A i \in invites' : InviteRow(i)
         /\ asking' = [asking EXCEPT ![q] = Quiet]
  <1>1. CASE RequestEnds(q)
    BY <1>1 DEF RequestEnds, Answers, TeamsShape
  <1>2. CASE CreateInvitation(q)
    <2>1. Acting(q, "invite") /\ Asked(asking[q]) /\ q \in Busy
      BY <1>2, ActorIsAsked DEF CreateInvitation, Acting, Busy
    <2> DEFINE i == [id |-> Cardinality(invites), team |-> asking[q].team,
                     email |-> asking[q].who, role |-> asking[q].as,
                     by |-> asking[q].by, status |-> "pending"]
    <2>2. /\ i = [id |-> i.id, team |-> i.team, email |-> i.email, role |-> i.role, by |-> i.by,
                  status |-> i.status]
          /\ i.team = asking[q].team /\ i.role = asking[q].as
      OBVIOUS
    <2>3. invites' = invites \cup {i}
      BY <1>2 DEF CreateInvitation
    <2> HIDE DEF i
    <2>4. InviteRow(i)
      BY <2>1, <2>2 DEF InviteRow, Asked, Acting
    <2>5. QED
      BY <1>2, <2>1, <2>3, <2>4 DEF CreateInvitation, Answers, TeamsShape
  <1>3. ASSUME NEW i \in invites, RevokeInvitation(q, i) \/ AcceptExpired(q, i)
        PROVE  /\ UNCHANGED <<users, teams, seats, granted, disturbed>>
               /\ q \in Busy
               /\ \A j \in invites' : InviteRow(j)
               /\ asking' = [asking EXCEPT ![q] = Quiet]
    <2>1. \E next : invites' = Moved(i, next)
      BY <1>3 DEF RevokeInvitation, AcceptExpired
    <2>2. \A j \in invites' : InviteRow(j)
      BY <2>1, MovedShape
    <2>3. QED
      BY <1>3, <2>2 DEF RevokeInvitation, AcceptExpired, Answers, Busy, Acting
  <1>4. QED
    BY <1>1, <1>2, <1>3

\* What a request says it will write, it has been allowed to.
LEMMA PaperWrites ==
  ASSUME TeamsShape, NEW q \in TeamRequest,
         \/ CreateWorkspace(q) \/ \E u \in Member : RemoveMember(q, u)
         \/ \E u \in Member, r \in Seat : InviteMember(q, u, r) \/ UpdateMemberRole(q, u, r)
  PROVE  /\ UNCHANGED <<users, teams, seats, granted, disturbed, invites>>
         /\ q \in Busy
         /\ \E a : /\ Asked(a) /\ asking' = [asking EXCEPT ![q] = a]
                   /\ a.by = asking[q].by /\ a.team = asking[q].team /\ a.role = asking[q].role
                   /\ Risky(a) => Another(a.team, a.who)
  <1>1. q \in Busy /\ Asked(asking[q]) /\ UNCHANGED <<users, teams, seats, granted, disturbed, invites>>
    BY ActorIsAsked DEF CreateWorkspace, RemoveMember, InviteMember, UpdateMemberRole, Acting, Busy
  <1>2. "owner" \in MaybeSeat /\ NoSeat \in MaybeSeat /\ Seat \subseteq MaybeSeat
    BY DEF MaybeSeat, Seat
  <1>3. asking[q].by \in Member /\ asking[q].team \in Team
    BY <1>1 DEF Asked
  <1>4. CASE CreateWorkspace(q)
    <2>1. asking' = [asking EXCEPT ![q] = About(q, "create", asking[q].by, "owner")]
      BY <1>4 DEF CreateWorkspace, Writes
    <2>2. PICK a : a = About(q, "create", asking[q].by, "owner")
      OBVIOUS
    <2>3. /\ Asked(a) /\ a.by = asking[q].by /\ a.team = asking[q].team
          /\ a.role = asking[q].role /\ a.pc = "create"
      BY <1>1, <1>2, <1>3, <2>2, AboutIsAsked
    <2>4. QED
      BY <1>1, <2>1, <2>2, <2>3 DEF Risky
  <1>5. ASSUME NEW u \in Member, RemoveMember(q, u)
        PROVE  \E a : /\ Asked(a) /\ asking' = [asking EXCEPT ![q] = a]
                      /\ a.by = asking[q].by /\ a.team = asking[q].team /\ a.role = asking[q].role
                      /\ Risky(a) => Another(a.team, a.who)
    <2>1. asking' = [asking EXCEPT ![q] = About(q, "remove", u, NoSeat)]
          /\ KeepsOwner(asking[q].team, u)
      BY <1>5 DEF RemoveMember, Writes
    <2>2. Another(asking[q].team, u)
      BY <1>3, <2>1, KeptOwner
    <2>3. PICK a : a = About(q, "remove", u, NoSeat)
      OBVIOUS
    <2>4. /\ Asked(a) /\ a.by = asking[q].by /\ a.team = asking[q].team
          /\ a.role = asking[q].role /\ a.who = u
      BY <1>1, <1>2, <2>3, AboutIsAsked
    <2>5. QED
      BY <2>1, <2>2, <2>3, <2>4
  <1>6. ASSUME NEW u \in Member, NEW r \in Seat, InviteMember(q, u, r)
        PROVE  \E a : /\ Asked(a) /\ asking' = [asking EXCEPT ![q] = a]
                      /\ a.by = asking[q].by /\ a.team = asking[q].team /\ a.role = asking[q].role
                      /\ Risky(a) => Another(a.team, a.who)
    <2>1. asking' = [asking EXCEPT ![q] = About(q, "invite", u, r)]
      BY <1>6 DEF InviteMember, Writes
    <2>2. PICK a : a = About(q, "invite", u, r)
      OBVIOUS
    <2>3. /\ Asked(a) /\ a.by = asking[q].by /\ a.team = asking[q].team
          /\ a.role = asking[q].role /\ a.pc = "invite"
      BY <1>1, <1>2, <2>2, AboutIsAsked
    <2>4. QED
      BY <2>1, <2>2, <2>3 DEF Risky
  <1>7. ASSUME NEW u \in Member, NEW r \in Seat, UpdateMemberRole(q, u, r)
        PROVE  \E a : /\ Asked(a) /\ asking' = [asking EXCEPT ![q] = a]
                      /\ a.by = asking[q].by /\ a.team = asking[q].team /\ a.role = asking[q].role
                      /\ Risky(a) => Another(a.team, a.who)
    <2>1. asking' = [asking EXCEPT ![q] = About(q, "change", u, r)]
          /\ (r # "owner" => KeepsOwner(asking[q].team, u))
      BY <1>7 DEF UpdateMemberRole, Writes
    <2>2. r # "owner" => Another(asking[q].team, u)
      BY <1>3, <2>1, KeptOwner
    <2>3. PICK a : a = About(q, "change", u, r)
      OBVIOUS
    <2>4. /\ Asked(a) /\ a.by = asking[q].by /\ a.team = asking[q].team
          /\ a.role = asking[q].role /\ a.who = u /\ a.pc = "change" /\ a.as = r
      BY <1>1, <1>2, <2>3, AboutIsAsked
    <2>5. QED
      BY <2>1, <2>2, <2>3, <2>4 DEF Risky
  <1>8. QED
    BY <1>1, <1>4, <1>5, <1>6, <1>7

LEMMA PaperEffect ==
  ASSUME TeamsShape, NEW q \in TeamRequest, PaperStep(q)
  PROVE  /\ UNCHANGED <<users, teams, seats, granted, disturbed>>
         /\ q \in Busy
         /\ \A i \in invites' : InviteRow(i)
         /\ \E a : /\ a = Quiet \/ Asked(a)
                   /\ asking' = [asking EXCEPT ![q] = a]
                   /\ a # Quiet => a.by = asking[q].by /\ a.team = asking[q].team
                                   /\ a.role = asking[q].role
                   /\ Risky(a) => Another(a.team, a.who)
  <1>1. CASE \/ RequestEnds(q) \/ CreateInvitation(q)
             \/ \E i \in invites : RevokeInvitation(q, i) \/ AcceptExpired(q, i)
    <2>1. ~Risky(Quiet)
      BY DEF Risky, Quiet
    <2>2. QED
      BY <1>1, <2>1, PaperQuiets
  <1>2. CASE \/ CreateWorkspace(q) \/ \E u \in Member : RemoveMember(q, u)
             \/ \E u \in Member, r \in Seat : InviteMember(q, u, r) \/ UpdateMemberRole(q, u, r)
    BY <1>2, PaperWrites DEF TeamsShape
  <1>3. QED
    BY <1>1, <1>2 DEF PaperStep

LEMMA PaperShape ==
  ASSUME TeamsShape, NEW q \in TeamRequest, PaperStep(q)
  PROVE  TeamsShape'
  <1>1. /\ UNCHANGED <<users, teams, seats>> /\ \A i \in invites' : InviteRow(i)
        /\ \E a : (a = Quiet \/ Asked(a)) /\ asking' = [asking EXCEPT ![q] = a]
    BY PaperEffect
  <1>2. QED
    BY <1>1, PaperKeepsShape

\* A request that begins: a new user founds a workspace, any other acts in the
\* workspace it is active in.
LEMMA SyncNewEffect ==
  ASSUME TeamsShape, NEW q \in TeamRequest, NEW u \in Member, SyncNewUser(q, u)
  PROVE  \E t, a :
            /\ t \in Team
            /\ Founds(t, u) /\ Asked(a) /\ a.pc = "act" /\ a.team = t /\ a.by = u /\ a.role = "owner"
            /\ asking' = [asking EXCEPT ![q] = a]
  <1>1. "owner" \in MaybeSeat
    BY DEF MaybeSeat, Seat
  <1>2. PICK t \in Team : Founds(t, u) /\ Acts(q, u, t, "owner")
    BY DEF SyncNewUser
  <1>3. QED
    BY <1>1, <1>2, Begins

LEMMA SyncEffect ==
  ASSUME TeamsShape, NEW q \in TeamRequest, NEW u \in Member, SyncUser(q, u)
  PROVE  /\ UNCHANGED <<users, teams, seats, invites, granted>>
         /\ users[u] # Unknown /\ users[u].home \in Team
         /\ \E a : /\ Asked(a) /\ a.pc = "act" /\ a.team = users[u].home /\ a.by = u
                   /\ a.role = RoleIn(users[u].home, u)
                   /\ asking' = [asking EXCEPT ![q] = a]
  <1>1. users[u] # Unknown /\ users[u].home \in Team
    BY DEF SyncUser, TeamsShape, UserRow
  <1>2. RoleIn(users[u].home, u) \in MaybeSeat
    BY <1>1, RoleInIsSeat
  <1>3. Acts(q, u, users[u].home, RoleIn(users[u].home, u))
    BY DEF SyncUser
  <1>4. \E a : /\ Asked(a) /\ a.pc = "act" /\ a.team = users[u].home /\ a.by = u
               /\ a.role = RoleIn(users[u].home, u)
               /\ asking' = [asking EXCEPT ![q] = a]
    BY <1>1, <1>2, <1>3, Begins
  <1>5. QED
    BY <1>1, <1>4 DEF SyncUser

LEMMA HealsEffect ==
  ASSUME TeamsShape, NEW q \in TeamRequest, NEW u \in Member, SyncUserHeals(q, u)
  PROVE  /\ UNCHANGED <<users, teams, invites>>
         /\ seats' \in [Team -> [Member -> MaybeSeat]]
         /\ \E a : Asked(a) /\ asking' = [asking EXCEPT ![q] = a]
  <1>1. users[u].role \in MaybeSeat /\ users[u].home \in Team
    BY DEF SyncUserHeals, TeamsShape, UserRow
  <1>2. seats' = Seated(users[u].home, u, users[u].role) /\ Acts(q, u, users[u].home, users[u].role)
    BY DEF SyncUserHeals
  <1>3. seats' \in [Team -> [Member -> MaybeSeat]]
    BY <1>1, <1>2, SeatedAs
  <1>4. \E a : Asked(a) /\ asking' = [asking EXCEPT ![q] = a]
    BY <1>1, <1>2, Begins
  <1>5. QED
    BY <1>3, <1>4 DEF SyncUserHeals

LEMMA SyncShape ==
  ASSUME TeamsShape, NEW q \in TeamRequest, NEW u \in Member,
         SyncNewUser(q, u) \/ SyncUser(q, u) \/ SyncUserHeals(q, u)
  PROVE  TeamsShape'
  <1>1. CASE SyncNewUser(q, u)
    <2>1. PICK t, a : /\ t \in Team /\ Founds(t, u) /\ Asked(a)
                      /\ asking' = [asking EXCEPT ![q] = a]
      BY <1>1, SyncNewEffect
    <2>2. /\ asking' = [p \in TeamRequest |-> asking'[p]]
          /\ \A p \in TeamRequest : asking'[p] = Quiet \/ Asked(asking'[p])
      BY <2>1, RequestMoves
    <2>3. invites' = invites
      BY <1>1 DEF SyncNewUser
    <2>4. QED
      BY <2>1, <2>2, <2>3, FoundsShape DEF TeamsShape
  <1>2. CASE SyncUser(q, u)
    <2>1. /\ UNCHANGED <<users, teams, seats, invites>>
          /\ \E a : Asked(a) /\ asking' = [asking EXCEPT ![q] = a]
      BY <1>2, SyncEffect
    <2>2. QED
      BY <2>1, PaperKeepsShape DEF TeamsShape
  <1>3. CASE SyncUserHeals(q, u)
    <2>1. PICK a : Asked(a) /\ asking' = [asking EXCEPT ![q] = a]
      BY <1>3, HealsEffect
    <2>2. /\ asking' = [p \in TeamRequest |-> asking'[p]]
          /\ \A p \in TeamRequest : asking'[p] = Quiet \/ Asked(asking'[p])
      BY <2>1, RequestMoves
    <2>3. UNCHANGED <<users, teams, invites>> /\ seats' \in [Team -> [Member -> MaybeSeat]]
      BY <1>3, HealsEffect
    <2>4. QED
      BY <2>2, <2>3 DEF TeamsShape
  <1>4. QED
    BY <1>1, <1>2, <1>3

\* A member takes the seat of an invitation.
LEMMA AcceptEffect ==
  ASSUME TeamsShape, NEW q \in TeamRequest, NEW i \in invites, AcceptInvitation(q, i)
  PROVE  LET u == asking[q].by IN
         /\ Asked(asking[q]) /\ q \in Busy /\ InviteRow(i) /\ users[u] # Unknown
         /\ seats' \in [Team -> [Member -> MaybeSeat]]
         /\ \A s \in Team, p \in Member :
               seats'[s][p] = IF s = i.team /\ p = u THEN i.role ELSE seats[s][p]
         /\ users' = [p \in Member |-> users'[p]]
         /\ \A p \in Member : UserRow(users'[p])
         /\ \A p \in Member : IF p = u THEN users'[p].home = i.team ELSE users'[p] = users[p]
         /\ \A j \in invites' : InviteRow(j)
         /\ teams' = teams
         /\ asking' = [asking EXCEPT ![q] = Quiet]
  <1> DEFINE u == asking[q].by
             row == [users[u] EXCEPT !.home = i.team]
  <1>1. Asked(asking[q]) /\ q \in Busy
    BY ActorIsAsked DEF AcceptInvitation, Acting, Busy
  <1>2. u \in Member /\ InviteRow(i) /\ UserRow(users[u]) /\ users[u] # Unknown
    BY <1>1 DEF Asked, TeamsShape, AcceptInvitation
  <1>3. i.role \in MaybeSeat /\ i.team \in Team
    BY <1>2 DEF InviteRow, MaybeSeat
  <1>4. seats' = Seated(i.team, u, i.role)
    BY DEF AcceptInvitation
  <1>5. /\ seats' \in [Team -> [Member -> MaybeSeat]]
        /\ \A s \in Team, p \in Member :
              seats'[s][p] = IF s = i.team /\ p = u THEN i.role ELSE seats[s][p]
    BY <1>2, <1>3, <1>4, SeatedAs
  <1>6. users' = [users EXCEPT ![u] = row]
    BY DEF AcceptInvitation
  <1>7. row.home = i.team /\ row.role = users[u].role /\ row = [home |-> row.home, role |-> row.role]
    BY <1>2 DEF UserRow
  <1> HIDE DEF row
  <1>8. UserRow(row)
    BY <1>2, <1>3, <1>7 DEF UserRow
  <1>9. /\ users' = [p \in Member |-> users'[p]]
        /\ \A p \in Member : users'[p] = IF p = u THEN row ELSE users[p]
    BY <1>6 DEF TeamsShape
  <1>10. \A p \in Member : UserRow(users'[p])
    BY <1>8, <1>9 DEF TeamsShape
  <1>11. \A j \in invites' : InviteRow(j)
    BY MovedShape DEF AcceptInvitation
  <1>12. teams' = teams /\ asking' = [asking EXCEPT ![q] = Quiet]
    BY DEF AcceptInvitation, Answers
  <1>13. QED
    BY <1>1, <1>2, <1>5, <1>7, <1>9, <1>10, <1>11, <1>12

LEMMA SwitchEffect ==
  ASSUME TeamsShape, NEW q \in TeamRequest, NEW t \in Team, SwitchWorkspace(q, t)
  PROVE  LET u == asking[q].by IN
         /\ Asked(asking[q]) /\ q \in Busy /\ users[u] # Unknown /\ RoleIn(t, u) \in MaybeSeat
         /\ seats' \in [Team -> [Member -> MaybeSeat]]
         /\ \A s \in Team, p \in Member :
               seats'[s][p] = IF s = t /\ p = u THEN RoleIn(t, u) ELSE seats[s][p]
         /\ users' = [p \in Member |-> users'[p]]
         /\ \A p \in Member : UserRow(users'[p])
         /\ \A p \in Member : IF p = u THEN users'[p].home = t ELSE users'[p] = users[p]
         /\ UNCHANGED <<teams, invites>>
         /\ asking' = [asking EXCEPT ![q] = Quiet]
  <1> DEFINE u == asking[q].by
             row == [home |-> t, role |-> RoleIn(t, u)]
  <1>1. Asked(asking[q]) /\ q \in Busy
    BY ActorIsAsked DEF SwitchWorkspace, Acting, Busy
  <1>2. u \in Member /\ users[u] # Unknown
    BY <1>1 DEF Asked, SwitchWorkspace
  <1>3. RoleIn(t, u) \in MaybeSeat
    BY <1>2, RoleInIsSeat
  <1>4. seats' = Seated(t, u, RoleIn(t, u))
    BY DEF SwitchWorkspace
  <1>5. /\ seats' \in [Team -> [Member -> MaybeSeat]]
        /\ \A s \in Team, p \in Member :
              seats'[s][p] = IF s = t /\ p = u THEN RoleIn(t, u) ELSE seats[s][p]
    BY <1>2, <1>3, <1>4, SeatedAs
  <1>6. users' = [users EXCEPT ![u] = row]
    BY DEF SwitchWorkspace
  <1>7. row.home = t /\ row.role = RoleIn(t, u) /\ row = [home |-> row.home, role |-> row.role]
    OBVIOUS
  <1> HIDE DEF row
  <1>8. UserRow(row)
    BY <1>3, <1>7 DEF UserRow
  <1>9. /\ users' = [p \in Member |-> users'[p]]
        /\ \A p \in Member : users'[p] = IF p = u THEN row ELSE users[p]
    BY <1>6 DEF TeamsShape
  <1>10. \A p \in Member : UserRow(users'[p])
    BY <1>8, <1>9 DEF TeamsShape
  <1>11. UNCHANGED <<teams, invites>> /\ asking' = [asking EXCEPT ![q] = Quiet]
    BY DEF SwitchWorkspace, Answers
  <1>12. QED
    BY <1>1, <1>2, <1>3, <1>5, <1>7, <1>9, <1>10, <1>11

\* Requests whose membership is gone have nothing left to write.
LEMMA WithoutEffect ==
  ASSUME TeamsShape, NEW gone, NEW next, next = Without(gone)
  PROVE  /\ next = [p \in TeamRequest |-> next[p]]
         /\ \A p \in TeamRequest : next[p] = Quiet \/ next[p] = asking[p]
         /\ \A p \in TeamRequest : next[p] = Quiet \/ Asked(next[p])
  BY DEF Without, TeamsShape

LEMMA RemovalEffect ==
  ASSUME TeamsShape, NEW q \in TeamRequest, WriteRemoval(q)
  PROVE  /\ Asked(asking[q]) /\ q \in Busy /\ asking[q].pc = "remove"
         /\ seats' \in [Team -> [Member -> MaybeSeat]]
         /\ \A s \in Team, p \in Member :
               seats'[s][p] = IF s = asking[q].team /\ p = asking[q].who THEN NoSeat ELSE seats[s][p]
         /\ UNCHANGED <<users, teams, invites>>
         /\ asking' = [p \in TeamRequest |-> asking'[p]]
         /\ \A p \in TeamRequest : asking'[p] = Quiet \/ asking'[p] = asking[p]
         /\ \A p \in TeamRequest : asking'[p] = Quiet \/ Asked(asking'[p])
  <1>1. Asked(asking[q]) /\ q \in Busy /\ asking[q].pc = "remove"
    BY ActorIsAsked DEF WriteRemoval, Acting, Busy
  <1>2. asking[q].team \in Team /\ asking[q].who \in Member /\ NoSeat \in MaybeSeat
    BY <1>1 DEF Asked, MaybeSeat
  <1>3. seats' = Seated(asking[q].team, asking[q].who, NoSeat)
    BY DEF WriteRemoval
  <1>4. /\ seats' \in [Team -> [Member -> MaybeSeat]]
        /\ \A s \in Team, p \in Member :
              seats'[s][p] = IF s = asking[q].team /\ p = asking[q].who THEN NoSeat ELSE seats[s][p]
    BY <1>2, <1>3, SeatedAs
  <1>5. asking' = Without({SeatOf(q)})
    BY DEF WriteRemoval
  <1>6. /\ asking' = [p \in TeamRequest |-> asking'[p]]
        /\ \A p \in TeamRequest : asking'[p] = Quiet \/ asking'[p] = asking[p]
        /\ \A p \in TeamRequest : asking'[p] = Quiet \/ Asked(asking'[p])
    BY <1>5, WithoutEffect
  <1>7. QED
    BY <1>1, <1>4, <1>6 DEF WriteRemoval

LEMMA RoleEffect ==
  ASSUME TeamsShape, NEW q \in TeamRequest, WriteRole(q)
  PROVE  /\ Asked(asking[q]) /\ q \in Busy /\ asking[q].pc = "change"
         /\ seats' \in [Team -> [Member -> MaybeSeat]]
         /\ \A s \in Team, p \in Member :
               seats'[s][p] = IF s = asking[q].team /\ p = asking[q].who THEN asking[q].as
                              ELSE seats[s][p]
         /\ UNCHANGED <<users, teams, invites>>
         /\ asking' = [asking EXCEPT ![q] = Quiet]
  <1>1. Asked(asking[q]) /\ q \in Busy /\ asking[q].pc = "change"
    BY ActorIsAsked DEF WriteRole, Acting, Busy
  <1>2. asking[q].team \in Team /\ asking[q].who \in Member /\ asking[q].as \in MaybeSeat
    BY <1>1 DEF Asked
  <1>3. seats' = Seated(asking[q].team, asking[q].who, asking[q].as)
    BY DEF WriteRole
  <1>4. /\ seats' \in [Team -> [Member -> MaybeSeat]]
        /\ \A s \in Team, p \in Member :
              seats'[s][p] = IF s = asking[q].team /\ p = asking[q].who THEN asking[q].as
                             ELSE seats[s][p]
    BY <1>2, <1>3, SeatedAs
  <1>5. QED
    BY <1>1, <1>4 DEF WriteRole, Answers

LEMMA WorkspaceEffect ==
  ASSUME TeamsShape, NEW q \in TeamRequest, WriteWorkspace(q)
  PROVE  /\ Asked(asking[q]) /\ q \in Busy
         /\ \E t \in Team : Founds(t, asking[q].by)
         /\ invites' = invites /\ asking' = [asking EXCEPT ![q] = Quiet]
  BY ActorIsAsked DEF WriteWorkspace, Acting, Busy, Answers

\* The deleted workspace takes its memberships with it, and the users that were
\* active in it.
LEMMA DeletionEffect ==
  ASSUME TeamsShape, NEW q \in TeamRequest, DeleteWorkspace(q)
  PROVE  LET t == asking[q].team
             u == asking[q].by IN
         /\ Asked(asking[q]) /\ q \in Busy
         /\ seats' \in [Team -> [Member -> MaybeSeat]]
         /\ \A s \in Team, p \in Member :
               seats'[s][p] = IF s = t \/ p \in Leaving(t) THEN NoSeat ELSE seats[s][p]
         /\ teams' = [s \in Team |-> teams'[s]]
         /\ \A s \in Team : teams'[s] = IF s = t THEN "deleted" ELSE teams[s]
         /\ invites' \subseteq invites
         /\ users' = [p \in Member |-> users'[p]]
         /\ \A p \in Member :
               \/ users'[p] = Unknown
               \/ p \notin Leaving(t) /\ users'[p] = users[p]
               \/ p \notin Leaving(t) /\ UserRow(users'[p]) /\ users'[p].home \in Team \ {t}
                                      /\ seats[users'[p].home][p] # NoSeat
         /\ asking' = [p \in TeamRequest |-> asking'[p]]
         /\ \A p \in TeamRequest : asking'[p] = Quiet \/ asking'[p] = asking[p]
         /\ \A p \in TeamRequest : asking'[p] = Quiet \/ Asked(asking'[p])
  <1> DEFINE t == asking[q].team
             u == asking[q].by
             gone == {seat \in Team \X Member : seat[1] = t \/ seat[2] \in Leaving(t)}
  <1>1. Asked(asking[q]) /\ q \in Busy
    BY ActorIsAsked DEF DeleteWorkspace, Acting, Busy
  <1>2. t \in Team /\ u \in Member /\ NoSeat \in MaybeSeat
    BY <1>1 DEF Asked, MaybeSeat
  <1>3. seats' = [s \in Team |-> [p \in Member |->
                    IF s = t \/ p \in Leaving(t) THEN NoSeat ELSE seats[s][p]]]
    BY DEF DeleteWorkspace
  <1>4. /\ seats' \in [Team -> [Member -> MaybeSeat]]
        /\ \A s \in Team, p \in Member :
              seats'[s][p] = IF s = t \/ p \in Leaving(t) THEN NoSeat ELSE seats[s][p]
    BY <1>2, <1>3 DEF TeamsShape
  <1>5. /\ teams' = [s \in Team |-> teams'[s]]
        /\ \A s \in Team : teams'[s] = IF s = t THEN "deleted" ELSE teams[s]
    BY DEF DeleteWorkspace, TeamsShape
  <1>6. invites' \subseteq invites
    BY DEF DeleteWorkspace
  <1>7. /\ users' = [p \in Member |-> users'[p]]
        /\ \A p \in Member :
              \/ users'[p] = Unknown
              \/ p \notin Leaving(t) /\ users'[p] = users[p]
              \/ p \notin Leaving(t) /\ UserRow(users'[p]) /\ users'[p].home \in Team \ {t}
                                     /\ seats[users'[p].home][p] # NoSeat
    <2>1. CASE users' = [p \in Member |-> IF p \in Leaving(t) THEN Unknown ELSE users[p]]
      BY <2>1
    <2>2. ASSUME u \notin Leaving(t), NEW s \in Team \ {t}, seats[s][u] # NoSeat,
                 users' = [p \in Member |->
                    IF p \in Leaving(t) THEN Unknown
                    ELSE IF p = u THEN [home |-> s, role |-> seats[s][u]] ELSE users[p]]
          PROVE  /\ users' = [p \in Member |-> users'[p]]
                 /\ \A p \in Member :
                      \/ users'[p] = Unknown
                      \/ p \notin Leaving(t) /\ users'[p] = users[p]
                      \/ p \notin Leaving(t) /\ UserRow(users'[p]) /\ users'[p].home \in Team \ {t}
                                             /\ seats[users'[p].home][p] # NoSeat
      <3> DEFINE row == [home |-> s, role |-> seats[s][u]]
      <3>1. row.home = s /\ row.role = seats[s][u] /\ row = [home |-> row.home, role |-> row.role]
        OBVIOUS
      <3>2. seats[s][u] \in MaybeSeat
        BY <1>2 DEF TeamsShape
      <3> HIDE DEF row
      <3>3. UserRow(row)
        BY <2>2, <3>1, <3>2 DEF UserRow
      <3>4. /\ users' = [p \in Member |-> users'[p]]
            /\ \A p \in Member : users'[p] = IF p \in Leaving(t) THEN Unknown
                                             ELSE IF p = u THEN row ELSE users[p]
        BY <2>2 DEF row
      <3>5. QED
        BY <2>2, <3>1, <3>3, <3>4
    <2>3. QED
      BY <2>1, <2>2 DEF DeleteWorkspace
  <1>8. PICK next : next = Without(gone)
    OBVIOUS
  <1>9. asking' = [next EXCEPT ![q] = Quiet]
    BY <1>8 DEF DeleteWorkspace
  <1>10. /\ next = [p \in TeamRequest |-> next[p]]
         /\ \A p \in TeamRequest : next[p] = Quiet \/ next[p] = asking[p]
         /\ \A p \in TeamRequest : next[p] = Quiet \/ Asked(next[p])
    BY <1>8, WithoutEffect
  <1>11. /\ asking' = [p \in TeamRequest |-> asking'[p]]
         /\ \A p \in TeamRequest : asking'[p] = Quiet \/ asking'[p] = next[p]
    BY <1>9, <1>10
  <1>12. /\ \A p \in TeamRequest : asking'[p] = Quiet \/ asking'[p] = asking[p]
         /\ \A p \in TeamRequest : asking'[p] = Quiet \/ Asked(asking'[p])
    BY <1>10, <1>11
  <1>13. QED
    BY <1>1, <1>4, <1>5, <1>6, <1>7, <1>11, <1>12

LEMMA MigrationEffect ==
  ASSUME TeamsShape, MigrateMembers
  PROVE  /\ seats' \in [Team -> [Member -> MaybeSeat]]
         /\ \A t \in Team, u \in Member :
               ~(users[u].home = t /\ seats[t][u] = NoSeat) => seats'[t][u] = seats[t][u]
         /\ UNCHANGED <<users, teams, invites, granted, disturbed>>
         /\ asking' = [p \in TeamRequest |-> asking'[p]]
         /\ \A p \in TeamRequest : asking'[p] = Quiet
  <1>1. \A u \in Member : users[u].role \in MaybeSeat
    BY DEF TeamsShape, UserRow
  <1>2. "owner" \in MaybeSeat
    BY DEF MaybeSeat, Seat
  <1>3. seats' = [t \in Team |-> [u \in Member |->
                    IF users[u].home = t /\ seats[t][u] = NoSeat
                    THEN IF users[u].role = "admin" THEN "owner" ELSE users[u].role
                    ELSE seats[t][u]]]
    BY DEF MigrateMembers
  <1>4. seats' \in [Team -> [Member -> MaybeSeat]]
    BY <1>1, <1>2, <1>3 DEF TeamsShape
  <1>5. \A t \in Team, u \in Member :
               ~(users[u].home = t /\ seats[t][u] = NoSeat) => seats'[t][u] = seats[t][u]
    BY <1>3
  <1>6. QED
    BY <1>4, <1>5 DEF MigrateMembers

LEMMA ShapeStep ==
  ASSUME TeamsShape, [TeamsNext]_teamVars
  PROVE  TeamsShape'
  <1>1. ASSUME NEW q \in TeamRequest, asking' = [asking EXCEPT ![q] = Quiet]
        PROVE  /\ asking' = [p \in TeamRequest |-> asking'[p]]
               /\ \A p \in TeamRequest : asking'[p] = Quiet \/ Asked(asking'[p])
    BY <1>1, RequestMoves
  <1>2. ASSUME NEW q \in TeamRequest, NEW i \in invites, AcceptInvitation(q, i)
        PROVE  TeamsShape'
    <2>1. /\ seats' \in [Team -> [Member -> MaybeSeat]]
          /\ users' = [p \in Member |-> users'[p]]
          /\ \A p \in Member : UserRow(users'[p])
          /\ \A j \in invites' : InviteRow(j)
          /\ teams' = teams
          /\ asking' = [asking EXCEPT ![q] = Quiet]
      BY <1>2, AcceptEffect
    <2>2. QED
      BY <1>1, <2>1 DEF TeamsShape
  <1>3. ASSUME NEW q \in TeamRequest, NEW t \in Team, SwitchWorkspace(q, t)
        PROVE  TeamsShape'
    <2>1. /\ seats' \in [Team -> [Member -> MaybeSeat]]
          /\ users' = [p \in Member |-> users'[p]]
          /\ \A p \in Member : UserRow(users'[p])
          /\ UNCHANGED <<teams, invites>>
          /\ asking' = [asking EXCEPT ![q] = Quiet]
      BY <1>3, SwitchEffect
    <2>2. QED
      BY <1>1, <2>1 DEF TeamsShape
  <1>4. ASSUME NEW q \in TeamRequest, WriteRemoval(q)
        PROVE  TeamsShape'
    BY <1>4, RemovalEffect DEF TeamsShape
  <1>5. ASSUME NEW q \in TeamRequest, WriteRole(q)
        PROVE  TeamsShape'
    BY <1>1, <1>5, RoleEffect DEF TeamsShape
  <1>6. ASSUME NEW q \in TeamRequest, WriteWorkspace(q)
        PROVE  TeamsShape'
    <2>1. PICK t \in Team : Founds(t, asking[q].by)
      BY <1>6, WorkspaceEffect
    <2>2. asking[q].by \in Member /\ invites' = invites /\ asking' = [asking EXCEPT ![q] = Quiet]
      BY <1>6, WorkspaceEffect DEF Asked
    <2>3. QED
      BY <1>1, <2>1, <2>2, FoundsShape DEF TeamsShape
  <1>7. ASSUME NEW q \in TeamRequest, DeleteWorkspace(q)
        PROVE  TeamsShape'
    <2>1. UserRow(Unknown)
      BY DEF UserRow, Unknown, MaybeSeat
    <2>2. \A p \in Member : UserRow(users'[p])
      BY <1>7, <2>1, DeletionEffect DEF TeamsShape
    <2>3. QED
      BY <1>7, <2>2, DeletionEffect DEF TeamsShape
  <1>8. CASE MigrateMembers
    BY <1>8, MigrationEffect DEF TeamsShape
  <1>9. CASE UNCHANGED teamVars
    BY <1>9 DEF teamVars, TeamsShape
  <1>10. ASSUME NEW q \in TeamRequest, PaperStep(q)
         PROVE  TeamsShape'
    BY <1>10, PaperShape
  <1>11. ASSUME NEW q \in TeamRequest, NEW u \in Member,
                SyncNewUser(q, u) \/ SyncUser(q, u) \/ SyncUserHeals(q, u)
         PROVE  TeamsShape'
    BY <1>11, SyncShape
  <1>12. QED
    BY <1>2, <1>3, <1>4, <1>5, <1>6, <1>7, <1>8, <1>9, <1>10, <1>11 DEF TeamsNext, PaperStep

Undisturbed == disturbed \cap {"active", "query"} = {}

Given(t, u, r) == <<t, u, r>> \in granted

\* ActsAsGranted is not inductive: the roles a request will be resolved to are
\* those of the memberships, and every user has one where it is active.
Grants ==
    /\ \A t \in Team, u \in Member : seats[t][u] # NoSeat => Given(t, u, seats[t][u])
    /\ \A u \in Member : users[u] # Unknown => seats[users[u].home][u] # NoSeat
    /\ \A q \in TeamRequest :
          asking[q] # Quiet => Given(asking[q].team, asking[q].by, asking[q].role)

GrantInv == TeamsShape /\ (Undisturbed => Grants)

LEMMA GrantStart == TeamsInit => GrantInv
  <1>1. TeamsInit => TeamsShape
    BY ShapeStart
  <1>2. TeamsInit => Grants
    BY DEF TeamsInit, Grants
  <1>3. QED
    BY <1>1, <1>2 DEF GrantInv

\* What a step must show: the seats and the requests it changes are granted, and
\* whoever is active somewhere sits there.
LEMMA GrantsStay ==
  ASSUME TeamsShape, Grants, granted \subseteq granted',
         \A t \in Team, u \in Member :
             \/ seats'[t][u] = NoSeat \/ seats'[t][u] = seats[t][u]
             \/ <<t, u, seats'[t][u]>> \in granted',
         \A u \in Member : users'[u] # Unknown => seats'[users'[u].home][u] # NoSeat,
         \A q \in TeamRequest :
             \/ asking'[q] = Quiet \/ asking'[q] = asking[q]
             \/ <<asking'[q].team, asking'[q].by, asking'[q].role>> \in granted'
  PROVE  Grants'
  <1>1. (\A t \in Team, u \in Member : seats[t][u] # NoSeat => Given(t, u, seats[t][u]))'
    BY DEF Grants, Given
  <1>2. (\A q \in TeamRequest :
            asking[q] # Quiet => Given(asking[q].team, asking[q].by, asking[q].role))'
    BY DEF Grants, Given
  <1>3. QED
    BY <1>1, <1>2 DEF Grants

LEMMA PaperGrants ==
  ASSUME TeamsShape, Grants, NEW q \in TeamRequest, PaperStep(q)
  PROVE  Grants'
  <1>1. UNCHANGED <<users, seats, granted>> /\ q \in Busy
    BY PaperEffect
  <1>2. PICK a : /\ a = Quiet \/ Asked(a)
                 /\ asking' = [asking EXCEPT ![q] = a]
                 /\ a # Quiet => a.by = asking[q].by /\ a.team = asking[q].team
                                 /\ a.role = asking[q].role
    BY PaperEffect
  <1>3. \A p \in TeamRequest : asking'[p] = IF p = q THEN a ELSE asking[p]
    BY <1>2, RequestMoves
  <1>4. asking[q] # Quiet
    BY <1>1 DEF Busy, Acting, Quiet
  <1>5. Given(asking[q].team, asking[q].by, asking[q].role)
    BY <1>4 DEF Grants
  <1>6. \A p \in TeamRequest :
             \/ asking'[p] = Quiet \/ asking'[p] = asking[p]
             \/ <<asking'[p].team, asking'[p].by, asking'[p].role>> \in granted'
    BY <1>1, <1>2, <1>3, <1>5 DEF Given
  <1>7. \A u \in Member : users'[u] # Unknown => seats'[users'[u].home][u] # NoSeat
    BY <1>1 DEF Grants
  <1>8. QED
    BY <1>1, <1>6, <1>7, GrantsStay

\* A user that founds a workspace is granted the role it acts with.
LEMMA FoundsGrants ==
  ASSUME TeamsShape, Grants, NEW t \in Team, NEW u \in Member, Founds(t, u),
         \A q \in TeamRequest :
             \/ asking'[q] = Quiet \/ asking'[q] = asking[q]
             \/ asking'[q].team = t /\ asking'[q].by = u /\ asking'[q].role = "owner"
  PROVE  Grants'
  <1>1. granted' = granted \cup {<<t, u, "owner">>}
    BY DEF Founds
  <1>2. \A s \in Team, p \in Member :
             \/ seats'[s][p] = NoSeat \/ seats'[s][p] = seats[s][p]
             \/ <<s, p, seats'[s][p]>> \in granted'
    BY <1>1, FoundsShape
  <1>3. ASSUME NEW p \in Member, users'[p] # Unknown
        PROVE  seats'[users'[p].home][p] # NoSeat
    <2>1. "owner" # NoSeat
      BY DEF NoSeat
    <2>2. CASE p = u
      BY <2>1, <2>2, FoundsShape
    <2>3. CASE p # u
      <3>1. users'[p] = users[p] /\ users[p].home \in Team
        BY <1>3, <2>3, FoundsShape DEF TeamsShape, UserRow
      <3>2. seats'[users[p].home][p] = seats[users[p].home][p]
        BY <2>3, <3>1, FoundsShape
      <3>3. QED
        BY <1>3, <3>1, <3>2 DEF Grants
    <2>4. QED
      BY <2>2, <2>3
  <1>4. \A q \in TeamRequest :
             \/ asking'[q] = Quiet \/ asking'[q] = asking[q]
             \/ <<asking'[q].team, asking'[q].by, asking'[q].role>> \in granted'
    BY <1>1
  <1>5. QED
    BY <1>1, <1>2, <1>3, <1>4, GrantsStay

LEMMA SyncGrants ==
  ASSUME TeamsShape, Grants, NEW q \in TeamRequest, NEW u \in Member,
         SyncNewUser(q, u) \/ SyncUser(q, u)
  PROVE  Grants'
  <1>1. CASE SyncNewUser(q, u)
    <2>1. PICK t, a :
            /\ t \in Team
            /\ Founds(t, u) /\ Asked(a) /\ a.team = t /\ a.by = u /\ a.role = "owner"
            /\ asking' = [asking EXCEPT ![q] = a]
      BY <1>1, SyncNewEffect
    <2>2. \A p \in TeamRequest : asking'[p] = IF p = q THEN a ELSE asking[p]
      BY <2>1, RequestMoves
    <2>3. QED
      BY <2>1, <2>2, FoundsGrants
  <1>2. CASE SyncUser(q, u)
    <2>1. /\ UNCHANGED <<users, seats, granted>>
          /\ users[u] # Unknown /\ users[u].home \in Team
      BY <1>2, SyncEffect
    <2>2. PICK a : /\ Asked(a) /\ a.team = users[u].home /\ a.by = u
                   /\ a.role = RoleIn(users[u].home, u)
                   /\ asking' = [asking EXCEPT ![q] = a]
      BY <1>2, SyncEffect
    <2>3. \A p \in TeamRequest : asking'[p] = IF p = q THEN a ELSE asking[p]
      BY <2>2, RequestMoves
    <2>4. <<a.team, a.by, a.role>> \in granted
      BY <2>1, <2>2 DEF Grants, Given, RoleIn
    <2>5. \A p \in TeamRequest :
             \/ asking'[p] = Quiet \/ asking'[p] = asking[p]
             \/ <<asking'[p].team, asking'[p].by, asking'[p].role>> \in granted'
      BY <2>1, <2>3, <2>4
    <2>6. \A p \in Member : users'[p] # Unknown => seats'[users'[p].home][p] # NoSeat
      BY <2>1 DEF Grants
    <2>7. QED
      BY <2>1, <2>5, <2>6, GrantsStay
  <1>3. QED
    BY <1>1, <1>2

LEMMA AcceptGrants ==
  ASSUME TeamsShape, Grants, NEW q \in TeamRequest, NEW i \in invites, AcceptInvitation(q, i)
  PROVE  Grants'
  <1> DEFINE u == asking[q].by
  <1>1. /\ Asked(asking[q]) /\ InviteRow(i)
        /\ \A s \in Team, p \in Member :
              seats'[s][p] = IF s = i.team /\ p = u THEN i.role ELSE seats[s][p]
        /\ \A p \in Member : IF p = u THEN users'[p].home = i.team ELSE users'[p] = users[p]
        /\ asking' = [asking EXCEPT ![q] = Quiet]
    BY AcceptEffect
  <1>2. granted' = granted \cup {<<i.team, u, i.role>>}
    BY DEF AcceptInvitation
  <1>3. i.team \in Team /\ i.role \in Seat /\ i.role # NoSeat /\ u \in Member
    BY <1>1 DEF InviteRow, Seat, NoSeat, Asked
  <1>4. \A p \in TeamRequest : asking'[p] = IF p = q THEN Quiet ELSE asking[p]
    BY <1>1, RequestMoves
  <1>5. \A s \in Team, p \in Member :
             \/ seats'[s][p] = NoSeat \/ seats'[s][p] = seats[s][p]
             \/ <<s, p, seats'[s][p]>> \in granted'
    BY <1>1, <1>2
  <1>6. ASSUME NEW p \in Member, users'[p] # Unknown
        PROVE  seats'[users'[p].home][p] # NoSeat
    <2>1. CASE p = u
      BY <1>1, <1>3, <2>1
    <2>2. CASE p # u
      <3>1. users'[p] = users[p] /\ users[p].home \in Team
        BY <1>1, <1>6, <2>2 DEF TeamsShape, UserRow
      <3>2. seats'[users[p].home][p] = seats[users[p].home][p]
        BY <1>1, <2>2, <3>1
      <3>3. QED
        BY <1>6, <3>1, <3>2 DEF Grants
    <2>3. QED
      BY <2>1, <2>2
  <1>7. QED
    BY <1>2, <1>4, <1>5, <1>6, GrantsStay

LEMMA SwitchGrants ==
  ASSUME TeamsShape, Grants, NEW q \in TeamRequest, NEW t \in Team, SwitchWorkspace(q, t)
  PROVE  Grants'
  <1> DEFINE u == asking[q].by
  <1>1. /\ Asked(asking[q]) /\ users[u] # Unknown
        /\ \A s \in Team, p \in Member :
              seats'[s][p] = IF s = t /\ p = u THEN RoleIn(t, u) ELSE seats[s][p]
        /\ \A p \in Member : IF p = u THEN users'[p].home = t ELSE users'[p] = users[p]
        /\ asking' = [asking EXCEPT ![q] = Quiet]
    BY SwitchEffect
  <1>2. u \in Member /\ (seats[t][u] # NoSeat \/ users[u].home = t) /\ granted' = granted
    BY <1>1 DEF Asked, SwitchWorkspace
  <1>3. seats[t][u] # NoSeat /\ RoleIn(t, u) = seats[t][u]
    BY <1>1, <1>2 DEF Grants, RoleIn
  <1>4. \A p \in TeamRequest : asking'[p] = IF p = q THEN Quiet ELSE asking[p]
    BY <1>1, RequestMoves
  <1>5. \A s \in Team, p \in Member : seats'[s][p] = seats[s][p]
    BY <1>1, <1>3
  <1>6. ASSUME NEW p \in Member, users'[p] # Unknown
        PROVE  seats'[users'[p].home][p] # NoSeat
    <2>1. CASE p = u
      BY <1>1, <1>3, <1>5, <2>1
    <2>2. CASE p # u
      <3>1. users'[p] = users[p] /\ users[p].home \in Team
        BY <1>1, <1>6, <2>2 DEF TeamsShape, UserRow
      <3>2. QED
        BY <1>5, <1>6, <3>1 DEF Grants
    <2>3. QED
      BY <2>1, <2>2
  <1>7. QED
    BY <1>2, <1>4, <1>5, <1>6, GrantsStay

\* A member that is removed where it is active is a disturbance.
LEMMA RemovalGrants ==
  ASSUME TeamsShape, Grants, NEW q \in TeamRequest, WriteRemoval(q), Undisturbed'
  PROVE  Grants'
  <1>1. /\ Asked(asking[q])
        /\ \A s \in Team, p \in Member :
             seats'[s][p] = IF s = asking[q].team /\ p = asking[q].who THEN NoSeat ELSE seats[s][p]
        /\ users' = users
        /\ \A p \in TeamRequest : asking'[p] = Quiet \/ asking'[p] = asking[p]
    BY RemovalEffect
  <1>2. granted' = granted /\ users[asking[q].who].home # asking[q].team
    BY DEF WriteRemoval, Undisturbed
  <1>3. ASSUME NEW p \in Member, users'[p] # Unknown
        PROVE  seats'[users'[p].home][p] # NoSeat
    <2>1. users[p].home \in Team /\ seats[users[p].home][p] # NoSeat
      BY <1>1, <1>3 DEF TeamsShape, UserRow, Grants
    <2>2. QED
      BY <1>1, <1>2, <2>1
  <1>4. QED
    BY <1>1, <1>2, <1>3, GrantsStay

LEMMA RoleGrants ==
  ASSUME TeamsShape, Grants, NEW q \in TeamRequest, WriteRole(q)
  PROVE  Grants'
  <1>1. /\ Asked(asking[q]) /\ asking[q].pc = "change"
        /\ \A s \in Team, p \in Member :
             seats'[s][p] = IF s = asking[q].team /\ p = asking[q].who THEN asking[q].as
                            ELSE seats[s][p]
        /\ users' = users
        /\ asking' = [asking EXCEPT ![q] = Quiet]
    BY RoleEffect
  <1>2. granted' = granted \cup {<<asking[q].team, asking[q].who, asking[q].as>>}
    BY DEF WriteRole
  <1>3. asking[q].as # NoSeat
    BY <1>1 DEF Asked, Seat, NoSeat
  <1>4. \A p \in TeamRequest : asking'[p] = IF p = q THEN Quiet ELSE asking[p]
    BY <1>1, RequestMoves
  <1>5. \A s \in Team, p \in Member :
             \/ seats'[s][p] = NoSeat \/ seats'[s][p] = seats[s][p]
             \/ <<s, p, seats'[s][p]>> \in granted'
    BY <1>1, <1>2
  <1>6. ASSUME NEW p \in Member, users'[p] # Unknown
        PROVE  seats'[users'[p].home][p] # NoSeat
    <2>1. users[p].home \in Team /\ seats[users[p].home][p] # NoSeat
      BY <1>1, <1>6 DEF TeamsShape, UserRow, Grants
    <2>2. QED
      BY <1>1, <1>3, <2>1
  <1>7. QED
    BY <1>2, <1>4, <1>5, <1>6, GrantsStay

LEMMA DeletionGrants ==
  ASSUME TeamsShape, Grants, NEW q \in TeamRequest, DeleteWorkspace(q)
  PROVE  Grants'
  <1> DEFINE t == asking[q].team
  <1>1. \A s \in Team, p \in Member :
           seats'[s][p] = IF s = t \/ p \in Leaving(t) THEN NoSeat ELSE seats[s][p]
    BY DeletionEffect
  <1>2. /\ \A p \in Member :
               \/ users'[p] = Unknown
               \/ p \notin Leaving(t) /\ users'[p] = users[p]
               \/ p \notin Leaving(t) /\ users'[p].home \in Team \ {t}
                                      /\ seats[users'[p].home][p] # NoSeat
        /\ \A p \in TeamRequest : asking'[p] = Quiet \/ asking'[p] = asking[p]
    BY DeletionEffect
  <1>3. granted' = granted
    BY DEF DeleteWorkspace
  <1>4. ASSUME NEW p \in Member, users'[p] # Unknown
        PROVE  seats'[users'[p].home][p] # NoSeat
    <2>1. CASE p \notin Leaving(t) /\ users'[p] = users[p]
      <3>1. users[p].home \in Team /\ seats[users[p].home][p] # NoSeat /\ users[p].home # t
        BY <1>4, <2>1 DEF TeamsShape, UserRow, Grants, Leaving
      <3>2. QED
        BY <1>1, <2>1, <3>1
    <2>2. CASE p \notin Leaving(t) /\ users'[p].home \in Team \ {t}
               /\ seats[users'[p].home][p] # NoSeat
      BY <1>1, <2>2
    <2>3. QED
      BY <1>2, <1>4, <2>1, <2>2
  <1>5. QED
    BY <1>1, <1>2, <1>3, <1>4, GrantsStay

\* The migration seats nobody as long as everybody sits where it is active.
LEMMA MigrationGrants ==
  ASSUME TeamsShape, Grants, MigrateMembers
  PROVE  Grants'
  <1>1. /\ \A t \in Team, u \in Member :
               ~(users[u].home = t /\ seats[t][u] = NoSeat) => seats'[t][u] = seats[t][u]
        /\ UNCHANGED <<users, granted>>
        /\ \A p \in TeamRequest : asking'[p] = Quiet
    BY MigrationEffect
  <1>2. ASSUME NEW t \in Team, NEW u \in Member
        PROVE  seats'[t][u] = seats[t][u]
    <2>1. CASE users[u] = Unknown
      BY <1>1, <2>1, TeamAssumption
    <2>2. CASE users[u] # Unknown
      BY <1>1, <2>2 DEF Grants
    <2>3. QED
      BY <2>1, <2>2
  <1>3. \A u \in Member : users'[u] # Unknown => seats'[users'[u].home][u] # NoSeat
    BY <1>1, <1>2 DEF Grants, TeamsShape, UserRow
  <1>4. QED
    BY <1>1, <1>2, <1>3, GrantsStay

LEMMA GrantStep ==
  ASSUME GrantInv, [TeamsNext]_teamVars
  PROVE  GrantInv'
  <1>1. TeamsShape /\ TeamsShape'
    BY ShapeStep DEF GrantInv
  <1> SUFFICES ASSUME Undisturbed'
               PROVE  Grants'
    BY <1>1 DEF GrantInv
  <1>2. ASSUME disturbed \subseteq disturbed'
        PROVE  Grants
    BY <1>2 DEF GrantInv, Undisturbed
  <1>3. ASSUME NEW q \in TeamRequest, PaperStep(q)
        PROVE  Grants'
    BY <1>1, <1>2, <1>3, PaperEffect, PaperGrants
  <1>4. ASSUME NEW q \in TeamRequest, NEW u \in Member, SyncNewUser(q, u) \/ SyncUser(q, u)
        PROVE  Grants'
    <2>1. disturbed \subseteq disturbed'
      BY <1>4 DEF SyncNewUser, SyncUser
    <2>2. QED
      BY <1>1, <1>2, <1>4, <2>1, SyncGrants
  <1>5. ASSUME NEW q \in TeamRequest, NEW u \in Member, SyncUserHeals(q, u)
        PROVE  Grants'
    BY <1>5 DEF SyncUserHeals, Undisturbed
  <1>6. ASSUME NEW q \in TeamRequest, NEW i \in invites, AcceptInvitation(q, i)
        PROVE  Grants'
    <2>1. disturbed \subseteq disturbed'
      BY <1>6 DEF AcceptInvitation
    <2>2. QED
      BY <1>1, <1>2, <1>6, <2>1, AcceptGrants
  <1>7. ASSUME NEW q \in TeamRequest, NEW t \in Team, SwitchWorkspace(q, t)
        PROVE  Grants'
    <2>1. disturbed \subseteq disturbed'
      BY <1>7 DEF SwitchWorkspace
    <2>2. QED
      BY <1>1, <1>2, <1>7, <2>1, SwitchGrants
  <1>8. ASSUME NEW q \in TeamRequest, WriteRemoval(q)
        PROVE  Grants'
    <2>1. disturbed \subseteq disturbed'
      BY <1>8 DEF WriteRemoval
    <2>2. QED
      BY <1>1, <1>2, <1>8, <2>1, RemovalGrants
  <1>9. ASSUME NEW q \in TeamRequest, WriteRole(q)
        PROVE  Grants'
    <2>1. disturbed \subseteq disturbed'
      BY <1>9 DEF WriteRole
    <2>2. QED
      BY <1>1, <1>2, <1>9, <2>1, RoleGrants
  <1>10. ASSUME NEW q \in TeamRequest, WriteWorkspace(q)
         PROVE  Grants'
    <2>1. Grants
      BY <1>2, <1>10 DEF WriteWorkspace
    <2>2. PICK t \in Team : Founds(t, asking[q].by)
      BY <1>1, <1>10, WorkspaceEffect
    <2>3. asking[q].by \in Member /\ asking' = [asking EXCEPT ![q] = Quiet]
      BY <1>1, <1>10, WorkspaceEffect DEF Asked
    <2>4. \A p \in TeamRequest : asking'[p] = Quiet \/ asking'[p] = asking[p]
      BY <1>1, <2>3, RequestMoves
    <2>5. QED
      BY <1>1, <2>1, <2>2, <2>3, <2>4, FoundsGrants
  <1>11. ASSUME NEW q \in TeamRequest, DeleteWorkspace(q)
         PROVE  Grants'
    <2>1. disturbed \subseteq disturbed'
      BY <1>11 DEF DeleteWorkspace
    <2>2. QED
      BY <1>1, <1>2, <1>11, <2>1, DeletionGrants
  <1>12. CASE MigrateMembers
    <2>1. disturbed \subseteq disturbed'
      BY <1>12 DEF MigrateMembers
    <2>2. QED
      BY <1>1, <1>2, <1>12, <2>1, MigrationGrants
  <1>13. CASE UNCHANGED teamVars
    BY <1>2, <1>13 DEF teamVars, Grants, Given
  <1>14. QED
    BY <1>3, <1>4, <1>5, <1>6, <1>7, <1>8, <1>9, <1>10, <1>11, <1>12, <1>13 DEF TeamsNext, PaperStep

\* Whatever workspaces a user joins, leaves, switches to or deletes, a request
\* acts with a role its caller was given in the workspace it acts on, unless a
\* role query failed or somebody was removed from the workspace it is active in.
THEOREM RolesAreGranted == TeamsSpec => []ActsAsGranted
  <1>1. GrantInv => ActsAsGranted
    BY DEF GrantInv, Undisturbed, Grants, Given, ActsAsGranted, Busy, Acting, Quiet
  <1>2. QED
    BY GrantStart, GrantStep, <1>1, PTL DEF TeamsSpec

Unhindered == disturbed \subseteq {"active"}

Alone ==
    \A q, r \in TeamRequest : asking[q] # Quiet /\ asking[r] # Quiet => q = r

HasOwner(t) == \E u \in Member : seats[t][u] = "owner"

\* OwnersRemain is not inductive: what a request counted before it writes is
\* still so, because no other request is under way.
Kept ==
    /\ Alone
    /\ \A t \in Team : teams[t] = "open" => HasOwner(t)
    /\ \A q \in TeamRequest : Risky(asking[q]) => Another(asking[q].team, asking[q].who)

OwnersInv == TeamsShape /\ (Unhindered => Kept)

LEMMA QuietIsNotRisky == ~Risky(Quiet)
  BY DEF Risky, Quiet

LEMMA OwnersStart == TeamsInit => OwnersInv
  <1> SUFFICES ASSUME TeamsInit
               PROVE  OwnersInv
    OBVIOUS
  <1>1. /\ \A q \in TeamRequest : asking[q] = Quiet
        /\ \A t \in Team : teams[t] = "unborn"
    BY DEF TeamsInit
  <1>2. Kept
    BY <1>1, QuietIsNotRisky DEF Kept, Alone
  <1>3. QED
    BY <1>2, ShapeStart DEF OwnersInv

\* A step that leaves every owner its seat in the workspaces that stay open, and
\* no request about to take one.
LEMMA OwnersStay ==
  ASSUME Kept,
         \A t \in Team : teams'[t] = "open" =>
             \/ \E u \in Member : seats'[t][u] = "owner"
             \/ teams[t] = "open" /\ \A u \in Member : seats[t][u] = "owner" => seats'[t][u] = "owner",
         NEW q \in TeamRequest,
         \A p \in TeamRequest : p # q => asking'[p] = Quiet,
         ~Risky(asking'[q])
  PROVE  Kept'
  <1>1. ASSUME NEW t \in Team, teams'[t] = "open"
        PROVE  \E u \in Member : seats'[t][u] = "owner"
    BY <1>1 DEF Kept, HasOwner
  <1>2. Alone'
    BY DEF Alone
  <1>3. (\A t \in Team : teams[t] = "open" => HasOwner(t))'
    BY <1>1 DEF HasOwner
  <1>4. \A p \in TeamRequest : ~Risky(asking'[p])
    BY QuietIsNotRisky
  <1>5. (\A p \in TeamRequest : ~Risky(asking[p]))'
    BY <1>4 DEF Risky
  <1>6. QED
    BY <1>2, <1>3, <1>5 DEF Kept

\* The request that acts is the only one: when it is done, none is under way.
LEMMA OthersAreQuiet ==
  ASSUME TeamsShape, Kept, NEW q \in TeamRequest, q \in Busy, NEW p \in TeamRequest, p # q
  PROVE  asking[p] = Quiet
  <1>1. asking[q] # Quiet
    BY DEF Busy, Acting, Quiet
  <1>2. QED
    BY <1>1 DEF Kept, Alone

LEMMA PaperOwners ==
  ASSUME TeamsShape, Kept, NEW q \in TeamRequest, PaperStep(q)
  PROVE  Kept'
  <1>1. UNCHANGED <<teams, seats>> /\ q \in Busy
    BY PaperEffect
  <1>2. PICK a : /\ a = Quiet \/ Asked(a)
                 /\ asking' = [asking EXCEPT ![q] = a]
                 /\ Risky(a) => Another(a.team, a.who)
    BY PaperEffect
  <1>3. \A p \in TeamRequest : asking'[p] = IF p = q THEN a ELSE asking[p]
    BY <1>2, RequestMoves
  <1>4. \A p \in TeamRequest : p # q => asking'[p] = Quiet
    BY <1>1, <1>3, OthersAreQuiet
  <1>5. Alone'
    BY <1>4 DEF Alone
  <1>6. (\A t \in Team : teams[t] = "open" => HasOwner(t))'
    BY <1>1 DEF Kept, HasOwner
  <1>7. (\A p \in TeamRequest : Risky(asking[p]) => Another(asking[p].team, asking[p].who))'
    <2> SUFFICES ASSUME NEW p \in TeamRequest, Risky(asking'[p])
                 PROVE  Another(asking[p].team, asking[p].who)'
      BY DEF Risky
    <2>1. p = q /\ asking'[p] = a
      BY <1>3, <1>4, QuietIsNotRisky
    <2>2. QED
      BY <1>1, <1>2, <2>1 DEF Another
  <1>8. QED
    BY <1>5, <1>6, <1>7 DEF Kept

LEMMA FoundsOwners ==
  ASSUME TeamsShape, Kept, NEW t \in Team, NEW u \in Member, Founds(t, u),
         NEW q \in TeamRequest,
         \A p \in TeamRequest : p # q => asking'[p] = Quiet,
         ~Risky(asking'[q])
  PROVE  Kept'
  <1>1. ASSUME NEW s \in Team, teams'[s] = "open"
        PROVE  \/ \E p \in Member : seats'[s][p] = "owner"
               \/ teams[s] = "open" /\ \A p \in Member : seats[s][p] = "owner" => seats'[s][p] = "owner"
    <2>1. CASE s = t
      BY <2>1, FoundsShape
    <2>2. CASE s # t
      BY <1>1, <2>2, FoundsShape
    <2>3. QED
      BY <2>1, <2>2
  <1>2. QED
    BY <1>1, OwnersStay

\* A request that begins does so while none is under way, or is a disturbance.
LEMMA SyncOwners ==
  ASSUME TeamsShape, Kept, NEW q \in TeamRequest, NEW u \in Member,
         SyncNewUser(q, u) \/ SyncUser(q, u), Unhindered'
  PROVE  Kept'
  <1>1. Busy = {}
    BY DEF SyncNewUser, SyncUser, Unhindered, Overlap
  <1>2. \A p \in TeamRequest : asking[p] = Quiet
    <2> SUFFICES ASSUME NEW p \in TeamRequest, asking[p] # Quiet
                 PROVE  FALSE
      OBVIOUS
    <2>1. Asked(asking[p])
      BY DEF TeamsShape
    <2>2. ~Acting(p, "quiet")
      BY <2>1 DEF Asked, Acting
    <2>3. QED
      BY <1>1, <2>2 DEF Busy
  <1>3. CASE SyncNewUser(q, u)
    <2>1. PICK t, a : /\ t \in Team /\ Founds(t, u) /\ Asked(a) /\ a.pc = "act"
                      /\ asking' = [asking EXCEPT ![q] = a]
      BY <1>3, SyncNewEffect
    <2>2. \A p \in TeamRequest : asking'[p] = IF p = q THEN a ELSE asking[p]
      BY <2>1, RequestMoves
    <2>3. ~Risky(asking'[q])
      BY <2>1, <2>2 DEF Risky
    <2>4. QED
      BY <1>2, <2>1, <2>2, <2>3, FoundsOwners
  <1>4. CASE SyncUser(q, u)
    <2>1. UNCHANGED <<teams, seats>>
      BY <1>4, SyncEffect
    <2>2. PICK a : Asked(a) /\ a.pc = "act" /\ asking' = [asking EXCEPT ![q] = a]
      BY <1>4, SyncEffect
    <2>3. \A p \in TeamRequest : asking'[p] = IF p = q THEN a ELSE asking[p]
      BY <2>2, RequestMoves
    <2>4. ~Risky(asking'[q])
      BY <2>2, <2>3 DEF Risky
    <2>5. QED
      BY <1>2, <2>1, <2>3, <2>4, OwnersStay
  <1>5. QED
    BY <1>3, <1>4

\* A request that writes seats is done.
LEMMA DoneOwners ==
  ASSUME TeamsShape, Kept, NEW q \in TeamRequest, q \in Busy,
         \A p \in TeamRequest : asking'[p] = Quiet \/ asking'[p] = asking[p], asking'[q] = Quiet,
         \A t \in Team : teams'[t] = "open" =>
             \/ \E u \in Member : seats'[t][u] = "owner"
             \/ teams[t] = "open" /\ \A u \in Member : seats[t][u] = "owner" => seats'[t][u] = "owner"
  PROVE  Kept'
  <1>1. \A p \in TeamRequest : p # q => asking'[p] = Quiet
    BY OthersAreQuiet
  <1>2. QED
    BY <1>1, QuietIsNotRisky, OwnersStay

LEMMA QuietsDown ==
  ASSUME TeamsShape, NEW q \in TeamRequest, asking' = [asking EXCEPT ![q] = Quiet]
  PROVE  /\ \A p \in TeamRequest : asking'[p] = Quiet \/ asking'[p] = asking[p]
         /\ asking'[q] = Quiet
  BY DEF TeamsShape

LEMMA AcceptOwners ==
  ASSUME TeamsShape, Kept, NEW q \in TeamRequest, NEW i \in invites, AcceptInvitation(q, i), Unhindered'
  PROVE  Kept'
  <1> DEFINE u == asking[q].by
  <1>1. /\ q \in Busy /\ teams' = teams
        /\ \A s \in Team, p \in Member :
              seats'[s][p] = IF s = i.team /\ p = u THEN i.role ELSE seats[s][p]
        /\ asking' = [asking EXCEPT ![q] = Quiet]
    BY AcceptEffect
  <1>2. seats[i.team][u] = NoSeat
    BY DEF AcceptInvitation, Unhindered
  <1>3. \A s \in Team, p \in Member : seats[s][p] = "owner" => seats'[s][p] = "owner"
    BY <1>1, <1>2 DEF NoSeat
  <1>4. QED
    BY <1>1, <1>3, QuietsDown, DoneOwners

LEMMA SwitchOwners ==
  ASSUME TeamsShape, Kept, NEW q \in TeamRequest, NEW t \in Team, SwitchWorkspace(q, t)
  PROVE  Kept'
  <1> DEFINE u == asking[q].by
  <1>1. /\ q \in Busy /\ teams' = teams
        /\ \A s \in Team, p \in Member :
              seats'[s][p] = IF s = t /\ p = u THEN RoleIn(t, u) ELSE seats[s][p]
        /\ asking' = [asking EXCEPT ![q] = Quiet]
    BY SwitchEffect
  <1>2. \A s \in Team, p \in Member : seats[s][p] = "owner" => seats'[s][p] = "owner"
    BY <1>1 DEF NoSeat, RoleIn
  <1>3. QED
    BY <1>1, <1>2, QuietsDown, DoneOwners

LEMMA RemovalOwners ==
  ASSUME TeamsShape, Kept, NEW q \in TeamRequest, WriteRemoval(q)
  PROVE  Kept'
  <1> DEFINE t == asking[q].team
             u == asking[q].who
  <1>1. /\ Asked(asking[q]) /\ q \in Busy /\ asking[q].pc = "remove" /\ teams' = teams
        /\ \A s \in Team, p \in Member :
               seats'[s][p] = IF s = t /\ p = u THEN NoSeat ELSE seats[s][p]
        /\ \A p \in TeamRequest : asking'[p] = Quiet \/ asking'[p] = asking[p]
    BY RemovalEffect
  <1>2. asking'[q] = Quiet
    BY <1>1 DEF WriteRemoval, Without
  <1>3. Another(t, u)
    BY <1>1 DEF Kept, Risky
  <1>4. ASSUME NEW s \in Team, teams'[s] = "open"
        PROVE  \E p \in Member : seats'[s][p] = "owner"
    <2>1. PICK p \in Member : seats[s][p] = "owner"
      BY <1>1, <1>4 DEF Kept, HasOwner
    <2>2. CASE s = t /\ p = u
      BY <1>1, <1>3, <2>1, <2>2 DEF Another
    <2>3. CASE ~(s = t /\ p = u)
      BY <1>1, <2>1, <2>3
    <2>4. QED
      BY <2>2, <2>3
  <1>5. QED
    BY <1>1, <1>2, <1>4, DoneOwners

LEMMA RoleOwners ==
  ASSUME TeamsShape, Kept, NEW q \in TeamRequest, WriteRole(q)
  PROVE  Kept'
  <1> DEFINE t == asking[q].team
             u == asking[q].who
  <1>1. /\ Asked(asking[q]) /\ q \in Busy /\ asking[q].pc = "change" /\ teams' = teams
        /\ \A s \in Team, p \in Member :
               seats'[s][p] = IF s = t /\ p = u THEN asking[q].as ELSE seats[s][p]
        /\ asking' = [asking EXCEPT ![q] = Quiet]
    BY RoleEffect
  <1>2. asking[q].as # "owner" => Another(t, u)
    BY <1>1 DEF Kept, Risky
  <1>3. ASSUME NEW s \in Team, teams'[s] = "open"
        PROVE  \E p \in Member : seats'[s][p] = "owner"
    <2>1. PICK p \in Member : seats[s][p] = "owner"
      BY <1>1, <1>3 DEF Kept, HasOwner
    <2>2. CASE s = t /\ p = u
      BY <1>1, <1>2, <2>1, <2>2 DEF Another
    <2>3. CASE ~(s = t /\ p = u)
      BY <1>1, <2>1, <2>3
    <2>4. QED
      BY <2>2, <2>3
  <1>4. QED
    BY <1>1, <1>3, QuietsDown, DoneOwners

\* A user that goes with the workspace has no seat elsewhere, or is a disturbance.
LEMMA DeletionOwners ==
  ASSUME TeamsShape, Kept, NEW q \in TeamRequest, DeleteWorkspace(q), Unhindered'
  PROVE  Kept'
  <1> DEFINE t == asking[q].team
  <1>1. /\ q \in Busy
        /\ \A s \in Team, p \in Member :
               seats'[s][p] = IF s = t \/ p \in Leaving(t) THEN NoSeat ELSE seats[s][p]
        /\ \A s \in Team : teams'[s] = IF s = t THEN "deleted" ELSE teams[s]
        /\ asking' = [p \in TeamRequest |-> asking'[p]]
        /\ \A p \in TeamRequest : asking'[p] = Quiet \/ asking'[p] = asking[p]
    BY DeletionEffect
  <1>2. asking'[q] = Quiet
    <2>1. PICK next : /\ asking' = [next EXCEPT ![q] = Quiet]
                      /\ next = Without({seat \in Team \X Member :
                                            seat[1] = t \/ seat[2] \in Leaving(t)})
      BY DEF DeleteWorkspace
    <2>2. next = [p \in TeamRequest |-> next[p]]
      BY <2>1, WithoutEffect
    <2>3. QED
      BY <2>1, <2>2
  <1>3. \A s \in Team \ {t}, p \in Leaving(t) : seats[s][p] = NoSeat
    BY DEF DeleteWorkspace, Unhindered
  <1>4. \A s \in Team : teams'[s] = "open" =>
            teams[s] = "open" /\ \A p \in Member : seats[s][p] = "owner" => seats'[s][p] = "owner"
    BY <1>1, <1>3 DEF NoSeat
  <1>5. QED
    BY <1>1, <1>2, <1>4, DoneOwners

LEMMA MigrationOwners ==
  ASSUME TeamsShape, Kept, MigrateMembers
  PROVE  Kept'
  <1>1. /\ \A t \in Team, u \in Member :
               ~(users[u].home = t /\ seats[t][u] = NoSeat) => seats'[t][u] = seats[t][u]
        /\ teams' = teams
        /\ \A p \in TeamRequest : asking'[p] = Quiet
    BY MigrationEffect
  <1>2. \A t \in Team, u \in Member : seats[t][u] = "owner" => seats'[t][u] = "owner"
    BY <1>1 DEF NoSeat
  <1>3. Alone'
    BY <1>1 DEF Alone
  <1>4. (\A t \in Team : teams[t] = "open" => HasOwner(t))'
    BY <1>1, <1>2 DEF Kept, HasOwner
  <1>5. (\A p \in TeamRequest : ~Risky(asking[p]))'
    BY <1>1 DEF Risky, Quiet
  <1>6. QED
    BY <1>3, <1>4, <1>5 DEF Kept

LEMMA OwnersStep ==
  ASSUME OwnersInv, [TeamsNext]_teamVars
  PROVE  OwnersInv'
  <1>1. TeamsShape /\ TeamsShape'
    BY ShapeStep DEF OwnersInv
  <1> SUFFICES ASSUME Unhindered'
               PROVE  Kept'
    BY <1>1 DEF OwnersInv
  <1>2. ASSUME disturbed \subseteq disturbed'
        PROVE  Kept
    BY <1>2 DEF OwnersInv, Unhindered
  <1>3. ASSUME NEW q \in TeamRequest, PaperStep(q)
        PROVE  Kept'
    BY <1>1, <1>2, <1>3, PaperEffect, PaperOwners
  <1>4. ASSUME NEW q \in TeamRequest, NEW u \in Member, SyncNewUser(q, u) \/ SyncUser(q, u)
        PROVE  Kept'
    <2>1. disturbed \subseteq disturbed'
      BY <1>4 DEF SyncNewUser, SyncUser
    <2>2. QED
      BY <1>1, <1>2, <1>4, <2>1, SyncOwners
  <1>5. ASSUME NEW q \in TeamRequest, NEW u \in Member, SyncUserHeals(q, u)
        PROVE  Kept'
    BY <1>5 DEF SyncUserHeals, Unhindered
  <1>6. ASSUME NEW q \in TeamRequest, NEW i \in invites, AcceptInvitation(q, i)
        PROVE  Kept'
    <2>1. disturbed \subseteq disturbed'
      BY <1>6 DEF AcceptInvitation
    <2>2. QED
      BY <1>1, <1>2, <1>6, <2>1, AcceptOwners
  <1>7. ASSUME NEW q \in TeamRequest, NEW t \in Team, SwitchWorkspace(q, t)
        PROVE  Kept'
    <2>1. disturbed \subseteq disturbed'
      BY <1>7 DEF SwitchWorkspace
    <2>2. QED
      BY <1>1, <1>2, <1>7, <2>1, SwitchOwners
  <1>8. ASSUME NEW q \in TeamRequest, WriteRemoval(q)
        PROVE  Kept'
    <2>1. disturbed \subseteq disturbed'
      BY <1>8 DEF WriteRemoval
    <2>2. QED
      BY <1>1, <1>2, <1>8, <2>1, RemovalOwners
  <1>9. ASSUME NEW q \in TeamRequest, WriteRole(q)
        PROVE  Kept'
    <2>1. disturbed \subseteq disturbed'
      BY <1>9 DEF WriteRole
    <2>2. QED
      BY <1>1, <1>2, <1>9, <2>1, RoleOwners
  <1>10. ASSUME NEW q \in TeamRequest, WriteWorkspace(q)
         PROVE  Kept'
    <2>1. Kept
      BY <1>2, <1>10 DEF WriteWorkspace
    <2>2. PICK t \in Team : Founds(t, asking[q].by)
      BY <1>1, <1>10, WorkspaceEffect
    <2>3. asking[q].by \in Member /\ q \in Busy /\ asking' = [asking EXCEPT ![q] = Quiet]
      BY <1>1, <1>10, WorkspaceEffect DEF Asked
    <2>4. \A p \in TeamRequest : p # q => asking'[p] = Quiet
      BY <1>1, <2>1, <2>3, QuietsDown, OthersAreQuiet
    <2>5. ~Risky(asking'[q])
      BY <1>1, <2>3, QuietsDown, QuietIsNotRisky
    <2>6. QED
      BY <1>1, <2>1, <2>2, <2>3, <2>4, <2>5, FoundsOwners
  <1>11. ASSUME NEW q \in TeamRequest, DeleteWorkspace(q)
         PROVE  Kept'
    <2>1. disturbed \subseteq disturbed'
      BY <1>11 DEF DeleteWorkspace
    <2>2. QED
      BY <1>1, <1>2, <1>11, <2>1, DeletionOwners
  <1>12. CASE MigrateMembers
    <2>1. disturbed \subseteq disturbed'
      BY <1>12 DEF MigrateMembers
    <2>2. QED
      BY <1>1, <1>2, <1>12, <2>1, MigrationOwners
  <1>13. CASE UNCHANGED teamVars
    BY <1>2, <1>13 DEF teamVars, Kept, Alone, HasOwner, Another, Risky
  <1>14. QED
    BY <1>3, <1>4, <1>5, <1>6, <1>7, <1>8, <1>9, <1>10, <1>11, <1>12, <1>13 DEF TeamsNext, PaperStep

\* Whoever is removed, demoted, promoted or leaves, an open workspace keeps an
\* owner, as long as requests act one at a time and none of the disturbances the
\* safeguards do not cover happens.
THEOREM WorkspacesKeepOwners == TeamsSpec => []OwnersRemain
  <1>1. OwnersInv => OwnersRemain
    BY DEF OwnersInv, Unhindered, Kept, HasOwner, OwnersRemain, Owners
  <1>2. QED
    BY OwnersStart, OwnersStep, <1>1, PTL DEF TeamsSpec

-----------------------------------------------------------------------------
(* Decisions *)

Serial == \A c, d \in Calls : c = d

Serving(c) == call[c].op # "idle"

\* What a call has read is still so when it writes.
ReadIsCurrent ==
    \A c \in Calls : Serving(c) => call[c].status = status /\ call[c].content = content

\* A campaign that may go out without an approver has been cleared.
ReadyIsCleared ==
    RequireApproval /\ status \in {"approved", "scheduled"} => content \in cleared

\* A call that is about to send, or to schedule, has the right to.
CallMayClear ==
    \A c \in Calls :
        RequireApproval /\ call[c].role # "approver" =>
            /\ call[c].op = "dispatch" => status \in {"approved", "scheduled"}
            /\ call[c].op = "schedule" => status = "approved"

\* A call that is about to send has seen no objection.
DispatchIsAgreed ==
    \A c \in Calls :
        call[c].op = "dispatch" =>
            \/ brand.decision = "none"
            \/ brand.decision = "approved" /\ brand.current

CurrentInv ==
    /\ ReviewTypeOK
    /\ ReadIsCurrent
    /\ ApprovedIsCurrent
    /\ BrandReviewIsCurrent
    /\ DispatchIsAgreed

ClearedInv ==
    /\ CurrentInv
    /\ ReadyIsCleared
    /\ CallMayClear
    /\ OnlyClearedIsSent

-----------------------------------------------------------------------------

LEMMA IdleTyped == Idle \in CallStates
  BY ReviewAssumption DEF Idle, CallStates, Operations, ReviewStatuses, Versions, Decisions

LEMMA ReturnTyped ==
  ASSUME NEW c \in Calls, call \in [Calls -> CallStates], Returns(c)
  PROVE  call' \in [Calls -> CallStates]
  BY IdleTyped DEF Returns

LEMMA ApprovesTyped ==
  ASSUME NEW version \in Versions, Approves(version),
         status \in ReviewStatuses, approval \in 0..MaxVersion, cleared \subseteq Versions
  PROVE  /\ status' \in ReviewStatuses
         /\ approval' \in 0..MaxVersion
         /\ cleared' \subseteq Versions
  <1>1. version \in 0..MaxVersion
    BY ReviewAssumption DEF Versions
  <1>2. CASE status = "pending_approval"
    BY <1>1, <1>2, Zenon DEF Approves, ReviewStatuses
  <1>3. CASE status # "pending_approval"
    BY <1>3, Zenon DEF Approves
  <1>4. QED
    BY <1>2, <1>3

LEMMA AnswerTyped ==
  ASSUME NEW d \in Decisions, NEW v \in 1..MaxVersion
  PROVE  [decision |-> d, version |-> v, current |-> TRUE]
            \in [decision : Decisions, version : 0..MaxVersion, current : BOOLEAN]
  <1>1. v \in 0..MaxVersion
    BY ReviewAssumption
  <1>2. QED
    BY <1>1, Zenon

LEMMA ReviewTypeInit == ReviewInit => ReviewTypeOK
  BY ReviewAssumption, IdleTyped
  DEF ReviewInit, ReviewTypeOK, ReviewStatuses, Versions, Decisions

LEMMA ReviewTypeStep == ReviewTypeOK /\ [ReviewNext]_reviewVars => ReviewTypeOK'
  <1> SUFFICES ASSUME ReviewTypeOK, [ReviewNext]_reviewVars PROVE ReviewTypeOK'
    OBVIOUS
  <1> USE DEF ReviewTypeOK, Versions
  <1>0. /\ MaxVersion \in Nat \ {0}
        /\ Roles \subseteq {"approver", "operator"}
    BY ReviewAssumption
  <1>1. CASE GetPublicReview
    BY <1>1 DEF GetPublicReview, campaignVars
  <1>2. ASSUME NEW c \in Calls, StartCall(c) PROVE ReviewTypeOK'
    <2>1. PICK op \in Operations, role \in Roles : Starts(c, op, role)
      BY <1>2 DEF StartCall, Operations
    <2>2. [op |-> op, role |-> role, status |-> status, content |-> content,
           decision |-> "none"] \in CallStates
      BY <1>0 DEF CallStates, Decisions
    <2>3. QED
      BY <2>1, <2>2 DEF Starts, campaignVars
  <1>3. ASSUME NEW c \in Calls, StartDecide(c) PROVE ReviewTypeOK'
    <2>1. PICK decision \in Decisions \ {"none"} :
             call' = [call EXCEPT ![c] = [op |-> "decide", role |-> "operator",
                                          status |-> status, content |-> viewed,
                                          decision |-> decision]]
      BY <1>3 DEF StartDecide
    <2>2. [op |-> "decide", role |-> "operator", status |-> status,
           content |-> viewed, decision |-> decision] \in CallStates
      <3>1. viewed \in 1..MaxVersion
        BY <1>0, <1>3 DEF StartDecide
      <3>2. QED
        BY <3>1 DEF CallStates, Operations
    <2>3. QED
      BY <1>3, <2>1, <2>2 DEF StartDecide, campaignVars
  <1>4. ASSUME NEW c \in Calls, CancelScheduledCampaign(c) PROVE ReviewTypeOK'
    BY <1>4 DEF CancelScheduledCampaign, ReviewStatuses
  <1>5. ASSUME NEW c \in Calls, UpdateContent(c) PROVE ReviewTypeOK'
    <2>1. /\ content' \in Versions
          /\ status' \in ReviewStatuses /\ approval' \in 0..MaxVersion
      BY <1>0, <1>5 DEF UpdateContent, Edit, campaignVars, ReviewStatuses
    <2>2. \/ brand' = [brand EXCEPT !.current = brand.current /\ ~ TRUE]
          \/ brand' = brand
      BY <1>5 DEF UpdateContent, Edit
    <2>3. (brand.current /\ ~ TRUE) \in BOOLEAN
      OBVIOUS
    <2>4. brand' \in [decision : Decisions, version : 0..MaxVersion, current : BOOLEAN]
      BY <2>2, <2>3
    <2>5. QED
      BY <1>5, <2>1, <2>4, ReturnTyped DEF UpdateContent, Edit
  <1>6. ASSUME NEW c \in Calls, SubmitForApproval(c) PROVE ReviewTypeOK'
    BY <1>6, ReturnTyped DEF SubmitForApproval, Moves, ReviewStatuses
  <1>7. ASSUME NEW c \in Calls, Approves(call[c].content)
        PROVE  /\ status' \in ReviewStatuses
               /\ approval' \in 0..MaxVersion
               /\ cleared' \subseteq Versions
    <2>1. call[c].content \in Versions
      BY DEF CallStates
    <2>2. QED
      BY <1>7, <2>1, ApprovesTyped
  <1>8. ASSUME NEW c \in Calls, ApproveCampaign(c) PROVE ReviewTypeOK'
    BY <1>7, <1>8, ReturnTyped DEF ApproveCampaign
  <1>9. ASSUME NEW c \in Calls, RejectCampaign(c) PROVE ReviewTypeOK'
    BY <1>9, ReturnTyped DEF RejectCampaign, Moves, ReviewStatuses
  <1>10. ASSUME NEW c \in Calls, SetScheduled(c) PROVE ReviewTypeOK'
    BY <1>10, ReturnTyped DEF SetScheduled, Moves, ClearedBy, ReviewStatuses, CallStates
  <1>11. ASSUME NEW c \in Calls, SendAndMark(c) PROVE ReviewTypeOK'
    BY <1>11, ReturnTyped DEF SendAndMark, ClearedBy, ReviewStatuses, CallStates
  <1>12. ASSUME NEW c \in Calls, CancelCampaign(c) PROVE ReviewTypeOK'
    BY <1>12, ReturnTyped DEF CancelCampaign, Moves, ReviewStatuses
  <1>13. ASSUME NEW c \in Calls, DeleteDraft(c) PROVE ReviewTypeOK'
    BY <1>13, ReturnTyped DEF DeleteDraft, Moves, ReviewStatuses
  <1>14. ASSUME NEW c \in Calls, RecordDecision(c) PROVE ReviewTypeOK'
    <2>1. call' \in [Calls -> CallStates]
      BY <1>14, ReturnTyped DEF RecordDecision, CallStates, Operations
    <2>2. call[c].content \in 1..MaxVersion /\ call[c].decision \in Decisions
      BY DEF CallStates
    <2>3. \/ brand' = [decision |-> call[c].decision, version |-> call[c].content,
                       current |-> TRUE]
          \/ brand' = brand
      BY <1>14 DEF RecordDecision
    <2>4. brand' \in [decision : Decisions, version : 0..MaxVersion, current : BOOLEAN]
      BY <1>0, <2>2, <2>3, AnswerTyped
    <2>5. QED
      BY <1>14, <2>1, <2>4 DEF RecordDecision, campaignVars
  <1>15. ASSUME NEW c \in Calls, AdvanceDecided(c) PROVE ReviewTypeOK'
    BY <1>7, <1>15, ReturnTyped DEF AdvanceDecided
  <1>16. CASE UNCHANGED reviewVars
    BY <1>16 DEF reviewVars, campaignVars
  <1>17. QED
    BY <1>1, <1>2, <1>3, <1>4, <1>5, <1>6, <1>8, <1>9, <1>10, <1>11, <1>12,
       <1>13, <1>14, <1>15, <1>16 DEF ReviewNext

\* The type invariant, for any number of calls under way.
THEOREM ReviewTypeCorrect == ReviewSpec => []ReviewTypeOK
  BY ReviewTypeInit, ReviewTypeStep, PTL DEF ReviewSpec

-----------------------------------------------------------------------------

LEMMA ReturnsIdle ==
  ASSUME Serial, ReviewTypeOK, NEW c \in Calls, Returns(c)
  PROVE  \A d \in Calls : call'[d].op = "idle" /\ call'[d].role = "operator"
  BY DEF Serial, ReviewTypeOK, Returns, Idle

LEMMA StartsRead ==
  ASSUME Serial, ReviewTypeOK, NEW c \in Calls, StartCall(c)
  PROVE  \E op \in Operations, role \in Roles :
            /\ \A d \in Calls : call'[d] = [op |-> op, role |-> role, status |-> status,
                                            content |-> content, decision |-> "none"]
            /\ op = "dispatch" => MayDispatch(role)
            /\ op = "schedule" => MaySchedule(role)
            /\ UNCHANGED <<campaignVars, brand, viewed, cleared, sent>>
  <1>1. PICK op \in Operations, role \in Roles :
           /\ Starts(c, op, role)
           /\ op = "dispatch" => MayDispatch(role)
           /\ op = "schedule" => MaySchedule(role)
    BY DEF StartCall, Operations
  <1>2. \A d \in Calls : call'[d] = [op |-> op, role |-> role, status |-> status,
                                     content |-> content, decision |-> "none"]
    BY <1>1 DEF Starts, Serial, ReviewTypeOK
  <1>3. QED
    BY <1>1, <1>2 DEF Starts

LEMMA CurrentInit == ReviewInit => CurrentInv
  BY ReviewTypeInit
  DEF ReviewInit, CurrentInv, ReadIsCurrent, Serving, Idle, ApprovedIsCurrent,
      BrandReviewIsCurrent, DispatchIsAgreed

LEMMA CurrentStep ==
  ASSUME Serial, BrandReloads, CurrentInv, [ReviewNext]_reviewVars
  PROVE  CurrentInv'
  <1> USE DEF ReadIsCurrent, ApprovedIsCurrent, BrandReviewIsCurrent, DispatchIsAgreed, Serving
  <1>0. ReviewTypeOK /\ ReadIsCurrent /\ ApprovedIsCurrent /\ BrandReviewIsCurrent
        /\ DispatchIsAgreed
    BY DEF CurrentInv
  <1>a. ReviewTypeOK'
    BY <1>0, ReviewTypeStep
  <1>b. ASSUME \A d \in Calls : call'[d].op = "idle" /\ call'[d].role = "operator"
        PROVE  ReadIsCurrent' /\ DispatchIsAgreed'
    BY <1>b
  <1> SUFFICES ReadIsCurrent' /\ ApprovedIsCurrent' /\ BrandReviewIsCurrent' /\ DispatchIsAgreed'
    BY <1>a DEF CurrentInv
  <1>1. CASE GetPublicReview
    BY <1>0, <1>1 DEF GetPublicReview, campaignVars
  <1>2. ASSUME NEW c \in Calls, StartCall(c) PROVE CurrentInv'
    <2>1. PICK op \in Operations, role \in Roles :
            /\ \A d \in Calls : call'[d] = [op |-> op, role |-> role, status |-> status,
                                            content |-> content, decision |-> "none"]
            /\ op = "dispatch" => MayDispatch(role)
            /\ UNCHANGED <<campaignVars, brand, viewed, cleared, sent>>
      BY <1>0, <1>2, StartsRead
    <2>2. ReadIsCurrent'
      BY <2>1 DEF campaignVars
    <2>3. ApprovedIsCurrent' /\ BrandReviewIsCurrent'
      BY <1>0, <2>1 DEF campaignVars
    <2>4. DispatchIsAgreed'
      <3>1. brand.decision \in Decisions
        BY <1>0 DEF ReviewTypeOK
      <3>2. QED
        BY <2>1, <3>1
        DEF MayDispatch, BrandChangesOutstanding, BrandReviewStale, Decisions
    <2>5. QED
      BY <1>a, <2>2, <2>3, <2>4 DEF CurrentInv
  <1>3. ASSUME NEW c \in Calls, StartDecide(c) PROVE CurrentInv'
    <2>1. \A d \in Calls : /\ call'[d].op = "decide"
                           /\ call'[d].status = status
                           /\ call'[d].content = content
      BY <1>0, <1>3 DEF StartDecide, Serial, ReviewTypeOK
    <2>2. UNCHANGED <<status, content, approval, brand>>
      BY <1>3 DEF StartDecide, campaignVars
    <2>3. QED
      BY <1>0, <1>a, <2>1, <2>2 DEF CurrentInv
  <1>4. ASSUME NEW c \in Calls, CancelScheduledCampaign(c) PROVE CurrentInv'
    <2>1. \A d \in Calls : call'[d].op = "idle"
      BY <1>4 DEF CancelScheduledCampaign, Serial
    <2>2. QED
      BY <1>0, <1>a, <1>4, <2>1 DEF CancelScheduledCampaign, CurrentInv
  <1>5. ASSUME NEW c \in Calls, UpdateContent(c) PROVE CurrentInv'
    <2>1. ReadIsCurrent' /\ DispatchIsAgreed'
      BY <1>0, <1>5, <1>b, ReturnsIdle DEF UpdateContent, Edit
    <2>2. ApprovedIsCurrent'
      <3>1. call[c].status = status
        BY <1>0, <1>5 DEF UpdateContent, Edit
      <3>2. QED
        BY <1>0, <1>5, <3>1 DEF UpdateContent, Edit, campaignVars
    <2>3. BrandReviewIsCurrent'
      BY <1>0, <1>5 DEF UpdateContent, Edit, campaignVars, ReviewTypeOK
    <2>4. QED
      BY <1>a, <2>1, <2>2, <2>3 DEF CurrentInv
  <1>6. ASSUME NEW c \in Calls, NEW op, NEW from, NEW to,
               Moves(c, op, from, to), to # "approved",
               UNCHANGED <<content, approval, brand>>
        PROVE  CurrentInv'
    BY <1>0, <1>a, <1>6, <1>b, ReturnsIdle DEF Moves, CurrentInv
  <1>7. ASSUME NEW c \in Calls, call[c].op # "idle", Approves(call[c].content), Returns(c),
               UNCHANGED <<content, brand>>
        PROVE  CurrentInv'
    <2>1. ReadIsCurrent' /\ DispatchIsAgreed'
      BY <1>0, <1>7, <1>b, ReturnsIdle
    <2>2. ApprovedIsCurrent'
      BY <1>0, <1>7 DEF Approves
    <2>3. QED
      BY <1>0, <1>a, <1>7, <2>1, <2>2 DEF CurrentInv
  <1>8. ASSUME NEW c \in Calls, SendAndMark(c) PROVE CurrentInv'
    <2>1. ReadIsCurrent' /\ DispatchIsAgreed'
      BY <1>0, <1>8, <1>b, ReturnsIdle DEF SendAndMark
    <2>2. QED
      BY <1>0, <1>a, <1>8, <2>1 DEF SendAndMark, CurrentInv
  <1>9. ASSUME NEW c \in Calls, RecordDecision(c) PROVE CurrentInv'
    <2>1. ReadIsCurrent' /\ DispatchIsAgreed'
      <3>1. CASE Returns(c)
        BY <1>0, <1>b, <3>1, ReturnsIdle
      <3>2. CASE call' = [call EXCEPT ![c].op = "advance"]
        <4>1. \A d \in Calls : /\ call'[d].op = "advance"
                               /\ call'[d].status = call[d].status
                               /\ call'[d].content = call[d].content
                               /\ call[d].op = "decide"
          BY <1>0, <1>9, <3>2 DEF Serial, ReviewTypeOK, RecordDecision, CallStates
        <4>2. UNCHANGED <<status, content>>
          BY <1>9 DEF RecordDecision, campaignVars
        <4>3. QED
          BY <1>0, <4>1, <4>2
      <3>3. QED
        BY <1>9, <3>1, <3>2 DEF RecordDecision
    <2>2. ApprovedIsCurrent' /\ BrandReviewIsCurrent'
      <3>1. call[c].content = content
        BY <1>0, <1>9 DEF RecordDecision
      <3>2. QED
        BY <1>0, <1>9, <3>1 DEF RecordDecision, campaignVars
    <2>3. QED
      BY <1>a, <2>1, <2>2 DEF CurrentInv
  <1>10. CASE UNCHANGED reviewVars
    BY <1>0, <1>10 DEF reviewVars, campaignVars
  <1>11. QED
    <2>1. ASSUME NEW c \in Calls,
                 \/ SubmitForApproval(c) \/ RejectCampaign(c) \/ SetScheduled(c)
                 \/ CancelCampaign(c) \/ DeleteDraft(c)
          PROVE  CurrentInv'
      <3>1. CASE SubmitForApproval(c)
        BY <1>6, <3>1 DEF SubmitForApproval
      <3>2. CASE RejectCampaign(c)
        BY <1>6, <3>2 DEF RejectCampaign
      <3>3. CASE SetScheduled(c)
        BY <1>6, <3>3 DEF SetScheduled
      <3>4. CASE CancelCampaign(c)
        BY <1>6, <3>4 DEF CancelCampaign
      <3>5. CASE DeleteDraft(c)
        BY <1>6, <3>5 DEF DeleteDraft
      <3>6. QED
        BY <2>1, <3>1, <3>2, <3>3, <3>4, <3>5
    <2>2. ASSUME NEW c \in Calls, ApproveCampaign(c) \/ AdvanceDecided(c)
          PROVE  CurrentInv'
      BY <1>7, <2>2 DEF ApproveCampaign, AdvanceDecided
    <2>3. QED
      BY <1>1, <1>2, <1>3, <1>4, <1>5, <1>8, <1>9, <1>10, <2>1, <2>2
      DEF ReviewNext, CurrentInv

LEMMA ClearedInit == ReviewInit => ClearedInv
  BY CurrentInit
  DEF ReviewInit, ClearedInv, ReadyIsCleared, CallMayClear, OnlyClearedIsSent, Idle

LEMMA ClearedStep ==
  ASSUME Serial, BrandReloads, ~ LookupMayFail, ClearedInv, [ReviewNext]_reviewVars
  PROVE  ClearedInv'
  <1> USE DEF ReadyIsCleared, CallMayClear, OnlyClearedIsSent
  <1>0. ReviewTypeOK /\ ReadIsCurrent /\ ReadyIsCleared /\ CallMayClear /\ OnlyClearedIsSent
    BY DEF ClearedInv, CurrentInv
  <1>a. CurrentInv'
    BY CurrentStep DEF ClearedInv
  <1>b. ASSUME NEW c \in Calls, Returns(c) PROVE CallMayClear'
    BY <1>0, <1>b, ReturnsIdle
  <1>c. \A c \in Calls : call[c].op # "idle" => call[c].content = content
    BY <1>0 DEF ReadIsCurrent, Serving
  <1> SUFFICES ReadyIsCleared' /\ CallMayClear' /\ OnlyClearedIsSent'
    BY <1>a DEF ClearedInv
  <1>1. CASE GetPublicReview
    BY <1>0, <1>1 DEF GetPublicReview, campaignVars
  <1>2. ASSUME NEW c \in Calls, StartCall(c) PROVE ClearedInv'
    <2>1. PICK op \in Operations, role \in Roles :
            /\ \A d \in Calls : call'[d] = [op |-> op, role |-> role, status |-> status,
                                            content |-> content, decision |-> "none"]
            /\ op = "dispatch" => MayDispatch(role)
            /\ op = "schedule" => MaySchedule(role)
            /\ UNCHANGED <<campaignVars, brand, viewed, cleared, sent>>
      BY <1>0, <1>2, StartsRead
    <2>2. ApprovalSettings = {RequireApproval}
      BY DEF ApprovalSettings
    <2>3. CallMayClear'
      BY <2>1, <2>2 DEF MayDispatch, MaySchedule, campaignVars
    <2>4. QED
      BY <1>0, <1>a, <2>1, <2>3 DEF ClearedInv, campaignVars
  <1>3. ASSUME NEW c \in Calls, StartDecide(c) PROVE ClearedInv'
    <2>1. \A d \in Calls : call'[d].op = "decide"
      BY <1>0, <1>3 DEF StartDecide, Serial, ReviewTypeOK
    <2>2. QED
      BY <1>0, <1>a, <1>3, <2>1 DEF StartDecide, campaignVars, ClearedInv
  <1>4. ASSUME NEW c \in Calls, CancelScheduledCampaign(c) PROVE ClearedInv'
    <2>1. \A d \in Calls : call'[d].op = "idle"
      BY <1>4 DEF CancelScheduledCampaign, Serial
    <2>2. QED
      BY <1>0, <1>a, <1>4, <2>1 DEF CancelScheduledCampaign, ClearedInv
  <1>5. ASSUME NEW c \in Calls, UpdateContent(c) PROVE ClearedInv'
    <2>1. call[c].status = status
      BY <1>0, <1>5 DEF UpdateContent, Edit, ReadIsCurrent, Serving
    <2>2. ReadyIsCleared' /\ OnlyClearedIsSent'
      BY <1>0, <1>5, <2>1 DEF UpdateContent, Edit, campaignVars
    <2>3. QED
      BY <1>a, <1>b, <1>5, <2>2 DEF UpdateContent, Edit, ClearedInv
  <1>6. ASSUME NEW c \in Calls, NEW op, NEW from, NEW to,
               Moves(c, op, from, to), to \notin {"approved", "scheduled"},
               UNCHANGED <<content, cleared, sent>>
        PROVE  ClearedInv'
    BY <1>0, <1>a, <1>b, <1>6 DEF Moves, ClearedInv
  <1>7. ASSUME NEW c \in Calls, call[c].op # "idle", Approves(call[c].content), Returns(c),
               UNCHANGED <<content, sent>>
        PROVE  ClearedInv'
    BY <1>0, <1>a, <1>b, <1>c, <1>7 DEF Approves, ClearedInv
  <1>8. ASSUME NEW c \in Calls, SetScheduled(c) PROVE ClearedInv'
    <2>1. ReadyIsCleared' /\ OnlyClearedIsSent'
      BY <1>0, <1>c, <1>8 DEF SetScheduled, Moves, ClearedBy
    <2>2. QED
      BY <1>a, <1>b, <1>8, <2>1 DEF SetScheduled, Moves, ClearedInv
  <1>9. ASSUME NEW c \in Calls, SendAndMark(c) PROVE ClearedInv'
    <2>1. ReadyIsCleared'
      BY <1>9 DEF SendAndMark
    <2>2. OnlyClearedIsSent'
      <3>1. RequireApproval => call[c].content \in ClearedBy(c)
        BY <1>0, <1>c, <1>9 DEF SendAndMark, ClearedBy
      <3>2. cleared \subseteq ClearedBy(c)
        BY DEF ClearedBy
      <3>3. QED
        BY <1>0, <1>9, <3>1, <3>2 DEF SendAndMark
    <2>3. QED
      BY <1>a, <1>b, <1>9, <2>1, <2>2 DEF SendAndMark, ClearedInv
  <1>10. ASSUME NEW c \in Calls, RecordDecision(c) PROVE ClearedInv'
    <2>1. \A d \in Calls : call'[d].op \in {"idle", "advance"}
      BY <1>0, <1>10 DEF RecordDecision, Returns, Idle, Serial, ReviewTypeOK, CallStates
    <2>2. QED
      BY <1>0, <1>a, <1>10, <2>1 DEF RecordDecision, campaignVars, ClearedInv
  <1>11. CASE UNCHANGED reviewVars
    BY <1>0, <1>11 DEF reviewVars, campaignVars
  <1>12. QED
    <2>1. ASSUME NEW c \in Calls,
                 SubmitForApproval(c) \/ RejectCampaign(c) \/ CancelCampaign(c) \/ DeleteDraft(c)
          PROVE  ClearedInv'
      <3>1. CASE SubmitForApproval(c)
        BY <1>6, <3>1 DEF SubmitForApproval
      <3>2. CASE RejectCampaign(c)
        BY <1>6, <3>2 DEF RejectCampaign
      <3>3. CASE CancelCampaign(c)
        BY <1>6, <3>3 DEF CancelCampaign
      <3>4. CASE DeleteDraft(c)
        BY <1>6, <3>4 DEF DeleteDraft
      <3>5. QED
        BY <2>1, <3>1, <3>2, <3>3, <3>4
    <2>2. ASSUME NEW c \in Calls, ApproveCampaign(c) \/ AdvanceDecided(c)
          PROVE  ClearedInv'
      BY <1>7, <2>2 DEF ApproveCampaign, AdvanceDecided
    <2>3. QED
      BY <1>1, <1>2, <1>3, <1>4, <1>5, <1>8, <1>9, <1>10, <1>11, <2>1, <2>2
      DEF ReviewNext, ClearedInv

-----------------------------------------------------------------------------

\* With one call at a time, an approved campaign holds exactly the version that
\* was approved (UpdateContent's reset is enough), and BrandReviewCurrent never
\* takes an answer about one version for an answer about another.
THEOREM SerialDecisionsAreCurrent ==
  ASSUME Serial, BrandReloads
  PROVE  ReviewSpec => []DecisionsAreCurrent
  <1>1. CurrentInv /\ [ReviewNext]_reviewVars => CurrentInv'
    BY CurrentStep
  <1>2. CurrentInv => DecisionsAreCurrent
    BY DEF CurrentInv, DecisionsAreCurrent
  <1>3. QED
    BY CurrentInit, <1>1, <1>2, PTL DEF ReviewSpec

\* With one call at a time, whatever is dispatched over a brand that has answered
\* is the version the brand said yes to.
THEOREM SerialBrandHasAgreed ==
  ASSUME Serial, BrandReloads
  PROVE  ReviewSpec => BrandHasAgreed
  <1>1. CurrentInv /\ [ReviewNext]_reviewVars => CurrentInv'
    BY CurrentStep
  <1>2. ASSUME CurrentInv, [ReviewNext]_reviewVars, sent' # sent
        PROVE  \/ brand.decision = "none"
               \/ brand.decision = "approved" /\ sent' \ sent \subseteq {brand.version}
    <2>1. PICK c \in Calls : SendAndMark(c)
      BY <1>2
      DEF ReviewNext, reviewVars, campaignVars, GetPublicReview, StartCall, Starts,
          StartDecide, CancelScheduledCampaign, UpdateContent, Edit, SubmitForApproval,
          ApproveCampaign, RejectCampaign, SetScheduled, CancelCampaign, DeleteDraft,
          RecordDecision, AdvanceDecided
    <2>2. call[c].content = content
      BY <1>2, <2>1 DEF SendAndMark, CurrentInv, ReadIsCurrent, Serving
    <2>3. QED
      BY <1>2, <2>1, <2>2
      DEF SendAndMark, CurrentInv, DispatchIsAgreed, BrandReviewIsCurrent
  <1>3. QED
    BY CurrentInit, <1>1, <1>2, PTL DEF ReviewSpec, BrandHasAgreed

\* With one call at a time and a setting that can be read, nothing goes out that
\* nobody with the right to has cleared.
THEOREM SerialOnlyClearedIsSent ==
  ASSUME Serial, BrandReloads, ~ LookupMayFail
  PROVE  ReviewSpec => []OnlyClearedIsSent
  <1>1. ClearedInv /\ [ReviewNext]_reviewVars => ClearedInv'
    BY ClearedStep
  <1>2. ClearedInv => OnlyClearedIsSent
    BY DEF ClearedInv
  <1>3. QED
    BY ClearedInit, <1>1, <1>2, PTL DEF ReviewSpec

=================================================================================
