--------------------------- MODULE MembershipProofs ---------------------------
(***************************************************************************)
(* Proofs that the tables of members and invites stay sound, for any       *)
(* number of users, roles and concurrent requests and any life time of an  *)
(* invite.                                                                 *)
(***************************************************************************)
EXTENDS Membership, FiniteSetTheorems, TLAPS

-----------------------------------------------------------------------------
(* The inductive invariant                                                 *)

\* What the record of a request says about the tables.  Rows it changed are
\* locked and still pending; an uncommitted INSERT keeps the project and the
\* key it found free; who is about to join has a pending invite, an accepted
\* one that is uncommitted, or was overtaken.
Good(r) ==
    /\ r.rows \subseteq Ids /\ \A i \in r.rows : invites[i].status = "pending"
    /\ r.rows # {} => r.pc \in {"pending", "insert", "commit", "join", "joined"}
    /\ r.upsert <=> r.pc = "joined"
    /\ r.pc \in {"commit", "joined"} => project
    /\ r.pc \in {"sweep", "pending", "insert", "commit"} => r.todo # <<>> /\ r.role \in Roles
    /\ r.pc \in {"pending", "insert", "commit"} => r.user \in Users \ {Founder}
    /\ r.pc = "commit" => Pending(r.user) \subseteq r.rows
    /\ r.pc \in {"mark", "join", "joined", "decline"} => r.id \in Ids /\ invites[r.id].to = r.user
    /\ r.pc \in {"mark", "join", "joined"} => r.role \in Roles /\ r.role = invites[r.id].role
    /\ r.pc \in {"join", "joined"} => /\ r.rows \subseteq {r.id}
                                      /\ invites[r.id].status = "pending" => r.id \in r.rows
    /\ r.pc = "mark" /\ project =>
          r.id \in overtaken \/ invites[r.id].status = "pending"
    /\ r.pc \in {"join", "joined"} /\ project => r.id \in overtaken \/ r.id \in r.rows
    /\ r.pc = "update" => /\ r.user \in Users \ {Founder} /\ r.role \in Roles \ {OwnerRole}
                          /\ project => member[r.user] # None
    /\ r.pc = "projects" => r.user \in Users
    /\ r.pc = "invited" =>
          \A u \in Users \ r.moved : r.user \in {None, u} =>
              (u \in r.seen <=> member[u] # None)
    /\ r.pc = "listed" =>
          \A u \in Users \ r.moved : r.user \in {None, u} =>
              (u \in r.seen <=> member[u] # None \/ Pending(u) # {})

\* At most one pending invite of an address, without counting.
SinglePending == \A u \in Users : \A i, j \in Pending(u) : i = j

\* The founder is a member and never invited.
FounderNotInvited == \A i \in Ids : invites[i].to # Founder

\* Row locks are held by one request, and so are new keys of the index.
LocksExclusive ==
    \A g \in Handlers : \A h \in Handlers \ {g} :
        /\ hs[g].rows \cap hs[h].rows = {}
        /\ hs[g].pc = "commit" /\ hs[h].pc = "commit" => hs[g].user # hs[h].user

MembershipInv ==
    /\ TypeOK
    /\ NothingSurvivesDelete /\ FounderKeepsRole /\ SinglePending
    /\ FounderNotInvited /\ JoinExplained
    /\ LocksExclusive
    /\ \A h \in Handlers : Good(hs[h])

-----------------------------------------------------------------------------
(* Records and sequences                                                   *)

LEMMA IdleType ==
  /\ Idle \in Handler
  /\ Idle.pc = "idle" /\ Idle.rows = {} /\ Idle.upsert = FALSE /\ Idle.user = None
  /\ Idle.seen = {} /\ Idle.moved = {} /\ Idle.todo = <<>> /\ Idle.role = None
BY DEF Idle, Handler

\* The statuses of rows change, and nothing else of the invites.
LEMMA SetStatusFacts ==
  ASSUME TypeOK, NEW rows \in SUBSET Ids, NEW st \in Ended \cup {"deleted"}
  PROVE  /\ SetStatus(rows, st) \in Seq(Invite)
         /\ Len(SetStatus(rows, st)) = Len(invites)
         /\ \A i \in Ids : /\ SetStatus(rows, st)[i].to = invites[i].to
                           /\ SetStatus(rows, st)[i].role = invites[i].role
                           /\ SetStatus(rows, st)[i].status =
                                IF i \in rows THEN st ELSE invites[i].status
<1>1. invites \in Seq(Invite) /\ Len(invites) \in Nat /\ \A i \in Ids : invites[i] \in Invite
  BY DEF TypeOK, Ids
<1> DEFINE new(i) == IF i \in rows THEN [invites[i] EXCEPT !.status = st] ELSE invites[i]
<1>2. \A i \in Ids : /\ new(i) \in Invite /\ new(i).to = invites[i].to
                     /\ new(i).role = invites[i].role
                     /\ new(i).status = IF i \in rows THEN st ELSE invites[i].status
  BY <1>1 DEF Invite
<1>3. SetStatus(rows, st) = [i \in 1..Len(invites) |-> new(i)]
  BY DEF SetStatus, Ids
<1> HIDE DEF new
<1>4. SetStatus(rows, st) \in Seq(Invite) /\ Len(SetStatus(rows, st)) = Len(invites)
  BY <1>1, <1>2, <1>3 DEF Ids
<1> QED BY <1>2, <1>3, <1>4 DEF Ids

\* What the next entry of a batch starts with.
LEMMA NextEntryFacts ==
  ASSUME TypeOK, NEW h \in Handlers, hs[h].todo # <<>>, hs[h].role \in Roles
  PROVE  /\ NextEntry(h) \in Handler
         /\ NextEntry(h).pc \in {"idle", "sweep"}
         /\ NextEntry(h).rows = {} /\ NextEntry(h).upsert = FALSE
         /\ NextEntry(h).pc = "sweep" => NextEntry(h).todo # <<>> /\ NextEntry(h).role \in Roles
<1>1. hs[h] \in Handler
  BY DEF TypeOK
<1>2. Tail(hs[h].todo) \in Seq(Users \cup {None})
  BY <1>1 DEF Handler
<1> DEFINE next == [Idle EXCEPT !.pc = "sweep", !.role = hs[h].role, !.todo = Tail(hs[h].todo)]
<1>3. next \in Handler /\ next.pc = "sweep" /\ next.rows = {} /\ next.upsert = FALSE
      /\ next.todo = Tail(hs[h].todo) /\ next.role = hs[h].role
  BY <1>2, IdleType DEF Handler
<1>4. NextEntry(h) = IF Tail(hs[h].todo) = <<>> THEN Idle ELSE next
  BY DEF NextEntry
<1> HIDE DEF next
<1> QED BY <1>3, <1>4, IdleType

-----------------------------------------------------------------------------
(* Steps that leave the tables alone                                       *)

\* A request moves on while the tables stay: what its new record says must be
\* true, and what it locked or inserted must be its own.
LEMMA MoveKeeps ==
  ASSUME MembershipInv, NEW h \in Handlers, NEW r \in Handler, Move(h, r),
         UNCHANGED <<project, member, invites, overtaken>>, now' \in Nat, asked' \in Nat,
         Good(r),
         r.rows \cap LockedRows(h) = {},
         r.pc = "commit" => \A g \in Handlers \ {h} : hs[g].pc = "commit" => hs[g].user # r.user
  PROVE  MembershipInv'
<1>1. TypeOK
  BY DEF MembershipInv
<1>2. /\ hs' \in [Handlers -> Handler] /\ hs'[h] = r
      /\ \A g \in Handlers \ {h} : hs'[g] = hs[g]
  BY <1>1 DEF Move, TypeOK
<1>3. TypeOK'
  BY <1>1, <1>2 DEF TypeOK
<1>4. (/\ NothingSurvivesDelete /\ FounderKeepsRole /\ SinglePending
       /\ FounderNotInvited /\ JoinExplained)'
  BY DEF MembershipInv, NothingSurvivesDelete, FounderKeepsRole, SinglePending, Pending,
         FounderNotInvited, JoinExplained, Ids
<1>5. \A g \in Handlers : Good(hs[g])'
  <2>1. ASSUME NEW g \in Handlers, Good(hs'[g]) PROVE Good(hs[g])'
    BY <2>1 DEF Good, Ids, Pending
  <2>2. \A g \in Handlers : Good(hs'[g])
    BY <1>2 DEF MembershipInv
  <2> QED BY <2>1, <2>2
<1>6. \A g \in Handlers \ {h} : r.rows \cap hs[g].rows = {}
  BY DEF LockedRows
<1>7. LocksExclusive'
  BY <1>2, <1>6 DEF MembershipInv, LocksExclusive
<1> QED BY <1>3, <1>4, <1>5, <1>7 DEF MembershipInv

\* A request that holds nothing and only reads.
LEMMA ReadKeeps ==
  ASSUME MembershipInv, NEW h \in Handlers, NEW r \in Handler, Move(h, r),
         UNCHANGED <<project, member, invites, overtaken>>, now' \in Nat, asked' \in Nat,
         Good(r), r.rows = {}, r.pc # "commit"
  PROVE  MembershipInv'
BY MoveKeeps

\* An answered request says nothing.
LEMMA IdleGood == Good(Idle)
BY IdleType DEF Good

-----------------------------------------------------------------------------
(* Steps that change the tables                                            *)

\* What a request that is not the one committing still says afterwards.
LEMMA OthersStayGood ==
  ASSUME TypeOK, NEW g \in Handlers, Good(hs[g]), NEW users \in SUBSET Users,
         project' => project,
         hs[g].pc \in {"commit", "joined"} => project',
         Len(invites') \in Nat, Len(invites) <= Len(invites'),
         \A i \in Ids : /\ invites'[i].to = invites[i].to /\ invites'[i].role = invites[i].role
                        /\ invites'[i].status = "pending" => invites[i].status = "pending",
         \A i \in hs[g].rows : invites'[i].status = "pending",
         overtaken \subseteq overtaken',
         project' /\ hs[g].pc = "mark" /\ invites[hs[g].id].status = "pending" =>
            hs[g].id \in overtaken' \/ invites'[hs[g].id].status = "pending",
         \A u \in Users : hs[g].pc = "commit" /\ hs[g].user = u => Pending(u)' \subseteq Pending(u),
         \A u \in Users : project' /\ member[u] # None => member'[u] # None,
         \A u \in Users \ users : /\ member'[u] = None <=> member[u] = None
                                  /\ Pending(u)' = {} <=> Pending(u) = {},
         hs'[g] = IF hs[g].pc \in {"invited", "listed"}
                  THEN [hs[g] EXCEPT !.moved = @ \cup users] ELSE hs[g]
  PROVE  Good(hs[g])'
<1>0. hs[g] \in Handler
  BY DEF TypeOK
<1>1. \A i \in Ids : i \in Ids'
  BY DEF Ids, TypeOK
<1>2. CASE hs[g].pc \notin {"invited", "listed"}
  <2>1. hs'[g] = hs[g]
    BY <1>2
  <2> QED BY <1>1, <1>2, <2>1 DEF Good
<1>3. CASE hs[g].pc \in {"invited", "listed"}
  <2> DEFINE r == [hs[g] EXCEPT !.moved = @ \cup users]
  <2>1. /\ r.pc = hs[g].pc /\ r.rows = hs[g].rows /\ r.upsert = hs[g].upsert
        /\ r.user = hs[g].user /\ r.seen = hs[g].seen /\ r.moved = hs[g].moved \cup users
    BY <1>0 DEF Handler
  <2>2. hs'[g] = r
    BY <1>3
  <2> HIDE DEF r
  <2>3. r.rows = {} /\ ~r.upsert
    BY <1>3, <2>1 DEF Good
  <2>4. r.pc = "invited" => \A u \in Users \ r.moved : r.user \in {None, u} =>
            (u \in r.seen <=> member'[u] # None)
    BY <1>3, <2>1 DEF Good
  <2>5. r.pc = "listed" => \A u \in Users \ r.moved : r.user \in {None, u} =>
            (u \in r.seen <=> member'[u] # None \/ Pending(u)' # {})
    BY <1>3, <2>1 DEF Good
  <2> QED BY <1>3, <2>1, <2>2, <2>3, <2>4, <2>5 DEF Good
<1> QED BY <1>2, <1>3

\* What telling the readers does to the requests.
LEMMA TellingMoves ==
  ASSUME TypeOK, NEW h \in Handlers, NEW r \in Handler, NEW users \in SUBSET Users,
         r.pc \notin {"invited", "listed"}, MoveTelling(h, r, users)
  PROVE  /\ hs' \in [Handlers -> Handler]
         /\ hs'[h] = r
         /\ \A g \in Handlers \ {h} :
              /\ hs'[g] = IF hs[g].pc \in {"invited", "listed"}
                          THEN [hs[g] EXCEPT !.moved = @ \cup users] ELSE hs[g]
              /\ hs'[g].pc = hs[g].pc /\ hs'[g].rows = hs[g].rows /\ hs'[g].user = hs[g].user
<1> DEFINE told(g) == IF hs[g].pc \in {"invited", "listed"}
                      THEN [hs[g] EXCEPT !.moved = @ \cup users] ELSE hs[g]
<1>1. \A g \in Handlers : /\ told(g) \in Handler /\ told(g).pc = hs[g].pc
                          /\ told(g).rows = hs[g].rows /\ told(g).user = hs[g].user
  <2>1. ASSUME NEW x \in Handler
        PROVE  LET y == [x EXCEPT !.moved = @ \cup users]
               IN  /\ y \in Handler /\ y.pc = x.pc /\ y.rows = x.rows /\ y.user = x.user
    <3>1. x.moved \cup users \in SUBSET Users
      BY DEF Handler
    <3> QED BY <3>1 DEF Handler
  <2>2. \A g \in Handlers : hs[g] \in Handler
    BY DEF TypeOK
  <2> QED BY <2>1, <2>2
<1>2. hs' = [g \in Handlers |-> IF g = h THEN r ELSE told(g)]
  BY DEF MoveTelling
<1> QED BY <1>1, <1>2

-----------------------------------------------------------------------------
(* Each action                                                             *)

\* What the invariant says of one request.
LEMMA OfOne ==
  ASSUME MembershipInv, NEW h \in Handlers
  PROVE  TypeOK /\ hs[h] \in Handler /\ Good(hs[h]) /\ now \in Nat /\ asked \in Nat
BY DEF MembershipInv, TypeOK

\* A bounded number of requests is asked.
LEMMA AskCounts == ASSUME MembershipInv, Ask PROVE asked' \in Nat
BY DEF MembershipInv, TypeOK, Ask

LEMMA InviteTypes ==
  ASSUME TypeOK, NEW i \in Ids
  PROVE  i \in Nat /\ invites[i] \in Invite /\ invites[i].to \in Users /\ invites[i].role \in Roles
<1>1. i \in 1..Len(invites) /\ invites \in Seq(Invite)
  BY DEF Ids, TypeOK
<1>2. i \in Nat /\ invites[i] \in Invite
  BY <1>1
<1> QED BY <1>2 DEF Invite

LEMMA StartKeeps ==
  ASSUME MembershipInv, NEW h \in Handlers,
         \/ ProjectNotFound(h) \/ StartInvites(h) \/ StartCancel(h) \/ StartAccept(h)
         \/ StartDecline(h) \/ StartUpdateMember(h) \/ DeleteProject(h) \/ StartDashboard(h)
  PROVE  MembershipInv'
<1>0. TypeOK /\ hs[h] \in Handler /\ now \in Nat /\ asked' \in Nat /\ now' \in Nat
      /\ UNCHANGED <<project, member, invites, overtaken>>
  BY OfOne, AskCounts DEF ProjectNotFound, StartInvites, StartCancel, StartAccept,
        StartDecline, StartUpdateMember, DeleteProject, StartDashboard
<1>1. CASE ProjectNotFound(h)
  <2>1. Move(h, hs[h])
    BY <1>0, <1>1 DEF ProjectNotFound, Move, TypeOK
  <2>2. Good(hs[h]) /\ hs[h].rows = {} /\ hs[h].pc = "idle"
    BY <1>1, OfOne DEF ProjectNotFound, Good
  <2> QED BY <1>0, <2>1, <2>2, ReadKeeps
<1>2. CASE StartInvites(h)
  <2>1. PICK u \in Users, rest \in {<<>>} \cup {<<v>> : v \in Users \cup {None}}, role \in Roles :
           Move(h, [Idle EXCEPT !.pc = "sweep", !.role = role, !.todo = <<u>> \o rest])
    BY <1>2 DEF StartInvites
  <2> DEFINE r == [Idle EXCEPT !.pc = "sweep", !.role = role, !.todo = <<u>> \o rest]
  <2>2. <<u>> \o rest \in Seq(Users \cup {None}) /\ <<u>> \o rest # <<>>
    <3>0. \A v \in Users \cup {None} : <<v>> \in Seq(Users \cup {None})
      OBVIOUS
    <3>1. rest \in Seq(Users \cup {None}) /\ <<u>> \in Seq(Users \cup {None})
      <4>1. CASE rest = <<>>
        BY <3>0, <4>1
      <4>2. CASE \E v \in Users \cup {None} : rest = <<v>>
        BY <3>0, <4>2
      <4> QED BY <4>1, <4>2
    <3>2. Len(<<u>> \o rest) = 1 + Len(rest)
      BY <3>1
    <3> QED BY <3>1, <3>2
  <2>3. r \in Handler /\ r.pc = "sweep" /\ r.rows = {} /\ ~r.upsert /\ r.role = role
        /\ r.todo # <<>>
    BY <2>2, IdleType DEF Handler
  <2> HIDE DEF r
  <2>4. Good(r)
    BY <2>3 DEF Good
  <2> QED BY <1>0, <2>1, <2>3, <2>4, ReadKeeps DEF r
<1>3. CASE StartCancel(h)
  <2>1. PICK u \in Users : Move(h, [Idle EXCEPT !.pc = "cancel", !.user = u])
    BY <1>3 DEF StartCancel
  <2> DEFINE r == [Idle EXCEPT !.pc = "cancel", !.user = u]
  <2>2. r \in Handler /\ r.pc = "cancel" /\ r.rows = {} /\ ~r.upsert
    BY IdleType DEF Handler
  <2> HIDE DEF r
  <2>3. Good(r)
    BY <2>2 DEF Good
  <2> QED BY <1>0, <2>1, <2>2, <2>3, ReadKeeps DEF r
<1>4. CASE StartAccept(h)
  <2>1. PICK i \in Ids : /\ Acceptable(i)
                         /\ Move(h, [Idle EXCEPT !.pc = "mark", !.id = i,
                                        !.user = invites[i].to, !.role = invites[i].role])
    BY <1>4 DEF StartAccept
  <2> DEFINE r == [Idle EXCEPT !.pc = "mark", !.id = i,
                               !.user = invites[i].to, !.role = invites[i].role]
  <2>2. i \in Nat /\ invites[i].to \in Users /\ invites[i].role \in Roles
        /\ invites[i].status = "pending"
    BY <1>0, <2>1, InviteTypes DEF Acceptable
  <2>3. r \in Handler /\ r.pc = "mark" /\ r.rows = {} /\ ~r.upsert /\ r.id = i
        /\ r.user = invites[i].to /\ r.role = invites[i].role
    BY <2>2, IdleType DEF Handler
  <2> HIDE DEF r
  <2>4. Good(r)
    BY <2>2, <2>3 DEF Good
  <2> QED BY <1>0, <2>1, <2>3, <2>4, ReadKeeps DEF r
<1>5. CASE StartDecline(h)
  <2>1. PICK i \in Ids : Move(h, [Idle EXCEPT !.pc = "decline", !.id = i, !.user = invites[i].to])
    BY <1>5 DEF StartDecline
  <2> DEFINE r == [Idle EXCEPT !.pc = "decline", !.id = i, !.user = invites[i].to]
  <2>2. i \in Nat /\ invites[i].to \in Users
    BY <1>0, <2>1, InviteTypes
  <2>3. r \in Handler /\ r.pc = "decline" /\ r.rows = {} /\ ~r.upsert /\ r.id = i
        /\ r.user = invites[i].to
    BY <2>2, IdleType DEF Handler
  <2> HIDE DEF r
  <2>4. Good(r)
    BY <2>2, <2>3 DEF Good
  <2> QED BY <1>0, <2>1, <2>3, <2>4, ReadKeeps DEF r
<1>6. CASE StartUpdateMember(h)
  <2>1. PICK u \in Users, role \in Roles \ {OwnerRole} :
           /\ member[u] \notin {None, OwnerRole}
           /\ Move(h, [Idle EXCEPT !.pc = "update", !.user = u, !.role = role])
    BY <1>6 DEF StartUpdateMember
  <2> DEFINE r == [Idle EXCEPT !.pc = "update", !.user = u, !.role = role]
  <2>2. u # Founder
    BY <1>6, <2>1 DEF StartUpdateMember, MembershipInv, FounderKeepsRole
  <2>3. r \in Handler /\ r.pc = "update" /\ r.rows = {} /\ ~r.upsert /\ r.user = u
        /\ r.role = role
    BY IdleType DEF Handler
  <2> HIDE DEF r
  <2>4. Good(r)
    BY <2>1, <2>2, <2>3 DEF Good
  <2> QED BY <1>0, <2>1, <2>3, <2>4, ReadKeeps DEF r
<1>7. CASE DeleteProject(h)
  <2> DEFINE r == [Idle EXCEPT !.pc = "cascade"]
  <2>1. r \in Handler /\ r.pc = "cascade" /\ r.rows = {} /\ ~r.upsert
    BY IdleType DEF Handler
  <2>2. Move(h, r)
    BY <1>7 DEF DeleteProject
  <2> HIDE DEF r
  <2>3. Good(r)
    BY <2>1 DEF Good
  <2> QED BY <1>0, <2>1, <2>2, <2>3, ReadKeeps
<1>8. CASE StartDashboard(h)
  <2>1. PICK u \in Users : Move(h, [Idle EXCEPT !.pc = "projects", !.user = u])
    BY <1>8 DEF StartDashboard
  <2> DEFINE r == [Idle EXCEPT !.pc = "projects", !.user = u]
  <2>2. r \in Handler /\ r.pc = "projects" /\ r.rows = {} /\ ~r.upsert /\ r.user = u
    BY IdleType DEF Handler
  <2> HIDE DEF r
  <2>3. Good(r)
    BY <2>2 DEF Good
  <2> QED BY <1>0, <2>1, <2>2, <2>3, ReadKeeps DEF r
<1> QED BY <1>1, <1>2, <1>3, <1>4, <1>5, <1>6, <1>7, <1>8

\* Inviting up to the INSERT.
LEMMA InvitingKeeps ==
  ASSUME MembershipInv, NEW h \in Handlers,
         SweepAndFindMember(h) \/ FindPending(h) \/ InsertInvite(h)
  PROVE  MembershipInv'
<1>0. /\ TypeOK /\ hs[h] \in Handler /\ Good(hs[h]) /\ now' \in Nat /\ asked' \in Nat
      /\ UNCHANGED <<project, member, invites, overtaken>> /\ now \in Nat
  BY OfOne DEF SweepAndFindMember, FindPending, InsertInvite
<1>1. CASE Move(h, NextEntry(h))
  <2>1. hs[h].todo # <<>> /\ hs[h].role \in Roles
    BY <1>0 DEF SweepAndFindMember, FindPending, InsertInvite, Good
  <2> DEFINE r == NextEntry(h)
  <2>2. r \in Handler /\ r.pc \in {"idle", "sweep"} /\ r.rows = {} /\ ~r.upsert
        /\ (r.pc = "sweep" => r.todo # <<>> /\ r.role \in Roles)
    BY <1>0, <2>1, NextEntryFacts
  <2> HIDE DEF r
  <2>3. Good(r)
    BY <2>2 DEF Good
  <2> QED BY <1>0, <1>1, <2>2, <2>3, ReadKeeps DEF r
<1>2. CASE Move(h, Idle)
  BY <1>0, <1>2, IdleType, IdleGood, ReadKeeps
<1>3. CASE SweepAndFindMember(h) /\ ~Move(h, NextEntry(h))
  <2> DEFINE u == Head(hs[h].todo)
             r == [hs[h] EXCEPT !.pc = "pending", !.user = u, !.sent = now, !.rows = Stale]
  <2>1. /\ hs[h].pc = "sweep" /\ Stale \cap LockedRows(h) = {} /\ Move(h, r)
        /\ u # None /\ project /\ member[u] = None
    BY <1>3 DEF SweepAndFindMember
  <2>2. u \in Users /\ u # Founder
    <3>1. hs[h].todo # <<>> /\ hs[h].todo \in Seq(Users \cup {None})
      BY <1>0, <2>1 DEF Good, Handler
    <3>2. u \in Users \cup {None}
      BY <3>1
    <3>3. member[Founder] = OwnerRole /\ OwnerRole # None
      BY <2>1, NoneIsNobody, FounderRegistered DEF MembershipInv, FounderKeepsRole
    <3> QED BY <2>1, <3>2, <3>3
  <2>3. Stale \in SUBSET Nat /\ Stale \subseteq Ids /\ \A i \in Stale : invites[i].status = "pending"
    BY DEF Stale, Ids
  <2>4. hs[h].role \in Roles /\ hs[h].todo # <<>> /\ ~hs[h].upsert
    BY <1>0, <2>1 DEF Good
  <2> HIDE DEF u
  <2>5. r \in Handler /\ r.pc = "pending" /\ r.rows = Stale /\ r.user = u
        /\ r.role = hs[h].role /\ r.todo = hs[h].todo /\ r.upsert = hs[h].upsert
    BY <1>0, <2>2, <2>3 DEF Handler
  <2> HIDE DEF r
  <2>6. Good(r)
    BY <2>2, <2>3, <2>4, <2>5 DEF Good
  <2> QED BY <1>0, <2>1, <2>5, <2>6, MoveKeeps
<1>4. CASE FindPending(h) /\ ~Move(h, NextEntry(h))
  <2> DEFINE r == [hs[h] EXCEPT !.pc = "insert"]
  <2>1. hs[h].pc = "pending" /\ Move(h, r)
    BY <1>4 DEF FindPending
  <2>2. r \in Handler /\ r.pc = "insert" /\ r.rows = hs[h].rows /\ r.user = hs[h].user
        /\ r.role = hs[h].role /\ r.todo = hs[h].todo /\ r.upsert = hs[h].upsert
    BY <1>0 DEF Handler
  <2> HIDE DEF r
  <2>3. Good(r)
    BY <1>0, <2>1, <2>2 DEF Good
  <2>4. r.rows \cap LockedRows(h) = {}
    BY <2>2 DEF MembershipInv, LocksExclusive, LockedRows
  <2> QED BY <1>0, <2>1, <2>2, <2>3, <2>4, MoveKeeps
<1>5. CASE InsertInvite(h) /\ ~Move(h, NextEntry(h)) /\ ~Move(h, Idle)
  <2> DEFINE r == [hs[h] EXCEPT !.pc = "commit"]
  <2>1. /\ hs[h].pc = "insert" /\ Move(h, r) /\ project
        /\ KeyFree(hs[h].user, h) /\ ~KeyLocked(hs[h].user, h)
    BY <1>5 DEF InsertInvite
  <2>2. r \in Handler /\ r.pc = "commit" /\ r.rows = hs[h].rows /\ r.user = hs[h].user
        /\ r.role = hs[h].role /\ r.todo = hs[h].todo /\ r.upsert = hs[h].upsert
    BY <1>0 DEF Handler
  <2> HIDE DEF r
  <2>3. Pending(r.user) \subseteq r.rows
    BY <2>1, <2>2 DEF KeyFree
  <2>4. Good(r)
    BY <1>0, <2>1, <2>2, <2>3 DEF Good
  <2>5. r.rows \cap LockedRows(h) = {}
    BY <2>2 DEF MembershipInv, LocksExclusive, LockedRows
  <2>6. \A g \in Handlers \ {h} : hs[g].pc = "commit" => hs[g].user # r.user
    BY <2>1, <2>2 DEF KeyLocked
  <2> QED BY <1>0, <2>1, <2>2, <2>4, <2>5, <2>6, MoveKeeps
<1> QED BY <1>1, <1>2, <1>3, <1>4, <1>5

\* Accepting up to the commit.
LEMMA AcceptingKeeps ==
  ASSUME MembershipInv, NEW h \in Handlers, MarkAccepted(h) \/ UpsertMember(h)
  PROVE  MembershipInv'
<1>0. /\ TypeOK /\ hs[h] \in Handler /\ Good(hs[h]) /\ now' \in Nat /\ asked' \in Nat
      /\ UNCHANGED <<project, member, invites, overtaken>>
  BY OfOne DEF MarkAccepted, UpsertMember
<1>1. CASE MarkAccepted(h)
  <2> DEFINE id == hs[h].id
             r == [hs[h] EXCEPT !.pc = "join", !.rows = Marked(id)]
  <2>1. hs[h].pc = "mark" /\ id \notin LockedRows(h) /\ Move(h, r)
    BY <1>1 DEF MarkAccepted
  <2>2. id \in Ids /\ id \in Nat
    BY <1>0, <2>1, InviteTypes DEF Good
  <2>3. Marked(id) = IF invites[id].status = "pending" THEN {id} ELSE {}
    BY <2>2 DEF Marked
  <2>4. r \in Handler /\ r.pc = "join" /\ r.rows = Marked(id) /\ r.user = hs[h].user
        /\ r.role = hs[h].role /\ r.id = id /\ r.upsert = hs[h].upsert
    BY <1>0, <2>2, <2>3 DEF Handler
  <2> HIDE DEF r
  <2>5. Good(r)
    BY <1>0, <2>1, <2>2, <2>3, <2>4 DEF Good
  <2>6. r.rows \cap LockedRows(h) = {}
    BY <2>1, <2>3, <2>4
  <2> QED BY <1>0, <2>1, <2>4, <2>5, <2>6, MoveKeeps
<1>2. CASE UpsertMember(h) /\ project
  <2> DEFINE r == [hs[h] EXCEPT !.pc = "joined", !.upsert = TRUE]
  <2>1. hs[h].pc = "join" /\ Move(h, r)
    BY <1>2 DEF UpsertMember
  <2>2. r \in Handler /\ r.pc = "joined" /\ r.rows = hs[h].rows /\ r.user = hs[h].user
        /\ r.role = hs[h].role /\ r.id = hs[h].id /\ r.upsert = TRUE
    BY <1>0 DEF Handler
  <2> HIDE DEF r
  <2>3. Good(r)
    BY <1>0, <1>2, <2>1, <2>2 DEF Good
  <2>4. r.rows \cap LockedRows(h) = {}
    BY <2>2 DEF MembershipInv, LocksExclusive, LockedRows
  <2> QED BY <1>0, <2>1, <2>2, <2>3, <2>4, MoveKeeps
<1>3. CASE UpsertMember(h) /\ ~project
  BY <1>0, <1>3, IdleType, IdleGood, ReadKeeps DEF UpsertMember
<1> QED BY <1>1, <1>2, <1>3

\* The queries of the readers.
LEMMA ReadingKeeps ==
  ASSUME MembershipInv, NEW h \in Handlers,
         \/ RosterMembers(h) \/ RosterInvited(h)
         \/ DashboardProjects(h) \/ DashboardInvites(h)
  PROVE  MembershipInv'
<1>0. /\ TypeOK /\ hs[h] \in Handler /\ Good(hs[h]) /\ now' \in Nat /\ asked' \in Nat
      /\ UNCHANGED <<project, member, invites, overtaken>>
      /\ hs[h].rows = {} /\ ~hs[h].upsert
  BY OfOne DEF RosterMembers, RosterInvited, DashboardProjects, DashboardInvites, Good
<1>1. PICK pc \in {"invited", "listed"}, seen \in SUBSET Users :
        /\ Move(h, [hs[h] EXCEPT !.pc = pc, !.seen = seen])
        /\ pc = "invited" => \A u \in Users : hs[h].user \in {None, u} =>
              (u \in seen <=> member[u] # None)
        /\ pc = "listed" => \A u \in Users \ hs[h].moved : hs[h].user \in {None, u} =>
              (u \in seen <=> member[u] # None \/ Pending(u) # {})
  <2>1. CASE RosterMembers(h)
    <3> DEFINE seen == {u \in Users : member[u] # None}
    <3>1. Move(h, [hs[h] EXCEPT !.pc = "invited", !.seen = seen]) /\ seen \in SUBSET Users
          /\ \A u \in Users : u \in seen <=> member[u] # None
      BY <2>1 DEF RosterMembers
    <3> HIDE DEF seen
    <3> QED BY <3>1
  <2>2. CASE RosterInvited(h)
    <3> DEFINE seen == hs[h].seen \cup {u \in Users : Pending(u) # {}}
    <3>1. /\ hs[h].pc = "invited" /\ seen \in SUBSET Users
          /\ Move(h, [hs[h] EXCEPT !.pc = "listed", !.seen = seen])
      BY <1>0, <2>2 DEF RosterInvited, Handler
    <3>2. \A u \in Users \ hs[h].moved : hs[h].user \in {None, u} =>
              (u \in seen <=> member[u] # None \/ Pending(u) # {})
      BY <1>0, <3>1 DEF Good
    <3> HIDE DEF seen
    <3> QED BY <3>1, <3>2
  <2>3. CASE DashboardProjects(h)
    <3> DEFINE seen == {u \in {hs[h].user} : member[u] # None}
    <3>1. Move(h, [hs[h] EXCEPT !.pc = "invited", !.seen = seen]) /\ hs[h].user \in Users
      BY <1>0, <2>3 DEF DashboardProjects, Good
    <3>2. seen \in SUBSET Users /\ \A u \in Users : hs[h].user \in {None, u} =>
            (u \in seen <=> member[u] # None)
      BY <3>1, NoneIsNobody
    <3> HIDE DEF seen
    <3> QED BY <3>1, <3>2
  <2>4. CASE DashboardInvites(h)
    <3> DEFINE seen == hs[h].seen \cup {u \in {hs[h].user} : Pending(u) # {}}
    <3>1. /\ hs[h].pc = "invited" /\ hs[h].user \in Users /\ hs[h].user # None
          /\ seen \in SUBSET Users
          /\ Move(h, [hs[h] EXCEPT !.pc = "listed", !.seen = seen])
      BY <1>0, <2>4 DEF DashboardInvites, Handler
    <3>2. \A u \in Users \ hs[h].moved : hs[h].user \in {None, u} =>
              (u \in seen <=> member[u] # None \/ Pending(u) # {})
      BY <1>0, <3>1 DEF Good
    <3> HIDE DEF seen
    <3> QED BY <3>1, <3>2
  <2> QED BY <2>1, <2>2, <2>3, <2>4
<1> DEFINE r == [hs[h] EXCEPT !.pc = pc, !.seen = seen]
<1>2. r \in Handler /\ r.pc = pc /\ r.seen = seen /\ r.rows = {} /\ ~r.upsert
      /\ r.user = hs[h].user /\ r.moved = hs[h].moved
  BY <1>0, <1>1 DEF Handler
<1>3. Move(h, r)
  BY <1>1
<1> HIDE DEF r
<1>4. Good(r)
  BY <1>1, <1>2 DEF Good
<1> QED BY <1>0, <1>1, <1>2, <1>3, <1>4, ReadKeeps

\* Answers, failures and the clock.
LEMMA EndingKeeps ==
  ASSUME MembershipInv,
         \/ \E h \in Handlers : AnswerRead(h) \/ DeadlockVictim(h) \/ RequestFails(h)
         \/ Tick \/ UNCHANGED vars
  PROVE  MembershipInv'
<1>1. ASSUME NEW h \in Handlers, AnswerRead(h) \/ DeadlockVictim(h) \/ RequestFails(h)
      PROVE  MembershipInv'
  BY <1>1, OfOne, IdleType, IdleGood, ReadKeeps DEF AnswerRead, DeadlockVictim, RequestFails
<1>2. CASE Tick \/ UNCHANGED vars
  <2>1. UNCHANGED <<project, member, invites, hs, overtaken>> /\ now' \in Nat /\ asked' \in Nat
    BY <1>2 DEF MembershipInv, TypeOK, Tick, vars
  <2>2. TypeOK'
    BY <2>1 DEF MembershipInv, TypeOK
  <2>3. (/\ NothingSurvivesDelete /\ FounderKeepsRole /\ SinglePending
         /\ FounderNotInvited /\ JoinExplained /\ LocksExclusive)'
    BY <2>1 DEF MembershipInv, NothingSurvivesDelete, FounderKeepsRole, SinglePending, Pending,
         FounderNotInvited, JoinExplained, Ids, LocksExclusive
  <2>4. \A h \in Handlers : Good(hs[h])'
    BY <2>1 DEF MembershipInv, Good, Ids, Pending
  <2> QED BY <2>2, <2>3, <2>4 DEF MembershipInv
<1> QED BY <1>1, <1>2

\* A request commits and holds nothing any more.
LEMMA CommitKeeps ==
  ASSUME MembershipInv, NEW h \in Handlers, NEW r \in Handler, NEW users \in SUBSET Users,
         r.pc \in {"idle", "sweep", "members"}, r.rows = {}, ~r.upsert,
         r.pc = "sweep" => r.todo # <<>> /\ r.role \in Roles,
         MoveTelling(h, r, users),
         project' \in BOOLEAN, member' \in [Users -> Roles \cup {None}],
         invites' \in Seq(Invite), now' \in Nat, asked' \in Nat, overtaken' \subseteq Nat,
         (/\ NothingSurvivesDelete /\ FounderKeepsRole /\ SinglePending
          /\ FounderNotInvited /\ JoinExplained)',
         project' => project,
         Len(invites) <= Len(invites'),
         \A i \in Ids : /\ invites'[i].to = invites[i].to /\ invites'[i].role = invites[i].role
                        /\ invites'[i].status = "pending" => invites[i].status = "pending",
         \A i \in LockedRows(h) : invites'[i].status = "pending",
         overtaken \subseteq overtaken',
         \A u \in Users : project' /\ member[u] # None => member'[u] # None,
         \A u \in Users \ users : /\ member'[u] = None <=> member[u] = None
                                  /\ Pending(u)' = {} <=> Pending(u) = {},
         \A g \in Handlers \ {h} :
            /\ hs[g].pc \in {"commit", "joined"} => project'
            /\ project' /\ hs[g].pc = "mark" /\ invites[hs[g].id].status = "pending" =>
                  hs[g].id \in overtaken' \/ invites'[hs[g].id].status = "pending"
            /\ \A u \in Users : hs[g].pc = "commit" /\ hs[g].user = u => Pending(u)' \subseteq Pending(u)
  PROVE  MembershipInv'
<1>1. TypeOK
  BY DEF MembershipInv
<1>2. /\ hs' \in [Handlers -> Handler]
      /\ hs'[h] = r
      /\ \A g \in Handlers \ {h} :
           /\ hs'[g] = IF hs[g].pc \in {"invited", "listed"}
                       THEN [hs[g] EXCEPT !.moved = @ \cup users] ELSE hs[g]
           /\ hs'[g].pc = hs[g].pc /\ hs'[g].rows = hs[g].rows /\ hs'[g].user = hs[g].user
  <2>1. r.pc \notin {"invited", "listed"} /\ MoveTelling(h, r, users)
    OBVIOUS
  <2> QED BY <1>1, <2>1, TellingMoves
<1>3. TypeOK'
  BY <1>2 DEF TypeOK
<1>4. LocksExclusive'
  BY <1>2 DEF MembershipInv, LocksExclusive
<1>5. Good(hs[h])'
  BY <1>2 DEF Good
<1>6. ASSUME NEW g \in Handlers \ {h} PROVE Good(hs[g])'
  <2>1. Good(hs[g]) /\ hs[g].rows \subseteq LockedRows(h)
    BY DEF MembershipInv, LockedRows
  <2>2. Len(invites') \in Nat
    OBVIOUS
  <2> QED BY <1>1, <1>2, <2>1, <2>2, OthersStayGood
<1> QED BY <1>3, <1>4, <1>5, <1>6 DEF MembershipInv

\* Pending invites end: sweeps, declines and cancellations.
LEMMA EndingInvitesKeeps ==
  ASSUME MembershipInv, NEW h \in Handlers, NEW rows \in SUBSET Ids,
         NEW st \in {"cancelled", "declined", "expired"}, NEW r \in Handler,
         r.pc \in {"idle", "members"}, r.rows = {}, ~r.upsert,
         \A i \in rows : invites[i].status = "pending",
         rows \cap LockedRows(h) = {},
         invites' = SetStatus(rows, st),
         overtaken' = overtaken \cup (rows \cap Accepting),
         MoveTelling(h, r, {invites[i].to : i \in rows}),
         UNCHANGED <<project, member, now>>, asked' \in Nat
  PROVE  MembershipInv'
<1> DEFINE users == {invites[i].to : i \in rows}
<1>1. TypeOK
  BY DEF MembershipInv
<1>2. /\ invites' \in Seq(Invite) /\ Len(invites') = Len(invites)
      /\ \A i \in Ids : /\ invites'[i].to = invites[i].to /\ invites'[i].role = invites[i].role
                        /\ invites'[i].status = IF i \in rows THEN st ELSE invites[i].status
  BY <1>1, SetStatusFacts DEF Ended
<1>3. Ids' = Ids
  BY <1>2 DEF Ids
<1>4. users \in SUBSET Users /\ \A i \in rows : invites[i].to \in users
  BY <1>1, InviteTypes
<1>5. \A u \in Users : Pending(u)' = Pending(u) \ rows
  BY <1>2, <1>3 DEF Pending
<1>6. /\ overtaken' \subseteq Nat /\ overtaken \subseteq overtaken'
      /\ member' \in [Users -> Roles \cup {None}]
      /\ project' \in BOOLEAN /\ now' \in Nat /\ Len(invites) <= Len(invites')
  <2>1. Len(invites) \in Nat /\ overtaken \subseteq Nat /\ rows \subseteq Nat
    BY <1>1 DEF TypeOK, Ids
  <2>2. member' = member /\ project' = project /\ now' = now
    OBVIOUS
  <2>3. member \in [Users -> Roles \cup {None}] /\ project \in BOOLEAN /\ now \in Nat
    BY <1>1 DEF TypeOK
  <2>4. overtaken' \subseteq Nat /\ overtaken \subseteq overtaken'
    BY <2>1
  <2>5. Len(invites) <= Len(invites')
    BY <1>2, <2>1
  <2> QED BY <2>2, <2>3, <2>4, <2>5
<1>7. NothingSurvivesDelete'
  BY <1>2, <1>3 DEF MembershipInv, NothingSurvivesDelete
<1>8. FounderKeepsRole' /\ FounderNotInvited' /\ SinglePending'
  BY <1>2, <1>3, <1>5 DEF MembershipInv, FounderKeepsRole, FounderNotInvited, SinglePending
<1>9. JoinExplained'
  BY <1>2, <1>3 DEF MembershipInv, JoinExplained
<1>10. \A i \in LockedRows(h) : invites'[i].status = "pending"
  BY <1>2 DEF MembershipInv, LockedRows, Good
<1>11. \A u \in Users \ users : Pending(u)' = Pending(u)
  BY <1>4, <1>5 DEF Pending
<1>12. ASSUME NEW g \in Handlers \ {h}
       PROVE  /\ hs[g].pc \in {"commit", "joined"} => project'
              /\ project' /\ hs[g].pc = "mark" /\ invites[hs[g].id].status = "pending" =>
                    hs[g].id \in overtaken' \/ invites'[hs[g].id].status = "pending"
              /\ \A u \in Users : hs[g].pc = "commit" /\ hs[g].user = u => Pending(u)' \subseteq Pending(u)
  <2>1. Good(hs[g])
    BY DEF MembershipInv
  <2>2. hs[g].pc = "mark" => hs[g].id \in Accepting /\ hs[g].id \in Ids
    BY <2>1 DEF Accepting, Good
  <2>4. hs[g].pc \in {"commit", "joined"} => project'
    BY <2>1 DEF Good
  <2>5. ASSUME hs[g].pc = "mark", invites[hs[g].id].status = "pending"
        PROVE  hs[g].id \in overtaken' \/ invites'[hs[g].id].status = "pending"
    BY <1>2, <2>2, <2>5
  <2>6. \A u \in Users : hs[g].pc = "commit" /\ hs[g].user = u => Pending(u)' \subseteq Pending(u)
    BY <1>5
  <2> QED BY <2>4, <2>5, <2>6
<1> HIDE DEF users
<1>13. MoveTelling(h, r, users)
  BY DEF users
<1> QED BY <1>2, <1>4, <1>6, <1>7, <1>8, <1>9, <1>10, <1>11, <1>12, <1>13, CommitKeeps

LEMMA CancelKeeps ==
  ASSUME MembershipInv, NEW h \in Handlers, CancelInvite(h) \/ DeclineInvite(h)
  PROVE  MembershipInv'
<1>1. asked' \in Nat /\ Idle \in Handler /\ Idle.pc = "idle" /\ Idle.rows = {} /\ ~Idle.upsert
  BY OfOne, IdleType DEF CancelInvite, DeclineInvite
<1>2. CASE CancelInvite(h)
  <2> DEFINE rows == Pending(hs[h].user)
  <2>1. rows \in SUBSET Ids /\ \A i \in rows : invites[i].status = "pending"
    BY DEF Pending
  <2>2. /\ rows \cap LockedRows(h) = {} /\ invites' = SetStatus(rows, "cancelled")
        /\ overtaken' = overtaken \cup (rows \cap Accepting)
        /\ MoveTelling(h, Idle, {invites[i].to : i \in rows})
        /\ UNCHANGED <<project, member, now>>
    BY <1>2 DEF CancelInvite
  <2> HIDE DEF rows
  <2> QED BY <1>1, <2>1, <2>2, EndingInvitesKeeps
<1>3. CASE DeclineInvite(h)
  <2> DEFINE rows == Marked(hs[h].id)
  <2>1. rows \in SUBSET Ids /\ \A i \in rows : invites[i].status = "pending"
    BY DEF Marked
  <2>2. /\ rows \cap LockedRows(h) = {} /\ invites' = SetStatus(rows, "declined")
        /\ overtaken' = overtaken \cup (rows \cap Accepting)
        /\ MoveTelling(h, Idle, {invites[i].to : i \in rows})
        /\ UNCHANGED <<project, member, now>>
    BY <1>3 DEF DeclineInvite, Marked
  <2> HIDE DEF rows
  <2> QED BY <1>1, <2>1, <2>2, EndingInvitesKeeps
<1> QED BY <1>2, <1>3

LEMMA RosterKeeps ==
  ASSUME MembershipInv, NEW h \in Handlers, StartRoster(h)
  PROVE  MembershipInv'
<1> DEFINE r == [Idle EXCEPT !.pc = "members"]
<1>1. r \in Handler /\ r.pc = "members" /\ r.rows = {} /\ ~r.upsert
  BY IdleType DEF Handler
<1>2. PICK rows \in {Stale, {}} :
        /\ rows \cap LockedRows(h) = {}
        /\ invites' = SetStatus(rows, "expired")
        /\ overtaken' = overtaken \cup (rows \cap Accepting)
        /\ MoveTelling(h, r, {invites[i].to : i \in rows})
  BY DEF StartRoster
<1>3. rows \in SUBSET Ids /\ \A i \in rows : invites[i].status = "pending"
  BY DEF Stale
<1>4. UNCHANGED <<project, member, now>> /\ asked' \in Nat
  BY AskCounts DEF StartRoster
<1> HIDE DEF r
<1> QED BY <1>1, <1>2, <1>3, <1>4, EndingInvitesKeeps

LEMMA CommitInviteKeeps ==
  ASSUME MembershipInv, NEW h \in Handlers, CommitInvite(h)
  PROVE  MembershipInv'
<1> DEFINE u0 == hs[h].user
           rows == hs[h].rows
           rec == [to |-> u0, role |-> hs[h].role, status |-> "pending",
                   sent |-> hs[h].sent, expires |-> hs[h].sent + TTL]
           n == Len(invites)
           users == {u0} \cup {invites[i].to : i \in rows}
<1>1. /\ TypeOK /\ hs[h] \in Handler /\ Good(hs[h]) /\ now' \in Nat /\ asked' \in Nat
      /\ hs[h].pc = "commit" /\ UNCHANGED <<project, member, now, asked>>
      /\ invites' = Append(SetStatus(rows, "expired"), rec)
      /\ overtaken' = overtaken \cup (rows \cap Accepting)
      /\ MoveTelling(h, NextEntry(h), users)
  BY OfOne DEF CommitInvite
<1>2. /\ project /\ u0 \in Users /\ u0 # Founder /\ hs[h].role \in Roles /\ hs[h].todo # <<>>
      /\ rows \in SUBSET Ids /\ \A i \in rows : invites[i].status = "pending"
      /\ Pending(u0) \subseteq rows
  BY <1>1 DEF Good
<1>3. rec \in Invite /\ rec.to = u0 /\ rec.status = "pending"
  BY <1>1, <1>2, BoundsAreNaturals DEF Handler, Invite
<1>4. /\ SetStatus(rows, "expired") \in Seq(Invite) /\ Len(SetStatus(rows, "expired")) = n
      /\ \A i \in Ids : /\ SetStatus(rows, "expired")[i].to = invites[i].to
                        /\ SetStatus(rows, "expired")[i].role = invites[i].role
                        /\ SetStatus(rows, "expired")[i].status =
                              IF i \in rows THEN "expired" ELSE invites[i].status
  BY <1>1, <1>2, SetStatusFacts DEF Ended
<1>5. n \in Nat /\ Ids = 1..n
  BY <1>1 DEF TypeOK, Ids
<1> HIDE DEF rec
<1>6. /\ invites' \in Seq(Invite) /\ Len(invites') = n + 1
      /\ invites'[n + 1] = rec
      /\ \A i \in Ids : /\ invites'[i].to = invites[i].to /\ invites'[i].role = invites[i].role
                        /\ invites'[i].status = IF i \in rows THEN "expired" ELSE invites[i].status
  BY <1>1, <1>3, <1>4, <1>5
<1>7. Ids' = Ids \cup {n + 1} /\ n + 1 \notin Ids
  BY <1>5, <1>6 DEF Ids
<1>8. \A u \in Users : Pending(u)' = IF u = u0 THEN {n + 1} ELSE Pending(u) \ rows
  <2>1. \A u \in Users, i \in Ids' : i \in Pending(u)' <=>
            IF i = n + 1 THEN u = u0 ELSE i \in Pending(u) \ rows
    BY <1>3, <1>6, <1>7 DEF Pending
  <2>2. \A u \in Users : Pending(u)' \subseteq Ids' /\ Pending(u) \subseteq Ids
    BY DEF Pending
  <2> QED BY <1>2, <1>7, <2>1, <2>2
<1>9. users \in SUBSET Users
  BY <1>1, <1>2, InviteTypes
<1>10. NothingSurvivesDelete' /\ FounderKeepsRole'
  BY <1>1, <1>2 DEF MembershipInv, NothingSurvivesDelete, FounderKeepsRole
<1>11. FounderNotInvited'
  BY <1>2, <1>3, <1>6, <1>7 DEF MembershipInv, FounderNotInvited
<1>12. SinglePending'
  BY <1>8 DEF MembershipInv, SinglePending
<1>13. JoinExplained'
  <2> SUFFICES ASSUME NEW u \in Users \ {Founder}, member'[u] # None
               PROVE  \E i \in Ids' : /\ invites'[i].to = u
                                      /\ invites'[i].status = "accepted" \/ i \in overtaken'
    BY DEF JoinExplained
  <2>1. member[u] # None
    BY <1>1
  <2>2. PICK i \in Ids : /\ invites[i].to = u
                         /\ invites[i].status = "accepted" \/ i \in overtaken
    BY <1>2, <2>1 DEF MembershipInv, JoinExplained
  <2>3. i \in Ids' /\ invites'[i].to = u
    BY <1>6, <1>7, <2>2
  <2>4. invites[i].status = "accepted" => invites'[i].status = "accepted"
    BY <1>2, <1>6
  <2>5. i \in overtaken => i \in overtaken'
    BY <1>1
  <2> QED BY <2>2, <2>3, <2>4, <2>5
<1>14. \A i \in LockedRows(h) : invites'[i].status = "pending"
  <2>1. \A i \in LockedRows(h) : i \in Ids /\ i \notin rows /\ invites[i].status = "pending"
    BY DEF MembershipInv, LockedRows, LocksExclusive, Good
  <2> QED BY <1>6, <2>1
<1>15. \A u \in Users \ users : Pending(u)' = Pending(u)
  BY <1>8 DEF Pending
<1>16. ASSUME NEW g \in Handlers \ {h}
       PROVE  /\ hs[g].pc \in {"commit", "joined"} => project'
              /\ project' /\ hs[g].pc = "mark" /\ invites[hs[g].id].status = "pending" =>
                    hs[g].id \in overtaken' \/ invites'[hs[g].id].status = "pending"
              /\ \A u \in Users : hs[g].pc = "commit" /\ hs[g].user = u => Pending(u)' \subseteq Pending(u)
  <2>1. Good(hs[g])
    BY DEF MembershipInv
  <2>2. hs[g].pc \in {"commit", "joined"} => project'
    BY <1>1, <1>2
  <2>3. ASSUME hs[g].pc = "mark", invites[hs[g].id].status = "pending"
        PROVE  hs[g].id \in overtaken' \/ invites'[hs[g].id].status = "pending"
    <3>1. hs[g].id \in Accepting /\ hs[g].id \in Ids
      BY <2>1, <2>3 DEF Accepting, Good
    <3> QED BY <1>1, <1>6, <2>3, <3>1
  <2>4. hs[g].pc = "commit" => hs[g].user # u0
    BY <1>1 DEF MembershipInv, LocksExclusive
  <2>5. \A u \in Users : hs[g].pc = "commit" /\ hs[g].user = u => Pending(u)' \subseteq Pending(u)
    BY <1>8, <2>4
  <2> QED BY <2>2, <2>3, <2>5
<1>17. LET r == NextEntry(h) IN
         /\ r \in Handler /\ r.pc \in {"idle", "sweep"} /\ r.rows = {} /\ ~r.upsert
         /\ r.pc = "sweep" => r.todo # <<>> /\ r.role \in Roles
  BY <1>1, <1>2, NextEntryFacts
<1>18. /\ Len(invites) <= Len(invites')
       /\ overtaken' \subseteq Nat /\ overtaken \subseteq overtaken'
  <2>1. rows \subseteq Nat
    BY <1>2, <1>5
  <2>2. overtaken \subseteq Nat
    BY <1>1 DEF TypeOK
  <2>3. overtaken' \subseteq Nat /\ overtaken \subseteq overtaken'
    BY <1>1, <2>1, <2>2
  <2>4. Len(invites) <= Len(invites')
    BY <1>5, <1>6
  <2> QED BY <2>3, <2>4
<1>19. /\ member' \in [Users -> Roles \cup {None}] /\ project' \in BOOLEAN
       /\ project' = project /\ member' = member
  BY <1>1 DEF TypeOK
<1> DEFINE r == NextEntry(h)
<1>20. /\ MoveTelling(h, r, users)
       /\ r \in Handler /\ r.pc \in {"idle", "sweep", "members"} /\ r.rows = {} /\ ~r.upsert
       /\ r.pc = "sweep" => r.todo # <<>> /\ r.role \in Roles
  BY <1>1, <1>17
<1>21. /\ project' => project
       /\ \A u \in Users : project' /\ member[u] # None => member'[u] # None
       /\ \A u \in Users \ users : /\ member'[u] = None <=> member[u] = None
                                   /\ Pending(u)' = {} <=> Pending(u) = {}
  BY <1>15, <1>19
<1>22. (/\ NothingSurvivesDelete /\ FounderKeepsRole /\ SinglePending
        /\ FounderNotInvited /\ JoinExplained)'
  BY <1>10, <1>11, <1>12, <1>13
<1>23. now' \in Nat /\ asked' \in Nat /\ invites' \in Seq(Invite)
       /\ \A i \in Ids : /\ invites'[i].to = invites[i].to /\ invites'[i].role = invites[i].role
                         /\ invites'[i].status = "pending" => invites[i].status = "pending"
  BY <1>1, <1>6
<1> HIDE DEF users, rows, n, u0, r
<1> QED BY <1>9, <1>14, <1>16, <1>18, <1>19, <1>20, <1>21, <1>22, <1>23, CommitKeeps

LEMMA CommitAcceptKeeps ==
  ASSUME MembershipInv, NEW h \in Handlers, CommitAccept(h)
  PROVE  MembershipInv'
<1> DEFINE u0 == hs[h].user
           id == hs[h].id
           rows == hs[h].rows
           others == {hs[g].id : g \in {g \in Handlers \ {h} : hs[g].pc \in {"mark", "join", "joined"}}}
<1>1. /\ TypeOK /\ hs[h] \in Handler /\ Good(hs[h]) /\ now' \in Nat /\ asked' \in Nat
      /\ hs[h].pc = "joined" /\ UNCHANGED <<project, now, asked>>
      /\ member' = [member EXCEPT ![u0] = hs[h].role]
      /\ invites' = SetStatus(rows, "accepted")
      /\ overtaken' = overtaken \cup (rows \cap others)
      /\ MoveTelling(h, Idle, {u0})
  BY OfOne DEF CommitAccept
<1>2. /\ project /\ hs[h].role \in Roles
      /\ id \in Ids /\ invites[id].to = u0 /\ (id \in overtaken \/ id \in rows)
      /\ rows \in SUBSET Ids /\ rows \subseteq {id}
      /\ \A i \in rows : invites[i].status = "pending"
  BY <1>1 DEF Good
<1>3. u0 \in Users /\ u0 # Founder
  BY <1>1, <1>2, InviteTypes DEF MembershipInv, FounderNotInvited
<1>4. /\ invites' \in Seq(Invite) /\ Len(invites') = Len(invites)
      /\ \A i \in Ids : /\ invites'[i].to = invites[i].to /\ invites'[i].role = invites[i].role
                        /\ invites'[i].status = IF i \in rows THEN "accepted" ELSE invites[i].status
  BY <1>1, <1>2, SetStatusFacts DEF Ended
<1>5. Ids' = Ids
  BY <1>4 DEF Ids
<1>6. \A u \in Users : Pending(u)' = Pending(u) \ rows
  BY <1>4, <1>5 DEF Pending
<1>7. /\ member' \in [Users -> Roles \cup {None}] /\ member'[u0] # None
      /\ \A u \in Users \ {u0} : member'[u] = member[u]
  <2>1. member \in [Users -> Roles \cup {None}]
    BY <1>1 DEF TypeOK
  <2> QED BY <1>1, <1>2, <1>3, <2>1, NoneIsNobody
<1>8. NothingSurvivesDelete' /\ FounderKeepsRole' /\ FounderNotInvited' /\ SinglePending'
  <2>1. project' /\ member'[Founder] = member[Founder]
    BY <1>1, <1>2, <1>3, <1>7, FounderRegistered
  <2> QED BY <1>2, <1>4, <1>5, <1>6, <2>1 DEF MembershipInv, NothingSurvivesDelete,
             FounderKeepsRole, FounderNotInvited, SinglePending
<1>9. JoinExplained'
  <2> SUFFICES ASSUME NEW u \in Users \ {Founder}, member'[u] # None
               PROVE  \E i \in Ids : /\ invites'[i].to = u
                                     /\ invites'[i].status = "accepted" \/ i \in overtaken'
    BY <1>5 DEF JoinExplained
  <2>1. CASE u = u0
    BY <1>1, <1>2, <1>4, <2>1
  <2>2. CASE u # u0
    <3>1. PICK i \in Ids : /\ invites[i].to = u
                           /\ invites[i].status = "accepted" \/ i \in overtaken
      BY <1>2, <1>7, <2>2 DEF MembershipInv, JoinExplained
    <3> QED BY <1>1, <1>4, <3>1
  <2> QED BY <2>1, <2>2
<1>10. \A i \in LockedRows(h) : invites'[i].status = "pending"
  <2>1. \A i \in LockedRows(h) : i \in Ids /\ i \notin rows /\ invites[i].status = "pending"
    BY DEF MembershipInv, LockedRows, LocksExclusive, Good
  <2> QED BY <1>4, <2>1
<1>11. \A u \in Users \ {u0} : Pending(u)' = Pending(u)
  BY <1>2, <1>6 DEF Pending
<1>12. ASSUME NEW g \in Handlers \ {h}
       PROVE  /\ hs[g].pc \in {"commit", "joined"} => project'
              /\ project' /\ hs[g].pc = "mark" /\ invites[hs[g].id].status = "pending" =>
                    hs[g].id \in overtaken' \/ invites'[hs[g].id].status = "pending"
              /\ \A u \in Users : hs[g].pc = "commit" /\ hs[g].user = u => Pending(u)' \subseteq Pending(u)
  <2>1. ASSUME hs[g].pc = "mark", invites[hs[g].id].status = "pending"
        PROVE  hs[g].id \in overtaken' \/ invites'[hs[g].id].status = "pending"
    <3>1. Good(hs[g])
      BY DEF MembershipInv
    <3>2. hs[g].id \in others /\ hs[g].id \in Ids
      BY <2>1, <3>1 DEF Good
    <3> QED BY <1>1, <1>4, <2>1, <3>2
  <2> QED BY <1>1, <1>2, <1>6, <2>1
<1>13. /\ Len(invites) <= Len(invites')
       /\ overtaken' \subseteq Nat /\ overtaken \subseteq overtaken'
  <2>1. rows \subseteq Nat /\ Len(invites) \in Nat
    BY <1>1, <1>2 DEF Ids, TypeOK
  <2>2. overtaken \subseteq Nat
    BY <1>1 DEF TypeOK
  <2>3. overtaken' \subseteq Nat /\ overtaken \subseteq overtaken'
    BY <1>1, <2>1, <2>2
  <2>4. Len(invites) <= Len(invites')
    BY <1>4, <2>1
  <2> QED BY <2>3, <2>4
<1>14. project' \in BOOLEAN /\ project' = project /\ {u0} \in SUBSET Users
  BY <1>1, <1>3 DEF TypeOK
<1> DEFINE users == {u0}
<1>15. /\ project' => project
       /\ \A u \in Users : project' /\ member[u] # None => member'[u] # None
       /\ \A u \in Users \ users : /\ member'[u] = None <=> member[u] = None
                                   /\ Pending(u)' = {} <=> Pending(u) = {}
  BY <1>7, <1>11, <1>14
<1>16. (/\ NothingSurvivesDelete /\ FounderKeepsRole /\ SinglePending
        /\ FounderNotInvited /\ JoinExplained)'
  BY <1>8, <1>9
<1>17. now' \in Nat /\ asked' \in Nat /\ invites' \in Seq(Invite)
       /\ member' \in [Users -> Roles \cup {None}]
       /\ \A i \in Ids : /\ invites'[i].to = invites[i].to /\ invites'[i].role = invites[i].role
                         /\ invites'[i].status = "pending" => invites[i].status = "pending"
  BY <1>1, <1>4, <1>7
<1>18. MoveTelling(h, Idle, users) /\ users \in SUBSET Users
  BY <1>1, <1>14
<1> HIDE DEF u0, rows, id, others, users
<1> QED BY <1>10, <1>12, <1>13, <1>14, <1>15, <1>16, <1>17, <1>18, IdleType, CommitKeeps

LEMMA UpdateMemberKeeps ==
  ASSUME MembershipInv, NEW h \in Handlers, UpdateMember(h)
  PROVE  MembershipInv'
<1> DEFINE users == {}
           u0 == hs[h].user
<1>1. /\ TypeOK /\ hs[h] \in Handler /\ Good(hs[h]) /\ now' \in Nat /\ asked' \in Nat
      /\ hs[h].pc = "update" /\ UNCHANGED <<project, invites, now, asked, overtaken>>
      /\ member' = [member EXCEPT ![u0] = IF project THEN hs[h].role ELSE @]
      /\ Move(h, Idle)
  BY OfOne DEF UpdateMember
<1>2. /\ u0 \in Users /\ u0 # Founder /\ hs[h].role \in Roles
      /\ project => member[u0] # None
  BY <1>1 DEF Good
<1>3. /\ member' \in [Users -> Roles \cup {None}]
      /\ \A u \in Users : member'[u] = None <=> member[u] = None
      /\ member'[Founder] = member[Founder]
      /\ ~project => member' = member
  <2>1. member \in [Users -> Roles \cup {None}]
    BY <1>1 DEF TypeOK
  <2> QED BY <1>1, <1>2, <2>1, NoneIsNobody, FounderRegistered
<1>4. MoveTelling(h, Idle, users)
  <2>1. hs \in [Handlers -> Handler] /\ hs' = [hs EXCEPT ![h] = Idle]
    BY <1>1 DEF TypeOK, Move
  <2>2. \A g \in Handlers : [hs[g] EXCEPT !.moved = @ \cup users] = hs[g]
    BY <2>1 DEF Handler
  <2> QED BY <2>1, <2>2, IdleType DEF MoveTelling
<1>5. \A u \in Users : Pending(u)' = Pending(u)
  BY <1>1 DEF Pending, Ids
<1>6. Ids' = Ids
  BY <1>1 DEF Ids
<1>7. FounderKeepsRole' /\ FounderNotInvited' /\ SinglePending'
  BY <1>1, <1>3, <1>5, <1>6 DEF MembershipInv, FounderKeepsRole, FounderNotInvited, SinglePending
<1>8. NothingSurvivesDelete'
  BY <1>1, <1>3, <1>6 DEF MembershipInv, NothingSurvivesDelete
<1>9. JoinExplained'
  BY <1>1, <1>3, <1>6 DEF MembershipInv, JoinExplained
<1>10. (/\ NothingSurvivesDelete /\ FounderKeepsRole /\ SinglePending
        /\ FounderNotInvited /\ JoinExplained)'
  BY <1>7, <1>8, <1>9
<1>11. \A g \in Handlers \ {h} :
            /\ hs[g].pc \in {"commit", "joined"} => project'
            /\ project' /\ hs[g].pc = "mark" /\ invites[hs[g].id].status = "pending" =>
                  hs[g].id \in overtaken' \/ invites'[hs[g].id].status = "pending"
            /\ \A u \in Users : hs[g].pc = "commit" /\ hs[g].user = u => Pending(u)' \subseteq Pending(u)
  <2> SUFFICES ASSUME NEW g \in Handlers \ {h}
               PROVE  /\ hs[g].pc \in {"commit", "joined"} => project'
                      /\ invites'[hs[g].id].status = invites[hs[g].id].status
                      /\ \A u \in Users : Pending(u)' \subseteq Pending(u)
    OBVIOUS
  <2>1. Good(hs[g])
    BY DEF MembershipInv
  <2> QED BY <1>1, <1>5, <2>1 DEF Good
<1>12. \A i \in LockedRows(h) : invites'[i].status = "pending"
  BY <1>1 DEF MembershipInv, LockedRows, Good
<1>13. /\ project' \in BOOLEAN /\ invites' \in Seq(Invite) /\ overtaken' \subseteq Nat
       /\ Len(invites) <= Len(invites') /\ overtaken \subseteq overtaken'
       /\ \A i \in Ids : /\ invites'[i].to = invites[i].to /\ invites'[i].role = invites[i].role
                         /\ invites'[i].status = "pending" => invites[i].status = "pending"
       /\ project' => project
  BY <1>1 DEF TypeOK
<1>14. /\ \A u \in Users : project' /\ member[u] # None => member'[u] # None
       /\ \A u \in Users \ users : /\ member'[u] = None <=> member[u] = None
                                   /\ Pending(u)' = {} <=> Pending(u) = {}
  BY <1>3, <1>5
<1>15. users \in SUBSET Users
  OBVIOUS
<1> HIDE DEF users, u0
<1> QED BY <1>1, <1>3, <1>4, <1>10, <1>11, <1>12, <1>13, <1>14, <1>15, IdleType, CommitKeeps

LEMMA CascadeKeeps ==
  ASSUME MembershipInv, NEW h \in Handlers, Cascade(h)
  PROVE  MembershipInv'
<1>1. /\ TypeOK /\ now' \in Nat /\ asked' \in Nat
      /\ LockedRows(h) = {} /\ ~Referenced(h)
      /\ project' = FALSE /\ member' = [u \in Users |-> None]
      /\ invites' = SetStatus(Ids, "deleted") /\ overtaken' = overtaken
      /\ MoveTelling(h, Idle, Users)
  BY OfOne DEF Cascade
<1>2. /\ invites' \in Seq(Invite) /\ Len(invites') = Len(invites)
      /\ \A i \in Ids : invites'[i].to = invites[i].to /\ invites'[i].role = invites[i].role /\ invites'[i].status = "deleted"
  BY <1>1, SetStatusFacts
<1>3. Ids' = Ids
  BY <1>2 DEF Ids
<1>4. \A u \in Users : Pending(u)' = {}
  BY <1>2, <1>3 DEF Pending
<1>5. (/\ NothingSurvivesDelete /\ FounderKeepsRole /\ SinglePending
       /\ FounderNotInvited /\ JoinExplained)'
  <2>1. NothingSurvivesDelete'
    BY <1>1, <1>2, <1>3 DEF NothingSurvivesDelete
  <2>2. FounderKeepsRole' /\ JoinExplained' /\ SinglePending'
    BY <1>1, <1>4 DEF FounderKeepsRole, JoinExplained, SinglePending
  <2>3. FounderNotInvited'
    BY <1>2, <1>3 DEF MembershipInv, FounderNotInvited
  <2> QED BY <2>1, <2>2, <2>3
<1>6. /\ project' \in BOOLEAN /\ member' \in [Users -> Roles \cup {None}]
      /\ overtaken' \subseteq Nat /\ Len(invites) <= Len(invites')
      /\ overtaken \subseteq overtaken'
  <2>1. Len(invites) \in Nat /\ overtaken \subseteq Nat
    BY <1>1 DEF TypeOK
  <2>2. Len(invites) <= Len(invites')
    BY <1>2, <2>1
  <2>3. project' \in BOOLEAN
    BY <1>1
  <2>4. member' \in [Users -> Roles \cup {None}]
    BY <1>1
  <2> QED BY <1>1, <2>1, <2>2, <2>3, <2>4
<1>7. \A g \in Handlers \ {h} : hs[g].pc \notin {"commit", "joined"}
  <2>1. \A g \in Handlers \ {h} : hs[g].pc # "commit" /\ ~hs[g].upsert
    BY <1>1 DEF Referenced
  <2>2. \A g \in Handlers : hs[g].upsert <=> hs[g].pc = "joined"
    BY DEF MembershipInv, Good
  <2> QED BY <2>1, <2>2
<1> DEFINE users == Users
<1>8. users \in SUBSET Users /\ Users \ users = {} /\ MoveTelling(h, Idle, users)
  BY <1>1
<1>9. \A i \in Ids : invites'[i].to = invites[i].to /\ invites'[i].role = invites[i].role
  BY <1>2
<1>10. \A g \in Handlers \ {h} :
            /\ hs[g].pc \in {"commit", "joined"} => project'
            /\ project' /\ hs[g].pc = "mark" /\ invites[hs[g].id].status = "pending" =>
                  hs[g].id \in overtaken' \/ invites'[hs[g].id].status = "pending"
            /\ \A u \in Users : hs[g].pc = "commit" /\ hs[g].user = u => Pending(u)' \subseteq Pending(u)
  BY <1>1, <1>7
<1>11. /\ \A i \in LockedRows(h) : invites'[i].status = "pending"
       /\ project' => project
       /\ \A u \in Users : project' /\ member[u] # None => member'[u] # None
       /\ \A u \in Users \ users : /\ member'[u] = None <=> member[u] = None
                                   /\ Pending(u)' = {} <=> Pending(u) = {}
  BY <1>1, <1>8
<1> HIDE DEF users
<1> QED BY <1>1, <1>2, <1>5, <1>6, <1>8, <1>9, <1>10, <1>11, IdleType, CommitKeeps

-----------------------------------------------------------------------------
(* The theorems                                                            *)

LEMMA InitKeeps == ASSUME Init PROVE MembershipInv
<1>1. project = TRUE /\ now = 0 /\ asked = 0 /\ overtaken = {}
      /\ hs = [h \in Handlers |-> Idle]
      /\ member = [u \in Users |-> IF u = Founder THEN OwnerRole ELSE None]
  BY DEF Init
<1>2. /\ invites \in Seq(Invite)
      /\ \A i \in Ids : i = 1 /\ invites[i].to \in Users \ {Founder}
  <2>1. CASE invites = <<>>
    BY <2>1 DEF Ids
  <2>2. CASE invites # <<>>
    <3>1. PICK u \in Users \ {Founder}, r \in Roles :
             invites = <<[to |-> u, role |-> r, status |-> "pending", sent |-> 0, expires |-> TTL]>>
      BY <2>2 DEF Init
    <3> DEFINE e == [to |-> u, role |-> r, status |-> "pending", sent |-> 0, expires |-> TTL]
    <3>2. e \in Invite /\ e.to = u
      BY BoundsAreNaturals DEF Invite
    <3> HIDE DEF e
    <3>3. invites = <<e>>
      BY <3>1 DEF e
    <3> QED BY <3>2, <3>3 DEF Ids
  <2> QED BY <2>1, <2>2
<1>3. TypeOK
  BY <1>1, <1>2, IdleType, FounderRegistered DEF TypeOK
<1>4. NothingSurvivesDelete /\ FounderKeepsRole /\ FounderNotInvited
  BY <1>1, <1>2, FounderRegistered DEF NothingSurvivesDelete, FounderKeepsRole, FounderNotInvited
<1>5. SinglePending /\ JoinExplained
  BY <1>1, <1>2 DEF SinglePending, Pending, JoinExplained
<1>6. LocksExclusive /\ \A h \in Handlers : Good(hs[h])
  BY <1>1, IdleType, IdleGood DEF LocksExclusive
<1> QED BY <1>3, <1>4, <1>5, <1>6 DEF MembershipInv

LEMMA NextKeeps == ASSUME MembershipInv, [Next]_vars PROVE MembershipInv'
<1>1. ASSUME NEW h \in Handlers, Start(h) PROVE MembershipInv'
  BY <1>1, StartKeeps, RosterKeeps DEF Start
<1>2. ASSUME NEW h \in Handlers, Step(h) PROVE MembershipInv'
  BY <1>2, InvitingKeeps, AcceptingKeeps, ReadingKeeps, EndingKeeps, CommitInviteKeeps,
     CancelKeeps, CommitAcceptKeeps, UpdateMemberKeeps, CascadeKeeps DEF Step
<1>3. ASSUME NEW h \in Handlers, RequestFails(h) PROVE MembershipInv'
  BY <1>3, EndingKeeps
<1>4. CASE Tick \/ Done \/ UNCHANGED vars
  BY <1>4, EndingKeeps DEF Done
<1> QED BY <1>1, <1>2, <1>3, <1>4 DEF Next

\* The tables of members and invites stay as the code means them to be, and the
\* record of every request agrees with them (team/repo.go, home/repo.go).
THEOREM MembershipInvariant == Spec => []MembershipInv
BY InitKeeps, NextKeeps, PTL DEF Spec

\* Two pending invites that are the same one are counted once.
LEMMA CountsOne ==
  ASSUME TypeOK, SinglePending PROVE OnePendingEach
<1> SUFFICES ASSUME NEW u \in Users PROVE Cardinality(Pending(u)) <= 1
  BY DEF OnePendingEach
<1>1. CASE Pending(u) = {}
  BY <1>1, FS_EmptySet
<1>2. CASE Pending(u) # {}
  <2>1. PICK i \in Pending(u) : TRUE
    BY <1>2
  <2>2. Pending(u) = {i}
    BY <2>1 DEF SinglePending
  <2>3. Cardinality({i}) = 1
    BY FS_Singleton
  <2> QED BY <2>2, <2>3
<1> QED BY <1>1, <1>2

\* However invites, sweeps, answers, role changes and the deletion interleave,
\* an address has one pending invite, the founder keeps the role, and nothing of
\* a deleted project is left (team/repo.go:508-536, home/repo.go:124).
THEOREM MembershipIsSound == Spec => []MembershipSound
<1>1. MembershipInv => MembershipSound
  BY CountsOne DEF MembershipInv, MembershipSound
<1> QED BY <1>1, MembershipInvariant, PTL

\* Nobody but the founder joins without an invite that was accepted, or was
\* ended by another request while being accepted (home/service.go:218).
THEOREM JoinsAreExplained == Spec => []JoinExplained
<1>1. MembershipInv => JoinExplained
  BY DEF MembershipInv
<1> QED BY <1>1, MembershipInvariant, PTL

\* The roster and the dashboard list exactly who belongs or is invited, unless
\* that changed while their queries ran (team/repo.go:343, home/service.go:51).
THEOREM ReadersSeeAll == Spec => []ReadersSeeEverybody
<1>1. MembershipInv => ReadersSeeEverybody
  BY DEF MembershipInv, ReadersSeeEverybody, Good
<1> QED BY <1>1, MembershipInvariant, PTL

-----------------------------------------------------------------------------
(* The tables implement the abstract enrolment                             *)

\* The letters that the committed invites are.
Letters == [i \in Ids |-> [to |-> invites[i].to, role |-> invites[i].role,
                           status |-> invites[i].status]]

\* Setting the status of rows ends their letters.
LEMMA RowsEndLetters ==
  ASSUME TypeOK, NEW rows \in SUBSET Ids, NEW st \in Ended \cup {"deleted"},
         invites' = SetStatus(rows, st)
  PROVE  Letters' = Enrolled!Ending(rows, st)
<1>1. /\ Len(invites') = Len(invites)
      /\ \A i \in Ids : /\ invites'[i].to = invites[i].to
                        /\ invites'[i].role = invites[i].role
                        /\ invites'[i].status = IF i \in rows THEN st ELSE invites[i].status
  BY SetStatusFacts
<1>2. Ids' = Ids
  BY <1>1 DEF Ids
<1>3. Enrolled!Ending(rows, st) =
        [i \in Ids |-> IF i \in rows THEN [to |-> invites[i].to, role |-> invites[i].role, status |-> st]
                       ELSE [to |-> invites[i].to, role |-> invites[i].role, status |-> invites[i].status]]
  BY DEF Enrolled!Ending, Enrolled!Letter
<1> QED BY <1>1, <1>2, <1>3 DEF Letters

\* Ending no row leaves the letters as they are.
LEMMA NoRowsEndNothing ==
  ASSUME TypeOK, NEW st \in Ended, invites' = SetStatus({}, st)
  PROVE  Letters' = Letters
<1>1. Letters' = Enrolled!Ending({}, st)
  BY RowsEndLetters
<1> QED BY <1>1 DEF Enrolled!Ending, Letters

\* The open letters are the pending invites.
LEMMA OpenIsPending ==
  /\ Enrolled!Open = {i \in Ids : invites[i].status = "pending"}
  /\ \A u : Enrolled!OpenTo(u) = Pending(u)
<1>1. Enrolled!Open = {i \in Ids : invites[i].status = "pending"}
  BY DEF Enrolled!Open
<1>2. ASSUME NEW u PROVE Enrolled!OpenTo(u) = Pending(u)
  <2>1. Enrolled!OpenTo(u) = {i \in Enrolled!Open : invites[i].to = u}
    BY <1>1 DEF Enrolled!OpenTo
  <2> QED BY <1>1, <2>1 DEF Pending
<1> QED BY <1>1, <1>2

LEMMA SeqIsItsItems == ASSUME NEW S, NEW s \in Seq(S) PROVE s = [i \in 1..Len(s) |-> s[i]]
OBVIOUS

\* A commit that sends a letter.
LEMMA CommitSends ==
  ASSUME MembershipInv, NEW h \in Handlers, CommitInvite(h)
  PROVE  \E u \in Users, r \in Roles : Enrolled!Send(u, r)
<1> DEFINE u0 == hs[h].user
           rows == hs[h].rows
           rec == [to |-> u0, role |-> hs[h].role, status |-> "pending",
                   sent |-> hs[h].sent, expires |-> hs[h].sent + TTL]
           ended == SetStatus(rows, "expired")
           new == [to |-> u0, role |-> hs[h].role, status |-> "pending"]
           old == Enrolled!Ending(rows, "expired")
<1>1. /\ TypeOK /\ Good(hs[h]) /\ hs[h].pc = "commit" /\ UNCHANGED <<project, member>>
      /\ invites' = Append(ended, rec)
  BY OfOne DEF CommitInvite
<1>2. /\ project /\ u0 \in Users \ {Founder} /\ Pending(u0) \subseteq rows
      /\ rows \in SUBSET Ids /\ \A i \in rows : invites[i].status = "pending"
  BY <1>1 DEF Good
<1>3. /\ ended \in Seq(Invite) /\ Len(ended) = Len(invites) /\ Len(invites) \in Nat
      /\ \A i \in Ids : /\ ended[i].to = invites[i].to /\ ended[i].role = invites[i].role
                        /\ ended[i].status = IF i \in rows THEN "expired" ELSE invites[i].status
  BY <1>1, <1>2, SetStatusFacts DEF Ended, TypeOK
<1>4. /\ Len(invites') = Len(invites) + 1
      /\ invites'[Len(invites) + 1] = rec
      /\ \A i \in Ids : invites'[i] = ended[i]
  <2> HIDE DEF ended, rec
  <2> QED BY <1>1, <1>3 DEF Ids
<1>5. old = [i \in Ids |-> IF i \in rows THEN [to |-> invites[i].to, role |-> invites[i].role, status |-> "expired"]
                           ELSE [to |-> invites[i].to, role |-> invites[i].role, status |-> invites[i].status]]
  BY DEF Enrolled!Ending, Enrolled!Letter
<1>6. Letters' = Append(old, new)
  <2>1. Len(old) = Len(invites) /\ old \in Seq({old[i] : i \in Ids})
    <3>1. DOMAIN old = 1..Len(invites) /\ old = [i \in 1..Len(invites) |-> old[i]]
      BY <1>5 DEF Ids
    <3>2. \A i \in 1..Len(invites) : old[i] \in {old[j] : j \in Ids}
      BY DEF Ids
    <3> HIDE DEF old
    <3> QED BY <1>3, <3>1, <3>2
  <2>2. Append(old, new) = [i \in 1..(Len(invites) + 1) |-> IF i \in Ids THEN old[i] ELSE new]
    <3> DEFINE S == {old[i] : i \in Ids} \cup {new}
               longer == Append(old, new)
    <3>1. old \in Seq({old[i] : i \in Ids}) /\ {old[i] : i \in Ids} \subseteq S /\ new \in S
      BY <2>1
    <3> HIDE DEF old, new, S
    <3>2. old \in Seq(S)
      BY <3>1
    <3>3. /\ longer \in Seq(S) /\ Len(longer) = Len(old) + 1
          /\ longer[Len(old) + 1] = new /\ \A i \in 1..Len(old) : longer[i] = old[i]
      BY <3>1, <3>2
    <3>4. longer = [i \in 1..(Len(invites) + 1) |-> longer[i]]
      <4> HIDE DEF longer
      <4>1. Len(longer) = Len(invites) + 1
        BY <2>1, <3>3
      <4>2. longer = [i \in 1..Len(longer) |-> longer[i]]
        BY <3>3, SeqIsItsItems
      <4> QED BY <4>1, <4>2
    <3>5. \A i \in 1..(Len(invites) + 1) : longer[i] = IF i \in Ids THEN old[i] ELSE new
      BY <1>3, <2>1, <3>3 DEF Ids
    <3> HIDE DEF longer
    <3>6. longer = [i \in 1..(Len(invites) + 1) |-> IF i \in Ids THEN old[i] ELSE new]
      BY <3>4, <3>5
    <3> QED BY <3>6 DEF longer
  <2>3. Letters' = [i \in 1..(Len(invites) + 1) |->
                       [to |-> invites'[i].to, role |-> invites'[i].role, status |-> invites'[i].status]]
    BY <1>4 DEF Letters, Ids
  <2>4. \A i \in 1..(Len(invites) + 1) : i \in Ids \/ (i = Len(invites) + 1 /\ i \notin Ids)
    BY <1>3 DEF Ids
  <2>5. \A i \in 1..(Len(invites) + 1) :
          [to |-> invites'[i].to, role |-> invites'[i].role, status |-> invites'[i].status]
            = IF i \in Ids THEN old[i] ELSE new
    <3> HIDE DEF ended, old
    <3> QED BY <1>3, <1>4, <1>5, <2>4
  <2> HIDE DEF old, new
  <2> QED BY <2>2, <2>3, <2>5
<1>7. rows \in SUBSET Enrolled!Open /\ Enrolled!OpenTo(u0) \subseteq rows
  BY <1>2, OpenIsPending
<1>8. new = Enrolled!Letter(u0, hs[h].role, "pending")
  BY DEF Enrolled!Letter
<1>9. PICK u \in Users, r \in Roles : u = u0 /\ r = hs[h].role
  BY <1>1, <1>2 DEF Good
<1>10. Letters' = Append(old, Enrolled!Letter(u, r, "pending"))
  <2> HIDE DEF old, new
  <2> QED BY <1>6, <1>8, <1>9
<1>11. u # Founder /\ Enrolled!OpenTo(u) \subseteq rows
  BY <1>2, <1>7, <1>9, OpenIsPending
<1>12. Enrolled!Send(u, r)
  BY <1>1, <1>2, <1>7, <1>10, <1>11 DEF Enrolled!Send, Letters
<1> QED BY <1>12

\* A commit that joins by a letter, open or ended meanwhile.
LEMMA CommitJoins ==
  ASSUME MembershipInv, NEW h \in Handlers, CommitAccept(h)
  PROVE  \E i \in Ids : Enrolled!Join(i)
<1> DEFINE id == hs[h].id
           rows == hs[h].rows
<1>1. /\ TypeOK /\ Good(hs[h]) /\ hs[h].pc = "joined" /\ UNCHANGED project
      /\ member' = [member EXCEPT ![hs[h].user] = hs[h].role]
      /\ invites' = SetStatus(rows, "accepted")
  BY OfOne DEF CommitAccept
<1>2. /\ project /\ id \in Ids /\ invites[id].to = hs[h].user /\ invites[id].role = hs[h].role
      /\ rows \in SUBSET Ids /\ rows \subseteq {id} /\ \A i \in rows : invites[i].status = "pending"
      /\ invites[id].status = "pending" => id \in rows
  BY <1>1 DEF Good
<1>3. Letters[id].to = hs[h].user /\ Letters[id].role = hs[h].role
  BY <1>2 DEF Letters
<1>4. member' = [member EXCEPT ![Letters[id].to] = Letters[id].role]
  BY <1>1, <1>3
<1>5. Letters' = Enrolled!Ending(rows, "accepted")
  BY <1>1, <1>2, RowsEndLetters DEF Ended
<1>6. rows = {id} \cap Enrolled!Open
  BY <1>2, OpenIsPending
<1>7. PICK i \in Ids : i = id
  BY <1>2
<1>8. /\ member' = [member EXCEPT ![Letters[i].to] = Letters[i].role]
      /\ Letters' = Enrolled!Ending({i} \cap Enrolled!Open, "accepted")
  BY <1>4, <1>5, <1>6, <1>7
<1>9. Enrolled!Join(i)
  BY <1>1, <1>2, <1>8 DEF Enrolled!Join, Letters
<1> QED BY <1>9

\* A sweep by the roster expires open letters.
LEMMA RosterExpires ==
  ASSUME MembershipInv, NEW h \in Handlers, StartRoster(h)
  PROVE  Enrolled!Expire
<1>1. PICK rows \in {Stale, {}} : invites' = SetStatus(rows, "expired")
  BY DEF StartRoster
<1>2. rows \in SUBSET Enrolled!Open /\ rows \in SUBSET Ids
  BY OpenIsPending DEF Stale
<1>3. Letters' = Enrolled!Ending(rows, "expired")
  BY <1>1, <1>2, RowsEndLetters DEF MembershipInv, Ended
<1>4. UNCHANGED <<project, member>>
  BY DEF StartRoster
<1> QED BY <1>2, <1>3, <1>4 DEF Enrolled!Expire, Letters

\* A cancellation ends what the address has open, which may be nothing.
LEMMA CancelEnds ==
  ASSUME MembershipInv, NEW h \in Handlers, CancelInvite(h)
  PROVE  \/ \E u \in Users : Enrolled!Cancel(u)
         \/ UNCHANGED <<project, member, Letters>>
<1> DEFINE rows == Pending(hs[h].user)
<1>1. TypeOK /\ invites' = SetStatus(rows, "cancelled") /\ UNCHANGED <<project, member>>
  BY DEF CancelInvite, MembershipInv
<1>2. rows \in SUBSET Ids
  BY DEF Pending
<1>3. CASE rows = {}
  <2>1. invites' = SetStatus({}, "cancelled")
    BY <1>1, <1>3
  <2>2. Letters' = Letters
    BY <1>1, <2>1, NoRowsEndNothing DEF Ended
  <2> QED BY <1>1, <2>2
<1>4. CASE rows # {}
  <2>1. PICK i \in Ids : invites[i].to = hs[h].user
    BY <1>4 DEF Pending
  <2>2. PICK u \in Users : u = hs[h].user
    BY <1>1, <2>1, InviteTypes
  <2>3. Letters' = Enrolled!Ending(Enrolled!OpenTo(u), "cancelled")
    BY <1>1, <1>2, <2>2, RowsEndLetters, OpenIsPending DEF Ended
  <2>4. Enrolled!Cancel(u)
    BY <1>1, <2>3 DEF Enrolled!Cancel, Letters
  <2> QED BY <2>4
<1> QED BY <1>3, <1>4

\* A refusal ends the letter if it is open still, and else nothing.
LEMMA DeclineEnds ==
  ASSUME MembershipInv, NEW h \in Handlers, DeclineInvite(h)
  PROVE  \/ \E i \in Ids : Enrolled!Decline(i)
         \/ UNCHANGED <<project, member, Letters>>
<1> DEFINE id == hs[h].id
           rows == Marked(id)
<1>1. /\ TypeOK /\ Good(hs[h]) /\ hs[h].pc = "decline"
      /\ invites' = SetStatus(rows, "declined") /\ UNCHANGED <<project, member>>
  BY DEF DeclineInvite, MembershipInv
<1>2. id \in Ids
  BY <1>1 DEF Good
<1>3. rows = {id} \cap Enrolled!Open
  BY OpenIsPending DEF Marked
<1>4. CASE rows = {}
  <2>1. invites' = SetStatus({}, "declined")
    BY <1>1, <1>4
  <2>2. Letters' = Letters
    BY <1>1, <2>1, NoRowsEndNothing DEF Ended
  <2> QED BY <1>1, <2>2
<1>5. CASE rows # {}
  <2>1. rows = {id} /\ id \in Enrolled!Open
    BY <1>3, <1>5
  <2>2. Letters' = Enrolled!Ending({id}, "declined")
    BY <1>1, <1>2, <2>1, RowsEndLetters DEF Ended
  <2>3. PICK i \in Ids : i = id
    BY <1>2
  <2>4. Enrolled!Decline(i)
    BY <1>1, <2>1, <2>2, <2>3 DEF Enrolled!Decline, Letters
  <2> QED BY <2>4
<1> QED BY <1>4, <1>5

\* An update changes a role other than the founder's; on a project that is
\* gone it finds no row.
LEMMA UpdateChanges ==
  ASSUME MembershipInv, NEW h \in Handlers, UpdateMember(h)
  PROVE  \/ \E u \in Users, r \in Roles : Enrolled!Change(u, r)
         \/ UNCHANGED <<project, member, Letters>>
<1> DEFINE u0 == hs[h].user
           r0 == hs[h].role
<1>1. /\ TypeOK /\ Good(hs[h]) /\ hs[h].pc = "update" /\ UNCHANGED <<project, invites>>
      /\ member' = [member EXCEPT ![u0] = IF project THEN r0 ELSE @]
  BY DEF UpdateMember, MembershipInv
<1>2. /\ u0 \in Users \ {Founder} /\ r0 \in Roles \ {OwnerRole}
      /\ project => member[u0] # None
  BY <1>1 DEF Good
<1>3. Letters' = Letters
  BY <1>1 DEF Letters, Ids
<1>4. CASE project
  <2>1. member' = [member EXCEPT ![u0] = r0]
    BY <1>1, <1>4
  <2>2. PICK u \in Users, r \in Roles : u = u0 /\ r = r0
    BY <1>2
  <2>3. Enrolled!Change(u, r)
    BY <1>1, <1>2, <1>3, <1>4, <2>1, <2>2 DEF Enrolled!Change, Letters
  <2> QED BY <2>3
<1>5. CASE ~project
  <2>1. member \in [Users -> Roles \cup {None}]
    BY <1>1 DEF TypeOK
  <2>2. member' = member
    BY <1>1, <1>5, <2>1
  <2> QED BY <1>1, <1>3, <2>2
<1> QED BY <1>1, <1>4, <1>5 DEF TypeOK

\* The cascade takes everybody's role and ends every letter.
LEMMA CascadeDeletes ==
  ASSUME MembershipInv, NEW h \in Handlers, Cascade(h)
  PROVE  Enrolled!Delete
<1>1. /\ TypeOK /\ project' = FALSE /\ member' = [u \in Users |-> None]
      /\ invites' = SetStatus(Ids, "deleted")
  BY DEF Cascade, MembershipInv
<1>2. Letters' = Enrolled!Ending(Ids, "deleted")
  BY <1>1, RowsEndLetters
<1>3. DOMAIN Letters = Ids
  BY DEF Letters
<1> QED BY <1>1, <1>2, <1>3 DEF Enrolled!Delete, Letters

\* Every other step leaves what the abstract enrolment sees.
LEMMA OthersStutter ==
  ASSUME NEW h \in Handlers,
         \/ ProjectNotFound(h) \/ StartInvites(h) \/ StartCancel(h) \/ StartAccept(h)
         \/ StartDecline(h) \/ StartUpdateMember(h) \/ DeleteProject(h) \/ StartDashboard(h)
         \/ SweepAndFindMember(h) \/ FindPending(h) \/ InsertInvite(h) \/ MarkAccepted(h)
         \/ UpsertMember(h) \/ RosterMembers(h) \/ RosterInvited(h) \/ DashboardProjects(h)
         \/ DashboardInvites(h) \/ AnswerRead(h) \/ DeadlockVictim(h) \/ RequestFails(h)
  PROVE  UNCHANGED <<project, member, Letters>>
<1>1. UNCHANGED <<project, member, invites>>
  BY DEF ProjectNotFound, StartInvites, StartCancel, StartAccept, StartDecline,
         StartUpdateMember, DeleteProject, StartDashboard, SweepAndFindMember, FindPending,
         InsertInvite, MarkAccepted, UpsertMember, RosterMembers, RosterInvited,
         DashboardProjects, DashboardInvites, AnswerRead, DeadlockVictim, RequestFails
<1> QED BY <1>1 DEF Letters, Ids

\* A step of the tables is one of the enrolment, or none.
LEMMA NextFollows ==
  ASSUME MembershipInv, [Next]_vars
  PROVE  [Enrolled!EnrolmentNext]_<<project, member, Letters>>
<1>1. DOMAIN Letters = Ids
  BY DEF Letters
<1>2. ASSUME NEW h \in Handlers, Start(h)
      PROVE  [Enrolled!EnrolmentNext]_<<project, member, Letters>>
  <2>1. CASE StartRoster(h)
    BY <2>1, RosterExpires DEF Enrolled!EnrolmentNext
  <2>2. CASE ~StartRoster(h)
    BY <1>2, <2>2, OthersStutter DEF Start
  <2> QED BY <2>1, <2>2
<1>3. ASSUME NEW h \in Handlers, Step(h)
      PROVE  [Enrolled!EnrolmentNext]_<<project, member, Letters>>
  <2>1. CASE CommitInvite(h)
    BY <2>1, CommitSends DEF Enrolled!EnrolmentNext
  <2>2. CASE CommitAccept(h)
    <3>1. \E i \in Ids : Enrolled!Join(i)
      BY <2>2, CommitJoins
    <3>2. Enrolled!EnrolmentNext
      BY <1>1, <3>1 DEF Enrolled!EnrolmentNext, Letters
    <3> QED BY <3>2
  <2>3. CASE CancelInvite(h)
    BY <2>3, CancelEnds DEF Enrolled!EnrolmentNext
  <2>4. CASE DeclineInvite(h)
    BY <1>1, <2>4, DeclineEnds DEF Enrolled!EnrolmentNext, Letters
  <2>5. CASE UpdateMember(h)
    BY <2>5, UpdateChanges DEF Enrolled!EnrolmentNext
  <2>6. CASE Cascade(h)
    BY <2>6, CascadeDeletes DEF Enrolled!EnrolmentNext
  <2>7. CASE ~(\/ CommitInvite(h) \/ CommitAccept(h) \/ CancelInvite(h)
               \/ DeclineInvite(h) \/ UpdateMember(h) \/ Cascade(h))
    BY <1>3, <2>7, OthersStutter DEF Step
  <2> QED BY <2>1, <2>2, <2>3, <2>4, <2>5, <2>6, <2>7
<1>4. ASSUME NEW h \in Handlers, RequestFails(h)
      PROVE  [Enrolled!EnrolmentNext]_<<project, member, Letters>>
  BY <1>4, OthersStutter
<1>5. CASE Tick \/ Done \/ UNCHANGED vars
  <2>1. UNCHANGED <<project, member, invites>>
    BY <1>5 DEF Tick, Done, vars
  <2> QED BY <2>1 DEF Letters, Ids
<1> QED BY <1>2, <1>3, <1>4, <1>5 DEF Next

\* The first state of the tables is one of the enrolment.
LEMMA InitFollows == ASSUME Init PROVE Enrolled!EnrolmentInit
<1>1. project = TRUE /\ member = [u \in Users |-> IF u = Founder THEN OwnerRole ELSE None]
  BY DEF Init
<1>2. Letters \in {<<>>} \cup {<<Enrolled!Letter(u, r, "pending")>> : u \in Users \ {Founder}, r \in Roles}
  <2>1. CASE invites = <<>>
    <3>1. Ids = {}
      BY <2>1 DEF Ids
    <3>2. Letters = <<>>
      BY <3>1 DEF Letters
    <3> QED BY <3>2
  <2>2. CASE invites # <<>>
    <3>1. PICK u \in Users \ {Founder}, r \in Roles :
             invites = <<[to |-> u, role |-> r, status |-> "pending", sent |-> 0, expires |-> TTL]>>
      BY <2>2 DEF Init
    <3>2. /\ Ids = {1} /\ invites[1].to = u /\ invites[1].role = r
          /\ invites[1].status = "pending"
      BY <3>1 DEF Ids
    <3>3. Letters = [i \in {1} |-> Enrolled!Letter(u, r, "pending")]
      BY <3>2 DEF Letters, Enrolled!Letter
    <3> DEFINE e == Enrolled!Letter(u, r, "pending")
    <3>4. <<e>> = [i \in {1} |-> e]
      <4> HIDE DEF e
      <4>1. \A i \in 1..1 : i = 1
        OBVIOUS
      <4> QED BY <4>1
    <3> QED BY <3>3, <3>4
  <2> QED BY <2>1, <2>2
<1> QED BY <1>1, <1>2 DEF Enrolled!EnrolmentInit, Letters

\* Whatever requests do to the tables at the same time, what they commit is an
\* enrolment: letters end once and for good, and who joins had one
\* (team/repo.go, home/repo.go).
THEOREM EnrolmentImplemented == Spec => FollowsEnrolment
<1>1. Init => Enrolled!EnrolmentInit
  BY InitFollows
<1>2. MembershipInv /\ [Next]_vars => [Enrolled!EnrolmentNext]_<<project, member, Letters>>
  BY NextFollows
<1> QED BY <1>1, <1>2, MembershipInvariant, PTL
        DEF Spec, FollowsEnrolment, Letters, Enrolled!EnrolmentSpec, Enrolled!enrolmentVars

=============================================================================
