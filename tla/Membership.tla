----------------------------- MODULE Membership -----------------------------
(***************************************************************************)
(* Who belongs to one project: team/service.go and team/repo.go (invites,  *)
(* batches, the roster), home/service.go (accepting and declining), and    *)
(* the deletion of the project under all of them.                          *)
(*                                                                         *)
(* Every write runs in a READ COMMITTED transaction of its own: a          *)
(* statement sees what is committed when it starts, rows it changed stay   *)
(* locked until the end, a unique index makes an INSERT wait for every     *)
(* uncommitted change of its key, and a foreign key makes it wait for an   *)
(* uncommitted DELETE of the project.  Uncommitted changes are kept in the *)
(* handler, committed ones in the tables.                                  *)
(***************************************************************************)
EXTENDS Naturals, Sequences, FiniteSets

CONSTANTS Users,        \* registered users, by address
          Founder,      \* the user who created the project
          Roles,        \* canonical roles
          OwnerRole,    \* RoleOwner
          None,         \* no user, no role
          Handlers,     \* concurrent requests
          TTL,          \* inviteTTL in ticks of the clock
          MaxNow,       \* bound: last tick
          MaxRequests   \* bound: requests ever started

ASSUME NoneIsNobody == None \notin Users /\ None \notin Roles
ASSUME FounderRegistered == Founder \in Users /\ OwnerRole \in Roles
ASSUME BoundsAreNaturals == TTL \in Nat /\ MaxNow \in Nat /\ MaxRequests \in Nat

VARIABLES
    project,    \* the row of projects exists
    member,     \* project_members: role of each user
    invites,    \* project_invites in the order of their commits
    now,        \* the clock of PostgreSQL and of the processes
    hs,         \* what each request has read and not yet committed
    asked,      \* requests started so far
    overtaken   \* history: invites ended by another request while their
                \* recipient's acceptance was under way

vars == <<project, member, invites, now, hs, asked, overtaken>>

Ended  == {"accepted", "declined", "cancelled", "expired"}
Invite == [to : Users, role : Roles, status : Ended \cup {"pending", "deleted"},
           sent : Nat, expires : Nat]
Ids    == 1..Len(invites)

Handler == [pc : {"idle", "sweep", "pending", "insert", "commit", "mark",
                  "join", "joined", "decline", "cancel", "update",
                  "cascade", "members", "projects", "invited", "listed"},
            user    : Users \cup {None},   \* invitee, member, recipient or reader
            role    : Roles \cup {None},
            id      : Nat,                 \* the invite being accepted
            sent    : Nat,                 \* begin of the transaction
            todo    : Seq(Users \cup {None}),  \* entries of a batch left
            rows    : SUBSET Nat,          \* invite rows changed, uncommitted
            upsert  : BOOLEAN,             \* membership row written, uncommitted
            seen    : SUBSET Users,        \* a roster under construction
            moved   : SUBSET Users]        \* history: users whose membership
                                           \* or invite changed since it began

Idle == [pc |-> "idle", user |-> None, role |-> None, id |-> 0, sent |-> 0,
         todo |-> <<>>, rows |-> {}, upsert |-> FALSE, seen |-> {}, moved |-> {}]

-----------------------------------------------------------------------------
(* Locks and committed state                                               *)

Pending(u) == {i \in Ids : invites[i].to = u /\ invites[i].status = "pending"}
Stale      == {i \in Ids : invites[i].status = "pending" /\ invites[i].expires < now}

\* Rows of project_invites locked by requests other than h.
LockedRows(h) == UNION {hs[g].rows : g \in Handlers \ {h}}

\* An uncommitted row of project_members of u, written by another request.
MemberLocked(u, h) ==
    \E g \in Handlers \ {h} : hs[g].upsert /\ hs[g].user = u

\* An uncommitted row of the partial unique index (project_id, email) of u.
KeyLocked(u, h) ==
    \/ \E g \in Handlers \ {h} : hs[g].pc = "commit" /\ hs[g].user = u
    \/ Pending(u) \cap LockedRows(h) # {}

\* projects is deleted, uncommitted: a foreign key check waits.
Deleting(h) == \E g \in Handlers \ {h} : hs[g].pc = "cascade"

\* Uncommitted rows referencing the project: its DELETE waits.
Referenced(h) ==
    \E g \in Handlers \ {h} : hs[g].upsert \/ hs[g].pc = "commit"

SetStatus(rows, status) ==
    [i \in Ids |-> IF i \in rows THEN [invites[i] EXCEPT !.status = status]
                   ELSE invites[i]]

\* hs after h moves to new, for steps that change no committed row.
Move(h, new) == hs' = [hs EXCEPT ![h] = new]

\* hs after h moves to new and the membership or invites of users changed:
\* rosters under construction remember it.
MoveTelling(h, new, users) ==
    hs' = [g \in Handlers |->
             LET next == IF g = h THEN new ELSE hs[g]
             IN  IF next.pc \in {"invited", "listed"}
                 THEN [next EXCEPT !.moved = @ \cup users] ELSE next]

\* Invites under acceptance by some request: checked, not yet committed.
Accepting == {hs[g].id : g \in {g \in Handlers : hs[g].pc \in {"mark", "join", "joined"}}}

Ask == asked < MaxRequests /\ asked' = asked + 1

-----------------------------------------------------------------------------
(* Inviting: CreateInvite and BatchInvites, one transaction per entry      *)

\* Any route answers 404 once the project is gone.
ProjectNotFound(h) ==
    /\ hs[h].pc = "idle" /\ ~project /\ Ask
    /\ UNCHANGED <<project, member, invites, now, hs, overtaken>>

\* A list of entries; None is an address that is malformed or registered to
\* nobody, or comes with an unknown role: it is reported as failed.
StartInvites(h) ==
    /\ hs[h].pc = "idle" /\ project /\ Ask
    /\ \E u \in Users, rest \in {<<>>} \cup {<<v>> : v \in Users \cup {None}}, r \in Roles :
           Move(h, [Idle EXCEPT !.pc = "sweep", !.role = r, !.todo = <<u>> \o rest])
    /\ UNCHANGED <<project, member, invites, now, overtaken>>

\* mutant: the loop does not move on
SameEntry(h) == [Idle EXCEPT !.pc = "sweep", !.role = hs[h].role, !.todo = hs[h].todo]

\* The entry of h was invited, or failed in a way that is the client's: its
\* transaction is over and the next entry gets a transaction of its own.
NextEntry(h) ==
    LET rest == Tail(hs[h].todo)
    IN  IF rest = <<>> THEN Idle
        ELSE [Idle EXCEPT !.pc = "sweep", !.role = hs[h].role, !.todo = rest]

\* Sweep, then the lookups of the user and of a member with the address.
SweepAndFindMember(h) ==
    /\ hs[h].pc = "sweep"
    /\ Stale \cap LockedRows(h) = {}
    /\ LET u == Head(hs[h].todo)
       IN  IF u = None \/ ~project \/ (u # None /\ member[u] # None)
           THEN Move(h, NextEntry(h))
           ELSE Move(h, [hs[h] EXCEPT !.pc = "pending", !.user = u,
                                      !.sent = now, !.rows = Stale])
    /\ UNCHANGED <<project, member, invites, now, asked, overtaken>>

\* The lookup of a pending invite, behind the transaction's own sweep.
FindPending(h) ==
    /\ hs[h].pc = "pending"
    /\ IF Pending(hs[h].user) \ hs[h].rows # {}
       THEN Move(h, NextEntry(h))
       ELSE Move(h, [hs[h] EXCEPT !.pc = "insert"])
    /\ UNCHANGED <<project, member, invites, now, asked, overtaken>>

\* mutant: there is no unique index
NoIndex(u, h) == TRUE

\* The INSERT finds the key of u free in the partial unique index.
KeyFree(u, h) == Pending(u) \ hs[h].rows = {}

\* A violated index is an entry that failed; a violated foreign key is an
\* internal error, which ends the batch without naming what it committed.
InsertInvite(h) ==
    /\ hs[h].pc = "insert"
    /\ ~KeyLocked(hs[h].user, h) /\ ~Deleting(h)
    /\ Move(h, IF ~project THEN Idle
               ELSE IF KeyFree(hs[h].user, h) THEN [hs[h] EXCEPT !.pc = "commit"]
               ELSE NextEntry(h))
    /\ UNCHANGED <<project, member, invites, now, asked, overtaken>>

CommitInvite(h) ==
    /\ hs[h].pc = "commit"
    /\ invites' = Append(SetStatus(hs[h].rows, "expired"),
                         [to |-> hs[h].user, role |-> hs[h].role, status |-> "pending",
                          sent |-> hs[h].sent, expires |-> hs[h].sent + TTL])
    /\ overtaken' = overtaken \cup (hs[h].rows \cap Accepting)
    /\ MoveTelling(h, NextEntry(h),
                   {hs[h].user} \cup {invites[i].to : i \in hs[h].rows})
    /\ UNCHANGED <<project, member, now, asked>>

-----------------------------------------------------------------------------
(* Cancelling: the status of the address's latest invite, then the UPDATE  *)

Latest(u) ==
    LET sent == {i \in Ids : invites[i].to = u /\ invites[i].status # "deleted"}
    IN  {i \in sent : \A j \in sent :
            \/ invites[j].sent < invites[i].sent
            \/ invites[j].sent = invites[i].sent /\ j <= i}

StartCancel(h) ==
    /\ hs[h].pc = "idle" /\ project /\ Ask
    /\ \E u \in Users :
           /\ \E i \in Latest(u) : invites[i].status = "pending"
           /\ Move(h, [Idle EXCEPT !.pc = "cancel", !.user = u])
    /\ UNCHANGED <<project, member, invites, now, overtaken>>

CancelInvite(h) ==
    LET rows == Pending(hs[h].user)
    IN  /\ hs[h].pc = "cancel"
        /\ rows \cap LockedRows(h) = {}
        /\ invites' = SetStatus(rows, "cancelled")
        /\ overtaken' = overtaken \cup (rows \cap Accepting)
        /\ MoveTelling(h, Idle, {invites[i].to : i \in rows})
        /\ UNCHANGED <<project, member, now, asked>>

-----------------------------------------------------------------------------
(* Accepting and declining                                                 *)

\* mutant: the status of the target is not checked
Unexpired(i) == invites[i].status # "deleted" /\ invites[i].expires >= now

\* The service's checks of the target, before the transaction.
Acceptable(i) == invites[i].status = "pending" /\ invites[i].expires >= now

\* Others than the recipient are refused and change nothing.
StartAccept(h) ==
    /\ hs[h].pc = "idle" /\ Ask
    /\ \E i \in Ids :
           /\ Acceptable(i)
           /\ Move(h, [Idle EXCEPT !.pc = "mark", !.id = i,
                          !.user = invites[i].to, !.role = invites[i].role])
    /\ UNCHANGED <<project, member, invites, now, overtaken>>

\* mutant: the UPDATE does not ask for a pending row
MarkedAnyway(i) == {i} \cap Ids

\* Rows MarkInviteAccepted and MarkInviteDeclined change.  How many is not
\* looked at: an invite that ended since the check lets the request go on.
Marked(i) == {i} \cap {j \in Ids : invites[j].status = "pending"}

MarkAccepted(h) ==
    /\ hs[h].pc = "mark"
    /\ hs[h].id \notin LockedRows(h)
    /\ Move(h, [hs[h] EXCEPT !.pc = "join", !.rows = Marked(hs[h].id)])
    /\ UNCHANGED <<project, member, invites, now, asked, overtaken>>

\* INSERT .. ON CONFLICT (project_id, user_id) DO UPDATE
UpsertMember(h) ==
    /\ hs[h].pc = "join"
    /\ ~MemberLocked(hs[h].user, h) /\ ~Deleting(h)
    /\ Move(h, IF project THEN [hs[h] EXCEPT !.pc = "joined", !.upsert = TRUE]
               ELSE Idle)
    /\ UNCHANGED <<project, member, invites, now, asked, overtaken>>

CommitAccept(h) ==
    /\ hs[h].pc = "joined"
    /\ member' = [member EXCEPT ![hs[h].user] = hs[h].role]
    /\ invites' = SetStatus(hs[h].rows, "accepted")
    /\ overtaken' = overtaken \cup (hs[h].rows \cap
           {hs[g].id : g \in {g \in Handlers \ {h} : hs[g].pc \in {"mark", "join", "joined"}}})
    /\ MoveTelling(h, Idle, {hs[h].user})
    /\ UNCHANGED <<project, now, asked>>

\* The expiry is not looked at; check and UPDATE are apart, the UPDATE is the
\* whole transaction.
StartDecline(h) ==
    /\ hs[h].pc = "idle" /\ Ask
    /\ \E i \in Ids :
           /\ invites[i].status = "pending"
           /\ Move(h, [Idle EXCEPT !.pc = "decline", !.id = i, !.user = invites[i].to])
    /\ UNCHANGED <<project, member, invites, now, overtaken>>

DeclineInvite(h) ==
    LET rows == Marked(hs[h].id)
    IN  /\ hs[h].pc = "decline"
        /\ hs[h].id \notin LockedRows(h)
        /\ invites' = SetStatus(rows, "declined")
        /\ overtaken' = overtaken \cup (rows \cap Accepting)
        /\ MoveTelling(h, Idle, {invites[i].to : i \in rows})
        /\ UNCHANGED <<project, member, now, asked>>

-----------------------------------------------------------------------------
(* Role of a member: the check reads the row, the UPDATE does not ask again *)

StartUpdateMember(h) ==
    /\ hs[h].pc = "idle" /\ project /\ Ask
    /\ \E u \in Users, r \in Roles \ {OwnerRole} :
           /\ member[u] \notin {None, OwnerRole}
           /\ Move(h, [Idle EXCEPT !.pc = "update", !.user = u, !.role = r])
    /\ UNCHANGED <<project, member, invites, now, overtaken>>

UpdateMember(h) ==
    /\ hs[h].pc = "update"
    /\ ~MemberLocked(hs[h].user, h)
    /\ member' = [member EXCEPT ![hs[h].user] = IF project THEN hs[h].role ELSE @]
    /\ Move(h, Idle)
    /\ UNCHANGED <<project, invites, now, asked, overtaken>>

-----------------------------------------------------------------------------
(* Deleting the project: the row, then the rows that cascade               *)

DeleteProject(h) ==
    /\ hs[h].pc = "idle" /\ project /\ Ask
    /\ ~Referenced(h) /\ ~Deleting(h)
    /\ Move(h, [Idle EXCEPT !.pc = "cascade"])
    /\ UNCHANGED <<project, member, invites, now, overtaken>>

Cascade(h) ==
    /\ hs[h].pc = "cascade"
    /\ LockedRows(h) = {} /\ ~Referenced(h)
    /\ project' = FALSE
    /\ member' = [u \in Users |-> None]
    /\ invites' = SetStatus(Ids, "deleted")
    /\ MoveTelling(h, Idle, Users)
    /\ UNCHANGED <<now, asked, overtaken>>

-----------------------------------------------------------------------------
(* Reads: the roster of a project and the dashboard of a user, each several *)
(* queries outside any transaction                                         *)

\* The sweep is a statement of its own; if it fails the read goes on.
StartRoster(h) ==
    /\ hs[h].pc = "idle" /\ project /\ Ask
    /\ \E rows \in {Stale, {}} :
           /\ rows \cap LockedRows(h) = {}
           /\ invites' = SetStatus(rows, "expired")
           /\ overtaken' = overtaken \cup (rows \cap Accepting)
           /\ MoveTelling(h, [Idle EXCEPT !.pc = "members"],
                          {invites[i].to : i \in rows})
    /\ UNCHANGED <<project, member, now>>

RosterMembers(h) ==
    /\ hs[h].pc = "members"
    /\ Move(h, [hs[h] EXCEPT !.pc = "invited",
                             !.seen = {u \in Users : member[u] # None}])
    /\ UNCHANGED <<project, member, invites, now, asked, overtaken>>

\* mutant: only invites that have not expired are joined
UnexpiredInvited(h) ==
    /\ hs[h].pc = "invited" /\ hs[h].user = None
    /\ Move(h, [hs[h] EXCEPT !.pc = "listed",
                    !.seen = @ \cup {u \in Users : Pending(u) \ Stale # {}}])
    /\ UNCHANGED <<project, member, invites, now, asked, overtaken>>

RosterInvited(h) ==
    /\ hs[h].pc = "invited" /\ hs[h].user = None
    /\ Move(h, [hs[h] EXCEPT !.pc = "listed",
                    !.seen = @ \cup {u \in Users : Pending(u) # {}}])
    /\ UNCHANGED <<project, member, invites, now, asked, overtaken>>

StartDashboard(h) ==
    /\ hs[h].pc = "idle" /\ Ask
    /\ \E u \in Users : Move(h, [Idle EXCEPT !.pc = "projects", !.user = u])
    /\ UNCHANGED <<project, member, invites, now, overtaken>>

DashboardProjects(h) ==
    /\ hs[h].pc = "projects"
    /\ Move(h, [hs[h] EXCEPT !.pc = "invited",
                    !.seen = {u \in {hs[h].user} : member[u] # None}])
    /\ UNCHANGED <<project, member, invites, now, asked, overtaken>>

DashboardInvites(h) ==
    /\ hs[h].pc = "invited" /\ hs[h].user # None
    /\ Move(h, [hs[h] EXCEPT !.pc = "listed",
                    !.seen = @ \cup {u \in {hs[h].user} : Pending(u) # {}}])
    /\ UNCHANGED <<project, member, invites, now, asked, overtaken>>

AnswerRead(h) ==
    /\ hs[h].pc = "listed"
    /\ Move(h, Idle)
    /\ UNCHANGED <<project, member, invites, now, asked, overtaken>>

-----------------------------------------------------------------------------
(* Failures and time                                                       *)

\* The transaction of h has to wait for the one of g, and g for h: the
\* DELETE waits for rows that h changed, h for the DELETE's foreign key.
WaitForEachOther(h, g) ==
    /\ hs[g].pc = "cascade" /\ hs[h].rows # {}
    /\ hs[h].pc \in {"insert", "join"}

\* PostgreSQL ends one of them; the service answers an internal error.
DeadlockVictim(h) ==
    /\ \E g \in Handlers : WaitForEachOther(h, g) \/ WaitForEachOther(g, h)
    /\ Move(h, Idle)
    /\ UNCHANGED <<project, member, invites, now, asked, overtaken>>

\* A statement or the COMMIT fails: the transaction is rolled back, a batch
\* is given up, a read answers an error.
RequestFails(h) ==
    /\ hs[h].pc # "idle"
    /\ Move(h, Idle)
    /\ UNCHANGED <<project, member, invites, now, asked, overtaken>>

Tick ==
    /\ now < MaxNow
    /\ now' = now + 1
    /\ UNCHANGED <<project, member, invites, hs, asked, overtaken>>

Step(h) ==
    \/ SweepAndFindMember(h) \/ FindPending(h) \/ InsertInvite(h) \/ CommitInvite(h)
    \/ CancelInvite(h) \/ MarkAccepted(h) \/ UpsertMember(h) \/ CommitAccept(h)
    \/ DeclineInvite(h) \/ UpdateMember(h) \/ Cascade(h)
    \/ RosterMembers(h) \/ RosterInvited(h)
    \/ DashboardProjects(h) \/ DashboardInvites(h) \/ AnswerRead(h)
    \/ DeadlockVictim(h)

Start(h) ==
    \/ ProjectNotFound(h) \/ StartInvites(h) \/ StartCancel(h) \/ StartAccept(h)
    \/ StartDecline(h) \/ StartUpdateMember(h) \/ DeleteProject(h)
    \/ StartRoster(h) \/ StartDashboard(h)

\* Not a step of the program: the last request has been answered and the
\* clock of the model has run out.
Done ==
    /\ asked = MaxRequests /\ now = MaxNow
    /\ \A h \in Handlers : hs[h].pc = "idle"
    /\ UNCHANGED vars

Next ==
    \/ \E h \in Handlers : Start(h) \/ Step(h) \/ RequestFails(h)
    \/ Tick \/ Done

\* A project just created by CreateProject, or with a first invite sent.
Init ==
    /\ project = TRUE
    /\ member = [u \in Users |-> IF u = Founder THEN OwnerRole ELSE None]
    /\ invites \in {<<>>} \cup
         {<<[to |-> u, role |-> r, status |-> "pending", sent |-> 0, expires |-> TTL]>> :
            u \in Users \ {Founder}, r \in Roles}
    /\ now = 0 /\ asked = 0 /\ overtaken = {}
    /\ hs = [h \in Handlers |-> Idle]

Spec == Init /\ [][Next]_vars

\* A request that waits for a lock gets it in the order of waiting, and one
\* of two that wait for each other is ended.
FairSpec == Spec /\ \A h \in Handlers : SF_vars(Step(h))

-----------------------------------------------------------------------------
(* Properties                                                              *)

\* Types of the variables.
TypeOK ==
    /\ project \in BOOLEAN
    /\ member \in [Users -> Roles \cup {None}]
    /\ invites \in Seq(Invite)
    /\ now \in Nat /\ asked \in Nat
    /\ hs \in [Handlers -> Handler]
    /\ overtaken \subseteq Nat

\* An address never has two pending invites, although CreateInvite looks for
\* one in a statement before its INSERT (team/repo.go:508-536): the index
\* project_invites_pending_email_unique_idx decides.
OnePendingEach == \A u \in Users : Cardinality(Pending(u)) <= 1

\* Everybody but the founder belongs to the project because of an invite of
\* theirs that was accepted, or that was pending when they accepted it and was
\* ended by somebody else before their UPDATE (home/service.go:218).
JoinExplained ==
    \A u \in Users \ {Founder} : project /\ member[u] # None =>
        \E i \in Ids : /\ invites[i].to = u
                       /\ invites[i].status = "accepted" \/ i \in overtaken

\* The founder keeps the Owner role as long as the project exists: no sequence
\* of invites, acceptances and permission updates overwrites it, although
\* UpsertProjectMember overwrites the role of a member (home/repo.go:124).
FounderKeepsRole == project => member[Founder] = OwnerRole

\* Nothing of a deleted project comes back: requests that were past their
\* checks when it was deleted insert nothing (docs/workflows/project.md).
NothingSurvivesDelete ==
    ~project => /\ \A u \in Users : member[u] = None
                /\ \A i \in Ids : invites[i].status = "deleted"

\* What holds of the tables however invites, sweeps, answers, role changes and
\* the deletion interleave: one pending invite per address, the founder's role,
\* and nothing left over (team/repo.go:508-536, home/repo.go:124).
MembershipSound ==
    TypeOK /\ OnePendingEach /\ FounderKeepsRole /\ NothingSurvivesDelete

\* The roster and the dashboard are put together from several queries.  A user
\* is in the answer exactly if a member or invited, unless that changed while
\* the queries ran (team/repo.go:343, home/service.go:51).
ReadersSeeEverybody ==
    \A h \in Handlers : hs[h].pc = "listed" =>
        \A u \in Users \ hs[h].moved :
            (hs[h].user \in {None, u}) =>
                (u \in hs[h].seen <=> member[u] # None \/ Pending(u) # {})

\* What is committed follows the abstract enrolment: a letter that was declined,
\* cancelled, accepted or has expired never opens or ends again, although checks
\* and UPDATEs are apart and sweeps, answers and a delete overlap; who joins does
\* it by a letter of theirs (docs/workflows/team.md, Invite Lifecycle & Roster).
Enrolled ==
    INSTANCE Enrolment
        WITH exists <- project, role <- member,
             letters <- [i \in Ids |-> [to |-> invites[i].to, role |-> invites[i].role,
                                        status |-> invites[i].status]]

FollowsEnrolment == Enrolled!EnrolmentSpec

\* Every request is answered: waiting for row locks, index entries and foreign
\* keys ends, also where a DELETE and an acceptance wait for each other.
EveryRequestAnswered == \A h \in Handlers : hs[h].pc # "idle" ~> hs[h].pc = "idle"

=============================================================================
