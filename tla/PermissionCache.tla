--------------------------- MODULE PermissionCache ---------------------------
(***************************************************************************)
(* Project permissions and their cache.                                    *)
(*                                                                         *)
(* PostgreSQL holds a mask per role (role_permissions) and, per member, a  *)
(* role, a mask and is_custom (project_members); the effective mask is the *)
(* member's own if custom, else the role's (core/permissions/relational.go)*)
(* HybridResolver (resolver.go) keeps, per user, one Redis key holding a   *)
(* map from project to resolution; a miss is answered from PostgreSQL and  *)
(* backfilled by a detached goroutine under WATCH.  The team service       *)
(* commits an update and then deletes the keys of the users it affects; an *)
(* accepted invite (home service) deletes nothing; startup (lifecycle.go)  *)
(* aligns stored masks.  Time is a clock of whole seconds: updated_at is   *)
(* NOW(), the begin of the transaction, and resolutions are compared by it.*)
(***************************************************************************)
EXTENDS Naturals, FiniteSets

CONSTANTS
    Users, Projects, Roles,   \* Roles: those that can be assigned (not Owner)
    Masks,                    \* permission masks that pass validation
    None,
    Resolvers,                \* concurrent resolutions
    Writers,                  \* concurrent writing requests
    Faults,                   \* "redis": a GET, DEL or backfill fails; "tx": a rollback
    MaxNow, MaxWrites         \* bounds: seconds, writing requests

ASSUME NoneAssumption == None \notin Users \cup Projects \cup Roles \cup Masks
ASSUME BoundsAssumption == MaxNow \in Nat /\ MaxWrites \in Nat

VARIABLES
    roles,      \* roles[p][r]: [mask, at]
    mem,        \* mem[u][p]: the membership, or NotMember
    invite,     \* invite[u][p]: the pending invite [role, mask], or NoInvite
    cache,      \* cache[u][p]: the entry [mask, at], or NoEntry
    rs, ws,     \* resolutions and writing requests
    now, writes,
    excused     \* history: <<u, p>> whose entry an invalidation missed

vars == <<roles, mem, invite, cache, rs, ws, now, writes, excused>>
database == <<roles, mem, invite>>

Entry == [mask : Masks \cup {None}, at : Nat]
NoEntry == [mask |-> None, at |-> 0]
NoEntries == [p \in Projects |-> NoEntry]

Member == [role : Roles \cup {None}, custom : BOOLEAN, mask : Masks \cup {None}, at : Nat]
NotMember == [role |-> None, custom |-> FALSE, mask |-> None, at |-> 0]

Invite == [role : Roles \cup {None}, mask : Masks \cup {None}]
NoInvite == [role |-> None, mask |-> None]

Later(a, b) == IF a < b THEN b ELSE a

\* what RelationalResolver.Resolve computes from a membership and the role masks
EffectiveOf(m, of) ==
    IF m.role = None THEN NoEntry
    ELSE IF m.custom THEN [mask |-> m.mask, at |-> m.at]
    ELSE [mask |-> of[m.role].mask, at |-> Later(m.at, of[m.role].at)]

Effective(u, p) == EffectiveOf(mem[u][p], roles[p])

Resolver == [pc : {"idle", "load", "watch", "exec"},
             user : Users \cup {None}, proj : Projects \cup {None},
             found : Entry, seen : [Projects -> Entry], dirty : BOOLEAN]

IdleResolver == [pc |-> "idle", user |-> None, proj |-> None,
                 found |-> NoEntry, seen |-> NoEntries, dirty |-> FALSE]

Writer == [pc : {"idle", "member", "accept", "role", "del"},
           user : Users \cup {None}, proj : Projects \cup {None},
           new : Member, since : Nat, todo : SUBSET Users]

IdleWriter == [pc |-> "idle", user |-> None, proj |-> None,
               new |-> NotMember, since |-> 0, todo |-> {}]

\* members a project has when the system starts got their role's mask
Init ==
    /\ roles \in [Projects -> [Roles -> [mask : Masks, at : {0}]]]
    /\ \E joined \in [Users -> [Projects -> Roles \cup {None}]] :
         mem = [u \in Users |-> [p \in Projects |->
                  IF joined[u][p] = None THEN NotMember
                  ELSE [role |-> joined[u][p], custom |-> FALSE,
                        mask |-> roles[p][joined[u][p]].mask, at |-> 0]]]
    /\ invite = [u \in Users |-> [p \in Projects |-> NoInvite]]
    /\ cache = [u \in Users |-> NoEntries]
    /\ rs = [r \in Resolvers |-> IdleResolver]
    /\ ws = [w \in Writers |-> IdleWriter]
    /\ now = 0 /\ writes = 0 /\ excused = {}

Cached(u) == {p \in Projects : cache[u][p] # NoEntry}

-----------------------------------------------------------------------------
(* HybridResolver: Resolve, backfillAsync, backfillOnce.                   *)

\* the key does not answer for p: no entry, or (redis) GET fails
Miss(r) ==
    /\ rs[r].pc = "idle"
    /\ \E u \in Users, p \in Projects :
         /\ p \in Cached(u) => "redis" \in Faults
         /\ rs' = [rs EXCEPT ![r] = [IdleResolver EXCEPT !.pc = "load", !.user = u, !.proj = p]]
    /\ UNCHANGED <<database, cache, ws, now, writes, excused>>

\* the membership query; a non-member is refused and nothing is cached
Load(r) ==
    /\ rs[r].pc = "load"
    /\ LET found == Effective(rs[r].user, rs[r].proj) IN
         rs' = [rs EXCEPT ![r] = IF found = NoEntry THEN IdleResolver
                                 ELSE [@ EXCEPT !.pc = "watch", !.found = found]]
    /\ UNCHANGED <<database, cache, ws, now, writes, excused>>

\* mutant: the stamps are not compared
WatchOnly(r) ==
    /\ rs[r].pc = "watch"
    /\ rs' = [rs EXCEPT ![r] = [@ EXCEPT !.pc = "exec", !.seen = cache[rs[r].user]]]
    /\ UNCHANGED <<database, cache, ws, now, writes, excused>>

\* WATCH and GET: an entry with a later stamp is kept
Watch(r) ==
    /\ rs[r].pc = "watch"
    /\ rs' = [rs EXCEPT ![r] =
                IF cache[rs[r].user][rs[r].proj].at > rs[r].found.at
                THEN IdleResolver
                ELSE [@ EXCEPT !.pc = "exec", !.seen = cache[rs[r].user]]]
    /\ UNCHANGED <<database, cache, ws, now, writes, excused>>

\* a change of the key of the users us aborts the transactions watching it
Touched(us) == [r \in Resolvers |->
    IF rs[r].pc = "exec" /\ rs[r].user \in us THEN [rs[r] EXCEPT !.dirty = TRUE] ELSE rs[r]]

Store(r) ==
    LET u == rs[r].user
        p == rs[r].proj
        stale == rs[r].found.mask # Effective(u, p).mask
    IN /\ cache' = [cache EXCEPT ![u] = [rs[r].seen EXCEPT ![p] = rs[r].found]]
       /\ excused' = IF stale THEN excused \cup {<<u, p>>} ELSE excused \ {<<u, p>>}
       /\ rs' = [Touched({u}) EXCEPT ![r] = IdleResolver]

\* mutant: the map is written without WATCH
ExecUnwatched(r) ==
    /\ rs[r].pc = "exec"
    /\ Store(r)
    /\ UNCHANGED <<database, ws, now, writes>>

\* MULTI, SET of the whole map, EXEC; dropped if the key changed since WATCH
Exec(r) ==
    /\ rs[r].pc = "exec"
    /\ IF rs[r].dirty
       THEN rs' = [rs EXCEPT ![r] = IdleResolver] /\ UNCHANGED <<cache, excused>>
       ELSE Store(r)
    /\ UNCHANGED <<database, ws, now, writes>>

\* the query fails, BackfillTimeout, a Redis error, or the process stops
BackfillFails(r) ==
    /\ "redis" \in Faults
    /\ rs[r].pc # "idle"
    /\ rs' = [rs EXCEPT ![r] = IdleResolver]
    /\ UNCHANGED <<database, cache, ws, now, writes, excused>>

-----------------------------------------------------------------------------
(* Writing requests: check outside the transaction, commit, DEL.           *)

\* rows a role update has written and not yet committed
Locked(u, p) == \E w \in Writers :
    ws[w].pc = "role" /\ ws[w].proj = p /\ u \in ws[w].todo

\* cached resolutions that differ from what the database will say
Missed(us, mem1, roles1) == {c \in us \X Projects :
    /\ cache[c[1]][c[2]] # NoEntry
    /\ cache[c[1]][c[2]].mask # EffectiveOf(mem1[c[1]][c[2]], roles1[c[2]]).mask}

\* after the commit; with nobody to invalidate the request is done
Deleting(us) ==
    IF us = {} THEN IdleWriter ELSE [IdleWriter EXCEPT !.pc = "del", !.todo = us]

Begin(w, pc, u, p, new) ==
    /\ ws[w].pc = "idle" /\ writes < MaxWrites
    /\ writes' = writes + 1
    /\ ws' = [ws EXCEPT ![w] = [IdleWriter EXCEPT !.pc = pc, !.user = u, !.proj = p,
                                                  !.new = new, !.since = now]]
    /\ UNCHANGED <<database, cache, rs, now, excused>>

\* resolveRoleMask: a mask other than the role's makes the member custom
CheckMember(w) ==
    \E u \in Users, p \in Projects, role \in Roles, mask \in Masks :
        /\ mem[u][p] # NotMember
        /\ Begin(w, "member", u, p, [role |-> role, custom |-> mask # roles[p][role].mask,
                                     mask |-> mask, at |-> 0])

\* the member row after a transaction that began in [since, now]
Written(w, at) ==
    /\ ~Locked(ws[w].user, ws[w].proj)
    /\ at \in ws[w].since .. now
    /\ mem' = [mem EXCEPT ![ws[w].user] =
                 [@ EXCEPT ![ws[w].proj] = [ws[w].new EXCEPT !.at = at]]]

\* mutant: the resolver cache is not invalidated
UpdateMemberOnly(w) ==
    /\ ws[w].pc = "member"
    /\ \E at \in 0 .. MaxNow : Written(w, at)
    /\ ws' = [ws EXCEPT ![w] = IdleWriter]
    /\ UNCHANGED <<roles, invite, cache, rs, now, writes, excused>>

UpdateMember(w) ==
    /\ ws[w].pc = "member"
    /\ \E at \in 0 .. MaxNow : Written(w, at)
    /\ ws' = [ws EXCEPT ![w] = Deleting({ws[w].user})]
    /\ UNCHANGED <<roles, invite, cache, rs, now, writes, excused>>

\* members whose stored mask differs: those are the users to invalidate
Listed(p, role, mask) ==
    {u \in Users : /\ mem[u][p].role = role
                   /\ ~mem[u][p].custom
                   /\ mem[u][p].mask # mask}

UpdatingRole(p, role, mask) ==
    [IdleWriter EXCEPT !.pc = "role", !.proj = p, !.since = now,
                       !.new = [NotMember EXCEPT !.role = role, !.mask = mask],
                       !.todo = Listed(p, role, mask)]

\* UPDATE of the role's row, then of the listed members' rows
UpdateRole(w) ==
    /\ ws[w].pc = "idle" /\ writes < MaxWrites
    /\ \E p \in Projects, role \in Roles, mask \in Masks :
         /\ \A o \in Writers :
               ~(ws[o].pc = "role" /\ ws[o].proj = p /\ ws[o].new.role = role)
         /\ ws' = [ws EXCEPT ![w] = UpdatingRole(p, role, mask)]
    /\ writes' = writes + 1
    /\ UNCHANGED <<database, cache, rs, now, excused>>

CommitRole(w) ==
    LET p == ws[w].proj
        new == [mask |-> ws[w].new.mask, at |-> ws[w].since]
    IN /\ ws[w].pc = "role"
       /\ roles' = [roles EXCEPT ![p] = [@ EXCEPT ![ws[w].new.role] = new]]
       /\ mem' = [u \in Users |->
                     IF u \in ws[w].todo
                     THEN [mem[u] EXCEPT ![p] = [@ EXCEPT !.mask = new.mask, !.at = new.at]]
                     ELSE mem[u]]
       /\ ws' = [ws EXCEPT ![w] = Deleting(ws[w].todo)]
       /\ excused' = excused \cup Missed(Users \ ws[w].todo, mem', roles')
       /\ UNCHANGED <<invite, cache, rs, now, writes>>

\* CreateInvite: the invite carries the role's mask of that moment
CreateInvite(u, p) ==
    /\ mem[u][p] = NotMember /\ invite[u][p] = NoInvite
    /\ \E role \in Roles :
         invite' = [invite EXCEPT ![u] =
                      [@ EXCEPT ![p] = [role |-> role, mask |-> roles[p][role].mask]]]
    /\ UNCHANGED <<roles, mem, cache, rs, ws, now, writes, excused>>

\* cancelled, declined or expired
EndInvite(u, p) ==
    /\ invite[u][p] # NoInvite
    /\ invite' = [invite EXCEPT ![u] = [@ EXCEPT ![p] = NoInvite]]
    /\ UNCHANGED <<roles, mem, cache, rs, ws, now, writes, excused>>

\* GetInviteTarget: the invite is pending
CheckInvite(w) ==
    \E u \in Users, p \in Projects :
        /\ invite[u][p] # NoInvite
        /\ Begin(w, "accept", u, p, [role |-> invite[u][p].role, custom |-> FALSE,
                                     mask |-> invite[u][p].mask, at |-> 0])

\* MarkInviteAccepted, which may find no pending invite any more, and
\* UpsertProjectMember, which overwrites a membership that exists
AcceptInvite(w) ==
    LET u == ws[w].user
        p == ws[w].proj
        target == [role |-> ws[w].new.role, mask |-> ws[w].new.mask]
    IN /\ ws[w].pc = "accept"
       /\ \E at \in 0 .. MaxNow : Written(w, at)
       /\ invite' = IF invite[u][p] = target
                    THEN [invite EXCEPT ![u] = [@ EXCEPT ![p] = NoInvite]] ELSE invite
       /\ ws' = [ws EXCEPT ![w] = IdleWriter]
       /\ excused' = excused \cup Missed({u}, mem', roles)
       /\ UNCHANGED <<roles, cache, rs, now, writes>>

\* mutant: project scopes are passed where users are expected
ScopesOf(scopes) == scopes

UsersOf(scopes) == {c[1] : c \in scopes}

\* RunStartup of a replica: stored masks of non-custom members are aligned
Resync(w) ==
    LET out == {c \in Users \X Projects :
                  LET m == mem[c[1]][c[2]] IN
                    m.role # None /\ ~m.custom /\ m.mask # roles[c[2]][m.role].mask}
    IN /\ ws[w].pc = "idle" /\ out # {}
       /\ \A o \in Writers : ws[o].pc # "role"
       /\ mem' = [u \in Users |-> [p \in Projects |->
                    IF <<u, p>> \in out
                    THEN [mem[u][p] EXCEPT !.mask = roles[p][mem[u][p].role].mask, !.at = now]
                    ELSE mem[u][p]]]
       /\ ws' = [ws EXCEPT ![w] = Deleting(UsersOf(out))]
       /\ UNCHANGED <<roles, invite, cache, rs, now, writes, excused>>

\* a statement or the commit fails, or the process stops
RollBack(w) ==
    /\ "tx" \in Faults
    /\ ws[w].pc \in {"member", "accept", "role"}
    /\ ws' = [ws EXCEPT ![w] = IdleWriter]
    /\ UNCHANGED <<database, cache, rs, now, writes, excused>>

Forget(us) ==
    /\ cache' = [u \in Users |-> IF u \in us THEN NoEntries ELSE cache[u]]
    /\ rs' = Touched({u \in us : Cached(u) # {}})
    /\ excused' = excused \ (us \X Projects)

\* InvalidateResolverUserCache
Invalidate(w) ==
    /\ ws[w].pc = "del"
    /\ Forget(ws[w].todo)
    /\ ws' = [ws EXCEPT ![w] = IdleWriter]
    /\ UNCHANGED <<database, now, writes>>

\* DEL fails and its error is dropped, or the process stops before it
InvalidateFails(w) ==
    /\ "redis" \in Faults
    /\ ws[w].pc = "del"
    /\ excused' = excused \cup Missed(ws[w].todo, mem, roles)
    /\ ws' = [ws EXCEPT ![w] = IdleWriter]
    /\ UNCHANGED <<database, cache, rs, now, writes>>

-----------------------------------------------------------------------------
\* the key of u reaches RedisTTL
KeyExpires(u) ==
    /\ Cached(u) # {}
    /\ Forget({u})
    /\ UNCHANGED <<database, ws, now, writes>>

Tick ==
    /\ now < MaxNow
    /\ now' = now + 1
    /\ UNCHANGED <<database, cache, rs, ws, writes, excused>>

ResolverStep(r) == Load(r) \/ Watch(r) \/ Exec(r)

WriterStep(w) == UpdateMember(w) \/ CommitRole(w) \/ AcceptInvite(w) \/ Invalidate(w)

Next ==
    \/ \E r \in Resolvers : Miss(r) \/ ResolverStep(r) \/ BackfillFails(r)
    \/ \E w \in Writers :
         \/ CheckMember(w) \/ UpdateRole(w) \/ CheckInvite(w) \/ Resync(w)
         \/ WriterStep(w) \/ RollBack(w) \/ InvalidateFails(w)
    \/ \E u \in Users, p \in Projects : CreateInvite(u, p) \/ EndInvite(u, p)
    \/ \E u \in Users : KeyExpires(u)
    \/ Tick

Spec == Init /\ [][Next]_vars

-----------------------------------------------------------------------------
TypeOK ==
    /\ roles \in [Projects -> [Roles -> [mask : Masks, at : Nat]]]
    /\ mem \in [Users -> [Projects -> Member]]
    /\ invite \in [Users -> [Projects -> Invite]]
    /\ cache \in [Users -> [Projects -> Entry]]
    /\ rs \in [Resolvers -> Resolver]
    /\ ws \in [Writers -> Writer]
    /\ now \in Nat /\ writes \in Nat
    /\ excused \subseteq Users \X Projects

(* resolver.go backfillOnce and service.go invalidatePermissionScopes: a    *)
(* cached mask that differs from the database is about to be deleted, or    *)
(* was left by one of the known causes: a lost DEL, a backfill that read    *)
(* before the commit and wrote after the DEL, a role update that did not    *)
(* list the member, an accepted invite.                                     *)
StaleEntryExplained ==
    \A u \in Users, p \in Projects :
        p \in Cached(u) /\ cache[u][p].mask # Effective(u, p).mask
            => \/ <<u, p>> \in excused
               \/ \E w \in Writers : ws[w].pc = "del" /\ u \in ws[w].todo

(* backfillOnce ("stale-safe"): an entry is never replaced by one with an   *)
(* earlier updated_at; what is older comes back only after a DEL.           *)
EntriesNeverGoBack ==
    [][\A u \in Users, p \in Projects :
          p \in Cached(u) /\ cache'[u][p] # NoEntry
            => cache[u][p].at <= cache'[u][p].at]_vars

(* The map of a user is read and written back as a whole, yet a backfill    *)
(* for one project neither loses nor revives the entry of another.          *)
OtherProjectsKept ==
    [][\A u \in Users, p, q \in Projects :
          p # q /\ cache'[u][p] # cache[u][p] /\ cache'[u][q] # cache[u][q]
            => cache'[u] = NoEntries]_vars
=============================================================================
