---------------------------- MODULE ProcessProofs ----------------------------
(***************************************************************************)
(* Proofs about one process: the permissions it resolves and caches        *)
(* (PermissionCache) and its way from main() to its exit (Startup).        *)
(*                                                                         *)
(* PermissionCache, for every number of users, projects, roles,            *)
(* resolutions and writing requests: a backfill that may still write holds *)
(* the map as it is (WATCH) and the resolution it stores is not older than *)
(* the entry it replaces; from this follow the two action properties.      *)
(*                                                                         *)
(* Startup, for every set of environments and of requests: each stage is   *)
(* reached only from the one before it, and with what that one has opened, *)
(* checked and left in flight.                                             *)
(***************************************************************************)
EXTENDS PermissionCache, Startup, TLAPS


\* requests under way name users, projects and masks
Addressed ==
    /\ \A r \in Resolvers : rs[r].pc # "idle" => rs[r].user \in Users /\ rs[r].proj \in Projects
    /\ \A w \in Writers :
         /\ ws[w].pc \in {"member", "accept"} => ws[w].user \in Users /\ ws[w].proj \in Projects
         /\ ws[w].pc = "role" => ws[w].new.mask \in Masks

\* what WATCH guarantees to a transaction that was not aborted
MayWrite(r) == rs[r].pc = "exec" /\ ~rs[r].dirty

Watching ==
    \A r \in Resolvers : MayWrite(r) =>
        /\ rs[r].seen = cache[rs[r].user]
        /\ cache[rs[r].user][rs[r].proj].at <= rs[r].found.at

IInv == TypeOK /\ Addressed /\ Watching

-----------------------------------------------------------------------------
LEMMA EmptyTyped ==
  /\ NoEntry \in Entry /\ NoEntries \in [Projects -> Entry]
  /\ NotMember \in Member
  /\ IdleResolver \in Resolver /\ IdleResolver.pc = "idle"
  /\ IdleWriter \in Writer /\ IdleWriter.pc = "idle"
<1>1. NoEntry \in Entry
  BY DEF NoEntry, Entry
<1>2. NoEntries \in [Projects -> Entry]
  BY <1>1 DEF NoEntries
<1>3. NotMember \in Member
  BY DEF NotMember, Member
<1>4. IdleResolver \in Resolver /\ IdleResolver.pc = "idle"
  BY <1>1, <1>2 DEF IdleResolver, Resolver
<1>5. IdleWriter \in Writer /\ IdleWriter.pc = "idle"
  BY <1>3 DEF IdleWriter, Writer
<1> QED BY <1>1, <1>2, <1>3, <1>4, <1>5

\* relational.go Resolve yields an entry
LEMMA EffectiveTyped ==
  ASSUME TypeOK, NEW u \in Users, NEW p \in Projects
  PROVE  Effective(u, p) \in Entry
<1> DEFINE m == mem[u][p]
<1>1. m \in Member /\ roles[p] \in [Roles -> [mask : Masks, at : Nat]]
  BY DEF TypeOK
<1>2. CASE m.role = None
  BY <1>2, EmptyTyped DEF Effective, EffectiveOf
<1>3. CASE m.role # None /\ m.custom
  BY <1>1, <1>3 DEF Effective, EffectiveOf, Entry, Member
<1>4. CASE m.role # None /\ ~m.custom
  <2>1. m.role \in Roles /\ m.at \in Nat
    BY <1>1, <1>4 DEF Member
  <2>2. roles[p][m.role].mask \in Masks /\ roles[p][m.role].at \in Nat
    BY <1>1, <2>1
  <2> QED BY <1>4, <2>1, <2>2 DEF Effective, EffectiveOf, Entry, Later
<1> QED BY <1>2, <1>3, <1>4

\* marking transactions as aborted changes nothing else
LEMMA TouchedKeeps ==
  ASSUME TypeOK, NEW us
  PROVE  /\ Touched(us) \in [Resolvers -> Resolver]
         /\ \A r \in Resolvers :
              LET t == Touched(us)[r] IN
                /\ t.pc = rs[r].pc /\ t.user = rs[r].user /\ t.proj = rs[r].proj
                /\ t.found = rs[r].found /\ t.seen = rs[r].seen
                /\ ~t.dirty => ~rs[r].dirty /\ (rs[r].pc = "exec" => rs[r].user \notin us)
<1> SUFFICES ASSUME NEW r \in Resolvers
             PROVE  LET t == Touched(us)[r] IN
                      /\ t \in Resolver
                      /\ t.pc = rs[r].pc /\ t.user = rs[r].user /\ t.proj = rs[r].proj
                      /\ t.found = rs[r].found /\ t.seen = rs[r].seen
                      /\ ~t.dirty => ~rs[r].dirty /\ (rs[r].pc = "exec" => rs[r].user \notin us)
  BY DEF Touched
<1>1. rs[r] \in Resolver
  BY DEF TypeOK
<1>2. CASE rs[r].pc = "exec" /\ rs[r].user \in us
  <2>1. Touched(us)[r] = [rs[r] EXCEPT !.dirty = TRUE]
    BY <1>2 DEF Touched
  <2> QED BY <1>1, <2>1 DEF Resolver
<1>3. CASE ~(rs[r].pc = "exec" /\ rs[r].user \in us)
  <2>1. Touched(us)[r] = rs[r]
    BY <1>3 DEF Touched
  <2> QED BY <1>1, <1>3, <2>1
<1> QED BY <1>2, <1>3

LEMMA InitInv == Init => IInv
<1> SUFFICES ASSUME Init PROVE IInv
  OBVIOUS
<1>1. PICK joined \in [Users -> [Projects -> Roles \cup {None}]] :
        mem = [u \in Users |-> [p \in Projects |->
                 IF joined[u][p] = None THEN NotMember
                 ELSE [role |-> joined[u][p], custom |-> FALSE,
                       mask |-> roles[p][joined[u][p]].mask, at |-> 0]]]
  BY DEF Init
<1>2. roles \in [Projects -> [Roles -> [mask : Masks, at : Nat]]]
  BY DEF Init
<1>3. mem \in [Users -> [Projects -> Member]]
  <2> SUFFICES ASSUME NEW u \in Users, NEW p \in Projects, joined[u][p] # None
               PROVE  [role |-> joined[u][p], custom |-> FALSE,
                       mask |-> roles[p][joined[u][p]].mask, at |-> 0] \in Member
    BY <1>1, EmptyTyped
  <2>1. joined[u][p] \in Roles
    OBVIOUS
  <2>2. roles[p][joined[u][p]].mask \in Masks
    BY <1>2, <2>1
  <2> QED BY <2>1, <2>2 DEF Member
<1>4. invite \in [Users -> [Projects -> Invite]]
  BY DEF Init, NoInvite, Invite
<1>5. /\ cache \in [Users -> [Projects -> Entry]]
      /\ rs \in [Resolvers -> Resolver] /\ ws \in [Writers -> Writer]
  BY EmptyTyped DEF Init
<1>6. now \in Nat /\ writes \in Nat /\ excused \subseteq Users \X Projects
  BY DEF Init
<1>7. TypeOK
  BY <1>2, <1>3, <1>4, <1>5, <1>6 DEF TypeOK
<1>8. \A r \in Resolvers : rs[r].pc = "idle"
  BY EmptyTyped DEF Init
<1>9. \A w \in Writers : ws[w].pc = "idle"
  BY EmptyTyped DEF Init
<1> QED BY <1>7, <1>8, <1>9 DEF IInv, Addressed, Watching, MayWrite

-----------------------------------------------------------------------------
(* Resolutions.                                                            *)

\* one resolution moves and the cache stays
LEMMA ResolverMoves ==
  ASSUME IInv, NEW r \in Resolvers, NEW next \in Resolver,
         rs' = [rs EXCEPT ![r] = next],
         next.pc # "idle" => next.user \in Users /\ next.proj \in Projects,
         next.pc = "exec" /\ ~next.dirty =>
            /\ next.seen = cache[next.user]
            /\ cache[next.user][next.proj].at <= next.found.at,
         UNCHANGED <<database, cache, ws, now, writes, excused>>
  PROVE  IInv'
<1>1. TypeOK'
  BY DEF IInv, TypeOK, database
<1>2. rs'[r] = next /\ \A s \in Resolvers \ {r} : rs'[s] = rs[s]
  BY DEF IInv, TypeOK
<1>3. Addressed'
  BY <1>2 DEF IInv, Addressed
<1>4. Watching'
  BY <1>2 DEF IInv, Watching, MayWrite
<1> QED BY <1>1, <1>3, <1>4 DEF IInv

LEMMA MissInv ==
  ASSUME IInv, NEW r \in Resolvers, Miss(r) PROVE IInv'
<1>1. PICK u \in Users, p \in Projects :
        rs' = [rs EXCEPT ![r] = [IdleResolver EXCEPT !.pc = "load", !.user = u, !.proj = p]]
  BY DEF Miss
<1> DEFINE next == [IdleResolver EXCEPT !.pc = "load", !.user = u, !.proj = p]
<1>2. next \in Resolver /\ next.pc = "load" /\ next.user = u /\ next.proj = p
  BY EmptyTyped DEF IdleResolver, Resolver
<1> HIDE DEF next
<1>3. rs' = [rs EXCEPT ![r] = next]
  BY <1>1 DEF next
<1> QED BY <1>2, <1>3, ResolverMoves DEF Miss

LEMMA LoadInv ==
  ASSUME IInv, NEW r \in Resolvers, Load(r) PROVE IInv'
<1> DEFINE found == Effective(rs[r].user, rs[r].proj)
           next == IF found = NoEntry THEN IdleResolver
                   ELSE [rs[r] EXCEPT !.pc = "watch", !.found = found]
<1>1. rs[r].user \in Users /\ rs[r].proj \in Projects /\ rs[r] \in Resolver
  BY DEF Load, IInv, TypeOK, Addressed
<1>2. found \in Entry
  BY <1>1, EffectiveTyped DEF IInv
<1>3. rs' = [rs EXCEPT ![r] = next]
  BY DEF Load
<1> HIDE DEF found
<1>4. next \in Resolver /\ next.pc # "exec"
      /\ (next.pc # "idle" => next.user \in Users /\ next.proj \in Projects)
  <2>1. CASE found = NoEntry
    BY <2>1, EmptyTyped
  <2>2. CASE found # NoEntry
    <3>1. next = [rs[r] EXCEPT !.pc = "watch", !.found = found]
      BY <2>2
    <3> HIDE DEF next
    <3> QED BY <1>1, <1>2, <3>1 DEF Resolver
  <2> QED BY <2>1, <2>2
<1> HIDE DEF next
<1> QED BY <1>3, <1>4, ResolverMoves DEF Load

LEMMA WatchInv ==
  ASSUME IInv, NEW r \in Resolvers, Watch(r) PROVE IInv'
<1> DEFINE u == rs[r].user
           older == cache[u][rs[r].proj].at > rs[r].found.at
           next == IF older THEN IdleResolver
                   ELSE [rs[r] EXCEPT !.pc = "exec", !.seen = cache[u]]
<1>1. u \in Users /\ rs[r].proj \in Projects /\ rs[r] \in Resolver
  BY DEF Watch, IInv, TypeOK, Addressed
<1>2. rs' = [rs EXCEPT ![r] = next]
  BY DEF Watch
<1>3. CASE older
  <2>1. next = IdleResolver
    BY <1>3
  <2> HIDE DEF next
  <2> QED BY <1>2, <2>1, EmptyTyped, ResolverMoves DEF Watch
<1>4. CASE ~older
  <2>1. next = [rs[r] EXCEPT !.pc = "exec", !.seen = cache[u]]
    BY <1>4
  <2>2. cache[u] \in [Projects -> Entry]
    BY <1>1 DEF IInv, TypeOK
  <2>3. cache[u][rs[r].proj].at \in Nat /\ rs[r].found.at \in Nat
    BY <1>1, <2>2 DEF Resolver, Entry
  <2>4. cache[u][rs[r].proj].at <= rs[r].found.at
    BY <1>4, <2>3
  <2> HIDE DEF next, older
  <2>5. /\ next \in Resolver /\ next.user = u /\ next.proj = rs[r].proj
        /\ next.seen = cache[u] /\ next.found = rs[r].found
    BY <1>1, <2>1, <2>2 DEF Resolver
  <2> HIDE DEF u
  <2> QED BY <1>1, <1>2, <2>4, <2>5, ResolverMoves DEF Watch
<1> QED BY <1>3, <1>4

LEMMA BackfillFailsInv ==
  ASSUME IInv, NEW r \in Resolvers, BackfillFails(r) PROVE IInv'
BY EmptyTyped, ResolverMoves DEF BackfillFails

-----------------------------------------------------------------------------
(* Changes of the cache.                                                   *)

\* what a backfill that was not aborted does to the map of its user
LEMMA StoreReplacesOne ==
  ASSUME IInv, NEW r \in Resolvers, MayWrite(r), Store(r)
  PROVE  /\ rs[r].user \in Users /\ rs[r].proj \in Projects /\ rs[r].found \in Entry
         /\ cache' = [cache EXCEPT ![rs[r].user] =
                        [cache[rs[r].user] EXCEPT ![rs[r].proj] = rs[r].found]]
         /\ cache[rs[r].user][rs[r].proj].at <= rs[r].found.at
<1>1. /\ rs[r].user \in Users /\ rs[r].proj \in Projects /\ rs[r] \in Resolver
      /\ rs[r].seen = cache[rs[r].user]
      /\ cache[rs[r].user][rs[r].proj].at <= rs[r].found.at
  BY DEF MayWrite, IInv, TypeOK, Addressed, Watching
<1> QED BY <1>1 DEF Store, Resolver

\* the key of the users us changes and their watchers are aborted
LEMMA Aborted ==
  ASSUME IInv, NEW us, NEW next \in [Resolvers -> Resolver],
         \A s \in Resolvers : next[s] = Touched(us)[s] \/ next[s].pc = "idle",
         rs' = next,
         cache' \in [Users -> [Projects -> Entry]],
         \A u \in Users \ us : cache'[u] = cache[u]
  PROVE  /\ \A s \in Resolvers : rs'[s].pc # "idle" =>
              rs'[s].user \in Users /\ rs'[s].proj \in Projects
         /\ Watching'
<1>1. SUFFICES ASSUME NEW s \in Resolvers, next[s].pc # "idle"
               PROVE  /\ next[s].user \in Users /\ next[s].proj \in Projects
                      /\ next[s].pc = "exec" /\ ~next[s].dirty =>
                           /\ next[s].seen = cache'[next[s].user]
                           /\ cache'[next[s].user][next[s].proj].at <= next[s].found.at
  BY DEF Watching, MayWrite
<1>2. /\ next[s].pc = rs[s].pc /\ next[s].user = rs[s].user /\ next[s].proj = rs[s].proj
      /\ next[s].found = rs[s].found /\ next[s].seen = rs[s].seen
      /\ ~next[s].dirty => ~rs[s].dirty /\ (rs[s].pc = "exec" => rs[s].user \notin us)
  BY <1>1, TouchedKeeps DEF IInv
<1>3. next[s].user \in Users /\ next[s].proj \in Projects
  BY <1>1, <1>2 DEF IInv, Addressed
<1>4. ASSUME next[s].pc = "exec", ~next[s].dirty
      PROVE  /\ next[s].seen = cache'[next[s].user]
             /\ cache'[next[s].user][next[s].proj].at <= next[s].found.at
  <2>1. MayWrite(s) /\ rs[s].user \in Users \ us
    BY <1>2, <1>3, <1>4 DEF MayWrite
  <2> QED BY <1>2, <2>1 DEF IInv, Watching
<1> QED BY <1>3, <1>4

LEMMA ExecInv ==
  ASSUME IInv, NEW r \in Resolvers, Exec(r) PROVE IInv'
<1>1. CASE rs[r].dirty
  BY <1>1, EmptyTyped, ResolverMoves DEF Exec
<1>2. CASE ~rs[r].dirty
  <2> DEFINE u == rs[r].user
             p == rs[r].proj
             next == [Touched({u}) EXCEPT ![r] = IdleResolver]
  <2>1. /\ u \in Users /\ p \in Projects
        /\ cache' = [cache EXCEPT ![u] = [cache[u] EXCEPT ![p] = rs[r].found]]
        /\ rs[r].found \in Entry
    BY <1>2, StoreReplacesOne DEF Exec, MayWrite
  <2>2. /\ rs' = next /\ excused' \subseteq excused \cup {<<u, p>>}
        /\ UNCHANGED <<database, ws, now, writes>>
    BY <1>2 DEF Exec, Store
  <2>3. /\ cache' \in [Users -> [Projects -> Entry]]
        /\ \A v \in Users \ {u} : cache'[v] = cache[v]
    BY <2>1 DEF IInv, TypeOK
  <2>4. next \in [Resolvers -> Resolver]
    BY TouchedKeeps, EmptyTyped DEF IInv
  <2>5. \A s \in Resolvers : next[s] = Touched({u})[s] \/ next[s].pc = "idle"
    BY TouchedKeeps, EmptyTyped DEF IInv
  <2> HIDE DEF next
  <2>6. /\ \A s \in Resolvers : rs'[s].pc # "idle" =>
             rs'[s].user \in Users /\ rs'[s].proj \in Projects
        /\ Watching'
    BY <2>2, <2>3, <2>4, <2>5, Aborted
  <2>7. TypeOK'
    BY <2>1, <2>2, <2>3, <2>4 DEF IInv, TypeOK, database
  <2>8. Addressed'
    BY <2>2, <2>6 DEF IInv, Addressed
  <2> QED BY <2>6, <2>7, <2>8 DEF IInv
<1> QED BY <1>1, <1>2

\* DEL and expiry drop whole maps
LEMMA ForgetInv ==
  ASSUME IInv, NEW us \in SUBSET Users, Forget(us),
         ws' \in [Writers -> Writer],
         \A w \in Writers : ws'[w] = ws[w] \/ ws'[w].pc = "idle",
         UNCHANGED <<database, now, writes>>
  PROVE  IInv'
<1> DEFINE held == {u \in us : Cached(u) # {}}
           next == Touched(held)
<1>1. cache' = [u \in Users |-> IF u \in us THEN NoEntries ELSE cache[u]]
  BY DEF Forget
<1>2. cache' \in [Users -> [Projects -> Entry]]
  BY <1>1, EmptyTyped DEF IInv, TypeOK
<1>3. ASSUME NEW u \in Users \ held PROVE cache'[u] = cache[u]
  <2>1. CASE u \notin us
    BY <1>1, <2>1
  <2>2. CASE u \in us
    <3>1. cache[u] \in [Projects -> Entry] /\ \A p \in Projects : cache[u][p] = NoEntry
      BY <1>3, <2>2 DEF Cached, IInv, TypeOK
    <3> QED BY <1>1, <2>2, <3>1 DEF NoEntries
  <2> QED BY <2>1, <2>2
<1>4. rs' = next /\ next \in [Resolvers -> Resolver]
  BY TouchedKeeps DEF IInv, Forget
<1> HIDE DEF held
<1>5. /\ \A s \in Resolvers : rs'[s].pc # "idle" =>
           rs'[s].user \in Users /\ rs'[s].proj \in Projects
      /\ Watching'
  BY <1>2, <1>3, <1>4, Aborted
<1> HIDE DEF next
<1>6. TypeOK'
  BY <1>2, <1>4 DEF IInv, TypeOK, database, Forget
<1>7. Addressed'
  BY <1>5 DEF IInv, Addressed
<1> QED BY <1>5, <1>6, <1>7 DEF IInv

-----------------------------------------------------------------------------
(* Writing requests.                                                       *)

\* one request moves, cache and resolutions stay
LEMMA WriterMoves ==
  ASSUME IInv, NEW w \in Writers, NEW next \in Writer,
         ws' = [ws EXCEPT ![w] = next],
         next.pc \in {"member", "accept"} => next.user \in Users /\ next.proj \in Projects,
         next.pc = "role" => next.new.mask \in Masks,
         roles' \in [Projects -> [Roles -> [mask : Masks, at : Nat]]],
         mem' \in [Users -> [Projects -> Member]],
         invite' \in [Users -> [Projects -> Invite]],
         now' \in Nat, writes' \in Nat, excused' \subseteq Users \X Projects,
         UNCHANGED <<cache, rs>>
  PROVE  IInv'
<1>1. TypeOK'
  BY DEF IInv, TypeOK
<1>2. ws'[w] = next /\ \A o \in Writers \ {w} : ws'[o] = ws[o]
  BY DEF IInv, TypeOK
<1>3. Addressed'
  BY <1>2 DEF IInv, Addressed
<1>4. Watching'
  BY DEF IInv, Watching, MayWrite
<1> QED BY <1>1, <1>3, <1>4 DEF IInv

LEMMA DeletingTyped ==
  ASSUME NEW us \in SUBSET Users
  PROVE  Deleting(us) \in Writer /\ Deleting(us).pc \in {"idle", "del"}
BY EmptyTyped DEF Deleting, IdleWriter, Writer

LEMMA MissedTyped ==
  ASSUME NEW us \in SUBSET Users, NEW mem1, NEW roles1
  PROVE  Missed(us, mem1, roles1) \subseteq Users \X Projects
BY DEF Missed

LEMMA BeginInv ==
  ASSUME IInv, NEW w \in Writers, NEW state \in {"member", "accept"},
         NEW u \in Users, NEW p \in Projects, NEW new \in Member, Begin(w, state, u, p, new)
  PROVE  IInv'
<1> DEFINE next == [IdleWriter EXCEPT !.pc = state, !.user = u, !.proj = p,
                                      !.new = new, !.since = now]
<1>1. now \in Nat /\ writes \in Nat
  BY DEF IInv, TypeOK
<1>2. /\ next \in Writer /\ next.pc = state /\ next.user = u /\ next.proj = p
  BY <1>1 DEF IdleWriter, Writer
<1>3. ws' = [ws EXCEPT ![w] = next]
  BY DEF Begin
<1>4. writes' \in Nat
  BY <1>1 DEF Begin
<1> HIDE DEF next
<1>5. /\ roles' = roles /\ mem' = mem /\ invite' = invite
      /\ UNCHANGED <<cache, rs, now, excused>>
  BY DEF Begin, database
<1> QED BY <1>2, <1>3, <1>4, <1>5, WriterMoves DEF IInv, TypeOK

LEMMA CheckMemberInv ==
  ASSUME IInv, NEW w \in Writers, CheckMember(w) PROVE IInv'
<1>1. PICK u \in Users, p \in Projects, role \in Roles, mask \in Masks :
        Begin(w, "member", u, p, [role |-> role, custom |-> mask # roles[p][role].mask,
                                  mask |-> mask, at |-> 0])
  BY DEF CheckMember
<1>2. [role |-> role, custom |-> mask # roles[p][role].mask,
       mask |-> mask, at |-> 0] \in Member
  BY DEF Member
<1> QED BY <1>1, <1>2, BeginInv

LEMMA CheckInviteInv ==
  ASSUME IInv, NEW w \in Writers, CheckInvite(w) PROVE IInv'
<1>1. PICK u \in Users, p \in Projects :
        Begin(w, "accept", u, p, [role |-> invite[u][p].role, custom |-> FALSE,
                                  mask |-> invite[u][p].mask, at |-> 0])
  BY DEF CheckInvite
<1>2. invite[u][p] \in Invite
  BY DEF IInv, TypeOK
<1>3. [role |-> invite[u][p].role, custom |-> FALSE,
       mask |-> invite[u][p].mask, at |-> 0] \in Member
  BY <1>2 DEF Invite, Member
<1> QED BY <1>1, <1>3, BeginInv

\* the member row a transaction writes
LEMMA WrittenTyped ==
  ASSUME TypeOK, NEW w \in Writers, NEW stamp \in 0 .. MaxNow, Written(w, stamp)
  PROVE  mem' \in [Users -> [Projects -> Member]]
<1>1. stamp \in Nat /\ ws[w].new \in Member
  BY BoundsAssumption DEF TypeOK, Writer
<1>2. [ws[w].new EXCEPT !.at = stamp] \in Member
  BY <1>1 DEF Member
<1> QED BY <1>2 DEF Written, TypeOK

LEMMA UpdateMemberInv ==
  ASSUME IInv, NEW w \in Writers, UpdateMember(w) PROVE IInv'
<1>1. PICK stamp \in 0 .. MaxNow : Written(w, stamp)
  BY DEF UpdateMember
<1>2. mem' \in [Users -> [Projects -> Member]]
  BY <1>1, WrittenTyped DEF IInv
<1>3. {ws[w].user} \in SUBSET Users
  BY DEF UpdateMember, IInv, Addressed
<1>4. ws' = [ws EXCEPT ![w] = Deleting({ws[w].user})]
      /\ UNCHANGED <<roles, invite, cache, rs, now, writes, excused>>
  BY DEF UpdateMember
<1> QED BY <1>2, <1>3, <1>4, DeletingTyped, WriterMoves DEF IInv, TypeOK

LEMMA UpdateRoleInv ==
  ASSUME IInv, NEW w \in Writers, UpdateRole(w) PROVE IInv'
<1>1. PICK p \in Projects, role \in Roles, mask \in Masks :
        ws' = [ws EXCEPT ![w] = UpdatingRole(p, role, mask)]
  BY DEF UpdateRole
<1> DEFINE new == [NotMember EXCEPT !.role = role, !.mask = mask]
           listed == Listed(p, role, mask)
           next == [IdleWriter EXCEPT !.pc = "role", !.proj = p, !.since = now,
                                      !.new = new, !.todo = listed]
<1>2. new \in Member /\ new.mask = mask
  BY DEF NotMember, Member
<1>3. listed \in SUBSET Users /\ now \in Nat /\ writes \in Nat
  BY DEF Listed, IInv, TypeOK
<1>4. ws' = [ws EXCEPT ![w] = next]
  BY <1>1 DEF UpdatingRole
<1> HIDE DEF new, listed
<1>5. next \in Writer /\ next.pc = "role" /\ next.new.mask \in Masks
  BY <1>2, <1>3 DEF IdleWriter, Writer
<1>6. writes' \in Nat /\ UNCHANGED <<roles, mem, invite, cache, rs, now, excused>>
  BY <1>3 DEF UpdateRole, database
<1> HIDE DEF next
<1> QED BY <1>4, <1>5, <1>6, WriterMoves DEF IInv, TypeOK

LEMMA CommitRoleInv ==
  ASSUME IInv, NEW w \in Writers, CommitRole(w) PROVE IInv'
<1> DEFINE p == ws[w].proj
           new == [mask |-> ws[w].new.mask, at |-> ws[w].since]
<1>1. /\ ws[w] \in Writer /\ ws[w].new.mask \in Masks /\ ws[w].since \in Nat
      /\ ws[w].todo \in SUBSET Users
  BY DEF CommitRole, IInv, TypeOK, Addressed, Writer
<1>2. /\ roles' = [roles EXCEPT ![p] = [@ EXCEPT ![ws[w].new.role] = new]]
      /\ mem' = [u \in Users |->
                   IF u \in ws[w].todo
                   THEN [mem[u] EXCEPT ![p] = [@ EXCEPT !.mask = new.mask, !.at = new.at]]
                   ELSE mem[u]]
      /\ ws' = [ws EXCEPT ![w] = Deleting(ws[w].todo)]
      /\ excused' = excused \cup Missed(Users \ ws[w].todo, mem', roles')
      /\ UNCHANGED <<invite, cache, rs, now, writes>>
  BY DEF CommitRole
<1>3. /\ new \in [mask : Masks, at : Nat]
      /\ new.mask \in Masks /\ new.at \in Nat
  BY <1>1
<1> HIDE DEF new
<1>4. roles' \in [Projects -> [Roles -> [mask : Masks, at : Nat]]]
  BY <1>2, <1>3 DEF IInv, TypeOK
<1>5. mem' \in [Users -> [Projects -> Member]]
  <2> SUFFICES ASSUME NEW u \in Users, p \in Projects
               PROVE  [mem[u][p] EXCEPT !.mask = new.mask, !.at = new.at] \in Member
    BY <1>2 DEF IInv, TypeOK
  <2>1. mem[u][p] \in Member
    BY DEF IInv, TypeOK
  <2> HIDE DEF p
  <2> QED BY <1>3, <2>1 DEF Member
<1>6. excused' \subseteq Users \X Projects
  BY <1>2, MissedTyped DEF IInv, TypeOK
<1> QED BY <1>1, <1>2, <1>4, <1>5, <1>6, DeletingTyped, WriterMoves DEF IInv, TypeOK

LEMMA AcceptInviteInv ==
  ASSUME IInv, NEW w \in Writers, AcceptInvite(w) PROVE IInv'
<1> DEFINE u == ws[w].user
           p == ws[w].proj
<1>1. PICK stamp \in 0 .. MaxNow : Written(w, stamp)
  BY DEF AcceptInvite
<1>2. mem' \in [Users -> [Projects -> Member]]
  BY <1>1, WrittenTyped DEF IInv
<1>3. {u} \in SUBSET Users
  BY DEF AcceptInvite, IInv, Addressed
<1>4. NoInvite \in Invite
  BY DEF NoInvite, Invite
<1>5. invite' = [invite EXCEPT ![u] = [@ EXCEPT ![p] = NoInvite]] \/ invite' = invite
  BY DEF AcceptInvite
<1>6. invite' \in [Users -> [Projects -> Invite]]
  <2>1. invite \in [Users -> [Projects -> Invite]]
    BY DEF IInv, TypeOK
  <2> HIDE DEF u, p
  <2> QED BY <1>4, <1>5, <2>1
<1>7. /\ ws' = [ws EXCEPT ![w] = IdleWriter]
      /\ excused' = excused \cup Missed({u}, mem', roles)
      /\ UNCHANGED <<roles, cache, rs, now, writes>>
  BY DEF AcceptInvite
<1>8. excused' \subseteq Users \X Projects
  BY <1>3, <1>7, MissedTyped DEF IInv, TypeOK
<1> QED BY <1>2, <1>6, <1>7, <1>8, EmptyTyped, WriterMoves DEF IInv, TypeOK

LEMMA ResyncInv ==
  ASSUME IInv, NEW w \in Writers, Resync(w) PROVE IInv'
<1> DEFINE out == {c \in Users \X Projects :
                     LET m == mem[c[1]][c[2]] IN
                       m.role # None /\ ~m.custom /\ m.mask # roles[c[2]][m.role].mask}
<1>1. /\ mem' = [u \in Users |-> [p \in Projects |->
                   IF <<u, p>> \in out
                   THEN [mem[u][p] EXCEPT !.mask = roles[p][mem[u][p].role].mask, !.at = now]
                   ELSE mem[u][p]]]
      /\ ws' = [ws EXCEPT ![w] = Deleting(UsersOf(out))]
      /\ UNCHANGED <<roles, invite, cache, rs, now, writes, excused>>
  BY DEF Resync
<1>2. UsersOf(out) \in SUBSET Users
  BY DEF UsersOf
<1>3. ASSUME NEW u \in Users, NEW p \in Projects, <<u, p>> \in out
      PROVE  [mem[u][p] EXCEPT !.mask = roles[p][mem[u][p].role].mask, !.at = now] \in Member
  <2>1. mem[u][p] \in Member /\ mem[u][p].role # None /\ now \in Nat
        /\ roles[p] \in [Roles -> [mask : Masks, at : Nat]]
    BY <1>3 DEF IInv, TypeOK
  <2>2. roles[p][mem[u][p].role].mask \in Masks
    BY <2>1 DEF Member
  <2> QED BY <2>1, <2>2 DEF Member
<1> HIDE DEF out
<1>4. mem' \in [Users -> [Projects -> Member]]
  BY <1>1, <1>3 DEF IInv, TypeOK
<1> QED BY <1>1, <1>2, <1>4, DeletingTyped, WriterMoves DEF IInv, TypeOK

LEMMA RollBackInv ==
  ASSUME IInv, NEW w \in Writers, RollBack(w) PROVE IInv'
BY EmptyTyped, WriterMoves DEF RollBack, IInv, TypeOK, database

LEMMA InvalidateInv ==
  ASSUME IInv, NEW w \in Writers, Invalidate(w) PROVE IInv'
<1>1. ws[w].todo \in SUBSET Users
  BY DEF IInv, TypeOK, Writer
<1>2. ws' \in [Writers -> Writer] /\ \A o \in Writers : ws'[o] = ws[o] \/ ws'[o].pc = "idle"
  BY EmptyTyped DEF Invalidate, IInv, TypeOK
<1> QED BY <1>1, <1>2, ForgetInv DEF Invalidate

LEMMA InvalidateFailsInv ==
  ASSUME IInv, NEW w \in Writers, InvalidateFails(w) PROVE IInv'
<1>1. ws[w].todo \in SUBSET Users
  BY DEF IInv, TypeOK, Writer
<1>2. excused' \subseteq Users \X Projects
  BY <1>1, MissedTyped DEF InvalidateFails, IInv, TypeOK
<1> QED BY <1>2, EmptyTyped, WriterMoves DEF InvalidateFails, IInv, TypeOK, database

LEMMA InvitesInv ==
  ASSUME IInv, NEW u \in Users, NEW p \in Projects, CreateInvite(u, p) \/ EndInvite(u, p)
  PROVE  IInv'
<1>1. ASSUME NEW role \in Roles PROVE [role |-> role, mask |-> roles[p][role].mask] \in Invite
  BY DEF IInv, TypeOK, Invite
<1>2. NoInvite \in Invite
  BY DEF NoInvite, Invite
<1>3. invite' \in [Users -> [Projects -> Invite]]
  <2>1. invite \in [Users -> [Projects -> Invite]]
    BY DEF IInv, TypeOK
  <2>2. PICK i \in Invite : invite' = [invite EXCEPT ![u] = [@ EXCEPT ![p] = i]]
    BY <1>1, <1>2 DEF CreateInvite, EndInvite
  <2> QED BY <2>1, <2>2
<1>4. UNCHANGED <<roles, mem, cache, rs, ws, now, writes, excused>>
  BY DEF CreateInvite, EndInvite
<1> QED BY <1>3, <1>4 DEF IInv, TypeOK, Addressed, Watching, MayWrite

LEMMA TickInv == ASSUME IInv, Tick PROVE IInv'
BY DEF Tick, database, IInv, TypeOK, Addressed, Watching, MayWrite

-----------------------------------------------------------------------------
LEMMA StepInv == IInv /\ [Next]_vars => IInv'
<1> SUFFICES ASSUME IInv, [Next]_vars PROVE IInv'
  OBVIOUS
<1>1. ASSUME NEW r \in Resolvers, Miss(r) \/ ResolverStep(r) \/ BackfillFails(r) PROVE IInv'
  BY <1>1, MissInv, LoadInv, WatchInv, ExecInv, BackfillFailsInv DEF ResolverStep
<1>2. ASSUME NEW w \in Writers,
             \/ CheckMember(w) \/ UpdateRole(w) \/ CheckInvite(w) \/ Resync(w)
             \/ WriterStep(w) \/ RollBack(w) \/ InvalidateFails(w)
      PROVE  IInv'
  BY <1>2, CheckMemberInv, UpdateRoleInv, CheckInviteInv, ResyncInv, UpdateMemberInv,
     CommitRoleInv, AcceptInviteInv, InvalidateInv, RollBackInv, InvalidateFailsInv
     DEF WriterStep
<1>3. ASSUME NEW u \in Users, KeyExpires(u) PROVE IInv'
  <2>1. {u} \in SUBSET Users /\ ws' = ws /\ ws \in [Writers -> Writer]
    BY <1>3 DEF KeyExpires, IInv, TypeOK
  <2> QED BY <1>3, <2>1, ForgetInv DEF KeyExpires
<1>4. CASE UNCHANGED vars
  BY <1>4 DEF vars, database, IInv, TypeOK, Addressed, Watching, MayWrite
<1> QED BY <1>1, <1>2, <1>3, <1>4, InvitesInv, TickInv DEF Next

(* The state of the permission cache keeps its type, and a transaction that *)
(* was not aborted holds the current map (backfillOnce).                    *)
THEOREM Invariance == Spec => []IInv
BY InitInv, StepInv, PTL DEF Spec

(* Memberships, role masks, invites, the cache and the requests under way   *)
(* keep their types (resolver.go, relational.go, team/service.go).          *)
THEOREM TypeCorrect == Spec => []TypeOK
<1>1. IInv => TypeOK
  BY DEF IInv
<1> QED BY <1>1, Invariance, PTL

\* the only steps that change the cache
LEMMA CacheSteps ==
  ASSUME IInv, [Next]_vars
  PROVE  \/ UNCHANGED cache
         \/ \E r \in Resolvers : MayWrite(r) /\ Store(r)
         \/ \E us : cache' = [u \in Users |-> IF u \in us THEN NoEntries ELSE cache[u]]
<1>1. ASSUME NEW r \in Resolvers, Miss(r) \/ Load(r) \/ Watch(r) \/ BackfillFails(r)
      PROVE  UNCHANGED cache
  BY <1>1 DEF Miss, Load, Watch, BackfillFails
<1>2. ASSUME NEW r \in Resolvers, Exec(r)
      PROVE  UNCHANGED cache \/ (MayWrite(r) /\ Store(r))
  BY <1>2 DEF Exec, MayWrite
<1>3. ASSUME NEW w \in Writers,
             \/ CheckMember(w) \/ UpdateRole(w) \/ CheckInvite(w) \/ Resync(w)
             \/ UpdateMember(w) \/ CommitRole(w) \/ AcceptInvite(w)
             \/ RollBack(w) \/ InvalidateFails(w)
      PROVE  UNCHANGED cache
  <2>1. CASE CheckMember(w) \/ CheckInvite(w)
    BY <2>1 DEF CheckMember, CheckInvite, Begin
  <2>2. CASE UpdateRole(w) \/ Resync(w) \/ UpdateMember(w)
    BY <2>2 DEF UpdateRole, Resync, UpdateMember
  <2>3. CASE CommitRole(w) \/ AcceptInvite(w) \/ RollBack(w) \/ InvalidateFails(w)
    BY <2>3 DEF CommitRole, AcceptInvite, RollBack, InvalidateFails
  <2> QED BY <1>3, <2>1, <2>2, <2>3
<1>4. ASSUME NEW w \in Writers, Invalidate(w)
      PROVE  \E us : cache' = [u \in Users |-> IF u \in us THEN NoEntries ELSE cache[u]]
  BY <1>4 DEF Invalidate, Forget
<1>5. ASSUME NEW u \in Users, NEW p \in Projects, CreateInvite(u, p) \/ EndInvite(u, p)
      PROVE  UNCHANGED cache
  BY <1>5 DEF CreateInvite, EndInvite
<1>6. ASSUME NEW u \in Users, KeyExpires(u)
      PROVE  \E us : cache' = [v \in Users |-> IF v \in us THEN NoEntries ELSE cache[v]]
  BY <1>6 DEF KeyExpires, Forget
<1>7. CASE Tick \/ UNCHANGED vars
  BY <1>7 DEF Tick, vars
<1> QED
  BY <1>1, <1>2, <1>3, <1>4, <1>5, <1>6, <1>7 DEF Next, ResolverStep, WriterStep

(* backfillOnce: no entry is ever replaced by one with an earlier           *)
(* updated_at, however many backfills, updates and deletions interleave.    *)
THEOREM StampsNeverDecrease == Spec => EntriesNeverGoBack
<1> DEFINE Kept == \A u \in Users, p \in Projects :
                      p \in Cached(u) /\ cache'[u][p] # NoEntry
                        => cache[u][p].at <= cache'[u][p].at
<1>1. IInv /\ [Next]_vars => [Kept]_vars
  <2> SUFFICES ASSUME IInv, [Next]_vars, NEW u \in Users, NEW p \in Projects,
                      p \in Cached(u), cache'[u][p] # NoEntry
               PROVE  cache[u][p].at <= cache'[u][p].at
    OBVIOUS
  <2>1. cache[u] \in [Projects -> Entry] /\ cache[u][p].at \in Nat
    BY DEF IInv, TypeOK, Entry
  <2>2. CASE UNCHANGED cache
    BY <2>1, <2>2
  <2>3. ASSUME NEW r \in Resolvers, MayWrite(r), Store(r)
        PROVE  cache[u][p].at <= cache'[u][p].at
    <3>1. /\ cache' = [cache EXCEPT ![rs[r].user] =
                         [cache[rs[r].user] EXCEPT ![rs[r].proj] = rs[r].found]]
          /\ cache[rs[r].user][rs[r].proj].at <= rs[r].found.at
      BY <2>3, StoreReplacesOne
    <3>2. cache \in [Users -> [Projects -> Entry]]
      BY DEF IInv, TypeOK
    <3>3. cache'[u][p] = cache[u][p] \/ (u = rs[r].user /\ p = rs[r].proj
                                          /\ cache'[u][p] = rs[r].found)
      BY <2>1, <3>1, <3>2
    <3> QED BY <2>1, <3>1, <3>3
  <2>4. ASSUME NEW us, cache' = [v \in Users |-> IF v \in us THEN NoEntries ELSE cache[v]]
        PROVE  cache[u][p].at <= cache'[u][p].at
    <3>1. cache'[u][p] = cache[u][p]
      BY <2>4 DEF NoEntries
    <3> QED BY <2>1, <3>1
  <2> QED BY <2>2, <2>3, <2>4, CacheSteps
<1> QED BY <1>1, Invariance, PTL DEF Spec, EntriesNeverGoBack

(* backfillOnce writes the map of all projects back, and still loses and    *)
(* revives no entry of another project: WATCH makes it a change of one.     *)
THEOREM OnlyOneProject == Spec => OtherProjectsKept
<1> DEFINE Kept == \A u \in Users, p, q \in Projects :
                      p # q /\ cache'[u][p] # cache[u][p] /\ cache'[u][q] # cache[u][q]
                        => cache'[u] = NoEntries
<1>1. IInv /\ [Next]_vars => [Kept]_vars
  <2> SUFFICES ASSUME IInv, [Next]_vars, NEW u \in Users, NEW p \in Projects, NEW q \in Projects,
                      p # q, cache'[u][p] # cache[u][p], cache'[u][q] # cache[u][q]
               PROVE  cache'[u] = NoEntries
    OBVIOUS
  <2>1. ASSUME NEW r \in Resolvers, MayWrite(r), Store(r) PROVE FALSE
    <3>1. cache' = [cache EXCEPT ![rs[r].user] =
                      [cache[rs[r].user] EXCEPT ![rs[r].proj] = rs[r].found]]
      BY <2>1, StoreReplacesOne
    <3> QED BY <3>1 DEF IInv, TypeOK
  <2>2. ASSUME NEW us, cache' = [v \in Users |-> IF v \in us THEN NoEntries ELSE cache[v]]
        PROVE  cache'[u] = NoEntries
    BY <2>2
  <2> QED BY <2>1, <2>2, CacheSteps
<1> QED BY <1>1, Invariance, PTL DEF Spec, OtherProjectsKept

-----------------------------------------------------------------------------
(* Stale entries.                                                          *)

\* a writing request is about to delete the key of u
Deletes(w, u) == ws[w].pc = "del" /\ u \in ws[w].todo

Stale(u, p) == cache[u][p] # NoEntry /\ cache[u][p].mask # Effective(u, p).mask

\* a request that leaves the cache alone moves: where it makes an entry
\* stale, or gives up its DEL, the entry is to be deleted or excused
LEMMA WriterExplained ==
  ASSUME IInv, StaleEntryExplained, NEW w \in Writers, NEW next,
         ws' = [ws EXCEPT ![w] = next], UNCHANGED cache, excused \subseteq excused',
         \A u \in Users, p \in Projects :
            \/ Effective(u, p)' = Effective(u, p) /\ ~Deletes(w, u)
            \/ next.pc = "del" /\ u \in next.todo
            \/ Stale(u, p)' => <<u, p>> \in excused'
  PROVE  StaleEntryExplained'
<1> SUFFICES ASSUME NEW u \in Users, NEW p \in Projects, Stale(u, p)'
             PROVE  <<u, p>> \in excused' \/ \E o \in Writers : Deletes(o, u)'
  BY DEF StaleEntryExplained, Stale, Deletes, Cached
<1>1. ws'[w] = next /\ \A o \in Writers \ {w} : ws'[o] = ws[o]
  BY DEF IInv, TypeOK
<1>2. CASE next.pc = "del" /\ u \in next.todo
  BY <1>1, <1>2 DEF Deletes
<1>3. CASE Effective(u, p)' = Effective(u, p) /\ ~Deletes(w, u)
  <2>1. Stale(u, p)
    BY <1>3 DEF Stale
  <2>2. <<u, p>> \in excused \/ \E o \in Writers : Deletes(o, u)
    BY <2>1 DEF StaleEntryExplained, Stale, Deletes, Cached
  <2> QED BY <1>1, <1>3, <2>2 DEF Deletes
<1> QED BY <1>2, <1>3

\* a change of one member's row changes the resolution of that member only
LEMMA OneMemberChanges ==
  ASSUME IInv, NEW w \in Writers, NEW stamp, Written(w, stamp), UNCHANGED roles,
         NEW u \in Users, NEW p \in Projects, u # ws[w].user
  PROVE  Effective(u, p)' = Effective(u, p)
<1>1. mem'[u] = mem[u]
  BY DEF Written, IInv, TypeOK
<1> QED BY <1>1 DEF Effective

\* what Missed says of one entry when the cache stays
LEMMA MissedStale ==
  ASSUME NEW us \in SUBSET Users, NEW u \in us, NEW p \in Projects, UNCHANGED cache,
         Stale(u, p)'
  PROVE  <<u, p>> \in Missed(us, mem', roles')
BY DEF Missed, Stale, Effective

LEMMA UpdateMemberExplained ==
  ASSUME IInv, StaleEntryExplained, NEW w \in Writers, UpdateMember(w)
  PROVE  StaleEntryExplained'
<1> DEFINE next == Deleting({ws[w].user})
<1>1. PICK stamp \in 0 .. MaxNow : Written(w, stamp)
  BY DEF UpdateMember
<1>2. /\ ws[w].pc = "member" /\ ws' = [ws EXCEPT ![w] = next]
      /\ UNCHANGED <<roles, cache, excused>>
  BY DEF UpdateMember
<1>3. next.pc = "del" /\ ws[w].user \in next.todo
  BY DEF Deleting, IdleWriter
<1>4. \A u \in Users : ~Deletes(w, u)
  BY <1>2 DEF Deletes
<1> HIDE DEF next
<1> QED BY <1>1, <1>2, <1>3, <1>4, OneMemberChanges, WriterExplained

LEMMA AcceptInviteExplained ==
  ASSUME IInv, StaleEntryExplained, NEW w \in Writers, AcceptInvite(w)
  PROVE  StaleEntryExplained'
<1>1. PICK stamp \in 0 .. MaxNow : Written(w, stamp)
  BY DEF AcceptInvite
<1>2. PICK v \in Users : v = ws[w].user
  BY DEF AcceptInvite, IInv, Addressed
<1>3. /\ ws[w].pc = "accept" /\ ws' = [ws EXCEPT ![w] = IdleWriter]
      /\ excused' = excused \cup Missed({v}, mem', roles')
      /\ UNCHANGED <<roles, cache>>
  BY <1>2 DEF AcceptInvite
<1>4. \A u \in Users : ~Deletes(w, u)
  BY <1>3 DEF Deletes
<1>5. ASSUME NEW u \in Users, NEW p \in Projects, u # v
      PROVE  Effective(u, p)' = Effective(u, p)
  BY <1>1, <1>2, <1>3, <1>5, OneMemberChanges
<1>6. ASSUME NEW p \in Projects, Stale(v, p)' PROVE <<v, p>> \in excused'
  BY <1>3, <1>6, MissedStale
<1> QED BY <1>3, <1>4, <1>5, <1>6, WriterExplained

LEMMA CommitRoleExplained ==
  ASSUME IInv, StaleEntryExplained, NEW w \in Writers, CommitRole(w)
  PROVE  StaleEntryExplained'
<1> DEFINE next == Deleting(ws[w].todo)
<1>1. /\ ws' = [ws EXCEPT ![w] = next]
      /\ excused' = excused \cup Missed(Users \ ws[w].todo, mem', roles')
      /\ UNCHANGED cache
  BY DEF CommitRole
<1>2. ASSUME NEW u \in ws[w].todo PROVE next.pc = "del" /\ u \in next.todo
  BY <1>2 DEF Deleting, IdleWriter
<1> HIDE DEF next
<1>3. ASSUME NEW u \in Users \ ws[w].todo, NEW p \in Projects, Stale(u, p)'
      PROVE  <<u, p>> \in excused'
  BY <1>1, <1>3, MissedStale
<1> QED BY <1>1, <1>2, <1>3, WriterExplained

LEMMA ResyncExplained ==
  ASSUME IInv, StaleEntryExplained, NEW w \in Writers, Resync(w)
  PROVE  StaleEntryExplained'
<1> DEFINE out == {c \in Users \X Projects :
                     LET m == mem[c[1]][c[2]] IN
                       m.role # None /\ ~m.custom /\ m.mask # roles[c[2]][m.role].mask}
           next == Deleting(UsersOf(out))
<1>1. /\ mem' = [u \in Users |-> [p \in Projects |->
                   IF <<u, p>> \in out
                   THEN [mem[u][p] EXCEPT !.mask = roles[p][mem[u][p].role].mask, !.at = now]
                   ELSE mem[u][p]]]
      /\ ws' = [ws EXCEPT ![w] = next]
      /\ UNCHANGED <<roles, cache, excused>> /\ ws[w].pc = "idle"
  BY DEF Resync
<1> HIDE DEF out
<1>2. ASSUME NEW u \in UsersOf(out) PROVE next.pc = "del" /\ u \in next.todo
  BY <1>2 DEF Deleting, IdleWriter
<1> HIDE DEF next
<1>3. ASSUME NEW u \in Users \ UsersOf(out), NEW p \in Projects
      PROVE  Effective(u, p)' = Effective(u, p) /\ ~Deletes(w, u)
  <2>1. <<u, p>> \notin out
    BY <1>3 DEF UsersOf
  <2>2. mem'[u][p] = mem[u][p]
    BY <1>1, <2>1
  <2> QED BY <1>1, <2>2 DEF Effective, Deletes
<1> QED BY <1>1, <1>2, <1>3, WriterExplained

\* requests that change neither the database nor the cache and delete nothing
LEMMA QuietExplained ==
  ASSUME IInv, StaleEntryExplained, NEW w \in Writers,
         CheckMember(w) \/ CheckInvite(w) \/ UpdateRole(w) \/ RollBack(w)
  PROVE  StaleEntryExplained'
<1>1. \E next : ws' = [ws EXCEPT ![w] = next]
  <2>1. CASE CheckMember(w) \/ CheckInvite(w)
    BY <2>1 DEF CheckMember, CheckInvite, Begin
  <2>2. CASE UpdateRole(w) \/ RollBack(w)
    BY <2>2 DEF UpdateRole, RollBack
  <2> QED BY <2>1, <2>2
<1>2. ws[w].pc # "del" /\ UNCHANGED <<roles, mem, cache, excused>>
  BY DEF CheckMember, CheckInvite, UpdateRole, RollBack, Begin, database
<1>3. \A u \in Users, p \in Projects : Effective(u, p)' = Effective(u, p) /\ ~Deletes(w, u)
  BY <1>2 DEF Effective, Deletes
<1> QED BY <1>1, <1>2, <1>3, WriterExplained

LEMMA InvalidateFailsExplained ==
  ASSUME IInv, StaleEntryExplained, NEW w \in Writers, InvalidateFails(w)
  PROVE  StaleEntryExplained'
<1>1. /\ ws' = [ws EXCEPT ![w] = IdleWriter] /\ UNCHANGED <<roles, mem, cache>>
      /\ excused' = excused \cup Missed(ws[w].todo, mem, roles)
  BY DEF InvalidateFails, database
<1>2. ws[w].todo \in SUBSET Users
  BY DEF IInv, TypeOK, Writer
<1>3. ASSUME NEW u \in ws[w].todo, NEW p \in Projects, Stale(u, p)' PROVE <<u, p>> \in excused'
  BY <1>1, <1>2, <1>3, MissedStale
<1>4. ASSUME NEW u \in Users \ ws[w].todo, NEW p \in Projects
      PROVE  Effective(u, p)' = Effective(u, p) /\ ~Deletes(w, u)
  BY <1>1, <1>4 DEF Effective, Deletes
<1> QED BY <1>1, <1>3, <1>4, WriterExplained

\* DEL and expiry leave nothing stale behind
LEMMA ForgetExplained ==
  ASSUME IInv, StaleEntryExplained, NEW us \in SUBSET Users, Forget(us),
         UNCHANGED <<roles, mem>>,
         \A w \in Writers : ws'[w] = ws[w] \/ \A u \in Users : Deletes(w, u) => u \in us
  PROVE  StaleEntryExplained'
<1> SUFFICES ASSUME NEW u \in Users, NEW p \in Projects, Stale(u, p)'
             PROVE  <<u, p>> \in excused' \/ \E o \in Writers : Deletes(o, u)'
  BY DEF StaleEntryExplained, Stale, Deletes, Cached
<1>1. /\ cache' = [v \in Users |-> IF v \in us THEN NoEntries ELSE cache[v]]
      /\ excused' = excused \ (us \X Projects)
  BY DEF Forget
<1>2. u \notin us
  BY <1>1 DEF Stale, NoEntries
<1>3. Stale(u, p)
  BY <1>1, <1>2 DEF Stale, Effective
<1>4. <<u, p>> \in excused \/ \E o \in Writers : Deletes(o, u)
  BY <1>3 DEF StaleEntryExplained, Stale, Deletes, Cached
<1> QED BY <1>1, <1>2, <1>4 DEF Deletes

LEMMA ExecExplained ==
  ASSUME IInv, StaleEntryExplained, NEW r \in Resolvers, Exec(r)
  PROVE  StaleEntryExplained'
<1>1. UNCHANGED <<roles, mem, ws>>
  BY DEF Exec, database
<1>2. CASE rs[r].dirty
  BY <1>1, <1>2 DEF Exec, StaleEntryExplained, Cached, Effective
<1>3. CASE ~rs[r].dirty
  <2> DEFINE v == rs[r].user
             q == rs[r].proj
  <2>1. /\ v \in Users /\ q \in Projects /\ MayWrite(r) /\ Store(r)
        /\ cache' = [cache EXCEPT ![v] = [cache[v] EXCEPT ![q] = rs[r].found]]
    BY <1>3, StoreReplacesOne DEF Exec, MayWrite
  <2>2. /\ excused \ {<<v, q>>} \subseteq excused'
        /\ rs[r].found.mask # Effective(v, q).mask => <<v, q>> \in excused'
    BY <2>1 DEF Store
  <2> HIDE DEF v, q
  <2> SUFFICES ASSUME NEW u \in Users, NEW p \in Projects, Stale(u, p)'
               PROVE  <<u, p>> \in excused' \/ \E o \in Writers : Deletes(o, u)'
    BY DEF StaleEntryExplained, Stale, Deletes, Cached
  <2>3. Effective(u, p)' = Effective(u, p)
    BY <1>1 DEF Effective
  <2>4. cache \in [Users -> [Projects -> Entry]]
    BY DEF IInv, TypeOK
  <2>5. CASE u = v /\ p = q
    <3>1. cache'[u][p] = rs[r].found
      BY <2>1, <2>4, <2>5
    <3> QED BY <2>2, <2>3, <2>5, <3>1 DEF Stale
  <2>6. CASE ~(u = v /\ p = q)
    <3>1. cache'[u][p] = cache[u][p] /\ <<u, p>> # <<v, q>>
      BY <2>1, <2>4, <2>6
    <3>2. Stale(u, p)
      BY <2>3, <3>1 DEF Stale
    <3>3. <<u, p>> \in excused \/ \E o \in Writers : Deletes(o, u)
      BY <3>2 DEF StaleEntryExplained, Stale, Deletes, Cached
    <3> QED BY <1>1, <2>2, <3>1, <3>3 DEF Deletes
  <2> QED BY <2>5, <2>6
<1> QED BY <1>2, <1>3

LEMMA StepExplained == IInv /\ StaleEntryExplained /\ [Next]_vars => StaleEntryExplained'
<1> SUFFICES ASSUME IInv, StaleEntryExplained, [Next]_vars PROVE StaleEntryExplained'
  OBVIOUS
<1>1. ASSUME UNCHANGED <<roles, mem, cache, ws, excused>> PROVE StaleEntryExplained'
  BY <1>1 DEF StaleEntryExplained, Cached, Effective
<1>2. ASSUME NEW r \in Resolvers, Miss(r) \/ Load(r) \/ Watch(r) \/ BackfillFails(r)
      PROVE  StaleEntryExplained'
  BY <1>1, <1>2 DEF Miss, Load, Watch, BackfillFails, database
<1>3. ASSUME NEW w \in Writers, Invalidate(w) PROVE StaleEntryExplained'
  <2>1. ws[w].todo \in SUBSET Users
    BY DEF IInv, TypeOK, Writer
  <2>2. \A o \in Writers \ {w} : ws'[o] = ws[o]
    BY <1>3 DEF Invalidate, IInv, TypeOK
  <2>3. Forget(ws[w].todo) /\ UNCHANGED <<roles, mem>>
    BY <1>3 DEF Invalidate, database
  <2>4. \A o \in Writers :
           ws'[o] = ws[o] \/ \A u \in Users : Deletes(o, u) => u \in ws[w].todo
    BY <2>2 DEF Deletes
  <2> QED BY <2>1, <2>3, <2>4, ForgetExplained
<1>4. ASSUME NEW u \in Users, KeyExpires(u) PROVE StaleEntryExplained'
  <2>1. {u} \in SUBSET Users /\ Forget({u}) /\ UNCHANGED <<roles, mem, ws>>
    BY <1>4 DEF KeyExpires, database
  <2> QED BY <2>1, ForgetExplained
<1>5. ASSUME NEW w \in Writers,
             \/ CheckMember(w) \/ UpdateRole(w) \/ CheckInvite(w) \/ Resync(w)
             \/ WriterStep(w) \/ RollBack(w) \/ InvalidateFails(w)
      PROVE  StaleEntryExplained'
  BY <1>3, <1>5, QuietExplained, ResyncExplained, UpdateMemberExplained, CommitRoleExplained,
     AcceptInviteExplained, InvalidateFailsExplained DEF WriterStep
<1>6. ASSUME NEW u \in Users, NEW p \in Projects, CreateInvite(u, p) \/ EndInvite(u, p)
      PROVE  StaleEntryExplained'
  BY <1>1, <1>6 DEF CreateInvite, EndInvite
<1>7. CASE Tick \/ UNCHANGED vars
  BY <1>1, <1>7 DEF Tick, vars, database
<1> QED BY <1>2, <1>4, <1>5, <1>6, <1>7, ExecExplained DEF Next, ResolverStep

(* resolver.go and service.go invalidatePermissionScopes: a cached mask that *)
(* differs from the database is about to be deleted, or was left by one of   *)
(* the named causes, in every interleaving of backfills, updates and DELs.   *)
THEOREM StaleExplained == Spec => []StaleEntryExplained
<1>1. Init => StaleEntryExplained
  BY DEF Init, StaleEntryExplained, Cached, NoEntries
<1> QED BY <1>1, StepExplained, Invariance, PTL DEF Spec

-----------------------------------------------------------------------------
(* Startup: from the environment to the exit                               *)

\* Every step of a process that the code takes one after the other.
MainStages ==
  /\ StartupTypeOK
  /\ env \in Environments
  /\ pc # "load" /\ KnownProfile(env) => cfg = LoadFrom(env)
  /\ pc \in {"load", "lint"} => at = 1 /\ open = {}
  /\ pc \in {"lint", "boot", "serve", "drain", "close"} => KnownProfile(env)
  /\ pc \in {"boot", "serve", "drain", "close"} \/ served => Lint(env, cfg)
  /\ served => KnownProfile(env) /\ pc # "load"

\* Before the modules register, no request is there and nothing has failed.
MainQuiet ==
  pc \in {"load", "lint", "boot"} =>
     /\ \A r \in Requests : req[r] = "new"
     /\ lost = {} /\ ~forced /\ ~faulted /\ ~served

\* What is open at each stage: initDependencies opens in its order, and
\* closeDependencies has closed what its order names before the present step.
MainOpen ==
  /\ pc = "boot" => /\ "postgres" \in open \/ at = 1
                    /\ "redis" \in open \/ at <= 2
                    /\ at <= 11 => "tracing" \notin open
                    /\ at <= 9 => "mongo" \notin open
  /\ pc \in {"serve", "drain"} => {"postgres", "redis"} \subseteq open /\ at = 1 /\ ~forced
  /\ pc = "close" => /\ at <= 6
                     /\ at > 1 => "mongo" \notin open
                     /\ at > 2 => "redis" \notin open
                     /\ at > 3 => "postgres" \notin open
                     /\ at > 4 => "tracing" \notin open
                     /\ at > 5 => "auth" \notin open

\* What a process owes to the requests and to its configuration at its end.
MainEnd ==
  /\ pc \in {"serve", "drain", "close"} =>
       ~faulted /\ (served <=> On(cfg, "PERMISSIONS_ENABLED"))
  /\ pc = "close" /\ InFlight # {} => forced
  /\ StoresClosed /\ LostOnlyWhenForced /\ LintedConfigStarts

MainInv == MainStages /\ MainQuiet /\ MainOpen /\ MainEnd

\* A loaded configuration has every key.
LEMMA LoadHasKeys ==
  ASSUME NEW e
  PROVE  DOMAIN LoadFrom(e) = Keys
BY DEF LoadFrom

LEMMA BootIs ==
  /\ Len(Boot) = 11
  /\ Boot[1] = "postgres" /\ Boot[2] = "redis" /\ Boot[3] = "metrics"
  /\ Boot[4] = "auth" /\ Boot[5] = "email" /\ Boot[6] = "limiter"
  /\ Boot[7] = "cache" /\ Boot[8] = "permissions" /\ Boot[9] = "mongo"
  /\ Boot[10] = "bootstrap" /\ Boot[11] = "tracing"
  /\ Len(CloseOrder) = 5
  /\ CloseOrder[1] = "mongo" /\ CloseOrder[2] = "redis"
  /\ CloseOrder[3] = "postgres" /\ CloseOrder[4] = "tracing"
  /\ CloseOrder[5] = "auth"
BY DEF Boot, CloseOrder

LEMMA InitMain ==
  ASSUME EnvironmentsTyped, StartupInit
  PROVE  MainInv
<1>1. StartupTypeOK /\ env \in Environments
  <2>1. DOMAIN env \subseteq Keys /\ \A k \in DOMAIN env : env[k] \in ValuesOf(k)
    BY DEF EnvironmentsTyped, StartupInit
  <2>2. DOMAIN cfg = Keys
    BY DEF StartupInit
  <2>3. at \in 1 .. Len(Boot) + 1
    BY BootIs DEF StartupInit
  <2> QED BY <2>1, <2>2, <2>3 DEF StartupInit, StartupTypeOK
<1> QED
  BY <1>1 DEF StartupInit, MainInv, MainStages, MainQuiet, MainOpen, MainEnd,
              StoresClosed, LostOnlyWhenForced, LintedConfigStarts


\* Loading.
LEMMA LoadKeeps ==
  ASSUME MainInv, LoadConfig
  PROVE  MainInv'
<1>1. StartupTypeOK'
  BY BootIs, LoadHasKeys DEF MainInv, MainStages, LoadConfig, StartupTypeOK
<1>2. MainStages'
  BY <1>1 DEF MainInv, MainStages, MainQuiet, LoadConfig
<1>3. MainQuiet' /\ MainOpen'
  BY DEF MainInv, MainStages, MainQuiet, MainOpen, LoadConfig
<1>4. MainEnd'
  BY DEF MainInv, MainStages, MainQuiet, MainEnd, LoadConfig,
         StoresClosed, LostOnlyWhenForced, LintedConfigStarts
<1> QED BY <1>2, <1>3, <1>4 DEF MainInv

\* Linting.
LEMMA LintKeeps ==
  ASSUME MainInv, LintConfig
  PROVE  MainInv'
<1>1. StartupTypeOK'
  BY BootIs DEF MainInv, MainStages, LintConfig, StartupTypeOK
<1>2. MainStages'
  BY <1>1 DEF MainInv, MainStages, MainQuiet, LintConfig
<1>3. MainQuiet' /\ MainOpen'
  BY DEF MainInv, MainStages, MainQuiet, MainOpen, LintConfig
<1>4. MainEnd'
  BY DEF MainInv, MainStages, MainQuiet, MainEnd, LintConfig,
         StoresClosed, LostOnlyWhenForced, LintedConfigStarts
<1> QED BY <1>2, <1>3, <1>4 DEF MainInv

\* A dependency is opened.
LEMMA BootStepKeeps ==
  ASSUME MainInv, BootStep
  PROVE  MainInv'
<1>0. at \in 1..11
  BY BootIs DEF MainInv, MainStages, BootStep, StartupTypeOK
<1>a. at < 3 => Wanted(Boot[at])
  BY <1>0, BootIs DEF Wanted, SwitchOf
<1>1. StartupTypeOK'
  BY <1>0, BootIs DEF MainInv, MainStages, BootStep, StartupTypeOK
<1>2. MainStages'
  BY <1>1 DEF MainInv, MainStages, BootStep
<1>3. MainQuiet'
  BY DEF MainInv, MainQuiet, BootStep
<1>4. MainOpen'
  <2>1. "postgres" \in open' /\ ("redis" \in open' \/ at' <= 2)
    <3>1. CASE at = 1
      BY <3>1, <1>a, BootIs DEF BootStep, Resources
    <3>2. CASE at = 2
      BY <3>2, <1>a, BootIs DEF MainInv, MainOpen, BootStep, Resources
    <3>3. CASE at > 2
      BY <3>3, <1>0 DEF MainInv, MainOpen, BootStep
    <3> QED BY <1>0, <3>1, <3>2, <3>3
  <2>2. at' <= 11 => "tracing" \notin open'
    BY <1>0, BootIs DEF MainInv, MainOpen, BootStep, Resources
  <2>3. at' <= 9 => "mongo" \notin open'
    BY <1>0, BootIs DEF MainInv, MainOpen, BootStep, Resources
  <2> QED BY <2>1, <2>2, <2>3 DEF MainOpen, BootStep
<1>5. MainEnd'
  BY DEF MainInv, MainEnd, BootStep,
         StoresClosed, LostOnlyWhenForced, LintedConfigStarts
<1> QED BY <1>2, <1>3, <1>4, <1>5 DEF MainInv

\* A service refuses while the process starts.
LEMMA BootFailsKeeps ==
  ASSUME MainInv, BootFails
  PROVE  MainInv'
<1>0. at \in 1..11
  BY BootIs DEF MainInv, MainStages, BootFails, StartupTypeOK
<1>1. StartupTypeOK'
  BY <1>0, BootIs DEF MainInv, MainStages, BootFails, StartupTypeOK
<1>2. MainStages'
  BY <1>1 DEF MainInv, MainStages, MainQuiet, BootFails
<1>3. MainQuiet' /\ MainOpen'
  BY DEF MainInv, MainQuiet, MainOpen, BootFails
<1>4. "tracing" \notin open' /\ "mongo" \notin open'
  BY <1>0, BootIs DEF MainInv, MainOpen, BootFails, ClosedAfter
<1>5. open' \subseteq {"auth"}
  BY <1>1, <1>4, BootIs DEF StartupTypeOK, Resources, BootFails, ClosedAfter
<1>6. MainEnd'
  BY <1>5 DEF MainInv, MainEnd, MainQuiet, BootFails,
         StoresClosed, LostOnlyWhenForced, LintedConfigStarts
<1> QED BY <1>2, <1>3, <1>6 DEF MainInv

\* The modules register, or none may without a permission resolver.
LEMMA RegisterKeeps ==
  ASSUME MainInv, RegisterModules
  PROVE  MainInv'
<1>0. at = 12
  BY BootIs DEF MainInv, MainStages, RegisterModules, StartupTypeOK
<1>1. StartupTypeOK'
  BY <1>0, BootIs DEF MainInv, MainStages, RegisterModules, StartupTypeOK, CanRegister, On
<1>2. MainStages'
  BY <1>1 DEF MainInv, MainStages, RegisterModules
<1>3. MainQuiet'
  BY DEF MainInv, MainQuiet, RegisterModules
<1>4. MainOpen'
  BY <1>0 DEF MainInv, MainOpen, MainQuiet, RegisterModules
<1>5. InFlight' = {}
  BY DEF MainInv, MainQuiet, RegisterModules, InFlight
<1>6. MainEnd'
  BY <1>5 DEF MainInv, MainEnd, MainQuiet, RegisterModules, CanRegister,
         StoresClosed, LostOnlyWhenForced, LintedConfigStarts
<1> QED BY <1>2, <1>3, <1>4, <1>6 DEF MainInv

-----------------------------------------------------------------------------
\* A request comes in.
LEMMA AdmitKeeps ==
  ASSUME MainInv, NEW r \in Requests, Admit(r)
  PROVE  MainInv'
<1>1. StartupTypeOK'
  BY DEF MainInv, MainStages, Admit, SetReq, StartupTypeOK
<1>2. MainStages'
  BY <1>1 DEF MainInv, MainStages, Admit
<1>3. MainQuiet' /\ MainOpen'
  BY DEF MainInv, MainQuiet, MainOpen, Admit
<1>4. MainEnd'
  BY DEF MainInv, MainEnd, Admit,
         StoresClosed, LostOnlyWhenForced, LintedConfigStarts
<1> QED BY <1>2, <1>3, <1>4 DEF MainInv

\* A request moves: none comes into flight, and an invalidation that is lost
\* meets a Redis that is closed already.
LEMMA RequestKeeps ==
  ASSUME MainInv, NEW r \in Requests, RequestStep(r)
  PROVE  MainInv'
<1> DEFINE moved == \E state \in {"began", "committed", "done"} : SetReq(r, state)
<1>1. /\ moved /\ r \in InFlight /\ pc # "exit" /\ lost' \subseteq lost \cup {r}
      /\ UNCHANGED <<env, cfg, pc, at, open, faulted, forced, served>>
  BY DEF RequestStep, BeginTx, EndTx, InvalidateTags, SetReq, InFlight
<1>2. StartupTypeOK'
  BY <1>1 DEF MainInv, MainStages, SetReq, StartupTypeOK
<1>3. MainStages'
  BY <1>1, <1>2 DEF MainInv, MainStages
<1>4. pc \notin {"load", "lint", "boot"}
  BY <1>1 DEF MainInv, MainQuiet, InFlight
<1>5. MainQuiet' /\ MainOpen'
  BY <1>1, <1>4 DEF MainInv, MainQuiet, MainOpen
<1>6. InFlight' \subseteq InFlight
  BY <1>1 DEF InFlight, SetReq, MainInv, MainStages, StartupTypeOK
<1>7. pc = "close" => forced
  BY <1>1 DEF MainInv, MainEnd
<1>8. pc \in {"serve", "drain"} => lost' = lost
  BY DEF MainInv, MainOpen, RequestStep, BeginTx, EndTx, InvalidateTags
<1>9. lost' # {} => forced
  BY <1>1, <1>4, <1>7, <1>8 DEF MainInv, MainStages, MainEnd, StartupTypeOK, LostOnlyWhenForced
<1>10. MainEnd'
  BY <1>1, <1>6, <1>9 DEF MainInv, MainEnd,
         StoresClosed, LostOnlyWhenForced, LintedConfigStarts
<1> QED BY <1>3, <1>5, <1>10 DEF MainInv

-----------------------------------------------------------------------------
\* The process is told to stop, and stops: with nothing in flight, after the
\* time it was given, or because its listener failed.
LEMMA StopKeeps ==
  ASSUME MainInv,
         Signal \/ Drained \/ DrainTimesOut \/ ListenerFails
  PROVE  MainInv'
<1> USE DEF Signal, Drained, DrainTimesOut, ListenerFails
<1>1. StartupTypeOK'
  BY DEF MainInv, MainStages, StartupTypeOK
<1>2. MainStages'
  BY <1>1 DEF MainInv, MainStages
<1>3. MainQuiet' /\ MainOpen'
  BY DEF MainInv, MainQuiet, MainOpen
<1>4. InFlight' = InFlight
  BY DEF InFlight
<1>5. lost = {}
  BY DEF MainInv, MainOpen, MainEnd, LostOnlyWhenForced
<1>a. pc' = "close" /\ InFlight # {} => forced'
  BY Zenon
<1>b. /\ pc \in {"serve", "drain"} /\ pc' \in {"drain", "close"} /\ lost' = lost
      /\ served' = served /\ faulted' = faulted /\ cfg' = cfg
  OBVIOUS
<1>6. MainEnd'
  BY <1>4, <1>5, <1>a, <1>b DEF MainInv, MainEnd,
         StoresClosed, LostOnlyWhenForced, LintedConfigStarts
<1> QED BY <1>2, <1>3, <1>6 DEF MainInv

\* One store after the other is closed.
LEMMA CloseStepKeeps ==
  ASSUME MainInv, CloseStep
  PROVE  MainInv'
<1>0. at \in 1..5
  BY BootIs DEF MainInv, MainStages, CloseStep, StartupTypeOK
<1>1. StartupTypeOK'
  BY <1>0, BootIs DEF MainInv, MainStages, CloseStep, StartupTypeOK
<1>2. MainStages'
  BY <1>1 DEF MainInv, MainStages, CloseStep
<1>3. MainQuiet'
  BY DEF MainInv, MainQuiet, CloseStep
<1>4. MainOpen'
  <2>1. /\ at' <= 6 /\ at' = at + 1 /\ pc' = "close"
        /\ open' \subseteq open /\ CloseOrder[at] \notin open'
    BY <1>0 DEF CloseStep
  <2>2. at' > 1 => "mongo" \notin open'
    BY <1>0, <2>1, BootIs DEF MainInv, MainOpen, CloseStep
  <2>3. at' > 2 => "redis" \notin open'
    BY <1>0, <2>1, BootIs DEF MainInv, MainOpen, CloseStep
  <2>4. at' > 3 => "postgres" \notin open'
    BY <1>0, <2>1, BootIs DEF MainInv, MainOpen, CloseStep
  <2>5. at' > 4 => "tracing" \notin open'
    BY <1>0, <2>1, BootIs DEF MainInv, MainOpen, CloseStep
  <2>6. at' > 5 => "auth" \notin open'
    BY <1>0, <2>1, BootIs DEF MainInv, MainOpen, CloseStep
  <2> QED BY <2>1, <2>2, <2>3, <2>4, <2>5, <2>6 DEF MainOpen
<1>5. InFlight' = InFlight
  BY DEF InFlight, CloseStep
<1>6. MainEnd'
  BY <1>5 DEF MainInv, MainEnd, CloseStep,
         StoresClosed, LostOnlyWhenForced, LintedConfigStarts
<1> QED BY <1>2, <1>3, <1>4, <1>6 DEF MainInv

\* What has not committed its invalidation when main returns was in flight.
LEMMA ExitKeeps ==
  ASSUME MainInv, Exit
  PROVE  MainInv'
<1>0. at = 6
  BY BootIs DEF MainInv, MainStages, MainOpen, Exit, StartupTypeOK
<1>1. StartupTypeOK'
  BY DEF MainInv, MainStages, Exit, StartupTypeOK
<1>2. MainStages'
  BY <1>1 DEF MainInv, MainStages, Exit
<1>3. MainQuiet' /\ MainOpen'
  BY DEF MainInv, MainQuiet, MainOpen, Exit
<1>4. open = {}
  BY <1>0 DEF MainInv, MainStages, MainOpen, Exit, StartupTypeOK, Resources
<1>5. lost' # {} => forced
  BY DEF MainInv, MainEnd, Exit, LostOnlyWhenForced, InFlight
<1>6. MainEnd'
  BY <1>4, <1>5 DEF MainInv, MainEnd, Exit,
         StoresClosed, LostOnlyWhenForced, LintedConfigStarts
<1> QED BY <1>2, <1>3, <1>6 DEF MainInv

\* Every step keeps the invariant, one that changes nothing too.
LEMMA NextMain ==
  ASSUME MainInv, [StartupNext]_startupVars
  PROVE  MainInv'
<1>1. CASE StartupNext /\ ~ UNCHANGED startupVars
  BY <1>1, LoadKeeps, LintKeeps, BootStepKeeps, BootFailsKeeps, RegisterKeeps, AdmitKeeps,
     RequestKeeps, StopKeeps, CloseStepKeeps, ExitKeeps
  DEF StartupNext, MainStep, Done
<1>2. CASE UNCHANGED startupVars
  BY <1>2 DEF startupVars, MainInv, MainStages, MainQuiet, MainOpen, MainEnd, StartupTypeOK,
       InFlight, StoresClosed, LostOnlyWhenForced, LintedConfigStarts
<1> QED BY <1>1, <1>2

\* The stages of a process, for every environment and any number of requests.
THEOREM MainInvariant ==
  ASSUME EnvironmentsTyped
  PROVE  StartupSpec => []MainInv
<1>1. StartupInit => MainInv
  BY InitMain
<1> QED BY <1>1, NextMain, PTL DEF StartupSpec

\* However a process ends, nothing stays open and no committed write stays
\* without its invalidation, but for the cases named.
THEOREM MainStopsCleanly ==
  ASSUME EnvironmentsTyped
  PROVE  StartupSpec => []StopsCleanly
<1>1. MainInv => StopsCleanly
  BY DEF MainInv, MainStages, MainEnd, StopsCleanly
<1> QED BY <1>1, MainInvariant, PTL

-----------------------------------------------------------------------------
(* What loading and linting do to a variable                               *)

\* A variable that is set to something reaches its getter.
LEMMA RawOfSet ==
  ASSUME NEW e, NEW k, Env(e, k) \notin {"unset", "empty"}
  PROVE  Raw(e, k) = e[k] /\ Env(e, k) = e[k]
BY DEF Raw, Env

\* Text is taken as it is; a number or a switch that Lint reads has parsed.
LEMMA TakenWhenLinted ==
  ASSUME NEW e, Syntax(e),
         NEW k \in Keys \ Unlinted, Env(e, k) \notin {"unset", "empty"}
  PROVE  LoadFrom(e)[k] = e[k]
<1>1. Raw(e, k) = e[k] /\ Env(e, k) = e[k]
  BY RawOfSet
<1>2. CASE k \in Switches \cup Numbers
  <2>1. e[k] # "junk"
    BY <1>1, <1>2 DEF Syntax, Linted, Unlinted
  <2> QED BY <1>1, <1>2, <2>1 DEF LoadFrom, Typed
<1>3. CASE k \notin Switches \cup Numbers
  BY <1>1, <1>3 DEF LoadFrom
<1> QED BY <1>2, <1>3

\* The configuration that passed Lint is what the environment says, and no step
\* after Lint refuses what Lint accepted.
THEOREM MainServesAsConfigured ==
  ASSUME EnvironmentsTyped
  PROVE  StartupSpec => []ServesAsConfigured
<1>1. MainInv => ServesAsConfigured
  <2> SUFFICES ASSUME MainInv PROVE ServesAsConfigured
    OBVIOUS
  <2>1. served => cfg = LoadFrom(env) /\ Syntax(env)
    BY DEF MainInv, MainStages, Lint
  <2>2. SettingsTaken
    BY <2>1, TakenWhenLinted DEF SettingsTaken, TakenAsSet
  <2> QED BY <2>2 DEF MainInv, MainEnd, ServesAsConfigured
<1> QED BY <1>1, MainInvariant, PTL

\* The profiles say nothing of the switch of the metrics.
LEMMA NoProfileHasMetrics ==
  ASSUME NEW p
  PROVE  "METRICS_ENABLED" \notin DOMAIN ProfileDefault(p)
<1>1. CASE p = "minimal"
  BY <1>1 DEF ProfileDefault
<1>2. CASE p \in {"dev", "prod"}
  BY <1>2 DEF ProfileDefault
<1>3. CASE p \notin {"minimal", "dev", "prod"}
  BY <1>3 DEF ProfileDefault
<1> QED BY <1>1, <1>2, <1>3

LEMMA KeysDiffer ==
  /\ Locations \subseteq Keys /\ Locations \cap Switches = {}
  /\ Locations \cap Numbers = {}
  /\ {"APP_ENV", "APP_PROFILE", "METRICS_AUTH_TOKEN", "WEB_APP_BASE_URL"} \subseteq Keys
  /\ {"APP_ENV", "APP_PROFILE", "METRICS_AUTH_TOKEN", "WEB_APP_BASE_URL"} \cap
       (Switches \cup Numbers \cup Locations \cup Unlinted) = {}
  /\ "METRICS_ENABLED" \in Switches \ Unlinted
BY DEF Keys, Locations, Switches, Numbers, Positive, NotNegative,
       Texts, Unlinted

\* With its text checked, the switch of the metrics is on or off.
LEMMA MetricsOnOrOff ==
  ASSUME NEW e, \A k \in DOMAIN e : e[k] \in ValuesOf(k), Syntax(e)
  PROVE  LoadFrom(e)["METRICS_ENABLED"] \in {"true", "false"}
<1> DEFINE k == "METRICS_ENABLED"
<1>1. k \in Switches /\ k \in Keys /\ k \in Linted
  BY KeysDiffer DEF Keys, Linted, Unlinted
<1>2. Raw(e, k) \in {"true", "false", "unset"}
  <2>1. CASE Env(e, k) \in {"unset", "empty"}
    BY <2>1, NoProfileHasMetrics DEF Raw
  <2>2. CASE Env(e, k) \notin {"unset", "empty"}
    <3>1. k \in DOMAIN e /\ Raw(e, k) = e[k] /\ Env(e, k) = e[k]
      BY <2>2, RawOfSet DEF Env
    <3>2. e[k] \in {"true", "false", "junk", "empty"}
      BY <3>1, <1>1 DEF ValuesOf, Locations, Switches, Numbers,
                        Positive, NotNegative
    <3>3. e[k] # "junk" /\ e[k] # "empty"
      BY <3>1, <1>1 DEF Syntax
    <3> QED BY <3>1, <3>2, <3>3
  <2> QED BY <2>1, <2>2
<1>3. Fallback(e, k) = "true"
  BY DEF Fallback, Switches, Positive, NotNegative, Locations
<1> QED BY <1>1, <1>2, <1>3 DEF LoadFrom, Typed

\* What the linted configuration of a production name comes from.
LEMMA HardenedWhenLinted ==
  ASSUME NEW e, \A k \in DOMAIN e : e[k] \in ValuesOf(k),
         Lint(e, LoadFrom(e)),
         IsProd(AppEnv(e)) \/ Env(e, "APP_PROFILE") = "prod"
  PROVE  /\ \A k \in Locations : Env(e, k) = "set"
         /\ Env(e, "PERMISSION_CONTEXT_SECRET") = "strong"
         /\ Env(e, "WEB_APP_BASE_URL") = "public"
         /\ \/ LoadFrom(e)["METRICS_ENABLED"] = "false"
            \/ Env(e, "METRICS_AUTH_TOKEN") = "strong"
<1> DEFINE c == LoadFrom(e)
<1>1. Syntax(e) /\ Hardening(e, c)
  BY DEF Lint
<1>2. c["APP_ENV"] = AppEnv(e)
  BY KeysDiffer DEF LoadFrom, AppEnv, Fallback
<1>3. Env(e, "APP_PROFILE") = "prod" => c["APP_PROFILE"] = "prod"
  BY <1>1, KeysDiffer, TakenWhenLinted, RawOfSet
<1>4. /\ StrongSecret(e) /\ ExplicitlySet(e) /\ c["WEB_APP_BASE_URL"] = "public"
      /\ On(c, "METRICS_ENABLED") =>
           StrongToken(c) /\ Env(e, "METRICS_AUTH_TOKEN") # "unset"
  BY <1>1, <1>2, <1>3 DEF Hardening
<1>5. ASSUME NEW k \in Locations PROVE Env(e, k) = "set"
  <2>1. Env(e, k) \notin {"unset", "empty", "blank"}
    BY <1>4 DEF ExplicitlySet
  <2>2. k \in DOMAIN e /\ Env(e, k) = e[k]
    BY <2>1 DEF Env
  <2>3. ValuesOf(k) = {"set", "blank"}
    BY DEF ValuesOf, Locations, Switches, Numbers, Positive,
           NotNegative
  <2> QED BY <2>1, <2>2, <2>3
<1>6. Env(e, "WEB_APP_BASE_URL") = "public"
  <2>1. Env(e, "WEB_APP_BASE_URL") \notin {"unset", "empty"}
    BY <1>4 DEF ExplicitlySet
  <2> QED BY <2>1, <1>1, <1>4, KeysDiffer, TakenWhenLinted, RawOfSet
<1>7. On(c, "METRICS_ENABLED") => Env(e, "METRICS_AUTH_TOKEN") = "strong"
  <2> SUFFICES ASSUME On(c, "METRICS_ENABLED")
               PROVE  Env(e, "METRICS_AUTH_TOKEN") = "strong"
    OBVIOUS
  <2>1. c["METRICS_AUTH_TOKEN"] = "strong" /\ Env(e, "METRICS_AUTH_TOKEN") # "unset"
    BY <1>4 DEF StrongToken
  <2>2. "METRICS_AUTH_TOKEN" \in DOMAIN e
        /\ Env(e, "METRICS_AUTH_TOKEN") = e["METRICS_AUTH_TOKEN"]
    BY <2>1 DEF Env
  <2>3. ValuesOf("METRICS_AUTH_TOKEN") = {"strong", "short", "placeholder"}
    BY KeysDiffer DEF ValuesOf
  <2>4. e["METRICS_AUTH_TOKEN"] \notin {"unset", "empty"}
    BY <2>1, <2>2, <2>3
  <2> QED BY <2>1, <2>2, <2>4, <1>1, KeysDiffer, TakenWhenLinted
<1>8. c["METRICS_ENABLED"] = "false" \/ Env(e, "METRICS_AUTH_TOKEN") = "strong"
  BY <1>1, <1>7, MetricsOnOrOff DEF On
<1> QED BY <1>4, <1>5, <1>6, <1>8 DEF StrongSecret

\* Whatever profile and environment are combined, what is served under a name
\* of production is hardened.
THEOREM MainServesHardened ==
  ASSUME EnvironmentsTyped
  PROVE  StartupSpec => []ProductionServesHardened
<1>1. MainInv => ProductionServesHardened
  <2> SUFFICES ASSUME MainInv, served PROVE ProductionServesHardened
    BY DEF ProductionServesHardened
  <2>1. cfg = LoadFrom(env) /\ Lint(env, cfg)
    BY DEF MainInv, MainStages
  <2>2. \A k \in DOMAIN env : env[k] \in ValuesOf(k)
    BY DEF MainInv, MainStages, StartupTypeOK
  <2>3. cfg["APP_ENV"] = AppEnv(env)
    BY <2>1, KeysDiffer DEF LoadFrom, AppEnv, Fallback
  <2>4. FailClosed(cfg)
    BY <2>1 DEF Lint
  <2> QED BY <2>1, <2>2, <2>3, <2>4, HardenedWhenLinted
          DEF ProductionServesHardened, FailClosed
<1> QED BY <1>1, MainInvariant, PTL
=============================================================================
