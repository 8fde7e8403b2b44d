------------------------------- MODULE Gateway -------------------------------
(* Requests on their way through the policies of their route to the handler  *)
(* and back (internal/core/policy), with the cached answers and the limiter  *)
(* they share.  Two routes are served at a time: every read and write of the *)
(* module Routes that have data in common, every two writes of one path, and *)
(* every chain the validator accepts for a read.  A tag version is read from Redis *)
(* by every lookup (RouteCache has the tokens kept in a process, failing     *)
(* invalidations and replicas); a Redis that fails is met by the limiter.    *)
EXTENDS Routes, FiniteSets

CONSTANTS Slots,           \* requests under way at a time
          Users, Projects, Items,
          NoUser,          \* no valid token
          NotMember,       \* no permissions to resolve
          Limit,           \* of the rate limit rules
          LimiterFailOpen,        \* RATELIMIT_FAIL_OPEN
          MaxRequests,     \* bound: requests started at a pair of routes
          MaxFaults        \* bound: failures of the limiter

ASSUME GatewayAssumption ==
  /\ NoUser \notin Users /\ LimiterFailOpen \in BOOLEAN
  /\ \A r, o \in Reads \cup Writes : NotMember # {r.perm, o.perm}
  /\ Limit \in Nat \ {0} /\ MaxRequests \in Nat \ {0} /\ MaxFaults \in Nat

VARIABLES
  served,    \* the routes: [read |-> .., write |-> ..], or "other" for a second write
  mask,      \* per user and project: the permissions, or NotMember
  req,       \* per slot: the request
  started,   \* requests started
  faults,    \* failures that happened
  version,   \* per tag and scope: invalidations
  answers,   \* cached answers: a set of [key, body, seen]
  commits,   \* the writes committed: a sequence of [user, proj]
  confirmed, \* those of them whose requests were answered
  count,     \* the limiter's counters: per path and identity
  passed     \* history: requests counted in the window and let through, or lost to a failure

gatewayVars == <<served, mask, req, started, faults, version, answers, commits, confirmed, count, passed>>

-----------------------------------------------------------------------------
(* The routes served together. *)

Touches(r, w) == r.of \cap w.of # {}

Detail == CHOOSE r \in ArtifactReads : r.item

\* one counter for both: the key has the path and not the method
Twins == {[write |-> x[1], other |-> x[2]] :
            x \in {y \in Writes \X Writes : y[1].name # y[2].name /\ Path(y[1]) = Path(y[2])}}

Pairs == {[read |-> x[1], write |-> x[2]] : x \in {y \in Reads \X Writes : Touches(y[1], y[2])}}

Policies == {"AuthRequired", "ProjectRequired", "ProjectMatchFromPath", "ResolvePermissions",
             "RequirePermission", "RateLimit", "CacheRead"}

Orders == UNION {{f \in [1 .. n -> Policies] : \A i, j \in 1 .. n : i # j => f[i] # f[j]} : n \in 0 .. 7}

Rechained == {[Detail EXCEPT !.chain = c] : c \in Orders}

Alone == {[read |-> r] : r \in Reads \cup {x \in Rechained : Accepted(x)}} \cup {[write |-> w] : w \in Writes}

Candidates == {c \in Pairs \cup Twins \cup Alone : \A role \in DOMAIN c : Accepted(c[role])}

Perms == {served[role].perm : role \in DOMAIN served}

\* the tags somebody reads
ReadTags == IF "read" \in DOMAIN served THEN served.read.tags ELSE {}

\* bound: the limiter fails and permissions are taken away while one route is served alone
Upset == Cardinality(DOMAIN served) = 1

\* a read is served with a write of its data
Paired == DOMAIN served = {"read", "write"}

-----------------------------------------------------------------------------
(* What a write changes of a cached answer without bumping a tag of it: the  *)
(* known gaps between the TagSpecs of internal/modules/*/routes.go.          *)

NamesOf(routes) == {r.name : r \in routes}

ContentChanges == NamesOf(ArtifactWrites \cup PageWrites \cup ResourceWrites \cup CalendarWrites)

ProjectCounts == {<<"dashboard", "project">>, <<"overview", "project">>}

ProjectChanges == NamesOf(ProjectWrites)

TeamChanges == NamesOf(TeamWrites)

ContentReads == NamesOf(ArtifactReads \cup PageReads \cup ResourceReads)

HomeLists == NamesOf(HomeReads) \ {<<"home", "account">>, <<"home", "docs">>}

\* joining bumps the tags of the one who joins, and not those of the activity lists
RosterChanges == {<<"accept", "invite">>, <<"decline", "invite">>}

ActivityLists == {<<"home", "activity">>, <<"home", "dashboard-activity">>}

RosterLists == {<<"list", "member">>, <<"list", "role">>, <<"get", "task">>, <<"home", "reference">>} \cup ActivityLists

Standing == {<<"accept", "invite">>, <<"update", "member">>}

KnownGap(r, w) ==
  \/ r \in ProjectCounts /\ w \in ContentChanges
  \/ r \in ContentReads \cup NamesOf(TeamReads) /\ w = <<"delete", "project">>
  \/ r \in HomeLists /\ w \in ContentChanges \cup ProjectChanges \cup TeamChanges
  \/ r \in RosterLists /\ w \in RosterChanges
  \/ r \in ActivityLists /\ w = <<"create", "project">>
  \/ r = <<"access", "project">> /\ w \in Standing \cup {<<"update", "role">>}
  \/ r = <<"get", "task">> /\ w \in Standing

\* bound: a pair of routes gets one request more than a route alone or a known gap,
\* for a read before a write, the write, and a read after it
MostRequests ==
  IF Paired /\ ~ KnownGap(served.read.name, served.write.name) THEN MaxRequests ELSE MaxRequests - 1

-----------------------------------------------------------------------------
(* The first state. *)

\* who a route's rate limit counts: its project or its user
Identities ==
  UNION {{Path(served[role])} \X (IF served[role].project THEN Projects ELSE Users \cup {NoUser}) : role \in DOMAIN served}

NoPrincipal == [user |-> NoUser, proj |-> "none", perms |-> {}]

Idle == [pc |-> "idle", role |-> "read", user |-> NoUser, proj |-> "none", item |-> "none",
         json |-> TRUE, at |-> 1, principal |-> NoPrincipal, tok |-> {}, seen |-> {},
         status |-> 0, body |-> "none", had |-> NotMember, since |-> {}]

RouteOf(q) == served[q.role]

GatewayInit ==
  /\ served \in Candidates
  /\ mask = [u \in Users |-> [p \in Projects |-> Perms]]
  /\ req = [s \in Slots |-> Idle]
  /\ started = 0 /\ faults = 0
  /\ version = [t \in ReadTags \X (Users \cup Projects \cup {NoUser}) |-> 0]
  /\ answers = {}
  /\ commits = <<>> /\ confirmed = {}
  /\ count = [k \in Identities |-> 0] /\ passed = [k \in Identities |-> 0]

-----------------------------------------------------------------------------
(* Starting and ending a request. *)

Shared1 == <<version, answers, commits, count, passed>>

\* the writes whose effect an answer to q would show
Affects(w, q) ==
  LET common == served.read.of \cap served.write.of
  IN /\ served.read.project => w.proj = q.proj
     /\ common \subseteq Personal /\ ~ served.write.project => w.user = q.user

Fixed == <<served, mask, started>>

\* one policy further
Pass(q, principal) == [q EXCEPT !.at = @ + 1, !.principal = principal]

\* an answer that no policy before looks at: nothing is stored, nothing invalidated
Refuse(q, status) == [Idle EXCEPT !.pc = "answered", !.role = q.role, !.status = status]

Faces(q, p) == q.pc = "chain" /\ q.at <= Len(RouteOf(q).chain) /\ RouteOf(q).chain[q.at] = p

-----------------------------------------------------------------------------
(* Policies that only look at the request; they run together with the step   *)
(* before them, nothing they use can change in between.                      *)

AuthRequired(q) ==
  IF q.user = NoUser THEN Refuse(q, 401) ELSE Pass(q, [q.principal EXCEPT !.user = q.user])

ProjectRequired(q) ==
  IF q.principal.user = NoUser THEN Refuse(q, 401)
  ELSE IF ~ RouteOf(q).project THEN Refuse(q, 403)
  ELSE Pass(q, [q.principal EXCEPT !.proj = q.proj])

ProjectMatchFromPath(q) ==
  IF q.principal.user = NoUser THEN Refuse(q, 401)
  ELSE IF q.principal.proj # q.proj THEN Refuse(q, 403)
  ELSE Pass(q, q.principal)

\* the resolver (PermissionCache) answers with the mask as it is, or refuses
ResolvePermissions(q) ==
  LET who == q.principal IN
  IF who.user = NoUser THEN Refuse(q, 401)
  ELSE IF who.proj = "none" \/ mask[who.user][who.proj] = NotMember THEN Refuse(q, 403)
  ELSE Pass(q, [who EXCEPT !.perms = mask[who.user][who.proj]])

RequirePermission(q) ==
  IF RouteOf(q).perm \in q.principal.perms THEN Pass(q, q.principal) ELSE Refuse(q, 403)

RequireJSON(q) == IF q.json THEN Pass(q, q.principal) ELSE Refuse(q, 415)

Local(q) ==
  CASE Faces(q, "AuthRequired") -> AuthRequired(q)
    [] Faces(q, "ProjectRequired") -> ProjectRequired(q)
    [] Faces(q, "ProjectMatchFromPath") -> ProjectMatchFromPath(q)
    [] Faces(q, "ResolvePermissions") -> ResolvePermissions(q)
    [] Faces(q, "RequirePermission") -> RequirePermission(q)
    [] Faces(q, "RequireJSON") -> RequireJSON(q)
    [] Faces(q, "CacheControl") \/ Faces(q, "CacheInvalidate") -> Pass(q, q.principal)
    [] OTHER -> q

\* up to the next policy that looks beyond the request: no chain is longer than
\* eight policies
TwoFurther(q) == Local(Local(q))
FourFurther(q) == TwoFurther(TwoFurther(q))
Walk(q) == FourFurther(FourFurther(q))

Become(s, q) == req' = [req EXCEPT ![s] = Walk(q)]

\* a request that comes in, with what is remembered of that moment
Asked(role, u, p, i, json) ==
  [Idle EXCEPT !.pc = "chain", !.role = role, !.user = u, !.proj = p, !.item = i, !.json = json,
               !.had = IF u \in Users /\ p \in Projects THEN mask[u][p] ELSE NotMember,
               !.since = confirmed]

Start(s) ==
  /\ req[s].pc \in {"idle", "answered"} /\ started < MostRequests
  /\ \E role \in DOMAIN served, u \in Users \cup {NoUser}, json \in BOOLEAN :
     \E p \in IF role # "read" \/ served[role].project THEN Projects ELSE {"none"},
        i \in IF served[role].item THEN Items ELSE {"none"} :
       /\ json \/ (Has(served[role], "RequireJSON") /\ u # NoUser)
       /\ Upset \/ (json /\ u # NoUser)   \* bound: others come to a route alone
       /\ Become(s, Asked(role, u, p, i, json))
  /\ started' = started + 1
  /\ UNCHANGED <<served, mask, confirmed, faults, Shared1>>

Fault == Upset /\ faults < MaxFaults /\ faults' = faults + 1

-----------------------------------------------------------------------------
(* The limiter (internal/core/ratelimit): a counter in Redis per path and    *)
(* identity that ends with the window its first request began.               *)

\* mutant: the identity is left out of the key
BucketOfRoute(q) ==
  <<Path(RouteOf(q)), CHOOSE x \in IF RouteOf(q).project THEN Projects ELSE Users : TRUE>>

\* BuildKey with the scope of the route's rule: no method in it
Bucket(q) == <<Path(RouteOf(q)), IF RouteOf(q).project THEN q.principal.proj ELSE q.principal.user>>

\* who the request is made for, whatever the code takes it for
Identity(q) == <<Path(RouteOf(q)), IF RouteOf(q).project THEN q.proj ELSE q.user>>

RateLimit(s) ==
  /\ Faces(req[s], "RateLimit")
  /\ \E ended \in BOOLEAN :           \* whether the window is over, and the key with it
       LET k == Bucket(req[s])
           i == Identity(req[s])
           n == (IF ended THEN 0 ELSE count[k]) + 1
       IN /\ ended => count[k] > 0
          /\ count' = [count EXCEPT ![k] = n]
          /\ IF n <= Limit
             THEN /\ Become(s, Pass(req[s], req[s].principal))
                  /\ passed' = [passed EXCEPT ![i] = IF ended THEN 1 ELSE @ + 1]
             ELSE Become(s, Refuse(req[s], 429)) /\ UNCHANGED passed
  /\ UNCHANGED <<faults, Fixed, version, answers, commits, confirmed>>

\* the script fails, or its answer is lost after it counted
RateLimitFails(s) ==
  /\ Faces(req[s], "RateLimit")
  /\ LET k == Bucket(req[s]) IN
       \/ UNCHANGED <<count, passed>>
       \/ count' = [count EXCEPT ![k] = @ + 1] /\ passed' = [passed EXCEPT ![Identity(req[s])] = @ + 1]
  /\ IF LimiterFailOpen THEN Become(s, Pass(req[s], req[s].principal)) ELSE Become(s, Refuse(req[s], 503))
  /\ Fault
  /\ UNCHANGED <<Fixed, version, answers, commits, confirmed>>

-----------------------------------------------------------------------------
(* Cached answers. *)

\* the versions of a route's tags for a request: PathParams and ProjectID name
\* the project, UserID the user; home.docs has no scope
Scope(r, q) == IF r.project THEN q.proj ELSE IF Shared(r) THEN NoUser ELSE q.principal.user

Token(r, q) == [t \in r.tags |-> version[<<t, Scope(r, q)>>]]

\* mutant: the path parameters are left out
KeyWithoutItem(q) ==
  LET r == RouteOf(q)
  IN [project |-> IF "project" \in r.vary THEN q.principal.proj ELSE "none",
      user    |-> IF "user" \in r.vary THEN q.principal.user ELSE "none",
      item    |-> "none", tags |-> Token(r, q)]

\* BuildReadKeyWithTemplate: the dimensions the route varies by, and the tag versions
Key(q) ==
  LET r == RouteOf(q)
  IN [project |-> IF "project" \in r.vary THEN q.principal.proj ELSE "none",
      user    |-> IF "user" \in r.vary THEN q.principal.user ELSE "none",
      item    |-> IF "item" \in r.vary THEN q.item ELSE "none",
      tags    |-> Token(r, q)]

\* a successful answer, and what is remembered of its request
Answer(q, body, seen) ==
  [q EXCEPT !.pc = "answered", !.status = 200, !.body = body, !.seen = seen,
            !.at = 1, !.principal = NoPrincipal, !.tok = {}]

CacheRead(s) ==
  /\ Faces(req[s], "CacheRead")
  /\ LET q == req[s]
         hits == {e \in answers : e.key = Key(q)}
     IN \/ \E e \in hits : req' = [req EXCEPT ![s] = Answer(q, e.body, e.seen)]
        \/ Become(s, [q EXCEPT !.at = @ + 1, !.tok = {Key(q)}])  \* none, expired, or Redis fails
  /\ UNCHANGED <<faults, Fixed, confirmed, Shared1>>

-----------------------------------------------------------------------------
(* Handlers, and the way back out. *)

AtHandler(s) == req[s].pc = "chain" /\ req[s].at > Len(RouteOf(req[s]).chain)

\* answers that are made of the requesting user's own rows
PerUser(r) == (~ r.project /\ ~ Shared(r)) \/ r.name = <<"access", "project">>

\* whose data an answer shows
Subject(q) ==
  LET r == RouteOf(q)
  IN [proj |-> IF r.project THEN q.proj ELSE "none",
      item |-> IF r.item THEN q.item ELSE "none",
      user |-> IF PerUser(r) THEN q.user ELSE NoUser]

\* CacheRead keeps an answer with status 200 under the key of its lookup
HandleRead(s) ==
  /\ AtHandler(s) /\ req[s].role = "read"
  /\ \/ /\ req' = [req EXCEPT ![s] = Answer(@, Subject(@), DOMAIN commits)]
        /\ answers' = answers \cup {[key |-> k, body |-> Subject(req[s]), seen |-> DOMAIN commits] : k \in req[s].tok}
     \/ req' = [req EXCEPT ![s] = Refuse(@, 500)] /\ UNCHANGED answers
  /\ UNCHANGED <<faults, Fixed, version, commits, confirmed, count, passed>>

HandleWrite(s) ==
  /\ AtHandler(s) /\ req[s].role # "read"
  /\ \/ /\ commits' = Append(commits, [user |-> req[s].user, proj |-> req[s].proj])
        /\ req' = [req EXCEPT ![s] = [@ EXCEPT !.pc = "out", !.seen = {Len(commits) + 1}]]
     \/ /\ req' = [req EXCEPT ![s] = Refuse(@, 500)]
        /\ UNCHANGED commits
  /\ UNCHANGED <<faults, Fixed, version, answers, confirmed, count, passed>>

\* mutant: the answer goes out and the tags are left
InvalidateNothing(s) ==
  /\ req[s].pc = "out" /\ req[s].role # "read"
  /\ confirmed' = confirmed \cup req[s].seen
  /\ req' = [req EXCEPT ![s] = Answer(@, @.body, @.seen)]
  /\ UNCHANGED <<faults, Fixed, version, answers, commits, count, passed>>

\* CacheInvalidate bumps the route's tags in the scope of the request
OutOfWrite(s) ==
  /\ req[s].pc = "out" /\ req[s].role # "read"
  /\ LET w == RouteOf(req[s])
         bumped == IF Has(w, "CacheInvalidate") THEN {<<t, Scope(w, req[s])>> : t \in w.tags} ELSE {}
     IN version' = [x \in DOMAIN version |-> IF x \in bumped THEN version[x] + 1 ELSE version[x]]
  /\ confirmed' = confirmed \cup req[s].seen
  /\ req' = [req EXCEPT ![s] = Answer(@, @.body, @.seen)]
  /\ UNCHANGED <<faults, Fixed, answers, commits, count, passed>>

\* somebody takes permissions or the membership away
Demote(u, p) ==
  /\ Upset /\ mask[u][p] = Perms
  /\ \A v \in Users, o \in Projects : mask[v][o] = Perms          \* bound: once
  /\ \E less \in {{}, NotMember} : mask' = [mask EXCEPT ![u][p] = less]
  /\ UNCHANGED <<faults, served, req, started, confirmed, Shared1>>

Done ==
  /\ started = MostRequests /\ \A s \in Slots : req[s].pc \in {"idle", "answered"}
  /\ UNCHANGED gatewayVars

GatewayNext ==
  \/ \E s \in Slots : \/ Start(s)
                      \/ RateLimit(s) \/ RateLimitFails(s) \/ CacheRead(s)
                      \/ HandleRead(s) \/ HandleWrite(s) \/ OutOfWrite(s)
  \/ \E u \in Users, p \in Projects : Demote(u, p)
  \/ Done

GatewaySpec == GatewayInit /\ [][GatewayNext]_gatewayVars

-----------------------------------------------------------------------------
(* Properties. *)

\* Types of the state, for every accepted chain: internal/core/policy.
GatewayTypeOK ==
  /\ mask \in [Users -> [Projects -> (SUBSET Perms) \cup {NotMember}]]
  /\ \A s \in Slots :
       LET q == req[s] IN
       /\ q.pc \in {"idle", "chain", "out", "answered"} /\ q.role \in {"read", "write", "other"}
       /\ q.at \in 1 .. 9 /\ q.status \in {0, 200, 401, 403, 415, 429, 500, 503}
       /\ q.principal.user \in Users \cup {NoUser} /\ q.principal.perms \in SUBSET Perms
       /\ q.since \subseteq confirmed /\ q.seen \subseteq DOMAIN commits
  /\ confirmed \subseteq DOMAIN commits
  /\ \A k \in Identities : count[k] \in Nat

Answered(q) == q.pc = "answered" /\ q.status = 200

\* Whatever order of policies the validator accepts, an answer out of the cache
\* like one of the handler is given only to a user with a token who held the
\* route's permission during the request (validator_rules.go, policyOrderStage).
AnswersEntitled ==
  \A s \in Slots : Answered(req[s]) =>
    LET q == req[s]
        r == RouteOf(q)
    IN
      /\ Has(r, "AuthRequired") => q.user # NoUser
      /\ Has(r, "ResolvePermissions") => q.had # NotMember
      /\ Has(r, "RequirePermission") => r.perm \in q.had

\* An answer is about the project, the item and the user of its request, also
\* when somebody else's request put it into the cache (BuildReadKeyWithTemplate).
OwnSubject ==
  /\ GatewayTypeOK
  /\ \A s \in Slots : Answered(req[s]) /\ req[s].role = "read" => req[s].body = Subject(req[s])

\* An answer out of the cache shows every write answered before it was asked for,
\* unless the two routes are a known gap (the TagSpecs of internal/modules/*/routes.go).
WritesSeen ==
  \A s \in Slots : LET q == req[s] IN
    Answered(q) /\ q.role = "read" /\ Paired
      => \/ KnownGap(served.read.name, served.write.name)
         \/ \A n \in q.since : Affects(commits[n], q) => n \in q.seen

\* Within a window the routes of a path together let at most Limit requests of an identity
\* through, and refuse one only after as many of the same identity (ratelimit.go, Allow).
LimitPerIdentity ==
  [][\A s \in Slots : Faces(req[s], "RateLimit") /\ req'[s] # req[s] =>
       LET k == Identity(req[s]) IN
       /\ req'[s].status = 429 => passed[k] >= Limit
       /\ passed'[k] > Limit => passed'[k] = passed[k] \/ faults' > faults]_gatewayVars

=============================================================================
