----------------------------- MODULE RouteCache -----------------------------
(***************************************************************************)
(* The response cache of the HTTP pipeline: cache.Manager                  *)
(* (internal/core/cache/manager.go) driven by the CacheRead and            *)
(* CacheInvalidate policies (internal/core/policy/cache.go).               *)
(*                                                                         *)
(* One cached read route with a fixed set of Tags is modelled; distinct    *)
(* routes and distinct VaryBy values hash to distinct keys and share only  *)
(* the tag versions.  A cache key is therefore the tag-version token: the  *)
(* vector of versions the reader saw.  Redis holds the versions (ver) and  *)
(* the stored responses (store); each process holds at most one locally    *)
(* cached token for the route (token).  A response body is abstracted to   *)
(* the vector of committed writes per tag that it reflects.                *)
(***************************************************************************)
EXTENDS Naturals, FiniteSets

CONSTANTS
    Procs,          \* application processes (replicas) sharing Redis
    Readers,        \* concurrent cached reads
    Writers,        \* concurrent writes on routes with CacheInvalidate
    Tags,           \* the tags of the route
    None,           \* "no value"
    TokenCache,     \* per process: CACHE_TAG_VERSION_CACHE_TTL > 0
    FailOpen,       \* the resolved fail-open policy
    MaxWrites       \* bound: commits explored

ASSUME ConstantsAssumption ==
    /\ TokenCache \in [Procs -> BOOLEAN]
    /\ FailOpen \in BOOLEAN
    /\ MaxWrites \in Nat

Vector == [Tags -> Nat]

ASSUME NoneAssumption == None \notin Vector /\ None \notin Procs

VARIABLES
    db,         \* committed writes per tag (PostgreSQL)
    ver,        \* Redis: version counter per tag
    store,      \* Redis: stored responses, a set of [tok, data]
    token,      \* per process: locally cached tag token, or None
    rd,         \* state of each reader
    wr,         \* state of each writer
    bumped,     \* history: db[t] when version t was last incremented
    lost,       \* history: a write of t that will not bump came after that
    acked       \* history: writes whose invalidation has completed

vars == <<db, ver, store, token, rd, wr, bumped, lost, acked>>

Zero == [t \in Tags |-> 0]

Covers(a, b) == \A t \in Tags : b[t] <= a[t]
Join(a, b) == [t \in Tags |-> IF a[t] < b[t] THEN b[t] ELSE a[t]]

ReaderState == [pc : {"idle", "token", "fetch", "keep", "get", "handler",
                      "bare", "set", "answered"},
                proc : Procs \cup {None},
                tok : Vector, data : Vector, floor : Vector,
                status : {"none", "hit", "fresh", "unavailable"}]

WriterState == [pc : {"idle", "bump", "clear", "answered"},
                proc : Procs \cup {None},
                todo : SUBSET Tags, mine : Vector]

IdleReader == [pc |-> "idle", proc |-> None, tok |-> Zero, data |-> Zero,
               floor |-> Zero, status |-> "none"]

IdleWriter == [pc |-> "idle", proc |-> None, todo |-> {}, mine |-> Zero]

Init ==
    /\ db = Zero /\ ver = Zero /\ store = {}
    /\ token = [p \in Procs |-> None]
    /\ rd = [r \in Readers |-> IdleReader]
    /\ wr = [w \in Writers |-> IdleWriter]
    /\ bumped = Zero /\ acked = Zero
    /\ lost = [t \in Tags |-> FALSE]

-----------------------------------------------------------------------------
(* Readers: the handler returned by CacheRead.                             *)

Hidden == <<db, ver, wr, bumped, lost, acked>>

StartRead(r) ==
    /\ rd[r].pc \in {"idle", "answered"}
    /\ \E p \in Procs :
         rd' = [rd EXCEPT ![r] = [IdleReader EXCEPT !.pc = "token",
                                                    !.proc = p,
                                                    !.floor = acked]]
    /\ UNCHANGED <<store, token, Hidden>>

\* tagTokenFromCache: a live local token answers without Redis
LookupToken(r) ==
    /\ rd[r].pc = "token"
    /\ LET local == token[rd[r].proc] IN
         rd' = IF TokenCache[rd[r].proc] /\ local # None
               THEN [rd EXCEPT ![r] = [@ EXCEPT !.pc = "get", !.tok = local]]
               ELSE [rd EXCEPT ![r].pc = "fetch"]
    /\ UNCHANGED <<store, token, Hidden>>

\* mutant: the versions MGET returns are all taken for absent keys
FetchVersionsAsZero(r) ==
    /\ rd[r].pc = "fetch"
    /\ rd' = [rd EXCEPT ![r] = [@ EXCEPT !.pc = "keep", !.tok = Zero]]
    /\ UNCHANGED <<store, token, Hidden>>

\* MGET of the version keys
FetchVersions(r) ==
    /\ rd[r].pc = "fetch"
    /\ rd' = [rd EXCEPT ![r] = [@ EXCEPT !.pc = "keep", !.tok = ver]]
    /\ UNCHANGED <<store, token, Hidden>>

\* storeTagToken: a step of its own, the versions may have moved meanwhile
KeepToken(r) ==
    /\ rd[r].pc = "keep"
    /\ token' = IF TokenCache[rd[r].proc]
                THEN [token EXCEPT ![rd[r].proc] = rd[r].tok]
                ELSE token
    /\ rd' = [rd EXCEPT ![r].pc = "get"]
    /\ UNCHANGED <<store, Hidden>>

GetHit(r) ==
    /\ rd[r].pc = "get"
    /\ \E e \in store :
         /\ e.tok = rd[r].tok
         /\ rd' = [rd EXCEPT ![r] = [@ EXCEPT !.pc = "answered",
                                              !.data = e.data,
                                              !.status = "hit"]]
    /\ UNCHANGED <<store, token, Hidden>>

GetMiss(r) ==
    /\ rd[r].pc = "get"
    /\ \A e \in store : e.tok # rd[r].tok
    /\ rd' = [rd EXCEPT ![r].pc = "handler"]
    /\ UNCHANGED <<store, token, Hidden>>

\* Redis fails: the key cannot be built (no caching for this request) or the
\* lookup fails (the handler runs and its response is still stored)
RedisReadFails(r) ==
    /\ rd[r].pc \in {"fetch", "get"}
    /\ rd' = [rd EXCEPT ![r] =
                 IF FailOpen
                 THEN [@ EXCEPT !.pc = IF rd[r].pc = "fetch" THEN "bare"
                                      ELSE "handler"]
                 ELSE [@ EXCEPT !.pc = "answered", !.status = "unavailable"]]
    /\ UNCHANGED <<store, token, Hidden>>

\* the route handler reads the database; its response may not be Cacheable
RunHandler(r) ==
    /\ rd[r].pc \in {"handler", "bare"}
    /\ \E cacheable \in BOOLEAN :
         rd' = [rd EXCEPT ![r] =
                  [@ EXCEPT !.pc = IF cacheable /\ rd[r].pc = "handler"
                                   THEN "set" ELSE "answered",
                            !.data = db, !.status = "fresh"]]
    /\ UNCHANGED <<store, token, Hidden>>

\* mutant: the key is rebuilt from the current versions when storing
StoreRekeyed(r) ==
    /\ rd[r].pc = "set"
    /\ store' = {e \in store : e.tok # ver} \cup {[tok |-> ver, data |-> rd[r].data]}
    /\ rd' = [rd EXCEPT ![r] = [@ EXCEPT !.pc = "answered", !.tok = ver]]
    /\ UNCHANGED <<token, Hidden>>

\* Set replaces what another fill stored under the same key, or fails silently
StoreResponse(r) ==
    /\ rd[r].pc = "set"
    /\ \/ store' = {e \in store : e.tok # rd[r].tok}
                     \cup {[tok |-> rd[r].tok, data |-> rd[r].data]}
       \/ store' = store
    /\ rd' = [rd EXCEPT ![r].pc = "answered"]
    /\ UNCHANGED <<token, Hidden>>

-----------------------------------------------------------------------------
(* Writers: the handler returned by CacheInvalidate.                       *)

\* mutant: the route forgets its TagSpecs, its writes bump nothing
CommitWithoutTags(w) ==
    /\ wr[w].pc \in {"idle", "answered"}
    /\ \E ts \in (SUBSET Tags) \ {{}} :
         /\ \A t \in ts : db[t] < MaxWrites
         /\ db' = [t \in Tags |-> IF t \in ts THEN db[t] + 1 ELSE db[t]]
    /\ UNCHANGED <<wr, lost, ver, store, token, rd, bumped, acked>>

\* the wrapped handler commits a write that concerns the tags ts and answers;
\* a handler may also commit part of its work and answer with an error
\* (BatchInvites), and then nothing is bumped
HandlerCommits(w) ==
    /\ wr[w].pc \in {"idle", "answered"}
    /\ \E p \in Procs, ts \in (SUBSET Tags) \ {{}}, success \in BOOLEAN :
         /\ \A t \in ts : db[t] < MaxWrites
         /\ db' = [t \in Tags |-> IF t \in ts THEN db[t] + 1 ELSE db[t]]
         /\ wr' = [wr EXCEPT ![w] =
                     [pc |-> IF success THEN "bump" ELSE "answered",
                      proc |-> p, todo |-> IF success THEN ts ELSE {},
                      mine |-> [t \in Tags |-> IF t \in ts THEN db[t] + 1 ELSE 0]]]
         /\ lost' = [t \in Tags |-> lost[t] \/ (t \in ts /\ ~success)]
    /\ UNCHANGED <<ver, store, token, rd, bumped, acked>>

\* mutant: DECR for INCR
BumpTagDown(w) ==
    /\ wr[w].pc = "bump"
    /\ \E t \in wr[w].todo :
         /\ ver' = [ver EXCEPT ![t] = @ - 1]
         /\ bumped' = [bumped EXCEPT ![t] = db[t]]
         /\ lost' = [lost EXCEPT ![t] = FALSE]
         /\ wr' = [wr EXCEPT ![w] =
                     [@ EXCEPT !.todo = wr[w].todo \ {t},
                               !.pc = IF wr[w].todo = {t} THEN "clear" ELSE "bump"]]
    /\ UNCHANGED <<db, store, token, rd, acked>>

\* BumpTags: the pipeline's INCRs run one by one, other clients in between
BumpTag(w) ==
    /\ wr[w].pc = "bump"
    /\ \E t \in wr[w].todo :
         /\ ver' = [ver EXCEPT ![t] = @ + 1]
         /\ bumped' = [bumped EXCEPT ![t] = db[t]]
         /\ lost' = [lost EXCEPT ![t] = FALSE]
         /\ wr' = [wr EXCEPT ![w] =
                     [@ EXCEPT !.todo = wr[w].todo \ {t},
                               !.pc = IF wr[w].todo = {t} THEN "clear" ELSE "bump"]]
    /\ UNCHANGED <<db, store, token, rd, acked>>

\* pipe.Exec returns an error, some of the INCRs not executed or their replies
\* lost (Redis fails, or the request's context is cancelled): the error is only
\* counted, the response is out and the local tokens stay
BumpFails(w) ==
    /\ wr[w].pc \in {"bump", "clear"}
    /\ lost' = [t \in Tags |-> lost[t] \/ t \in wr[w].todo]
    /\ wr' = [wr EXCEPT ![w] = [@ EXCEPT !.pc = "answered", !.todo = {}]]
    /\ UNCHANGED <<db, ver, store, token, rd, bumped, acked>>

\* after a successful Exec the process forgets its local tokens
ClearTokens(w) ==
    /\ wr[w].pc = "clear"
    /\ token' = [token EXCEPT ![wr[w].proc] = None]
    /\ acked' = Join(acked, wr[w].mine)
    /\ wr' = [wr EXCEPT ![w].pc = "answered"]
    /\ UNCHANGED <<db, ver, store, rd, bumped, lost>>

-----------------------------------------------------------------------------
(* Time and failures.                                                      *)

\* mutant: responses are stored without a TTL
EntryStays(k) == FALSE /\ k \in Vector /\ UNCHANGED vars

\* a stored response reaches its TTL
EntryExpires(k) ==
    /\ \E e \in store : e.tok = k /\ store' = store \ {e}
    /\ UNCHANGED <<token, rd, Hidden>>

\* a local token reaches tagTokenTTL
TokenExpires(p) ==
    /\ token[p] # None
    /\ token' = [token EXCEPT ![p] = None]
    /\ UNCHANGED <<store, rd, Hidden>>

\* a process stops: its requests end, pending invalidations are never sent
Crash(p) ==
    /\ token' = [token EXCEPT ![p] = None]
    /\ rd' = [r \in Readers |-> IF rd[r].proc = p THEN IdleReader ELSE rd[r]]
    /\ lost' = [t \in Tags |->
                  lost[t] \/ \E w \in Writers : wr[w].proc = p /\ t \in wr[w].todo]
    /\ wr' = [w \in Writers |-> IF wr[w].proc = p THEN IdleWriter ELSE wr[w]]
    /\ UNCHANGED <<db, ver, store, bumped, acked>>

ReaderStep(r) ==
    \/ LookupToken(r) \/ FetchVersions(r) \/ KeepToken(r)
    \/ GetHit(r) \/ GetMiss(r) \/ RunHandler(r) \/ StoreResponse(r)

WriterStep(w) == BumpTag(w) \/ ClearTokens(w)

Next ==
    \/ \E r \in Readers : StartRead(r) \/ ReaderStep(r) \/ RedisReadFails(r)
    \/ \E w \in Writers : HandlerCommits(w) \/ WriterStep(w) \/ BumpFails(w)
    \/ \E e \in store : EntryExpires(e.tok)
    \/ \E p \in Procs : TokenExpires(p) \/ Crash(p)

Spec == Init /\ [][Next]_vars

(* Requests run to completion (or to the request timeout) and TTLs elapse; *)
(* nobody is obliged to send a request, and Redis need not fail.           *)
Fairness ==
    /\ \A r \in Readers : WF_vars(ReaderStep(r))
    /\ \A w \in Writers : WF_vars(WriterStep(w))
    /\ \A p \in Procs : WF_vars(TokenExpires(p))
    /\ \A k \in [Tags -> 0 .. MaxWrites] : WF_vars(EntryExpires(k))

FairSpec == Spec /\ Fairness

-----------------------------------------------------------------------------
TypeOK ==
    /\ db \in Vector /\ ver \in Vector /\ bumped \in Vector /\ acked \in Vector
    /\ lost \in [Tags -> BOOLEAN]
    /\ store \subseteq [tok : Vector, data : Vector]
    /\ token \in [Procs -> Vector \cup {None}]
    /\ rd \in [Readers -> ReaderState]
    /\ wr \in [Writers -> WriterState]
    /\ \A r \in Readers : rd[r].pc # "idle" => rd[r].proc \in Procs

(* What bump-miss invalidation promises (manager.go BumpTags, CacheRead): a *)
(* stored response that a current token can still reach reflects every      *)
(* write committed before the last INCR of each of its tags.  The database  *)
(* is read after the versions and the versions move after the commit.       *)
CurrentEntryCoversBumps ==
    \A e \in store, t \in Tags : e.tok[t] = ver[t] => bumped[t] <= e.data[t]

(* CacheInvalidate runs after the handler and ignores errors: a reachable   *)
(* response that misses a committed write means that some writer still has  *)
(* its INCR to send, or that an INCR was lost (crash, Redis failure, or a   *)
(* handler that committed and then answered with an error).                 *)
StaleEntryExplained ==
    \A e \in store, t \in Tags :
        e.tok[t] = ver[t] /\ e.data[t] < db[t]
            => lost[t] \/ \E w \in Writers : t \in wr[w].todo

(* A cached answer older than an invalidation that had completed when the   *)
(* request arrived was reached through an outdated tag token, never through *)
(* the current one (tagTokenFromCache, storeTagToken).                      *)
StaleHitUsedOldToken ==
    \A r \in Readers, t \in Tags :
        rd[r].status = "hit" /\ rd[r].data[t] < rd[r].floor[t]
            => rd[r].tok[t] < ver[t]

(* docs/cache-guide.md "Invalidation lifecycle": a read that arrives after  *)
(* a write's invalidation completed sees that write.  It does so in a       *)
(* process that does not cache tokens, whatever fills race for the key and  *)
(* whatever the other processes cache.                                      *)
UncachedTokensSeeWrite ==
    \A r \in Readers :
        rd[r].status \in {"hit", "fresh"} /\ ~TokenCache[rd[r].proc]
            => Covers(rd[r].data, rd[r].floor)

(* Whatever bump was lost and whatever token was kept too long, staleness   *)
(* ends with the TTLs (Set's ttl, tagTokenTTL): once the writes stop, every *)
(* reachable response is current and every local token is.                  *)
StalenessEnds ==
    <>[] /\ \A e \in store : e.tok = ver => e.data = db
         /\ \A p \in Procs : token[p] \in {None, ver}
=============================================================================
