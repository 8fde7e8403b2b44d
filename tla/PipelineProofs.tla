--------------------------- MODULE PipelineProofs ---------------------------
(***************************************************************************)
(* The proofs about the HTTP pipeline: the response cache (RouteCache) and *)
(* the requests that pass the policies of their routes (Gateway).          *)
(*                                                                         *)
(* What bump-miss invalidation guarantees for every number of processes,   *)
(* requests, tags and writes.  The properties are not inductive alone: the *)
(* strengthening is that no token anywhere is ahead of the versions, that  *)
(* a fill carrying a current token has read the database after the last    *)
(* bump, and that every commit is bumped, pending in a writer, or lost.    *)
(*                                                                         *)
(* What the chains guarantee for every request, user, project and table of *)
(* kinds.  The strengthening says what each gate behind a request found    *)
(* out, that every key and every answer kept is about what its versions    *)
(* are of, and that an answer without a confirmed write has an old key.    *)
(***************************************************************************)
EXTENDS RouteCache, Gateway, FiniteSetTheorems, SequenceTheorems, TLAPS

\* no token, in Redis, in a process or in a request, is ahead of the versions
TokensBehind ==
    /\ \A e \in store : Covers(ver, e.tok)
    /\ \A p \in Procs : token[p] # None => Covers(ver, token[p])
    /\ \A r \in Readers : Covers(ver, rd[r].tok)

\* what a reader holds under a current token covers the last bump of each tag
FillCoversBumps ==
    /\ \A r \in Readers : rd[r].status = "hit" => rd[r].pc = "answered"
    /\ \A r \in Readers, t \in Tags :
         (rd[r].pc = "set" \/ rd[r].status = "hit") /\ rd[r].tok[t] = ver[t]
             => bumped[t] <= rd[r].data[t]

\* floor <= acked <= bumped <= db, and a writer's own write between them
HistoryOrder ==
    /\ Covers(db, bumped)
    /\ Covers(bumped, acked)
    /\ \A r \in Readers : Covers(acked, rd[r].floor)
    /\ \A w \in Writers, t \in Tags :
         /\ wr[w].mine[t] <= db[t]
         /\ wr[w].pc \in {"bump", "clear"} /\ t \notin wr[w].todo
              => wr[w].mine[t] <= bumped[t]

\* a commit not yet covered by a bump is pending in a writer or lost
CommitsAccounted ==
    /\ \A w \in Writers : wr[w].todo # {} => wr[w].pc = "bump"
    /\ \A t \in Tags :
         bumped[t] < db[t] => lost[t] \/ \E w \in Writers : t \in wr[w].todo

IInv ==
    /\ TypeOK
    /\ TokensBehind
    /\ FillCoversBumps
    /\ HistoryOrder
    /\ CommitsAccounted
    /\ CurrentEntryCoversBumps
-----------------------------------------------------------------------------
(* Init establishes the invariant.                                         *)
LEMMA InitInv == Init => IInv
<1>1. Zero \in Vector
  BY DEF Zero, Vector
<1>2. IdleReader \in ReaderState /\ IdleWriter \in WriterState
  BY <1>1 DEF IdleReader, IdleWriter, ReaderState, WriterState
<1>3. Init => TypeOK
  <2> SUFFICES ASSUME Init PROVE TypeOK
    OBVIOUS
  <2>1. /\ rd \in [Readers -> ReaderState] /\ wr \in [Writers -> WriterState]
        /\ \A r \in Readers : rd[r].pc = "idle"
    BY <1>2 DEF Init, IdleReader
  <2>2. QED
    BY <1>1, <2>1 DEF Init, TypeOK
<1>4. Init => TokensBehind /\ FillCoversBumps /\ HistoryOrder
               /\ CommitsAccounted /\ CurrentEntryCoversBumps
  BY DEF Init, TokensBehind, FillCoversBumps, HistoryOrder, CommitsAccounted,
         CurrentEntryCoversBumps, Covers, Zero, IdleReader, IdleWriter
<1>5. QED
  BY <1>3, <1>4 DEF IInv

\* a step that gives one reader a typed state keeps the readers typed
LEMMA ReaderMoves ==
  ASSUME TypeOK, NEW r \in Readers, NEW x \in ReaderState,
         rd' = [rd EXCEPT ![r] = x], x.pc # "idle" => x.proc \in Procs
  PROVE  /\ rd' \in [Readers -> ReaderState]
         /\ \A q \in Readers : rd'[q].pc # "idle" => rd'[q].proc \in Procs
<1>1. rd \in [Readers -> ReaderState]
      /\ \A q \in Readers : rd[q].pc # "idle" => rd[q].proc \in Procs
  BY DEF TypeOK
<1> QED BY <1>1

(* Every step preserves the types of the variables.                        *)
LEMMA TypeStep == TypeOK /\ [Next]_vars => TypeOK'
<1> SUFFICES ASSUME TypeOK, [Next]_vars PROVE TypeOK'
  OBVIOUS
<1> USE DEF TypeOK
<1>z. Zero \in Vector
  BY DEF Zero, Vector
<1>1. ASSUME NEW r \in Readers, StartRead(r) PROVE TypeOK'
  <2>1. rd' \in [Readers -> ReaderState]
    <3>1. PICK p \in Procs :
            rd' = [rd EXCEPT ![r] = [IdleReader EXCEPT !.pc = "token",
                                                       !.proc = p,
                                                       !.floor = acked]]
      BY <1>1 DEF StartRead
    <3>2. [IdleReader EXCEPT !.pc = "token", !.proc = p, !.floor = acked]
            \in ReaderState
      BY <1>z DEF IdleReader, ReaderState
    <3>3. QED
      BY <3>1, <3>2
  <2>2. \A q \in Readers : rd'[q].pc # "idle" => rd'[q].proc \in Procs
    BY <1>1 DEF StartRead, ReaderState, IdleReader
  <2>3. QED
    BY <1>1, <2>1, <2>2 DEF StartRead, Hidden
<1>2. ASSUME NEW r \in Readers, LookupToken(r) PROVE TypeOK'
  <2>1. rd[r].pc = "token" /\ rd[r].proc \in Procs /\ rd[r] \in ReaderState
    BY <1>2 DEF LookupToken
  <2> DEFINE local == token[rd[r].proc]
             x == IF TokenCache[rd[r].proc] /\ local # None
                  THEN [rd[r] EXCEPT !.pc = "get", !.tok = local]
                  ELSE [rd[r] EXCEPT !.pc = "fetch"]
  <2>2. local \in Vector \cup {None}
    BY <2>1
  <2>3. rd' = [rd EXCEPT ![r] = x]
    BY <1>2 DEF LookupToken
  <2> HIDE DEF local
  <2>4. x \in ReaderState /\ x.proc \in Procs
    BY <2>1, <2>2 DEF ReaderState
  <2> HIDE DEF x
  <2>5. /\ rd' \in [Readers -> ReaderState]
        /\ \A q \in Readers : rd'[q].pc # "idle" => rd'[q].proc \in Procs
    BY <2>3, <2>4, ReaderMoves
  <2>6. QED
    BY <1>2, <2>5 DEF LookupToken, Hidden
<1>3. ASSUME NEW r \in Readers, FetchVersions(r) PROVE TypeOK'
  <2> DEFINE x == [rd[r] EXCEPT !.pc = "keep", !.tok = ver]
  <2>1. rd' = [rd EXCEPT ![r] = x] /\ rd[r].proc \in Procs /\ rd[r] \in ReaderState
    BY <1>3 DEF FetchVersions
  <2>2. x \in ReaderState /\ x.proc \in Procs
    BY <2>1 DEF ReaderState
  <2> HIDE DEF x
  <2>3. /\ rd' \in [Readers -> ReaderState]
        /\ \A q \in Readers : rd'[q].pc # "idle" => rd'[q].proc \in Procs
    BY <2>1, <2>2, ReaderMoves
  <2>4. QED
    BY <1>3, <2>3 DEF FetchVersions, Hidden
<1>4. ASSUME NEW r \in Readers, KeepToken(r) PROVE TypeOK'
  <2> DEFINE x == [rd[r] EXCEPT !.pc = "get"]
  <2>1. rd' = [rd EXCEPT ![r] = x] /\ rd[r].proc \in Procs /\ rd[r] \in ReaderState
    BY <1>4 DEF KeepToken
  <2>2. x \in ReaderState /\ x.proc \in Procs /\ rd[r].tok \in Vector
    BY <2>1 DEF ReaderState
  <2> HIDE DEF x
  <2>3. /\ rd' \in [Readers -> ReaderState]
        /\ \A q \in Readers : rd'[q].pc # "idle" => rd'[q].proc \in Procs
    BY <2>1, <2>2, ReaderMoves
  <2>4. token' \in [Procs -> Vector \cup {None}]
    BY <1>4, <2>2 DEF KeepToken
  <2>5. QED
    BY <1>4, <2>3, <2>4 DEF KeepToken, Hidden
<1>5. ASSUME NEW r \in Readers, GetHit(r) PROVE TypeOK'
  <2>1. PICK e \in store :
          rd' = [rd EXCEPT ![r] = [@ EXCEPT !.pc = "answered",
                                            !.data = e.data, !.status = "hit"]]
    BY <1>5 DEF GetHit
  <2> DEFINE x == [rd[r] EXCEPT !.pc = "answered", !.data = e.data, !.status = "hit"]
  <2>2. e.data \in Vector
    OBVIOUS
  <2>3. rd' = [rd EXCEPT ![r] = x] /\ rd[r].proc \in Procs /\ rd[r] \in ReaderState
    BY <1>5, <2>1 DEF GetHit
  <2>4. x \in ReaderState /\ x.proc \in Procs
    BY <2>2, <2>3 DEF ReaderState
  <2> HIDE DEF x
  <2>5. /\ rd' \in [Readers -> ReaderState]
        /\ \A q \in Readers : rd'[q].pc # "idle" => rd'[q].proc \in Procs
    BY <2>3, <2>4, ReaderMoves
  <2>6. QED
    BY <1>5, <2>5 DEF GetHit, Hidden
<1>6. ASSUME NEW r \in Readers, GetMiss(r) PROVE TypeOK'
  BY <1>6 DEF GetMiss, Hidden, ReaderState
<1>7. ASSUME NEW r \in Readers, RedisReadFails(r) PROVE TypeOK'
  <2> DEFINE x == IF FailOpen
                  THEN [rd[r] EXCEPT !.pc = IF rd[r].pc = "fetch" THEN "bare"
                                            ELSE "handler"]
                  ELSE [rd[r] EXCEPT !.pc = "answered", !.status = "unavailable"]
  <2>1. rd' = [rd EXCEPT ![r] = x] /\ rd[r].proc \in Procs /\ rd[r] \in ReaderState
    BY <1>7 DEF RedisReadFails
  <2>2. x \in ReaderState /\ x.proc \in Procs
    BY <2>1 DEF ReaderState
  <2> HIDE DEF x
  <2>3. /\ rd' \in [Readers -> ReaderState]
        /\ \A q \in Readers : rd'[q].pc # "idle" => rd'[q].proc \in Procs
    BY <2>1, <2>2, ReaderMoves
  <2>4. QED
    BY <1>7, <2>3 DEF RedisReadFails, Hidden
<1>8. ASSUME NEW r \in Readers, RunHandler(r) PROVE TypeOK'
  <2>1. rd' \in [Readers -> ReaderState]
    <3>1. PICK cacheable \in BOOLEAN :
            rd' = [rd EXCEPT ![r] =
                     [@ EXCEPT !.pc = IF cacheable /\ rd[r].pc = "handler"
                                      THEN "set" ELSE "answered",
                               !.data = db, !.status = "fresh"]]
      BY <1>8 DEF RunHandler
    <3> DEFINE x == [rd[r] EXCEPT !.pc = IF cacheable /\ rd[r].pc = "handler"
                                         THEN "set" ELSE "answered",
                                  !.data = db, !.status = "fresh"]
    <3>2. x \in ReaderState
      <4> DEFINE pc == IF cacheable /\ rd[r].pc = "handler" THEN "set" ELSE "answered"
      <4>1. pc \in {"set", "answered"} /\ x = [rd[r] EXCEPT !.pc = pc, !.data = db,
                                                            !.status = "fresh"]
        OBVIOUS
      <4>2. rd[r] \in ReaderState /\ db \in Vector
        OBVIOUS
      <4> HIDE DEF pc, x
      <4>3. QED
        BY <4>1, <4>2 DEF ReaderState
    <3>3. rd' = [rd EXCEPT ![r] = x]
      BY <3>1
    <3> HIDE DEF x
    <3>4. QED
      BY <3>2, <3>3
  <2>2. \A q \in Readers : rd'[q].pc # "idle" => rd'[q].proc \in Procs
    BY <1>8 DEF RunHandler, ReaderState
  <2>3. QED
    BY <1>8, <2>1, <2>2 DEF RunHandler, Hidden
<1>9. ASSUME NEW r \in Readers, StoreResponse(r) PROVE TypeOK'
  BY <1>9 DEF StoreResponse, Hidden, ReaderState
<1>10. ASSUME NEW w \in Writers, HandlerCommits(w) PROVE TypeOK'
  BY <1>10 DEF HandlerCommits, WriterState, Vector
<1>11. ASSUME NEW w \in Writers, BumpTag(w) PROVE TypeOK'
  <2>1. PICK t \in wr[w].todo :
          /\ ver' = [ver EXCEPT ![t] = @ + 1]
          /\ bumped' = [bumped EXCEPT ![t] = db[t]]
          /\ lost' = [lost EXCEPT ![t] = FALSE]
          /\ wr' = [wr EXCEPT ![w] =
                      [@ EXCEPT !.todo = wr[w].todo \ {t},
                                !.pc = IF wr[w].todo = {t} THEN "clear" ELSE "bump"]]
    BY <1>11 DEF BumpTag
  <2>2. wr' \in [Writers -> WriterState]
    <3> DEFINE x == [wr[w] EXCEPT !.todo = wr[w].todo \ {t},
                                  !.pc = IF wr[w].todo = {t} THEN "clear" ELSE "bump"]
    <3>1. x \in WriterState
      <4>1. wr[w] \in WriterState /\ wr[w].todo \ {t} \in SUBSET Tags
        BY DEF WriterState
      <4>2. QED
        BY <4>1 DEF WriterState
    <3>2. wr' = [wr EXCEPT ![w] = x]
      BY <2>1
    <3> HIDE DEF x
    <3>3. QED
      BY <3>1, <3>2
  <2>3. t \in Tags
    BY DEF WriterState
  <2>4. ver' \in Vector /\ bumped' \in Vector /\ lost' \in [Tags -> BOOLEAN]
    BY <2>1, <2>3 DEF Vector
  <2>5. QED
    BY <1>11, <2>2, <2>4 DEF BumpTag
<1>12. ASSUME NEW w \in Writers, BumpFails(w) PROVE TypeOK'
  <2>1. wr' \in [Writers -> WriterState]
    BY <1>12 DEF BumpFails, WriterState
  <2>2. lost' \in [Tags -> BOOLEAN]
    BY <1>12 DEF BumpFails
  <2>3. QED
    BY <1>12, <2>1, <2>2 DEF BumpFails
<1>13. ASSUME NEW w \in Writers, ClearTokens(w) PROVE TypeOK'
  <2> DEFINE x == [wr[w] EXCEPT !.pc = "answered"]
  <2>1. wr' = [wr EXCEPT ![w] = x] /\ wr[w] \in WriterState
    BY <1>13 DEF ClearTokens
  <2>2. x \in WriterState /\ wr[w].mine \in Vector
    BY <2>1 DEF WriterState
  <2> HIDE DEF x
  <2>3. wr' \in [Writers -> WriterState]
    BY <2>1, <2>2
  <2>4. acked' \in Vector
    BY <1>13, <2>2 DEF ClearTokens, Join, Vector
  <2>5. token' \in [Procs -> Vector \cup {None}]
    BY <1>13 DEF ClearTokens
  <2>6. QED
    BY <1>13, <2>3, <2>4, <2>5 DEF ClearTokens
<1>14. ASSUME NEW k, EntryExpires(k) PROVE TypeOK'
  BY <1>14 DEF EntryExpires, Hidden
<1>15. ASSUME NEW p \in Procs, TokenExpires(p) PROVE TypeOK'
  BY <1>15 DEF TokenExpires, Hidden
<1>16. ASSUME NEW p \in Procs, Crash(p) PROVE TypeOK'
  <2>1. IdleReader \in ReaderState /\ IdleReader.pc = "idle" /\ IdleWriter \in WriterState
    BY <1>z DEF IdleReader, IdleWriter, ReaderState, WriterState
  <2>2. rd' = [r \in Readers |-> IF rd[r].proc = p THEN IdleReader ELSE rd[r]]
        /\ wr' = [w \in Writers |-> IF wr[w].proc = p THEN IdleWriter ELSE wr[w]]
    BY <1>16 DEF Crash
  <2>3. rd' \in [Readers -> ReaderState] /\ wr' \in [Writers -> WriterState]
    BY <2>1, <2>2
  <2>4. \A q \in Readers : rd'[q].pc # "idle" => rd'[q].proc \in Procs
    BY <2>1, <2>2
  <2>5. token' \in [Procs -> Vector \cup {None}]
    BY <1>16 DEF Crash
  <2>6. lost' \in [Tags -> BOOLEAN]
    BY <1>16 DEF Crash
  <2>7. QED
    BY <1>16, <2>3, <2>4, <2>5, <2>6 DEF Crash
<1>17. CASE UNCHANGED vars
  BY <1>17 DEF vars
<1>18. QED
  BY <1>1, <1>2, <1>3, <1>4, <1>5, <1>6, <1>7, <1>8, <1>9, <1>10, <1>11,
     <1>12, <1>13, <1>14, <1>15, <1>16, <1>17
     DEF Next, ReaderStep, WriterStep
-----------------------------------------------------------------------------
(* A step of one reader: only its own state, the store and the local       *)
(* tokens can change, and the histories stay.                              *)
LEMMA ReaderFrame ==
  ASSUME IInv, TypeOK', UNCHANGED Hidden,
         NEW r \in Readers,
         \A q \in Readers \ {r} : rd'[q] = rd[q],
         \A e \in store' : Covers(ver, e.tok),
         \A e \in store', t \in Tags : e.tok[t] = ver[t] => bumped[t] <= e.data[t],
         \A p \in Procs : token'[p] # None => Covers(ver, token'[p]),
         Covers(ver, rd'[r].tok),
         Covers(acked, rd'[r].floor),
         rd'[r].status = "hit" => rd'[r].pc = "answered",
         rd'[r].pc = "set" \/ rd'[r].status = "hit" =>
           \A t \in Tags : rd'[r].tok[t] = ver[t] => bumped[t] <= rd'[r].data[t]
  PROVE  IInv'
<1>1. TokensBehind'
  BY DEF IInv, TokensBehind, Covers, Hidden
<1>2. FillCoversBumps'
  BY DEF IInv, FillCoversBumps, Hidden
<1>3. HistoryOrder'
  BY DEF IInv, HistoryOrder, Covers, Hidden
<1>4. CommitsAccounted'
  BY DEF IInv, CommitsAccounted, Hidden
<1>5. CurrentEntryCoversBumps'
  BY DEF CurrentEntryCoversBumps, Hidden
<1>6. QED
  BY <1>1, <1>2, <1>3, <1>4, <1>5 DEF IInv

(* The steps of a reader preserve the invariant: a token is read from the  *)
(* current versions, and the database is read after the token.             *)
LEMMA ReaderInv ==
  ASSUME IInv, TypeOK', NEW r \in Readers,
         StartRead(r) \/ ReaderStep(r) \/ RedisReadFails(r)
  PROVE  IInv'
<1>1. /\ TypeOK /\ TokensBehind /\ FillCoversBumps /\ HistoryOrder
      /\ CurrentEntryCoversBumps
  BY DEF IInv
<1>2. /\ Covers(ver, rd[r].tok) /\ Covers(acked, rd[r].floor)
      /\ \A e \in store : Covers(ver, e.tok)
      /\ \A p \in Procs : token[p] # None => Covers(ver, token[p])
      /\ \A e \in store, t \in Tags : e.tok[t] = ver[t] => bumped[t] <= e.data[t]
      /\ rd[r].pc = "set" \/ rd[r].status = "hit" =>
           \A t \in Tags : rd[r].tok[t] = ver[t] => bumped[t] <= rd[r].data[t]
      /\ rd[r].status = "hit" => rd[r].pc = "answered"
  BY <1>1 DEF TokensBehind, HistoryOrder, FillCoversBumps, CurrentEntryCoversBumps
<1>3. \A v \in Vector : Covers(v, v) /\ Covers(v, Zero)
  BY DEF Covers, Zero, Vector
<1>4. rd[r] \in ReaderState /\ ver \in Vector /\ acked \in Vector
  BY <1>1 DEF TypeOK
<1>5. CASE StartRead(r)
  <2>1. PICK p \in Procs :
          rd' = [rd EXCEPT ![r] = [IdleReader EXCEPT !.pc = "token",
                                                     !.proc = p,
                                                     !.floor = acked]]
    BY <1>5 DEF StartRead
  <2>2. /\ rd'[r].tok = Zero /\ rd'[r].floor = acked
        /\ rd'[r].pc = "token" /\ rd'[r].status = "none"
        /\ \A q \in Readers \ {r} : rd'[q] = rd[q]
    BY <1>1, <2>1 DEF IdleReader, TypeOK
  <2>3. QED
    BY <1>2, <1>3, <1>4, <1>5, <2>2, ReaderFrame DEF StartRead
<1>6. CASE LookupToken(r)
  <2>1. /\ rd'[r].tok = rd[r].tok \/ Covers(ver, rd'[r].tok)
        /\ rd'[r].floor = rd[r].floor
        /\ rd'[r].pc \in {"get", "fetch"} /\ rd'[r].status = rd[r].status
        /\ \A q \in Readers \ {r} : rd'[q] = rd[q]
    BY <1>1, <1>2, <1>4, <1>6 DEF LookupToken, TypeOK
  <2>2. rd[r].status # "hit"
    BY <1>2, <1>6 DEF LookupToken
  <2>3. QED
    BY <1>2, <1>6, <2>1, <2>2, ReaderFrame DEF LookupToken
<1>7. CASE FetchVersions(r)
  <2>1. /\ rd'[r].tok = ver /\ rd'[r].floor = rd[r].floor
        /\ rd'[r].pc = "keep" /\ rd'[r].status = rd[r].status
        /\ \A q \in Readers \ {r} : rd'[q] = rd[q]
    BY <1>1, <1>4, <1>7 DEF FetchVersions, TypeOK, ReaderState
  <2>2. rd[r].status # "hit"
    BY <1>2, <1>7 DEF FetchVersions
  <2>3. QED
    BY <1>2, <1>3, <1>4, <1>7, <2>1, <2>2, ReaderFrame DEF FetchVersions
<1>8. CASE KeepToken(r)
  <2>1. /\ rd'[r].tok = rd[r].tok /\ rd'[r].floor = rd[r].floor
        /\ rd'[r].pc = "get" /\ rd'[r].status = rd[r].status
        /\ \A q \in Readers \ {r} : rd'[q] = rd[q]
    BY <1>1, <1>4, <1>8 DEF KeepToken, TypeOK, ReaderState
  <2>2. \A p \in Procs : token'[p] # None => Covers(ver, token'[p])
    BY <1>1, <1>2, <1>8 DEF KeepToken, TypeOK
  <2>3. rd[r].status # "hit"
    BY <1>2, <1>8 DEF KeepToken
  <2>4. QED
    BY <1>2, <1>8, <2>1, <2>2, <2>3, ReaderFrame DEF KeepToken
<1>9. CASE GetHit(r)
  <2>1. PICK e \in store :
          /\ e.tok = rd[r].tok
          /\ rd' = [rd EXCEPT ![r] = [@ EXCEPT !.pc = "answered",
                                               !.data = e.data,
                                               !.status = "hit"]]
    BY <1>9 DEF GetHit
  <2>2. /\ rd'[r].tok = e.tok /\ rd'[r].floor = rd[r].floor
        /\ rd'[r].pc = "answered" /\ rd'[r].data = e.data
        /\ \A q \in Readers \ {r} : rd'[q] = rd[q]
    BY <1>1, <1>4, <2>1 DEF TypeOK, ReaderState
  <2>3. QED
    BY <1>2, <1>9, <2>2, ReaderFrame DEF GetHit
<1>10. CASE GetMiss(r)
  <2>1. /\ rd'[r].tok = rd[r].tok /\ rd'[r].floor = rd[r].floor
        /\ rd'[r].pc = "handler" /\ rd'[r].status = rd[r].status
        /\ \A q \in Readers \ {r} : rd'[q] = rd[q]
    BY <1>1, <1>4, <1>10 DEF GetMiss, TypeOK, ReaderState
  <2>2. rd[r].status # "hit"
    BY <1>2, <1>10 DEF GetMiss
  <2>3. QED
    BY <1>2, <1>10, <2>1, <2>2, ReaderFrame DEF GetMiss
<1>11. CASE RedisReadFails(r)
  <2>1. rd[r].status # "hit"
    BY <1>2, <1>11 DEF RedisReadFails
  <2>2. /\ rd'[r].tok = rd[r].tok /\ rd'[r].floor = rd[r].floor
        /\ rd'[r].pc # "set" /\ rd'[r].status # "hit"
        /\ \A q \in Readers \ {r} : rd'[q] = rd[q]
    <3>1. CASE FailOpen
      BY <1>1, <1>4, <1>11, <2>1, <3>1 DEF RedisReadFails, TypeOK, ReaderState
    <3>2. CASE ~FailOpen
      BY <1>1, <1>4, <1>11, <3>2 DEF RedisReadFails, TypeOK, ReaderState
    <3>3. QED
      BY <3>1, <3>2
  <2>3. QED
    BY <1>2, <1>11, <2>2, ReaderFrame DEF RedisReadFails
<1>12. CASE RunHandler(r)
  <2>1. PICK cacheable \in BOOLEAN :
          rd' = [rd EXCEPT ![r] =
                   [@ EXCEPT !.pc = IF cacheable /\ rd[r].pc = "handler"
                                    THEN "set" ELSE "answered",
                             !.data = db, !.status = "fresh"]]
    BY <1>12 DEF RunHandler
  <2>2. /\ rd'[r].tok = rd[r].tok /\ rd'[r].floor = rd[r].floor
        /\ rd'[r].data = db /\ rd'[r].status = "fresh"
        /\ \A q \in Readers \ {r} : rd'[q] = rd[q]
    BY <1>1, <1>4, <2>1 DEF TypeOK, ReaderState
  <2>3. \A t \in Tags : bumped[t] <= db[t]
    BY <1>1 DEF HistoryOrder, Covers
  <2>4. QED
    BY <1>2, <1>12, <2>2, <2>3, ReaderFrame DEF RunHandler
<1>13. CASE StoreResponse(r)
  <2>1. /\ rd'[r].tok = rd[r].tok /\ rd'[r].floor = rd[r].floor
        /\ rd'[r].pc = "answered" /\ rd'[r].data = rd[r].data
        /\ rd'[r].status = rd[r].status
        /\ \A q \in Readers \ {r} : rd'[q] = rd[q]
    BY <1>1, <1>4, <1>13 DEF StoreResponse, TypeOK, ReaderState
  <2>2. \A e \in store' :
          e \in store \/ e = [tok |-> rd[r].tok, data |-> rd[r].data]
    BY <1>13 DEF StoreResponse
  <2>3. \A t \in Tags : rd[r].tok[t] = ver[t] => bumped[t] <= rd[r].data[t]
    BY <1>2, <1>13 DEF StoreResponse
  <2>4. /\ \A e \in store' : Covers(ver, e.tok)
        /\ \A e \in store', t \in Tags :
             e.tok[t] = ver[t] => bumped[t] <= e.data[t]
    BY <1>2, <2>2, <2>3
  <2>5. QED
    BY <1>2, <1>13, <2>1, <2>3, <2>4, ReaderFrame DEF StoreResponse
<1>14. QED
  BY <1>5, <1>6, <1>7, <1>8, <1>9, <1>10, <1>11, <1>12, <1>13 DEF ReaderStep
(* A commit raises the database only: tokens, fills and stored responses   *)
(* are compared with the versions and the last bump, which stay.           *)
LEMMA CommitInv ==
  ASSUME IInv, TypeOK', NEW w \in Writers, HandlerCommits(w) PROVE IInv'
<1>1. PICK p \in Procs, ts \in (SUBSET Tags) \ {{}}, success \in BOOLEAN :
        /\ \A t \in ts : db[t] < MaxWrites
        /\ db' = [t \in Tags |-> IF t \in ts THEN db[t] + 1 ELSE db[t]]
        /\ wr' = [wr EXCEPT ![w] =
                    [pc |-> IF success THEN "bump" ELSE "answered",
                     proc |-> p, todo |-> IF success THEN ts ELSE {},
                     mine |-> [t \in Tags |-> IF t \in ts THEN db[t] + 1 ELSE 0]]]
        /\ lost' = [t \in Tags |-> lost[t] \/ (t \in ts /\ ~success)]
  BY DEF HandlerCommits
<1>2. UNCHANGED <<ver, store, token, rd, bumped, acked>> /\ wr[w].pc # "bump"
  BY DEF HandlerCommits
<1>3. TypeOK /\ \A t \in Tags : /\ db[t] \in Nat /\ db'[t] \in Nat
                               /\ bumped[t] \in Nat /\ db[t] <= db'[t]
  BY <1>1 DEF IInv, TypeOK, Vector
<1>4. /\ wr'[w].pc = IF success THEN "bump" ELSE "answered"
      /\ wr'[w].todo = IF success THEN ts ELSE {}
      /\ wr'[w].mine = [t \in Tags |-> IF t \in ts THEN db[t] + 1 ELSE 0]
      /\ \A v \in Writers \ {w} : wr'[v] = wr[v]
  BY <1>1, <1>3 DEF TypeOK
<1>5. TokensBehind' /\ FillCoversBumps' /\ CurrentEntryCoversBumps'
  BY <1>2 DEF IInv, TokensBehind, FillCoversBumps, CurrentEntryCoversBumps, Covers
<1>6. HistoryOrder'
  <2>1. Covers(db', bumped') /\ Covers(bumped', acked')
        /\ \A r \in Readers : Covers(acked', rd'[r].floor)
    BY <1>2, <1>3 DEF IInv, HistoryOrder, Covers
  <2>2. ASSUME NEW v \in Writers, NEW t \in Tags
        PROVE  /\ wr'[v].mine[t] <= db'[t]
               /\ wr'[v].pc \in {"bump", "clear"} /\ t \notin wr'[v].todo
                    => wr'[v].mine[t] <= bumped'[t]
    <3>1. CASE v = w
      BY <1>1, <1>2, <1>3, <1>4, <3>1
    <3>2. CASE v # w
      <4>1. wr[v].mine[t] \in Nat /\ wr[v].mine[t] <= db[t] /\ db'[t] \in Nat
        BY <1>3 DEF IInv, HistoryOrder, TypeOK, WriterState, Vector
      <4>2. QED
        BY <1>2, <1>3, <1>4, <3>2, <4>1 DEF IInv, HistoryOrder
    <3>3. QED
      BY <3>1, <3>2
  <2>3. QED
    BY <2>1, <2>2 DEF HistoryOrder
<1>7. CommitsAccounted'
  <2>1. \A v \in Writers : wr'[v].todo # {} => wr'[v].pc = "bump"
    BY <1>4 DEF IInv, CommitsAccounted
  <2>2. ASSUME NEW t \in Tags, bumped'[t] < db'[t], ~lost'[t]
        PROVE  \E v \in Writers : t \in wr'[v].todo
    <3>1. CASE t \in ts
      BY <1>1, <1>4, <2>2, <3>1
    <3>2. CASE t \notin ts
      <4>1. bumped[t] < db[t] /\ ~lost[t]
        BY <1>1, <1>2, <2>2, <3>2
      <4>2. PICK v \in Writers : t \in wr[v].todo
        BY <4>1 DEF IInv, CommitsAccounted
      <4>3. v # w
        BY <1>2, <4>2 DEF IInv, CommitsAccounted
      <4>4. QED
        BY <1>4, <4>2, <4>3
    <3>3. QED
      BY <3>1, <3>2
  <2>3. QED
    BY <2>1, <2>2 DEF CommitsAccounted
<1>8. QED
  BY <1>5, <1>6, <1>7 DEF IInv

(* An INCR makes every token of the tag old and records what it covers.    *)
LEMMA BumpInv ==
  ASSUME IInv, TypeOK', NEW w \in Writers, BumpTag(w) PROVE IInv'
<1>1. PICK t \in wr[w].todo :
        /\ ver' = [ver EXCEPT ![t] = @ + 1]
        /\ bumped' = [bumped EXCEPT ![t] = db[t]]
        /\ lost' = [lost EXCEPT ![t] = FALSE]
        /\ wr' = [wr EXCEPT ![w] =
                    [@ EXCEPT !.todo = wr[w].todo \ {t},
                              !.pc = IF wr[w].todo = {t} THEN "clear" ELSE "bump"]]
  BY DEF BumpTag
<1>2. UNCHANGED <<db, store, token, rd, acked>> /\ wr[w].pc = "bump"
  BY DEF BumpTag
<1>3. TypeOK /\ t \in Tags
  BY DEF IInv, TypeOK, WriterState
<1>4. /\ wr'[w].todo = wr[w].todo \ {t} /\ wr'[w].mine = wr[w].mine
      /\ wr'[w].pc = IF wr[w].todo = {t} THEN "clear" ELSE "bump"
      /\ \A v \in Writers \ {w} : wr'[v] = wr[v]
  <2>1. wr \in [Writers -> WriterState] /\ wr[w] \in WriterState
    BY <1>3 DEF TypeOK
  <2> DEFINE pc1 == IF wr[w].todo = {t} THEN "clear" ELSE "bump"
             todo1 == wr[w].todo \ {t}
  <2>2. wr' = [wr EXCEPT ![w] = [@ EXCEPT !.todo = todo1, !.pc = pc1]]
    BY <1>1
  <2> HIDE DEF pc1, todo1
  <2>3. /\ wr'[w].todo = todo1 /\ wr'[w].mine = wr[w].mine /\ wr'[w].pc = pc1
        /\ \A v \in Writers \ {w} : wr'[v] = wr[v]
    BY <2>1, <2>2 DEF WriterState
  <2>4. QED
    BY <2>3 DEF pc1, todo1
<1>5. /\ \A u \in Tags : ver[u] \in Nat /\ db[u] \in Nat /\ bumped[u] \in Nat
      /\ ver'[t] = ver[t] + 1 /\ bumped'[t] = db[t]
      /\ \A u \in Tags \ {t} :
           ver'[u] = ver[u] /\ bumped'[u] = bumped[u] /\ lost'[u] = lost[u]
  BY <1>1, <1>3 DEF TypeOK, Vector
<1>6. /\ \A e \in store, u \in Tags : e.tok[u] \in Nat
      /\ \A p \in Procs, u \in Tags : token[p] # None => token[p][u] \in Nat
      /\ \A r \in Readers, u \in Tags : rd[r].tok[u] \in Nat
  BY <1>3 DEF TypeOK, Vector, ReaderState
<1>7. TokensBehind'
  BY <1>2, <1>5, <1>6 DEF IInv, TokensBehind, Covers
<1>8. FillCoversBumps'
  BY <1>2, <1>5, <1>6 DEF IInv, TokensBehind, FillCoversBumps, Covers
<1>9. CurrentEntryCoversBumps'
  BY <1>2, <1>5, <1>6 DEF IInv, TokensBehind, CurrentEntryCoversBumps, Covers
<1>10. HistoryOrder'
  <2>1. \A u \in Tags : bumped[u] <= bumped'[u] /\ bumped'[u] <= db[u]
    BY <1>5 DEF IInv, HistoryOrder, Covers
  <2>2. Covers(db', bumped') /\ Covers(bumped', acked')
        /\ \A r \in Readers : Covers(acked', rd'[r].floor)
    <3>1. \A u \in Tags : acked[u] \in Nat /\ acked[u] <= bumped[u]
      BY <1>3 DEF IInv, HistoryOrder, Covers, TypeOK, Vector
    <3>2. QED
      BY <1>2, <1>5, <2>1, <3>1 DEF IInv, HistoryOrder, Covers
  <2>3. ASSUME NEW v \in Writers, NEW u \in Tags
        PROVE  /\ wr'[v].mine[u] <= db'[u]
               /\ wr'[v].pc \in {"bump", "clear"} /\ u \notin wr'[v].todo
                    => wr'[v].mine[u] <= bumped'[u]
    <3>1. wr[v].mine[u] \in Nat /\ wr[v].mine[u] <= db[u]
          /\ (wr[v].pc \in {"bump", "clear"} /\ u \notin wr[v].todo
                => wr[v].mine[u] <= bumped[u])
      BY <1>3 DEF IInv, HistoryOrder, TypeOK, WriterState, Vector
    <3>2. wr'[v].mine = wr[v].mine
      BY <1>4
    <3>3. CASE u = t
      BY <1>2, <1>5, <3>1, <3>2, <3>3
    <3>4. CASE u # t
      <4>1. /\ u \notin wr'[v].todo => u \notin wr[v].todo
            /\ wr'[v].pc \in {"bump", "clear"} => wr[v].pc \in {"bump", "clear"}
        BY <1>2, <1>4, <3>4
      <4>2. QED
        BY <1>2, <1>5, <3>1, <3>2, <3>4, <4>1
    <3>5. QED
      BY <3>3, <3>4
  <2>4. QED
    BY <2>2, <2>3 DEF HistoryOrder
<1>11. CommitsAccounted'
  <2>1. \A v \in Writers : wr'[v].todo # {} => wr'[v].pc = "bump"
    BY <1>4 DEF IInv, CommitsAccounted
  <2>2. ASSUME NEW u \in Tags, bumped'[u] < db'[u], ~lost'[u]
        PROVE  \E v \in Writers : u \in wr'[v].todo
    <3>1. u # t /\ bumped[u] < db[u] /\ ~lost[u]
      <4>1. u # t
        BY <1>2, <1>5, <2>2
      <4>2. QED
        BY <1>2, <1>5, <2>2, <4>1
    <3>2. PICK v \in Writers : u \in wr[v].todo
      BY <3>1 DEF IInv, CommitsAccounted
    <3>3. QED
      BY <1>4, <3>1, <3>2
  <2>3. QED
    BY <2>1, <2>2 DEF CommitsAccounted
<1>12. QED
  BY <1>7, <1>8, <1>9, <1>10, <1>11 DEF IInv
(* A failed pipeline turns the pending tags of its writer into lost ones.  *)
LEMMA BumpFailsInv ==
  ASSUME IInv, TypeOK', NEW w \in Writers, BumpFails(w) PROVE IInv'
<1>1. /\ UNCHANGED <<db, ver, store, token, rd, bumped, acked>>
      /\ \A t \in Tags : lost'[t] = (lost[t] \/ t \in wr[w].todo)
  BY DEF BumpFails
<1>2. /\ wr'[w].todo = {} /\ wr'[w].mine = wr[w].mine /\ wr'[w].pc = "answered"
      /\ \A v \in Writers \ {w} : wr'[v] = wr[v]
  BY DEF BumpFails, IInv, TypeOK, WriterState
<1>3. TokensBehind' /\ FillCoversBumps' /\ CurrentEntryCoversBumps'
  BY <1>1 DEF IInv, TokensBehind, FillCoversBumps, CurrentEntryCoversBumps, Covers
<1>4. HistoryOrder'
  BY <1>1, <1>2 DEF IInv, HistoryOrder, Covers
<1>5. CommitsAccounted'
  BY <1>1, <1>2 DEF IInv, CommitsAccounted
<1>6. QED
  BY <1>3, <1>4, <1>5 DEF IInv

(* A completed invalidation acknowledges writes that its bumps cover.      *)
LEMMA ClearInv ==
  ASSUME IInv, TypeOK', NEW w \in Writers, ClearTokens(w) PROVE IInv'
<1>1. /\ UNCHANGED <<db, ver, store, rd, bumped, lost>> /\ wr[w].pc = "clear"
      /\ acked' = Join(acked, wr[w].mine)
      /\ token' = [token EXCEPT ![wr[w].proc] = None]
  BY DEF ClearTokens
<1>2. /\ wr'[w].todo = wr[w].todo /\ wr'[w].mine = wr[w].mine
      /\ wr'[w].pc = "answered" /\ \A v \in Writers \ {w} : wr'[v] = wr[v]
  BY DEF ClearTokens, IInv, TypeOK, WriterState
<1>3. wr[w].todo = {}
  BY <1>1 DEF IInv, CommitsAccounted
<1>4. \A p \in Procs : token'[p] = None \/ token'[p] = token[p]
  BY <1>1 DEF IInv, TypeOK
<1>5. TokensBehind' /\ FillCoversBumps' /\ CurrentEntryCoversBumps'
  BY <1>1, <1>4 DEF IInv, TokensBehind, FillCoversBumps, CurrentEntryCoversBumps, Covers
<1>6. \A t \in Tags : /\ acked[t] \in Nat /\ wr[w].mine[t] \in Nat
                      /\ acked[t] <= acked'[t] /\ acked'[t] <= bumped[t]
  <2>1. \A t \in Tags : /\ acked[t] \in Nat /\ wr[w].mine[t] \in Nat
                        /\ acked[t] <= bumped[t] /\ wr[w].mine[t] <= bumped[t]
    BY <1>1, <1>3 DEF IInv, HistoryOrder, Covers, TypeOK, WriterState, Vector
  <2>2. QED
    BY <1>1, <2>1 DEF Join
<1>7. HistoryOrder'
  <2>1. \A r \in Readers, t \in Tags :
          rd[r].floor[t] \in Nat /\ rd[r].floor[t] <= acked[t] /\ acked'[t] \in Nat
    BY DEF IInv, HistoryOrder, Covers, TypeOK, ReaderState, Vector
  <2>2. \A r \in Readers : Covers(acked', rd'[r].floor)
    BY <1>1, <1>6, <2>1 DEF Covers
  <2>3. QED
    BY <1>1, <1>2, <1>6, <2>2 DEF IInv, HistoryOrder, Covers
<1>8. CommitsAccounted'
  BY <1>1, <1>2, <1>3 DEF IInv, CommitsAccounted
<1>9. QED
  BY <1>5, <1>7, <1>8 DEF IInv

(* Expiry only forgets stored responses and local tokens.                  *)
LEMMA ExpiryInv ==
  ASSUME IInv, TypeOK',
         (\E k : EntryExpires(k)) \/ (\E p \in Procs : TokenExpires(p))
  PROVE  IInv'
<1>1. /\ UNCHANGED <<db, ver, rd, wr, bumped, lost, acked>>
      /\ store' \subseteq store
      /\ \A p \in Procs : token'[p] = None \/ token'[p] = token[p]
  BY DEF EntryExpires, TokenExpires, Hidden, IInv, TypeOK
<1>2. TokensBehind' /\ FillCoversBumps' /\ CurrentEntryCoversBumps'
  BY <1>1 DEF IInv, TokensBehind, FillCoversBumps, CurrentEntryCoversBumps, Covers
<1>3. HistoryOrder' /\ CommitsAccounted'
  BY <1>1 DEF IInv, HistoryOrder, CommitsAccounted, Covers
<1>4. QED
  BY <1>2, <1>3 DEF IInv

(* A crash forgets requests and turns their pending tags into lost ones.   *)
LEMMA CrashInv ==
  ASSUME IInv, TypeOK', NEW p \in Procs, Crash(p) PROVE IInv'
<1>1. /\ UNCHANGED <<db, ver, store, bumped, acked>>
      /\ \A q \in Procs : token'[q] = None \/ token'[q] = token[q]
      /\ \A r \in Readers : rd'[r] = IdleReader \/ rd'[r] = rd[r]
      /\ \A w \in Writers : wr'[w] = IF wr[w].proc = p THEN IdleWriter ELSE wr[w]
      /\ \A t \in Tags : lost'[t] = (lost[t] \/ \E w \in Writers :
                                        wr[w].proc = p /\ t \in wr[w].todo)
  BY DEF Crash, IInv, TypeOK
<1>2. \A v \in Vector : Covers(v, Zero)
  BY DEF Covers, Zero, Vector
<1>3. ver \in Vector /\ acked \in Vector /\ db \in Vector
  BY DEF IInv, TypeOK
<1>4. TokensBehind' /\ FillCoversBumps' /\ CurrentEntryCoversBumps'
  BY <1>1, <1>2, <1>3 DEF IInv, TokensBehind, FillCoversBumps,
     CurrentEntryCoversBumps, IdleReader, Covers
<1>5. HistoryOrder'
  <2>1. \A r \in Readers : Covers(acked', rd'[r].floor)
    BY <1>1, <1>2, <1>3 DEF IInv, HistoryOrder, IdleReader
  <2>2. \A w \in Writers, t \in Tags :
          /\ wr'[w].mine[t] <= db'[t]
          /\ wr'[w].pc \in {"bump", "clear"} /\ t \notin wr'[w].todo
               => wr'[w].mine[t] <= bumped'[t]
    <3>1. \A t \in Tags : 0 <= db[t]
      BY <1>3 DEF Vector
    <3>2. QED
      BY <1>1, <3>1 DEF IInv, HistoryOrder, IdleWriter, Zero
  <2>3. QED
    BY <1>1, <2>1, <2>2 DEF IInv, HistoryOrder, Covers
<1>6. CommitsAccounted'
  <2>1. \A w \in Writers : wr'[w].todo # {} => wr'[w].pc = "bump"
    BY <1>1 DEF IInv, CommitsAccounted, IdleWriter
  <2>2. ASSUME NEW t \in Tags, bumped'[t] < db'[t], ~lost'[t]
        PROVE  \E w \in Writers : t \in wr'[w].todo
    <3>1. PICK w \in Writers : t \in wr[w].todo
      BY <1>1, <2>2 DEF IInv, CommitsAccounted
    <3>2. QED
      BY <1>1, <2>2, <3>1
  <2>3. QED
    BY <2>1, <2>2 DEF CommitsAccounted
<1>7. QED
  BY <1>4, <1>5, <1>6 DEF IInv

LEMMA StepInv == IInv /\ [Next]_vars => IInv'
<1> SUFFICES ASSUME IInv, [Next]_vars PROVE IInv'
  OBVIOUS
<1>1. TypeOK'
  BY TypeStep DEF IInv
<1>2. ASSUME NEW r \in Readers, StartRead(r) \/ ReaderStep(r) \/ RedisReadFails(r)
      PROVE  IInv'
  BY <1>1, <1>2, ReaderInv
<1>3. ASSUME NEW w \in Writers, HandlerCommits(w) \/ WriterStep(w) \/ BumpFails(w)
      PROVE  IInv'
  BY <1>1, <1>3, CommitInv, BumpInv, ClearInv, BumpFailsInv DEF WriterStep
<1>4. CASE \E e \in store : EntryExpires(e.tok)
  BY <1>1, <1>4, ExpiryInv
<1>5. ASSUME NEW p \in Procs, TokenExpires(p) \/ Crash(p) PROVE IInv'
  BY <1>1, <1>5, ExpiryInv, CrashInv
<1>6. CASE UNCHANGED vars
  <2>1. TokensBehind' /\ FillCoversBumps' /\ CurrentEntryCoversBumps'
    BY <1>6 DEF vars, IInv, TokensBehind, FillCoversBumps, CurrentEntryCoversBumps,
       Covers
  <2>2. HistoryOrder' /\ CommitsAccounted'
    BY <1>6 DEF vars, IInv, HistoryOrder, CommitsAccounted, Covers
  <2>3. QED
    BY <1>1, <2>1, <2>2 DEF IInv
<1>7. QED
  BY <1>2, <1>3, <1>4, <1>5, <1>6 DEF Next

(* IInv is an invariant of the specification.                              *)
LEMMA Invariance == Spec => []IInv
<1>1. QED
  BY InitInv, StepInv, PTL DEF Spec

-----------------------------------------------------------------------------
(* The variables of the route cache keep their types.                      *)
THEOREM TypeCorrect == Spec => []TypeOK
<1>1. IInv => TypeOK
  BY DEF IInv
<1>2. QED
  BY Invariance, <1>1, PTL

(* Bump-miss invalidation works: a response that the current versions can  *)
(* reach reflects every write committed before the last INCR of its tags.  *)
THEOREM BumpMiss == Spec => []CurrentEntryCoversBumps
<1>1. IInv => CurrentEntryCoversBumps
  BY DEF IInv
<1>2. QED
  BY Invariance, <1>1, PTL

(* A reachable response misses a committed write only while the write's    *)
(* INCR is pending in a writer, or after it was lost.                      *)
THEOREM StalenessExplained == Spec => []StaleEntryExplained
<1>1. IInv => StaleEntryExplained
  <2> SUFFICES ASSUME IInv, NEW e \in store, NEW t \in Tags,
                      e.tok[t] = ver[t], e.data[t] < db[t]
               PROVE  lost[t] \/ \E w \in Writers : t \in wr[w].todo
    BY DEF StaleEntryExplained
  <2>1. bumped[t] <= e.data[t]
    BY DEF IInv, CurrentEntryCoversBumps
  <2>2. e.data[t] \in Nat /\ bumped[t] \in Nat /\ db[t] \in Nat
    BY DEF IInv, TypeOK, Vector
  <2>3. bumped[t] < db[t]
    BY <2>1, <2>2
  <2>4. QED
    BY <2>3 DEF IInv, CommitsAccounted
<1>2. QED
  BY Invariance, <1>1, PTL

(* A hit older than an invalidation that completed before the request      *)
(* arrived used a token that is behind the versions.                       *)
THEOREM StaleHitsUseOldTokens == Spec => []StaleHitUsedOldToken
<1>1. IInv => StaleHitUsedOldToken
  <2> SUFFICES ASSUME IInv, NEW r \in Readers, NEW t \in Tags,
                      rd[r].status = "hit", rd[r].data[t] < rd[r].floor[t]
               PROVE  rd[r].tok[t] < ver[t]
    BY DEF StaleHitUsedOldToken
  <2>1. /\ rd[r].data[t] \in Nat /\ rd[r].floor[t] \in Nat /\ rd[r].tok[t] \in Nat
        /\ ver[t] \in Nat /\ acked[t] \in Nat /\ bumped[t] \in Nat
    BY DEF IInv, TypeOK, ReaderState, Vector
  <2>2. rd[r].floor[t] <= acked[t] /\ acked[t] <= bumped[t]
    BY DEF IInv, HistoryOrder, Covers
  <2>3. rd[r].tok[t] # ver[t]
    BY <2>1, <2>2 DEF IInv, FillCoversBumps
  <2>4. rd[r].tok[t] <= ver[t]
    BY DEF IInv, TokensBehind, Covers
  <2>5. QED
    BY <2>1, <2>3, <2>4
<1>2. QED
  BY Invariance, <1>1, PTL

-----------------------------------------------------------------------------
(* Processes that do not cache tokens.  No version number is the last one  *)
(* a fill may carry: the strengthening compares a request that has its     *)
(* token with every response under that token or a later one.              *)
Fetched(r) == rd[r].pc \in {"keep", "get"} /\ ~TokenCache[rd[r].proc]

FloorsCovered ==
    \A r \in Readers, t \in Tags : Fetched(r) =>
        /\ \A e \in store :
             rd[r].tok[t] <= e.tok[t] => rd[r].floor[t] <= e.data[t]
        /\ \A q \in Readers : rd[q].pc = "set" /\ rd[r].tok[t] <= rd[q].tok[t]
             => rd[r].floor[t] <= rd[q].data[t]

\* a step of reader r that fetches no token
LEMMA FloorFrame ==
  ASSUME FloorsCovered, UncachedTokensSeeWrite, NEW r \in Readers,
         \A q \in Readers \ {r} : rd'[q] = rd[q],
         \A e \in store' : \/ e \in store
                           \/ /\ rd[r].pc = "set" /\ e.tok = rd[r].tok
                              /\ e.data = rd[r].data,
         Fetched(r)' => /\ Fetched(r) /\ rd'[r].tok = rd[r].tok
                        /\ rd'[r].floor = rd[r].floor,
         rd'[r].pc = "set" => \A q \in Readers, t \in Tags :
                                  rd[q].floor[t] <= rd'[r].data[t],
         rd'[r].status \in {"hit", "fresh"} /\ ~TokenCache[rd'[r].proc]
           => Covers(rd'[r].data, rd'[r].floor)
  PROVE  FloorsCovered' /\ UncachedTokensSeeWrite'
<1>1. UncachedTokensSeeWrite'
  BY DEF UncachedTokensSeeWrite, Covers
<1>2. ASSUME NEW q \in Readers, Fetched(q)'
      PROVE  Fetched(q) /\ rd'[q].tok = rd[q].tok /\ rd'[q].floor = rd[q].floor
  BY <1>2 DEF Fetched
<1>3. ASSUME NEW q \in Readers, NEW t \in Tags, Fetched(q)', NEW e \in store',
             rd'[q].tok[t] <= e.tok[t]
      PROVE  rd'[q].floor[t] <= e.data[t]
  BY <1>2, <1>3 DEF FloorsCovered
<1>4. ASSUME NEW q \in Readers, NEW t \in Tags, Fetched(q)', NEW p \in Readers,
             rd'[p].pc = "set", rd'[q].tok[t] <= rd'[p].tok[t]
      PROVE  rd'[q].floor[t] <= rd'[p].data[t]
  BY <1>2, <1>4 DEF FloorsCovered
<1>5. QED
  BY <1>1, <1>3, <1>4 DEF FloorsCovered

\* a token just fetched: what is stored under it reflects the last bump
LEMMA FloorFetch ==
  ASSUME IInv, FloorsCovered, UncachedTokensSeeWrite,
         NEW r \in Readers, FetchVersions(r)
  PROVE  FloorsCovered' /\ UncachedTokensSeeWrite'
<1>1. /\ rd'[r].tok = ver /\ rd'[r].floor = rd[r].floor /\ rd'[r].data = rd[r].data
      /\ rd'[r].pc = "keep" /\ rd'[r].status = rd[r].status
      /\ rd'[r].proc = rd[r].proc /\ store' = store
      /\ \A q \in Readers \ {r} : rd'[q] = rd[q]
  BY DEF FetchVersions, IInv, TypeOK, ReaderState
<1>2. \A t \in Tags : rd[r].floor[t] \in Nat /\ rd[r].floor[t] <= bumped[t] /\ bumped[t] \in Nat
  <2>1. \A t \in Tags : /\ rd[r].floor[t] \in Nat /\ acked[t] \in Nat /\ bumped[t] \in Nat
                        /\ rd[r].floor[t] <= acked[t] /\ acked[t] <= bumped[t]
    BY DEF IInv, TypeOK, ReaderState, Vector, HistoryOrder, Covers
  <2>2. QED
    BY <2>1
<1>3. ASSUME NEW t \in Tags, NEW e \in store, ver[t] <= e.tok[t]
      PROVE  rd[r].floor[t] <= e.data[t]
  <2>1. /\ ver[t] \in Nat /\ e.tok[t] \in Nat /\ e.data[t] \in Nat
        /\ e.tok[t] <= ver[t]
    BY DEF IInv, TypeOK, Vector, TokensBehind, Covers
  <2>2. bumped[t] <= e.data[t]
    BY <1>3, <2>1 DEF IInv, CurrentEntryCoversBumps
  <2>3. QED
    BY <1>2, <2>1, <2>2
<1>4. ASSUME NEW t \in Tags, NEW q \in Readers, rd[q].pc = "set", ver[t] <= rd[q].tok[t]
      PROVE  rd[r].floor[t] <= rd[q].data[t]
  <2>1. /\ ver[t] \in Nat /\ rd[q].tok[t] \in Nat /\ rd[q].data[t] \in Nat
        /\ rd[q].tok[t] <= ver[t]
    BY DEF IInv, TypeOK, ReaderState, Vector, TokensBehind, Covers
  <2>2. bumped[t] <= rd[q].data[t]
    BY <1>4, <2>1 DEF IInv, FillCoversBumps
  <2>3. QED
    BY <1>2, <2>1, <2>2
<1>5. UncachedTokensSeeWrite'
  BY <1>1 DEF UncachedTokensSeeWrite, Covers
<1>6. FloorsCovered'
  <2> SUFFICES ASSUME NEW q \in Readers, NEW t \in Tags, Fetched(q)'
      PROVE /\ \A e \in store' :
                 rd'[q].tok[t] <= e.tok[t] => rd'[q].floor[t] <= e.data[t]
            /\ \A p \in Readers : rd'[p].pc = "set" /\ rd'[q].tok[t] <= rd'[p].tok[t]
                 => rd'[q].floor[t] <= rd'[p].data[t]
    BY DEF FloorsCovered
  <2>1. CASE q = r
    BY <1>1, <1>3, <1>4, <2>1
  <2>2. CASE q # r
    <3>1. Fetched(q) /\ rd'[q] = rd[q]
      BY <1>1, <2>2 DEF Fetched
    <3>2. QED
      BY <1>1, <3>1 DEF FloorsCovered
  <2>3. QED
    BY <2>1, <2>2
<1>7. QED
  BY <1>5, <1>6

LEMMA FloorStep ==
  IInv /\ FloorsCovered /\ UncachedTokensSeeWrite /\ [Next]_vars
    => FloorsCovered' /\ UncachedTokensSeeWrite'
<1> SUFFICES ASSUME IInv, FloorsCovered, UncachedTokensSeeWrite, [Next]_vars
             PROVE  FloorsCovered' /\ UncachedTokensSeeWrite'
  OBVIOUS
<1>1. TypeOK /\ rd \in [Readers -> ReaderState]
  BY DEF IInv, TypeOK
<1>2. \A r \in Readers, t \in Tags :
          rd[r].floor[t] <= db[t]
  <2> SUFFICES ASSUME NEW r \in Readers, NEW t \in Tags PROVE rd[r].floor[t] <= db[t]
    OBVIOUS
  <2>1. /\ rd[r].floor[t] \in Nat /\ acked[t] \in Nat /\ bumped[t] \in Nat /\ db[t] \in Nat
        /\ rd[r].floor[t] <= acked[t] /\ acked[t] <= bumped[t] /\ bumped[t] <= db[t]
    BY DEF IInv, TypeOK, ReaderState, Vector, HistoryOrder, Covers
  <2>2. QED
    BY <2>1
<1>3. ASSUME NEW r \in Readers, StartRead(r) PROVE FloorsCovered' /\ UncachedTokensSeeWrite'
  <2>1. /\ rd'[r].pc = "token" /\ rd'[r].status = "none" /\ store' = store
        /\ \A q \in Readers \ {r} : rd'[q] = rd[q]
    BY <1>1, <1>3 DEF StartRead, IdleReader
  <2>2. QED
    BY <2>1, FloorFrame DEF Fetched
<1>4. ASSUME NEW r \in Readers, LookupToken(r) PROVE FloorsCovered' /\ UncachedTokensSeeWrite'
  <2>1. /\ store' = store /\ \A q \in Readers \ {r} : rd'[q] = rd[q]
        /\ rd'[r].proc = rd[r].proc /\ rd'[r].status = rd[r].status
        /\ rd'[r].data = rd[r].data /\ rd'[r].floor = rd[r].floor
        /\ rd'[r].pc = "fetch" \/ (rd'[r].pc = "get" /\ TokenCache[rd[r].proc])
    BY <1>1, <1>4 DEF LookupToken, ReaderState
  <2>2. ~Fetched(r)' /\ rd'[r].pc # "set"
    BY <2>1 DEF Fetched
  <2>3. QED
    BY <2>1, <2>2, FloorFrame DEF UncachedTokensSeeWrite
<1>5. ASSUME NEW r \in Readers, KeepToken(r) \/ GetMiss(r) \/ RedisReadFails(r) \/ StoreResponse(r)
      PROVE  FloorsCovered' /\ UncachedTokensSeeWrite'
  <2>1. /\ \A q \in Readers \ {r} : rd'[q] = rd[q]
        /\ rd'[r].proc = rd[r].proc /\ rd'[r].tok = rd[r].tok
        /\ rd'[r].data = rd[r].data /\ rd'[r].floor = rd[r].floor
        /\ rd'[r].status \in {rd[r].status, "unavailable"}
        /\ rd'[r].pc \notin {"set", "keep"}
        /\ rd'[r].pc = "get" => rd[r].pc = "keep"
    <3>1. CASE KeepToken(r) \/ GetMiss(r) \/ StoreResponse(r)
      BY <1>1, <3>1 DEF KeepToken, GetMiss, StoreResponse, ReaderState
    <3>2. CASE RedisReadFails(r)
      <4> DEFINE x == IF FailOpen
                      THEN [rd[r] EXCEPT !.pc = IF rd[r].pc = "fetch" THEN "bare"
                                                ELSE "handler"]
                      ELSE [rd[r] EXCEPT !.pc = "answered", !.status = "unavailable"]
      <4>1. rd' = [rd EXCEPT ![r] = x] /\ rd[r] \in ReaderState
        BY <1>1, <3>2 DEF RedisReadFails
      <4>2. /\ x.proc = rd[r].proc /\ x.tok = rd[r].tok /\ x.data = rd[r].data
            /\ x.floor = rd[r].floor /\ x.status \in {rd[r].status, "unavailable"}
            /\ x.pc \in {"bare", "handler", "answered"}
        BY <4>1 DEF ReaderState
      <4> HIDE DEF x
      <4>3. rd'[r] = x /\ \A q \in Readers \ {r} : rd'[q] = rd[q]
        BY <1>1, <4>1
      <4>4. QED
        BY <4>2, <4>3
    <3>3. QED
      BY <1>5, <3>1, <3>2
  <2>2. \A e \in store' : \/ e \in store
                          \/ /\ rd[r].pc = "set" /\ e.tok = rd[r].tok
                             /\ e.data = rd[r].data
    BY <1>5 DEF KeepToken, GetMiss, RedisReadFails, StoreResponse
  <2>3. Fetched(r)' => Fetched(r)
    BY <2>1 DEF Fetched
  <2>4. rd'[r].status \in {"hit", "fresh"} /\ ~TokenCache[rd'[r].proc]
          => Covers(rd'[r].data, rd'[r].floor)
    <3>1. rd'[r].status \in {"hit", "fresh"} => rd'[r].status = rd[r].status
      BY <2>1
    <3>2. QED
      BY <2>1, <3>1 DEF UncachedTokensSeeWrite
  <2>5. Fetched(r)' => /\ Fetched(r) /\ rd'[r].tok = rd[r].tok
                       /\ rd'[r].floor = rd[r].floor
    BY <2>1, <2>3
  <2>6. rd'[r].pc # "set"
    BY <2>1
  <2>7. \A q \in Readers \ {r} : rd'[q] = rd[q]
    BY <2>1
  <2> QED
    BY <2>2, <2>4, <2>5, <2>6, <2>7, FloorFrame
<1>6. ASSUME NEW r \in Readers, GetHit(r) PROVE FloorsCovered' /\ UncachedTokensSeeWrite'
  <2>1. PICK e \in store :
          /\ e.tok = rd[r].tok
          /\ rd' = [rd EXCEPT ![r] = [@ EXCEPT !.pc = "answered",
                                               !.data = e.data,
                                               !.status = "hit"]]
    BY <1>6 DEF GetHit
  <2>2. /\ rd'[r].floor = rd[r].floor /\ rd'[r].proc = rd[r].proc
        /\ rd'[r].pc = "answered" /\ rd'[r].data = e.data
        /\ store' = store /\ \A q \in Readers \ {r} : rd'[q] = rd[q]
    BY <1>1, <1>6, <2>1 DEF GetHit, ReaderState
  <2>3. ~TokenCache[rd[r].proc] => Covers(e.data, rd[r].floor)
    <3> SUFFICES ASSUME ~TokenCache[rd[r].proc], NEW t \in Tags
                 PROVE  rd[r].floor[t] <= e.data[t]
      BY DEF Covers
    <3>1. Fetched(r)
      BY <1>6 DEF Fetched, GetHit
    <3>2. rd[r].tok[t] <= e.tok[t]
      BY <1>1, <2>1 DEF ReaderState, Vector
    <3>3. QED
      BY <3>1, <3>2 DEF FloorsCovered
  <2>4. QED
    BY <2>2, <2>3, FloorFrame DEF Fetched
<1>7. ASSUME NEW r \in Readers, RunHandler(r) PROVE FloorsCovered' /\ UncachedTokensSeeWrite'
  <2>1. PICK cacheable \in BOOLEAN :
          rd' = [rd EXCEPT ![r] =
                   [@ EXCEPT !.pc = IF cacheable /\ rd[r].pc = "handler"
                                    THEN "set" ELSE "answered",
                             !.data = db, !.status = "fresh"]]
    BY <1>7 DEF RunHandler
  <2>2. /\ rd'[r].floor = rd[r].floor /\ rd'[r].data = db
        /\ rd'[r].pc \in {"set", "answered"}
        /\ store' = store /\ \A q \in Readers \ {r} : rd'[q] = rd[q]
    <3>1. store' = store
      BY <1>7 DEF RunHandler
    <3>2. QED
      BY <1>1, <2>1, <3>1 DEF ReaderState
  <2>3. Covers(rd'[r].data, rd'[r].floor)
    BY <1>2, <2>2 DEF Covers
  <2>4. QED
    BY <1>2, <2>2, <2>3, FloorFrame DEF Fetched
<1>8. ASSUME NEW r \in Readers, FetchVersions(r) PROVE FloorsCovered' /\ UncachedTokensSeeWrite'
  BY <1>8, FloorFetch
<1>9. ASSUME store' \subseteq store, \A r \in Readers : rd'[r] = rd[r] \/ rd'[r] = IdleReader
      PROVE  FloorsCovered' /\ UncachedTokensSeeWrite'
  <2>1. \A r \in Readers : \/ rd'[r] = rd[r]
                           \/ rd'[r].pc = "idle" /\ rd'[r].status = "none"
    BY <1>9 DEF IdleReader
  <2>2. UncachedTokensSeeWrite'
    BY <2>1 DEF UncachedTokensSeeWrite, Covers
  <2>3. \A r \in Readers : Fetched(r)' => Fetched(r) /\ rd'[r] = rd[r]
    BY <2>1 DEF Fetched
  <2>4. FloorsCovered'
    BY <1>9, <2>1, <2>3 DEF FloorsCovered
  <2>5. QED
    BY <2>2, <2>4
<1>10. ASSUME NEW w \in Writers, HandlerCommits(w) \/ WriterStep(w) \/ BumpFails(w)
       PROVE  FloorsCovered' /\ UncachedTokensSeeWrite'
  BY <1>9, <1>10 DEF HandlerCommits, WriterStep, BumpTag, ClearTokens, BumpFails
<1>11. ASSUME NEW e \in store, EntryExpires(e.tok) PROVE FloorsCovered' /\ UncachedTokensSeeWrite'
  BY <1>9, <1>11 DEF EntryExpires
<1>12. ASSUME NEW p \in Procs, TokenExpires(p) \/ Crash(p)
       PROVE  FloorsCovered' /\ UncachedTokensSeeWrite'
  BY <1>9, <1>12 DEF TokenExpires, Crash
<1>13. CASE UNCHANGED vars
  BY <1>9, <1>13 DEF vars
<1>14. QED
  BY <1>3, <1>4, <1>5, <1>6, <1>7, <1>8, <1>10, <1>11, <1>12, <1>13
     DEF Next, ReaderStep

(* Without cached tokens a completed invalidation is seen by every read    *)
(* that arrives after it, whichever fills raced for the key.               *)
THEOREM UncachedReadsSeeWrites == Spec => []UncachedTokensSeeWrite
<1>1. Init => FloorsCovered /\ UncachedTokensSeeWrite
  BY DEF Init, FloorsCovered, Fetched, UncachedTokensSeeWrite, IdleReader
<1>2. QED
  BY Invariance, FloorStep, <1>1, PTL DEF Spec

-----------------------------------------------------------------------------
(* Gateway                                                                 *)

-----------------------------------------------------------------------------
(* The tables of routes                                                    *)

\* What the proofs use of any route's chain: a sequence of at most eight policies.
ChainOK(r) == DOMAIN r.chain = 1..Len(r.chain) /\ Len(r.chain) \in 0..8

AccessChain == Scoped \o <<"CacheRead", "CacheControl">>
CalendarChain == Scoped \o <<"RequireJSON", "RequirePermission", "RateLimit">>
PlainCalendarChain == Scoped \o <<"RequirePermission", "RateLimit">>
CalendarChains == {CalendarChain, PlainCalendarChain}
ReadChains == {CachedReadOfProject, CachedReadOfUser, AccessChain}
WriteChains == {ContentWrite, ProjectWrite, PlainProjectWrite, UserWrite, PlainUserWrite}

\* The policies of the chains that the modules register.
LEMMA ChainOfReads ==
  ASSUME NEW r, r.chain \in ReadChains
  PROVE  ChainOK(r) /\ Has(r, "AuthRequired") /\ ~Has(r, "RateLimit")
<1>1. CASE r.chain = CachedReadOfProject
  <2>1. /\ Len(r.chain) = 7 /\ DOMAIN r.chain = 1..7
        /\ r.chain[1] = "AuthRequired" /\ r.chain[2] = "ProjectRequired"
        /\ r.chain[3] = "ProjectMatchFromPath" /\ r.chain[4] = "ResolvePermissions"
        /\ r.chain[5] = "RequirePermission" /\ r.chain[6] = "CacheRead"
        /\ r.chain[7] = "CacheControl"
    BY <1>1 DEF CachedReadOfProject, Scoped
  <2> QED BY <2>1 DEF ChainOK, Has
<1>2. CASE r.chain = CachedReadOfUser
  <2>1. /\ Len(r.chain) = 3 /\ DOMAIN r.chain = 1..3
        /\ r.chain[1] = "AuthRequired" /\ r.chain[2] = "CacheRead"
        /\ r.chain[3] = "CacheControl"
    BY <1>2 DEF CachedReadOfUser
  <2> QED BY <2>1 DEF ChainOK, Has
<1>3. CASE r.chain = AccessChain
  <2>1. /\ Len(r.chain) = 6 /\ DOMAIN r.chain = 1..6
        /\ r.chain[1] = "AuthRequired" /\ r.chain[2] = "ProjectRequired"
        /\ r.chain[3] = "ProjectMatchFromPath" /\ r.chain[4] = "ResolvePermissions"
        /\ r.chain[5] = "CacheRead" /\ r.chain[6] = "CacheControl"
    BY <1>3 DEF AccessChain, Scoped
  <2> QED BY <2>1 DEF ChainOK, Has
<1> QED BY <1>1, <1>2, <1>3 DEF ReadChains

LEMMA ChainOfWrites ==
  ASSUME NEW r,
         r.chain \in WriteChains
  PROVE  /\ ChainOK(r) /\ Has(r, "AuthRequired") /\ ~Has(r, "CacheRead")
         /\ Has(r, "CacheInvalidate")
<1>1. CASE r.chain = ContentWrite
  <2>1. /\ Len(r.chain) = 8 /\ DOMAIN r.chain = 1..8
        /\ r.chain[1] = "AuthRequired" /\ r.chain[2] = "ProjectRequired"
        /\ r.chain[3] = "ProjectMatchFromPath" /\ r.chain[4] = "ResolvePermissions"
        /\ r.chain[5] = "RequireJSON" /\ r.chain[6] = "RequirePermission"
        /\ r.chain[7] = "RateLimit" /\ r.chain[8] = "CacheInvalidate"
    BY <1>1 DEF ContentWrite, Scoped
  <2> QED BY <2>1 DEF ChainOK, Has
<1>2. CASE r.chain = ProjectWrite
  <2>1. /\ Len(r.chain) = 8 /\ DOMAIN r.chain = 1..8
        /\ r.chain[1] = "AuthRequired" /\ r.chain[2] = "ProjectRequired"
        /\ r.chain[3] = "ProjectMatchFromPath" /\ r.chain[4] = "ResolvePermissions"
        /\ r.chain[5] = "RequirePermission" /\ r.chain[6] = "RequireJSON"
        /\ r.chain[7] = "RateLimit" /\ r.chain[8] = "CacheInvalidate"
    BY <1>2 DEF ProjectWrite, Scoped
  <2> QED BY <2>1 DEF ChainOK, Has
<1>3. CASE r.chain = PlainProjectWrite
  <2>1. /\ Len(r.chain) = 7 /\ DOMAIN r.chain = 1..7
        /\ r.chain[1] = "AuthRequired" /\ r.chain[2] = "ProjectRequired"
        /\ r.chain[3] = "ProjectMatchFromPath" /\ r.chain[4] = "ResolvePermissions"
        /\ r.chain[5] = "RequirePermission" /\ r.chain[6] = "RateLimit"
        /\ r.chain[7] = "CacheInvalidate"
    BY <1>3 DEF PlainProjectWrite, Scoped
  <2> QED BY <2>1 DEF ChainOK, Has
<1>4. CASE r.chain = UserWrite
  <2>1. /\ Len(r.chain) = 4 /\ DOMAIN r.chain = 1..4
        /\ r.chain[1] = "AuthRequired" /\ r.chain[2] = "RequireJSON"
        /\ r.chain[3] = "RateLimit" /\ r.chain[4] = "CacheInvalidate"
    BY <1>4 DEF UserWrite
  <2> QED BY <2>1 DEF ChainOK, Has
<1>5. CASE r.chain = PlainUserWrite
  <2>1. /\ Len(r.chain) = 3 /\ DOMAIN r.chain = 1..3
        /\ r.chain[1] = "AuthRequired" /\ r.chain[2] = "RateLimit"
        /\ r.chain[3] = "CacheInvalidate"
    BY <1>5 DEF PlainUserWrite
  <2> QED BY <2>1 DEF ChainOK, Has
<1> QED BY <1>1, <1>2, <1>3, <1>4, <1>5, Zenon DEF WriteChains

LEMMA ChainOfCalendar ==
  ASSUME NEW r, r.chain \in CalendarChains
  PROVE  ChainOK(r) /\ Has(r, "AuthRequired") /\ ~Has(r, "CacheRead")
<1>1. CASE r.chain = CalendarChain
  BY <1>1 DEF CalendarChain, Scoped, ChainOK, Has
<1>2. CASE r.chain = PlainCalendarChain
  BY <1>2 DEF PlainCalendarChain, Scoped, ChainOK, Has
<1> QED BY <1>1, <1>2 DEF CalendarChains

\* A cached read's key varies by all that its answer is about.
ReadOK(r) ==
  /\ r.project \in BOOLEAN /\ r.item \in BOOLEAN /\ ChainOK(r)
  /\ r.project => "project" \in r.vary
  /\ r.item => "item" \in r.vary
  /\ PerUser(r) => "user" \in r.vary /\ Has(r, "AuthRequired")
  /\ Has(r, "RateLimit") => r.project

WriteOK(r) ==
  /\ r.project \in BOOLEAN /\ r.item \in BOOLEAN /\ ChainOK(r)
  /\ ~Has(r, "CacheRead") /\ Has(r, "AuthRequired")

\* What the constructors of routes make.
LEMMA ReadsAreMade ==
  ASSUME NEW name, NEW perm, NEW tags, NEW of, name # <<"access", "project">>
  PROVE  ReadOK(OfProject(name, perm, tags, of)) /\ ReadOK(OneOfProject(name, perm, tags, of))
<1>1. ASSUME NEW r, r = OfProject(name, perm, tags, of) PROVE ReadOK(r)
  <2>1. /\ r.project /\ ~r.item /\ r.project \in BOOLEAN /\ r.item \in BOOLEAN /\ r.name = name /\ r.vary = {"project"}
        /\ r.chain = CachedReadOfProject
    BY <1>1 DEF OfProject, Route
  <2>2. r.chain \in ReadChains
    BY <2>1 DEF ReadChains, AccessChain
  <2>3. ChainOK(r) /\ Has(r, "AuthRequired") /\ ~Has(r, "RateLimit")
    BY <2>2, ChainOfReads, Zenon
  <2> QED BY <2>1, <2>3, Zenon DEF ReadOK, PerUser
<1>2. ASSUME NEW r, r = OneOfProject(name, perm, tags, of) PROVE ReadOK(r)
  <2>1. /\ r.project /\ r.item /\ r.project \in BOOLEAN /\ r.item \in BOOLEAN /\ r.name = name /\ r.vary = {"project", "item"}
        /\ r.chain = CachedReadOfProject
    BY <1>2 DEF OneOfProject, Route
  <2>2. r.chain \in ReadChains
    BY <2>1 DEF ReadChains, AccessChain
  <2>3. ChainOK(r) /\ Has(r, "AuthRequired") /\ ~Has(r, "RateLimit")
    BY <2>2, ChainOfReads, Zenon
  <2> QED BY <2>1, <2>3, Zenon DEF ReadOK, PerUser
<1> QED BY <1>1, <1>2

LEMMA ReadsOfUsersAreMade ==
  ASSUME NEW name, NEW tags, NEW of
  PROVE  ReadOK(OfUser(name, tags, of))
<1> DEFINE r == OfUser(name, tags, of)
<1>1. ~r.project /\ ~r.item /\ r.project \in BOOLEAN /\ r.item \in BOOLEAN /\ r.vary = {"user"} /\ r.chain = CachedReadOfUser
  BY DEF OfUser, Route
<1> HIDE DEF r
<1>2. ReadOK(r)
  <2>1. r.chain \in ReadChains
    BY <1>1 DEF ReadChains
  <2>2. ChainOK(r) /\ Has(r, "AuthRequired") /\ ~Has(r, "RateLimit")
    BY <2>1, ChainOfReads, Zenon
  <2> QED BY <1>1, <2>2, Zenon DEF ReadOK, PerUser
<1> QED BY <1>2 DEF r

LEMMA WritesAreMade ==
  ASSUME NEW name, NEW perm, NEW tags, NEW of,
         NEW chain \in WriteChains \cup CalendarChains
  PROVE  WriteOK(Write(name, chain, perm, tags, of)) /\ WriteOK(WriteOfUser(name, chain, tags, of))
<1>1. ASSUME NEW r, r = Write(name, chain, perm, tags, of) PROVE WriteOK(r)
  <2>1. r.project /\ ~r.item /\ r.project \in BOOLEAN /\ r.item \in BOOLEAN /\ r.chain = chain
    BY <1>1 DEF Write, Route
  <2>2. r.chain \in WriteChains \cup CalendarChains
    BY <2>1
  <2>3. ChainOK(r) /\ Has(r, "AuthRequired") /\ ~Has(r, "CacheRead")
    BY <2>2, ChainOfWrites, ChainOfCalendar, Zenon
  <2> QED BY <2>1, <2>3, Zenon DEF WriteOK
<1>2. ASSUME NEW r, r = WriteOfUser(name, chain, tags, of) PROVE WriteOK(r)
  <2>1. ~r.project /\ ~r.item /\ r.project \in BOOLEAN /\ r.item \in BOOLEAN /\ r.chain = chain
    BY <1>2 DEF WriteOfUser, Route
  <2>2. r.chain \in WriteChains \cup CalendarChains
    BY <2>1
  <2>3. ChainOK(r) /\ Has(r, "AuthRequired") /\ ~Has(r, "CacheRead")
    BY <2>2, ChainOfWrites, ChainOfCalendar, Zenon
  <2> QED BY <2>1, <2>3, Zenon DEF WriteOK
<1> QED BY <1>1, <1>2

\* Every read of the tables.
LEMMA ReadsOK == \A r \in Reads : ReadOK(r)
<1>1. \A r \in ArtifactReads : ReadOK(r)
  <2>1. ASSUME NEW k \in Kinds
        PROVE  /\ ReadOK(OfProject(<<"list", k>>, <<k, "view">>, ArtifactTags(k), {"artifacts"}))
               /\ ReadOK(OneOfProject(<<"get", k>>, <<k, "view">>, ArtifactTags(k), DetailData(k)))
    <3>1. <<"list", k>> # <<"access", "project">> /\ <<"get", k>> # <<"access", "project">>
      OBVIOUS
    <3> QED BY <3>1, ReadsAreMade
  <2>2. ASSUME NEW r \in ArtifactReads
        PROVE  ReadOK(r)
    <3>1. PICK k \in Kinds :
            \/ r = OfProject(<<"list", k>>, <<k, "view">>, ArtifactTags(k), {"artifacts"})
            \/ r = OneOfProject(<<"get", k>>, <<k, "view">>, ArtifactTags(k), DetailData(k))
      BY DEF ArtifactReads
    <3> QED BY <2>1, <3>1
  <2> QED BY <2>2
<1>2. \A r \in PageReads : ReadOK(r)
  BY ReadsAreMade DEF PageReads
<1>3. \A r \in ResourceReads : ReadOK(r)
  BY ReadsAreMade DEF ResourceReads
<1>4. \A r \in TeamReads : ReadOK(r)
  BY ReadsAreMade DEF TeamReads
<1>5. \A r \in ProjectReads : ReadOK(r)
  <2>1. ASSUME NEW r, r = Route(<<"access", "project">>, TRUE, FALSE, Scoped \o <<"CacheRead", "CacheControl">>,
                                NoPerm, {"project", "user"}, {"project.access"}, {"masks", "ranks"})
        PROVE  ReadOK(r)
    <3>1. /\ r.project /\ ~r.item /\ r.project \in BOOLEAN /\ r.item \in BOOLEAN /\ r.vary = {"project", "user"}
          /\ r.chain = Scoped \o <<"CacheRead", "CacheControl">>
      BY <2>1 DEF Route
    <3>2. r.chain \in ReadChains
      BY <3>1 DEF ReadChains, AccessChain
    <3>3. ChainOK(r) /\ Has(r, "AuthRequired") /\ ~Has(r, "RateLimit")
      BY <3>2, ChainOfReads, Zenon
    <3> QED BY <3>1, <3>3, Zenon DEF ReadOK
  <2>2. /\ <<"dashboard", "project">> # <<"access", "project">>
        /\ <<"overview", "project">> # <<"access", "project">>
        /\ <<"settings", "project">> # <<"access", "project">>
    OBVIOUS
  <2>3. ASSUME NEW r \in ProjectReads
        PROVE  \/ r = OfProject(<<"dashboard", "project">>, <<"project", "view">>, {"project.dashboard"},
                                Counted \cup {"project", "events", "activity", "pages", "resources"})
               \/ r = OfProject(<<"overview", "project">>, <<"project", "view">>, {"project.overview"},
                                Counted \cup {"project"})
               \/ r = OfProject(<<"settings", "project">>, <<"project", "view">>, {"project.settings"}, {"project"})
               \/ r = Route(<<"access", "project">>, TRUE, FALSE, Scoped \o <<"CacheRead", "CacheControl">>,
                            NoPerm, {"project", "user"}, {"project.access"}, {"masks", "ranks"})
    BY Zenon DEF ProjectReads
  <2> QED BY <2>1, <2>2, <2>3, ReadsAreMade, Zenon
<1>6. \A r \in HomeReads : ReadOK(r)
  <2>1. ASSUME NEW r, r = Route(<<"home", "docs">>, FALSE, FALSE, CachedReadOfUser, NoPerm, {}, {"home.docs"}, {})
        PROVE  ReadOK(r)
    <3>1. /\ ~r.project /\ ~r.item /\ r.project \in BOOLEAN /\ r.item \in BOOLEAN /\ r.name = <<"home", "docs">>
          /\ r.chain = CachedReadOfUser
      BY <2>1 DEF Route
    <3>2. r.chain \in ReadChains
      BY <3>1 DEF ReadChains, AccessChain
    <3>3. ChainOK(r) /\ Has(r, "AuthRequired") /\ ~Has(r, "RateLimit")
      BY <3>2, ChainOfReads, Zenon
    <3>4. ~PerUser(r)
      BY <3>1 DEF PerUser, Shared
    <3> QED BY <3>1, <3>3, <3>4, Zenon DEF ReadOK
  <2>2. ASSUME NEW r \in HomeReads
        PROVE  \/ \E name, tags, of : r = OfUser(name, tags, of)
               \/ r = Route(<<"home", "docs">>, FALSE, FALSE, CachedReadOfUser, NoPerm, {}, {"home.docs"}, {})
    BY Zenon DEF HomeReads
  <2>3. ASSUME NEW r, \E name, tags, of : r = OfUser(name, tags, of)
        PROVE  ReadOK(r)
    <3>1. PICK name, tags, of : r = OfUser(name, tags, of)
      BY <2>3
    <3>2. ReadOK(OfUser(name, tags, of))
      BY ReadsOfUsersAreMade
    <3> QED BY <3>1, <3>2
  <2> QED BY <2>1, <2>2, <2>3, Zenon
<1> QED BY <1>1, <1>2, <1>3, <1>4, <1>5, <1>6 DEF Reads

LEMMA WritesOK == \A r \in Writes : WriteOK(r)
<1>0. {ContentWrite, ProjectWrite, PlainProjectWrite, UserWrite, PlainUserWrite}
        \subseteq WriteChains
  BY DEF WriteChains
<1>1. \A r \in ArtifactWrites : WriteOK(r)
  <2>1. ASSUME NEW r \in ArtifactWrites
        PROVE  WriteOK(r)
    <3>1. PICK k \in Kinds :
            \/ r = Write(<<"create", k>>, ContentWrite, <<k, "create">>, ArtifactTags(k),
                        Changed(k) \cup {"notifications"})
            \/ r = Write(<<"update", k>>, ContentWrite, <<k, "edit">>, ArtifactTags(k), Changed(k))
      BY DEF ArtifactWrites
    <3> QED BY <1>0, <3>1, WritesAreMade
  <2> QED BY <2>1
<1>2. \A r \in PageWrites : WriteOK(r)
  BY <1>0, WritesAreMade DEF PageWrites
<1>3. \A r \in ResourceWrites : WriteOK(r)
  BY <1>0, WritesAreMade DEF ResourceWrites
<1>4. \A r \in TeamWrites : WriteOK(r)
  BY <1>0, WritesAreMade DEF TeamWrites
<1>5. \A r \in ProjectWrites : WriteOK(r)
  BY <1>0, WritesAreMade DEF ProjectWrites
<1>6. \A r \in CalendarWrites : WriteOK(r)
  <2>1. CalendarChains \subseteq WriteChains \cup CalendarChains
    OBVIOUS
  <2>2. /\ WriteOK(Write(<<"create", "event">>, CalendarChain, <<"calendar", "create">>, {},
                         {"events", "activity", "notifications"}))
        /\ WriteOK(Write(<<"update", "event">>, CalendarChain, <<"calendar", "edit">>, {}, {"events", "activity"}))
        /\ WriteOK(Write(<<"delete", "event">>, PlainCalendarChain, <<"calendar", "delete">>, {},
                         {"events", "activity"}))
    BY <2>1, WritesAreMade DEF CalendarChains
  <2> QED BY <2>2 DEF CalendarWrites, CalendarChain, PlainCalendarChain
<1>7. \A r \in HomeWrites : WriteOK(r)
  BY <1>0, WritesAreMade DEF HomeWrites
<1> QED BY <1>1, <1>2, <1>3, <1>4, <1>5, <1>6, <1>7 DEF Writes

-----------------------------------------------------------------------------
(* Tags                                                                    *)

LEMMA ArtifactReadIs ==
  ASSUME NEW r \in ArtifactReads
  PROVE  /\ r.project /\ ~Shared(r) /\ "artifacts.project" \in r.tags /\ r.name \in ContentReads
         /\ r.of \subseteq {"artifacts", "roster", "ranks"}
         /\ r.of # {"artifacts"} => r.name = <<"get", "task">>
<1>1. PICK k \in Kinds :
        \/ r = OfProject(<<"list", k>>, <<k, "view">>, ArtifactTags(k), {"artifacts"})
        \/ r = OneOfProject(<<"get", k>>, <<k, "view">>, ArtifactTags(k), DetailData(k))
  BY DEF ArtifactReads
<1>2. /\ r.project /\ r.tags = ArtifactTags(k)
      /\ \/ r.name = <<"list", k>> /\ r.of = {"artifacts"}
         \/ r.name = <<"get", k>> /\ r.of = DetailData(k)
  BY <1>1 DEF OfProject, OneOfProject, Route
<1>3. ~Shared(r)
  BY <1>2 DEF Shared
<1>4. r.name \in ContentReads
  BY DEF ContentReads, NamesOf
<1>5. r.of \subseteq {"artifacts", "roster", "ranks"} /\ (r.of # {"artifacts"} => r.name = <<"get", "task">>)
  BY <1>2 DEF DetailData
<1>6. "artifacts.project" \in r.tags
  BY <1>2 DEF ArtifactTags
<1> QED BY <1>2, <1>3, <1>4, <1>5, <1>6

LEMMA OfProjectIs ==
  ASSUME NEW name, NEW perm, NEW tags, NEW of, NEW r,
         r = OfProject(name, perm, tags, of) \/ r = OneOfProject(name, perm, tags, of)
  PROVE  r.project /\ r.name = name /\ r.tags = tags /\ r.of = of
BY DEF OfProject, OneOfProject, Route

LEMMA OfUserIs ==
  ASSUME NEW name, NEW tags, NEW of, NEW r, r = OfUser(name, tags, of)
  PROVE  ~r.project /\ r.name = name /\ r.tags = tags /\ r.of = of
BY DEF OfUser, Route

LEMMA WriteIs ==
  ASSUME NEW name, NEW chain \in WriteChains, NEW perm, NEW tags, NEW of, NEW r,
         r = Write(name, chain, perm, tags, of)
  PROVE  /\ r.project /\ r.name = name /\ r.tags = tags /\ r.of = of
         /\ Has(r, "CacheInvalidate")
<1>1. r.project /\ r.name = name /\ r.tags = tags /\ r.of = of /\ r.chain = chain
  BY DEF Write, Route
<1> QED BY <1>1, ChainOfWrites, Zenon

LEMMA WriteOfUserIs ==
  ASSUME NEW name, NEW chain \in WriteChains, NEW tags, NEW of, NEW r,
         r = WriteOfUser(name, chain, tags, of)
  PROVE  /\ ~r.project /\ r.name = name /\ r.tags = tags /\ r.of = of
         /\ Has(r, "CacheInvalidate")
<1>1. ~r.project /\ r.name = name /\ r.tags = tags /\ r.of = of /\ r.chain = chain
  BY DEF WriteOfUser, Route
<1> QED BY <1>1, ChainOfWrites, Zenon

\* A read of the tables: its scope, its tags and what it is made of.
Is(r, project, name, tags, of) ==
  (r.project <=> project) /\ r.name = name /\ r.tags = tags /\ r.of = of

LEMMA HomeReadIs ==
  ASSUME NEW r \in HomeReads
  PROVE  \/ Is(r, FALSE, <<"home", "dashboard">>, {"home.dashboard"},
               {"memberships", "project", "tasks", "standing", "inbox", "offers", "notifications", "activity"})
         \/ Is(r, FALSE, <<"home", "projects">>, {"home.projects"}, {"memberships", "project", "tasks", "standing"})
         \/ Is(r, FALSE, <<"home", "reference">>, {"home.reference"}, {"memberships", "project", "roster"})
         \/ Is(r, FALSE, <<"home", "invites">>, {"home.invites"}, {"inbox", "offers", "project"})
         \/ Is(r, FALSE, <<"home", "notifications">>, {"home.notifications"}, {"notifications"})
         \/ Is(r, FALSE, <<"home", "activity">>, {"home.activity"}, {"memberships", "project", "activity"})
         \/ Is(r, FALSE, <<"home", "dashboard-activity">>, {"home.dashboard_activity"},
               {"memberships", "project", "activity"})
         \/ Is(r, FALSE, <<"home", "account">>, {"home.account"}, {"account"})
         \/ Is(r, FALSE, <<"home", "docs">>, {"home.docs"}, {})
<1>1. \A name, tags, of : r = OfUser(name, tags, of) => Is(r, FALSE, name, tags, of)
  BY OfUserIs DEF Is
<1>2. r = Route(<<"home", "docs">>, FALSE, FALSE, CachedReadOfUser, NoPerm, {}, {"home.docs"}, {})
        => Is(r, FALSE, <<"home", "docs">>, {"home.docs"}, {})
  BY DEF Is, Route
<1> QED BY <1>1, <1>2, Zenon DEF HomeReads
LEMMA HomeWriteIs ==
  ASSUME NEW w \in HomeWrites
  PROVE  /\ Has(w, "CacheInvalidate")
         /\ \/ Is(w, FALSE, <<"create", "project">>, {"home.dashboard", "home.projects", "home.reference"},
                  {"memberships", "standing"})
            \/ Is(w, FALSE, <<"accept", "invite">>, {"home.dashboard", "home.invites", "home.projects"}, Joined)
            \/ Is(w, FALSE, <<"decline", "invite">>, {"home.invites", "home.dashboard"}, {"pending", "inbox"})
            \/ Is(w, FALSE, <<"update", "account">>, {"home.account", "home.dashboard"}, {"account"})
<1>1. {UserWrite, PlainUserWrite} \subseteq WriteChains
  BY DEF WriteChains
<1>2. \A name, chain, tags, of :
        chain \in {UserWrite, PlainUserWrite} /\ w = WriteOfUser(name, chain, tags, of)
          => Is(w, FALSE, name, tags, of) /\ Has(w, "CacheInvalidate")
  BY <1>1, WriteOfUserIs DEF Is
<1> QED BY <1>2, Zenon DEF HomeWrites

\* The writes of a project, and what each changes.
LEMMA ProjectWriteIs ==
  ASSUME NEW name, NEW chain \in {ContentWrite, ProjectWrite, PlainProjectWrite}, NEW perm, NEW tags, NEW of
  PROVE  LET w == Write(name, chain, perm, tags, of)
         IN  Is(w, TRUE, name, tags, of) /\ Has(w, "CacheInvalidate")
<1> DEFINE w == Write(name, chain, perm, tags, of)
<1>1. chain \in WriteChains
  BY DEF WriteChains
<1>2. w = Write(name, chain, perm, tags, of)
  OBVIOUS
<1> HIDE DEF w
<1>3. Is(w, TRUE, name, tags, of) /\ Has(w, "CacheInvalidate")
  BY <1>1, <1>2, WriteIs DEF Is
<1> QED BY <1>3 DEF w

LEMMA ArtifactWriteIs ==
  ASSUME NEW w \in ArtifactWrites
  PROVE  /\ w.project /\ w.name \in ContentChanges /\ Has(w, "CacheInvalidate")
         /\ "artifacts.project" \in w.tags
         /\ w.of \subseteq {"artifacts", "activity", "notifications", "tasks"}
<1>0. PICK k \in Kinds :
        \/ w = Write(<<"create", k>>, ContentWrite, <<k, "create">>, ArtifactTags(k), Changed(k) \cup {"notifications"})
        \/ w = Write(<<"update", k>>, ContentWrite, <<k, "edit">>, ArtifactTags(k), Changed(k))
  BY DEF ArtifactWrites
<1>1. PICK name, perm, of : /\ w = Write(name, ContentWrite, perm, ArtifactTags(k), of)
                            /\ of \subseteq Changed(k) \cup {"notifications"}
  BY <1>0
<1>2. /\ Is(w, TRUE, name, ArtifactTags(k), of) /\ Has(w, "CacheInvalidate")
      /\ of \subseteq Changed(k) \cup {"notifications"}
  BY <1>1, ProjectWriteIs
<1>3. w.name \in ContentChanges
  BY DEF ContentChanges, NamesOf
<1> QED BY <1>2, <1>3 DEF Is, ArtifactTags, Changed

LEMMA OtherContentIs ==
  ASSUME NEW w \in PageWrites \cup ResourceWrites \cup CalendarWrites
  PROVE  /\ w.project /\ w.name \in ContentChanges
         /\ \/ Has(w, "CacheInvalidate") /\ w.tags = PageTags /\ w.of \subseteq {"pages", "activity", "notifications"}
            \/ Has(w, "CacheInvalidate") /\ w.tags = ResourceTags
                 /\ w.of \subseteq {"resources", "activity", "notifications"}
            \/ w.of \subseteq {"events", "activity", "notifications"}
<1>1. w.name \in ContentChanges
  BY DEF ContentChanges, NamesOf
<1>2. CASE w \in PageWrites
  <2>1. PICK name, perm, of : /\ w = Write(name, ContentWrite, perm, PageTags, of)
                              /\ of \subseteq {"pages", "activity", "notifications"}
    BY <1>2, Zenon DEF PageWrites
  <2>2. Is(w, TRUE, name, PageTags, of) /\ Has(w, "CacheInvalidate")
    BY <2>1, ProjectWriteIs
  <2> QED BY <1>1, <2>1, <2>2 DEF Is
<1>3. CASE w \in ResourceWrites
  <2>1. PICK name, perm, of : /\ w = Write(name, ContentWrite, perm, ResourceTags, of)
                              /\ of \subseteq {"resources", "activity", "notifications"}
    BY <1>3, Zenon DEF ResourceWrites
  <2>2. Is(w, TRUE, name, ResourceTags, of) /\ Has(w, "CacheInvalidate")
    BY <2>1, ProjectWriteIs
  <2> QED BY <1>1, <2>1, <2>2 DEF Is
<1>4. CASE w \in CalendarWrites
  BY <1>1, <1>4 DEF CalendarWrites, Write, Route
<1> QED BY <1>2, <1>3, <1>4

LEMMA TeamWriteIs ==
  ASSUME NEW w \in TeamWrites
  PROVE  /\ w.project /\ w.name \in TeamChanges /\ Has(w, "CacheInvalidate") /\ w.tags = TeamTags
         /\ \/ w.of \subseteq {"pending", "offers", "notifications"}
            \/ w.name = <<"update", "member">> /\ w.of = {"masks", "ranks", "standing"}
            \/ w.name = <<"update", "role">> /\ w.of = {"masks", "roles"}
<1>1. w.name \in TeamChanges
  BY DEF TeamChanges, NamesOf
<1>2. PICK name, chain, perm, of :
        /\ w = Write(name, chain, perm, TeamTags, of)
        /\ chain \in {ProjectWrite, PlainProjectWrite}
        /\ \/ of = {"pending", "offers", "notifications"} \/ of = {"pending", "offers"}
           \/ name = <<"update", "member">> /\ of = {"masks", "ranks", "standing"}
           \/ name = <<"update", "role">> /\ of = {"masks", "roles"}
  BY Zenon DEF TeamWrites
<1>3. Is(w, TRUE, name, TeamTags, of) /\ Has(w, "CacheInvalidate")
  BY <1>2, ProjectWriteIs
<1> QED BY <1>1, <1>2, <1>3 DEF Is

LEMMA WriteOfProjectIs ==
  ASSUME NEW w \in ProjectWrites
  PROVE  /\ w.project /\ w.name \in ProjectChanges /\ Has(w, "CacheInvalidate") /\ w.tags = ProjectTags
         /\ w.of = {"project"} \/ w.name = <<"delete", "project">>
<1>1. w.name \in ProjectChanges
  BY DEF ProjectChanges, NamesOf
<1>2. PICK name, chain, perm, of : /\ w = Write(name, chain, perm, ProjectTags, of)
                                   /\ chain \in {ProjectWrite, PlainProjectWrite}
                                   /\ of = {"project"} \/ name = <<"delete", "project">>
  BY Zenon DEF ProjectWrites
<1>3. Is(w, TRUE, name, ProjectTags, of) /\ Has(w, "CacheInvalidate")
  BY <1>2, ProjectWriteIs
<1> QED BY <1>1, <1>2, <1>3 DEF Is

\* A write changes what a read is made of: it bumps a tag of the read in the
\* scope the read takes it from, or the two are a known gap.
Meet(r, w) ==
  /\ ~Shared(r) /\ Has(w, "CacheInvalidate")
  /\ r.tags \cap w.tags # {}
  /\ r.project <=> w.project
  /\ ~r.project => r.of \cap w.of \subseteq Personal

LEMMA TeamReadIs ==
  ASSUME NEW r \in TeamReads
  PROVE  /\ ~Shared(r) /\ r.name \in RosterLists /\ r.name \in NamesOf(TeamReads)
         /\ \/ Is(r, TRUE, <<"list", "member">>, {"team.members"}, {"roster", "ranks", "pending"})
            \/ Is(r, TRUE, <<"list", "role">>, {"team.roles"}, {"roles", "masks", "ranks", "roster"})
<1>1. PICK name, perm, tags, of :
        /\ r = OfProject(name, perm, tags, of)
        /\ \/ name = <<"list", "member">> /\ tags = {"team.members"} /\ of = {"roster", "ranks", "pending"}
           \/ name = <<"list", "role">> /\ tags = {"team.roles"} /\ of = {"roles", "masks", "ranks", "roster"}
  BY Zenon DEF TeamReads
<1>2. Is(r, TRUE, name, tags, of)
  BY <1>1, OfProjectIs DEF Is
<1>3. ~Shared(r)
  BY <1>1, <1>2 DEF Is, Shared
<1>4. r.name \in RosterLists
  BY <1>1, <1>2 DEF Is, RosterLists
<1>5. r.name \in NamesOf(TeamReads)
  BY DEF NamesOf
<1> QED BY <1>1, <1>2, <1>3, <1>4, <1>5

LEMMA ContentReadIs ==
  ASSUME NEW r \in PageReads \cup ResourceReads
  PROVE  /\ ~Shared(r) /\ r.name \in ContentReads
         /\ \/ r.project /\ r.tags = PageTags /\ r.of = {"pages"}
            \/ r.project /\ r.tags = ResourceTags /\ r.of = {"resources"}
<1>1. PICK name, perm, tags, of :
        /\ r = OfProject(name, perm, tags, of) \/ r = OneOfProject(name, perm, tags, of)
        /\ name \in {<<"list", "page">>, <<"get", "page">>, <<"list", "resource">>, <<"get", "resource">>}
        /\ \/ tags = PageTags /\ of = {"pages"}
           \/ tags = ResourceTags /\ of = {"resources"}
  BY Zenon DEF PageReads, ResourceReads
<1>2. Is(r, TRUE, name, tags, of)
  BY <1>1, OfProjectIs DEF Is
<1>3. ~Shared(r)
  BY <1>1, <1>2 DEF Is, Shared
<1>4. r.name \in ContentReads
  BY DEF ContentReads, NamesOf
<1> QED BY <1>1, <1>2, <1>3, <1>4 DEF Is

LEMMA ProjectReadIs ==
  ASSUME NEW r \in ProjectReads
  PROVE  /\ ~Shared(r)
         /\ \/ Is(r, TRUE, <<"dashboard", "project">>, {"project.dashboard"},
                  {"artifacts", "tasks", "project", "events", "activity", "pages", "resources"})
            \/ Is(r, TRUE, <<"overview", "project">>, {"project.overview"}, {"artifacts", "tasks", "project"})
            \/ Is(r, TRUE, <<"access", "project">>, {"project.access"}, {"masks", "ranks"})
            \/ Is(r, TRUE, <<"settings", "project">>, {"project.settings"}, {"project"})
<1>1. \A name, perm, tags, of : r = OfProject(name, perm, tags, of) => Is(r, TRUE, name, tags, of)
  BY OfProjectIs DEF Is
<1>2. r = Route(<<"access", "project">>, TRUE, FALSE, Scoped \o <<"CacheRead", "CacheControl">>, NoPerm,
                {"project", "user"}, {"project.access"}, {"masks", "ranks"})
        => Is(r, TRUE, <<"access", "project">>, {"project.access"}, {"masks", "ranks"})
  BY DEF Is, Route
<1>3. /\ Counted \cup {"project", "events", "activity", "pages", "resources"}
           = {"artifacts", "tasks", "project", "events", "activity", "pages", "resources"}
      /\ Counted \cup {"project"} = {"artifacts", "tasks", "project"}
  BY DEF Counted
<1>4. \/ Is(r, TRUE, <<"dashboard", "project">>, {"project.dashboard"},
            {"artifacts", "tasks", "project", "events", "activity", "pages", "resources"})
      \/ Is(r, TRUE, <<"overview", "project">>, {"project.overview"}, {"artifacts", "tasks", "project"})
      \/ Is(r, TRUE, <<"access", "project">>, {"project.access"}, {"masks", "ranks"})
      \/ Is(r, TRUE, <<"settings", "project">>, {"project.settings"}, {"project"})
  BY <1>1, <1>2, <1>3, Zenon DEF ProjectReads
<1>5. ~Shared(r)
  BY <1>4 DEF Is, Shared
<1> QED BY <1>4, <1>5

\* Of the reads of a project.
LEMMA TagsMeetInProject ==
  ASSUME NEW r \in Reads \ HomeReads, NEW w \in Writes, Touches(r, w), ~KnownGap(r.name, w.name)
  PROVE  Meet(r, w)
<1>0. r.of \cap w.of # {}
  BY DEF Touches
<1>g. /\ ~(r.name \in ProjectCounts /\ w.name \in ContentChanges)
      /\ ~(r.name \in RosterLists /\ w.name \in RosterChanges)
      /\ ~(r.name \in ContentReads \cup NamesOf(TeamReads) /\ w.name = <<"delete", "project">>)
      /\ ~(r.name = <<"access", "project">> /\ w.name \in Standing \cup {<<"update", "role">>})
      /\ ~(r.name = <<"get", "task">> /\ w.name \in Standing)
  BY Zenon DEF KnownGap
<1>s. <<"accept", "invite">> \in Standing /\ <<"update", "member">> \in Standing
  BY DEF Standing
<1>r. \/ r \in ArtifactReads \/ r \in PageReads \cup ResourceReads \/ r \in TeamReads \/ r \in ProjectReads
  BY DEF Reads
<1>w. \/ w \in ArtifactWrites \/ w \in PageWrites \cup ResourceWrites \cup CalendarWrites
      \/ w \in TeamWrites \/ w \in ProjectWrites \/ w \in HomeWrites
  BY DEF Writes
<1>1. CASE w \in ArtifactWrites
  <2>1. CASE r \in ArtifactReads
    BY <1>1, <2>1, ArtifactWriteIs, ArtifactReadIs DEF Meet
  <2>2. CASE r \in PageReads \cup ResourceReads
    BY <1>0, <1>1, <2>2, ArtifactWriteIs, ContentReadIs
  <2>3. CASE r \in TeamReads
    BY <1>0, <1>1, <2>3, ArtifactWriteIs, TeamReadIs DEF Is
  <2>4. CASE r \in ProjectReads
    BY <1>0, <1>1, <1>g, <2>4, ArtifactWriteIs, ProjectReadIs DEF Is, ProjectCounts
  <2> QED BY <1>r, <2>1, <2>2, <2>3, <2>4
<1>2. CASE w \in PageWrites \cup ResourceWrites \cup CalendarWrites
  <2>1. CASE r \in ArtifactReads
    BY <1>0, <1>2, <2>1, OtherContentIs, ArtifactReadIs
  <2>2. CASE r \in PageReads \cup ResourceReads
    BY <1>0, <1>2, <2>2, OtherContentIs, ContentReadIs DEF Meet, PageTags, ResourceTags
  <2>3. CASE r \in TeamReads
    BY <1>0, <1>2, <2>3, OtherContentIs, TeamReadIs DEF Is
  <2>4. CASE r \in ProjectReads
    BY <1>0, <1>2, <1>g, <2>4, OtherContentIs, ProjectReadIs DEF Is, ProjectCounts
  <2> QED BY <1>r, <2>1, <2>2, <2>3, <2>4
<1>3. CASE w \in TeamWrites
  <2>1. CASE r \in ArtifactReads
    <3>1. "ranks" \in r.of /\ w.name = <<"update", "member">>
      BY <1>0, <1>3, <2>1, TeamWriteIs, ArtifactReadIs
    <3>2. r.name = <<"get", "task">>
      BY <2>1, <3>1, ArtifactReadIs
    <3> QED BY <1>g, <1>s, <3>1, <3>2
  <2>2. CASE r \in PageReads \cup ResourceReads
    BY <1>0, <1>3, <2>2, TeamWriteIs, ContentReadIs
  <2>3. CASE r \in TeamReads
    BY <1>3, <2>3, TeamWriteIs, TeamReadIs DEF Is, Meet, TeamTags
  <2>4. CASE r \in ProjectReads
    BY <1>0, <1>3, <1>g, <1>s, <2>4, TeamWriteIs, ProjectReadIs DEF Is
  <2> QED BY <1>r, <2>1, <2>2, <2>3, <2>4
<1>4. CASE w \in ProjectWrites
  <2>1. CASE r \in ArtifactReads
    BY <1>0, <1>4, <1>g, <2>1, WriteOfProjectIs, ArtifactReadIs
  <2>2. CASE r \in PageReads \cup ResourceReads
    BY <1>0, <1>4, <1>g, <2>2, WriteOfProjectIs, ContentReadIs
  <2>3. CASE r \in TeamReads
    BY <1>0, <1>4, <1>g, <2>3, WriteOfProjectIs, TeamReadIs DEF Is
  <2>4. CASE r \in ProjectReads
    BY <1>0, <1>4, <2>4, WriteOfProjectIs, ProjectReadIs DEF Is, Meet, ProjectTags
  <2> QED BY <1>r, <2>1, <2>2, <2>3, <2>4
<1>5. CASE w \in HomeWrites
  <2>1. CASE r \in ArtifactReads
    <3>1. r.of \subseteq {"artifacts", "roster", "ranks"} /\ (r.of # {"artifacts"} => r.name = <<"get", "task">>)
      BY <2>1, ArtifactReadIs
    <3>2. "artifacts" \notin w.of
      BY <1>5, HomeWriteIs DEF Is, Joined
    <3>3. r.name = <<"get", "task">> /\ ("roster" \in w.of \/ "ranks" \in w.of)
      BY <1>0, <3>1, <3>2
    <3>4. w.name = <<"accept", "invite">>
      BY <1>5, <3>3, HomeWriteIs DEF Is
    <3> QED BY <1>g, <1>s, <3>3, <3>4
  <2>2. CASE r \in PageReads \cup ResourceReads
    BY <1>0, <1>5, <2>2, HomeWriteIs, ContentReadIs DEF Is, Joined
  <2>3. CASE r \in TeamReads
    <3>1. r.name \in RosterLists /\ r.of \subseteq {"roster", "ranks", "pending", "roles", "masks"}
      BY <2>3, TeamReadIs DEF Is
    <3>2. w.name \in RosterChanges \/ w.of \subseteq {"memberships", "standing", "account"}
      BY <1>5, HomeWriteIs DEF Is, RosterChanges
    <3> QED BY <1>0, <1>g, <3>1, <3>2
  <2>4. CASE r \in ProjectReads
    <3>1. \/ r.name = <<"access", "project">>
          \/ r.of \subseteq {"artifacts", "tasks", "project", "events", "activity", "pages", "resources"}
      BY <2>4, ProjectReadIs DEF Is
    <3>2. \/ w.name = <<"accept", "invite">> /\ w.of = Joined
          \/ w.of \subseteq {"memberships", "standing", "account", "pending", "inbox"}
      BY <1>5, HomeWriteIs DEF Is
    <3>3. r.name = <<"access", "project">> => r.of = {"masks", "ranks"}
      BY <2>4, ProjectReadIs DEF Is
    <3> QED BY <1>0, <1>g, <1>s, <3>1, <3>2, <3>3 DEF Joined
  <2> QED BY <1>r, <2>1, <2>2, <2>3, <2>4
<1> QED BY <1>w, <1>1, <1>2, <1>3, <1>4, <1>5

\* Of the reads of a user.
LEMMA TagsMeetAtHome ==
  ASSUME NEW r \in HomeReads, NEW w \in Writes, Touches(r, w), ~KnownGap(r.name, w.name)
  PROVE  Meet(r, w)
<1>0. r.of \cap w.of # {}
  BY DEF Touches
<1>g. /\ ~(r.name \in HomeLists /\ w.name \in ContentChanges \cup ProjectChanges \cup TeamChanges)
      /\ ~(r.name \in RosterLists /\ w.name \in RosterChanges)
      /\ ~(r.name \in ActivityLists /\ w.name = <<"create", "project">>)
  BY Zenon DEF KnownGap
<1>1. r.name \in HomeLists \/ r.of = {"account"} \/ r.of = {}
  <2>1. r.name \in NamesOf(HomeReads)
    BY DEF NamesOf
  <2>2. r.name \notin HomeLists => r.name \in {<<"home", "account">>, <<"home", "docs">>}
    BY <2>1 DEF HomeLists
  <2> QED BY <2>2, HomeReadIs DEF Is
<1>2. CASE w \in HomeWrites
  <2>1. ~Shared(r)
    BY <1>0, HomeReadIs DEF Is, Shared
  <2>2. /\ r.name = <<"home", "activity">> \/ r.name = <<"home", "dashboard-activity">>
             => r.name \in ActivityLists /\ r.name \in RosterLists
        /\ r.name = <<"home", "reference">> => r.name \in RosterLists
        /\ w.name = <<"accept", "invite">> \/ w.name = <<"decline", "invite">> => w.name \in RosterChanges
    BY DEF ActivityLists, RosterLists, RosterChanges
  <2>3. /\ Has(w, "CacheInvalidate") /\ ~r.project /\ ~w.project
        /\ r.tags \cap w.tags # {} /\ r.of \cap w.of \subseteq Personal
    BY <1>0, <1>2, <1>g, <2>2, HomeReadIs, HomeWriteIs DEF Is, Personal, Joined
  <2> QED BY <2>1, <2>3 DEF Meet
<1>3. CASE w \in ArtifactWrites
  BY <1>0, <1>1, <1>3, <1>g, ArtifactWriteIs
<1>4. CASE w \in PageWrites \cup ResourceWrites \cup CalendarWrites
  BY <1>0, <1>1, <1>4, <1>g, OtherContentIs
<1>5. CASE w \in TeamWrites
  BY <1>0, <1>1, <1>5, <1>g, TeamWriteIs
<1>6. CASE w \in ProjectWrites
  <2>1. w.name \in ProjectChanges
    BY <1>6, WriteOfProjectIs
  <2>2. r.of = {"account"} /\ "account" \in w.of
    BY <1>0, <1>1, <1>g, <2>1
  <2>3. "account" \notin w.of
    BY <1>6 DEF ProjectWrites, Write, Route, GoesWithProject
  <2> QED BY <2>2, <2>3
<1> QED BY <1>2, <1>3, <1>4, <1>5, <1>6 DEF Writes

-----------------------------------------------------------------------------
(* The routes served together                                              *)

LEMMA DetailIs ==
  /\ Detail \in ArtifactReads
  /\ \E k \in Kinds : Detail = OneOfProject(<<"get", k>>, <<k, "view">>, ArtifactTags(k), DetailData(k))
<1>1. PICK j \in Kinds : TRUE
  BY KindsAssumption
<1>2. OneOfProject(<<"get", j>>, <<j, "view">>, ArtifactTags(j), DetailData(j)) \in ArtifactReads
  BY DEF ArtifactReads
<1>3. OneOfProject(<<"get", j>>, <<j, "view">>, ArtifactTags(j), DetailData(j)).item
  BY DEF OneOfProject, Route
<1>4. Detail \in ArtifactReads /\ Detail.item
  BY <1>2, <1>3 DEF Detail
<1>5. PICK k \in Kinds :
        \/ Detail = OfProject(<<"list", k>>, <<k, "view">>, ArtifactTags(k), {"artifacts"})
        \/ Detail = OneOfProject(<<"get", k>>, <<k, "view">>, ArtifactTags(k), DetailData(k))
  BY <1>4 DEF ArtifactReads
<1>6. Detail = OneOfProject(<<"get", k>>, <<k, "view">>, ArtifactTags(k), DetailData(k))
  BY <1>4, <1>5 DEF OfProject, Route
<1> QED BY <1>4, <1>6

\* A chain of any of the policies, none twice, for the read of one item.
LEMMA RechainedOK ==
  ASSUME NEW r \in Rechained
  PROVE  ReadOK(r) /\ r.perm = Detail.perm
<1>1. PICK k \in Kinds : Detail = OneOfProject(<<"get", k>>, <<k, "view">>, ArtifactTags(k), DetailData(k))
  BY DetailIs
<1>2. PICK c \in Orders : r = [Detail EXCEPT !.chain = c]
  BY DEF Rechained
<1>3. /\ r.project \in BOOLEAN /\ r.project /\ r.item \in BOOLEAN
      /\ r.vary = {"project", "item"} /\ r.chain = c /\ r.name = <<"get", k>> /\ r.perm = Detail.perm
  BY <1>1, <1>2 DEF OneOfProject, Route
<1>4. PICK n \in 0 .. 7 : c \in [1 .. n -> Policies]
  BY DEF Orders
<1>5. ChainOK(r)
  <2>1. c \in Seq(Policies)
    BY <1>4, SeqDef
  <2>2. Len(c) = n /\ DOMAIN c = 1 .. n
    BY <1>4, <2>1, LenProperties
  <2> QED BY <1>3, <1>4, <2>2 DEF ChainOK
<1>6. ~PerUser(r)
  BY <1>3 DEF PerUser
<1> QED BY <1>3, <1>5, <1>6 DEF ReadOK

\* The routes are of the tables, a read that is served alone apart.
ServedOK ==
  /\ DOMAIN served \subseteq {"read", "write", "other"}
  /\ \A role \in DOMAIN served : Accepted(served[role])
  /\ "read" \in DOMAIN served => ReadOK(served.read)
  /\ "write" \in DOMAIN served => WriteOK(served.write)
  /\ "other" \in DOMAIN served => WriteOK(served.other)
  /\ Paired => /\ "read" \in DOMAIN served /\ "write" \in DOMAIN served
               /\ served.read \in Reads /\ served.write \in Writes
               /\ Touches(served.read, served.write)
  /\ NotMember # Perms

LEMMA ServedIs == served \in Candidates => ServedOK
<1> SUFFICES ASSUME served \in Candidates PROVE ServedOK
  OBVIOUS
<1>1. \A role \in DOMAIN served : Accepted(served[role])
  BY DEF Candidates
<1>2. CASE \E r, w : r \in Reads /\ w \in Writes /\ Touches(r, w) /\ served = [read |-> r, write |-> w]
  <2>1. PICK r \in Reads, w \in Writes : Touches(r, w) /\ served = [read |-> r, write |-> w]
    BY <1>2
  <2>2. Perms = {r.perm, w.perm}
    BY <2>1 DEF Perms
  <2>3. NotMember # Perms
    BY <2>2, GatewayAssumption
  <2>4. ReadOK(r) /\ WriteOK(w)
    BY ReadsOK, WritesOK
  <2>5. /\ DOMAIN served = {"read", "write"} /\ served.read = r /\ served.write = w
    BY <2>1
  <2> QED BY <1>1, <2>1, <2>3, <2>4, <2>5 DEF ServedOK
<1>3. CASE \E r \in Reads \cup Rechained : served = [read |-> r]
  <2>1. PICK r \in Reads \cup Rechained : served = [read |-> r]
    BY <1>3
  <2>2. /\ DOMAIN served = {"read"} /\ served.read = r
    BY <2>1
  <2>3. ~Paired
    BY <2>2 DEF Paired
  <2>4. ReadOK(r)
    BY ReadsOK, RechainedOK
  <2>5. \E x \in Reads : x.perm = r.perm
    <3>1. CASE r \in Reads
      BY <3>1
    <3>2. CASE r \in Rechained
      BY <3>2, RechainedOK, DetailIs DEF Reads
    <3> QED BY <3>1, <3>2
  <2>6. Perms = {r.perm, r.perm}
    BY <2>2 DEF Perms
  <2>7. NotMember # Perms
    BY <2>5, <2>6, GatewayAssumption
  <2> QED BY <1>1, <2>2, <2>3, <2>4, <2>7 DEF ServedOK
<1>4. CASE \E w \in Writes : served = [write |-> w]
  <2>1. PICK w \in Writes : served = [write |-> w]
    BY <1>4
  <2>2. /\ DOMAIN served = {"write"} /\ served.write = w
    BY <2>1
  <2>3. ~Paired
    BY <2>2 DEF Paired
  <2>4. WriteOK(w)
    BY WritesOK
  <2>5. Perms = {w.perm, w.perm}
    BY <2>2 DEF Perms
  <2>6. NotMember # Perms
    BY <2>5, GatewayAssumption
  <2> QED BY <1>1, <2>2, <2>3, <2>4, <2>6 DEF ServedOK
<1>5. served \in Pairs \/ served \in Twins \/ served \in Alone
  BY DEF Candidates
<1>7. CASE served \in Twins
  <2>1. PICK y \in Writes \X Writes : served = [write |-> y[1], other |-> y[2]]
    BY <1>7 DEF Twins
  <2>2. /\ DOMAIN served = {"write", "other"} /\ served.write = y[1] /\ served.other = y[2]
    BY <2>1
  <2>3. ~Paired
    BY <2>2 DEF Paired
  <2>4. WriteOK(y[1]) /\ WriteOK(y[2])
    BY <2>1, WritesOK
  <2>5. Perms = {y[1].perm, y[2].perm}
    BY <2>2 DEF Perms
  <2>6. NotMember # Perms
    BY <2>1, <2>5, GatewayAssumption
  <2> QED BY <1>1, <2>2, <2>3, <2>4, <2>6 DEF ServedOK
<1>6. ASSUME served \in Pairs
      PROVE  \E r, w : r \in Reads /\ w \in Writes /\ Touches(r, w) /\ served = [read |-> r, write |-> w]
  <2>1. PICK y \in Reads \X Writes : Touches(y[1], y[2]) /\ served = [read |-> y[1], write |-> y[2]]
    BY <1>6 DEF Pairs
  <2> QED BY <2>1
<1> QED BY <1>2, <1>3, <1>4, <1>5, <1>6, <1>7 DEF Alone

-----------------------------------------------------------------------------
(* A request on its way through its chain                                  *)

Gates == {"AuthRequired", "ProjectRequired", "ResolvePermissions", "RequirePermission"}
Beyond == {"CacheRead", "RateLimit"}

\* The request has left a policy of this kind behind.
Behind(q, p) == \E n \in DOMAIN RouteOf(q).chain : n < q.at /\ RouteOf(q).chain[n] = p

\* The validator's order: what looks beyond the request comes after the gates.
LEMMA GatesFirst ==
  ASSUME NEW r, Ordering(r), ChainOK(r), NEW n \in DOMAIN r.chain, r.chain[n] \in Beyond,
         NEW p \in Gates, Has(r, p)
  PROVE  \E m \in DOMAIN r.chain : m < n /\ r.chain[m] = p
<1>1. PICK m \in DOMAIN r.chain : r.chain[m] = p
  BY DEF Has
<1>2. /\ Stage(p) \in 1..4 /\ Stage(r.chain[n]) \in {5, 6} /\ r.chain[n] # p
  BY DEF Stage, Gates, Beyond
<1>3. m \in Nat /\ n \in Nat /\ m # n
  BY <1>1, <1>2 DEF ChainOK
<1>4. ~(n < m)
  BY <1>1, <1>2 DEF Ordering
<1> QED BY <1>1, <1>3, <1>4

Fields == [user : Users \cup {NoUser}, proj : Projects \cup {"none"}, perms : SUBSET Perms]
CacheKeys == [project : Projects \cup {"none"}, user : Users \cup {NoUser, "none"}, item : Items \cup {"none"},
              tags : [ReadTags -> Nat]]
Subjects == [proj : Projects \cup {"none"}, item : Items \cup {"none"}, user : Users \cup {NoUser}]
Statuses == {0, 200, 401, 403, 415, 429, 500, 503}

Requests ==
  [pc : {"idle", "chain", "out", "answered"}, role : {"read", "write", "other"}, user : Users \cup {NoUser},
   proj : Projects \cup {"none"}, item : Items \cup {"none"}, json : BOOLEAN, at : 1 .. 9,
   principal : Fields, tok : SUBSET CacheKeys, seen : SUBSET Nat, status : Statuses,
   body : Subjects \cup {"none"}, had : (SUBSET Perms) \cup {NotMember}, since : SUBSET Nat]

\* What a request found out so far is true of it, and the gates behind it let
\* it through for a reason.
OnTheWay(q) ==
  LET r == RouteOf(q)
      who == q.principal
  IN
    /\ q.role \in DOMAIN served /\ q.at <= Len(r.chain) + 1
    /\ r.project => q.proj \in Projects
    /\ who.user \in {NoUser, q.user} /\ who.proj \in {"none", q.proj}
    /\ \A p \in who.perms : p \in q.had
    /\ Behind(q, "AuthRequired") => q.user # NoUser /\ who.user = q.user
    /\ Behind(q, "ProjectRequired") => who.proj = q.proj
    /\ Behind(q, "ResolvePermissions") => q.had # NotMember
    /\ Behind(q, "RequirePermission") => r.perm \in q.had

\* The permissions of a request's user were at least these when it started.
Held(q) ==
  q.user \in Users /\ q.proj \in Projects /\ mask[q.user][q.proj] # NotMember =>
    /\ q.had # NotMember
    /\ \A p \in mask[q.user][q.proj] : p \in q.had

MaskTyped == mask \in [Users -> [Projects -> (SUBSET Perms) \cup {NotMember}]]

\* What the walk of a request leaves alone.
Same(q0, q) ==
  /\ q.role = q0.role /\ q.user = q0.user /\ q.proj = q0.proj /\ q.item = q0.item /\ q.tok = q0.tok
  /\ q.since = q0.since /\ q.had = q0.had /\ q.status = q0.status /\ q.seen = q0.seen

\* Where a walk that began with q0 may be.
WalkedTo(q0, q) ==
  \/ q \in Requests /\ q.pc = "chain" /\ OnTheWay(q) /\ Held(q) /\ Same(q0, q)
  \/ \E status \in {401, 403, 415} : q = Refuse(q0, status)

LEMMA NextPlace ==
  ASSUME NEW at \in 1..9, NEW length \in 0..8, at <= length
  PROVE  at + 1 \in 1..9
OBVIOUS

\* One policy further: what is behind the request afterwards.
LEMMA PassIs ==
  ASSUME NEW q \in Requests, NEW principal \in Fields,
         q.pc = "chain", q.role \in DOMAIN served, ChainOK(RouteOf(q)), q.at <= Len(RouteOf(q).chain)
  PROVE  LET n == Pass(q, principal)
         IN  /\ n \in Requests /\ n.pc = "chain" /\ Same(q, n) /\ n.principal = principal
             /\ n.at = q.at + 1 /\ n.at <= Len(RouteOf(q).chain) + 1 /\ RouteOf(n) = RouteOf(q)
             /\ \A p : Behind(n, p) => Behind(q, p) \/ RouteOf(q).chain[q.at] = p
<1> DEFINE n == Pass(q, principal)
           r == RouteOf(q)
<1>1. /\ Len(r.chain) \in 0..8 /\ DOMAIN r.chain = 1..Len(r.chain) /\ q.at \in 1..9
      /\ q.at <= Len(r.chain)
  BY DEF ChainOK, Requests
<1>2. n = [q EXCEPT !.at = q.at + 1, !.principal = principal]
  BY DEF Pass
<1>3. n \in Requests
  <2>1. q.at + 1 \in 1..9
    BY <1>1, NextPlace
  <2>3. PICK at \in 1..9 : at = q.at + 1
    BY <2>1
  <2>2. n = [q EXCEPT !.at = at, !.principal = principal]
    BY <1>2, <2>3
  <2> QED BY <2>2 DEF Requests
<1>4. /\ n.pc = "chain" /\ Same(q, n) /\ n.principal = principal /\ n.at = q.at + 1
  BY <1>2 DEF Requests, Same
<1>5. RouteOf(n) = RouteOf(q)
  BY <1>4 DEF RouteOf, Same
<1> HIDE DEF n
<1>6. ASSUME NEW p, Behind(n, p)
      PROVE  Behind(q, p) \/ r.chain[q.at] = p
  <2>1. PICK m \in DOMAIN r.chain : m < q.at + 1 /\ r.chain[m] = p
    BY <1>4, <1>5, <1>6 DEF Behind
  <2>2. m < q.at \/ m = q.at
    BY <1>1, <2>1
  <2> QED BY <2>1, <2>2 DEF Behind
<1>7. n.at <= Len(r.chain) + 1
  BY <1>1, <1>4
<1> QED BY <1>3, <1>4, <1>5, <1>6, <1>7 DEF n

\* A policy that passes the request on, with what it found out.
LEMMA PassKeeps ==
  ASSUME NEW q0, NEW q \in Requests, NEW principal \in Fields,
         ServedOK, q.pc = "chain", OnTheWay(q), Held(q), Same(q0, q),
         q.at <= Len(RouteOf(q).chain),
         principal.user \in {q.principal.user, q.user},
         principal.proj \in {q.principal.proj, q.proj},
         \A p \in principal.perms : p \in q.had,
         Behind(q, "AuthRequired") \/ RouteOf(q).chain[q.at] = "AuthRequired"
           => q.user # NoUser /\ principal.user = q.user,
         Behind(q, "ProjectRequired") \/ RouteOf(q).chain[q.at] = "ProjectRequired"
           => principal.proj = q.proj,
         RouteOf(q).chain[q.at] = "ResolvePermissions" => q.had # NotMember,
         RouteOf(q).chain[q.at] = "RequirePermission" => RouteOf(q).perm \in q.had
  PROVE  WalkedTo(q0, Pass(q, principal))
<1> DEFINE n == Pass(q, principal)
           r == RouteOf(q)
<1>0. q.role \in DOMAIN served /\ ChainOK(r)
  BY DEF OnTheWay, ServedOK, ReadOK, WriteOK, RouteOf
<1>1. /\ n \in Requests /\ n.pc = "chain" /\ Same(q, n) /\ n.principal = principal
      /\ n.at = q.at + 1 /\ n.at <= Len(r.chain) + 1 /\ RouteOf(n) = r
      /\ \A p : Behind(n, p) => Behind(q, p) \/ r.chain[q.at] = p
  BY <1>0, PassIs
<1> HIDE DEF n
<1>2. /\ n.user = q.user /\ n.proj = q.proj /\ n.had = q.had /\ n.role = q.role
  BY <1>1 DEF Same
<1>3. OnTheWay(n)
  <2>1. /\ n.role \in DOMAIN served
        /\ r.project => n.proj \in Projects
        /\ n.principal.user \in {NoUser, n.user} /\ n.principal.proj \in {"none", n.proj}
        /\ \A p \in n.principal.perms : p \in n.had
    BY <1>1, <1>2 DEF OnTheWay
  <2>2. Behind(n, "AuthRequired") => n.user # NoUser /\ n.principal.user = n.user
    BY <1>1, <1>2
  <2>3. Behind(n, "ProjectRequired") => n.principal.proj = n.proj
    BY <1>1, <1>2
  <2>4. Behind(n, "ResolvePermissions") => n.had # NotMember
    BY <1>1, <1>2 DEF OnTheWay
  <2>5. Behind(n, "RequirePermission") => r.perm \in n.had
    BY <1>1, <1>2 DEF OnTheWay
  <2> QED BY <1>1, <2>1, <2>2, <2>3, <2>4, <2>5, Zenon DEF OnTheWay
<1>4. Held(n)
  BY <1>2 DEF Held
<1>5. Same(q0, n)
  BY <1>1 DEF Same
<1> QED BY <1>1, <1>3, <1>4, <1>5 DEF WalkedTo, n

LEMMA RefuseIs ==
  ASSUME NEW q0, NEW q, Same(q0, q), NEW status
  PROVE  Refuse(q, status) = Refuse(q0, status)
BY DEF Refuse, Same

\* The policies, one by one.
LEMMA LocalKeeps ==
  ASSUME NEW q0, NEW q, ServedOK, MaskTyped, WalkedTo(q0, q)
  PROVE  WalkedTo(q0, Local(q))
<1>1. CASE q.pc # "chain"
  BY <1>1 DEF Local, Faces
<1>2. CASE q.pc = "chain"
  <2>0. /\ q \in Requests /\ q.pc = "chain" /\ OnTheWay(q) /\ Held(q) /\ Same(q0, q)
    BY <1>2 DEF WalkedTo, Refuse, Idle
  <2> DEFINE r == RouteOf(q)
             who == q.principal
  <2>t. who \in Fields /\ q.principal \in Fields
    BY <2>0 DEF Requests
  <2>c. \A status \in {401, 403, 415} : WalkedTo(q0, Refuse(q, status))
    BY <2>0, RefuseIs DEF WalkedTo
  <2>f. \A p : Faces(q, p) => q.at <= Len(r.chain) /\ r.chain[q.at] = p
    BY DEF Faces
  <2>w. /\ who.user \in {NoUser, q.user} /\ who.proj \in {"none", q.proj}
        /\ \A p \in who.perms : p \in q.had
        /\ Behind(q, "AuthRequired") => q.user # NoUser /\ who.user = q.user
        /\ Behind(q, "ProjectRequired") => who.proj = q.proj
    BY <2>0 DEF OnTheWay
  <2>p. ASSUME NEW p, Faces(q, p),
               p \notin {"AuthRequired", "ProjectRequired", "ResolvePermissions", "RequirePermission"}
        PROVE  WalkedTo(q0, Pass(q, q.principal))
    BY <2>0, <2>t, <2>f, <2>w, <2>p, PassKeeps
  <2>1. CASE Faces(q, "AuthRequired")
    <3>1. Local(q) = AuthRequired(q)
      BY <2>1, <2>f DEF Local
    <3>2. CASE q.user = NoUser
      BY <2>c, <3>1, <3>2 DEF AuthRequired
    <3>3. CASE q.user # NoUser
      <4> DEFINE new == [who EXCEPT !.user = q.user]
      <4>1. new \in Fields /\ new.user = q.user /\ new.proj = who.proj /\ new.perms = who.perms
        BY <2>0, <2>t DEF Fields, Requests
      <4>2. Local(q) = Pass(q, new)
        BY <3>1, <3>3 DEF AuthRequired
      <4> HIDE DEF new
      <4> QED BY <2>0, <2>1, <2>f, <2>w, <3>3, <4>1, <4>2, PassKeeps
    <3> QED BY <3>2, <3>3
  <2>2. CASE Faces(q, "ProjectRequired")
    <3>1. Local(q) = ProjectRequired(q)
      BY <2>2, <2>f DEF Local
    <3>2. CASE q.principal.user = NoUser \/ ~r.project
      BY <2>c, <3>1, <3>2 DEF ProjectRequired
    <3>3. CASE ~(q.principal.user = NoUser \/ ~r.project)
      <4> DEFINE new == [who EXCEPT !.proj = q.proj]
      <4>1. new \in Fields /\ new.user = who.user /\ new.proj = q.proj /\ new.perms = who.perms
        BY <2>0, <2>t DEF Fields, Requests
      <4>2. Local(q) = Pass(q, new)
        BY <3>1, <3>3 DEF ProjectRequired
      <4> HIDE DEF new
      <4> QED BY <2>0, <2>2, <2>f, <2>w, <3>3, <4>1, <4>2, PassKeeps
    <3> QED BY <3>2, <3>3
  <2>3. CASE Faces(q, "ProjectMatchFromPath")
    <3>1. Local(q) = ProjectMatchFromPath(q)
      BY <2>3, <2>f DEF Local
    <3> QED BY <2>3, <2>c, <2>p, <3>1 DEF ProjectMatchFromPath
  <2>4. CASE Faces(q, "ResolvePermissions")
    <3>1. Local(q) = ResolvePermissions(q)
      BY <2>4, <2>f DEF Local
    <3>2. CASE who.user = NoUser \/ who.proj = "none" \/ mask[who.user][who.proj] = NotMember
      BY <2>c, <3>1, <3>2 DEF ResolvePermissions
    <3>3. CASE ~(who.user = NoUser \/ who.proj = "none" \/ mask[who.user][who.proj] = NotMember)
      <4> DEFINE new == [who EXCEPT !.perms = mask[who.user][who.proj]]
      <4>1. /\ who.user = q.user /\ who.proj = q.proj /\ q.user \in Users /\ q.proj \in Projects
            /\ mask[q.user][q.proj] # NotMember
        BY <2>w, <2>0, <3>3 DEF Requests
      <4>2. mask[q.user][q.proj] \in SUBSET Perms
        <5>1. mask[q.user] \in [Projects -> (SUBSET Perms) \cup {NotMember}]
          BY <4>1 DEF MaskTyped
        <5>2. mask[q.user][q.proj] \in (SUBSET Perms) \cup {NotMember}
          BY <4>1, <5>1
        <5> QED BY <4>1, <5>2, Zenon
      <4>3. q.had # NotMember /\ \A p \in mask[q.user][q.proj] : p \in q.had
        BY <2>0, <4>1 DEF Held
      <4>4. /\ new \in Fields /\ new.user = who.user /\ new.proj = who.proj
            /\ new.perms = mask[q.user][q.proj]
        BY <2>t, <4>1, <4>2 DEF Fields
      <4>5. Local(q) = Pass(q, new)
        BY <3>1, <3>3 DEF ResolvePermissions
      <4> HIDE DEF new
      <4> QED BY <2>0, <2>4, <2>f, <2>w, <4>3, <4>4, <4>5, PassKeeps
    <3> QED BY <3>2, <3>3
  <2>5. CASE Faces(q, "RequirePermission")
    <3>1. Local(q) = RequirePermission(q)
      BY <2>5, <2>f DEF Local
    <3>2. CASE r.perm \notin who.perms
      BY <2>c, <3>1, <3>2 DEF RequirePermission
    <3>3. CASE r.perm \in who.perms
      <4>1. Local(q) = Pass(q, q.principal)
        BY <3>1, <3>3 DEF RequirePermission
      <4>2. r.perm \in q.had
        BY <2>w, <3>3
      <4> QED BY <2>0, <2>5, <2>t, <2>f, <2>w, <4>1, <4>2, PassKeeps
    <3> QED BY <3>2, <3>3
  <2>6. CASE Faces(q, "RequireJSON")
    <3>1. Local(q) = RequireJSON(q)
      BY <2>6, <2>f DEF Local
    <3> QED BY <2>6, <2>c, <2>p, <3>1 DEF RequireJSON
  <2>7. CASE Faces(q, "CacheControl") \/ Faces(q, "CacheInvalidate")
    <3>1. Local(q) = Pass(q, q.principal)
      BY <2>7, <2>f DEF Local
    <3> QED BY <2>7, <2>p, <3>1
  <2>8. CASE ~(\/ Faces(q, "AuthRequired") \/ Faces(q, "ProjectRequired") \/ Faces(q, "ProjectMatchFromPath")
               \/ Faces(q, "ResolvePermissions") \/ Faces(q, "RequirePermission") \/ Faces(q, "RequireJSON")
               \/ Faces(q, "CacheControl") \/ Faces(q, "CacheInvalidate"))
    <3>1. Local(q) = q
      BY <2>8 DEF Local
    <3> QED BY <3>1
  <2> QED BY <2>1, <2>2, <2>3, <2>4, <2>5, <2>6, <2>7, <2>8
<1> QED BY <1>1, <1>2

\* Up to the next policy that looks beyond the request.
LEMMA WalkKeeps ==
  ASSUME NEW q0, NEW q, ServedOK, MaskTyped, WalkedTo(q0, q)
  PROVE  WalkedTo(q0, Walk(q))
<1>1. ASSUME NEW x, WalkedTo(q0, x)
      PROVE  WalkedTo(q0, TwoFurther(x))
  BY <1>1, LocalKeeps DEF TwoFurther
<1>2. ASSUME NEW x, WalkedTo(q0, x)
      PROVE  WalkedTo(q0, FourFurther(x))
  BY <1>1, <1>2 DEF FourFurther
<1> QED BY <1>2 DEF Walk

-----------------------------------------------------------------------------
(* The inductive invariant                                                 *)

Scopes == Users \cup Projects \cup {NoUser}
Entries == [key : CacheKeys, body : Subjects, seen : SUBSET Nat]

Typed ==
  /\ served \in Candidates /\ MaskTyped /\ faults \in Nat
  /\ req \in [Slots -> Requests]
  /\ version \in [ReadTags \X Scopes -> Nat]
  /\ answers \subseteq Entries
  /\ commits \in Seq([user : Users \cup {NoUser}, proj : Projects \cup {"none"}])
  /\ confirmed \subseteq DOMAIN commits
  /\ count \in [Identities -> Nat] /\ passed \in [Identities -> Nat]

\* What an answer kept under a key is about, and the scope of the key's versions.
About(k) ==
  LET r == served.read
  IN [proj |-> IF r.project THEN k.project ELSE "none",
      item |-> IF r.item THEN k.item ELSE "none",
      user |-> IF PerUser(r) THEN k.user ELSE NoUser]

ScopeOf(k) == IF served.read.project THEN k.project ELSE k.user

\* Versions only grow: those of a key were read earlier.
Earlier(k) ==
  ~Shared(served.read) =>
    /\ ScopeOf(k) \in Scopes
    /\ \A t \in ReadTags : k.tags[t] <= version[<<t, ScopeOf(k)>>]

KeyOK(q, k) == About(k) = Subject(q) /\ Earlier(k)

\* The two routes served share data, and the write tells the read.
Told == Paired /\ Meet(served.read, served.write)

ScopeOfWrite(n) == IF served.write.project THEN commits[n].proj ELSE commits[n].user

Entitled(q) ==
  LET r == RouteOf(q)
  IN /\ Has(r, "AuthRequired") => q.user # NoUser
     /\ Has(r, "ResolvePermissions") => q.had # NotMember
     /\ Has(r, "RequirePermission") => r.perm \in q.had

SeesWrites(q) == \A n \in q.since : Affects(commits[n], q) => n \in q.seen

InChain(q) ==
  /\ OnTheWay(q) /\ Held(q) /\ q.status = 0
  /\ q.tok = {} \/ q.role = "read"
  /\ \A k \in q.tok : KeyOK(q, k)

\* A write that is committed and whose tags are not marked yet.
GoingOut(q) ==
  /\ q.role # "read" /\ q.role \in DOMAIN served /\ Entitled(q)
  /\ IF RouteOf(q).project THEN q.proj \in Projects ELSE q.principal.user = q.user
  /\ \A n \in q.seen : commits[n] = [user |-> q.user, proj |-> q.proj]

Given(q) ==
  /\ Entitled(q)
  /\ q.role = "read" => q.body = Subject(q) /\ (Told => SeesWrites(q))

RequestOK(q) ==
  /\ q.since \subseteq confirmed /\ q.seen \subseteq DOMAIN commits
  /\ q.pc = "chain" => InChain(q)
  /\ q.pc = "out" => GoingOut(q)
  /\ Answered(q) => Given(q)

RequestsOK == \A s \in Slots : RequestOK(req[s])

\* An answer that lacks a confirmed write is kept under versions of the past.
EntryOK(e) ==
  /\ "read" \in DOMAIN served /\ e.body = About(e.key) /\ Earlier(e.key)
  /\ e.seen \subseteq DOMAIN commits
  /\ Told =>
       \A n \in confirmed :
         n \notin e.seen /\ ScopeOfWrite(n) = ScopeOf(e.key)
           => \A t \in ReadTags \cap served.write.tags : e.key.tags[t] < version[<<t, ScopeOf(e.key)>>]

AnswersOK == \A e \in answers : EntryOK(e)

\* What was let through is what was counted, up to the limit.
LimiterOK ==
  \A k \in Identities : passed[k] <= count[k] /\ (count[k] <= passed[k] \/ Limit <= passed[k])

GatewayInv == Typed /\ RequestsOK /\ AnswersOK /\ LimiterOK

-----------------------------------------------------------------------------
(* What every step leaves true                                             *)

\* Permissions are only taken away, versions, commits and confirmations only added.
Onward ==
  /\ served' = served
  /\ confirmed \subseteq confirmed'
  /\ DOMAIN commits \subseteq DOMAIN commits' /\ \A n \in DOMAIN commits : commits'[n] = commits[n]
  /\ \A t \in ReadTags, c \in Scopes : version[<<t, c>>] \in Nat /\ version'[<<t, c>>] \in Nat /\ version[<<t, c>>] <= version'[<<t, c>>]
  /\ \A u \in Users, p \in Projects : mask'[u][p] # NotMember =>
       mask[u][p] # NotMember /\ \A x \in mask'[u][p] : x \in mask[u][p]

LEMMA SameRoutes ==
  ASSUME served' = served
  PROVE  /\ ReadTags' = ReadTags /\ Paired' = Paired /\ Told' = Told /\ Perms' = Perms /\ Identities' = Identities
         /\ Requests' = Requests /\ Entries' = Entries /\ ServedOK' = ServedOK
         /\ \A q : /\ RouteOf(q)' = RouteOf(q) /\ Subject(q)' = Subject(q) /\ Entitled(q)' = Entitled(q)
                   /\ OnTheWay(q)' = OnTheWay(q)
         /\ \A k : About(k)' = About(k) /\ ScopeOf(k)' = ScopeOf(k)
<1>1. /\ ReadTags' = ReadTags /\ Paired' = Paired /\ Told' = Told /\ Perms' = Perms /\ Identities' = Identities
  BY DEF ReadTags, Paired, Told, Perms, Identities
<1>4. Requests' = Requests /\ Entries' = Entries /\ ServedOK' = ServedOK
  BY <1>1 DEF Requests, Entries, CacheKeys, Fields, ServedOK
<1>2. ASSUME NEW q
      PROVE  /\ RouteOf(q)' = RouteOf(q) /\ Subject(q)' = Subject(q) /\ Entitled(q)' = Entitled(q)
             /\ OnTheWay(q)' = OnTheWay(q)
  BY DEF RouteOf, Subject, Entitled, OnTheWay, Behind
<1>3. ASSUME NEW k
      PROVE  About(k)' = About(k) /\ ScopeOf(k)' = ScopeOf(k)
  BY DEF About, ScopeOf
<1> QED BY <1>1, <1>2, <1>3, <1>4

LEMMA EarlierStays ==
  ASSUME Onward, NEW k, k.tags \in [ReadTags -> Nat], Earlier(k)
  PROVE  Earlier(k)'
<1>1. /\ ReadTags' = ReadTags /\ ScopeOf(k)' = ScopeOf(k) /\ served' = served
  BY SameRoutes DEF Onward
<1>2. CASE Shared(served.read)
  BY <1>1, <1>2 DEF Earlier
<1>3. CASE ~Shared(served.read)
  <2>1. ScopeOf(k) \in Scopes /\ \A t \in ReadTags : k.tags[t] <= version[<<t, ScopeOf(k)>>]
    BY <1>3 DEF Earlier
  <2> DEFINE c == ScopeOf(k)
  <2>2. ASSUME NEW t \in ReadTags
        PROVE  k.tags[t] <= version'[<<t, c>>]
    <3>1. /\ version[<<t, c>>] \in Nat /\ version'[<<t, c>>] \in Nat /\ version[<<t, c>>] <= version'[<<t, c>>]
      BY <2>1 DEF Onward
    <3>2. k.tags[t] \in Nat /\ k.tags[t] <= version[<<t, c>>]
      BY <2>1
    <3> HIDE DEF c
    <3> QED BY <3>1, <3>2
  <2> QED BY <1>1, <2>1, <2>2 DEF Earlier
<1> QED BY <1>2, <1>3

\* A request that a step leaves alone stays as it should be.
LEMMA RequestStays ==
  ASSUME Typed, Onward, NEW q \in Requests, RequestOK(q)
  PROVE  RequestOK(q)'
<1>0. served' = served
  BY DEF Onward
<1>1. q.since \subseteq confirmed' /\ q.seen \subseteq DOMAIN commits'
  BY DEF Onward, RequestOK
<1>2. ASSUME q.pc = "chain"
      PROVE  InChain(q)'
  <2>1. InChain(q)
    BY <1>2 DEF RequestOK
  <2>2. OnTheWay(q)'
    BY <1>0, <2>1, SameRoutes, Zenon DEF InChain
  <2>3. Held(q)'
    BY <2>1 DEF InChain, Held, Onward
  <2>4. ASSUME NEW k \in q.tok
        PROVE  KeyOK(q, k)'
    <3>1. k.tags \in [ReadTags -> Nat]
      BY DEF Requests, CacheKeys
    <3>2. KeyOK(q, k)
      BY <2>1 DEF InChain
    <3>3. Earlier(k)'
      BY <3>1, <3>2, EarlierStays DEF KeyOK
    <3>4. About(k)' = Subject(q)'
      BY <1>0, <3>2, SameRoutes DEF KeyOK
    <3> QED BY <3>3, <3>4, Zenon DEF KeyOK
  <2> QED BY <2>1, <2>2, <2>3, <2>4, Zenon DEF InChain
<1>3. ASSUME q.pc = "out"
      PROVE  GoingOut(q)'
  <2>1. GoingOut(q)
    BY <1>3 DEF RequestOK
  <2>2. Entitled(q)'
    BY <1>0, <2>1, SameRoutes, Zenon DEF GoingOut
  <2>3. \A n \in q.seen : commits'[n] = commits[n]
    BY DEF Onward, RequestOK
  <2>4. RouteOf(q)' = RouteOf(q)
    BY <1>0, SameRoutes, Zenon
  <2> QED BY <1>0, <2>1, <2>2, <2>3, <2>4 DEF GoingOut
<1>4. ASSUME Answered(q)
      PROVE  Given(q)'
  <2>1. Given(q)
    BY <1>4 DEF RequestOK
  <2>2. Entitled(q)'
    BY <1>0, <2>1, SameRoutes, Zenon DEF Given
  <2>3. q.role = "read" => q.body = Subject(q)'
    BY <1>0, <2>1, SameRoutes DEF Given
  <2>4. SeesWrites(q) => SeesWrites(q)'
    <3>1. \A n \in q.since : commits'[n] = commits[n]
      BY DEF Onward, RequestOK, Typed
    <3> QED BY <1>0, <3>1 DEF SeesWrites, Affects
  <2>5. Told' <=> Told
    BY <1>0, SameRoutes
  <2> QED BY <2>1, <2>2, <2>3, <2>4, <2>5, Zenon DEF Given
<1>5. Answered(q)' <=> Answered(q)
  BY DEF Answered
<1> QED BY <1>1, <1>2, <1>3, <1>4, <1>5, Zenon DEF RequestOK

\* So does an answer kept, if the tags of what is confirmed are marked.
LEMMA AnswerKept ==
  ASSUME Typed, Onward, NEW e \in Entries, EntryOK(e),
         \A n \in confirmed' \ confirmed :
           Told /\ n \notin e.seen /\ ScopeOfWrite(n)' = ScopeOf(e.key)
             => \A t \in ReadTags \cap served.write.tags : e.key.tags[t] < version'[<<t, ScopeOf(e.key)>>]
  PROVE  EntryOK(e)'
<1>0. served' = served
  BY DEF Onward
<1>1. e.key.tags \in [ReadTags -> Nat]
  BY DEF Entries, CacheKeys
<1>2. Earlier(e.key)'
  BY <1>1, EarlierStays DEF EntryOK
<1>3. e.body = About(e.key)' /\ "read" \in DOMAIN served'
  BY <1>0, SameRoutes DEF EntryOK
<1>4. ASSUME Told', NEW n \in confirmed', n \notin e.seen, ScopeOfWrite(n)' = ScopeOf(e.key)',
             NEW t \in ReadTags' \cap served'.write.tags
      PROVE  e.key.tags[t] < version'[t, ScopeOf(e.key)']
  <2> DEFINE c == ScopeOf(e.key)
  <2>1. /\ Told /\ ScopeOf(e.key)' = c /\ t \in ReadTags \cap served.write.tags
    BY <1>0, <1>4, SameRoutes
  <2>n. CASE n \notin confirmed
    BY <1>4, <2>1, <2>n
  <2>c. CASE n \in confirmed
    <3>2. ScopeOfWrite(n)' = ScopeOfWrite(n)
      BY <1>0, <2>c DEF ScopeOfWrite, Onward, Typed
    <3>3. e.key.tags[t] < version[<<t, c>>]
      BY <1>4, <2>1, <2>c, <3>2 DEF EntryOK
    <3>4. c \in Scopes
      BY <2>1 DEF EntryOK, Earlier, Told, Meet
    <3>5. version[<<t, c>>] \in Nat /\ version'[<<t, c>>] \in Nat /\ version[<<t, c>>] <= version'[<<t, c>>]
      BY <2>1, <3>4 DEF Onward
    <3>6. e.key.tags[t] \in Nat
      BY <1>1, <2>1
    <3> HIDE DEF c
    <3>7. e.key.tags[t] < version'[<<t, c>>]
      BY <3>3, <3>5, <3>6
    <3> QED BY <2>1, <3>7
  <2> QED BY <2>n, <2>c
<1>5. e.seen \subseteq DOMAIN commits'
  BY DEF EntryOK, Onward
<1> QED BY <1>2, <1>3, <1>4, <1>5, Zenon DEF EntryOK

LEMMA NothingOnward ==
  ASSUME Typed, UNCHANGED <<served, mask, commits, confirmed, version>>
  PROVE  Onward
<1>1. \A t \in ReadTags, c \in Scopes : version[<<t, c>>] \in Nat
  BY DEF Typed
<1> QED BY <1>1 DEF Onward, Typed

LEMMA OthersStay ==
  ASSUME Typed, RequestsOK, Onward, NEW s \in Slots, NEW q \in Requests, RequestOK(q)', req' = [req EXCEPT ![s] = q]
  PROVE  RequestsOK' /\ req' \in [Slots -> Requests']
<1>1. req' \in [Slots -> Requests] /\ Requests' = Requests
  BY SameRoutes DEF Typed, Onward
<1>2. ASSUME NEW x \in Slots
      PROVE  RequestOK(req[x])'
  <2>1. CASE x = s
    <3>1. req'[x] = q
      BY <2>1 DEF Typed
    <3> QED BY <3>1, Zenon
  <2>2. CASE x # s
    <3>1. req'[x] = req[x] /\ req[x] \in Requests /\ RequestOK(req[x])
      BY <2>2 DEF Typed, RequestsOK
    <3> DEFINE y == req[x]
    <3>2. PICK z \in Requests : z = req[x]
      BY <3>1
    <3>3. RequestOK(z)'
      BY <3>1, <3>2, RequestStays
    <3>4. req'[x] = z
      BY <3>1, <3>2
    <3> QED BY <3>3, <3>4, Zenon
  <2> QED BY <2>1, <2>2
<1> QED BY <1>1, <1>2 DEF RequestsOK

LEMMA AnswersKept ==
  ASSUME Typed, Onward, confirmed' = confirmed, answers' \subseteq Entries, \A e \in answers' : EntryOK(e)
  PROVE  AnswersOK'
BY AnswerKept DEF AnswersOK

LEMMA IdleIs == Idle \in Requests /\ Idle.since = {} /\ Idle.seen = {}
<1>1. NoPrincipal \in Fields
  BY DEF NoPrincipal, Fields
<1> QED BY <1>1 DEF Idle, Requests, Statuses

\* The sets of a request's fields, by name.
Phases == {"idle", "chain", "out", "answered"}
Roles == {"read", "write", "other"}
Askers == Users \cup {NoUser}
Places == Projects \cup {"none"}
Parts == Items \cup {"none"}
Bodies == Subjects \cup {"none"}
Masks == (SUBSET Perms) \cup {NotMember}
Numbers == SUBSET Nat
Tokens == SUBSET CacheKeys
Stops == 1 .. 9

LEMMA RequestsAre ==
  Requests = [pc : Phases, role : Roles, user : Askers, proj : Places, item : Parts, json : BOOLEAN, at : Stops,
              principal : Fields, tok : Tokens, seen : Numbers, status : Statuses,
              body : Bodies, had : Masks, since : Numbers]
BY DEF Requests, Phases, Roles, Askers, Places, Parts, Bodies, Masks, Numbers, Tokens, Stops

Turned(q, phase, role, status) == [q EXCEPT !.pc = phase, !.role = role, !.status = status]

LEMMA TurnedIs ==
  ASSUME NEW q \in Requests, NEW phase \in Phases, NEW role \in Roles, NEW status \in Statuses
  PROVE  Turned(q, phase, role, status) \in Requests
BY RequestsAre DEF Turned

LEMMA RefusedOK ==
  ASSUME NEW q, q.role \in {"read", "write", "other"}, NEW status \in {401, 403, 415, 429, 500, 503}
  PROVE  /\ Refuse(q, status) \in Requests /\ RequestOK(Refuse(q, status))
         /\ Refuse(q, status).status = status /\ Refuse(q, status).pc = "answered"
<1> DEFINE n == Refuse(q, status)
<1>1. n = [Idle EXCEPT !.pc = "answered", !.role = q.role, !.status = status]
  BY DEF Refuse
<1>2. Idle \in Requests /\ Idle.since = {} /\ Idle.seen = {}
  BY IdleIs
<1>3. n \in Requests
  <2>1. status \in Statuses /\ "answered" \in Phases /\ q.role \in Roles
    BY DEF Statuses, Phases, Roles
  <2>2. Turned(Idle, "answered", q.role, status) \in Requests
    BY <1>2, <2>1, TurnedIs
  <2> QED BY <1>1, <2>2, Zenon DEF Turned
<1>4. n.pc = "answered" /\ n.status = status /\ n.status # 200 /\ n.since = {} /\ n.seen = {}
  BY <1>1, <1>2 DEF Requests
<1> HIDE DEF n
<1>5. RequestOK(n)
  BY <1>4 DEF RequestOK, Answered
<1> QED BY <1>3, <1>4, <1>5 DEF n

LEMMA WalkedOK ==
  ASSUME Typed, NEW q0 \in Requests, InChain(q0), q0.since \subseteq confirmed, q0.seen \subseteq DOMAIN commits,
         NEW q, WalkedTo(q0, q)
  PROVE  q \in Requests /\ RequestOK(q) /\ q.status \in {0, 401, 403, 415}
<1>1. CASE \E status \in {401, 403, 415} : q = Refuse(q0, status)
  <2>1. PICK status \in {401, 403, 415} : q = Refuse(q0, status)
    BY <1>1
  <2>2. q0.role \in {"read", "write", "other"}
    BY DEF Requests
  <2> QED BY <2>1, <2>2, RefusedOK
<1>2. CASE q \in Requests /\ q.pc = "chain" /\ OnTheWay(q) /\ Held(q) /\ Same(q0, q)
  <2>1. q.status = 0 /\ q.tok = q0.tok /\ q.since = q0.since /\ q.seen = q0.seen /\ q.role = q0.role
    BY <1>2 DEF Same, InChain
  <2>2. Subject(q) = Subject(q0)
    BY <1>2 DEF Same, Subject, RouteOf
  <2>3. \A k \in q.tok : KeyOK(q, k)
    BY <2>1, <2>2 DEF InChain, KeyOK
  <2>4. InChain(q)
    BY <1>2, <2>1, <2>3 DEF InChain
  <2>5. ~Answered(q)
    BY <1>2 DEF Answered
  <2> QED BY <1>2, <2>1, <2>4, <2>5 DEF RequestOK
<1> QED BY <1>1, <1>2 DEF WalkedTo

\* What is known of a request that faces the cache or the limiter.
LEMMA AtTheGate ==
  ASSUME ServedOK, NEW q \in Requests, OnTheWay(q), NEW p \in Beyond, Faces(q, p)
  PROVE  /\ \A g \in Gates : Has(RouteOf(q), g) => Behind(q, g)
         /\ Entitled(q)
         /\ RouteOf(q).project => q.principal.proj = q.proj /\ q.proj \in Projects
         /\ Has(RouteOf(q), "AuthRequired") => q.principal.user = q.user
<1> DEFINE r == RouteOf(q)
<1>1. /\ q.role \in DOMAIN served /\ Accepted(r) /\ ChainOK(r)
      /\ q.at \in 1..9 /\ q.at <= Len(r.chain) /\ r.chain[q.at] = p
  BY DEF OnTheWay, ServedOK, ReadOK, WriteOK, RouteOf, Faces, Requests
<1>2. q.at \in DOMAIN r.chain /\ r.chain # <<>>
  BY <1>1 DEF ChainOK
<1>3. Ordering(r) /\ ProjectRules(r)
  BY <1>1, <1>2 DEF Accepted
<1>4. ASSUME NEW g \in Gates, Has(r, g)
      PROVE  Behind(q, g)
  BY <1>1, <1>2, <1>3, <1>4, GatesFirst DEF Behind
<1>5. Entitled(q)
  BY <1>4 DEF Entitled, OnTheWay, Gates
<1>6. r.project => q.principal.proj = q.proj /\ q.proj \in Projects
  BY <1>3, <1>4 DEF ProjectRules, OnTheWay, Gates
<1>7. Has(r, "AuthRequired") => q.principal.user = q.user
  BY <1>4 DEF OnTheWay, Gates
<1> QED BY <1>4, <1>5, <1>6, <1>7

\* What is known of a request that reached the handler.
LEMMA AtTheHandler ==
  ASSUME ServedOK, NEW q \in Requests, OnTheWay(q), q.at > Len(RouteOf(q).chain)
  PROVE  /\ Entitled(q)
         /\ Has(RouteOf(q), "AuthRequired") => q.principal.user = q.user
<1> DEFINE r == RouteOf(q)
<1>1. ChainOK(r) /\ q.at \in 1..9
  BY DEF OnTheWay, ServedOK, ReadOK, WriteOK, RouteOf, Requests
<1>2. ASSUME NEW p, Has(r, p)
      PROVE  Behind(q, p)
  <2>1. PICK m \in DOMAIN r.chain : r.chain[m] = p
    BY <1>2 DEF Has
  <2>2. m < q.at
    BY <1>1, <2>1 DEF ChainOK
  <2> QED BY <2>1, <2>2 DEF Behind
<1> QED BY <1>2 DEF Entitled, OnTheWay

\* The key of a lookup: it is about what the request is about, and its tags
\* have the versions of now.
LEMMA KeyIs ==
  ASSUME Typed, ServedOK, NEW q \in Requests, OnTheWay(q), Faces(q, "CacheRead")
  PROVE  /\ q.role = "read" /\ Entitled(q) /\ "read" \in DOMAIN served
         /\ Key(q) \in CacheKeys /\ KeyOK(q, Key(q))
         /\ ~Shared(served.read) =>
              /\ ScopeOf(Key(q)) = IF served.read.project THEN q.proj ELSE q.user
              /\ \A t \in ReadTags : Key(q).tags[t] = version[<<t, ScopeOf(Key(q))>>]
<1> DEFINE r == RouteOf(q)
           k == Key(q)
           c == Scope(r, q)
<1>1. /\ Entitled(q)
      /\ r.project => q.principal.proj = q.proj /\ q.proj \in Projects
      /\ Has(r, "AuthRequired") => q.principal.user = q.user
  BY AtTheGate DEF Beyond
<1>2. q.role = "read"
  <2>1. q.role \in {"read", "write", "other"} /\ q.role \in DOMAIN served
    BY DEF Requests, OnTheWay
  <2>2. CASE q.role # "read"
    <3>1. ChainOK(r) /\ ~Has(r, "CacheRead")
      BY <2>1, <2>2 DEF ServedOK, WriteOK, RouteOf
    <3>2. q.at \in DOMAIN r.chain /\ r.chain[q.at] = "CacheRead"
      BY <3>1 DEF ChainOK, Faces, Requests
    <3> QED BY <3>1, <3>2 DEF Has
  <2> QED BY <2>1, <2>2
<1>3. r = served.read /\ "read" \in DOMAIN served /\ ReadOK(r) /\ ReadTags = r.tags
  BY <1>2 DEF RouteOf, OnTheWay, ServedOK, ReadTags
<1>4. q.principal.user \in Users \cup {NoUser} /\ q.principal.proj \in Projects \cup {"none"} /\ q.item \in Items \cup {"none"}
  BY DEF Requests, Fields
<1>5. c \in Scopes
  BY <1>1, <1>4 DEF Scope, Scopes
<1>6. \A t \in ReadTags : version[<<t, c>>] \in Nat
  BY <1>5 DEF Typed
<1>7. k = [project |-> IF "project" \in r.vary THEN q.principal.proj ELSE "none",
           user    |-> IF "user" \in r.vary THEN q.principal.user ELSE "none",
           item    |-> IF "item" \in r.vary THEN q.item ELSE "none",
           tags    |-> [t \in ReadTags |-> version[<<t, c>>]]]
  BY <1>3 DEF Key, Token
<1>8. k \in CacheKeys
  <2> DEFINE tags == [t \in ReadTags |-> version[<<t, c>>]]
  <2>1. tags \in [ReadTags -> Nat]
    BY <1>6
  <2>2. (IF "user" \in r.vary THEN q.principal.user ELSE "none") \in Users \cup {NoUser, "none"}
    BY <1>4
  <2>3. (IF "project" \in r.vary THEN q.principal.proj ELSE "none") \in Projects \cup {"none"}
    BY <1>4
  <2>4. (IF "item" \in r.vary THEN q.item ELSE "none") \in Items \cup {"none"}
    BY <1>4
  <2>5. k.tags = tags /\ k = [project |-> IF "project" \in r.vary THEN q.principal.proj ELSE "none",
           user    |-> IF "user" \in r.vary THEN q.principal.user ELSE "none",
           item    |-> IF "item" \in r.vary THEN q.item ELSE "none",
           tags    |-> tags]
    BY <1>7
  <2> HIDE DEF tags, k
  <2> QED BY <2>1, <2>2, <2>3, <2>4, <2>5 DEF CacheKeys
<1>9. /\ k.project = IF "project" \in r.vary THEN q.principal.proj ELSE "none"
      /\ k.user    = IF "user" \in r.vary THEN q.principal.user ELSE "none"
      /\ k.item    = IF "item" \in r.vary THEN q.item ELSE "none"
      /\ \A t \in ReadTags : k.tags[t] = version[<<t, c>>]
  BY <1>7
<1> HIDE DEF k
<1>10. About(k) = Subject(q)
  <2>1. r.project => k.project = q.proj
    BY <1>1, <1>3, <1>9 DEF ReadOK
  <2>2. r.item => k.item = q.item
    BY <1>3, <1>9 DEF ReadOK
  <2>3. PerUser(r) => k.user = q.user
    BY <1>1, <1>3, <1>9 DEF ReadOK
  <2> HIDE DEF r
  <2> QED BY <1>3, <2>1, <2>2, <2>3 DEF About, Subject, r
<1>11. ASSUME ~Shared(r)
       PROVE  ScopeOf(k) = c /\ c = IF r.project THEN q.proj ELSE q.user
  <2>1. CASE r.project
    BY <1>1, <1>3, <1>9, <2>1 DEF ScopeOf, Scope, ReadOK
  <2>2. CASE ~r.project
    <3>1. PerUser(r)
      BY <1>11, <2>2 DEF PerUser
    <3>2. k.user = q.principal.user /\ q.principal.user = q.user
      BY <1>1, <1>3, <1>9, <3>1 DEF ReadOK
    <3> QED BY <1>3, <1>11, <2>2, <3>2 DEF ScopeOf, Scope
  <2> QED BY <2>1, <2>2
<1>12. Earlier(k)
  BY <1>3, <1>5, <1>6, <1>9, <1>11 DEF Earlier
<1> QED BY <1>1, <1>2, <1>3, <1>8, <1>9, <1>10, <1>11, <1>12 DEF KeyOK, k

\* A write that an answer would show is in the scope of the answer's versions.
LEMMA ScopesMeet ==
  ASSUME Told, NEW q, NEW n, Affects(commits[n], q)
  PROVE  ScopeOfWrite(n) = IF served.read.project THEN q.proj ELSE q.user
BY DEF Told, Meet, Affects, ScopeOfWrite

\* What is remembered of a request that got an answer.
LEMMA AnswerIs ==
  ASSUME NEW q \in Requests, NEW body \in Subjects \cup {"none"}, NEW seen \in SUBSET Nat
  PROVE  LET n == Answer(q, body, seen)
         IN  /\ n \in Requests /\ n.pc = "answered" /\ n.status = 200 /\ n.body = body /\ n.seen = seen
             /\ n.role = q.role /\ n.user = q.user /\ n.proj = q.proj /\ n.item = q.item
             /\ n.had = q.had /\ n.since = q.since
<1> DEFINE n == Answer(q, body, seen)
<1>1. n = [q EXCEPT !.pc = "answered", !.status = 200, !.body = body, !.seen = seen,
                    !.at = 1, !.principal = NoPrincipal, !.tok = {}]
  BY DEF Answer
<1>2. PICK who \in Fields : who = NoPrincipal
  BY DEF NoPrincipal, Fields
<1>3. PICK ok \in Statuses : ok = 200
  BY DEF Statuses
<1>5. PICK place \in 1..9 : place = 1
  OBVIOUS
<1>6. PICK no \in SUBSET CacheKeys : no = {}
  OBVIOUS
<1> HIDE DEF n
<1>4. n \in Requests
  <2>1. n = [q EXCEPT !.pc = "answered", !.status = ok, !.body = body, !.seen = seen,
                      !.at = place, !.principal = who, !.tok = no]
    BY <1>1, <1>2, <1>3, <1>5, <1>6
  <2> QED BY <2>1 DEF Requests
<1>7. /\ n.pc = "answered" /\ n.status = 200 /\ n.body = body /\ n.seen = seen
      /\ n.role = q.role /\ n.user = q.user /\ n.proj = q.proj /\ n.item = q.item
      /\ n.had = q.had /\ n.since = q.since
  BY <1>1 DEF Requests
<1> QED BY <1>4, <1>7 DEF n

LEMMA GivenOK ==
  ASSUME Typed, NEW q \in Requests, NEW body \in Subjects \cup {"none"}, NEW seen \in SUBSET Nat,
         Entitled(q), q.since \subseteq confirmed, seen \subseteq DOMAIN commits,
         q.role = "read" =>
           body = Subject(q) /\ (Told => \A n \in q.since : Affects(commits[n], q) => n \in seen)
  PROVE  Answer(q, body, seen) \in Requests /\ RequestOK(Answer(q, body, seen))
<1> DEFINE a == Answer(q, body, seen)
<1>1. /\ a \in Requests /\ a.pc = "answered" /\ a.status = 200 /\ a.body = body /\ a.seen = seen
      /\ a.role = q.role /\ a.user = q.user /\ a.proj = q.proj /\ a.item = q.item
      /\ a.had = q.had /\ a.since = q.since
  BY AnswerIs
<1> HIDE DEF a
<1>2. RouteOf(a) = RouteOf(q) /\ Subject(a) = Subject(q) /\ \A w : Affects(w, a) = Affects(w, q)
  BY <1>1 DEF RouteOf, Subject, Affects
<1>3. Entitled(a)
  BY <1>1, <1>2 DEF Entitled
<1>4. a.role = "read" => a.body = Subject(a) /\ (Told => SeesWrites(a))
  BY <1>1, <1>2 DEF SeesWrites
<1>5. Given(a)
  BY <1>3, <1>4, Zenon DEF Given
<1> QED BY <1>1, <1>5 DEF RequestOK, a

LEMMA SubjectIs ==
  ASSUME NEW q \in Requests
  PROVE  Subject(q) \in Subjects
<1>1. q.proj \in Projects \cup {"none"} /\ q.item \in Items \cup {"none"} /\ q.user \in Users \cup {NoUser}
  BY DEF Requests
<1> QED BY <1>1 DEF Subject, Subjects

-----------------------------------------------------------------------------
(* The steps                                                               *)

Commits == [user : Users \cup {NoUser}, proj : Projects \cup {"none"}]

\* What a step of one request has to leave true.
LEMMA StepKeeps ==
  ASSUME GatewayInv, Onward, NEW s \in Slots, NEW q \in Requests, RequestOK(q)',
         req' = [req EXCEPT ![s] = q],
         UNCHANGED mask, faults' \in Nat, version' \in [ReadTags \X Scopes -> Nat],
         answers' \subseteq Entries, AnswersOK', commits' \in Seq(Commits), confirmed' \subseteq DOMAIN commits',
         count' \in [Identities -> Nat], passed' \in [Identities -> Nat], LimiterOK'
  PROVE  GatewayInv'
<1>0. Typed /\ RequestsOK /\ served' = served
  BY DEF GatewayInv, Onward
<1>1. RequestsOK' /\ req' \in [Slots -> Requests']
  BY <1>0, OthersStay
<1>2. /\ ReadTags' = ReadTags /\ Perms' = Perms /\ Identities' = Identities /\ Entries' = Entries
  BY <1>0, SameRoutes
<1>3. served' \in Candidates /\ MaskTyped'
  BY <1>0, <1>2 DEF Typed, MaskTyped
<1>4. Typed'
  BY <1>1, <1>2, <1>3 DEF Typed, Commits
<1> QED BY <1>1, <1>4 DEF GatewayInv

\* The same for a request that is right before the step changes the rest.
LEMMA StepOK ==
  ASSUME GatewayInv, Onward, NEW s \in Slots, NEW q \in Requests, RequestOK(q),
         req' = [req EXCEPT ![s] = q],
         UNCHANGED mask, faults' \in Nat, version' \in [ReadTags \X Scopes -> Nat],
         answers' \subseteq Entries, AnswersOK', commits' \in Seq(Commits), confirmed' \subseteq DOMAIN commits',
         count' \in [Identities -> Nat], passed' \in [Identities -> Nat], LimiterOK'
  PROVE  GatewayInv'
<1>1. RequestOK(q)'
  BY RequestStays DEF GatewayInv
<1> QED BY <1>1, StepKeeps

\* A step of one request that changes neither data nor answers.
LEMMA CalmStep ==
  ASSUME GatewayInv, NEW s \in Slots, NEW q \in Requests, RequestOK(q), req' = [req EXCEPT ![s] = q],
         UNCHANGED <<served, mask, version, answers, commits, confirmed>>, faults' \in Nat,
         count' \in [Identities -> Nat], passed' \in [Identities -> Nat], LimiterOK'
  PROVE  GatewayInv'
<1>0. Typed /\ AnswersOK
  BY DEF GatewayInv
<1>1. Onward
  BY <1>0, NothingOnward
<1>3. AnswersOK'
  <2>1. answers' \subseteq Entries /\ \A e \in answers' : EntryOK(e)
    BY <1>0 DEF AnswersOK, Typed
  <2> QED BY <1>0, <1>1, <2>1, AnswersKept
<1>4. /\ version' \in [ReadTags \X Scopes -> Nat] /\ answers' \subseteq Entries
      /\ commits' \in Seq(Commits) /\ confirmed' \subseteq DOMAIN commits'
  BY <1>0 DEF Typed, Commits
<1> QED BY <1>1, <1>3, <1>4, StepOK

LEMMA CountersStay ==
  ASSUME GatewayInv, UNCHANGED <<served, count, passed>>
  PROVE  count' \in [Identities -> Nat] /\ passed' \in [Identities -> Nat] /\ LimiterOK'
<1>1. Identities' = Identities
  BY SameRoutes
<1> QED BY <1>1 DEF GatewayInv, Typed, LimiterOK

\* A request that goes on and walks up to the next policy that looks beyond it.
LEMMA WalkOf ==
  ASSUME Typed, NEW q0 \in Requests, InChain(q0), q0.since \subseteq confirmed, q0.seen \subseteq DOMAIN commits,
         NEW q, WalkedTo(q0, q)
  PROVE  Walk(q) \in Requests /\ RequestOK(Walk(q)) /\ Walk(q).status \in {0, 401, 403, 415}
<1>1. ServedOK /\ MaskTyped
  BY ServedIs DEF Typed
<1>2. WalkedTo(q0, Walk(q))
  BY <1>1, WalkKeeps
<1> DEFINE n == Walk(q)
<1> HIDE DEF n
<1>3. WalkedTo(q0, n)
  BY <1>2 DEF n
<1> QED BY <1>3, WalkedOK DEF n

LEMMA WalkOfRefused ==
  ASSUME NEW q, q.pc # "chain"
  PROVE  Walk(q) = q
<1>1. Local(q) = q
  BY DEF Local, Faces
<1> QED BY <1>1 DEF Walk, FourFurther, TwoFurther

LEMMA PassOn ==
  ASSUME ServedOK, NEW q \in Requests, q.pc = "chain", InChain(q), NEW p \in Beyond, Faces(q, p)
  PROVE  WalkedTo(q, Pass(q, q.principal))
<1>1. /\ OnTheWay(q) /\ Held(q) /\ Same(q, q) /\ q.principal \in Fields
      /\ q.at <= Len(RouteOf(q).chain) /\ RouteOf(q).chain[q.at] = p
  BY DEF InChain, Same, Requests, Faces
<1>2. /\ Behind(q, "AuthRequired") => q.user # NoUser /\ q.principal.user = q.user
      /\ Behind(q, "ProjectRequired") => q.principal.proj = q.proj
      /\ \A x \in q.principal.perms : x \in q.had
  BY <1>1 DEF OnTheWay
<1>3. p \notin Gates
  BY DEF Beyond, Gates
<1> QED BY <1>1, <1>2, <1>3, PassKeeps DEF Gates

\* What is known of a request in its chain.
LEMMA ChainRequest ==
  ASSUME GatewayInv, NEW s \in Slots, req[s].pc = "chain"
  PROVE  /\ req[s] \in Requests /\ InChain(req[s]) /\ OnTheWay(req[s]) /\ RequestOK(req[s]) /\ ServedOK
         /\ req[s].since \subseteq confirmed /\ req[s].seen \subseteq DOMAIN commits
BY ServedIs, Zenon DEF GatewayInv, Typed, RequestsOK, RequestOK, InChain

LEMMA StartKeeps ==
  ASSUME GatewayInv, NEW s \in Slots, Start(s)
  PROVE  GatewayInv'
<1>0. Typed /\ ServedOK /\ MaskTyped
  BY ServedIs DEF GatewayInv, Typed
<1>1. PICK role \in DOMAIN served, u \in Users \cup {NoUser}, json \in BOOLEAN :
        \E p \in IF role # "read" \/ served[role].project THEN Projects ELSE {"none"},
           i \in IF served[role].item THEN Items ELSE {"none"} : Become(s, Asked(role, u, p, i, json))
  BY DEF Start
<1>2. PICK p \in IF role # "read" \/ served[role].project THEN Projects ELSE {"none"},
           i \in IF served[role].item THEN Items ELSE {"none"} : Become(s, Asked(role, u, p, i, json))
  BY <1>1
<1> DEFINE r == served[role]
           had == IF u \in Users /\ p \in Projects THEN mask[u][p] ELSE NotMember
           q == Asked(role, u, p, i, json)
<1>3. /\ p \in Projects \cup {"none"} /\ i \in Items \cup {"none"} /\ role \in {"read", "write", "other"}
      /\ had \in (SUBSET Perms) \cup {NotMember}
      /\ r.project => p \in Projects
  <2>1. had \in (SUBSET Perms) \cup {NotMember}
    BY <1>0 DEF MaskTyped
  <2>2. role \in {"read", "write", "other"}
    BY <1>0 DEF ServedOK
  <2> QED BY <2>1, <2>2
<1>4. confirmed \in SUBSET Nat
  BY <1>0 DEF Typed
<1>5. /\ q.pc = "chain" /\ q.role = role /\ q.user = u /\ q.proj = p /\ q.item = i /\ q.had = had
      /\ q.since = confirmed /\ q.tok = {} /\ q.seen = {} /\ q.status = 0 /\ q.at = 1 /\ q.principal = NoPrincipal
  BY DEF Idle, Asked
<1>6. q \in Requests
  <2>1. PICK i0 \in Requests : i0 = Idle
    BY IdleIs
  <2>2. q = [i0 EXCEPT !.pc = "chain", !.role = role, !.user = u, !.proj = p, !.item = i,
                       !.json = json, !.had = had, !.since = confirmed]
    BY <2>1 DEF Asked
  <2>3. /\ "chain" \in Phases /\ role \in Roles /\ u \in Askers /\ p \in Places /\ i \in Parts
        /\ had \in Masks /\ confirmed \in Numbers
    BY <1>3, <1>4, Zenon DEF Phases, Roles, Askers, Places, Parts, Masks, Numbers
  <2> HIDE DEF q, had
  <2> QED BY <2>2, <2>3, RequestsAre
<1>7. Become(s, q)
  BY <1>2
<1> HIDE DEF q
<1>8. RouteOf(q) = r /\ ChainOK(r)
  BY <1>0, <1>3, <1>5 DEF RouteOf, ServedOK, ReadOK, WriteOK
<1>9. InChain(q)
  <2>1. Held(q)
    BY <1>0, <1>5 DEF Held, MaskTyped
  <2>2. \A g : ~Behind(q, g)
    BY <1>5, <1>8 DEF Behind, ChainOK
  <2>3. q.at <= Len(r.chain) + 1
    BY <1>5, <1>8 DEF ChainOK
  <2>4. OnTheWay(q)
    BY <1>3, <1>5, <1>8, <2>2, <2>3 DEF OnTheWay, NoPrincipal
  <2> QED BY <1>5, <2>1, <2>4 DEF InChain
<1>10. WalkedTo(q, q)
  BY <1>5, <1>6, <1>9 DEF WalkedTo, InChain, Same
<1>11. Walk(q) \in Requests /\ RequestOK(Walk(q))
  <2>1. q.since \subseteq confirmed /\ q.seen \subseteq DOMAIN commits
    BY <1>5
  <2> QED BY <1>0, <1>6, <1>9, <1>10, <2>1, WalkOf
<1>12. UNCHANGED <<served, mask, version, answers, commits, confirmed, faults, count, passed>>
  BY DEF Start, Shared1
<1>13. faults' \in Nat
  BY <1>0, <1>12 DEF Typed
<1>14. req' = [req EXCEPT ![s] = Walk(q)]
  BY <1>7 DEF Become
<1> QED BY <1>11, <1>12, <1>13, <1>14, CountersStay, CalmStep

\* Who the limiter counts is who the request is made for.
LEMMA BucketIs ==
  ASSUME ServedOK, NEW q \in Requests, OnTheWay(q), Faces(q, "RateLimit")
  PROVE  Bucket(q) = Identity(q) /\ Identity(q) \in Identities
<1> DEFINE r == RouteOf(q)
<1>1. /\ r.project => q.principal.proj = q.proj /\ q.proj \in Projects
      /\ Has(r, "AuthRequired") => q.principal.user = q.user
  BY AtTheGate DEF Beyond
<1>2. q.role \in DOMAIN served /\ q.role \in {"read", "write", "other"} /\ q.user \in Users \cup {NoUser}
  BY DEF OnTheWay, Requests
<1>3. ~r.project => Has(r, "AuthRequired")
  <2>1. CASE q.role # "read"
    BY <1>2, <2>1 DEF ServedOK, WriteOK, RouteOf
  <2>2. CASE q.role = "read"
    <3>1. ReadOK(r)
      BY <1>2, <2>2 DEF ServedOK, RouteOf
    <3>2. q.at \in DOMAIN r.chain /\ r.chain[q.at] = "RateLimit"
      BY <3>1 DEF ReadOK, ChainOK, Faces, Requests
    <3>3. Has(r, "RateLimit")
      BY <3>2 DEF Has
    <3> QED BY <3>1, <3>3 DEF ReadOK
  <2> QED BY <1>2, <2>1, <2>2
<1>4. Bucket(q) = Identity(q)
  BY <1>1, <1>3 DEF Bucket, Identity
<1>5. Identity(q) \in Identities
  <2>1. Identity(q) \in {Path(served[q.role])} \X (IF served[q.role].project THEN Projects ELSE Users \cup {NoUser})
    BY <1>1, <1>2 DEF Identity, RouteOf
  <2> QED BY <1>2, <2>1 DEF Identities
<1> QED BY <1>4, <1>5

\* Counting one more request of an identity.
CountsOneMore(k) ==
  /\ count' = [count EXCEPT ![k] = count[k] + 1]
  /\ passed' = [passed EXCEPT ![k] = passed[k] + 1]

LEMMA OneNumber ==
  ASSUME NEW m \in Nat, NEW n \in Nat, NEW l \in Nat, n <= m, m <= n \/ l <= n
  PROVE  n + 1 <= m + 1 /\ (m + 1 <= n + 1 \/ l <= n + 1)
OBVIOUS

LEMMA OneMoreKeeps ==
  ASSUME GatewayInv, served' = served, NEW k \in Identities, CountsOneMore(k)
  PROVE  count' \in [Identities -> Nat] /\ passed' \in [Identities -> Nat] /\ LimiterOK'
<1>0. /\ count \in [Identities -> Nat] /\ passed \in [Identities -> Nat] /\ LimiterOK /\ Limit \in Nat
      /\ Identities' = Identities
  BY SameRoutes, GatewayAssumption DEF GatewayInv, Typed
<1>1. count' \in [Identities -> Nat] /\ passed' \in [Identities -> Nat]
  BY <1>0 DEF CountsOneMore
<1>2. ASSUME NEW i \in Identities
      PROVE  passed'[i] <= count'[i] /\ (count'[i] <= passed'[i] \/ Limit <= passed'[i])
  <2>1. /\ count[i] \in Nat /\ passed[i] \in Nat
        /\ passed[i] <= count[i] /\ (count[i] <= passed[i] \/ Limit <= passed[i])
    BY <1>0 DEF LimiterOK
  <2>2. CASE i = k
    <3>1. count'[i] = count[i] + 1 /\ passed'[i] = passed[i] + 1
      BY <1>0, <2>2 DEF CountsOneMore
    <3> QED BY <1>0, <2>1, <3>1, OneNumber
  <2>3. CASE i # k
    <3>1. count'[i] = count[i] /\ passed'[i] = passed[i]
      BY <1>0, <2>3 DEF CountsOneMore
    <3> QED BY <2>1, <3>1
  <2> QED BY <2>2, <2>3
<1> QED BY <1>0, <1>1, <1>2 DEF LimiterOK

\* What the limiter does to one identity: its window may be over, the request is
\* counted, and let through up to the limit.
Counted1(k, ended) ==
  LET n == (IF ended THEN 0 ELSE count[k]) + 1
  IN /\ ended => count[k] > 0
     /\ count' = [count EXCEPT ![k] = n]
     /\ n <= Limit => passed' = [passed EXCEPT ![k] = IF ended THEN 1 ELSE @ + 1]
     /\ ~(n <= Limit) => passed' = passed

LEMMA LimiterNumbers ==
  ASSUME NEW m \in Nat, NEW n \in Nat, NEW l \in Nat \ {0}, NEW ended \in BOOLEAN,
         n <= m, m <= n \/ l <= n,
         NEW m1, m1 = (IF ended THEN 0 ELSE m) + 1,
         NEW n1, n1 = IF m1 <= l THEN (IF ended THEN 1 ELSE n + 1) ELSE n
  PROVE  /\ m1 \in Nat /\ n1 \in Nat /\ n1 <= m1 /\ (m1 <= n1 \/ l <= n1)
         /\ ~(m1 <= l) => l <= n
         /\ n1 > l => n1 = n
OBVIOUS

LEMMA CountedKeeps ==
  ASSUME GatewayInv, served' = served, NEW k \in Identities, NEW ended \in BOOLEAN, Counted1(k, ended)
  PROVE  /\ count' \in [Identities -> Nat] /\ passed' \in [Identities -> Nat] /\ LimiterOK'
         /\ ~((IF ended THEN 0 ELSE count[k]) + 1 <= Limit) => Limit <= passed[k]
         /\ passed'[k] > Limit => passed'[k] = passed[k]
<1> DEFINE n == (IF ended THEN 0 ELSE count[k]) + 1
           p == IF n <= Limit THEN (IF ended THEN 1 ELSE passed[k] + 1) ELSE passed[k]
<1>0. /\ count \in [Identities -> Nat] /\ passed \in [Identities -> Nat] /\ LimiterOK /\ Limit \in Nat \ {0}
      /\ Identities' = Identities
  BY SameRoutes, GatewayAssumption DEF GatewayInv, Typed
<1>1. /\ count[k] \in Nat /\ passed[k] \in Nat
      /\ passed[k] <= count[k] /\ (count[k] <= passed[k] \/ Limit <= passed[k])
  BY <1>0 DEF LimiterOK
<1>2. /\ n \in Nat /\ p \in Nat /\ p <= n /\ (n <= p \/ Limit <= p)
      /\ ~(n <= Limit) => Limit <= passed[k]
      /\ p > Limit => p = passed[k]
  BY <1>0, <1>1, LimiterNumbers
<1>3. count' = [count EXCEPT ![k] = n] /\ passed' = [passed EXCEPT ![k] = p]
  <2>1. CASE n <= Limit
    BY <1>0, <2>1 DEF Counted1
  <2>2. CASE ~(n <= Limit)
    <3>1. passed' = passed /\ p = passed[k]
      BY <2>2 DEF Counted1
    <3>2. passed = [passed EXCEPT ![k] = passed[k]]
      BY <1>0
    <3> QED BY <3>1, <3>2 DEF Counted1
  <2> QED BY <2>1, <2>2
<1> HIDE DEF n, p
<1>4. count' \in [Identities -> Nat] /\ passed' \in [Identities -> Nat]
  BY <1>0, <1>2, <1>3
<1>5. count'[k] = n /\ passed'[k] = p
  BY <1>0, <1>3
<1>6. ASSUME NEW i \in Identities
      PROVE  passed'[i] <= count'[i] /\ (count'[i] <= passed'[i] \/ Limit <= passed'[i])
  <2>2. CASE i = k
    BY <1>2, <1>5, <2>2
  <2>3. CASE i # k
    <3>1. count'[i] = count[i] /\ passed'[i] = passed[i]
      BY <1>0, <1>3, <2>3
    <3> QED BY <1>0, <3>1 DEF LimiterOK
  <2> QED BY <2>2, <2>3
<1>7. LimiterOK'
  BY <1>0, <1>6 DEF LimiterOK
<1> QED BY <1>2, <1>4, <1>5, <1>7 DEF n

LEMMA RateLimitKeeps ==
  ASSUME GatewayInv, NEW s \in Slots, RateLimit(s)
  PROVE  /\ GatewayInv'
         /\ LET k == Identity(req[s])
            IN  /\ req'[s].status = 429 => Limit <= passed[k]
                /\ passed'[k] > Limit => passed'[k] = passed[k]
<1> DEFINE q == req[s]
           k == Identity(q)
<1>1. Faces(q, "RateLimit") /\ q.pc = "chain"
  BY DEF RateLimit, Faces
<1>2. /\ q \in Requests /\ InChain(q) /\ OnTheWay(q) /\ RequestOK(q) /\ ServedOK
      /\ q.since \subseteq confirmed /\ q.seen \subseteq DOMAIN commits
  BY <1>1, ChainRequest
<1>3. Bucket(q) = k /\ k \in Identities
  BY <1>1, <1>2, BucketIs
<1>4. PICK ended \in BOOLEAN :
        LET n == (IF ended THEN 0 ELSE count[k]) + 1
        IN /\ ended => count[k] > 0
           /\ count' = [count EXCEPT ![k] = n]
           /\ IF n <= Limit
              THEN /\ Become(s, Pass(q, q.principal))
                   /\ passed' = [passed EXCEPT ![k] = IF ended THEN 1 ELSE @ + 1]
              ELSE Become(s, Refuse(q, 429)) /\ UNCHANGED passed
  BY <1>3 DEF RateLimit
<1> DEFINE n == (IF ended THEN 0 ELSE count[k]) + 1
<1>5. Counted1(k, ended)
  BY <1>4 DEF Counted1
<1>6. UNCHANGED <<served, mask, version, answers, commits, confirmed, faults>>
  BY DEF RateLimit, Fixed
<1>7. /\ count' \in [Identities -> Nat] /\ passed' \in [Identities -> Nat] /\ LimiterOK'
      /\ ~(n <= Limit) => Limit <= passed[k]
      /\ passed'[k] > Limit => passed'[k] = passed[k]
  BY <1>3, <1>5, <1>6, CountedKeeps
<1> DEFINE m == IF n <= Limit THEN Walk(Pass(q, q.principal)) ELSE Refuse(q, 429)
<1>8. /\ m \in Requests /\ RequestOK(m) /\ req' = [req EXCEPT ![s] = m]
      /\ m.status = 429 => ~(n <= Limit)
  <2>1. CASE n <= Limit
    <3>0. m = Walk(Pass(q, q.principal))
      BY <2>1
    <3> HIDE DEF m, n
    <3>1. req' = [req EXCEPT ![s] = m]
      BY <1>4, <2>1, <3>0 DEF Become, n
    <3>2. WalkedTo(q, Pass(q, q.principal))
      BY <1>1, <1>2, PassOn DEF Beyond
    <3>3. m \in Requests /\ RequestOK(m) /\ m.status \in {0, 401, 403, 415}
      BY <1>2, <3>0, <3>2, WalkOf DEF GatewayInv
    <3>4. m.status # 429
      BY <3>3
    <3> QED BY <3>1, <3>3, <3>4
  <2>2. CASE ~(n <= Limit)
    <3>0. m = Refuse(q, 429)
      BY <2>2
    <3> HIDE DEF m, n
    <3>1. req' = [req EXCEPT ![s] = Walk(m)]
      BY <1>4, <2>2, <3>0 DEF Become, n
    <3>2. m \in Requests /\ RequestOK(m) /\ m.pc = "answered"
      <4>1. q.role \in {"read", "write", "other"} /\ 429 \in {401, 403, 415, 429, 500, 503}
        BY <1>2 DEF Requests
      <4> QED BY <3>0, <4>1, RefusedOK
    <3>3. Walk(m) = m
      BY <3>2, WalkOfRefused
    <3> QED BY <2>2, <3>1, <3>2, <3>3
  <2> QED BY <2>1, <2>2
<1> HIDE DEF m
<1>9. GatewayInv'
  <2>1. faults' \in Nat
    BY <1>6 DEF GatewayInv, Typed
  <2> QED BY <1>6, <1>7, <1>8, <2>1, CalmStep
<1>10. req'[s] = m
  BY <1>8 DEF GatewayInv, Typed
<1> QED BY <1>7, <1>8, <1>9, <1>10

LEMMA RateLimitFailsKeeps ==
  ASSUME GatewayInv, NEW s \in Slots, RateLimitFails(s)
  PROVE  GatewayInv' /\ faults' > faults /\ req'[s].status # 429
<1> DEFINE q == req[s]
           k == Identity(q)
<1>1. Faces(q, "RateLimit") /\ q.pc = "chain"
  BY DEF RateLimitFails, Faces
<1>2. /\ q \in Requests /\ InChain(q) /\ OnTheWay(q) /\ RequestOK(q) /\ ServedOK
      /\ q.since \subseteq confirmed /\ q.seen \subseteq DOMAIN commits
  BY <1>1, ChainRequest
<1>3. Bucket(q) = k /\ k \in Identities
  BY <1>1, <1>2, BucketIs
<1>4. /\ UNCHANGED <<served, mask, version, answers, commits, confirmed>>
      /\ faults \in Nat /\ faults' = faults + 1
  BY DEF RateLimitFails, Fixed, Fault, GatewayInv, Typed
<1>5. count' \in [Identities -> Nat] /\ passed' \in [Identities -> Nat] /\ LimiterOK'
  <2>1. CASE UNCHANGED <<count, passed>>
    BY <1>4, <2>1, CountersStay
  <2>2. CASE ~UNCHANGED <<count, passed>>
    <3>1. CountsOneMore(k)
      BY <1>3, <2>2 DEF RateLimitFails, CountsOneMore
    <3> QED BY <1>3, <1>4, <3>1, OneMoreKeeps
  <2> QED BY <2>1, <2>2
<1> DEFINE m == IF LimiterFailOpen THEN Walk(Pass(q, q.principal)) ELSE Refuse(q, 503)
<1>6. m \in Requests /\ RequestOK(m) /\ req' = [req EXCEPT ![s] = m] /\ m.status # 429
  <2>1. CASE LimiterFailOpen
    <3>0. m = Walk(Pass(q, q.principal))
      BY <2>1
    <3> HIDE DEF m
    <3>1. req' = [req EXCEPT ![s] = m]
      BY <2>1, <3>0 DEF Become, RateLimitFails
    <3>2. WalkedTo(q, Pass(q, q.principal))
      BY <1>1, <1>2, PassOn DEF Beyond
    <3>3. m \in Requests /\ RequestOK(m) /\ m.status \in {0, 401, 403, 415}
      BY <1>2, <3>0, <3>2, WalkOf DEF GatewayInv
    <3> QED BY <3>1, <3>3
  <2>2. CASE ~LimiterFailOpen
    <3>0. m = Refuse(q, 503)
      BY <2>2
    <3> HIDE DEF m
    <3>1. req' = [req EXCEPT ![s] = Walk(m)]
      BY <2>2, <3>0 DEF Become, RateLimitFails
    <3>2. m \in Requests /\ RequestOK(m) /\ m.pc = "answered" /\ m.status = 503
      <4>1. q.role \in {"read", "write", "other"} /\ 503 \in {401, 403, 415, 429, 500, 503}
        BY <1>2 DEF Requests
      <4> QED BY <3>0, <4>1, RefusedOK
    <3>3. Walk(m) = m
      BY <3>2, WalkOfRefused
    <3> QED BY <3>1, <3>2, <3>3
  <2> QED BY <2>1, <2>2
<1> HIDE DEF m
<1>7. faults' \in Nat /\ faults' > faults
  BY <1>4
<1>8. GatewayInv'
  BY <1>4, <1>5, <1>6, <1>7, CalmStep
<1>9. req'[s] = m
  BY <1>6 DEF GatewayInv, Typed
<1> QED BY <1>6, <1>7, <1>8, <1>9

\* An answer out of the cache is about the request, and shows what was confirmed.
LEMMA HitOK ==
  ASSUME GatewayInv, NEW q \in Requests, q.pc = "chain", RequestOK(q), Faces(q, "CacheRead"),
         NEW e \in answers, e.key = Key(q)
  PROVE  Answer(q, e.body, e.seen) \in Requests /\ RequestOK(Answer(q, e.body, e.seen))
<1>0. Typed /\ ServedOK /\ OnTheWay(q) /\ q.since \subseteq confirmed
  BY ServedIs DEF GatewayInv, Typed, RequestOK, InChain
<1> DEFINE k == Key(q)
<1>1. /\ q.role = "read" /\ Entitled(q) /\ "read" \in DOMAIN served
      /\ k \in CacheKeys /\ KeyOK(q, k)
      /\ ~Shared(served.read) =>
           /\ ScopeOf(k) = IF served.read.project THEN q.proj ELSE q.user
           /\ \A t \in ReadTags : k.tags[t] = version[<<t, ScopeOf(k)>>]
  BY <1>0, KeyIs
<1> HIDE DEF k
<1>2. EntryOK(e) /\ e \in Entries /\ e.key = k
  BY <1>0 DEF GatewayInv, AnswersOK, Typed, k
<1>3. e.body = Subject(q) /\ e.body \in Subjects \cup {"none"} /\ e.seen \in SUBSET Nat
  BY <1>1, <1>2 DEF EntryOK, KeyOK, Entries
<1>4. ASSUME Told, NEW n \in q.since, Affects(commits[n], q), n \notin e.seen
      PROVE  FALSE
  <2>1. ~Shared(served.read) /\ n \in confirmed
    BY <1>0, <1>4 DEF Told, Meet
  <2>2. PICK t \in ReadTags \cap served.write.tags : TRUE
    BY <1>1, <1>4 DEF Told, Meet, ReadTags
  <2>3. ScopeOfWrite(n) = ScopeOf(k)
    BY <1>1, <1>4, <2>1, ScopesMeet
  <2>4. k.tags[t] < version[<<t, ScopeOf(k)>>]
    BY <1>2, <1>4, <2>1, <2>2, <2>3 DEF EntryOK
  <2>5. k.tags[t] = version[<<t, ScopeOf(k)>>] /\ k.tags[t] \in Nat
    BY <1>1, <2>1, <2>2 DEF CacheKeys
  <2> QED BY <2>4, <2>5
<1>5. e.seen \subseteq DOMAIN commits
  BY <1>2 DEF EntryOK
<1> QED BY <1>0, <1>1, <1>3, <1>4, <1>5, GivenOK

LEMMA CacheReadKeeps ==
  ASSUME GatewayInv, NEW s \in Slots, CacheRead(s)
  PROVE  GatewayInv'
<1> DEFINE q == req[s]
<1>1. Faces(q, "CacheRead") /\ q.pc = "chain"
  BY DEF CacheRead, Faces
<1>2. /\ q \in Requests /\ InChain(q) /\ OnTheWay(q) /\ RequestOK(q) /\ ServedOK /\ Typed
      /\ q.since \subseteq confirmed /\ q.seen \subseteq DOMAIN commits
  BY <1>1, ChainRequest DEF GatewayInv
<1>3. UNCHANGED <<served, mask, version, answers, commits, confirmed, faults, count, passed>>
  BY DEF CacheRead, Fixed, Shared1
<1>4. count' \in [Identities -> Nat] /\ passed' \in [Identities -> Nat] /\ LimiterOK' /\ faults' \in Nat
  BY <1>2, <1>3, CountersStay DEF Typed
<1>5. CASE \E e \in answers : e.key = Key(q) /\ req' = [req EXCEPT ![s] = Answer(q, e.body, e.seen)]
  <2>1. PICK e \in answers : e.key = Key(q) /\ req' = [req EXCEPT ![s] = Answer(q, e.body, e.seen)]
    BY <1>5
  <2>2. Answer(q, e.body, e.seen) \in Requests /\ RequestOK(Answer(q, e.body, e.seen))
    BY <1>1, <1>2, <2>1, HitOK
  <2> QED BY <1>3, <1>4, <2>1, <2>2, CalmStep
<1>6. CASE Become(s, [q EXCEPT !.at = @ + 1, !.tok = {Key(q)}])
  <2> DEFINE k == Key(q)
             a == [q EXCEPT !.tok = {k}]
  <2>1. k \in CacheKeys /\ KeyOK(q, k) /\ q.role = "read"
    BY <1>1, <1>2, KeyIs
  <2> HIDE DEF k
  <2>2. a \in Requests
    <3>1. PICK no \in Tokens : no = {k}
      BY <2>1 DEF Tokens
    <3>2. a = [q EXCEPT !.tok = no]
      BY <3>1
    <3> HIDE DEF a
    <3> QED BY <1>2, <3>2, RequestsAre
  <2>3. /\ a.pc = "chain" /\ a.role = q.role /\ a.user = q.user /\ a.proj = q.proj /\ a.item = q.item
        /\ a.at = q.at /\ a.principal = q.principal /\ a.tok = {k} /\ a.seen = q.seen /\ a.status = q.status
        /\ a.had = q.had /\ a.since = q.since
    BY <1>1, <1>2 DEF Requests
  <2>4. [q EXCEPT !.at = @ + 1, !.tok = {k}] = Pass(a, a.principal)
    BY <1>2, RequestsAre DEF Pass
  <2> HIDE DEF a
  <2>5. RouteOf(a) = RouteOf(q) /\ Subject(a) = Subject(q)
    BY <2>3 DEF RouteOf, Subject
  <2>6. Faces(a, "CacheRead")
    BY <1>1, <2>3, <2>5 DEF Faces
  <2>7. InChain(a)
    <3>1. OnTheWay(a)
      BY <1>2, <2>3, <2>5 DEF OnTheWay, Behind
    <3>2. Held(a) /\ a.status = 0
      BY <1>2, <2>3 DEF InChain, Held
    <3>3. \A x \in a.tok : KeyOK(a, x)
      BY <2>1, <2>3, <2>5 DEF KeyOK
    <3> QED BY <2>1, <2>3, <3>1, <3>2, <3>3 DEF InChain
  <2>8. WalkedTo(a, Pass(a, a.principal))
    BY <1>2, <2>2, <2>3, <2>6, <2>7, PassOn DEF Beyond
  <2> DEFINE m == Walk(Pass(a, a.principal))
  <2>9. m \in Requests /\ RequestOK(m)
    BY <1>2, <2>2, <2>3, <2>7, <2>8, WalkOf
  <2>10. req' = [req EXCEPT ![s] = m]
    BY <1>6, <2>4 DEF Become, k
  <2> HIDE DEF m
  <2> QED BY <1>3, <1>4, <2>9, <2>10, CalmStep
<1>7. \/ \E e \in answers : e.key = Key(q) /\ req' = [req EXCEPT ![s] = Answer(q, e.body, e.seen)]
      \/ Become(s, [q EXCEPT !.at = @ + 1, !.tok = {Key(q)}])
  BY DEF CacheRead
<1> QED BY <1>5, <1>6, <1>7

LEMMA HandlerRequest ==
  ASSUME GatewayInv, NEW s \in Slots, AtHandler(s)
  PROVE  /\ req[s] \in Requests /\ InChain(req[s]) /\ RequestOK(req[s]) /\ ServedOK /\ Entitled(req[s])
         /\ Has(RouteOf(req[s]), "AuthRequired") => req[s].principal.user = req[s].user
         /\ req[s].since \subseteq confirmed /\ req[s].role \in DOMAIN served
BY ChainRequest, AtTheHandler DEF AtHandler, OnTheWay

\* A handler that fails leaves everything else as it is.
LEMMA FailureKeeps ==
  ASSUME GatewayInv, NEW s \in Slots, AtHandler(s), req' = [req EXCEPT ![s] = Refuse(req[s], 500)],
         UNCHANGED <<served, mask, version, answers, commits, confirmed, faults, count, passed>>
  PROVE  GatewayInv'
<1>1. req[s] \in Requests
  BY HandlerRequest
<1>2. Refuse(req[s], 500) \in Requests /\ RequestOK(Refuse(req[s], 500))
  <2>1. req[s].role \in {"read", "write", "other"} /\ 500 \in {401, 403, 415, 429, 500, 503}
    BY <1>1 DEF Requests
  <2> QED BY <2>1, RefusedOK
<1>3. count' \in [Identities -> Nat] /\ passed' \in [Identities -> Nat] /\ LimiterOK' /\ faults' \in Nat
  BY CountersStay DEF GatewayInv, Typed
<1> QED BY <1>2, <1>3, CalmStep

LEMMA HandleReadKeeps ==
  ASSUME GatewayInv, NEW s \in Slots, HandleRead(s)
  PROVE  GatewayInv'
<1> DEFINE q == req[s]
<1>1. AtHandler(s) /\ q.role = "read"
  BY DEF HandleRead
<1>2. /\ q \in Requests /\ InChain(q) /\ RequestOK(q) /\ ServedOK /\ Entitled(q)
      /\ q.since \subseteq confirmed /\ "read" \in DOMAIN served /\ Typed /\ AnswersOK
  BY <1>1, HandlerRequest DEF GatewayInv
<1>3. UNCHANGED <<served, mask, version, commits, confirmed, faults, count, passed>>
  BY DEF HandleRead, Fixed
<1>4. CASE req' = [req EXCEPT ![s] = Refuse(req[s], 500)] /\ UNCHANGED answers
  BY <1>1, <1>3, <1>4, FailureKeeps
<1>5. CASE /\ req' = [req EXCEPT ![s] = Answer(q, Subject(q), DOMAIN commits)]
           /\ answers' = answers \cup {[key |-> k, body |-> Subject(q), seen |-> DOMAIN commits] : k \in q.tok}
  <2> DEFINE body == Subject(q)
             seen == DOMAIN commits
  <2>1. body \in Subjects /\ seen \in SUBSET Nat /\ confirmed \subseteq seen
    BY <1>2, SubjectIs DEF Typed
  <2>2. Onward
    BY <1>2, <1>3, NothingOnward
  <2>3. Answer(q, body, seen) \in Requests /\ RequestOK(Answer(q, body, seen))
    <3>1. \A n \in q.since : n \in seen
      BY <1>2, <2>1
    <3> HIDE DEF seen
    <3> QED BY <1>2, <2>1, <3>1, GivenOK DEF seen
  <2>4. answers' \subseteq Entries /\ \A e \in answers' : EntryOK(e)
    <3>1. ASSUME NEW k \in q.tok
          PROVE  LET e == [key |-> k, body |-> body, seen |-> seen] IN e \in Entries /\ EntryOK(e)
      <4> DEFINE e == [key |-> k, body |-> body, seen |-> seen]
      <4>1. k \in CacheKeys /\ KeyOK(q, k)
        BY <1>2 DEF Requests, InChain
      <4>2. e \in Entries /\ e.key = k /\ e.body = body /\ e.seen = seen
        BY <2>1, <4>1 DEF Entries
      <4> HIDE DEF e
      <4>3. EntryOK(e)
        BY <1>2, <2>1, <4>1, <4>2 DEF EntryOK, KeyOK
      <4> QED BY <4>2, <4>3 DEF e
    <3>2. answers \subseteq Entries /\ \A e \in answers : EntryOK(e)
      BY <1>2 DEF Typed, AnswersOK
    <3>3. answers' = answers \cup {[key |-> k, body |-> body, seen |-> seen] : k \in q.tok}
      BY <1>5
    <3>4. ASSUME NEW e \in answers'
          PROVE  e \in Entries /\ EntryOK(e)
      <4>1. CASE e \in answers
        BY <3>2, <4>1
      <4>2. CASE e \notin answers
        <5>1. PICK k \in q.tok : e = [key |-> k, body |-> body, seen |-> seen]
          BY <3>3, <4>2
        <5> QED BY <3>1, <5>1
      <4> QED BY <4>1, <4>2
    <3> QED BY <3>4
  <2>5. AnswersOK'
    BY <1>2, <1>3, <2>2, <2>4, AnswersKept
  <2>6. /\ version' \in [ReadTags \X Scopes -> Nat] /\ commits' \in Seq(Commits)
        /\ confirmed' \subseteq DOMAIN commits' /\ faults' \in Nat
    BY <1>2, <1>3 DEF Typed, Commits
  <2>7. count' \in [Identities -> Nat] /\ passed' \in [Identities -> Nat] /\ LimiterOK'
    BY <1>3, CountersStay
  <2> DEFINE m == Answer(q, body, seen)
  <2>8. req' = [req EXCEPT ![s] = m] /\ UNCHANGED mask
    BY <1>3, <1>5
  <2>9. m \in Requests /\ RequestOK(m)
    BY <2>3
  <2> HIDE DEF m
  <2> QED BY <2>2, <2>4, <2>5, <2>6, <2>7, <2>8, <2>9, StepOK
<1>6. \/ /\ req' = [req EXCEPT ![s] = Answer(q, Subject(q), DOMAIN commits)]
         /\ answers' = answers \cup {[key |-> k, body |-> Subject(q), seen |-> DOMAIN commits] : k \in q.tok}
      \/ req' = [req EXCEPT ![s] = Refuse(req[s], 500)] /\ UNCHANGED answers
  BY DEF HandleRead
<1> QED BY <1>4, <1>5, <1>6

LEMMA HandleWriteKeeps ==
  ASSUME GatewayInv, NEW s \in Slots, HandleWrite(s)
  PROVE  GatewayInv'
<1> DEFINE q == req[s]
           last == Len(commits) + 1
           c == [user |-> q.user, proj |-> q.proj]
<1>1. AtHandler(s) /\ q.role # "read"
  BY DEF HandleWrite
<1>2. /\ q \in Requests /\ InChain(q) /\ RequestOK(q) /\ ServedOK /\ Entitled(q) /\ OnTheWay(q)
      /\ Has(RouteOf(q), "AuthRequired") => q.principal.user = q.user
      /\ q.since \subseteq confirmed /\ q.role \in DOMAIN served /\ Typed /\ AnswersOK
  BY <1>1, HandlerRequest DEF GatewayInv, InChain
<1>3. UNCHANGED <<served, mask, version, answers, confirmed, faults, count, passed>>
  BY DEF HandleWrite, Fixed
<1>4. CASE req' = [req EXCEPT ![s] = Refuse(req[s], 500)] /\ UNCHANGED commits
  BY <1>1, <1>3, <1>4, FailureKeeps
<1>5. CASE /\ commits' = Append(commits, c)
           /\ req' = [req EXCEPT ![s] = [q EXCEPT !.pc = "out", !.seen = {last}]]
  <2>1. c \in Commits
    BY <1>2 DEF Requests, Commits
  <2>2. commits \in Seq(Commits) /\ confirmed \subseteq DOMAIN commits
    BY <1>2 DEF Typed, Commits
  <2> HIDE DEF c
  <2>3. /\ commits' \in Seq(Commits) /\ DOMAIN commits \subseteq DOMAIN commits'
        /\ \A n \in DOMAIN commits : commits'[n] = commits[n]
        /\ last \in DOMAIN commits' /\ commits'[last] = c /\ last \in Nat
    BY <1>5, <2>1, <2>2
  <2> HIDE DEF last
  <2>4. Onward
    <3>1. \A t \in ReadTags, x \in Scopes : version[<<t, x>>] \in Nat
      BY <1>2 DEF Typed
    <3> QED BY <1>2, <1>3, <2>3, <3>1 DEF Onward
  <2> DEFINE m == [q EXCEPT !.pc = "out", !.seen = {last}]
  <2>5. m \in Requests
    <3>1. PICK one \in Numbers : one = {last}
      BY <2>3 DEF Numbers
    <3>2. "out" \in Phases /\ m = [q EXCEPT !.pc = "out", !.seen = one]
      BY <3>1 DEF Phases
    <3> HIDE DEF m
    <3> QED BY <1>2, <3>2, RequestsAre
  <2>6. /\ m.pc = "out" /\ m.role = q.role /\ m.user = q.user /\ m.proj = q.proj /\ m.seen = {last}
        /\ m.principal = q.principal /\ m.had = q.had /\ m.since = q.since
    BY <1>2 DEF Requests
  <2>7. req' = [req EXCEPT ![s] = m]
    BY <1>5
  <2> HIDE DEF m
  <2>8. PICK z \in Requests : z = m
    BY <2>5
  <2>9. GoingOut(z)'
    <3>1. Entitled(z)
      BY <1>2, <2>6, <2>8 DEF Entitled, RouteOf
    <3>2. Entitled(z)'
      BY <1>3, <3>1, SameRoutes
    <3>3. IF RouteOf(z).project THEN z.proj \in Projects ELSE z.principal.user = z.user
      BY <1>1, <1>2, <2>6, <2>8 DEF OnTheWay, RouteOf, ServedOK, WriteOK
    <3>4. \A n \in z.seen : commits'[n] = [user |-> z.user, proj |-> z.proj]
      BY <2>3, <2>6, <2>8 DEF c
    <3>5. z.role # "read" /\ z.role \in DOMAIN served' /\ RouteOf(z)' = RouteOf(z)
      BY <1>1, <1>2, <1>3, <2>6, <2>8 DEF RouteOf
    <3> QED BY <1>3, <3>2, <3>3, <3>4, <3>5 DEF GoingOut
  <2>10. RequestOK(z)'
    <3>1. z.since \subseteq confirmed' /\ z.seen \subseteq DOMAIN commits'
      BY <1>2, <1>3, <2>3, <2>6, <2>8
    <3>2. z.pc # "chain" /\ ~Answered(z)'
      BY <2>6, <2>8 DEF Answered
    <3> QED BY <2>9, <3>1, <3>2 DEF RequestOK
  <2>11. AnswersOK'
    <3>1. answers' \subseteq Entries /\ \A e \in answers' : EntryOK(e)
      BY <1>2, <1>3 DEF AnswersOK, Typed
    <3> QED BY <1>2, <1>3, <2>4, <3>1, AnswersKept
  <2>12. /\ version' \in [ReadTags \X Scopes -> Nat] /\ answers' \subseteq Entries
         /\ confirmed' \subseteq DOMAIN commits' /\ faults' \in Nat
    BY <1>2, <1>3, <2>3 DEF Typed
  <2>13. count' \in [Identities -> Nat] /\ passed' \in [Identities -> Nat] /\ LimiterOK'
    BY <1>3, CountersStay
  <2>14. req' = [req EXCEPT ![s] = z] /\ UNCHANGED mask
    BY <1>3, <2>7, <2>8
  <2> QED BY <2>3, <2>4, <2>10, <2>11, <2>12, <2>13, <2>14, StepKeeps
<1>6. \/ /\ commits' = Append(commits, c)
         /\ req' = [req EXCEPT ![s] = [q EXCEPT !.pc = "out", !.seen = {last}]]
      \/ req' = [req EXCEPT ![s] = Refuse(req[s], 500)] /\ UNCHANGED commits
  BY <1>2 DEF HandleWrite, Typed
<1> QED BY <1>4, <1>5, <1>6

\* No write is the one route without a scope.
LEMMA WritesNotShared ==
  ASSUME NEW w \in Writes
  PROVE  ~Shared(w)
<1>1. \/ \E k \in Kinds : \/ w.name = <<"create", k>> \/ w.name = <<"update", k>>
      \/ w.name \notin {<<"home", "docs">>}
  <2>1. CASE w \in ArtifactWrites
    BY <2>1 DEF ArtifactWrites, Write, Route
  <2>2. CASE w \in PageWrites
    BY <2>2 DEF PageWrites, Write, Route
  <2>3. CASE w \in ResourceWrites
    BY <2>3 DEF ResourceWrites, Write, Route
  <2>4. CASE w \in TeamWrites
    BY <2>4 DEF TeamWrites, Write, Route
  <2>5. CASE w \in ProjectWrites
    BY <2>5 DEF ProjectWrites, Write, Route
  <2>6. CASE w \in CalendarWrites
    BY <2>6 DEF CalendarWrites, Write, Route
  <2>7. CASE w \in HomeWrites
    BY <2>7 DEF HomeWrites, WriteOfUser, Route
  <2> QED BY <2>1, <2>2, <2>3, <2>4, <2>5, <2>6, <2>7 DEF Writes
<1>2. \A k : <<"create", k>> # <<"home", "docs">> /\ <<"update", k>> # <<"home", "docs">>
  OBVIOUS
<1> QED BY <1>1, <1>2 DEF Shared

LEMMA OutOfWriteKeeps ==
  ASSUME GatewayInv, NEW s \in Slots, OutOfWrite(s)
  PROVE  GatewayInv'
<1> DEFINE q == req[s]
           w == RouteOf(q)
           c == Scope(w, q)
           marked == IF Has(w, "CacheInvalidate") THEN {<<t, c>> : t \in w.tags} ELSE {}
<1>1. q.pc = "out" /\ q.role # "read"
  BY DEF OutOfWrite
<1>2. /\ q \in Requests /\ RequestOK(q) /\ ServedOK /\ Typed /\ AnswersOK
  BY ServedIs DEF GatewayInv, Typed, RequestsOK
<1>3. /\ GoingOut(q) /\ Entitled(q) /\ (Told => w = served.write)
      /\ q.since \subseteq confirmed /\ q.seen \subseteq DOMAIN commits
  BY <1>1, <1>2 DEF RequestOK, GoingOut, RouteOf, Told, Paired
<1>4. UNCHANGED <<served, mask, answers, commits, faults, count, passed>>
  BY DEF OutOfWrite, Fixed
<1>5. /\ version' = [x \in DOMAIN version |-> IF x \in marked THEN version[x] + 1 ELSE version[x]]
      /\ confirmed' = confirmed \cup q.seen
      /\ req' = [req EXCEPT ![s] = Answer(q, q.body, q.seen)]
  BY DEF OutOfWrite
<1>6. version \in [ReadTags \X Scopes -> Nat]
  BY <1>2 DEF Typed
<1>7. ASSUME NEW t \in ReadTags, NEW x \in Scopes
      PROVE  /\ version[<<t, x>>] \in Nat /\ version'[<<t, x>>] \in Nat
             /\ version[<<t, x>>] <= version'[<<t, x>>]
             /\ <<t, x>> \in marked => version'[<<t, x>>] = version[<<t, x>>] + 1
  <2> HIDE DEF marked
  <2>1. PICK y \in ReadTags \X Scopes : y = <<t, x>>
    OBVIOUS
  <2>2. version[y] \in Nat /\ version'[y] = IF y \in marked THEN version[y] + 1 ELSE version[y]
    BY <1>5, <1>6
  <2>3. version'[y] \in Nat /\ version[y] <= version'[y]
    BY <2>2
  <2> QED BY <2>1, <2>2, <2>3
<1>8. version' \in [ReadTags \X Scopes -> Nat]
  <2> HIDE DEF marked
  <2> QED BY <1>5, <1>6
<1>9. confirmed \subseteq confirmed' /\ confirmed' \subseteq DOMAIN commits
  BY <1>2, <1>3, <1>5 DEF Typed
<1> HIDE DEF marked
<1>10. Onward
  BY <1>2, <1>4, <1>7, <1>9 DEF Onward, Typed
<1>11. Answer(q, q.body, q.seen) \in Requests /\ RequestOK(Answer(q, q.body, q.seen))
  <2>1. q.body \in Subjects \cup {"none"} /\ q.seen \in SUBSET Nat
    BY <1>2 DEF Requests
  <2> QED BY <1>1, <1>2, <1>3, <2>1, GivenOK
<1>12. ASSUME NEW e \in answers
       PROVE  EntryOK(e)'
  <2>1. e \in Entries /\ EntryOK(e)
    BY <1>2 DEF Typed, AnswersOK
  <2>2. ASSUME NEW n \in confirmed' \ confirmed, Told, n \notin e.seen, ScopeOfWrite(n)' = ScopeOf(e.key),
               NEW t \in ReadTags \cap served.write.tags
        PROVE  e.key.tags[t] < version'[<<t, ScopeOf(e.key)>>]
    <3> DEFINE x == ScopeOf(e.key)
    <3>1. n \in q.seen /\ commits'[n] = [user |-> q.user, proj |-> q.proj]
      BY <1>3, <1>4, <1>5, <2>2 DEF GoingOut
    <3>2. x = IF w.project THEN q.proj ELSE q.user
      BY <1>3, <1>4, <2>2, <3>1 DEF ScopeOfWrite
    <3>3. x = c
      <4>1. CASE w.project
        BY <3>2, <4>1 DEF Scope
      <4>2. CASE ~w.project
        <5>1. ~Shared(w) /\ q.principal.user = q.user
          BY <1>2, <1>3, <2>2, <4>2, WritesNotShared DEF ServedOK, Told, GoingOut
        <5> QED BY <3>2, <4>2, <5>1 DEF Scope
      <4> QED BY <4>1, <4>2
    <3>4. <<t, x>> \in marked
      BY <1>3, <2>2, <3>3 DEF marked, Told, Meet
    <3>5. x \in Scopes /\ e.key.tags[t] <= version[<<t, x>>] /\ e.key.tags[t] \in Nat
      BY <2>1, <2>2 DEF EntryOK, Earlier, Told, Meet, Entries, CacheKeys
    <3> HIDE DEF x
    <3>6. /\ version[<<t, x>>] \in Nat /\ version'[<<t, x>>] = version[<<t, x>>] + 1
      BY <1>7, <3>4, <3>5
    <3>7. e.key.tags[t] < version'[<<t, x>>]
      BY <3>5, <3>6
    <3> QED BY <3>7 DEF x
  <2> QED BY <1>2, <1>10, <2>1, <2>2, AnswerKept
<1>13. AnswersOK'
  BY <1>4, <1>12 DEF AnswersOK
<1>14. /\ answers' \subseteq Entries /\ commits' \in Seq(Commits)
       /\ confirmed' \subseteq DOMAIN commits' /\ faults' \in Nat
  BY <1>2, <1>4, <1>9 DEF Typed, Commits
<1>15. count' \in [Identities -> Nat] /\ passed' \in [Identities -> Nat] /\ LimiterOK'
  BY <1>4, CountersStay
<1> DEFINE m == Answer(q, q.body, q.seen)
<1>16. req' = [req EXCEPT ![s] = m] /\ m \in Requests /\ RequestOK(m) /\ UNCHANGED mask
  BY <1>4, <1>5, <1>11
<1> HIDE DEF m
<1> QED BY <1>8, <1>10, <1>13, <1>14, <1>15, <1>16, StepOK

\* Taking permissions away, and steps in which no request moves.
LEMMA NobodyMoves ==
  ASSUME GatewayInv, Onward, MaskTyped',
         UNCHANGED <<faults, served, req, version, answers, commits, confirmed, count, passed>>
  PROVE  GatewayInv'
<1>0. Typed /\ RequestsOK /\ AnswersOK /\ served' = served
  BY DEF GatewayInv
<1>1. RequestsOK'
  <2>1. ASSUME NEW s \in Slots
        PROVE  RequestOK(req[s])'
    <3>1. req[s] \in Requests /\ RequestOK(req[s]) /\ req'[s] = req[s]
      BY <1>0 DEF Typed, RequestsOK
    <3>2. PICK z \in Requests : z = req[s]
      BY <3>1
    <3>3. RequestOK(z)'
      BY <1>0, <3>1, <3>2, RequestStays
    <3>4. req'[s] = z
      BY <3>1, <3>2
    <3> QED BY <3>3, <3>4, Zenon
  <2> QED BY <2>1 DEF RequestsOK
<1>2. AnswersOK'
  <2>1. answers' \subseteq Entries /\ \A e \in answers' : EntryOK(e)
    BY <1>0 DEF AnswersOK, Typed
  <2> QED BY <1>0, <2>1, AnswersKept
<1>3. /\ ReadTags' = ReadTags /\ Perms' = Perms /\ Identities' = Identities /\ Entries' = Entries
      /\ Requests' = Requests
  BY <1>0, SameRoutes
<1>4. Typed'
  BY <1>0, <1>3 DEF Typed
<1>5. LimiterOK'
  BY CountersStay
<1> QED BY <1>1, <1>2, <1>4, <1>5 DEF GatewayInv

LEMMA DemoteKeeps ==
  ASSUME GatewayInv, NEW u \in Users, NEW p \in Projects, Demote(u, p)
  PROVE  GatewayInv'
<1>0. Typed /\ ServedOK
  BY ServedIs DEF GatewayInv, Typed
<1>1. PICK less \in {{}, NotMember} : mask' = [mask EXCEPT ![u][p] = less]
  BY DEF Demote
<1>2. mask[u][p] # NotMember
  BY <1>0 DEF Demote, ServedOK
<1>3. UNCHANGED <<faults, served, req, version, answers, commits, confirmed, count, passed>>
  BY DEF Demote, Shared1
<1>4. mask \in [Users -> [Projects -> (SUBSET Perms) \cup {NotMember}]]
  BY <1>0 DEF Typed, MaskTyped
<1>5. less \in (SUBSET Perms) \cup {NotMember}
  OBVIOUS
<1>6. mask' \in [Users -> [Projects -> (SUBSET Perms) \cup {NotMember}]]
  BY <1>1, <1>4, <1>5
<1>7. MaskTyped'
  BY <1>3, <1>6, SameRoutes DEF MaskTyped
<1>8. ASSUME NEW v \in Users, NEW o \in Projects, mask'[v][o] # NotMember
      PROVE  mask[v][o] # NotMember /\ \A x \in mask'[v][o] : x \in mask[v][o]
  <2>1. CASE v = u /\ o = p
    <3>1. mask'[v][o] = less
      BY <1>1, <1>4, <2>1
    <3>2. less = {}
      BY <1>8, <3>1
    <3> QED BY <1>2, <2>1, <3>1, <3>2
  <2>2. CASE ~(v = u /\ o = p)
    <3>1. mask'[v][o] = mask[v][o]
      BY <1>1, <1>4, <2>2
    <3> QED BY <1>8, <3>1
  <2> QED BY <2>1, <2>2
<1>9. Onward
  <2>1. \A t \in ReadTags, x \in Scopes : version[<<t, x>>] \in Nat
    BY <1>0 DEF Typed
  <2> QED BY <1>0, <1>3, <1>8, <2>1 DEF Onward
<1> QED BY <1>3, <1>7, <1>9, NobodyMoves

LEMMA GatewayInitInv == GatewayInit => GatewayInv
<1> SUFFICES ASSUME GatewayInit PROVE GatewayInv
  OBVIOUS
<1>1. served \in Candidates /\ faults = 0 /\ answers = {} /\ commits = <<>> /\ confirmed = {}
  BY DEF GatewayInit
<1>2. MaskTyped
  BY DEF GatewayInit, MaskTyped
<1>3. req \in [Slots -> Requests]
  BY IdleIs DEF GatewayInit
<1>4. version \in [ReadTags \X Scopes -> Nat]
  BY DEF GatewayInit, Scopes
<1>5. count \in [Identities -> Nat] /\ passed \in [Identities -> Nat]
  BY DEF GatewayInit
<1>6. commits \in Seq([user : Users \cup {NoUser}, proj : Projects \cup {"none"}])
  BY <1>1
<1>7. Typed
  BY <1>1, <1>2, <1>3, <1>4, <1>5, <1>6 DEF Typed
<1>8. RequestsOK
  <2>1. Idle.pc = "idle"
    BY DEF Idle
  <2>2. RequestOK(Idle)
    BY <2>1, IdleIs DEF RequestOK, Answered
  <2> QED BY <2>2, Zenon DEF GatewayInit, RequestsOK
<1>9. AnswersOK
  BY <1>1 DEF AnswersOK
<1>10. LimiterOK
  BY DEF GatewayInit, LimiterOK
<1> QED BY <1>7, <1>8, <1>9, <1>10 DEF GatewayInv

LEMMA GatewayNextInv == GatewayInv /\ [GatewayNext]_gatewayVars => GatewayInv'
<1> SUFFICES ASSUME GatewayInv, [GatewayNext]_gatewayVars PROVE GatewayInv'
  OBVIOUS
<1>1. ASSUME NEW s \in Slots, Start(s) PROVE GatewayInv'
  BY <1>1, StartKeeps
<1>2. ASSUME NEW s \in Slots, RateLimit(s) PROVE GatewayInv'
  BY <1>2, RateLimitKeeps
<1>3. ASSUME NEW s \in Slots, RateLimitFails(s) PROVE GatewayInv'
  BY <1>3, RateLimitFailsKeeps
<1>4. ASSUME NEW s \in Slots, CacheRead(s) PROVE GatewayInv'
  BY <1>4, CacheReadKeeps
<1>5. ASSUME NEW s \in Slots, HandleRead(s) PROVE GatewayInv'
  BY <1>5, HandleReadKeeps
<1>6. ASSUME NEW s \in Slots, HandleWrite(s) PROVE GatewayInv'
  BY <1>6, HandleWriteKeeps
<1>7. ASSUME NEW s \in Slots, OutOfWrite(s) PROVE GatewayInv'
  BY <1>7, OutOfWriteKeeps
<1>8. ASSUME NEW u \in Users, NEW p \in Projects, Demote(u, p) PROVE GatewayInv'
  BY <1>8, DemoteKeeps
<1>9. ASSUME UNCHANGED gatewayVars PROVE GatewayInv'
  <2>1. UNCHANGED <<faults, served, mask, req, version, answers, commits, confirmed, count, passed>>
    BY <1>9 DEF gatewayVars
  <2>2. Onward
    BY <2>1, NothingOnward DEF GatewayInv
  <2>3. MaskTyped'
    BY <2>1, SameRoutes DEF GatewayInv, Typed, MaskTyped
  <2> QED BY <2>1, <2>2, <2>3, NobodyMoves
<1> QED BY <1>1, <1>2, <1>3, <1>4, <1>5, <1>6, <1>7, <1>8, <1>9 DEF GatewayNext, Done

\* What the policies, the cache and the limiter keep of every request on its way and of
\* every answer kept holds in every reachable state (internal/core/policy).
THEOREM GatewayInvariant == GatewaySpec => []GatewayInv
<1>1. GatewayInit => GatewayInv
  BY GatewayInitInv
<1>2. GatewayInv /\ [GatewayNext]_gatewayVars => GatewayInv'
  BY GatewayNextInv
<1> QED BY <1>1, <1>2, PTL DEF GatewaySpec

\* For every table of routes, every accepted chain and any number of requests: a
\* 200, out of the cache or of the handler, goes only to a user with a token who held
\* the route's permission (the order of validator_rules.go, run by Chain).
THEOREM AnswersAreEntitled == GatewaySpec => []AnswersEntitled
<1>1. GatewayInv => AnswersEntitled
  <2> SUFFICES ASSUME GatewayInv, NEW s \in Slots, Answered(req[s]) PROVE Entitled(req[s])
    BY DEF AnswersEntitled, Entitled
  <2> QED BY DEF GatewayInv, RequestsOK, RequestOK, Given
<1> QED BY <1>1, GatewayInvariant, PTL

\* What a request is answered is about its own project, item and user, whoever's
\* request put it into the cache (BuildReadKeyWithTemplate and the VaryBy of routes.go).
THEOREM AnswersAreOwn == GatewaySpec => []OwnSubject
<1>1. GatewayInv => OwnSubject
  <2> SUFFICES ASSUME GatewayInv PROVE OwnSubject
    OBVIOUS
  <2>1. ASSUME NEW s \in Slots
        PROVE  /\ req[s].pc \in {"idle", "chain", "out", "answered"} /\ req[s].role \in {"read", "write", "other"}
               /\ req[s].at \in 1 .. 9 /\ req[s].status \in {0, 200, 401, 403, 415, 429, 500, 503}
               /\ req[s].principal.user \in Users \cup {NoUser} /\ req[s].principal.perms \in SUBSET Perms
               /\ req[s].since \subseteq confirmed /\ req[s].seen \subseteq DOMAIN commits
    <3>1. PICK q \in Requests : q = req[s]
      BY DEF GatewayInv, Typed
    <3>2. RequestOK(q)
      BY <3>1 DEF GatewayInv, RequestsOK
    <3>3. q.since \subseteq confirmed /\ q.seen \subseteq DOMAIN commits
      BY <3>2 DEF RequestOK
    <3>4. /\ q.pc \in {"idle", "chain", "out", "answered"} /\ q.role \in {"read", "write", "other"}
          /\ q.at \in 1 .. 9 /\ q.status \in Statuses /\ q.principal \in Fields
      BY DEF Requests
    <3>5. q.principal.user \in Users \cup {NoUser} /\ q.principal.perms \in SUBSET Perms
      BY <3>4 DEF Fields
    <3> QED BY <3>1, <3>3, <3>4, <3>5 DEF Statuses
  <2>2. GatewayTypeOK
    BY <2>1 DEF GatewayTypeOK, GatewayInv, Typed, MaskTyped
  <2>3. ASSUME NEW s \in Slots, Answered(req[s]), req[s].role = "read"
        PROVE  req[s].body = Subject(req[s])
    BY <2>3 DEF GatewayInv, RequestsOK, RequestOK, Given
  <2> QED BY <2>2, <2>3 DEF OwnSubject
<1> QED BY <1>1, GatewayInvariant, PTL

\* The tables of tags: whoever reads what a write changes is told of it.
LEMMA ToldOrGap ==
  ASSUME ServedOK, Paired
  PROVE  Told \/ KnownGap(served.read.name, served.write.name)
<1>1. served.read \in Reads /\ served.write \in Writes /\ Touches(served.read, served.write)
  BY DEF ServedOK
<1>2. CASE served.read \in HomeReads
  BY <1>1, <1>2, TagsMeetAtHome DEF Told
<1>3. CASE served.read \notin HomeReads
  BY <1>1, <1>3, TagsMeetInProject DEF Told
<1> QED BY <1>2, <1>3

\* An answer shows every write that was answered before it was asked for: the tags the
\* routes bump meet those the reads look up, except for the known gaps (TagSpecs of
\* internal/modules/*/routes.go, CacheInvalidate before the response leaves).
THEOREM WritesAreSeen == GatewaySpec => []WritesSeen
<1>1. GatewayInv => WritesSeen
  <2> SUFFICES ASSUME GatewayInv, NEW s \in Slots, Answered(req[s]), req[s].role = "read", Paired,
                      ~KnownGap(served.read.name, served.write.name)
               PROVE  SeesWrites(req[s])
    BY DEF WritesSeen, SeesWrites
  <2>1. Told
    BY ToldOrGap, ServedIs DEF GatewayInv, Typed
  <2> QED BY <2>1 DEF GatewayInv, RequestsOK, RequestOK, Given
<1> QED BY <1>1, GatewayInvariant, PTL

\* A step changes the request of one slot.
LEMMA OthersWait ==
  ASSUME GatewayInv, NEW s \in Slots, NEW x \in Slots, x # s, NEW q, req' = [req EXCEPT ![x] = q]
  PROVE  req'[s] = req[s]
BY DEF GatewayInv, Typed

LEMMA LimiterStep ==
  ASSUME GatewayInv, [GatewayNext]_gatewayVars, NEW s \in Slots, Faces(req[s], "RateLimit"), req'[s] # req[s]
  PROVE  RateLimit(s) \/ RateLimitFails(s)
<1>1. /\ req[s].pc = "chain" /\ ~AtHandler(s) /\ ~Faces(req[s], "CacheRead")
  BY ChainRequest DEF Faces, AtHandler, InChain, OnTheWay, ServedOK, ReadOK, WriteOK, ChainOK, RouteOf, Requests
<1>2. PICK x \in Slots : Start(x) \/ RateLimit(x) \/ RateLimitFails(x) \/ CacheRead(x)
                         \/ HandleRead(x) \/ HandleWrite(x) \/ OutOfWrite(x)
  BY DEF GatewayNext, gatewayVars, Done, Demote
<1>3. \E q : req' = [req EXCEPT ![x] = q]
  <2>1. CASE Start(x)
    BY <2>1, Zenon DEF Start, Become
  <2>2. CASE RateLimit(x)
    BY <2>2, Zenon DEF RateLimit, Become
  <2>5. CASE RateLimitFails(x)
    BY <2>5, Zenon DEF RateLimitFails, Become
  <2>3. CASE CacheRead(x)
    BY <2>3, Zenon DEF CacheRead, Become
  <2>4. CASE HandleRead(x) \/ HandleWrite(x) \/ OutOfWrite(x)
    BY <2>4, Zenon DEF HandleRead, HandleWrite, OutOfWrite
  <2> QED BY <1>2, <2>1, <2>2, <2>3, <2>4, <2>5
<1>4. x = s
  BY <1>3, OthersWait
<1> QED BY <1>1, <1>2, <1>4 DEF Start, CacheRead, HandleRead, HandleWrite, OutOfWrite

\* No identity gets more than Limit requests through in a window unless the limiter
\* failed, and none is refused before its own Limit is used up (RedisLimiter.Allow).
THEOREM LimitsHold == GatewaySpec => LimitPerIdentity
<1> DEFINE A == \A s \in Slots : Faces(req[s], "RateLimit") /\ req'[s] # req[s] =>
                  LET k == Identity(req[s]) IN
                  /\ req'[s].status = 429 => passed[k] >= Limit
                  /\ passed'[k] > Limit => passed'[k] = passed[k] \/ faults' > faults
<1>1. GatewayInv /\ [GatewayNext]_gatewayVars => [A]_gatewayVars
  <2> SUFFICES ASSUME GatewayInv, [GatewayNext]_gatewayVars,
                      NEW s \in Slots, Faces(req[s], "RateLimit"), req'[s] # req[s]
               PROVE  LET k == Identity(req[s]) IN
                      /\ req'[s].status = 429 => passed[k] >= Limit
                      /\ passed'[k] > Limit => passed'[k] = passed[k] \/ faults' > faults
    OBVIOUS
  <2>1. CASE RateLimit(s)
    BY <2>1, RateLimitKeeps
  <2>2. CASE RateLimitFails(s)
    BY <2>2, RateLimitFailsKeeps
  <2> QED BY <2>1, <2>2, LimiterStep
<1> QED BY <1>1, GatewayInvariant, PTL DEF LimitPerIdentity, GatewaySpec

=============================================================================
