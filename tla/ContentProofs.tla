----------------------------- MODULE ContentProofs -----------------------------
(***************************************************************************)
(* Proofs that row, document, versions and links of a page or a resource   *)
(* fit together, for any number of writers, requests and failures.         *)
(***************************************************************************)
EXTENDS Content, TLAPS

-----------------------------------------------------------------------------
(* The inductive invariant                                                 *)

Working == {"row", "read", "written"}

\* What the service admitted, whatever happens to the item afterwards.
Asked(r) ==
    /\ r.pc # "idle" /\ r.from = "Archived" => DOMAIN r.patch.content = {}
    /\ r.op # "update" => DOMAIN r.patch.content = {}
    /\ r.op \in {"rename", "delete"} => kind = "page"
    /\ r.pc = "loaded" => r.op \in {"update", "rename", "delete"}
    /\ r.pc \in Working => r.op \in {"update", "rename", "delete", "create"}

\* What holds of the request r that has the lock of the row rw, of the document
\* d, the history of the content k, the reader g and the deletion b.
HoldsAt(r, rw, d, k, b, g) ==
    LET c == r.patch.content IN
    /\ r.op \in {"update", "rename"} =>
          /\ rw.live /\ r.new.live /\ r.new.rev = rw.rev + 1
          /\ kind = "resource" => r.new.versions = [n \in 1..r.new.rev |-> n]
          /\ r.new.links = IF "links" \in DOMAIN c THEN c["links"]
                           ELSE IF kind = "page" THEN rw.links ELSE 0
    /\ r.op = "delete" => rw.live /\ r.new = NoRow
    /\ r.op = "create" =>
          /\ ~rw.live /\ r.new = NewRow /\ k = Blank /\ ~b /\ g.pc = "idle"
          /\ d.content = Blank
    /\ r.pc = "read" => r.op # "delete" /\ r.base = d.content
    /\ r.pc = "written" /\ r.op # "delete" =>
          d.rev = r.new.rev /\ \A f \in DOMAIN c : d.content[f] = c[f]
Holds(r) == HoldsAt(r, row, doc, kept, bare, rd)

\* One request at a time has the lock, and while an item is created nobody
\* else is busy with it.
Alone ==
    \A v \in Writers : \A w \in Writers \ {v} :
        ws[v].pc \in Working =>
            /\ ws[w].pc \notin Working
            /\ ws[v].op = "create" => ws[w].pc = "idle"

\* Before the first request nothing has happened.
Fresh == asked = 0 => /\ \A w \in Writers : ws[w].pc = "idle"
                      /\ kept = Blank /\ ~bare
                      /\ row.live \/ rd.pc = "idle"

\* A reader has seen a revision that is not ahead of the row.
ReaderBehind == row.live /\ rd.pc = "doc" => rd.rev <= row.rev

ContentInv ==
    /\ TypeOK /\ DocumentAtRow /\ ContentKept /\ VersionsFollowRevisions /\ LinksOfContent
    /\ ContentNotOlder /\ ReaderBehind
    /\ Alone /\ Fresh
    /\ \A w \in Writers : /\ Asked(ws[w])
                          /\ ws[w].pc \in Working => Holds(ws[w])

-----------------------------------------------------------------------------
(* Records                                                                 *)

LEMMA BlankType == Blank \in Contents /\ 0 \in Values /\ \A f \in Fields : Blank[f] = 0
BY BoundsAreNaturals DEF Blank, Contents, Values

LEMMA RowTypes ==
  /\ NoRow \in Row /\ ~NoRow.live /\ NoRow.links = 0 /\ NoRow.versions = <<>> /\ NoRow.rev = 0
  /\ NewRow \in Row /\ NewRow.live /\ NewRow.rev = 1 /\ NewRow.links = 0
  /\ NewRow.status = "Live"
  /\ kind = "resource" => NewRow.versions = <<1>>
<1>1. /\ NoRow \in Row /\ ~NoRow.live /\ NoRow.links = 0 /\ NoRow.versions = <<>>
      /\ NoRow.rev = 0 /\ NoRow.status = "Live"
  BY BlankType DEF NoRow, Row, Statuses
<1>2. /\ NewPage \in Row /\ NewPage.live /\ NewPage.links = 0 /\ NewPage.rev = 1
      /\ NewPage.status = "Live"
  BY <1>1 DEF NewPage, Row
<1>3. <<1>> \in Seq(Nat)
  OBVIOUS
<1>4. /\ NewResource \in Row /\ NewResource.live /\ NewResource.links = 0
      /\ NewResource.rev = 1 /\ NewResource.versions = <<1>> /\ NewResource.status = "Live"
  BY <1>2, <1>3 DEF NewResource, Row
<1> QED BY <1>1, <1>2, <1>4 DEF NewRow

LEMMA NoPatchType ==
  /\ NoPatch \in Patch(0) /\ NoPatch \in UNION {Patch(n) : n \in Values}
  /\ NoPatch.status = "none" /\ DOMAIN NoPatch.content = {}
<1>1. <<>> \in [{} -> {0, 0}]
  OBVIOUS
<1>2. DOMAIN <<>> = {} /\ {} \in SUBSET Fields
  OBVIOUS
<1>3. NoPatch \in Patch(0) /\ NoPatch.status = "none" /\ NoPatch.content = <<>>
  BY <1>1, <1>2 DEF NoPatch, Patch
<1> QED BY <1>2, <1>3, BlankType

LEMMA PatchType ==
  ASSUME NEW p \in UNION {Patch(n) : n \in Values}
  PROVE  /\ p.status \in Statuses \cup {"none"} /\ DOMAIN p.content \subseteq Fields
         /\ \A f \in DOMAIN p.content : p.content[f] \in Values
<1>1. PICK n \in Values : p \in Patch(n)
  OBVIOUS
<1>2. p.status \in Statuses \cup {"none"} /\ \E S \in SUBSET Fields : p.content \in [S -> {0, n}]
  BY <1>1 DEF Patch
<1> QED BY <1>2, BlankType

LEMMA IdleType ==
  /\ IdleWriter \in Writer /\ IdleWriter.pc = "idle" /\ IdleWriter.op = "none"
  /\ IdleWriter.patch = NoPatch
BY NoPatchType, RowTypes, BlankType DEF IdleWriter, Writer, Statuses

LEMMA IdleAsked == Asked(IdleWriter)
BY IdleType, NoPatchType DEF Asked, Working

\* Content merged with a patch is content.
LEMMA MergeType ==
  ASSUME NEW base \in Contents, NEW p \in UNION {Patch(n) : n \in Values}
  PROVE  /\ Merge(base, p.content) \in Contents
         /\ \A f \in Fields : Merge(base, p.content)[f] =
                                IF f \in DOMAIN p.content THEN p.content[f] ELSE base[f]
         /\ DOMAIN p.content = {} => Merge(base, p.content) = base
BY PatchType DEF Merge, Contents

\* What the invariant says of one request.
LEMMA OfOne ==
  ASSUME ContentInv, NEW w \in Writers
  PROVE  /\ TypeOK /\ ws[w] \in Writer /\ Asked(ws[w])
         /\ ws[w].pc \in Working => Holds(ws[w])
         /\ ws[w].patch \in UNION {Patch(n) : n \in Values}
BY DEF ContentInv, TypeOK, Writer

\* A sequence of all revisions so far, and the next one.
LEMMA NextVersion ==
  ASSUME NEW n \in Nat
  PROVE  /\ [k \in 1..n |-> k] \in Seq(Nat)
         /\ Append([k \in 1..n |-> k], n + 1) = [k \in 1..(n + 1) |-> k]
<1> DEFINE s == [k \in 1..n |-> k]
<1>1. s \in Seq(Nat) /\ Len(s) = n
  OBVIOUS
<1>2. Append(s, n + 1) = [k \in 1..(Len(s) + 1) |-> IF k = Len(s) + 1 THEN n + 1 ELSE s[k]]
  BY <1>1
<1>3. \A k \in 1..(n + 1) : (IF k = n + 1 THEN n + 1 ELSE s[k]) = k
  OBVIOUS
<1> QED BY <1>1, <1>2, <1>3

-----------------------------------------------------------------------------
(* Steps                                                                   *)

\* A request moves on, alone with the item or without touching it.
LEMMA StepKeeps ==
  ASSUME ContentInv, NEW w \in Writers, NEW r \in Writer, Move(w, r), kind' = kind, rd' = rd,
         row' \in Row, doc' \in Doc, asked' \in 0..MaxRequests, faults' \in 0..MaxFaults,
         kept' \in Contents, stray' \subseteq Fields \X Values, bare' \in BOOLEAN,
         (/\ DocumentAtRow /\ ContentKept /\ VersionsFollowRevisions /\ LinksOfContent
          /\ ContentNotOlder /\ ReaderBehind)',
         asked' = 0 => r.pc = "idle" /\ UNCHANGED <<row, kept, bare, asked>>,
         Asked(r),
         r.pc \in Working => HoldsAt(r, row', doc', kept', bare', rd'),
         \A v \in Writers \ {w} : ws[v].pc \in Working =>
            /\ r.pc \notin Working /\ UNCHANGED <<row, doc, kept, bare>>
            /\ ws[v].op = "create" => r.pc = "idle",
         r.pc \in Working /\ r.op = "create" => \A v \in Writers \ {w} : ws[v].pc = "idle"
  PROVE  ContentInv'
<1>1. /\ ws' \in [Writers -> Writer] /\ ws'[w] = r
      /\ \A v \in Writers \ {w} : ws'[v] = ws[v]
  BY DEF Move, ContentInv, TypeOK
<1>2. TypeOK'
  BY <1>1 DEF ContentInv, TypeOK
<1>3. Alone'
  BY <1>1 DEF ContentInv, Alone
<1>4. Fresh'
  BY <1>1 DEF ContentInv, Fresh
<1>5. \A v \in Writers : Asked(ws'[v])
  BY <1>1 DEF ContentInv
<1>6. \A v \in Writers : Asked(ws[v])'
  BY <1>5 DEF Asked
<1>7. \A v \in Writers : ws'[v].pc \in Working => HoldsAt(ws'[v], row', doc', kept', bare', rd')
  <2>1. ASSUME NEW v \in Writers \ {w}, ws[v].pc \in Working
        PROVE  HoldsAt(ws[v], row', doc', kept', bare', rd')
    <3>1. HoldsAt(ws[v], row, doc, kept, bare, rd)
      BY <2>1 DEF ContentInv, Holds
    <3>2. row' = row /\ doc' = doc /\ kept' = kept /\ bare' = bare /\ rd' = rd
      BY <2>1
    <3> QED BY <3>1, <3>2
  <2> QED BY <1>1, <2>1
<1>8. \A v \in Writers : (ws[v].pc \in Working => Holds(ws[v]))'
  BY <1>7 DEF Holds, HoldsAt, NewRow
<1> QED BY <1>2, <1>3, <1>4, <1>6, <1>8 DEF ContentInv

\* The same for a step that only changes what the request itself knows.
LEMMA MoveKeeps ==
  ASSUME ContentInv, NEW w \in Writers, NEW r \in Writer, Move(w, r),
         UNCHANGED <<kind, row, doc, rd, kept, stray, bare>>,
         asked' \in 0..MaxRequests, faults' \in 0..MaxFaults,
         asked' = 0 => r.pc = "idle" /\ asked' = asked,
         Asked(r),
         r.pc \in Working => Holds(r),
         \A v \in Writers \ {w} : ws[v].pc \in Working =>
            r.pc \notin Working /\ (ws[v].op = "create" => r.pc = "idle"),
         r.pc \in Working /\ r.op = "create" => \A v \in Writers \ {w} : ws[v].pc = "idle"
  PROVE  ContentInv'
<1>1. /\ row' \in Row /\ doc' \in Doc /\ kept' \in Contents /\ stray' \subseteq Fields \X Values
      /\ bare' \in BOOLEAN
  BY DEF ContentInv, TypeOK
<1>2. (/\ DocumentAtRow /\ ContentKept /\ VersionsFollowRevisions /\ LinksOfContent
       /\ ContentNotOlder /\ ReaderBehind)'
  BY DEF ContentInv, DocumentAtRow, ContentKept, VersionsFollowRevisions, LinksOfContent,
         ContentNotOlder, ReaderBehind
<1>3. r.pc \in Working => HoldsAt(r, row', doc', kept', bare', rd')
  <2>1. row' = row /\ doc' = doc /\ kept' = kept /\ bare' = bare /\ rd' = rd
    OBVIOUS
  <2> QED BY <2>1 DEF Holds
<1> QED BY <1>1, <1>2, <1>3, StepKeeps

\* A request that is over, and changed nothing.
LEMMA GivingUpKeeps ==
  ASSUME ContentInv, NEW w \in Writers, Move(w, IdleWriter),
         UNCHANGED <<kind, row, doc, rd, asked, kept, stray, bare>>, faults' \in 0..MaxFaults
  PROVE  ContentInv'
<1>1. asked' \in 0..MaxRequests /\ IdleWriter.pc \notin Working
  BY IdleType DEF ContentInv, TypeOK, Working
<1> QED BY <1>1, IdleType, IdleAsked, MoveKeeps

LEMMA LoadKeeps ==
  ASSUME ContentInv, NEW w \in Writers, Load(w)
  PROVE  ContentInv'
<1>0. /\ TypeOK /\ asked' \in 0..MaxRequests /\ asked' # 0 /\ asked' \in Values
      /\ UNCHANGED <<kind, row, doc, rd, faults, kept, stray, bare>>
      /\ faults' \in 0..MaxFaults /\ ws[w].pc = "idle"
  BY OfOne, BoundsAreNaturals DEF Load, TypeOK, Values
<1>1. PICK op \in Operations :
        \E patch \in IF op = "update" THEN Patch(asked') ELSE {NoPatch} :
           IF row.live /\ Admitted(op, patch, row.status)
           THEN Move(w, [IdleWriter EXCEPT !.pc = "loaded", !.op = op,
                                           !.patch = patch, !.from = row.status])
           ELSE UNCHANGED ws
  BY DEF Load
<1>2. PICK patch \in IF op = "update" THEN Patch(asked') ELSE {NoPatch} :
           IF row.live /\ Admitted(op, patch, row.status)
           THEN Move(w, [IdleWriter EXCEPT !.pc = "loaded", !.op = op,
                                           !.patch = patch, !.from = row.status])
           ELSE UNCHANGED ws
  BY <1>1
<1>3. CASE row.live /\ Admitted(op, patch, row.status)
  <2> DEFINE r == [IdleWriter EXCEPT !.pc = "loaded", !.op = op,
                                     !.patch = patch, !.from = row.status]
  <2>1. patch \in UNION {Patch(n) : n \in Values} /\ (op # "update" => DOMAIN patch.content = {})
    BY <1>0, NoPatchType
  <2>2. row.status \in Statuses /\ op \in {"update", "rename", "delete"}
        /\ (op \in {"rename", "delete"} => kind = "page")
    BY <1>0 DEF TypeOK, Row, Operations
  <2>3. /\ r \in Writer /\ r.pc = "loaded" /\ r.op = op /\ r.patch = patch
        /\ r.from = row.status
    BY <2>1, <2>2, IdleType DEF Writer
  <2>4. Move(w, r)
    BY <1>2, <1>3
  <2> HIDE DEF r
  <2>5. row.status = "Archived" => DOMAIN patch.content = {}
    BY <1>3, NoPatchType DEF Admitted, NoPatch
  <2>6. Asked(r)
    BY <2>1, <2>2, <2>3, <2>5 DEF Asked, Working
  <2>7. \A v \in Writers : ws[v].pc \in Working => ws[v].op # "create"
    BY <1>3 DEF ContentInv, Holds, HoldsAt
  <2> QED BY <1>0, <2>3, <2>4, <2>6, <2>7, MoveKeeps DEF Working
<1>4. CASE ~(row.live /\ Admitted(op, patch, row.status))
  <2>1. Move(w, ws[w])
    BY <1>0, <1>2, <1>4 DEF Move, TypeOK
  <2>2. ws[w] \in Writer /\ Asked(ws[w]) /\ ws[w].pc \notin Working
    BY <1>0, OfOne DEF Working
  <2> QED BY <1>0, <2>1, <2>2, MoveKeeps
<1> QED BY <1>3, <1>4

LEMMA InsertKeeps ==
  ASSUME ContentInv, NEW w \in Writers, InsertRow(w)
  PROVE  ContentInv'
<1> DEFINE r == [IdleWriter EXCEPT !.pc = "row", !.op = "create", !.new = NewRow]
<1>1. /\ TypeOK /\ asked = 0 /\ row = NoRow /\ doc = NoDoc /\ ~row.live
      /\ asked' \in 0..MaxRequests /\ asked' # 0 /\ faults' \in 0..MaxFaults
      /\ Move(w, r) /\ UNCHANGED <<kind, row, doc, rd, faults, kept, stray, bare>>
  BY OfOne, RowTypes, BoundsAreNaturals DEF InsertRow, TypeOK
<1>2. /\ r \in Writer /\ r.pc = "row" /\ r.op = "create" /\ r.new = NewRow
      /\ r.patch = NoPatch /\ r.from = "Live"
  BY IdleType, RowTypes DEF Writer, IdleWriter
<1> HIDE DEF r
<1>3. /\ \A v \in Writers : ws[v].pc = "idle"
      /\ kept = Blank /\ ~bare /\ rd.pc = "idle"
  BY <1>1 DEF ContentInv, Fresh
<1>4. Asked(r)
  BY <1>2, NoPatchType DEF Asked, Working
<1>5. doc.content = Blank
  BY <1>1 DEF NoDoc
<1>6. Holds(r)
  BY <1>1, <1>2, <1>3, <1>5 DEF Holds, HoldsAt
<1> QED BY <1>1, <1>2, <1>3, <1>4, <1>6, MoveKeeps DEF Working

\* What an UPDATE makes of the row.
LEMMA UpdatedFacts ==
  ASSUME TypeOK, VersionsFollowRevisions, row.live,
         NEW p \in UNION {Patch(n) : n \in Values}
  PROVE  /\ Updated(p) \in Row /\ Updated(p).live /\ Updated(p).rev = row.rev + 1
         /\ kind = "resource" => Updated(p).versions = [n \in 1..(row.rev + 1) |-> n]
         /\ Updated(p).links = IF "links" \in DOMAIN p.content THEN p.content["links"]
                               ELSE IF kind = "page" THEN row.links ELSE 0
<1> DEFINE status == IF p.status = "Live" /\ row.status = "Archived"
                     THEN IF row.prior = "none" THEN "Live" ELSE row.prior
                     ELSE IF p.status # "none" THEN p.status ELSE row.status
           prior == IF p.status = "Archived" /\ row.status # "Archived" THEN row.status
                    ELSE IF p.status = "Live" /\ row.status = "Archived" THEN "none"
                    ELSE row.prior
           links == LinksAfter(p)
           versions == VersionsAfter(p, row.rev + 1)
           rev == row.rev + 1
           new == [row EXCEPT !.status = status, !.prior = prior, !.rev = rev,
                              !.links = links, !.versions = versions]
<1>1. row \in Row /\ p.status \in Statuses \cup {"none"}
  BY PatchType DEF TypeOK
<1>2. status \in Statuses /\ prior \in Statuses \cup {"none"}
  BY <1>1 DEF Row, Statuses
<1>3. /\ links \in Values
      /\ links = IF "links" \in DOMAIN p.content THEN p.content["links"]
                 ELSE IF kind = "page" THEN row.links ELSE 0
  BY <1>1, PatchType, BlankType DEF LinksAfter, Row
<1>4. rev \in Nat /\ row.rev \in Nat
  BY <1>1 DEF Row
<1>5. /\ versions \in Seq(Nat)
      /\ kind = "resource" => versions = [n \in 1..(row.rev + 1) |-> n]
  <2>1. CASE kind = "resource"
    <3>1. row.versions = [n \in 1..row.rev |-> n]
      BY <2>1 DEF VersionsFollowRevisions
    <3>2. versions = Append(row.versions, row.rev + 1)
      BY <2>1 DEF VersionsAfter
    <3>3. [n \in 1..(row.rev + 1) |-> n] \in Seq(Nat)
      BY <1>4, NextVersion
    <3> QED BY <1>4, <3>1, <3>2, <3>3, NextVersion
  <2>2. CASE kind # "resource"
    BY <1>1, <2>2 DEF VersionsAfter, Row
  <2> QED BY <2>1, <2>2
<1>6. Updated(p) = new
  BY DEF Updated
<1> HIDE DEF status, prior, links, versions, rev
<1>7. /\ new \in Row /\ new.live = row.live /\ new.rev = rev /\ new.versions = versions
      /\ new.links = links
  BY <1>1, <1>2, <1>3, <1>4, <1>5 DEF Row
<1>8. rev = row.rev + 1
  BY DEF rev
<1> HIDE DEF new
<1> QED BY <1>3, <1>5, <1>6, <1>7, <1>8

LEMMA ChangeRowKeeps ==
  ASSUME ContentInv, NEW w \in Writers, ChangeRow(w)
  PROVE  ContentInv'
<1> DEFINE op == ws[w].op
           p == ws[w].patch
           new == CASE op = "update" -> Updated(p)
                    [] op = "rename" -> Renamed
                    [] op = "delete" -> Deleted
           r == [ws[w] EXCEPT !.pc = "row", !.new = new]
<1>1. /\ TypeOK /\ ws[w] \in Writer /\ Asked(ws[w]) /\ p \in UNION {Patch(n) : n \in Values}
      /\ ws[w].pc = "loaded" /\ ~Locked(w)
      /\ UNCHANGED <<kind, row, doc, rd, asked, faults, kept, stray, bare>>
      /\ asked' \in 0..MaxRequests /\ faults' \in 0..MaxFaults
      /\ row \in Row /\ VersionsFollowRevisions
  BY OfOne DEF ChangeRow, TypeOK, ContentInv
<1>2. op \in {"update", "rename", "delete"} /\ (op \in {"rename", "delete"} => kind = "page")
      /\ (op # "update" => DOMAIN p.content = {})
  BY <1>1 DEF Asked
<1>3. asked # 0
  BY <1>1 DEF ContentInv, Fresh
<1>4. CASE Matches(op, p)
  <2>1. Move(w, r) /\ row.live
    BY <1>4 DEF ChangeRow, Matches
  <2>2. ASSUME op = "rename"
        PROVE  /\ Renamed \in Row /\ Renamed.live /\ Renamed.rev = row.rev + 1
               /\ Renamed.links = row.links
    BY <1>1, <2>1 DEF Renamed, Row
  <2>4. /\ new \in Row
        /\ op \in {"update", "rename"} =>
              /\ new.live /\ new.rev = row.rev + 1
              /\ kind = "resource" => new.versions = [n \in 1..new.rev |-> n]
              /\ new.links = IF "links" \in DOMAIN p.content THEN p.content["links"]
                             ELSE IF kind = "page" THEN row.links ELSE 0
        /\ op = "delete" => new = NoRow
    <3>1. CASE op = "update"
      <4>1. new = Updated(p)
        BY <3>1
      <4> HIDE DEF new
      <4> QED BY <1>1, <2>1, <3>1, <4>1, UpdatedFacts
    <3>2. CASE op = "rename"
      BY <1>2, <2>2, <3>2
    <3>3. CASE op = "delete"
      BY <3>3, RowTypes DEF Deleted
    <3> QED BY <1>2, <3>1, <3>2, <3>3
  <2> HIDE DEF new
  <2>5. /\ r \in Writer /\ r.pc = "row" /\ r.op = op /\ r.patch = p /\ r.new = new
        /\ r.from = ws[w].from
    BY <1>1, <2>4 DEF Writer
  <2> HIDE DEF r
  <2>6. Asked(r)
    BY <1>1, <1>2, <2>5 DEF Asked, Working
  <2>7. Holds(r)
    BY <1>2, <2>1, <2>4, <2>5 DEF Holds, HoldsAt
  <2>8. \A v \in Writers \ {w} : ws[v].pc \notin Working
    <3>1. \A v \in Writers \ {w} : ws[v].pc \in Working => ws[v].op = "create"
      BY <1>1 DEF Locked, Working
    <3>2. \A v \in Writers \ {w} : ws[v].pc \in Working => ws[v].op # "create"
      BY <1>1 DEF ContentInv, Alone
    <3> QED BY <3>1, <3>2
  <2> QED BY <1>1, <1>2, <1>3, <2>1, <2>5, <2>6, <2>7, <2>8, MoveKeeps
<1>5. CASE ~Matches(op, p)
  BY <1>1, <1>5, GivingUpKeeps DEF ChangeRow, NotFound
<1> QED BY <1>4, <1>5

LEMMA ReadDocKeeps ==
  ASSUME ContentInv, NEW w \in Writers, ReadDoc(w)
  PROVE  ContentInv'
<1> DEFINE base == doc.content
           r == [ws[w] EXCEPT !.pc = "read", !.base = base]
<1>1. /\ TypeOK /\ ws[w] \in Writer /\ Asked(ws[w]) /\ Holds(ws[w])
      /\ ws[w].pc = "row" /\ ws[w].op # "delete" /\ Move(w, r)
      /\ UNCHANGED <<kind, row, doc, rd, asked, faults, kept, stray, bare>>
      /\ asked' \in 0..MaxRequests /\ faults' \in 0..MaxFaults
  BY OfOne DEF ReadDoc, TypeOK, Working
<1>2. base \in Contents
  BY <1>1 DEF TypeOK, Doc
<1> HIDE DEF base
<1>3. /\ r \in Writer /\ r.pc = "read" /\ r.base = base /\ r.op = ws[w].op
      /\ r.patch = ws[w].patch /\ r.from = ws[w].from /\ r.new = ws[w].new
  BY <1>1, <1>2 DEF Writer
<1> HIDE DEF r
<1>4. Asked(r)
  BY <1>1, <1>3 DEF Asked, Working
<1>5. Holds(r)
  BY <1>1, <1>3 DEF Holds, HoldsAt, base
<1>6. asked # 0
  BY <1>1 DEF ContentInv, Fresh
<1>7. \A v \in Writers \ {w} : /\ ws[v].pc \notin Working
                               /\ ws[w].op = "create" => ws[v].pc = "idle"
  BY <1>1 DEF ContentInv, Alone, Working
<1> QED BY <1>1, <1>3, <1>4, <1>5, <1>6, <1>7, MoveKeeps

\* The entries a write of the document may leave behind.
LEMMA PutType ==
  ASSUME NEW p \in UNION {Patch(n) : n \in Values}
  PROVE  /\ Put(p.content) \subseteq Fields \X Values
         /\ \A f \in DOMAIN p.content : <<f, p.content[f]>> \in Put(p.content)
BY PatchType DEF Put

LEMMA WriteDocKeeps ==
  ASSUME ContentInv, NEW w \in Writers, WriteDoc(w)
  PROVE  ContentInv'
<1> DEFINE p == ws[w].patch
           c == p.content
           base == ws[w].base
           merged == Merge(base, c)
           r == [ws[w] EXCEPT !.pc = "written", !.base = Blank]
<1>1. /\ TypeOK /\ ws[w] \in Writer /\ Asked(ws[w]) /\ Holds(ws[w])
      /\ p \in UNION {Patch(n) : n \in Values} /\ base \in Contents
      /\ ws[w].pc = "read" /\ ws[w].new \in Row /\ Move(w, r)
      /\ doc' = [rev |-> ws[w].new.rev, content |-> merged]
      /\ stray' = stray \cup Put(c) /\ bare' = FALSE
      /\ UNCHANGED <<kind, row, rd, asked, faults, kept>>
  BY OfOne DEF WriteDoc, Working, Writer
<1>2. /\ merged \in Contents
      /\ \A f \in Fields : merged[f] = IF f \in DOMAIN c THEN c[f] ELSE base[f]
      /\ DOMAIN c = {} => merged = base
  BY <1>1, MergeType
<1>3. /\ ws[w].op \in {"update", "rename", "create"} /\ base = doc.content
      /\ ws[w].op # "update" => DOMAIN c = {}
      /\ DOMAIN c \subseteq Fields
  BY <1>1, PatchType DEF Holds, HoldsAt, Asked, Working
<1> HIDE DEF merged
<1>4. doc' \in Doc /\ doc'.rev = ws[w].new.rev /\ doc'.content = merged
  BY <1>1, <1>2 DEF Doc, Row
<1>5. stray' \subseteq Fields \X Values /\ \A f \in DOMAIN c : <<f, c[f]>> \in stray'
  BY <1>1, PutType DEF TypeOK
<1>6. /\ r \in Writer /\ r.pc = "written" /\ r.op = ws[w].op
      /\ r.patch = p /\ r.from = ws[w].from /\ r.new = ws[w].new
  BY <1>1, BlankType DEF Writer
<1> HIDE DEF r
<1>7. ws[w].op \in {"update", "rename"} => row.live /\ ws[w].new.rev = row.rev + 1
  BY <1>1 DEF Holds, HoldsAt
<1>8. ws[w].op = "create" => ~row.live /\ rd.pc = "idle" /\ doc.content = Blank
  BY <1>1 DEF Holds, HoldsAt
<1>9. DocumentAtRow'
  BY <1>1, <1>3, <1>4, <1>7, <1>8 DEF DocumentAtRow
<1>10. ContentKept'
  <2> SUFFICES ASSUME row.live, NEW f \in Fields
               PROVE  merged[f] = kept[f] \/ <<f, merged[f]>> \in stray'
    BY <1>1, <1>4 DEF ContentKept
  <2>1. CASE f \in DOMAIN c
    BY <1>2, <1>5, <2>1
  <2>2. CASE f \notin DOMAIN c
    <3>1. doc.content[f] = kept[f] \/ <<f, doc.content[f]>> \in stray
      BY DEF ContentInv, ContentKept
    <3> QED BY <1>1, <1>2, <1>3, <2>2, <3>1
  <2> QED BY <2>1, <2>2
<1>11. (VersionsFollowRevisions /\ LinksOfContent /\ ReaderBehind)'
  BY <1>1 DEF ContentInv, VersionsFollowRevisions, LinksOfContent, ReaderBehind
<1>12. ContentNotOlder'
  <2> SUFFICES ASSUME rd.pc = "doc" PROVE doc'.rev >= rd.rev
    BY <1>1 DEF ContentNotOlder
  <2>1. row.live /\ ws[w].new.rev = row.rev + 1
    BY <1>3, <1>7, <1>8
  <2>2. rd.rev <= row.rev /\ rd.rev \in Nat /\ row.rev \in Nat
    BY <1>1, <2>1 DEF ContentInv, ReaderBehind, TypeOK, Row
  <2> QED BY <1>4, <2>1, <2>2
<1>13. Asked(r)
  BY <1>1, <1>6 DEF Asked, Working
<1>14. HoldsAt(r, row', doc', kept', bare', rd')
  <2>1. \A f \in DOMAIN c : merged[f] = c[f]
    BY <1>2, <1>3
  <2>2. ws[w].op = "create" => merged = Blank
    BY <1>2, <1>3, <1>8
  <2>3. /\ row' = row /\ kept' = kept /\ rd' = rd /\ ~bare' /\ r.pc # "read"
        /\ HoldsAt(ws[w], row, doc, kept, bare, rd)
    BY <1>1, <1>6 DEF Holds
  <2> QED BY <1>3, <1>4, <1>6, <2>1, <2>2, <2>3 DEF HoldsAt
<1>15. asked # 0
  BY <1>1 DEF ContentInv, Fresh
<1>16. \A v \in Writers \ {w} : /\ ws[v].pc \notin Working
                                /\ ws[w].op = "create" => ws[v].pc = "idle"
  BY <1>1 DEF ContentInv, Alone, Working
<1>17. /\ row' \in Row /\ asked' \in 0..MaxRequests /\ faults' \in 0..MaxFaults
       /\ kept' \in Contents /\ bare' \in BOOLEAN /\ kind' = kind /\ rd' = rd /\ asked' # 0
  BY <1>1, <1>15 DEF TypeOK
<1>18. (/\ DocumentAtRow /\ ContentKept /\ VersionsFollowRevisions /\ LinksOfContent
        /\ ContentNotOlder /\ ReaderBehind)'
  BY <1>9, <1>10, <1>11, <1>12
<1>19. Move(w, r)
  BY <1>1 DEF r
<1> HIDE DEF p, c, base
<1> QED BY <1>4, <1>5, <1>6, <1>13, <1>14, <1>16, <1>17, <1>18, <1>19, StepKeeps

LEMMA DeleteDocKeeps ==
  ASSUME ContentInv, NEW w \in Writers, DeleteDoc(w)
  PROVE  ContentInv'
<1> DEFINE r == [ws[w] EXCEPT !.pc = "written"]
<1>1. /\ TypeOK /\ ws[w] \in Writer /\ Asked(ws[w]) /\ Holds(ws[w])
      /\ ws[w].pc = "row" /\ ws[w].op = "delete" /\ Move(w, r)
      /\ doc' = NoDoc /\ bare' = TRUE /\ stray' = stray \cup Put(Blank)
      /\ UNCHANGED <<kind, row, rd, asked, faults, kept>>
  BY OfOne DEF DeleteDoc, Working
<1>2. /\ Put(Blank) \subseteq Fields \X Values
      /\ \A f \in Fields : <<f, Blank[f]>> \in Put(Blank)
  <2>1. DOMAIN Blank = Fields
    BY DEF Blank
  <2> QED BY <2>1, BlankType DEF Put
<1>3. doc' \in Doc /\ doc'.content = Blank
  BY <1>1, BlankType DEF Doc, NoDoc
<1>4. /\ r \in Writer /\ r.pc = "written" /\ r.op = "delete"
      /\ r.patch = ws[w].patch /\ r.from = ws[w].from /\ r.new = ws[w].new
  BY <1>1 DEF Writer
<1> HIDE DEF r
<1>5. (DocumentAtRow /\ ContentNotOlder)'
  BY <1>1 DEF DocumentAtRow, ContentNotOlder
<1>6. ContentKept'
  BY <1>1, <1>2, <1>3 DEF ContentKept
<1>7. (VersionsFollowRevisions /\ LinksOfContent /\ ReaderBehind)'
  BY <1>1 DEF ContentInv, VersionsFollowRevisions, LinksOfContent, ReaderBehind
<1>8. Asked(r)
  BY <1>1, <1>4 DEF Asked, Working
<1>9. HoldsAt(r, row', doc', kept', bare', rd')
  BY <1>1, <1>4 DEF Holds, HoldsAt
<1>10. asked # 0
  BY <1>1 DEF ContentInv, Fresh
<1>11. \A v \in Writers \ {w} : ws[v].pc \notin Working
  BY <1>1 DEF ContentInv, Alone, Working
<1>12. /\ row' \in Row /\ asked' \in 0..MaxRequests /\ faults' \in 0..MaxFaults
       /\ kept' \in Contents /\ bare' \in BOOLEAN /\ kind' = kind /\ rd' = rd /\ asked' # 0
       /\ stray' \subseteq Fields \X Values
  BY <1>1, <1>2, <1>10 DEF TypeOK
<1> QED BY <1>1, <1>3, <1>4, <1>5, <1>6, <1>7, <1>8, <1>9, <1>11, <1>12, StepKeeps

LEMMA CommitKeeps ==
  ASSUME ContentInv, NEW w \in Writers, Commit(w)
  PROVE  ContentInv'
<1> DEFINE p == ws[w].patch
           c == p.content
           new == ws[w].new
           op == ws[w].op
<1>1. /\ TypeOK /\ ws[w] \in Writer /\ Asked(ws[w]) /\ Holds(ws[w])
      /\ p \in UNION {Patch(n) : n \in Values} /\ new \in Row /\ kept \in Contents
      /\ ws[w].pc = "written" /\ Move(w, IdleWriter)
      /\ row' = new /\ kept' = Merge(kept, c)
      /\ stray' = {q \in stray : q[1] \notin DOMAIN c}
      /\ UNCHANGED <<kind, doc, rd, asked, faults, bare>>
  BY OfOne DEF Commit, Working, Writer, TypeOK
<1>2. /\ kept' \in Contents
      /\ \A f \in Fields : kept'[f] = IF f \in DOMAIN c THEN c[f] ELSE kept[f]
      /\ DOMAIN c = {} => kept' = kept
  BY <1>1, MergeType
<1>3. /\ op \in {"update", "rename", "delete", "create"} /\ DOMAIN c \subseteq Fields
      /\ op # "update" => DOMAIN c = {}
      /\ op \in {"rename", "delete"} => kind = "page"
  BY <1>1, PatchType DEF Asked, Working
<1>4. stray' \subseteq Fields \X Values
      /\ \A f \in Fields : \A x : f \notin DOMAIN c /\ <<f, x>> \in stray => <<f, x>> \in stray'
  BY <1>1 DEF TypeOK
<1>5. op # "delete" => doc.rev = new.rev /\ \A f \in DOMAIN c : doc.content[f] = c[f]
  BY <1>1 DEF Holds, HoldsAt
<1>6. op \in {"update", "rename"} =>
          /\ row.live /\ new.rev = row.rev + 1
          /\ kind = "resource" => new.versions = [n \in 1..new.rev |-> n]
          /\ new.links = IF "links" \in DOMAIN c THEN c["links"]
                         ELSE IF kind = "page" THEN row.links ELSE 0
  BY <1>1 DEF Holds, HoldsAt
<1>7. op = "delete" => ~new.live
  BY <1>1, RowTypes DEF Holds, HoldsAt
<1>8. op = "create" => new = NewRow /\ kept = Blank /\ rd.pc = "idle" /\ doc.content = Blank
  BY <1>1 DEF Holds, HoldsAt
<1>9. DocumentAtRow'
  BY <1>1, <1>3, <1>5, <1>7 DEF DocumentAtRow
<1>10. ContentKept'
  <2> SUFFICES ASSUME new.live, NEW f \in Fields
               PROVE  doc.content[f] = kept'[f] \/ <<f, doc.content[f]>> \in stray'
    BY <1>1 DEF ContentKept
  <2>1. CASE f \in DOMAIN c
    BY <1>2, <1>3, <1>5, <2>1
  <2>2. CASE f \notin DOMAIN c /\ op = "create"
    BY <1>2, <1>8, <2>2
  <2>3. CASE f \notin DOMAIN c /\ op \in {"update", "rename"}
    <3>1. doc.content[f] = kept[f] \/ <<f, doc.content[f]>> \in stray
      BY <1>6, <2>3 DEF ContentInv, ContentKept
    <3> QED BY <1>2, <1>4, <2>3, <3>1
  <2> QED BY <1>3, <1>7, <2>1, <2>2, <2>3
<1>11. VersionsFollowRevisions'
  <2> SUFFICES ASSUME new.live, kind = "resource"
               PROVE  new.versions = [n \in 1..new.rev |-> n]
    BY <1>1 DEF VersionsFollowRevisions
  <2>1. CASE op = "create"
    <3>1. <<1>> = [n \in 1..1 |-> n]
      OBVIOUS
    <3> QED BY <1>8, <2>1, <3>1, RowTypes
  <2> QED BY <1>3, <1>6, <1>7, <2>1
<1>12. LinksOfContent'
  <2> SUFFICES ASSUME new.live
               PROVE  new.links = kept'["links"] \/ (kind = "resource" /\ new.links = 0)
    BY <1>1 DEF LinksOfContent
  <2>1. "links" \in Fields
    BY DEF Fields
  <2>2. CASE op = "create"
    BY <1>2, <1>3, <1>8, <2>1, <2>2, RowTypes, BlankType
  <2>3. CASE op \in {"update", "rename"}
    <3>1. kind \in {"page", "resource"}
          /\ (row.links = kept["links"] \/ (kind = "resource" /\ row.links = 0))
      BY <1>1, <1>6, <2>3 DEF ContentInv, LinksOfContent, TypeOK
    <3> QED BY <1>2, <1>6, <2>1, <2>3, <3>1
  <2> QED BY <1>3, <1>7, <2>2, <2>3
<1>13. ContentNotOlder'
  BY <1>1 DEF ContentInv, ContentNotOlder
<1>14. ReaderBehind'
  <2> SUFFICES ASSUME new.live, rd.pc = "doc" PROVE rd.rev <= new.rev
    BY <1>1 DEF ReaderBehind
  <2>1. op \in {"update", "rename"}
    BY <1>3, <1>7, <1>8
  <2>2. rd.rev <= row.rev /\ rd.rev \in Nat /\ row.rev \in Nat /\ new.rev = row.rev + 1
    BY <1>1, <1>6, <2>1 DEF ContentInv, ReaderBehind, TypeOK, Row
  <2> QED BY <2>2
<1>15. asked # 0
  BY <1>1 DEF ContentInv, Fresh
<1>16. \A v \in Writers \ {w} : ws[v].pc \notin Working
  BY <1>1 DEF ContentInv, Alone, Working
<1>17. IdleWriter.pc \notin Working /\ IdleWriter \in Writer /\ Asked(IdleWriter)
  BY IdleType, IdleAsked DEF Working
<1>18. /\ row' \in Row /\ doc' \in Doc /\ asked' \in 0..MaxRequests /\ faults' \in 0..MaxFaults
       /\ bare' \in BOOLEAN /\ kind' = kind /\ rd' = rd /\ asked' # 0
  BY <1>1, <1>15 DEF TypeOK
<1>19. (/\ DocumentAtRow /\ ContentKept /\ VersionsFollowRevisions /\ LinksOfContent
        /\ ContentNotOlder /\ ReaderBehind)'
  BY <1>9, <1>10, <1>11, <1>12, <1>13, <1>14
<1> HIDE DEF p, c, new, op
<1> QED BY <1>1, <1>2, <1>4, <1>16, <1>17, <1>18, <1>19, StepKeeps

LEMMA FailKeeps ==
  ASSUME ContentInv, NEW w \in Writers, Fail(w)
  PROVE  ContentInv'
<1>1. faults' \in 0..MaxFaults
  BY BoundsAreNaturals DEF Fail, ContentInv, TypeOK
<1> QED BY <1>1, GivingUpKeeps DEF Fail

\* A reader, or nobody, makes a step.
LEMMA ReadKeeps ==
  ASSUME ContentInv, Read \/ UNCHANGED vars
  PROVE  ContentInv'
<1>1. /\ UNCHANGED <<kind, row, doc, ws, asked, faults, kept, stray, bare>>
      /\ \/ rd' = rd
         \/ rd' = IdleReader
         \/ row.live /\ rd' = [pc |-> "doc", rev |-> row.rev]
  BY DEF Read, GetRow, GetDoc, vars
<1>2. rd'.pc \in {"idle", "doc"} /\ rd'.rev \in Nat
  BY <1>1 DEF ContentInv, TypeOK, IdleReader, Row
<1>3. TypeOK'
  BY <1>1, <1>2 DEF ContentInv, TypeOK
<1>4. (DocumentAtRow /\ ContentKept /\ VersionsFollowRevisions /\ LinksOfContent /\ Alone)'
  BY <1>1 DEF ContentInv, DocumentAtRow, ContentKept, VersionsFollowRevisions, LinksOfContent,
              Alone
<1>5. ReaderBehind' /\ ContentNotOlder'
  <2>1. row.rev \in Nat /\ doc.rev \in Nat
    BY DEF ContentInv, TypeOK, Row, Doc
  <2>2. CASE rd' = rd
    BY <1>1, <2>2 DEF ContentInv, ReaderBehind, ContentNotOlder
  <2>3. CASE rd' = IdleReader
    BY <2>3 DEF IdleReader, ReaderBehind, ContentNotOlder
  <2>4. CASE row.live /\ rd' = [pc |-> "doc", rev |-> row.rev]
    BY <1>1, <2>1, <2>4 DEF ContentInv, DocumentAtRow, ReaderBehind, ContentNotOlder
  <2> QED BY <1>1, <2>2, <2>3, <2>4
<1>6. Fresh'
  BY <1>1 DEF ContentInv, Fresh, IdleReader
<1>7. \A w \in Writers : (Asked(ws[w]) /\ (ws[w].pc \in Working => Holds(ws[w])))'
  <2>1. \A w \in Writers : Asked(ws[w])'
    BY <1>1 DEF ContentInv, Asked
  <2>2. \A w \in Writers : ws[w].pc \in Working => Holds(ws[w])'
    <3> SUFFICES ASSUME NEW w \in Writers, ws[w].pc \in Working
                 PROVE  Holds(ws[w])'
      OBVIOUS
    <3>1. Holds(ws[w])
      BY DEF ContentInv
    <3>2. ws[w].op = "create" => rd'.pc = "idle"
      BY <1>1, <3>1 DEF Holds, HoldsAt, IdleReader
    <3> QED BY <1>1, <3>1, <3>2 DEF Holds, HoldsAt, NewRow
  <2> QED BY <1>1, <2>1, <2>2
<1> QED BY <1>3, <1>4, <1>5, <1>6, <1>7 DEF ContentInv

-----------------------------------------------------------------------------
(* The theorems                                                            *)

LEMMA InitKeeps == ASSUME Init PROVE ContentInv
<1>1. /\ kind \in {"page", "resource"} /\ ws = [w \in Writers |-> IdleWriter]
      /\ rd = IdleReader /\ asked = 0 /\ faults = 0 /\ kept = Blank /\ stray = {} /\ bare = FALSE
      /\ \/ row = NoRow /\ doc = NoDoc
         \/ row = NewRow /\ doc = [rev |-> 1, content |-> Blank]
  BY DEF Init
<1>2. /\ row \in Row /\ doc \in Doc /\ doc.content = Blank
      /\ row.live => /\ doc.rev = row.rev /\ row.rev = 1 /\ row.links = 0
                     /\ kind = "resource" => row.versions = <<1>>
  BY <1>1, RowTypes, BlankType DEF Doc, NoDoc
<1>3. TypeOK
  <2>1. asked \in 0..MaxRequests /\ faults \in 0..MaxFaults
    BY <1>1, BoundsAreNaturals
  <2>2. ws \in [Writers -> Writer]
    BY <1>1, IdleType
  <2>3. rd.pc \in {"idle", "doc"} /\ rd.rev \in Nat
    BY <1>1 DEF IdleReader
  <2>4. kept \in Contents /\ stray \subseteq Fields \X Values /\ bare \in BOOLEAN
    BY <1>1, BlankType
  <2> QED BY <1>1, <1>2, <2>1, <2>2, <2>3, <2>4 DEF TypeOK
<1>4. <<1>> = [n \in 1..1 |-> n] /\ "links" \in Fields
  BY DEF Fields
<1>5. DocumentAtRow /\ ContentKept /\ VersionsFollowRevisions /\ LinksOfContent
  BY <1>1, <1>2, <1>4, BlankType
     DEF DocumentAtRow, ContentKept, VersionsFollowRevisions, LinksOfContent
<1>6. ContentNotOlder /\ ReaderBehind
  BY <1>1 DEF ContentNotOlder, ReaderBehind, IdleReader
<1>7. Alone /\ Fresh
  BY <1>1, IdleType DEF Alone, Fresh, Working, IdleReader
<1>8. \A w \in Writers : Asked(ws[w]) /\ ws[w].pc \notin Working
  BY <1>1, IdleType, IdleAsked DEF Working
<1> QED BY <1>3, <1>5, <1>6, <1>7, <1>8 DEF ContentInv

LEMMA NextKeeps == ASSUME ContentInv, [Next]_vars PROVE ContentInv'
<1>1. ASSUME NEW w \in Writers, Write(w) PROVE ContentInv'
  BY <1>1, LoadKeeps, InsertKeeps, ChangeRowKeeps, ReadDocKeeps, WriteDocKeeps, DeleteDocKeeps,
     CommitKeeps, FailKeeps DEF Write, Finish
<1>2. CASE Read \/ UNCHANGED vars
  BY <1>2, ReadKeeps
<1> QED BY <1>1, <1>2 DEF Next, Done

LEMMA ContentInvariant == Spec => []ContentInv
BY InitKeeps, NextKeeps, PTL DEF Spec

\* Row, document, versions and links of a page or a resource fit together
\* after whatever writes, failures and deletes met (pages/repo.go,
\* resources/repo.go).
THEOREM ContentIsSound == Spec => []ContentSound
<1>1. ContentInv => ContentSound
  BY DEF ContentInv, ContentSound
<1> QED BY <1>1, ContentInvariant, PTL

\* Who has read a revision of the row finds content at least as new, unless a
\* delete took it (GetPage, GetResource read the row first).
THEOREM ReadersFindNewContent == Spec => []ContentNotOlder
<1>1. ContentInv => ContentNotOlder
  BY DEF ContentInv
<1> QED BY <1>1, ContentInvariant, PTL

\* The content of an archived item changes only by requests that loaded it
\* while it was live (the checks of pages/service.go and resources/service.go
\* come before the transaction).
THEOREM OnlyStaleEdits == Spec => ArchivedEditsAreStale
<1>1. ASSUME ContentInv, [Next]_vars, kept' # kept
      PROVE  \E w \in Writers : ws[w].pc = "written" /\ ws'[w].pc = "idle"
                                /\ ws[w].from = "Live"
  <2>1. PICK w \in Writers : Commit(w)
    BY <1>1 DEF Next, Done, vars, Write, Finish, Read, Load, InsertRow, ChangeRow, ReadDoc,
                WriteDoc, DeleteDoc, Fail, GetRow, GetDoc
  <2>2. /\ ws[w] \in Writer /\ Asked(ws[w]) /\ kept \in Contents
        /\ ws[w].patch \in UNION {Patch(n) : n \in Values}
        /\ ws[w].pc = "written" /\ kept' = Merge(kept, ws[w].patch.content)
        /\ ws' = [ws EXCEPT ![w] = IdleWriter] /\ ws \in [Writers -> Writer]
    BY <1>1, <2>1, OfOne DEF Commit, Move, TypeOK
  <2>3. DOMAIN ws[w].patch.content # {}
    BY <1>1, <2>2, MergeType
  <2>4. ws[w].from # "Archived"
    BY <2>2, <2>3 DEF Asked
  <2>5. ws[w].from \in Statuses /\ ws'[w].pc = "idle"
    BY <2>2, IdleType DEF Writer
  <2> QED BY <2>2, <2>4, <2>5 DEF Statuses
<1>2. ASSUME ContentInv, [Next]_vars
      PROVE  kept' # kept /\ row.status = "Archived"
               => \E w \in Writers : ws[w].pc = "written" /\ ws'[w].pc = "idle"
                                     /\ ws[w].from = "Live"
  BY <1>1, <1>2
<1> QED BY <1>2, ContentInvariant, PTL DEF Spec, ArchivedEditsAreStale

=============================================================================
