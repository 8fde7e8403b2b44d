------------------------------ MODULE Content ------------------------------
(***************************************************************************)
(* Pages and resources: pages/service.go and pages/repo.go,                *)
(* resources/service.go and resources/repo.go.  An item is a row of        *)
(* PostgreSQL and a document of MongoDB.  A write loads the item and       *)
(* checks it outside of any transaction, then changes the row, merges its  *)
(* patch into the document and logs, inside a READ COMMITTED transaction   *)
(* that MongoDB is no part of: the document keeps what a transaction that  *)
(* is rolled back has put into it.                                         *)
(*                                                                         *)
(* Items share nothing, so one item is modelled, of either kind.  The      *)
(* number of a request stands for what it writes into a field of the       *)
(* content; 0 is the default content of a new item and a cleared list.     *)
(***************************************************************************)
EXTENDS Naturals, Sequences, FiniteSets

CONSTANTS Writers,      \* concurrent requests that write
          MaxRequests,  \* bound: writing requests ever started
          MaxFaults     \* bound: transactions that fail

ASSUME BoundsAreNaturals == MaxRequests \in Nat \ {0} /\ MaxFaults \in Nat

VARIABLES
    kind,     \* "page" or "resource"
    row,      \* the committed row, its versions and its links
    doc,      \* the document
    ws,       \* the writing requests
    rd,       \* a reading request
    asked,    \* writing requests started
    faults,   \* transactions failed
    kept,     \* history: content according to the committed writes
    stray,    \* history: <<field, value>> put into the document by requests
              \* that did not commit
    bare      \* history: a delete removed the document and nothing wrote since

vars == <<kind, row, doc, ws, rd, asked, faults, kept, stray, bare>>

Fields   == {"links", "body"}
Statuses == {"Live", "Archived"}   \* "Live" is Draft of a page, Active of a resource
Values   == 0..MaxRequests
Contents == [Fields -> Values]
Blank    == [f \in Fields |-> 0]

\* prior is archived_from_status; links is is_orphan of a page (0: an orphan)
\* and the rows of artifact_links of a resource (whose request put them).
Row == [live : BOOLEAN, status : Statuses, prior : Statuses \cup {"none"},
        rev : Nat, links : Values, versions : Seq(Nat)]
NoRow == [live |-> FALSE, status |-> "Live", prior |-> "none", rev |-> 0,
          links |-> 0, versions |-> <<>>]
NewPage     == [NoRow EXCEPT !.live = TRUE, !.rev = 1]
NewResource == [NewPage EXCEPT !.versions = <<1>>]
NewRow      == IF kind = "page" THEN NewPage ELSE NewResource

Doc   == [rev : Nat, content : Contents]
NoDoc == [rev |-> 0, content |-> Blank]

\* A patch leaves out the fields outside the domain of its content; it may
\* clear the list of links.
Patch(n) == [status : Statuses \cup {"none"},
             content : {c \in UNION {[S -> {0, n}] : S \in SUBSET Fields} :
                          "body" \in DOMAIN c => c["body"] = n}]
NoPatch  == [status |-> "none", content |-> <<>>]

Writer == [pc : {"idle", "loaded", "row", "read", "written"},
           op : {"none", "update", "rename", "delete", "create"},
           patch : UNION {Patch(n) : n \in Values},
           from : Statuses,     \* status the service loaded
           new : Row,           \* the row as the transaction leaves it
           base : Contents]     \* content read before the merge
IdleWriter == [pc |-> "idle", op |-> "none", patch |-> NoPatch, from |-> "Live",
               new |-> NoRow, base |-> Blank]
IdleReader == [pc |-> "idle", rev |-> 0]

Move(w, new) == ws' = [ws EXCEPT ![w] = new]

-----------------------------------------------------------------------------
(* Loading and checking, before the transaction                            *)

\* mutant: an immutable item may be patched like any other
AdmittedAnyPatch(op, patch, from) == op = "update" \/ from # "Archived"

\* enforceArchiveOnlyForImmutableUpdate, enforceMutableOperation: an archived
\* item takes a patch of nothing but its status.  The transition matrix has
\* every pair of the two statuses.
Admitted(op, patch, from) ==
    from = "Archived" =>
        op = "update" /\ patch.status # "none" /\ patch.content = <<>>

\* Rename and delete exist for pages alone.
Operations == IF kind = "page" THEN {"update", "rename", "delete"} ELSE {"update"}

Load(w) ==
    /\ ws[w].pc = "idle" /\ asked < MaxRequests
    /\ asked' = asked + 1
    /\ \E op \in Operations :
       \E patch \in IF op = "update" THEN Patch(asked') ELSE {NoPatch} :
           IF row.live /\ Admitted(op, patch, row.status)
           THEN Move(w, [IdleWriter EXCEPT !.pc = "loaded", !.op = op,
                                           !.patch = patch, !.from = row.status])
           ELSE UNCHANGED ws
    /\ UNCHANGED <<kind, row, doc, rd, faults, kept, stray, bare>>

-----------------------------------------------------------------------------
(* The transaction: the row                                                *)

\* Another transaction changed the row and has not ended.
Locked(w) == \E v \in Writers \ {w} : ws[v].pc \in {"row", "read", "written"}
                                      /\ ws[v].op # "create"

\* The WHERE of each statement, over the row as it is when the lock is granted.
PageMatches(patch) == row.status # "Archived" \/ patch.status # "none"

\* A resource that is live does not match a patch that says so.
ResourceMatches(patch) ==
    \/ patch.status = "none" /\ row.status # "Archived"
    \/ patch.status = "Archived"
    \/ patch.status = "Live" /\ row.status = "Archived"

Matches(op, patch) ==
    /\ row.live
    /\ \/ op \in {"rename", "delete"} /\ row.status # "Archived"
       \/ op = "update" /\ kind = "page" /\ PageMatches(patch)
       \/ op = "update" /\ kind = "resource" /\ ResourceMatches(patch)

\* is_orphan changes when the body has the list; replaceResourceLinks takes
\* the absent list of a body for an empty one.
LinksAfter(patch) ==
    IF "links" \in DOMAIN patch.content THEN patch.content["links"]
    ELSE IF kind = "page" THEN row.links ELSE 0

\* insertResourceVersion: number MAX + 1, with the revision of this update.
VersionsAfter(patch, rev) ==
    IF kind = "resource" THEN Append(row.versions, rev) ELSE row.versions

\* Archiving remembers the status, restoring goes back to it.
Updated(patch) ==
    LET restored == IF row.prior = "none" THEN "Live" ELSE row.prior
        archives == patch.status = "Archived" /\ row.status # "Archived"
        restores == patch.status = "Live" /\ row.status = "Archived"
    IN  [row EXCEPT
          !.status = IF restores THEN restored
                     ELSE IF patch.status # "none" THEN patch.status ELSE @,
          !.prior  = IF archives THEN row.status ELSE IF restores THEN "none" ELSE @,
          !.rev    = @ + 1,
          !.links  = LinksAfter(patch),
          !.versions = VersionsAfter(patch, row.rev + 1)]

\* RenamePage, DeletePageForSidebar: the title is in the row and the document.
Renamed == [row EXCEPT !.rev = @ + 1]
Deleted == NoRow

\* The statement returns no row: the transaction ends with 404.
NotFound(w) == Move(w, IdleWriter)

\* UPDATE or DELETE under the lock of the row.
ChangeRow(w) ==
    /\ ws[w].pc = "loaded" /\ ~Locked(w)
    /\ IF Matches(ws[w].op, ws[w].patch)
       THEN LET new == CASE ws[w].op = "update" -> Updated(ws[w].patch)
                         [] ws[w].op = "rename" -> Renamed
                         [] ws[w].op = "delete" -> Deleted
            IN  Move(w, [ws[w] EXCEPT !.pc = "row", !.new = new])
       ELSE NotFound(w)
    /\ UNCHANGED <<kind, row, doc, rd, asked, faults, kept, stray, bare>>

\* CreatePage, CreateResource: no other request knows the new id.  A create
\* that fails leaves a document nobody will ever ask for.
InsertRow(w) ==
    /\ ws[w].pc = "idle" /\ asked = 0 /\ row = NoRow /\ doc = NoDoc
    /\ asked' = asked + 1
    /\ Move(w, [IdleWriter EXCEPT !.pc = "row", !.op = "create", !.new = NewRow])
    /\ UNCHANGED <<kind, row, doc, rd, faults, kept, stray, bare>>

-----------------------------------------------------------------------------
(* The transaction: the document                                           *)

\* MergeShallow over the fields that matter here.
Merge(base, patch) ==
    [f \in Fields |-> IF f \in DOMAIN patch THEN patch[f] ELSE base[f]]

\* upsertDocument, loadLatestContent: a missing document reads as blank.
ReadDoc(w) ==
    /\ ws[w].pc = "row" /\ ws[w].op # "delete"
    /\ Move(w, [ws[w] EXCEPT !.pc = "read", !.base = doc.content])
    /\ UNCHANGED <<kind, row, doc, rd, asked, faults, kept, stray, bare>>

Put(patch) == {<<f, patch[f]>> : f \in DOMAIN patch}

\* mutant: the document is replaced by the patch
WriteDocOfPatch(w) ==
    /\ ws[w].pc = "read"
    /\ doc' = [rev |-> ws[w].new.rev, content |-> Merge(Blank, ws[w].patch.content)]
    /\ stray' = stray \cup Put(ws[w].patch.content)
    /\ bare' = FALSE
    /\ Move(w, [ws[w] EXCEPT !.pc = "written", !.base = Blank])
    /\ UNCHANGED <<kind, row, rd, asked, faults, kept>>

WriteDoc(w) ==
    /\ ws[w].pc = "read"
    /\ doc' = [rev |-> ws[w].new.rev, content |-> Merge(ws[w].base, ws[w].patch.content)]
    /\ stray' = stray \cup Put(ws[w].patch.content)
    /\ bare' = FALSE
    /\ Move(w, [ws[w] EXCEPT !.pc = "written", !.base = Blank])
    /\ UNCHANGED <<kind, row, rd, asked, faults, kept>>

DeleteDoc(w) ==
    /\ ws[w].pc = "row" /\ ws[w].op = "delete"
    /\ doc' = NoDoc /\ bare' = TRUE
    /\ stray' = stray \cup Put(Blank)
    /\ Move(w, [ws[w] EXCEPT !.pc = "written"])
    /\ UNCHANGED <<kind, row, rd, asked, faults, kept>>

-----------------------------------------------------------------------------
(* The end of the transaction                                              *)

\* The activity is logged and, for a create or an update of a resource, the
\* members are notified, in the same transaction.
Commit(w) ==
    /\ ws[w].pc = "written"
    /\ row' = ws[w].new
    /\ kept' = Merge(kept, ws[w].patch.content)
    /\ stray' = {p \in stray : p[1] \notin DOMAIN ws[w].patch.content}
    /\ Move(w, IdleWriter)
    /\ UNCHANGED <<kind, doc, rd, asked, faults, bare>>

\* A statement or a call of MongoDB fails, the deadline passes or the process
\* stops: the transaction is rolled back, the document is not.  A notification
\* whose failure is ignored has the same end: its transaction is aborted.
Fail(w) ==
    /\ ws[w].pc \in {"row", "read", "written"} /\ faults < MaxFaults
    /\ faults' = faults + 1
    /\ Move(w, IdleWriter)
    /\ UNCHANGED <<kind, row, doc, rd, asked, kept, stray, bare>>

-----------------------------------------------------------------------------
(* Reading                                                                 *)

\* mutant: the read runs on the connection of a write that has not ended
GetRowOfWriter ==
    /\ rd.pc = "idle" /\ row.live
    /\ \E w \in Writers : /\ ws[w].pc = "row"
                          /\ rd' = [pc |-> "doc", rev |-> ws[w].new.rev]
    /\ UNCHANGED <<kind, row, doc, ws, asked, faults, kept, stray, bare>>

\* GetPage, GetResource: the row, then its document.
GetRow ==
    /\ rd.pc = "idle" /\ row.live
    /\ rd' = [pc |-> "doc", rev |-> row.rev]
    /\ UNCHANGED <<kind, row, doc, ws, asked, faults, kept, stray, bare>>

GetDoc ==
    /\ rd.pc = "doc"
    /\ rd' = IdleReader
    /\ UNCHANGED <<kind, row, doc, ws, asked, faults, kept, stray, bare>>

-----------------------------------------------------------------------------
Init ==
    /\ kind \in {"page", "resource"}
    /\ \/ row = NoRow /\ doc = NoDoc
       \/ /\ row = NewRow
          /\ doc = [rev |-> 1, content |-> Blank]
    /\ ws = [w \in Writers |-> IdleWriter] /\ rd = IdleReader
    /\ asked = 0 /\ faults = 0
    /\ kept = Blank /\ stray = {} /\ bare = FALSE

Finish(w) == ReadDoc(w) \/ WriteDoc(w) \/ DeleteDoc(w) \/ Commit(w)
Write(w)  == Load(w) \/ InsertRow(w) \/ ChangeRow(w) \/ Finish(w) \/ Fail(w)
Read      == GetRow \/ GetDoc

\* Every request is answered and no more may come.
Done == asked = MaxRequests /\ (\A w \in Writers : ws[w].pc = "idle")
        /\ rd.pc = "idle" /\ UNCHANGED vars

Next == (\E w \in Writers : Write(w)) \/ Read \/ Done

Spec == Init /\ [][Next]_vars

-----------------------------------------------------------------------------
(* Properties                                                              *)

\* Types of the row, the document and the requests.
TypeOK ==
    /\ kind \in {"page", "resource"}
    /\ row \in Row /\ doc \in Doc
    /\ ws \in [Writers -> Writer]
    /\ rd.pc \in {"idle", "doc"} /\ rd.rev \in Nat
    /\ asked \in 0..MaxRequests /\ faults \in 0..MaxFaults
    /\ kept \in Contents /\ stray \subseteq Fields \X Values /\ bare \in BOOLEAN

\* The document is never behind the committed row and at most one revision
\* ahead of it, whatever was rolled back; it is missing only after a delete
\* took it (upsertDocument and deleteDocument run before the commit).
DocumentAtRow ==
    row.live => \/ doc.rev \in {row.rev, row.rev + 1}
                \/ doc = NoDoc /\ bare

\* Every field of the content is what the last committed write put there, or
\* what a request that did not commit left in the document: no patch undoes
\* the fields of another (MergeShallow under the lock of the row).
ContentKept ==
    row.live => \A f \in Fields :
        doc.content[f] = kept[f] \/ <<f, doc.content[f]>> \in stray

\* The version history of a resource has one entry per revision, numbered
\* like it (insertResourceVersion takes MAX + 1 under the lock of the row).
VersionsFollowRevisions ==
    row.live /\ kind = "resource" => row.versions = [k \in 1..row.rev |-> k]

\* A page is an orphan iff the committed content links nothing; the links of
\* a resource are those of its content or were wiped by a body without them.
LinksOfContent ==
    row.live => \/ row.links = kept["links"]
                \/ kind = "resource" /\ row.links = 0

\* Row, document, versions and links of an item fit together after whatever
\* writes, failures and deletes met: all of the above.
ContentSound ==
    TypeOK /\ DocumentAtRow /\ ContentKept /\ VersionsFollowRevisions /\ LinksOfContent

\* A reader that has seen a revision of the row finds content at least as
\* new, unless a delete took it (GetPage, GetResource read the row first).
ContentNotOlder ==
    rd.pc = "doc" => doc.rev >= rd.rev \/ bare

\* The content of an archived item changes only by a request that loaded it
\* while it was live: the service checks before the transaction and the WHERE
\* of a page lets any patch with a status through.
ArchivedEditsAreStale ==
    [][kept' # kept /\ row.status = "Archived"
         => \E w \in Writers : ws[w].pc = "written" /\ ws'[w].pc = "idle"
                               /\ ws[w].from = "Live"]_vars
=============================================================================
