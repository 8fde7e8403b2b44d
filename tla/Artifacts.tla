------------------------------ MODULE Artifacts ------------------------------
(***************************************************************************)
(* Concurrent PATCH and POST handlers of internal/modules/artifacts.       *)
(*                                                                         *)
(* An update reads the artifact outside any transaction and checks the     *)
(* request against what it read (service.go), then opens a transaction     *)
(* (storage.WithTx): link checks, UPDATE of the row (which waits for the   *)
(* row lock and evaluates its own WHERE), merge of the patch into the      *)
(* Mongo document, activity log INSERT, COMMIT.  The document store is not *)
(* part of the transaction.                                                *)
(*                                                                         *)
(* row[a] is the committed row of artifact a, doc[a] its document.  The    *)
(* content of an edit is identified by the document revision it was made   *)
(* at (body).                                                              *)
(***************************************************************************)
EXTENDS ArtifactRules, FiniteSets

CONSTANTS
    Arts,       \* artifacts of one project
    Kind,       \* Kind[a]: the kind of a
    Handlers,   \* concurrent requests
    Faults,     \* failures explored: "tx", "log"
    MaxRev      \* bound: revisions explored of each artifact

ASSUME KindAssumption == Kind \in [Arts -> Kinds]
ASSUME NoneAssumption == None \notin Arts
ASSUME FaultsAssumption == Faults \subseteq {"tx", "log"}
ASSUME MaxRevAssumption == MaxRev \in [Arts -> Nat]

VARIABLES row, doc, hs

vars == <<row, doc, hs>>

Row == [status : AllStatuses \cup {"Absent"}, was : AllStatuses \cup {""},
        link : Arts \cup {None}, rev : Nat, body : Nat]

Doc == [rev : Nat, body : Nat]

NoRow == [status |-> "Absent", was |-> "", link |-> None, rev |-> 0, body |-> 0]
NoDoc == [rev |-> 0, body |-> 0]

Parents(kind) ==
    CASE kind = "problem"  -> {"story", "journey"}
      [] kind = "idea"     -> {"problem"}
      [] kind = "task"     -> {"idea"}
      [] kind = "feedback" -> {"task"}
      [] OTHER             -> {}

Patch == [status : AllStatuses \cup {""}, edit : BOOLEAN, link : Arts \cup {None}]

\* the bodies a client may send for a
Patches(a) ==
    {p \in Patch : p.link # None =>
        Kind[p.link] \in Parents(Kind[a]) /\ row[p.link].status # "Absent"}

NoPatch == [status |-> "", edit |-> FALSE, link |-> None]

Handler == [pc : {"idle", "link", "update", "sources", "document", "record", "commit"},
            art : Arts \cup {None}, patch : Patch, from : AllStatuses \cup {""},
            new : Row, aborted : BOOLEAN,
            answer : {"none", "ok", "rejected", "notFound", "failed"}]

Idle(ans) == [pc |-> "idle", art |-> None, patch |-> NoPatch, from |-> "",
              new |-> NoRow, aborted |-> FALSE, answer |-> ans]

Init ==
    /\ row = [a \in Arts |-> NoRow]
    /\ doc = [a \in Arts |-> NoDoc]
    /\ hs = [h \in Handlers |-> Idle("none")]

\* transactions that have written the row of a and are still open
Writing(a) == {h \in Handlers :
    hs[h].art = a /\ hs[h].pc \in {"sources", "document", "record", "commit"}}

Serving(a) == {h \in Handlers : hs[h].art = a}

Finish(h, ans) == hs' = [hs EXCEPT ![h] = Idle(ans)]

Goto(h, pc) == hs' = [hs EXCEPT ![h] = [@ EXCEPT !.pc = pc]]

-----------------------------------------------------------------------------
(* CreateX: INSERT in a transaction, then the document.                    *)

Create(h, kind) ==
    /\ hs[h].pc = "idle"
    /\ \E a \in Arts :
         /\ Kind[a] = kind /\ row[a].status = "Absent" /\ Serving(a) = {}
         /\ hs' = [hs EXCEPT ![h] =
                     [Idle("none") EXCEPT !.pc = "document", !.art = a,
                        !.patch = [NoPatch EXCEPT !.edit = TRUE],
                        !.new = [NoRow EXCEPT !.status = Initial(kind),
                                              !.rev = 1, !.body = 1]]]
    /\ UNCHANGED <<row, doc>>

CreateStory(h)    == Create(h, "story")
CreateJourney(h)  == Create(h, "journey")
CreateProblem(h)  == Create(h, "problem")
CreateIdea(h)     == Create(h, "idea")
CreateTask(h)     == Create(h, "task")
CreateFeedback(h) == Create(h, "feedback")

-----------------------------------------------------------------------------
(* UpdateX, service layer: Validate, GetX, immutability and transition map *)

Load(h, kind, first) ==
    /\ hs[h].pc = "idle"
    /\ \E a \in Arts : \E p \in Patches(a) :
         /\ Kind[a] = kind /\ row[a].status # "Absent"
         /\ IF ServiceAccepts(kind, row[a].status, p)
            THEN /\ row[a].rev + Cardinality(Serving(a)) < MaxRev[a]
                 /\ hs' = [hs EXCEPT ![h] =
                             [Idle("none") EXCEPT !.pc = IF p.link = None THEN "update" ELSE first,
                                                  !.art = a, !.patch = p,
                                                  !.from = row[a].status]]
            ELSE Finish(h, "rejected")
    /\ UNCHANGED <<row, doc>>

LoadStory(h)    == Load(h, "story", "update")
LoadJourney(h)  == Load(h, "journey", "update")
LoadProblem(h)  == Load(h, "problem", "update")
LoadIdea(h)     == Load(h, "idea", "link")
LoadTask(h)     == Load(h, "task", "link")
LoadFeedback(h) == Load(h, "feedback", "update")

-----------------------------------------------------------------------------
(* UpdateX, repository layer, inside the transaction.                      *)

\* ensureProblemLocked, ensureIdeaSelectedForTask: a SELECT without a lock
CheckLink(h, kind, required) ==
    /\ hs[h].pc = "link" /\ Kind[hs[h].art] = kind
    /\ IF row[hs[h].patch.link].status = required
       THEN Goto(h, "update")
       ELSE Finish(h, "rejected")
    /\ UNCHANGED <<row, doc>>

CheckProblemLocked(h) == CheckLink(h, "idea", "Locked")
CheckIdeaSelected(h)  == CheckLink(h, "task", "Selected")

\* the row after SET; only feedback loses its link when the body has none
Updated(kind, r, p) ==
    [status |-> NewStatus(kind, r, p),
     was    |-> NewWas(r, p),
     link   |-> IF p.link # None \/ kind = "feedback" THEN p.link ELSE r.link,
     rev    |-> r.rev + 1,
     body   |-> IF p.edit THEN r.rev + 1 ELSE r.body]

Statement(h, kind, matches, next) ==
    /\ hs[h].pc = "update" /\ Kind[hs[h].art] = kind
    /\ Writing(hs[h].art) = {}
    /\ IF matches
       THEN hs' = [hs EXCEPT ![h] =
                     [@ EXCEPT !.pc = next,
                               !.new = Updated(kind, row[hs[h].art], hs[h].patch)]]
       ELSE Finish(h, "notFound")
    /\ UNCHANGED <<row, doc>>

\* the linked artifact the statement's EXISTS looks at
Linked(h) == IF hs[h].patch.link # None THEN hs[h].patch.link ELSE row[hs[h].art].link

LinkedIs(h, status) == Linked(h) # None /\ row[Linked(h)].status = status

UpdateStory(h) ==
    Statement(h, "story", LockableRow(row[hs[h].art], hs[h].patch), "document")
UpdateJourney(h) ==
    Statement(h, "journey", LockableRow(row[hs[h].art], hs[h].patch), "document")
UpdateProblem(h) ==
    Statement(h, "problem", LockableRow(row[hs[h].art], hs[h].patch),
              IF hs[h].patch.link = None THEN "document" ELSE "sources")
UpdateIdea(h) ==
    Statement(h, "idea",
              IdeaRow(row[hs[h].art], hs[h].patch, LinkedIs(h, "Locked")), "document")
UpdateTask(h) ==
    Statement(h, "task",
              TaskRow(row[hs[h].art], hs[h].patch, LinkedIs(h, "Rejected")), "document")
UpdateFeedback(h) ==
    Statement(h, "feedback", TRUE, "document")

\* replaceProblemSourceLinks: the sources of a problem must be Locked
LinkSources(h) ==
    /\ hs[h].pc = "sources"
    /\ IF row[hs[h].patch.link].status = "Locked"
       THEN Goto(h, "document")
       ELSE Finish(h, "rejected")
    /\ UNCHANGED <<row, doc>>

\* mutant: the document keeps its revision
WriteUnversioned(h) ==
    /\ hs[h].pc = "document"
    /\ doc' = [doc EXCEPT ![hs[h].art] = [rev |-> 1, body |-> hs[h].new.body]]
    /\ Goto(h, "record")
    /\ UNCHANGED row

\* upsertDocument: find_one, shallow merge, update_one, serialised by the row
\* lock but visible before the commit
WriteDocument(h) ==
    /\ hs[h].pc = "document"
    /\ doc' = [doc EXCEPT ![hs[h].art] =
                 [rev  |-> hs[h].new.rev,
                  body |-> IF hs[h].patch.edit THEN hs[h].new.body
                           ELSE doc[hs[h].art].body]]
    /\ Goto(h, "record")
    /\ UNCHANGED row

\* logActivity: its error is dropped, but a failed statement aborts the
\* transaction it runs in
RecordActivity(h) ==
    /\ hs[h].pc = "record"
    /\ \E failed \in BOOLEAN :
         /\ failed => "log" \in Faults
         /\ hs' = [hs EXCEPT ![h] = [@ EXCEPT !.pc = "commit", !.aborted = failed]]
    /\ UNCHANGED <<row, doc>>

\* COMMIT; of an aborted transaction it is a rollback and an error
Commit(h) ==
    /\ hs[h].pc = "commit"
    /\ IF hs[h].aborted
       THEN Finish(h, "failed") /\ UNCHANGED row
       ELSE /\ Finish(h, "ok")
            /\ row' = [row EXCEPT ![hs[h].art] = hs[h].new]
    /\ UNCHANGED doc

\* a statement, the document store or the commit fails, the request's context
\* ends or the process stops: the transaction is rolled back
RollBack(h) ==
    /\ "tx" \in Faults
    /\ hs[h].pc # "idle"
    /\ Finish(h, "failed")
    /\ UNCHANGED <<row, doc>>

Service(h) ==
    \/ CreateStory(h) \/ CreateJourney(h) \/ CreateProblem(h)
    \/ CreateIdea(h) \/ CreateTask(h) \/ CreateFeedback(h)
    \/ LoadStory(h) \/ LoadJourney(h) \/ LoadProblem(h)
    \/ LoadIdea(h) \/ LoadTask(h) \/ LoadFeedback(h)

Repository(h) ==
    \/ CheckProblemLocked(h) \/ CheckIdeaSelected(h)
    \/ UpdateStory(h) \/ UpdateJourney(h) \/ UpdateProblem(h)
    \/ UpdateIdea(h) \/ UpdateTask(h) \/ UpdateFeedback(h)
    \/ LinkSources(h) \/ WriteDocument(h) \/ RecordActivity(h) \/ Commit(h)

Next == \E h \in Handlers : Service(h) \/ Repository(h) \/ RollBack(h)

Spec == Init /\ [][Next]_vars

-----------------------------------------------------------------------------
TypeOK ==
    /\ row \in [Arts -> Row]
    /\ doc \in [Arts -> Doc]
    /\ hs \in [Handlers -> Handler]

(* The document of an artifact is never behind its committed row and at     *)
(* most one revision ahead of it: upsertDocument runs before the commit,    *)
(* under the row lock, and a rolled-back revision number is used again.     *)
DocumentNearRow ==
    \A a \in Arts : row[a].rev <= doc[a].rev /\ doc[a].rev <= row[a].rev + 1

(* Rows, documents and requests are well typed, no UPDATE having written an *)
(* empty or unknown status, and a document is at its row: both of the above. *)
DocumentSound == TypeOK /\ DocumentNearRow

(* docs/workflows/artifacts.md "Immutable-state protections are enforced in *)
(* service before repo update": content and links of a Locked, Selected,    *)
(* Rejected, Archived, Completed or Abandoned artifact do not change.       *)
ImmutableKept ==
    [][\A a \in Arts : row[a].status \in Immutable(Kind[a]) =>
          row'[a].body = row[a].body /\ row'[a].link = row[a].link]_vars

(* docs/workflows/artifacts.md "Status transition validity is enforced by   *)
(* service transition maps": committed statuses only move along the map of  *)
(* their kind.                                                              *)
TransitionsLegal ==
    [][\A a \in Arts : row[a].status # "Absent" =>
          row'[a].status \in Transitions(Kind[a], row[a].status)]_vars

(* docs/workflows/artifacts.md "Idea select endpoint has business           *)
(* precondition requiring linked locked problem": an idea that is not       *)
(* restored from the archive becomes Selected only while its problem is     *)
(* Locked.  (A restore puts archived_from_status back and asks for nothing.)*)
ChosenUnderLock ==
    [][\A a \in Arts :
          Kind[a] = "idea" /\ row'[a].status = "Selected"
            /\ row[a].status \notin {"Selected", "Archived"}
            => row'[a].link # None /\ row[row'[a].link].status = "Locked"]_vars

(* Statuses and archived_from_status follow the abstract lifecycle: restore  *)
(* goes back to where archive came from, nothing locked reopens.  For the   *)
(* lockable kinds and feedback the WHERE clauses make it so whatever the    *)
(* requests do; for ideas and tasks only the service's check does.          *)
Life == INSTANCE ArtifactLifecycle
          WITH status <- [a \in Arts |-> row[a].status],
               origin <- [a \in Arts |-> row[a].was]

FollowsLifecycle == Life!LifecycleSpec
=============================================================================
