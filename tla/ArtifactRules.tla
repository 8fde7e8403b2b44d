---------------------------- MODULE ArtifactRules ----------------------------
(***************************************************************************)
(* The rules of the design artifacts (internal/modules/artifacts): the     *)
(* statuses of each kind, the checks of the service layer and the SQL      *)
(* UPDATE statements of the repository, as operators on one row and one    *)
(* PATCH body.  A patch is a status ("" when the body has none), whether   *)
(* it edits content, and a link to another artifact (None when absent).    *)
(***************************************************************************)
EXTENDS Naturals

CONSTANT None     \* no link

Kinds == {"story", "journey", "problem", "idea", "task", "feedback"}

Lockable == {"story", "journey", "problem"}

Statuses(kind) ==
    CASE kind \in Lockable -> {"Draft", "Locked", "Archived"}
      [] kind = "idea"     -> {"Considered", "Selected", "Rejected", "Archived"}
      [] kind = "task"     -> {"Planned", "In Progress", "Completed", "Abandoned"}
      [] kind = "feedback" -> {"Active", "Archived"}

AllStatuses == UNION {Statuses(k) : k \in Kinds}

\* the status a CreateX inserts
Initial(kind) ==
    CASE kind \in Lockable -> "Draft"
      [] kind = "idea"     -> "Considered"
      [] kind = "task"     -> "Planned"
      [] kind = "feedback" -> "Active"

Immutable(kind) ==
    CASE kind \in Lockable -> {"Locked", "Archived"}
      [] kind = "idea"     -> {"Selected", "Rejected", "Archived"}
      [] kind = "task"     -> {"Completed", "Abandoned"}
      [] kind = "feedback" -> {}

-----------------------------------------------------------------------------
(* Service layer: the transition maps of the UpdateX methods and           *)
(* enforceArchiveOnlyForImmutableUpdate, evaluated on the status read      *)
(* before the transaction.                                                 *)

LockableTransitions(from) ==
    CASE from = "Draft"    -> {"Draft", "Locked", "Archived"}
      [] from = "Locked"   -> {"Locked", "Archived"}
      [] from = "Archived" -> {"Archived", "Draft", "Locked"}

IdeaTransitions(from) ==
    CASE from = "Considered" -> {"Considered", "Selected", "Rejected", "Archived"}
      [] from = "Selected"   -> {"Selected", "Rejected", "Archived"}
      [] from = "Rejected"   -> {"Rejected", "Archived"}
      [] from = "Archived"   -> {"Archived", "Considered", "Selected", "Rejected"}

TaskTransitions(from) ==
    CASE from = "Planned"     -> {"Planned", "In Progress", "Abandoned"}
      [] from = "In Progress" -> {"In Progress", "Completed", "Abandoned"}
      [] from = "Completed"   -> {"Completed"}
      [] from = "Abandoned"   -> {"Abandoned"}

FeedbackTransitions(from) == {"Active", "Archived"}

Transitions(kind, from) ==
    CASE kind \in Lockable -> LockableTransitions(from)
      [] kind = "idea"     -> IdeaTransitions(from)
      [] kind = "task"     -> TaskTransitions(from)
      [] kind = "feedback" -> FeedbackTransitions(from)

\* a body whose only key is the status
StatusOnly(p) == p.status # "" /\ ~p.edit /\ p.link = None

\* mutant: a restore may carry content
PatchAllowedLax(kind, from, p) ==
    \/ from \notin Immutable(kind)
    \/ StatusOnly(p) /\ p.status = "Archived"
    \/ p.status # "" /\ from = "Archived"

\* enforceArchiveOnlyForImmutableUpdate: archive-only or restore-only
PatchAllowed(kind, from, p) ==
    \/ from \notin Immutable(kind)
    \/ StatusOnly(p) /\ (p.status = "Archived" \/ from = "Archived")

\* mutant: the transition map is not consulted
ServiceAcceptsAnyMove(kind, from, p) ==
    /\ p.status \in Statuses(kind) \cup {""}
    /\ PatchAllowed(kind, from, p)

ServiceAccepts(kind, from, p) ==
    /\ p.status \in Statuses(kind) \cup {""}
    /\ PatchAllowed(kind, from, p)
    /\ p.status # "" => p.status \in Transitions(kind, from)

-----------------------------------------------------------------------------
(* Repository: the SET and WHERE clauses of the UPDATE statements,         *)
(* evaluated on the row as it is when the statement gets its row lock.     *)

Archives(row, p) == p.status = "Archived" /\ row.status # "Archived"
Restores(row, p) == p.status \notin {"", "Archived"} /\ row.status = "Archived"

\* status = CASE ... END; a restore ignores which status was asked for
NewStatus(kind, row, p) ==
    IF Restores(row, p)
    THEN IF row.was = "" THEN Initial(kind) ELSE row.was
    ELSE IF p.status = "" THEN row.status ELSE p.status

\* archived_from_status = CASE ... END
NewWas(row, p) ==
    CASE Archives(row, p) -> row.status
      [] Restores(row, p) -> ""
      [] OTHER            -> row.was

\* mutant: the WHERE clause trusts the service's check
AnyRow(row, p) == row.status \in AllStatuses /\ p.status \in AllStatuses \cup {""}

\* WHERE of UpdateStory, UpdateJourney and UpdateProblem
LockableRow(row, p) ==
    \/ row.status \notin {"Locked", "Archived"}
    \/ p.status = "Archived"
    \/ row.status = "Archived" /\ p.status # ""

\* mutant: a selection does not look at the problem
IdeaRowUnchecked(row, p, problemLocked) ==
    p.status = "" => row.status \notin Immutable("idea") /\ problemLocked \in BOOLEAN

\* WHERE of UpdateIdea; problemLocked is its EXISTS on the linked problem.
\* With no status in the body, NULLIF($4, '') <> 'Selected' is NULL and the
\* row is updated only if the linked problem is Locked.
IdeaRow(row, p, problemLocked) ==
    /\ p.status = "" => row.status \notin Immutable("idea")
    /\ p.status \in {"", "Selected"} => problemLocked

\* WHERE of UpdateTask; ideaRejected is its EXISTS on the linked idea
TaskRow(row, p, ideaRejected) ==
    /\ p.status = "" => row.status \notin Immutable("task")
    /\ NewStatus("task", row, p) = "In Progress" => ~ideaRejected
=============================================================================
