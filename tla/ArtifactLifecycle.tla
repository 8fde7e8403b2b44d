-------------------------- MODULE ArtifactLifecycle --------------------------
(***************************************************************************)
(* What the artifact module promises of an artifact's status, whatever the *)
(* requests: it advances along its kind's life, it can be archived (tasks  *)
(* cannot), and leaving the archive takes it back to where it came from.   *)
(* A Locked story, journey or problem is never a Draft again, a terminal   *)
(* task stays terminal.                                                    *)
(***************************************************************************)
EXTENDS ArtifactRules

CONSTANTS Arts, Kind

VARIABLES status, origin

Advanced(kind, from) ==
    CASE kind \in Lockable /\ from = "Draft"    -> {"Locked"}
      [] kind = "idea" /\ from = "Considered"   -> {"Selected", "Rejected"}
      [] kind = "idea" /\ from = "Selected"     -> {"Rejected"}
      [] kind = "task" /\ from = "Planned"      -> {"In Progress", "Abandoned"}
      [] kind = "task" /\ from = "In Progress"  -> {"Completed", "Abandoned"}
      [] OTHER                                  -> {}

LifecycleInit ==
    /\ status = [a \in Arts |-> "Absent"]
    /\ origin = [a \in Arts |-> ""]

Begin(a) ==
    /\ status[a] = "Absent"
    /\ status' = [status EXCEPT ![a] = Initial(Kind[a])]
    /\ UNCHANGED origin

Advance(a) ==
    /\ \E s \in Advanced(Kind[a], status[a]) : status' = [status EXCEPT ![a] = s]
    /\ UNCHANGED origin

Archive(a) ==
    /\ Kind[a] # "task" /\ status[a] \notin {"Absent", "Archived"}
    /\ status' = [status EXCEPT ![a] = "Archived"]
    /\ origin' = [origin EXCEPT ![a] = status[a]]

Restore(a) ==
    /\ status[a] = "Archived"
    /\ status' = [status EXCEPT ![a] = origin[a]]
    /\ origin' = [origin EXCEPT ![a] = ""]

LifecycleNext == \E a \in Arts : Begin(a) \/ Advance(a) \/ Archive(a) \/ Restore(a)

LifecycleSpec == LifecycleInit /\ [][LifecycleNext]_<<status, origin>>
=============================================================================
