----------------------------- MODULE MCArtifacts -----------------------------
(* Instances of Artifacts for TLC: which artifacts a project has.          *)
EXTENDS Artifacts, TLC

CONSTANTS s1, j1, p1, i1, t1, f1

Chain     == s1 :> "story" @@ p1 :> "problem" @@ i1 :> "idea" @@ t1 :> "task"
OpenKinds == j1 :> "journey" @@ f1 :> "feedback"

\* revisions explored of each artifact: of one that can be locked or chosen, the
\* one created, the one locked and one after
ChainRevs == s1 :> 3 @@ p1 :> 3 @@ i1 :> 3 @@ t1 :> 3
OpenRevs  == j1 :> 3 @@ f1 :> 2

\* bounds: revisions of the chain altogether, enough to create and lock a problem,
\* choose an idea of it, create a task and write once more; and the ends of the
\* chain, which have no link, are not explored together
Small ==
    /\ row[s1].rev + row[p1].rev + row[i1].rev + row[t1].rev <= 7
    /\ row[s1].rev = 0 \/ row[t1].rev = 0
=============================================================================
