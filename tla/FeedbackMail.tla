----------------------------- MODULE FeedbackMail -----------------------------
(***************************************************************************)
(* A feedback submission and the mail about it: Submit and the goroutine   *)
(* of dispatchFeedbackEmail (internal/modules/feedback/service.go), which  *)
(* runs after the answer.  The queued, sent and failed marks are            *)
(* transactions of their own, under one window of twenty seconds that the  *)
(* mail provider shares; an error of a mark is only logged, and nothing    *)
(* looks at a submission again.                                            *)
(***************************************************************************)
CONSTANTS Submissions

VARIABLES
    row,        \* the row of global_feedback_submissions
    task,       \* the goroutine of a submission
    late,       \* its window has passed
    mailed,     \* the provider delivered the mail
    unlucky     \* history: a mark was lost

Row == [queued : BOOLEAN, sent : BOOLEAN, error : BOOLEAN]
Tasks == {"none", "queue", "send", "marksent", "markfailed", "done"}

TypeOK ==
    /\ row \in [Submissions -> Row]
    /\ task \in [Submissions -> Tasks]
    /\ late \in [Submissions -> BOOLEAN]
    /\ mailed \in [Submissions -> BOOLEAN]
    /\ unlucky \in [Submissions -> BOOLEAN]

NoRow == [queued |-> FALSE, sent |-> FALSE, error |-> FALSE]

Init ==
    /\ row = [f \in Submissions |-> NoRow]
    /\ task = [f \in Submissions |-> "none"]
    /\ late = [f \in Submissions |-> FALSE]
    /\ mailed = [f \in Submissions |-> FALSE]
    /\ unlucky = [f \in Submissions |-> FALSE]

At(f, t) == task[f] = t
Goto(f, t) == task' = [task EXCEPT ![f] = t]
Finish(f) == Goto(f, "done") /\ late' = [late EXCEPT ![f] = FALSE]

\* The row is committed, without marks; a request whose transaction fails leaves nothing.
Submit(f) ==
    /\ At(f, "none")
    /\ Goto(f, "queue")
    /\ UNCHANGED <<row, late, mailed, unlucky>>

MarkQueued(f) ==
    /\ At(f, "queue")
    /\ ~late[f]
    /\ row' = [row EXCEPT ![f].queued = TRUE, ![f].error = FALSE]
    /\ Goto(f, "send")
    /\ UNCHANGED <<late, mailed, unlucky>>

\* A queued mark that fails is logged and the mail is sent all the same.
QueuedLost(f) ==
    /\ At(f, "queue")
    /\ Goto(f, "send")
    /\ UNCHANGED <<row, late, mailed, unlucky>>

\* The sender answers within the window or is cut off by it; an error does not
\* say that the mail was not delivered.
Send(f) ==
    /\ At(f, "send")
    /\ \/ /\ ~late[f]
          /\ mailed' = [mailed EXCEPT ![f] = TRUE]
          /\ Goto(f, "marksent")
       \/ /\ \/ UNCHANGED mailed
             \/ mailed' = [mailed EXCEPT ![f] = TRUE]
          /\ Goto(f, "markfailed")
    /\ UNCHANGED <<row, late, unlucky>>

\* mutant: the outcome of the sender is not looked at.
MarkSentAnyway(f) ==
    /\ At(f, "markfailed")
    /\ ~late[f]
    /\ row' = [row EXCEPT ![f].sent = TRUE, ![f].error = FALSE]
    /\ Finish(f)
    /\ UNCHANGED <<mailed, unlucky>>

MarkSent(f) ==
    /\ At(f, "marksent")
    /\ ~late[f]
    /\ row' = [row EXCEPT ![f].sent = TRUE, ![f].error = FALSE]
    /\ Finish(f)
    /\ UNCHANGED <<mailed, unlucky>>

MarkFailed(f) ==
    /\ At(f, "markfailed")
    /\ ~late[f]
    /\ row' = [row EXCEPT ![f].error = TRUE, ![f].sent = FALSE]
    /\ Finish(f)
    /\ UNCHANGED <<mailed, unlucky>>

\* The transaction of a mark fails, or runs under a window that has passed.
MarkLost(f) ==
    /\ task[f] \in {"marksent", "markfailed"}
    /\ unlucky' = [unlucky EXCEPT ![f] = TRUE]
    /\ Finish(f)
    /\ UNCHANGED <<row, mailed>>

WindowEnds(f) ==
    /\ task[f] \notin {"none", "done"} /\ ~late[f]
    /\ late' = [late EXCEPT ![f] = TRUE]
    /\ UNCHANGED <<row, task, mailed, unlucky>>

\* The goroutines are not waited for when the process stops.
Crash ==
    /\ task' = [f \in Submissions |-> IF At(f, "none") THEN "none" ELSE "done"]
    /\ unlucky' = [f \in Submissions |-> unlucky[f] \/ task[f] \notin {"none", "done"}]
    /\ late' = [f \in Submissions |-> FALSE]
    /\ UNCHANGED <<row, mailed>>

\* The submission needs no more attention: another one takes its place.
Forget(f) ==
    /\ At(f, "done")
    /\ row' = [row EXCEPT ![f] = NoRow]
    /\ Goto(f, "none")
    /\ mailed' = [mailed EXCEPT ![f] = FALSE]
    /\ unlucky' = [unlucky EXCEPT ![f] = FALSE]
    /\ UNCHANGED late

Dispatch(f) ==
    \/ MarkQueued(f) \/ QueuedLost(f) \/ Send(f)
    \/ MarkSent(f) \/ MarkFailed(f) \/ MarkLost(f)

\* What the row says about the mail (feedback/service.go:92) is true: sent only
\* if the provider took it, never sent and failed at once; and when the goroutine
\* has ended, a row without an outcome is one whose last mark was lost, with its
\* statement, its window or its process.
StatusTrue ==
    \A f \in Submissions :
        /\ row[f].sent => mailed[f] /\ ~row[f].error
        /\ At(f, "done") /\ ~row[f].sent /\ ~row[f].error => unlucky[f]
===============================================================================
