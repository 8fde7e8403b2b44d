------------------------------ MODULE MailedFlows ------------------------------
(***************************************************************************)
(* The parts of the service that send mail, in one process with a bounded  *)
(* number of things going on at once: a handler is either a request of     *)
(* Accounts, which mails its code before it answers, or the goroutine of a *)
(* feedback submission, which mails after the answer.  A stop of the       *)
(* process cuts all of them off.                                           *)
(***************************************************************************)
EXTENDS Accounts

VARIABLES row, task, late, mailed, unlucky

Mail == INSTANCE FeedbackMail WITH Submissions <- Handlers

mail == <<row, task, late, mailed, unlucky>>
allVars == <<vars, mail>>

AccountStep(h) == Step(h) /\ UNCHANGED mail
MailStep(h) == Mail!Dispatch(h) /\ UNCHANGED vars

MailedInit == Init /\ Mail!Init

MailedNext ==
    \/ \E h \in Handlers :
          \/ AccountStep(h)
          \/ MailStep(h)
          \/ Mail!At(h, "none") /\ Begin(h) /\ UNCHANGED mail
          \/ req[h] = Idle /\ Mail!Submit(h) /\ UNCHANGED vars
          \/ (Mail!WindowEnds(h) \/ Mail!Forget(h)) /\ UNCHANGED vars
    \/ Others /\ UNCHANGED mail
    \/ Crash /\ Mail!Crash

Spec == MailedInit /\ [][MailedNext]_allVars

\* Types of the variables of both parts.
MailedTypeOK == TypeOK /\ Mail!TypeOK

\* FeedbackMail's StatusTrue, and the types of both parts, whatever account
\* requests and stops do meanwhile (feedback/service.go:92-136).
FeedbackStatusTrue == MailedTypeOK /\ Mail!StatusTrue
===============================================================================
