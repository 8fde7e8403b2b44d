------------------------------- MODULE Accounts -------------------------------
(***************************************************************************)
(* Accounts, codes and sessions: internal/modules/auth/service.go over the *)
(* goAuth engine, which is a library outside src/.  An engine call is one  *)
(* step that succeeds or fails; what the service does between the calls is *)
(* a step of its own, so that requests interleave there.                   *)
(*                                                                         *)
(* The version of an account numbers its passwords: the engine refuses to  *)
(* reuse one, so a password is the version it was valid for.  Only codes   *)
(* that reached a mailbox are counted, since a client learns no others.    *)
(* The configuration lets unverified accounts log in (RequireForLogin is   *)
(* FALSE), so Login has no branch for them here.                           *)
(***************************************************************************)
EXTENDS Naturals

CONSTANTS
    Emails,        \* the normalised addresses
    Handlers,      \* requests in service at the same time
    MaxVersion,    \* bound: password changes of an account
    MaxCodes       \* bound: open codes of one kind in a mailbox

ASSUME BoundsAssumption == MaxVersion \in Nat /\ MaxCodes \in Nat
ASSUME EmailsAssumption == Emails # {}
ASSUME HandlersAssumption == "client" \notin Handlers /\ "address" \notin Handlers

VARIABLES
    users,         \* the rows of users, by address
    codes,         \* open codes in the mailbox of an address
    sessions,      \* the engine's sessions
    req,           \* the requests in service
    excused        \* history: accounts whose old sessions nobody was able to end

vars == <<users, codes, sessions, req, excused>>

Address == "address"   \* the name a row is created with: the identifier itself
Kinds == {"verify", "reset"}
Ops == {"signup", "resend", "forgot", "otp", "change"}
Steps == {"idle", "create", "name", "lookup", "probe", "unprobe", "code", "send",
          "confirm", "logoutall"}

User == [exists : BOOLEAN, verified : BOOLEAN, name : Handlers \cup {Address},
         version : 0..MaxVersion]
\* A session notes the request that opened it only to check a password, as long
\* as that request is going to close it again.
Session == [user : Emails, version : 0..MaxVersion,
            by : Handlers \cup {"client"}]
Request == [pc : Steps, op : Ops, email : Emails, password : 0..MaxVersion,
            mailable : BOOLEAN]

TypeOK ==
    /\ users \in [Emails -> User]
    /\ codes \in [Kinds -> [Emails -> 0..MaxCodes]]
    /\ sessions \subseteq Session
    /\ req \in [Handlers -> Request]
    /\ excused \subseteq Emails

Idle == [pc |-> "idle", op |-> "signup", email |-> CHOOSE e \in Emails : TRUE,
         password |-> 0, mailable |-> FALSE]

Init ==
    /\ users = [e \in Emails |-> [exists |-> FALSE, verified |-> FALSE,
                                  name |-> Address, version |-> 0]]
    /\ codes = [k \in Kinds |-> [e \in Emails |-> 0]]
    /\ sessions = {}
    /\ req = [h \in Handlers |-> Idle]
    /\ excused = {}

At(h, pc) == req[h].pc = pc
Goto(h, pc) == req' = [req EXCEPT ![h].pc = pc]
Answer(h) == req' = [req EXCEPT ![h] = Idle]

Kind(op) == IF op \in {"signup", "resend"} THEN "verify" ELSE "reset"

Ask(h, op, e, password) ==
    /\ At(h, "idle")
    /\ req' = [req EXCEPT ![h] =
                 [pc |-> IF op = "signup" THEN "create" ELSE "lookup", op |-> op,
                  email |-> e, password |-> password,
                  mailable |-> op \in {"signup", "otp"}]]
    /\ UNCHANGED <<users, codes, sessions, excused>>

\* Every step that calls the engine, the database or the mail provider may fail:
\* the address is taken, the password or the code is wrong, a service is down.
\* The answer is an error, but for the last two steps of a sign-up.
StepFails(h) ==
    /\ req[h].pc \in {"create", "name", "lookup", "probe", "confirm", "code", "send"}
    /\ Answer(h)
    /\ UNCHANGED <<users, codes, sessions, excused>>

\* mutant: an address that is taken counts as created.
CreateOrTake(h) ==
    /\ At(h, "create")
    /\ users' = [users EXCEPT ![req[h].email].exists = TRUE]
    /\ Goto(h, "name")
    /\ UNCHANGED <<codes, sessions, excused>>

\* engine.CreateAccount: the row with the address as its name, in one statement
\* that the unique index on the address serialises.
CreateAccount(h) ==
    /\ At(h, "create")
    /\ ~users[req[h].email].exists
    /\ users' = [users EXCEPT ![req[h].email].exists = TRUE]
    /\ Goto(h, "name")
    /\ UNCHANGED <<codes, sessions, excused>>

UpdateUserName(h) ==
    /\ At(h, "name")
    /\ users' = [users EXCEPT ![req[h].email].name = h]
    /\ Goto(h, "code")
    /\ UNCHANGED <<codes, sessions, excused>>

\* LookupUserByEmail and LookupUserByID: what they find is used after the next
\* engine call.
Lookup(h) ==
    LET u == users[req[h].email] IN
    /\ At(h, "lookup")
    /\ req[h].op \in {"resend", "forgot"} \/ u.exists
    /\ req' = [req EXCEPT ![h].pc = IF req[h].op \in {"resend", "forgot"}
                                    THEN "code" ELSE "probe",
                          ![h].mailable = u.exists /\ (req[h].op = "resend" => ~u.verified)]
    /\ UNCHANGED <<users, codes, sessions, excused>>

\* verifyCurrentPassword logs in to see whether the password is right ...
Probe(h) ==
    LET e == req[h].email IN
    /\ At(h, "probe")
    /\ req[h].password = users[e].version
    /\ sessions' = sessions \cup {[user |-> e, version |-> users[e].version, by |-> h]}
    /\ req' = [req EXCEPT ![h].pc = "unprobe", ![h].password = 0]
    /\ UNCHANGED <<users, codes, excused>>

AfterProbe(h) == Goto(h, IF req[h].op = "otp" THEN "code" ELSE "confirm")
ProbesOf(h) == {s \in sessions : s.by = h}

\* ... and logs out again; an error of the logout is dropped.
Unprobe(h) ==
    /\ At(h, "unprobe")
    /\ \/ sessions' = sessions \ ProbesOf(h)
       \/ sessions' = (sessions \ ProbesOf(h))
                        \cup {[s EXCEPT !.by = "client"] : s \in ProbesOf(h)}
    /\ AfterProbe(h)
    /\ UNCHANGED <<users, codes, excused>>

\* RequestEmailVerification or RequestPasswordReset.  The engine makes a
\* challenge for any address; without a mail nobody ever learns its code.
IssueCode(h) ==
    /\ At(h, "code")
    /\ IF req[h].mailable THEN Goto(h, "send") ELSE Answer(h)
    /\ UNCHANGED <<users, codes, sessions, excused>>

SendCode(h) ==
    LET k == Kind(req[h].op)  e == req[h].email IN
    /\ At(h, "send")
    /\ codes[k][e] < MaxCodes
    /\ codes' = [codes EXCEPT ![k][e] = @ + 1]
    /\ Answer(h)
    /\ UNCHANGED <<users, sessions, excused>>

\* engine.ConfirmPasswordReset for the account c that the code belongs to.
\* Whether the engine ends the sessions of c by itself is not visible in src/.
ConfirmPasswordReset(c) ==
    /\ codes["reset"][c] > 0
    /\ users[c].version < MaxVersion
    /\ codes' = [codes EXCEPT !["reset"][c] = @ - 1]
    /\ users' = [users EXCEPT ![c].version = @ + 1]
    /\ \/ UNCHANGED sessions
       \/ sessions' = {s \in sessions : s.user # c}

\* ConfirmChangePassword: the challenge names its account by itself, which may
\* be another one than that of the caller, whose sessions will be ended.
ConfirmChange(h, c) ==
    /\ At(h, "confirm")
    /\ ConfirmPasswordReset(c)
    /\ Goto(h, "logoutall")
    /\ excused' = excused \cup ({c} \ {req[h].email})

\* mutant: LogoutByAccessToken of the caller instead of LogoutAll.
LogoutCaller(h) ==
    LET e == req[h].email IN
    /\ At(h, "logoutall")
    /\ sessions' = sessions \ {[user |-> e, version |-> users[e].version, by |-> "client"]}
    /\ Answer(h)
    /\ UNCHANGED <<users, codes, excused>>

\* LogoutAll and the notice mail: the errors of both are dropped.
LogoutAll(h) ==
    LET e == req[h].email IN
    /\ At(h, "logoutall")
    /\ \/ /\ sessions' = {s \in sessions : s.user # e}
          /\ excused' = excused \ {e}
       \/ /\ excused' = excused \cup {e}
          /\ UNCHANGED sessions
    /\ Answer(h)
    /\ UNCHANGED <<users, codes>>

-----------------------------------------------------------------------------
(* Requests that are one engine call.                                      *)

Login(e, password) ==
    /\ users[e].exists /\ password = users[e].version
    /\ sessions' = sessions \cup {[user |-> e, version |-> password, by |-> "client"]}
    /\ UNCHANGED <<users, codes, req, excused>>

\* Logout of a client, or the end of any session's lifetime.
SessionEnds(s) ==
    /\ s.by = "client"
    /\ sessions' = sessions \ {s}
    /\ UNCHANGED <<users, codes, req, excused>>

VerifyEmail(e) ==
    /\ codes["verify"][e] > 0
    /\ users' = [users EXCEPT ![e].verified = TRUE]
    /\ codes' = [codes EXCEPT !["verify"][e] = @ - 1]
    /\ UNCHANGED <<sessions, req, excused>>

\* The service adds no logout to a reset of a forgotten password.
ResetPassword(c) ==
    /\ ConfirmPasswordReset(c)
    /\ excused' = excused \cup {c}
    /\ UNCHANGED req

\* Codes live for fifteen minutes.
CodeExpires(k, e) ==
    /\ codes[k][e] > 0
    /\ codes' = [codes EXCEPT ![k][e] = @ - 1]
    /\ UNCHANGED <<users, sessions, req, excused>>

\* The process stops: its requests are never finished.
Crash ==
    /\ req' = [h \in Handlers |-> Idle]
    /\ sessions' = {IF s.by \in Handlers THEN [s EXCEPT !.by = "client"] ELSE s : s \in sessions}
    /\ excused' = excused \cup {req[h].email : h \in {g \in Handlers : At(g, "logoutall")}}
    /\ UNCHANGED <<users, codes>>

Step(h) ==
    \/ StepFails(h) \/ CreateAccount(h) \/ UpdateUserName(h)
    \/ Lookup(h) \/ Probe(h) \/ Unprobe(h) \/ IssueCode(h) \/ SendCode(h)
    \/ \E c \in Emails : ConfirmChange(h, c)
    \/ LogoutAll(h)

\* A password that is wrong from the start is a failing probe; one that is right
\* may have changed when it is tried.
Begin(h) ==
    \E e \in Emails :
        \/ \E op \in {"signup", "resend", "forgot"} : Ask(h, op, e, 0)
        \/ \E op \in {"otp", "change"} : Ask(h, op, e, users[e].version)

Others ==
    \/ \E e \in Emails :
          \/ Login(e, users[e].version)
          \/ VerifyEmail(e)
          \/ ResetPassword(e)
          \/ \E k \in Kinds : CodeExpires(k, e)
    \/ \E s \in sessions : SessionEnds(s)

Next == Others \/ Crash \/ \E h \in Handlers : Begin(h) \/ Step(h)

-----------------------------------------------------------------------------
\* Sign-up (auth/service.go:62) promises a name in a step after the account was
\* created.  However requests race for an address, one of them gets to name the
\* account, and a sign-up that goes on to its mail, after which it is answered
\* 201 whatever happens, did: the account exists and bears its name.
SignupKeepsPromise ==
    \A h \in Handlers : req[h].op = "signup" /\ req[h].pc \in {"name", "code", "send"} =>
        /\ users[req[h].email].exists
        /\ users[req[h].email].name = IF At(h, "name") THEN Address ELSE h
        /\ \A g \in Handlers \ {h} : At(g, "name") => req[g].email # req[h].email

\* A session that was opened to check a password exists only while its request
\* is about to close it (auth/service.go:379), and a session opened under an
\* older password only while a change of password is about to end it, or after
\* nobody could: a reset of a forgotten password, a failed LogoutAll, a stop of
\* the process in between, or a change confirmed with the code of another account.
SessionsExplained ==
    \A s \in sessions :
        /\ s.by \in Handlers => At(s.by, "unprobe") /\ req[s.by].email = s.user
        /\ s.version < users[s.user].version =>
              \/ s.user \in excused
              \/ \E h \in Handlers : At(h, "logoutall") /\ req[h].email = s.user
===============================================================================
