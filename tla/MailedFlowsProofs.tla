--------------------------- MODULE MailedFlowsProofs ---------------------------
(***************************************************************************)
(* Proofs about accounts and sessions, for any number of addresses and     *)
(* requests, while submissions are mailed by the same process.             *)
(***************************************************************************)
EXTENDS MailedFlows, TLAPS

\* Idle is a request of no address in particular.
LEMMA IdleType == Idle \in Request /\ Idle.pc = "idle" /\ Idle.op = "signup"
<1>1. (CHOOSE e \in Emails : TRUE) \in Emails  BY EmailsAssumption
<1> QED BY <1>1, BoundsAssumption DEF Idle, Request, Steps, Ops

LEMMA KindType == \A op : Kind(op) \in Kinds
BY DEF Kind, Kinds

\* Beginning a request keeps the types.
LEMMA BeginTypes ==
  ASSUME TypeOK, NEW h \in Handlers, Begin(h)
  PROVE  TypeOK'
<1>1. PICK e \in Emails, op \in Ops, p \in 0..MaxVersion : Ask(h, op, e, p)
  BY BoundsAssumption DEF Begin, Ops, TypeOK, User
<1> DEFINE pc == IF op = "signup" THEN "create" ELSE "lookup"
           m  == op \in {"signup", "otp"}
<1>2. pc \in Steps /\ m \in BOOLEAN
  BY DEF Steps
<1>3. req' = [req EXCEPT ![h] = [pc |-> pc, op |-> op, email |-> e,
                                 password |-> p, mailable |-> m]]
      /\ UNCHANGED <<users, codes, sessions, excused>>
  BY <1>1 DEF Ask
<1> HIDE DEF pc, m
<1>4. [pc |-> pc, op |-> op, email |-> e, password |-> p, mailable |-> m] \in Request
  BY <1>2 DEF Request
<1> QED BY <1>3, <1>4 DEF TypeOK

\* What moving a request on changes.
LEMMA GotoMoves ==
  ASSUME TypeOK, NEW h \in Handlers, NEW pc \in Steps, Goto(h, pc)
  PROVE  /\ req' \in [Handlers -> Request]
         /\ req'[h].pc = pc
         /\ req'[h].op = req[h].op
         /\ req'[h].email = req[h].email
         /\ \A g \in Handlers \ {h} : req'[g] = req[g]
<1>1. req[h] \in Request
  BY DEF TypeOK
<1> DEFINE r == [req[h] EXCEPT !.pc = pc]
<1>2. r \in Request /\ r.pc = pc /\ r.op = req[h].op /\ r.email = req[h].email
  BY <1>1 DEF Request
<1>3. req' = [req EXCEPT ![h] = r]
  BY DEF Goto
<1> HIDE DEF r
<1> QED BY <1>2, <1>3 DEF TypeOK

\* What answering one changes.
LEMMA AnswerMoves ==
  ASSUME TypeOK, NEW h \in Handlers, Answer(h)
  PROVE  /\ req' \in [Handlers -> Request]
         /\ req'[h].pc = "idle"
         /\ \A g \in Handlers \ {h} : req'[g] = req[g]
BY IdleType DEF Answer, TypeOK

\* A code more or less, within the bounds, keeps the type of codes.
LEMMA CodesType ==
  ASSUME TypeOK, NEW k \in Kinds, NEW e \in Emails, NEW n \in 0..MaxCodes,
         codes' = [codes EXCEPT ![k][e] = n]
  PROVE  codes' \in [Kinds -> [Emails -> 0..MaxCodes]]
BY DEF TypeOK

\* What the confirmation of a reset does to the account of the code.
LEMMA ResetMoves ==
  ASSUME TypeOK, NEW c \in Emails, ConfirmPasswordReset(c)
  PROVE  /\ users' \in [Emails -> User]
         /\ codes' \in [Kinds -> [Emails -> 0..MaxCodes]]
         /\ sessions' \subseteq sessions
         /\ \A e \in Emails : /\ users'[e].exists = users[e].exists
                              /\ users'[e].name = users[e].name
                              /\ e # c => users'[e].version = users[e].version
<1>1. users[c] \in User /\ codes["reset"][c] \in 0..MaxCodes
  BY DEF TypeOK, Kinds
<1> DEFINE u == [users[c] EXCEPT !.version = @ + 1]
<1>2. u \in User /\ u.exists = users[c].exists /\ u.name = users[c].name
  BY <1>1, BoundsAssumption DEF ConfirmPasswordReset, User
<1>3. users' = [users EXCEPT ![c] = u]
  BY DEF ConfirmPasswordReset
<1> HIDE DEF u
<1>4. codes["reset"][c] - 1 \in 0..MaxCodes
  BY <1>1, BoundsAssumption DEF ConfirmPasswordReset
<1>5. codes' = [codes EXCEPT !["reset"][c] = codes["reset"][c] - 1]
  BY DEF ConfirmPasswordReset
<1>6. codes' \in [Kinds -> [Emails -> 0..MaxCodes]]
  BY <1>4, <1>5, CodesType DEF Kinds
<1>7. sessions' \subseteq sessions
  BY DEF ConfirmPasswordReset
<1> QED BY <1>2, <1>3, <1>6, <1>7 DEF TypeOK

\* A session handed to the client keeps its account and its version.
LEMMA HandedOver ==
  ASSUME NEW s \in Session
  PROVE  /\ [s EXCEPT !.by = "client"] \in Session
         /\ [s EXCEPT !.by = "client"].by = "client"
         /\ [s EXCEPT !.by = "client"].user = s.user
         /\ [s EXCEPT !.by = "client"].version = s.version
BY DEF Session

\* Every step of a request keeps the types.
LEMMA StepTypes ==
  ASSUME TypeOK, NEW h \in Handlers, Step(h)
  PROVE  TypeOK'
<1>0. req[h] \in Request /\ req[h].email \in Emails /\ users[req[h].email] \in User
  BY DEF TypeOK, Request
<1>1. CASE StepFails(h)
  BY <1>1, AnswerMoves DEF StepFails, TypeOK
<1>2. CASE CreateAccount(h)
  <2> DEFINE u == [users[req[h].email] EXCEPT !.exists = TRUE]
  <2>1. u \in User
    BY <1>0 DEF User
  <2>2. users' = [users EXCEPT ![req[h].email] = u]
    BY <1>2 DEF CreateAccount
  <2> HIDE DEF u
  <2>3. Goto(h, "name") /\ "name" \in Steps
    BY <1>2 DEF CreateAccount, Steps
  <2>4. req' \in [Handlers -> Request]
    BY <2>3, GotoMoves
  <2>5. users' \in [Emails -> User]
    BY <1>0, <2>1, <2>2 DEF TypeOK
  <2>6. UNCHANGED <<codes, sessions, excused>>
    BY <1>2 DEF CreateAccount
  <2> QED BY <2>4, <2>5, <2>6 DEF TypeOK
<1>3. CASE UpdateUserName(h)
  <2> DEFINE u == [users[req[h].email] EXCEPT !.name = h]
  <2>1. u \in User
    BY <1>0 DEF User
  <2>2. users' = [users EXCEPT ![req[h].email] = u]
    BY <1>3 DEF UpdateUserName
  <2> HIDE DEF u
  <2>3. Goto(h, "code") /\ "code" \in Steps
    BY <1>3 DEF UpdateUserName, Steps
  <2>4. req' \in [Handlers -> Request]
    BY <2>3, GotoMoves
  <2>5. users' \in [Emails -> User]
    BY <1>0, <2>1, <2>2 DEF TypeOK
  <2>6. UNCHANGED <<codes, sessions, excused>>
    BY <1>3 DEF UpdateUserName
  <2> QED BY <2>4, <2>5, <2>6 DEF TypeOK
<1>4. CASE Lookup(h)
  <2> DEFINE u == users[req[h].email]
             pc == IF req[h].op \in {"resend", "forgot"} THEN "code" ELSE "probe"
             m == u.exists /\ (req[h].op = "resend" => ~u.verified)
             r == [req[h] EXCEPT !.pc = pc, !.mailable = m]
  <2>1. pc \in Steps /\ m \in BOOLEAN
    BY <1>0 DEF Steps, User
  <2>2. req' = [req EXCEPT ![h] = r]
    BY <1>4 DEF Lookup
  <2> HIDE DEF u, pc, m
  <2>3. r \in Request
    BY <1>0, <2>1 DEF Request
  <2> HIDE DEF r
  <2>4. req' \in [Handlers -> Request]
    BY <2>2, <2>3 DEF TypeOK
  <2>5. UNCHANGED <<users, codes, sessions, excused>>
    BY <1>4 DEF Lookup
  <2> QED BY <2>4, <2>5 DEF TypeOK
<1>5. CASE Probe(h)
  <2> DEFINE e == req[h].email
             r == [req[h] EXCEPT !.pc = "unprobe", !.password = 0]
  <2>1. [user |-> e, version |-> users[e].version, by |-> h] \in Session
    BY <1>0 DEF Session, User
  <2>2. r \in Request
    <3>1. 0 \in 0..MaxVersion /\ "unprobe" \in Steps
      BY BoundsAssumption DEF Steps
    <3>2. req[h] \in Request
      BY <1>0
    <3> QED BY <3>1, <3>2 DEF Request
  <2>3. req' = [req EXCEPT ![h] = r]
    BY <1>5 DEF Probe
  <2> HIDE DEF r
  <2> QED BY <1>5, <2>1, <2>2, <2>3 DEF Probe, TypeOK
<1>6. CASE Unprobe(h)
  <2>1. sessions' \subseteq Session
    BY <1>6, HandedOver DEF Unprobe, TypeOK, ProbesOf
  <2>2. req' \in [Handlers -> Request]
    BY <1>6, GotoMoves DEF Unprobe, AfterProbe, Steps
  <2> QED BY <1>6, <2>1, <2>2 DEF Unprobe, TypeOK
<1>7. CASE IssueCode(h)
  <2>1. req' \in [Handlers -> Request]
    BY <1>7, GotoMoves, AnswerMoves DEF IssueCode, Steps
  <2> QED BY <1>7, <2>1 DEF IssueCode, TypeOK
<1>8. CASE SendCode(h)
  <2> DEFINE k == Kind(req[h].op)
             e == req[h].email
             n == codes[k][e] + 1
  <2>1. k \in Kinds
    BY KindType
  <2>2. n \in 0..MaxCodes
    BY <1>0, <1>8, <2>1, BoundsAssumption DEF SendCode, TypeOK
  <2>3. codes' = [codes EXCEPT ![k][e] = n]
    BY <1>8 DEF SendCode
  <2>4. codes' \in [Kinds -> [Emails -> 0..MaxCodes]]
    <3> HIDE DEF k, e, n
    <3> QED BY <1>0, <2>1, <2>2, <2>3, CodesType DEF e
  <2> QED BY <1>8, <2>4, AnswerMoves DEF SendCode, TypeOK
<1>9. ASSUME NEW c \in Emails, ConfirmChange(h, c) PROVE TypeOK'
  <2>1. req' \in [Handlers -> Request]
    BY <1>9, GotoMoves DEF ConfirmChange, Steps
  <2> QED BY <1>9, <2>1, ResetMoves DEF ConfirmChange, TypeOK
<1>10. CASE LogoutAll(h)
  BY <1>0, <1>10, AnswerMoves DEF LogoutAll, TypeOK
<1> QED BY <1>1, <1>2, <1>3, <1>4, <1>5, <1>6, <1>7, <1>8, <1>9, <1>10 DEF Step

\* Steps of no request keep the types.
LEMMA OtherTypes ==
  ASSUME TypeOK, Others \/ Crash \/ UNCHANGED vars
  PROVE  TypeOK'
<1>1. ASSUME NEW e \in Emails, Login(e, users[e].version) PROVE TypeOK'
  <2>1. [user |-> e, version |-> users[e].version, by |-> "client"] \in Session
    BY DEF Session, TypeOK, User
  <2> QED BY <1>1, <2>1 DEF Login, TypeOK
<1>2. ASSUME NEW e \in Emails, VerifyEmail(e) PROVE TypeOK'
  <2> DEFINE u == [users[e] EXCEPT !.verified = TRUE]
             n == codes["verify"][e] - 1
  <2>1. u \in User
    BY DEF User, TypeOK
  <2>2. users' = [users EXCEPT ![e] = u]
    BY <1>2 DEF VerifyEmail
  <2>3. n \in 0..MaxCodes
    BY <1>2, BoundsAssumption DEF VerifyEmail, TypeOK, Kinds
  <2>4. codes' = [codes EXCEPT !["verify"][e] = n]
    BY <1>2 DEF VerifyEmail
  <2> HIDE DEF u, n
  <2>5. codes' \in [Kinds -> [Emails -> 0..MaxCodes]]
    BY <2>3, <2>4, CodesType DEF Kinds
  <2>6. users' \in [Emails -> User]
    BY <2>1, <2>2 DEF TypeOK
  <2>7. UNCHANGED <<sessions, req, excused>>
    BY <1>2 DEF VerifyEmail
  <2> QED BY <2>5, <2>6, <2>7 DEF TypeOK
<1>3. ASSUME NEW e \in Emails, ResetPassword(e) PROVE TypeOK'
  BY <1>3, ResetMoves DEF ResetPassword, TypeOK
<1>4. ASSUME NEW e \in Emails, NEW k \in Kinds, CodeExpires(k, e) PROVE TypeOK'
  <2> DEFINE n == codes[k][e] - 1
  <2>1. n \in 0..MaxCodes
    BY <1>4, BoundsAssumption DEF CodeExpires, TypeOK
  <2>2. codes' = [codes EXCEPT ![k][e] = n]
    BY <1>4 DEF CodeExpires
  <2> HIDE DEF n
  <2> QED BY <1>4, <2>1, <2>2, CodesType DEF CodeExpires, TypeOK
<1>5. ASSUME NEW s \in sessions, SessionEnds(s) PROVE TypeOK'
  BY <1>5 DEF SessionEnds, TypeOK
<1>6. CASE Crash
  <2>1. sessions' \subseteq Session
    BY <1>6, HandedOver DEF Crash, TypeOK
  <2>2. excused' \subseteq Emails
    BY <1>6 DEF Crash, TypeOK, Request
  <2> QED BY <1>6, <2>1, <2>2, IdleType DEF Crash, TypeOK
<1>7. CASE UNCHANGED vars
  BY <1>7 DEF vars, TypeOK
<1> QED BY <1>1, <1>2, <1>3, <1>4, <1>5, <1>6, <1>7 DEF Others

\* Which operations go through which steps.
OpOfStep ==
    \A h \in Handlers :
        /\ req[h].pc \in {"create", "name"} => req[h].op = "signup"
        /\ req[h].pc \in {"lookup", "probe", "unprobe", "confirm", "logoutall"} =>
              req[h].op # "signup"

\* A row that is not there has no name yet.
NamedLater == \A e \in Emails : ~users[e].exists => users[e].name = Address

\* The inductive invariant.
FlowsInv ==
    TypeOK /\ OpOfStep /\ NamedLater /\ SignupKeepsPromise /\ SessionsExplained

LEMMA InitFlows == Init => FlowsInv
<1> SUFFICES ASSUME Init PROVE FlowsInv
  OBVIOUS
<1>1. users \in [Emails -> User]
  BY BoundsAssumption DEF Init, User
<1>2. codes \in [Kinds -> [Emails -> 0..MaxCodes]]
  BY BoundsAssumption DEF Init
<1>3. req \in [Handlers -> Request] /\ \A h \in Handlers : req[h].pc = "idle"
  BY IdleType DEF Init
<1>4. TypeOK
  BY <1>1, <1>2, <1>3 DEF Init, TypeOK
<1>5. OpOfStep /\ NamedLater /\ SignupKeepsPromise /\ SessionsExplained
  BY <1>3 DEF Init, OpOfStep, NamedLater, SignupKeepsPromise, SessionsExplained
<1> QED BY <1>4, <1>5 DEF FlowsInv

\* The order of the steps of an operation.
LEMMA StepOps ==
  ASSUME TypeOK, OpOfStep, NEW h \in Handlers, Begin(h) \/ Step(h)
  PROVE  OpOfStep'
<1>0. req[h] \in Request
  BY DEF TypeOK
<1>1. CASE Begin(h)
  <2>1. PICK e \in Emails, op \in Ops, p \in 0..MaxVersion : Ask(h, op, e, p)
    BY <1>1, BoundsAssumption DEF Begin, Ops, TypeOK, User
  <2>2. /\ req'[h].op = op
        /\ req'[h].pc = IF op = "signup" THEN "create" ELSE "lookup"
        /\ \A g \in Handlers \ {h} : req'[g] = req[g]
    BY <2>1 DEF Ask, TypeOK
  <2> QED BY <2>2 DEF OpOfStep
<1>2. CASE \E pc \in Steps : /\ Goto(h, pc)
                             /\ pc \in {"create", "name"} => req[h].op = "signup"
                             /\ pc \in {"lookup", "probe", "unprobe", "confirm", "logoutall"} =>
                                  req[h].op # "signup"
  BY <1>2, GotoMoves DEF OpOfStep
<1>3. CASE Answer(h)
  BY <1>3, AnswerMoves DEF OpOfStep
<1>4. CASE Lookup(h)
  <2>1. /\ req'[h].op = req[h].op /\ req'[h].pc \in {"code", "probe"}
        /\ \A g \in Handlers \ {h} : req'[g] = req[g]
    BY <1>0, <1>4 DEF Lookup, TypeOK, Request
  <2>2. req[h].op # "signup"
    BY <1>4 DEF Lookup, At, OpOfStep
  <2> QED BY <2>1, <2>2 DEF OpOfStep
<1>5. CASE Probe(h)
  <2>1. /\ req'[h].op = req[h].op /\ req'[h].pc = "unprobe"
        /\ \A g \in Handlers \ {h} : req'[g] = req[g]
    BY <1>0, <1>5 DEF Probe, TypeOK, Request
  <2>2. req[h].op # "signup"
    BY <1>5 DEF Probe, At, OpOfStep
  <2> QED BY <2>1, <2>2 DEF OpOfStep
<1>6. CASE Unprobe(h)
  <2>1. req[h].op # "signup"
    BY <1>6 DEF Unprobe, At, OpOfStep
  <2> QED BY <1>2, <1>6, <2>1 DEF Unprobe, AfterProbe, Steps
<1>7. CASE \E c \in Emails : ConfirmChange(h, c)
  <2>1. req[h].op # "signup"
    BY <1>7 DEF ConfirmChange, At, OpOfStep
  <2> QED BY <1>2, <1>7, <2>1 DEF ConfirmChange, Steps
<1>8. CASE CreateAccount(h) \/ UpdateUserName(h)
  <2>1. req[h].op = "signup"
    BY <1>8 DEF CreateAccount, UpdateUserName, At, OpOfStep
  <2> QED BY <1>2, <1>8, <2>1 DEF CreateAccount, UpdateUserName, Steps
<1>9. CASE StepFails(h) \/ SendCode(h) \/ LogoutAll(h)
  BY <1>3, <1>9 DEF StepFails, SendCode, LogoutAll
<1>10. CASE IssueCode(h)
  BY <1>2, <1>3, <1>10 DEF IssueCode, Steps
<1> QED BY <1>1, <1>4, <1>5, <1>6, <1>7, <1>8, <1>9, <1>10 DEF Step

\* A step that changes no account and puts no request into a sign-up's later
\* steps keeps the promise.
LEMMA PromiseUntouched ==
  ASSUME TypeOK, SignupKeepsPromise, NEW h \in Handlers,
         NamedLater,
         \A e \in Emails : /\ users'[e].exists = users[e].exists
                           /\ users'[e].name = users[e].name,
         \A g \in Handlers \ {h} : req'[g] = req[g],
         req'[h].pc # "name",
         req'[h].pc \in {"code", "send"} /\ req'[h].op = "signup" =>
            /\ req[h].pc \in {"code", "send"} /\ req[h].op = "signup"
            /\ req'[h].email = req[h].email
  PROVE  SignupKeepsPromise' /\ NamedLater'
<1>0. NamedLater'
  BY DEF NamedLater
<1> SUFFICES ASSUME NEW g \in Handlers, req'[g].op = "signup",
                    req'[g].pc \in {"name", "code", "send"}
             PROVE  /\ users'[req'[g].email].exists
                    /\ users'[req'[g].email].name = IF req'[g].pc = "name" THEN Address ELSE g
                    /\ \A f \in Handlers \ {g} : req'[f].pc = "name" => req'[f].email # req'[g].email
  BY <1>0 DEF SignupKeepsPromise, At
<1>1. req[g].op = "signup" /\ req[g].pc \in {"name", "code", "send"}
      /\ req'[g].email = req[g].email /\ (req'[g].pc = "name" <=> req[g].pc = "name")
  BY DEF SignupKeepsPromise
<1>2. req[g].email \in Emails
  BY DEF TypeOK, Request
<1>3. \A f \in Handlers : req'[f].pc = "name" => req[f].pc = "name" /\ req'[f].email = req[f].email
  OBVIOUS
<1> QED BY <1>1, <1>2, <1>3 DEF SignupKeepsPromise, At

LEMMA StepPromise ==
  ASSUME TypeOK, OpOfStep, NamedLater, SignupKeepsPromise, NEW h \in Handlers,
         Begin(h) \/ Step(h)
  PROVE  SignupKeepsPromise' /\ NamedLater'
<1>0. req[h] \in Request /\ req[h].email \in Emails /\ users[req[h].email] \in User
  BY DEF TypeOK, Request
<1>1. CASE Begin(h)
  <2>1. PICK e \in Emails, op \in Ops, p \in 0..MaxVersion : Ask(h, op, e, p)
    BY <1>1, BoundsAssumption DEF Begin, Ops, TypeOK, User
  <2>2. /\ req'[h].pc \in {"create", "lookup"} /\ users' = users
        /\ \A g \in Handlers \ {h} : req'[g] = req[g]
    BY <2>1 DEF Ask, TypeOK
  <2> QED BY <2>2, PromiseUntouched
<1>2. CASE users' = users /\ Answer(h)
  BY <1>2, AnswerMoves, PromiseUntouched
<1>3. CASE /\ users' = users
           /\ \E pc \in Steps : Goto(h, pc) /\ pc # "name"
                                /\ (pc \in {"code", "send"} => req[h].op # "signup" \/ req[h].pc \in {"code", "send"})
  BY <1>3, GotoMoves, PromiseUntouched
<1>4. CASE CreateAccount(h)
  <2> DEFINE e == req[h].email
  <2>1. /\ req'[h].pc = "name" /\ req'[h].email = e
        /\ \A g \in Handlers \ {h} : req'[g] = req[g]
    BY <1>4, GotoMoves DEF CreateAccount, Steps
  <2>2. /\ users'[e].exists /\ users'[e].name = users[e].name /\ ~users[e].exists
        /\ \A c \in Emails \ {e} : users'[c] = users[c]
    BY <1>0, <1>4 DEF CreateAccount, TypeOK, User
  <2>3. \A g \in Handlers : req[g].op = "signup" /\ req[g].pc \in {"name", "code", "send"} =>
            req[g].email # e
    BY <2>2 DEF SignupKeepsPromise
  <2>4. \A g \in Handlers : req[g].pc = "name" => req[g].op = "signup"
    BY DEF OpOfStep
  <2>5. \A g \in Handlers : req[g].email \in Emails
    BY DEF TypeOK, Request
  <2>6. users[e].name = Address
    BY <1>0, <2>2 DEF NamedLater
  <2>7. NamedLater'
    BY <2>2 DEF NamedLater
  <2> QED BY <2>1, <2>2, <2>3, <2>4, <2>5, <2>6, <2>7 DEF SignupKeepsPromise, At
<1>5. CASE UpdateUserName(h)
  <2> DEFINE e == req[h].email
  <2>1. req[h].pc = "name" /\ req[h].op = "signup" /\ users[e].exists
    BY <1>5 DEF UpdateUserName, At, OpOfStep, SignupKeepsPromise
  <2>2. /\ req'[h].pc = "code" /\ req'[h].email = e /\ req'[h].op = "signup"
        /\ \A g \in Handlers \ {h} : req'[g] = req[g]
    BY <1>5, <2>1, GotoMoves DEF UpdateUserName, Steps
  <2>3. /\ users'[e].exists /\ users'[e].name = h
        /\ \A c \in Emails \ {e} : users'[c] = users[c]
    BY <1>0, <1>5, <2>1 DEF UpdateUserName, TypeOK, User
  <2>4. \A g \in Handlers : req[g].email \in Emails /\ (req[g].pc = "name" => req[g].op = "signup")
    BY DEF TypeOK, Request, OpOfStep
  \* no other request named, or is about to name, the account
  <2>5. \A g \in Handlers \ {h} : req[g].op = "signup" /\ req[g].pc \in {"name", "code", "send"} =>
            req[g].email # e
    <3>1. users[e].name = Address
      BY <2>1 DEF SignupKeepsPromise, At
    <3>2. \A g \in Handlers : g # Address
      BY HandlersAssumption DEF Address
    <3> QED BY <2>1, <3>1, <3>2 DEF SignupKeepsPromise, At
  <2>6. NamedLater'
    BY <2>3 DEF NamedLater
  <2> QED BY <2>2, <2>3, <2>4, <2>5, <2>6 DEF SignupKeepsPromise, At
<1>6. CASE Lookup(h)
  <2>1. /\ req'[h].op = req[h].op /\ req'[h].pc \in {"code", "probe"} /\ users' = users
        /\ \A g \in Handlers \ {h} : req'[g] = req[g]
    BY <1>0, <1>6 DEF Lookup, TypeOK, Request
  <2>2. req[h].op # "signup"
    BY <1>6 DEF Lookup, At, OpOfStep
  <2> QED BY <2>1, <2>2, PromiseUntouched
<1>7. CASE Probe(h)
  <2>1. /\ req'[h].pc = "unprobe" /\ users' = users
        /\ \A g \in Handlers \ {h} : req'[g] = req[g]
    BY <1>0, <1>7 DEF Probe, TypeOK, Request
  <2> QED BY <2>1, PromiseUntouched
<1>8. CASE Unprobe(h)
  <2>1. req[h].op # "signup"
    BY <1>8 DEF Unprobe, At, OpOfStep
  <2> QED BY <1>3, <1>8, <2>1 DEF Unprobe, AfterProbe, Steps
<1>9. ASSUME NEW c \in Emails, ConfirmChange(h, c)
      PROVE  SignupKeepsPromise' /\ NamedLater'
  <2>1. /\ req'[h].pc = "logoutall"
        /\ \A g \in Handlers \ {h} : req'[g] = req[g]
    BY <1>9, GotoMoves DEF ConfirmChange, Steps
  <2>2. ConfirmPasswordReset(c)
    BY <1>9 DEF ConfirmChange
  <2>3. \A e \in Emails : /\ users'[e].exists = users[e].exists
                          /\ users'[e].name = users[e].name
    BY <2>2, ResetMoves
  <2> QED BY <2>1, <2>3, PromiseUntouched
<1>10. CASE StepFails(h) \/ SendCode(h) \/ LogoutAll(h)
  BY <1>2, <1>10 DEF StepFails, SendCode, LogoutAll
<1>11. CASE IssueCode(h)
  BY <1>2, <1>3, <1>11 DEF IssueCode, Steps, At
<1> QED BY <1>1, <1>4, <1>5, <1>6, <1>7, <1>8, <1>9, <1>10, <1>11 DEF Step

\* Sessions: a step that opens none and changes no version, no witness and no
\* request that has a session to close.
LEMMA StepSessions ==
  ASSUME TypeOK, SessionsExplained, NEW h \in Handlers, Begin(h) \/ Step(h)
  PROVE  SessionsExplained'
<1>0. req[h] \in Request /\ req[h].email \in Emails
  BY DEF TypeOK, Request
<1>a. \A s \in sessions : s \in Session /\ s.user \in Emails
  BY DEF TypeOK, Session
\* unless h was about to close a session or to end some, the explanations stand
<1>1. ASSUME UNCHANGED <<sessions, excused>>,
             \A e \in Emails : users'[e].version = users[e].version,
             \A g \in Handlers \ {h} : req'[g] = req[g],
             req[h].pc \notin {"unprobe", "logoutall"}
      PROVE  SessionsExplained'
  <2> SUFFICES ASSUME NEW s \in sessions
               PROVE  /\ s.by \in Handlers => req'[s.by].pc = "unprobe" /\ req'[s.by].email = s.user
                      /\ s.version < users'[s.user].version =>
                            \/ s.user \in excused
                            \/ \E g \in Handlers : req'[g].pc = "logoutall" /\ req'[g].email = s.user
    BY <1>1 DEF SessionsExplained, At
  <2>1. s.by \in Handlers => s.by # h /\ req[s.by].pc = "unprobe" /\ req[s.by].email = s.user
    BY <1>1 DEF SessionsExplained, At
  <2>2. s.version < users[s.user].version =>
           \/ s.user \in excused
           \/ \E g \in Handlers \ {h} : req[g].pc = "logoutall" /\ req[g].email = s.user
    BY <1>1 DEF SessionsExplained, At
  <2> QED BY <1>a, <1>1, <2>1, <2>2
<1>2. CASE Begin(h)
  <2>1. PICK e \in Emails, op \in Ops, p \in 0..MaxVersion : Ask(h, op, e, p)
    BY <1>2, BoundsAssumption DEF Begin, Ops, TypeOK, User
  <2> QED BY <1>1, <2>1 DEF Ask, At, TypeOK
<1>3. CASE StepFails(h)
  BY <1>1, <1>3, AnswerMoves DEF StepFails
<1>4. CASE CreateAccount(h)
  <2>1. \A e \in Emails : users'[e].version = users[e].version
    BY <1>0, <1>4 DEF CreateAccount, TypeOK, User
  <2> QED BY <1>1, <1>4, <2>1, GotoMoves DEF CreateAccount, Steps, At
<1>5. CASE UpdateUserName(h)
  <2>1. \A e \in Emails : users'[e].version = users[e].version
    BY <1>0, <1>5 DEF UpdateUserName, TypeOK, User
  <2> QED BY <1>1, <1>5, <2>1, GotoMoves DEF UpdateUserName, Steps, At
<1>6. CASE Lookup(h)
  BY <1>1, <1>6 DEF Lookup, At, TypeOK
<1>7. CASE IssueCode(h)
  BY <1>1, <1>7, AnswerMoves, GotoMoves DEF IssueCode, At, Steps
<1>8. CASE SendCode(h)
  BY <1>1, <1>8, AnswerMoves DEF SendCode, At
<1>9. CASE Probe(h)
  <2> DEFINE e == req[h].email
             new == [user |-> e, version |-> users[e].version, by |-> h]
  <2>1. /\ req[h].pc = "probe" /\ req'[h].pc = "unprobe" /\ req'[h].email = e
        /\ \A g \in Handlers \ {h} : req'[g] = req[g]
    BY <1>0, <1>9 DEF Probe, At, TypeOK, Request
  <2>2. sessions' = sessions \cup {new} /\ users' = users /\ excused' = excused
    BY <1>9 DEF Probe
  <2>3. new.by = h /\ new.user = e /\ ~(new.version < users[new.user].version)
    BY <1>0 DEF TypeOK, User
  <2> HIDE DEF new
  <2>4. \A s \in sessions : s.by # h
    BY <2>1 DEF SessionsExplained, At
  <2> QED BY <2>1, <2>2, <2>3, <2>4 DEF SessionsExplained, At
<1>10. CASE Unprobe(h)
  <2>1. /\ req[h].pc = "unprobe" /\ req'[h].pc # "logoutall"
        /\ \A g \in Handlers \ {h} : req'[g] = req[g]
        /\ users' = users /\ excused' = excused
    BY <1>10, GotoMoves DEF Unprobe, AfterProbe, At, Steps
  \* each session is one of the others, or one of h handed to the client
  <2>2. ASSUME NEW s \in sessions'
        PROVE  \E o \in sessions : /\ s.user = o.user /\ s.version = o.version
                                   /\ s.by # h /\ (s.by = o.by \/ s.by = "client")
    <3>1. CASE s \in sessions \ ProbesOf(h)
      BY <3>1 DEF ProbesOf
    <3>2. CASE \E o \in ProbesOf(h) : s = [o EXCEPT !.by = "client"]
      BY <1>a, <3>2, HandedOver, HandlersAssumption DEF ProbesOf
    <3> QED BY <1>10, <2>2, <3>1, <3>2 DEF Unprobe
  <2> SUFFICES ASSUME NEW s \in sessions'
               PROVE  /\ s.by \in Handlers => req'[s.by].pc = "unprobe" /\ req'[s.by].email = s.user
                      /\ s.version < users[s.user].version =>
                            \/ s.user \in excused
                            \/ \E g \in Handlers : req'[g].pc = "logoutall" /\ req'[g].email = s.user
    BY <2>1 DEF SessionsExplained, At
  <2>3. PICK o \in sessions : /\ s.user = o.user /\ s.version = o.version
                              /\ s.by # h /\ (s.by = o.by \/ s.by = "client")
    BY <2>2
  <2> QED BY <2>1, <2>3, HandlersAssumption DEF SessionsExplained, At
<1>11. ASSUME NEW c \in Emails, ConfirmChange(h, c) PROVE SessionsExplained'
  <2>1. /\ req[h].pc = "confirm" /\ req'[h].pc = "logoutall" /\ req'[h].email = req[h].email
        /\ \A g \in Handlers \ {h} : req'[g] = req[g]
    BY <1>11, GotoMoves DEF ConfirmChange, At, Steps
  <2>2. ConfirmPasswordReset(c) /\ excused' = excused \cup ({c} \ {req[h].email})
    BY <1>11 DEF ConfirmChange
  <2>3. sessions' \subseteq sessions /\ \A e \in Emails \ {c} : users'[e].version = users[e].version
    BY <2>2, ResetMoves
  <2> QED BY <1>0, <1>a, <2>1, <2>2, <2>3 DEF SessionsExplained, At
<1>12. CASE LogoutAll(h)
  <2> DEFINE e == req[h].email
  <2>1. /\ req[h].pc = "logoutall" /\ users' = users
        /\ \A g \in Handlers \ {h} : req'[g] = req[g]
    BY <1>12, AnswerMoves DEF LogoutAll, At
  <2>2. CASE sessions' = {s \in sessions : s.user # e} /\ excused' = excused \ {e}
    BY <2>1, <2>2 DEF SessionsExplained, At
  <2>3. CASE excused' = excused \cup {e} /\ sessions' = sessions
    BY <2>1, <2>3 DEF SessionsExplained, At
  <2> QED BY <1>12, <2>2, <2>3 DEF LogoutAll
<1> QED BY <1>2, <1>3, <1>4, <1>5, <1>6, <1>7, <1>8, <1>9, <1>10, <1>11, <1>12 DEF Step

\* Steps of no request keep the invariant.
LEMMA OthersKeep ==
  ASSUME FlowsInv, Others \/ UNCHANGED vars
  PROVE  FlowsInv'
<1>1. TypeOK /\ TypeOK'
  BY OtherTypes DEF FlowsInv
\* they leave the requests alone, so that names and sessions are what matters
<1>2. req' = req
  BY DEF Others, Login, VerifyEmail, ResetPassword, CodeExpires, SessionEnds, vars
<1>3. \A e \in Emails : users'[e].exists = users[e].exists /\ users'[e].name = users[e].name
  <2>1. CASE UNCHANGED users
    BY <2>1
  <2>2. ASSUME NEW c \in Emails, VerifyEmail(c)
        PROVE  \A e \in Emails : users'[e].exists = users[e].exists /\ users'[e].name = users[e].name
    BY <1>1, <2>2 DEF VerifyEmail, TypeOK, User
  <2>3. ASSUME NEW c \in Emails, ResetPassword(c)
        PROVE  \A e \in Emails : users'[e].exists = users[e].exists /\ users'[e].name = users[e].name
    BY <1>1, <2>3, ResetMoves DEF ResetPassword
  <2> QED BY <2>1, <2>2, <2>3 DEF Others, Login, CodeExpires, SessionEnds, vars
<1>4. OpOfStep' /\ NamedLater'
  BY <1>2, <1>3 DEF FlowsInv, OpOfStep, NamedLater
<1>5. SignupKeepsPromise'
  BY <1>1, <1>2, <1>3 DEF FlowsInv, SignupKeepsPromise, At, TypeOK, Request
<1>6. SessionsExplained'
  <2>1. CASE /\ sessions' \subseteq sessions /\ excused' = excused
             /\ \A e \in Emails : users'[e].version = users[e].version
    BY <1>1, <1>2, <2>1 DEF FlowsInv, SessionsExplained, At, TypeOK, Session
  <2>2. ASSUME NEW e \in Emails, Login(e, users[e].version) PROVE SessionsExplained'
    <3> DEFINE new == [user |-> e, version |-> users[e].version, by |-> "client"]
    <3>1. sessions' = sessions \cup {new} /\ users' = users /\ excused' = excused
      BY <2>2 DEF Login
    <3>2. new.by \notin Handlers /\ ~(new.version < users[new.user].version)
      BY <1>1, HandlersAssumption DEF TypeOK, User
    <3> HIDE DEF new
    <3> QED BY <1>2, <3>1, <3>2 DEF FlowsInv, SessionsExplained, At
  <2>3. ASSUME NEW c \in Emails, VerifyEmail(c) PROVE SessionsExplained'
    <3>1. \A e \in Emails : users'[e].version = users[e].version
      BY <1>1, <2>3 DEF VerifyEmail, TypeOK, User
    <3> QED BY <2>1, <2>3, <3>1 DEF VerifyEmail
  <2>4. ASSUME NEW c \in Emails, ResetPassword(c) PROVE SessionsExplained'
    <3>1. /\ sessions' \subseteq sessions /\ excused' = excused \cup {c}
          /\ \A e \in Emails \ {c} : users'[e].version = users[e].version
      BY <1>1, <2>4, ResetMoves DEF ResetPassword
    <3> QED BY <1>1, <1>2, <3>1 DEF FlowsInv, SessionsExplained, At, TypeOK, Session
  <2> QED BY <2>1, <2>2, <2>3, <2>4 DEF Others, CodeExpires, SessionEnds, vars
<1> QED BY <1>1, <1>4, <1>5, <1>6 DEF FlowsInv

\* A stop of the process excuses the accounts whose sessions were to be ended.
LEMMA CrashKeeps == ASSUME FlowsInv, Crash PROVE FlowsInv'
<1>1. TypeOK /\ TypeOK'
  BY OtherTypes DEF FlowsInv
<1>2. users' = users /\ \A h \in Handlers : req'[h].pc = "idle"
  BY IdleType DEF Crash
<1>3. OpOfStep' /\ NamedLater' /\ SignupKeepsPromise'
  BY <1>2 DEF FlowsInv, OpOfStep, NamedLater, SignupKeepsPromise
<1>4. SessionsExplained'
  <2> SUFFICES ASSUME NEW s \in sessions'
               PROVE  s.by \notin Handlers /\ (s.version < users[s.user].version => s.user \in excused')
    BY <1>2 DEF SessionsExplained
  <2>1. PICK o \in sessions : s = IF o.by \in Handlers THEN [o EXCEPT !.by = "client"] ELSE o
    BY DEF Crash
  <2>2. o \in Session
    BY <1>1 DEF TypeOK
  <2>3. s.user = o.user /\ s.version = o.version /\ s.by \notin Handlers
    BY <2>1, <2>2, HandedOver, HandlersAssumption
  <2>4. o.version < users[o.user].version => o.user \in excused'
    BY DEF FlowsInv, SessionsExplained, Crash
  <2> QED BY <2>3, <2>4
<1> QED BY <1>1, <1>3, <1>4 DEF FlowsInv

\* Every step of the composition is a step of Accounts or leaves it alone.
LEMMA NextKeeps == FlowsInv /\ [MailedNext]_allVars => FlowsInv'
<1> SUFFICES ASSUME FlowsInv, [MailedNext]_allVars PROVE FlowsInv'
  OBVIOUS
<1>1. CASE Others \/ UNCHANGED vars
  BY <1>1, OthersKeep
<1>2. CASE Crash
  BY <1>2, CrashKeeps
<1>3. ASSUME NEW h \in Handlers, Begin(h) \/ Step(h) PROVE FlowsInv'
  BY <1>3, BeginTypes, StepTypes, StepOps, StepPromise, StepSessions DEF FlowsInv
<1> QED BY <1>1, <1>2, <1>3 DEF MailedNext, AccountStep, MailStep, allVars

\* The invariant of the composition of accounts and mail.
THEOREM FlowsInvariant == Spec => []FlowsInv
<1>1. MailedInit => FlowsInv
  BY InitFlows DEF MailedInit
<1> QED BY <1>1, NextKeeps, PTL DEF Spec

\* However sign-ups race for an address and whatever fails between the account's
\* creation and its naming, a sign-up that goes on named the account it created
\* (auth/service.go, Signup).
THEOREM SignupsKeepTheirPromise == Spec => []SignupKeepsPromise
<1>1. FlowsInv => SignupKeepsPromise
  BY DEF FlowsInv
<1> QED BY <1>1, FlowsInvariant, PTL

\* Whatever is confirmed, reset, logged out or interrupted, a session outlives
\* the password it was opened under only in the cases that SessionsExplained
\* names (auth/service.go, ConfirmChangePassword and verifyCurrentPassword).
THEOREM SessionsAreExplained == Spec => []SessionsExplained
<1>1. FlowsInv => SessionsExplained
  BY DEF FlowsInv
<1> QED BY <1>1, FlowsInvariant, PTL

-----------------------------------------------------------------------------
(* Feedback submissions.                                                   *)

\* The sent mark is reached only behind a delivery.
MailInv ==
    /\ Mail!TypeOK
    /\ \A f \in Handlers : task[f] = "marksent" => mailed[f]
    /\ Mail!StatusTrue

\* What a step of one submission leaves of the others.
LEMMA MarkMoves ==
  ASSUME MailInv, NEW f \in Handlers, NEW r \in Mail!Row, NEW t \in Mail!Tasks,
         NEW l \in BOOLEAN, NEW m \in BOOLEAN, NEW u \in BOOLEAN,
         row' = [row EXCEPT ![f] = r], task' = [task EXCEPT ![f] = t],
         late' = [late EXCEPT ![f] = l], mailed' = [mailed EXCEPT ![f] = m],
         unlucky' = [unlucky EXCEPT ![f] = u],
         t = "marksent" => m,
         r.sent => m /\ ~r.error,
         t = "done" /\ ~r.sent /\ ~r.error => u
  PROVE  MailInv'
<1>1. Mail!TypeOK /\ Mail!StatusTrue /\ \A g \in Handlers : task[g] = "marksent" => mailed[g]
  BY DEF MailInv
<1>2. Mail!TypeOK'
  BY <1>1 DEF Mail!TypeOK
<1>3. /\ row'[f] = r /\ task'[f] = t /\ mailed'[f] = m /\ unlucky'[f] = u
      /\ \A g \in Handlers \ {f} : /\ row'[g] = row[g] /\ task'[g] = task[g]
                                   /\ mailed'[g] = mailed[g] /\ unlucky'[g] = unlucky[g]
  BY <1>1 DEF Mail!TypeOK
<1>4. \A g \in Handlers : task'[g] = "marksent" => mailed'[g]
  BY <1>1, <1>3
<1>5. Mail!StatusTrue'
  BY <1>1, <1>3 DEF Mail!StatusTrue, Mail!At
<1> QED BY <1>2, <1>4, <1>5 DEF MailInv

\* Setting a function where it has the value already.
LEMMA SameThere ==
  ASSUME NEW D, NEW S, NEW fn \in [D -> S], NEW d \in D
  PROVE  fn = [fn EXCEPT ![d] = fn[d]]
OBVIOUS

LEMMA MailStepKeeps ==
  ASSUME MailInv, NEW f \in Handlers,
         Mail!Dispatch(f) \/ Mail!Submit(f) \/ Mail!WindowEnds(f) \/ Mail!Forget(f)
  PROVE  MailInv'
<1>1. /\ row \in [Handlers -> Mail!Row] /\ task \in [Handlers -> Mail!Tasks]
      /\ late \in [Handlers -> BOOLEAN] /\ mailed \in [Handlers -> BOOLEAN]
      /\ unlucky \in [Handlers -> BOOLEAN]
  BY DEF MailInv, Mail!TypeOK
<1>2. /\ row[f].sent => mailed[f] /\ ~row[f].error
      /\ task[f] = "done" /\ ~row[f].sent /\ ~row[f].error => unlucky[f]
      /\ task[f] = "marksent" => mailed[f]
  BY DEF MailInv, Mail!StatusTrue, Mail!At
<1>3. /\ row = [row EXCEPT ![f] = row[f]] /\ task = [task EXCEPT ![f] = task[f]]
      /\ late = [late EXCEPT ![f] = late[f]] /\ mailed = [mailed EXCEPT ![f] = mailed[f]]
      /\ unlucky = [unlucky EXCEPT ![f] = unlucky[f]]
  BY <1>1, SameThere
<1>4. /\ row[f] \in Mail!Row /\ task[f] \in Mail!Tasks /\ late[f] \in BOOLEAN
      /\ mailed[f] \in BOOLEAN /\ unlucky[f] \in BOOLEAN
  BY <1>1
<1>5. CASE Mail!Submit(f)
  <2>1. task' = [task EXCEPT ![f] = "queue"] /\ UNCHANGED <<row, late, mailed, unlucky>>
    BY <1>5 DEF Mail!Submit, Mail!Goto
  <2>2. "queue" \in Mail!Tasks
    BY DEF Mail!Tasks
  <2> QED BY <1>2, <1>3, <1>4, <2>1, <2>2, MarkMoves
<1>6. CASE Mail!MarkQueued(f)
  <2> DEFINE r == [row[f] EXCEPT !.queued = TRUE, !.error = FALSE]
  <2>1. /\ task' = [task EXCEPT ![f] = "send"] /\ row' = [row EXCEPT ![f] = r]
        /\ UNCHANGED <<late, mailed, unlucky>>
    BY <1>6 DEF Mail!MarkQueued, Mail!Goto
  <2>2. r \in Mail!Row /\ r.sent = row[f].sent /\ r.error = FALSE
    BY <1>4 DEF Mail!Row
  <2>3. "send" \in Mail!Tasks
    BY DEF Mail!Tasks
  <2> HIDE DEF r
  <2> QED BY <1>2, <1>3, <1>4, <2>1, <2>2, <2>3, MarkMoves
<1>7. CASE Mail!QueuedLost(f)
  <2>1. task' = [task EXCEPT ![f] = "send"] /\ UNCHANGED <<row, late, mailed, unlucky>>
    BY <1>7 DEF Mail!QueuedLost, Mail!Goto
  <2>2. "send" \in Mail!Tasks
    BY DEF Mail!Tasks
  <2> QED BY <1>2, <1>3, <1>4, <2>1, <2>2, MarkMoves
<1>8. CASE Mail!Send(f)
  <2>1. PICK t \in {"marksent", "markfailed"}, m \in BOOLEAN :
          /\ task' = [task EXCEPT ![f] = t] /\ mailed' = [mailed EXCEPT ![f] = m]
          /\ t = "marksent" => m
          /\ mailed[f] => m
    BY <1>3, <1>4, <1>8 DEF Mail!Send, Mail!Goto
  <2>2. t \in Mail!Tasks /\ t # "done" /\ UNCHANGED <<row, late, unlucky>>
    BY <1>8 DEF Mail!Tasks, Mail!Send
  <2> QED BY <1>2, <1>3, <1>4, <2>1, <2>2, MarkMoves
<1>9. CASE Mail!MarkSent(f)
  <2> DEFINE r == [row[f] EXCEPT !.sent = TRUE, !.error = FALSE]
  <2>1. /\ task' = [task EXCEPT ![f] = "done"] /\ row' = [row EXCEPT ![f] = r]
        /\ late' = [late EXCEPT ![f] = FALSE] /\ UNCHANGED <<mailed, unlucky>>
        /\ task[f] = "marksent"
    BY <1>9 DEF Mail!MarkSent, Mail!Finish, Mail!Goto, Mail!At
  <2>2. r \in Mail!Row /\ r.sent = TRUE /\ r.error = FALSE
    BY <1>4 DEF Mail!Row
  <2>3. "done" \in Mail!Tasks
    BY DEF Mail!Tasks
  <2> HIDE DEF r
  <2> QED BY <1>2, <1>3, <1>4, <2>1, <2>2, <2>3, MarkMoves
<1>10. CASE Mail!MarkFailed(f)
  <2> DEFINE r == [row[f] EXCEPT !.error = TRUE, !.sent = FALSE]
  <2>1. /\ task' = [task EXCEPT ![f] = "done"] /\ row' = [row EXCEPT ![f] = r]
        /\ late' = [late EXCEPT ![f] = FALSE] /\ UNCHANGED <<mailed, unlucky>>
    BY <1>10 DEF Mail!MarkFailed, Mail!Finish, Mail!Goto
  <2>2. r \in Mail!Row /\ r.sent = FALSE /\ r.error = TRUE
    BY <1>4 DEF Mail!Row
  <2>3. "done" \in Mail!Tasks
    BY DEF Mail!Tasks
  <2> HIDE DEF r
  <2> QED BY <1>2, <1>3, <1>4, <2>1, <2>2, <2>3, MarkMoves
<1>11. CASE Mail!MarkLost(f)
  <2>1. /\ task' = [task EXCEPT ![f] = "done"] /\ unlucky' = [unlucky EXCEPT ![f] = TRUE]
        /\ late' = [late EXCEPT ![f] = FALSE] /\ UNCHANGED <<row, mailed>>
    BY <1>11 DEF Mail!MarkLost, Mail!Finish, Mail!Goto
  <2>2. "done" \in Mail!Tasks
    BY DEF Mail!Tasks
  <2> QED BY <1>2, <1>3, <1>4, <2>1, <2>2, MarkMoves
<1>12. CASE Mail!WindowEnds(f)
  <2>1. late' = [late EXCEPT ![f] = TRUE] /\ UNCHANGED <<row, task, mailed, unlucky>>
    BY <1>12 DEF Mail!WindowEnds
  <2>2. Mail!TypeOK'
    BY <1>1, <2>1 DEF Mail!TypeOK
  <2> QED BY <2>1, <2>2 DEF MailInv, Mail!StatusTrue, Mail!At
<1>13. CASE Mail!Forget(f)
  <2>1. /\ task' = [task EXCEPT ![f] = "none"] /\ row' = [row EXCEPT ![f] = Mail!NoRow]
        /\ mailed' = [mailed EXCEPT ![f] = FALSE] /\ unlucky' = [unlucky EXCEPT ![f] = FALSE]
        /\ UNCHANGED late
    BY <1>13 DEF Mail!Forget, Mail!Goto
  <2>2. Mail!NoRow \in Mail!Row /\ Mail!NoRow.sent = FALSE /\ "none" \in Mail!Tasks
    BY DEF Mail!NoRow, Mail!Row, Mail!Tasks
  <2> QED BY <1>3, <1>4, <2>1, <2>2, MarkMoves
<1> QED BY <1>5, <1>6, <1>7, <1>8, <1>9, <1>10, <1>11, <1>12, <1>13 DEF Mail!Dispatch

LEMMA MailCrashKeeps == ASSUME MailInv, Mail!Crash PROVE MailInv'
<1>1. Mail!TypeOK /\ Mail!StatusTrue
  BY DEF MailInv
<1>2. /\ row' = row /\ mailed' = mailed
      /\ \A f \in Handlers : /\ task'[f] \in {"none", "done"}
                             /\ task'[f] = "done" => task[f] # "none"
                             /\ unlucky'[f] = (unlucky[f] \/ task[f] \notin {"none", "done"})
  BY DEF Mail!Crash, Mail!At
<1>3. Mail!TypeOK'
  BY <1>1 DEF Mail!Crash, Mail!TypeOK, Mail!Tasks, Mail!At
<1>4. Mail!StatusTrue'
  BY <1>1, <1>2 DEF Mail!StatusTrue, Mail!At
<1> QED BY <1>2, <1>3, <1>4 DEF MailInv

\* What the row of a submission says about its mail is true, whatever is lost on
\* the way (feedback/service.go, dispatchFeedbackEmail).
THEOREM FeedbackStatusIsTrue == Spec => []FeedbackStatusTrue
<1>1. MailedInit => MailInv
  BY DEF MailedInit, MailInv, Mail!Init, Mail!TypeOK, Mail!StatusTrue, Mail!NoRow,
         Mail!Row, Mail!Tasks, Mail!At
<1>2. MailInv /\ [MailedNext]_allVars => MailInv'
  <2> SUFFICES ASSUME MailInv, [MailedNext]_allVars PROVE MailInv'
    OBVIOUS
  <2>1. CASE UNCHANGED mail
    BY <2>1 DEF mail, MailInv, Mail!TypeOK, Mail!StatusTrue, Mail!At
  <2>2. CASE \E f \in Handlers : \/ Mail!Dispatch(f) \/ Mail!Submit(f)
                                 \/ Mail!WindowEnds(f) \/ Mail!Forget(f)
    BY <2>2, MailStepKeeps
  <2>3. CASE Mail!Crash
    BY <2>3, MailCrashKeeps
  <2> QED BY <2>1, <2>2, <2>3 DEF MailedNext, AccountStep, MailStep, allVars
<1>3. FlowsInv /\ MailInv => FeedbackStatusTrue
  BY DEF FlowsInv, MailInv, FeedbackStatusTrue, MailedTypeOK
<1> QED BY <1>1, <1>2, <1>3, FlowsInvariant, PTL DEF Spec

=============================================================================
