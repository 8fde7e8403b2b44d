--------------------------- MODULE ArtifactsProofs ---------------------------
(***************************************************************************)
(* Theorems about Artifacts: types, the distance between a document and    *)
(* its row, the lifecycle of the kinds whose UPDATE guards itself, and     *)
(* what the checks of service and SQL achieve together when requests come  *)
(* one at a time.                                                          *)
(***************************************************************************)
EXTENDS Artifacts, TLAPS

(* The statuses of the rules: what an accepted patch asks for and what the *)
(* SQL expressions return are statuses (NewStatus, NewWas, Initial).       *)
LEMMA InitialIsStatus == \A kind \in Kinds : Initial(kind) \in AllStatuses
<1> SUFFICES ASSUME NEW kind \in Kinds PROVE Initial(kind) \in Statuses(kind)
  BY DEF AllStatuses
<1>1. CASE kind \in Lockable
  BY <1>1 DEF Initial, Statuses, Lockable
<1>2. CASE kind = "idea"
  BY <1>2 DEF Initial, Statuses, Lockable
<1>3. CASE kind = "task"
  BY <1>3 DEF Initial, Statuses, Lockable
<1>4. CASE kind = "feedback"
  BY <1>4 DEF Initial, Statuses, Lockable
<1> QED BY <1>1, <1>2, <1>3, <1>4 DEF Kinds, Lockable

LEMMA AbsentIsNoStatus == "Absent" \notin AllStatuses /\ "" \notin AllStatuses
BY DEF AllStatuses, Statuses, Kinds, Lockable

LEMMA UpdatedIsRow ==
    ASSUME NEW kind \in Kinds, NEW r \in Row, r.status # "Absent", NEW p \in Patch
    PROVE  Updated(kind, r, p) \in Row
<1> DEFINE ns == NewStatus(kind, r, p)
           nw == NewWas(r, p)
           nl == IF p.link # None \/ kind = "feedback" THEN p.link ELSE r.link
           nb == IF p.edit THEN r.rev + 1 ELSE r.body
<1>1. r.status \in AllStatuses /\ r.was \in AllStatuses \cup {""} /\ r.link \in Arts \cup {None}
  BY DEF Row
<1>2. p.status \in AllStatuses \cup {""} /\ p.link \in Arts \cup {None} /\ p.edit \in BOOLEAN
  BY DEF Patch
<1>3. ns \in AllStatuses
  BY <1>1, <1>2, InitialIsStatus DEF NewStatus, Restores
<1>4. nw \in AllStatuses \cup {""}
  BY <1>1 DEF NewWas
<1>5. nl \in Arts \cup {None}
  BY <1>1, <1>2
<1>6. r.rev \in Nat /\ r.body \in Nat
  BY DEF Row
<1>7. r.rev + 1 \in Nat /\ nb \in Nat
  BY <1>6
<1>8. Updated(kind, r, p) = [status |-> ns, was |-> nw, link |-> nl, rev |-> r.rev + 1, body |-> nb]
  BY DEF Updated
<1>9. \A a \in AllStatuses, b \in AllStatuses \cup {""}, c \in Arts \cup {None}, d \in Nat, e \in Nat :
        [status |-> a, was |-> b, link |-> c, rev |-> d, body |-> e] \in Row
  BY DEF Row
<1> HIDE DEF ns, nw, nl, nb
<1>10. [status |-> ns, was |-> nw, link |-> nl, rev |-> r.rev + 1, body |-> nb] \in Row
  BY <1>3, <1>4, <1>5, <1>7, <1>9, Zenon
<1> QED BY <1>8, <1>10

(* An idle handler, whatever it answered, is a handler. *)
LEMMA IdleIsHandler ==
    \A ans \in {"none", "ok", "rejected", "notFound", "failed"} : Idle(ans) \in Handler
<1>1. NoRow \in Row
  BY DEF NoRow, Row
<1>2. NoPatch \in Patch
  BY DEF NoPatch, Patch
<1> QED BY <1>1, <1>2 DEF Idle, Handler

-----------------------------------------------------------------------------
(* The steps of a handler, by what they do to its record.                  *)

InTx == {"sources", "document", "record", "commit"}

\* nothing but h's place and answer changes
Moves(h, pcs) ==
    /\ UNCHANGED <<row, doc>>
    /\ \/ \E ans \in {"rejected", "notFound", "failed"} : Finish(h, ans)
       \/ \E pc \in pcs : Goto(h, pc)

\* h starts an update
Starts(h) ==
    /\ hs[h].pc = "idle"
    /\ \E a \in Arts : \E p \in Patch : \E pc \in {"link", "update"} :
         /\ row[a].status # "Absent" /\ p.status \in Statuses(Kind[a]) \cup {""}
         /\ hs' = [hs EXCEPT ![h] = [Idle("none") EXCEPT !.pc = pc, !.art = a, !.patch = p,
                                                         !.from = row[a].status]]
    /\ UNCHANGED <<row, doc>>

\* the UPDATE of h finds its row
Applies(h) ==
    /\ hs[h].pc = "update" /\ Writing(hs[h].art) = {}
    /\ \E next \in {"sources", "document"} :
         hs' = [hs EXCEPT ![h] =
                  [@ EXCEPT !.pc = next,
                            !.new = Updated(Kind[hs[h].art], row[hs[h].art], hs[h].patch)]]
    /\ Kind[hs[h].art] \in Lockable => LockableRow(row[hs[h].art], hs[h].patch)
    /\ UNCHANGED <<row, doc>>

Step(h) ==
    \/ \E kind \in Kinds : Create(h, kind)
    \/ Starts(h)
    \/ hs[h].pc = "idle" /\ Moves(h, {})
    \/ hs[h].pc = "link" /\ Moves(h, {"update"})
    \/ hs[h].pc = "update" /\ Moves(h, {})
    \/ Applies(h)
    \/ hs[h].pc = "sources" /\ Moves(h, {"document"})
    \/ WriteDocument(h) \/ RecordActivity(h) \/ Commit(h)
    \/ hs[h].pc # "idle" /\ Moves(h, {})

LEMMA NextIsStep == TypeOK /\ Next => \E h \in Handlers : Step(h)
<1> SUFFICES ASSUME TypeOK, NEW h \in Handlers, Service(h) \/ Repository(h) \/ RollBack(h)
             PROVE  Step(h)
  BY DEF Next
<1> DEFINE first == {"link", "update"}
<1>1. ASSUME NEW kind \in Kinds, NEW pc \in first, Load(h, kind, pc) PROVE Step(h)
  <2>1. PICK a \in Arts : \E p \in Patches(a) :
          /\ Kind[a] = kind /\ row[a].status # "Absent"
          /\ IF ServiceAccepts(kind, row[a].status, p)
             THEN /\ row[a].rev + Cardinality(Serving(a)) < MaxRev[a]
                  /\ hs' = [hs EXCEPT ![h] =
                              [Idle("none") EXCEPT !.pc = IF p.link = None THEN "update" ELSE pc,
                                                   !.art = a, !.patch = p,
                                                   !.from = row[a].status]]
             ELSE Finish(h, "rejected")
    BY <1>1 DEF Load
  <2>2. PICK p \in Patches(a) :
          /\ row[a].status # "Absent"
          /\ \/ /\ hs' = [hs EXCEPT ![h] =
                              [Idle("none") EXCEPT !.pc = IF p.link = None THEN "update" ELSE pc,
                                                   !.art = a, !.patch = p,
                                                   !.from = row[a].status]]
                /\ p.status \in Statuses(Kind[a]) \cup {""}
             \/ Finish(h, "rejected")
    BY <2>1 DEF ServiceAccepts
  <2>3. hs[h].pc = "idle" /\ UNCHANGED <<row, doc>>
    BY <1>1 DEF Load
  <2>4. p \in Patch
    BY DEF Patches
  <2>5. CASE Finish(h, "rejected")
    BY <2>3, <2>5 DEF Step, Moves
  <2>6. CASE /\ hs' = [hs EXCEPT ![h] =
                         [Idle("none") EXCEPT !.pc = IF p.link = None THEN "update" ELSE pc,
                                              !.art = a, !.patch = p, !.from = row[a].status]]
             /\ p.status \in Statuses(Kind[a]) \cup {""}
    <3> DEFINE q == IF p.link = None THEN "update" ELSE pc
    <3>1. q \in {"link", "update"}
      OBVIOUS
    <3>2. hs' = [hs EXCEPT ![h] = [Idle("none") EXCEPT !.pc = q, !.art = a, !.patch = p,
                                                       !.from = row[a].status]]
      BY <2>6
    <3> HIDE DEF q
    <3>3. Starts(h)
      <4>1. row[a].status # "Absent" /\ p.status \in Statuses(Kind[a]) \cup {""}
        BY <2>2, <2>6
      <4> QED BY <2>3, <2>4, <3>1, <3>2, <4>1 DEF Starts
    <3> QED BY <3>3 DEF Step
  <2> QED BY <2>2, <2>5, <2>6
<1>2. ASSUME NEW kind \in Kinds, NEW required, CheckLink(h, kind, required) PROVE Step(h)
  BY <1>2 DEF CheckLink, Step, Moves
<1>3. ASSUME NEW kind \in Kinds, NEW matches, NEW next \in {"sources", "document"},
             Statement(h, kind, matches, next),
             matches /\ kind \in Lockable => LockableRow(row[hs[h].art], hs[h].patch)
      PROVE Step(h)
  <2>1. CASE matches
    <3>1. Applies(h)
      BY <1>3, <2>1 DEF Statement, Applies
    <3> QED BY <3>1 DEF Step
  <2>2. CASE ~matches
    BY <1>3, <2>2 DEF Statement, Step, Moves
  <2> QED BY <2>1, <2>2
<1>4. CASE Service(h)
  <2> "story" \in Kinds /\ "journey" \in Kinds /\ "problem" \in Kinds
      /\ "idea" \in Kinds /\ "task" \in Kinds /\ "feedback" \in Kinds
    BY DEF Kinds
  <2>1. CASE \E kind \in Kinds : Create(h, kind)
    BY <2>1 DEF Step
  <2>2. CASE \E kind \in Kinds : \E pc \in first : Load(h, kind, pc)
    BY <2>2, <1>1
  <2> QED BY <1>4, <2>1, <2>2
      DEF Service, CreateStory, CreateJourney, CreateProblem, CreateIdea, CreateTask,
          CreateFeedback, LoadStory, LoadJourney, LoadProblem, LoadIdea, LoadTask, LoadFeedback
<1>5. CASE Repository(h)
  <2> "story" \in Kinds /\ "journey" \in Kinds /\ "problem" \in Kinds
      /\ "idea" \in Kinds /\ "task" \in Kinds /\ "feedback" \in Kinds
      /\ "idea" \notin Lockable /\ "task" \notin Lockable /\ "feedback" \notin Lockable
    BY DEF Kinds, Lockable
  <2>1. CASE CheckProblemLocked(h) \/ CheckIdeaSelected(h)
    BY <2>1, <1>2 DEF CheckProblemLocked, CheckIdeaSelected
  <2>2. CASE UpdateStory(h)
    BY <2>2, <1>3 DEF UpdateStory
  <2>3. CASE UpdateJourney(h)
    BY <2>3, <1>3 DEF UpdateJourney
  <2>4. CASE UpdateProblem(h)
    <3> DEFINE next == IF hs[h].patch.link = None THEN "document" ELSE "sources"
    <3>1. next \in {"sources", "document"}
      OBVIOUS
    <3>2. Statement(h, "problem", LockableRow(row[hs[h].art], hs[h].patch), next)
      BY <2>4 DEF UpdateProblem
    <3> HIDE DEF next
    <3> QED BY <3>1, <3>2, <1>3
  <2>5. CASE UpdateIdea(h)
    BY <2>5, <1>3 DEF UpdateIdea
  <2>6. CASE UpdateTask(h)
    BY <2>6, <1>3 DEF UpdateTask
  <2>7. CASE UpdateFeedback(h)
    BY <2>7, <1>3 DEF UpdateFeedback
  <2>8. CASE LinkSources(h)
    BY <2>8 DEF LinkSources, Step, Moves
  <2>9. CASE WriteDocument(h) \/ RecordActivity(h) \/ Commit(h)
    BY <2>9 DEF Step
  <2> QED BY <1>5, <2>1, <2>2, <2>3, <2>4, <2>5, <2>6, <2>7, <2>8, <2>9 DEF Repository
<1>6. CASE RollBack(h)
  BY <1>6 DEF RollBack, Step, Moves
<1> QED BY <1>4, <1>5, <1>6

-----------------------------------------------------------------------------
(* The inductive invariant.  A handler past Load serves an artifact; one    *)
(* that will run its UPDATE serves a committed one; a writer's row is one   *)
(* revision above the committed row, and so is the document once written.   *)

RecAlive(rec) ==
    /\ rec.pc # "idle" => rec.art \in Arts
    /\ rec.pc \in {"link", "update"} => row[rec.art].status # "Absent"
    /\ rec.pc \in InTx => rec.new.status # "Absent"

Alive == \A h \in Handlers : RecAlive(hs[h])

RecAhead(rec) ==
    /\ rec.pc \in InTx => rec.new.rev = row[rec.art].rev + 1
    /\ rec.pc \in {"record", "commit"} => doc[rec.art].rev = rec.new.rev

Ahead == \A h \in Handlers : RecAhead(hs[h])

\* the row lock
Exclusive ==
    \A g, h \in Handlers :
        hs[g].pc \in InTx /\ hs[h].pc \in InTx /\ hs[g].art = hs[h].art => g = h

AbsentIsNew == \A a \in Arts : row[a].status = "Absent" => row[a].rev = 0

IInv == TypeOK /\ Alive /\ Ahead /\ Exclusive /\ AbsentIsNew /\ DocumentNearRow

-----------------------------------------------------------------------------
(* What each kind of step does to the types.                               *)

LEMMA StepType == ASSUME TypeOK, Alive, NEW h \in Handlers, Step(h) PROVE TypeOK'
<1> USE DEF TypeOK
<1>1. ASSUME NEW rec \in Handler, hs' = [hs EXCEPT ![h] = rec] PROVE hs' \in [Handlers -> Handler]
  BY <1>1
<1>2. ASSUME UNCHANGED <<row, doc>>, hs' \in [Handlers -> Handler] PROVE TypeOK'
  BY <1>2
<1>3. ASSUME NEW ans \in {"none", "ok", "rejected", "notFound", "failed"}, Finish(h, ans)
      PROVE  hs' \in [Handlers -> Handler]
  BY <1>3, IdleIsHandler DEF Finish
<1>4. ASSUME NEW pc \in {"idle", "link", "update", "sources", "document", "record", "commit"},
             Goto(h, pc)
      PROVE  hs' \in [Handlers -> Handler]
  <2>1. [hs[h] EXCEPT !.pc = pc] \in Handler
    BY DEF Handler
  <2> QED BY <1>4, <2>1, <1>1 DEF Goto
<1>5. ASSUME NEW pcs \in SUBSET {"update", "document"}, Moves(h, pcs) PROVE TypeOK'
  BY <1>2, <1>3, <1>4, <1>5 DEF Moves
<1>6. NoRow \in Row /\ NoPatch \in Patch /\ Idle("none") \in Handler
  BY IdleIsHandler DEF NoRow, NoPatch, Row, Patch
<1>7. ASSUME NEW kind \in Kinds, Create(h, kind) PROVE TypeOK'
  <2> DEFINE n == [NoRow EXCEPT !.status = Initial(kind), !.rev = 1, !.body = 1]
             q == [NoPatch EXCEPT !.edit = TRUE]
  <2>1. n \in Row
    BY <1>6, InitialIsStatus DEF NoRow, Row
  <2>2. q \in Patch
    BY DEF NoPatch, Patch
  <2> HIDE DEF n, q
  <2>3. PICK a \in Arts :
          hs' = [hs EXCEPT ![h] = [Idle("none") EXCEPT !.pc = "document", !.art = a,
                                                       !.patch = q, !.new = n]]
    BY <1>7 DEF Create, n, q
  <2>4. [Idle("none") EXCEPT !.pc = "document", !.art = a, !.patch = q, !.new = n] \in Handler
    BY <1>6, <2>1, <2>2 DEF Handler
  <2> QED BY <1>1, <1>2, <1>7, <2>3, <2>4 DEF Create
<1>8. ASSUME Starts(h) PROVE TypeOK'
  <2>1. PICK a \in Arts, p \in Patch, pc \in {"link", "update"} :
          /\ row[a].status # "Absent"
          /\ hs' = [hs EXCEPT ![h] = [Idle("none") EXCEPT !.pc = pc, !.art = a, !.patch = p,
                                                          !.from = row[a].status]]
    BY <1>8 DEF Starts
  <2>2. row[a].status \in AllStatuses
    BY <2>1 DEF Row
  <2> DEFINE st == row[a].status
  <2> HIDE DEF st
  <2>3. [Idle("none") EXCEPT !.pc = pc, !.art = a, !.patch = p, !.from = st] \in Handler
    BY <1>6, <2>2 DEF Handler, st
  <2> QED BY <1>1, <1>2, <1>8, <2>1, <2>3 DEF Starts, st
<1>9. ASSUME Applies(h), hs[h].art \in Arts, row[hs[h].art].status # "Absent" PROVE TypeOK'
  <2> DEFINE n == Updated(Kind[hs[h].art], row[hs[h].art], hs[h].patch)
  <2>1. hs[h].patch \in Patch /\ row[hs[h].art] \in Row /\ Kind[hs[h].art] \in Kinds
    BY <1>9, KindAssumption DEF Handler
  <2>2. n \in Row
    BY <2>1, <1>9, UpdatedIsRow
  <2> HIDE DEF n
  <2>3. PICK next \in {"sources", "document"} :
          hs' = [hs EXCEPT ![h] = [@ EXCEPT !.pc = next, !.new = n]]
    BY <1>9 DEF Applies, n
  <2>4. [hs[h] EXCEPT !.pc = next, !.new = n] \in Handler
    BY <2>2 DEF Handler
  <2> QED BY <1>1, <1>2, <1>9, <2>3, <2>4 DEF Applies
<1>10. ASSUME WriteDocument(h), hs[h].art \in Arts PROVE TypeOK'
  <2>1. hs' \in [Handlers -> Handler] /\ row' = row
    BY <1>10, <1>4 DEF WriteDocument
  <2>2. hs[h].new.rev \in Nat /\ hs[h].new.body \in Nat
    BY DEF Handler, Row
  <2>3. doc[hs[h].art].body \in Nat
    BY <1>10 DEF Doc
  <2> DEFINE d == [rev |-> hs[h].new.rev,
                   body |-> IF hs[h].patch.edit THEN hs[h].new.body ELSE doc[hs[h].art].body]
  <2>4. d \in Doc
    BY <2>2, <2>3 DEF Doc
  <2>5. doc' = [doc EXCEPT ![hs[h].art] = d]
    BY <1>10 DEF WriteDocument
  <2> HIDE DEF d
  <2>6. doc' \in [Arts -> Doc]
    BY <2>4, <2>5
  <2> QED BY <2>1, <2>6
<1>11. ASSUME RecordActivity(h) PROVE TypeOK'
  <2>1. PICK failed \in BOOLEAN :
          hs' = [hs EXCEPT ![h] = [@ EXCEPT !.pc = "commit", !.aborted = failed]]
    BY <1>11 DEF RecordActivity
  <2>2. [hs[h] EXCEPT !.pc = "commit", !.aborted = failed] \in Handler
    BY DEF Handler
  <2> QED BY <1>1, <1>2, <1>11, <2>1, <2>2 DEF RecordActivity
<1>12. ASSUME Commit(h) PROVE TypeOK'
  <2>1. hs' \in [Handlers -> Handler] /\ doc' = doc
    BY <1>12, <1>3 DEF Commit
  <2>2. hs[h].new \in Row
    BY DEF Handler
  <2>3. row' = row \/ row' = [row EXCEPT ![hs[h].art] = hs[h].new]
    BY <1>12 DEF Commit
  <2>4. row' \in [Arts -> Row]
    BY <2>2, <2>3
  <2> QED BY <2>1, <2>4
<1>13. hs[h].pc # "idle" => hs[h].art \in Arts
  BY DEF Alive, RecAlive
<1>14. hs[h].pc = "update" => row[hs[h].art].status # "Absent"
  BY DEF Alive, RecAlive
<1>15. {} \in SUBSET {"update", "document"} /\ {"update"} \in SUBSET {"update", "document"}
       /\ {"document"} \in SUBSET {"update", "document"}
  OBVIOUS
<1>16. CASE WriteDocument(h)
  BY <1>10, <1>13, <1>16 DEF WriteDocument
<1>17. CASE Applies(h)
  BY <1>9, <1>13, <1>14, <1>17 DEF Applies
<1> QED BY <1>5, <1>7, <1>8, <1>11, <1>12, <1>15, <1>16, <1>17 DEF Step

-----------------------------------------------------------------------------
(* Steps that only change the record of h: the invariant follows from what *)
(* the new record says.                                                    *)
LEMMA LocalStep ==
    ASSUME IInv, NEW h \in Handlers, NEW rec,
           UNCHANGED <<row, doc>>, hs' = [hs EXCEPT ![h] = rec],
           RecAlive(rec), RecAhead(rec),
           rec.pc \in InTx =>
             \A g \in Handlers \ {h} : hs[g].pc \in InTx => hs[g].art # rec.art
    PROVE  Alive' /\ Ahead' /\ Exclusive' /\ AbsentIsNew' /\ DocumentNearRow'
<1>1. \A g \in Handlers : hs'[g] = IF g = h THEN rec ELSE hs[g]
  BY DEF IInv, TypeOK
<1>2. Alive'
  BY <1>1 DEF IInv, Alive, RecAlive
<1>3. Ahead'
  BY <1>1 DEF IInv, Ahead, RecAhead
<1>4. Exclusive'
  BY <1>1 DEF IInv, Exclusive
<1>5. AbsentIsNew' /\ DocumentNearRow'
  BY DEF IInv, AbsentIsNew, DocumentNearRow
<1> QED BY <1>2, <1>3, <1>4, <1>5

LEMMA StepInv == ASSUME IInv, NEW h \in Handlers, Step(h)
                 PROVE  Alive' /\ Ahead' /\ Exclusive' /\ AbsentIsNew' /\ DocumentNearRow'
<1> DEFINE Others == Alive' /\ Ahead' /\ Exclusive' /\ AbsentIsNew' /\ DocumentNearRow'
<1> USE DEF InTx
<1>1. \A ans : RecAlive(Idle(ans)) /\ RecAhead(Idle(ans)) /\ Idle(ans).pc = "idle"
  BY DEF RecAlive, RecAhead, Idle
<1>2. ASSUME NEW ans, Finish(h, ans), UNCHANGED <<row, doc>> PROVE Others
  BY <1>1, <1>2, LocalStep DEF Finish
<1>3. hs[h] \in Handler /\ RecAlive(hs[h]) /\ RecAhead(hs[h])
  BY DEF IInv, TypeOK, Alive, Ahead
<1>4. ASSUME NEW g \in Handlers \ {h}, hs[g].pc \in InTx, hs[h].pc \in InTx
      PROVE  hs[g].art # hs[h].art
  BY <1>4 DEF IInv, Exclusive
<1>5. ASSUME NEW pc \in {"update", "document"}, Goto(h, pc), UNCHANGED <<row, doc>>,
             pc = "update" => hs[h].pc = "link", pc = "document" => hs[h].pc = "sources"
      PROVE  Others
  <2> DEFINE rec == [hs[h] EXCEPT !.pc = pc]
  <2>1. rec.pc = pc /\ rec.art = hs[h].art /\ rec.new = hs[h].new
    BY <1>3 DEF Handler
  <2>2. hs' = [hs EXCEPT ![h] = rec]
    BY <1>5 DEF Goto
  <2> HIDE DEF rec
  <2>3. RecAlive(rec) /\ RecAhead(rec)
    BY <1>3, <1>5, <2>1 DEF RecAlive, RecAhead
  <2>4. rec.pc \in InTx => \A g \in Handlers \ {h} : hs[g].pc \in InTx => hs[g].art # rec.art
    BY <1>4, <1>5, <2>1
  <2> QED BY <1>5, <2>2, <2>3, <2>4, LocalStep
<1>6. ASSUME NEW kind \in Kinds, Create(h, kind) PROVE Others
  <2>1. PICK a \in Arts :
          /\ Kind[a] = kind /\ row[a].status = "Absent" /\ Serving(a) = {}
          /\ hs' = [hs EXCEPT ![h] =
                     [Idle("none") EXCEPT !.pc = "document", !.art = a,
                        !.patch = [NoPatch EXCEPT !.edit = TRUE],
                        !.new = [NoRow EXCEPT !.status = Initial(kind),
                                              !.rev = 1, !.body = 1]]]
    BY <1>6 DEF Create
  <2> DEFINE rec == [Idle("none") EXCEPT !.pc = "document", !.art = a,
                        !.patch = [NoPatch EXCEPT !.edit = TRUE],
                        !.new = [NoRow EXCEPT !.status = Initial(kind),
                                              !.rev = 1, !.body = 1]]
  <2>2. rec.pc = "document" /\ rec.art = a /\ rec.new.status = Initial(kind) /\ rec.new.rev = 1
    BY DEF Idle, NoRow
  <2>3. hs' = [hs EXCEPT ![h] = rec] /\ UNCHANGED <<row, doc>>
    BY <1>6, <2>1 DEF Create
  <2> HIDE DEF rec
  <2>4. Initial(kind) # "Absent"
    BY DEF Initial, Kinds, Lockable
  <2>5. row[a].rev = 0
    BY <2>1 DEF IInv, AbsentIsNew
  <2>6. RecAlive(rec) /\ RecAhead(rec)
    BY <2>2, <2>4, <2>5 DEF RecAlive, RecAhead
  <2>7. \A g \in Handlers \ {h} : hs[g].pc \in InTx => hs[g].art # rec.art
    BY <2>1, <2>2 DEF Serving
  <2> QED BY <2>3, <2>6, <2>7, LocalStep
<1>7. ASSUME Starts(h) PROVE Others
  <2>1. PICK a \in Arts, p \in Patch, pc \in {"link", "update"} :
          /\ row[a].status # "Absent"
          /\ hs' = [hs EXCEPT ![h] = [Idle("none") EXCEPT !.pc = pc, !.art = a, !.patch = p,
                                                          !.from = row[a].status]]
    BY <1>7 DEF Starts
  <2> DEFINE rec == [Idle("none") EXCEPT !.pc = pc, !.art = a, !.patch = p,
                                         !.from = row[a].status]
  <2>2. rec.pc = pc /\ rec.art = a
    BY DEF Idle
  <2>3. hs' = [hs EXCEPT ![h] = rec] /\ UNCHANGED <<row, doc>>
    BY <1>7, <2>1 DEF Starts
  <2> HIDE DEF rec
  <2>4. RecAlive(rec) /\ RecAhead(rec) /\ rec.pc \notin InTx
    BY <2>1, <2>2 DEF RecAlive, RecAhead
  <2> QED BY <2>3, <2>4, LocalStep
<1>8. ASSUME Applies(h) PROVE Others
  <2> DEFINE b == hs[h].art
             n == Updated(Kind[b], row[b], hs[h].patch)
  <2>1. PICK next \in {"sources", "document"} :
          hs' = [hs EXCEPT ![h] = [@ EXCEPT !.pc = next, !.new = n]]
    BY <1>8 DEF Applies
  <2> DEFINE rec == [hs[h] EXCEPT !.pc = next, !.new = n]
  <2>2. b \in Arts /\ row[b].status # "Absent" /\ hs[h].pc = "update"
    BY <1>3, <1>8 DEF RecAlive, Applies
  <2>3. row[b] \in Row /\ hs[h].patch \in Patch /\ Kind[b] \in Kinds
    BY <1>3, <2>2, KindAssumption DEF IInv, TypeOK, Handler
  <2>4. n.status # "Absent"
    <3>1. row[b].status \in AllStatuses /\ row[b].was \in AllStatuses \cup {""}
          /\ hs[h].patch.status \in AllStatuses \cup {""}
      BY <2>2, <2>3 DEF Row, Patch
    <3>2. NewStatus(Kind[b], row[b], hs[h].patch) \in AllStatuses
      BY <2>3, <3>1, InitialIsStatus DEF NewStatus, Restores
    <3>3. "Absent" \notin AllStatuses
      BY AbsentIsNoStatus
    <3> QED BY <3>2, <3>3 DEF Updated
  <2>5. n.rev = row[b].rev + 1
    BY DEF Updated
  <2> HIDE DEF n
  <2>6. rec.pc = next /\ rec.art = b /\ rec.new = n
    BY <1>3 DEF Handler
  <2>7. hs' = [hs EXCEPT ![h] = rec] /\ UNCHANGED <<row, doc>>
    BY <1>8, <2>1 DEF Applies
  <2> HIDE DEF rec
  <2>8. RecAlive(rec) /\ RecAhead(rec)
    BY <2>2, <2>4, <2>5, <2>6 DEF RecAlive, RecAhead
  <2>9. \A g \in Handlers \ {h} : hs[g].pc \in InTx => hs[g].art # rec.art
    BY <1>8, <2>6 DEF Applies, Writing
  <2> QED BY <2>7, <2>8, <2>9, LocalStep
<1>9. ASSUME RecordActivity(h) PROVE Others
  <2>1. PICK failed \in BOOLEAN :
          hs' = [hs EXCEPT ![h] = [@ EXCEPT !.pc = "commit", !.aborted = failed]]
    BY <1>9 DEF RecordActivity
  <2> DEFINE rec == [hs[h] EXCEPT !.pc = "commit", !.aborted = failed]
  <2>2. rec.pc = "commit" /\ rec.art = hs[h].art /\ rec.new = hs[h].new
    BY <1>3 DEF Handler
  <2>3. hs' = [hs EXCEPT ![h] = rec] /\ UNCHANGED <<row, doc>> /\ hs[h].pc = "record"
    BY <1>9, <2>1 DEF RecordActivity
  <2> HIDE DEF rec
  <2>4. RecAlive(rec) /\ RecAhead(rec)
    BY <1>3, <2>2, <2>3 DEF RecAlive, RecAhead
  <2>5. \A g \in Handlers \ {h} : hs[g].pc \in InTx => hs[g].art # rec.art
    BY <1>4, <2>2, <2>3
  <2> QED BY <2>3, <2>4, <2>5, LocalStep
<1>10. ASSUME WriteDocument(h) PROVE Others
  <2> DEFINE b == hs[h].art
             d == [rev  |-> hs[h].new.rev,
                   body |-> IF hs[h].patch.edit THEN hs[h].new.body ELSE doc[b].body]
             rec == [hs[h] EXCEPT !.pc = "record"]
  <2>1. hs[h].pc = "document" /\ row' = row /\ hs' = [hs EXCEPT ![h] = rec]
        /\ doc' = [doc EXCEPT ![b] = d]
    BY <1>10 DEF WriteDocument, Goto
  <2>2. b \in Arts /\ hs[h].new.status # "Absent" /\ hs[h].new.rev = row[b].rev + 1
    BY <1>3, <2>1 DEF RecAlive, RecAhead
  <2>3. d.rev = hs[h].new.rev
    OBVIOUS
  <2>4. rec.pc = "record" /\ rec.art = b /\ rec.new = hs[h].new
    BY <1>3 DEF Handler
  <2> HIDE DEF d, rec
  <2>5. \A a \in Arts : doc'[a] = IF a = b THEN d ELSE doc[a]
    BY <2>1 DEF IInv, TypeOK
  <2>6. \A g \in Handlers : hs'[g] = IF g = h THEN rec ELSE hs[g]
    BY <2>1 DEF IInv, TypeOK
  <2>7. Alive'
    BY <2>1, <2>2, <2>4, <2>6 DEF IInv, Alive, RecAlive
  <2>8. Ahead'
    <3> SUFFICES ASSUME NEW g \in Handlers PROVE RecAhead(hs[g])'
      BY DEF Ahead
    <3>1. CASE g = h
      BY <3>1, <2>1, <2>2, <2>3, <2>4, <2>5, <2>6 DEF RecAhead
    <3>2. CASE g # h /\ hs[g].pc \in {"record", "commit"}
      <4>1. hs[g].art # b
        BY <1>4, <2>1, <3>2
      <4>2. hs[g].art \in Arts /\ RecAhead(hs[g])
        BY <3>2 DEF IInv, Alive, RecAlive, Ahead
      <4> QED BY <2>1, <2>5, <2>6, <3>2, <4>1, <4>2 DEF RecAhead
    <3>3. CASE g # h /\ hs[g].pc \notin {"record", "commit"}
      BY <2>1, <2>6, <3>3 DEF IInv, Ahead, RecAhead
    <3> QED BY <3>1, <3>2, <3>3
  <2>9. Exclusive'
    BY <2>1, <2>4, <2>6 DEF IInv, Exclusive
  <2>10. AbsentIsNew' /\ DocumentNearRow'
    <3>1. row[b].rev \in Nat
      BY <2>2 DEF IInv, TypeOK, Row
    <3> QED BY <2>1, <2>2, <2>3, <2>5, <3>1 DEF IInv, AbsentIsNew, DocumentNearRow
  <2> QED BY <2>7, <2>8, <2>9, <2>10
<1>11. ASSUME Commit(h) PROVE Others
  <2>1. CASE hs[h].aborted
    BY <1>2, <1>11, <2>1 DEF Commit
  <2>2. CASE ~hs[h].aborted
    <3> DEFINE b == hs[h].art
               n == hs[h].new
    <3>1. hs[h].pc = "commit" /\ doc' = doc /\ hs' = [hs EXCEPT ![h] = Idle("ok")]
          /\ row' = [row EXCEPT ![b] = n]
      BY <1>11, <2>2 DEF Commit, Finish
    <3>2. b \in Arts /\ n.status # "Absent" /\ n.rev = row[b].rev + 1 /\ doc[b].rev = n.rev
      BY <1>3, <3>1 DEF RecAlive, RecAhead
    <3>3. \A a \in Arts : row'[a] = IF a = b THEN n ELSE row[a]
      BY <3>1 DEF IInv, TypeOK
    <3>4. \A g \in Handlers : hs'[g] = IF g = h THEN Idle("ok") ELSE hs[g]
      BY <3>1 DEF IInv, TypeOK
    <3>5. Idle("ok").pc = "idle"
      BY DEF Idle
    <3>6. n.rev \in Nat
      BY <1>3 DEF Handler, Row
    <3> HIDE DEF n
    <3>7. Alive'
      BY <3>2, <3>3, <3>4, <3>5 DEF IInv, Alive, RecAlive
    <3>8. Ahead'
      <4> SUFFICES ASSUME NEW g \in Handlers, g # h, hs[g].pc \in InTx
                   PROVE  RecAhead(hs[g])'
        BY <3>4, <3>5 DEF Ahead, RecAhead
      <4>1. hs[g].art # b /\ hs[g].art \in Arts
        BY <1>4, <3>1 DEF IInv, Alive, RecAlive
      <4> QED BY <3>1, <3>3, <3>4, <4>1 DEF IInv, Ahead, RecAhead
    <3>9. Exclusive'
      BY <3>4, <3>5 DEF IInv, Exclusive
    <3>10. AbsentIsNew' /\ DocumentNearRow'
      BY <3>1, <3>2, <3>3, <3>6 DEF IInv, AbsentIsNew, DocumentNearRow
    <3> QED BY <3>7, <3>8, <3>9, <3>10
  <2> QED BY <2>1, <2>2
<1>12. ASSUME Moves(h, {}) PROVE Others
  BY <1>2, <1>12 DEF Moves
<1>13. ASSUME hs[h].pc = "link", Moves(h, {"update"}) PROVE Others
  BY <1>2, <1>5, <1>13 DEF Moves
<1>14. ASSUME hs[h].pc = "sources", Moves(h, {"document"}) PROVE Others
  BY <1>2, <1>5, <1>14 DEF Moves
<1> QED BY <1>6, <1>7, <1>8, <1>9, <1>10, <1>11, <1>12, <1>13, <1>14 DEF Step

-----------------------------------------------------------------------------
LEMMA Invariance == Spec => []IInv
<1>1. Init => IInv
  <2> SUFFICES ASSUME Init PROVE IInv
    OBVIOUS
  <2>1. NoRow \in Row /\ NoDoc \in Doc /\ Idle("none") \in Handler
    BY IdleIsHandler DEF NoRow, Row, NoDoc, Doc
  <2>2. TypeOK
    BY <2>1 DEF Init, TypeOK
  <2>3. Alive /\ Ahead /\ Exclusive
    BY DEF Init, Alive, RecAlive, Ahead, RecAhead, Exclusive, Idle, InTx
  <2>4. AbsentIsNew /\ DocumentNearRow
    <3>1. \A a \in Arts : row[a].rev = 0 /\ doc[a].rev = 0
      BY DEF Init, NoRow, NoDoc
    <3> QED BY <3>1 DEF AbsentIsNew, DocumentNearRow
  <2> QED BY <2>2, <2>3, <2>4 DEF IInv
<1>2. IInv /\ [Next]_vars => IInv'
  <2>1. ASSUME IInv, Next PROVE IInv'
    <3>1. PICK h \in Handlers : Step(h)
      BY <2>1, NextIsStep DEF IInv
    <3>2. TypeOK'
      BY <2>1, <3>1, StepType DEF IInv
    <3>3. Alive' /\ Ahead' /\ Exclusive' /\ AbsentIsNew' /\ DocumentNearRow'
      BY <2>1, <3>1, StepInv
    <3> QED BY <3>2, <3>3 DEF IInv
  <2>2. ASSUME IInv, UNCHANGED vars PROVE IInv'
    <3>1. row' = row /\ doc' = doc /\ hs' = hs
      BY <2>2 DEF vars
    <3>2. TypeOK' /\ Alive' /\ Ahead'
      BY <2>2, <3>1 DEF IInv, TypeOK, Alive, RecAlive, Ahead, RecAhead
    <3>3. Exclusive' /\ AbsentIsNew' /\ DocumentNearRow'
      BY <2>2, <3>1 DEF IInv, Exclusive, AbsentIsNew, DocumentNearRow
    <3> QED BY <3>2, <3>3 DEF IInv
  <2> QED BY <2>1, <2>2
<1> QED BY <1>1, <1>2, PTL DEF Spec

(* upsertDocument runs under the row lock and before the commit, so for any *)
(* number of artifacts, requests and rolled-back transactions a document is *)
(* never behind its row and never two revisions ahead; and no update writes *)
(* an empty or unknown status.                                              *)
THEOREM DocumentIsSound == Spec => []DocumentSound
<1>1. IInv => DocumentSound
  BY DEF IInv, DocumentSound
<1> QED BY <1>1, Invariance, PTL

-----------------------------------------------------------------------------
(* Refinement.  Guarded kinds are those whose UPDATE needs no help from the *)
(* service.  Rows of an open transaction are lifecycle steps away from the  *)
(* committed row, which nobody else can change meanwhile.                   *)

Guarded == Lockable \cup {"feedback"}

\* only an archived artifact has a status to return to
Consistent(kind, r) ==
    /\ r.status \in Statuses(kind) \cup {"Absent"}
    /\ IF r.status = "Archived" THEN r.was \in Statuses(kind) \ {"Archived"} ELSE r.was = ""

\* r to n is a lifecycle step or none
Lives(kind, r, n) ==
    \/ n.status = r.status /\ n.was = r.was
    \/ r.status = "Absent" /\ n.status = Initial(kind) /\ n.was = r.was
    \/ n.status \in Life!Advanced(kind, r.status) /\ n.was = r.was
    \/ r.status \notin {"Absent", "Archived"} /\ n.status = "Archived" /\ n.was = r.status
    \/ r.status = "Archived" /\ n.status = r.was /\ n.was = ""

RecLives(rec) ==
    /\ rec.pc \in {"link", "update"} => rec.patch.status \in Statuses(Kind[rec.art]) \cup {""}
    /\ rec.pc \in InTx =>
         Consistent(Kind[rec.art], rec.new) /\ Lives(Kind[rec.art], row[rec.art], rec.new)

Living ==
    /\ \A a \in Arts : Consistent(Kind[a], row[a])
    /\ \A h \in Handlers : RecLives(hs[h])

LEMMA UpdatedLives ==
    ASSUME NEW kind \in Guarded, NEW r \in Row, Consistent(kind, r), r.status # "Absent",
           NEW p \in Patch, p.status \in Statuses(kind) \cup {""},
           kind \in Lockable => LockableRow(r, p)
    PROVE  Consistent(kind, Updated(kind, r, p)) /\ Lives(kind, r, Updated(kind, r, p))
<1> DEFINE n == Updated(kind, r, p)
<1>1. n.status = NewStatus(kind, r, p) /\ n.was = NewWas(r, p)
  BY DEF Updated
<1> HIDE DEF n
<1>2. n.was = IF Archives(r, p) THEN r.status ELSE IF Restores(r, p) THEN "" ELSE r.was
  BY <1>1 DEF NewWas, Archives, Restores
<1>3. "Absent" \notin Statuses(kind) /\ "" \notin Statuses(kind)
  BY DEF Guarded, Statuses, Lockable
<1>4. r.status \in Statuses(kind)
      /\ IF r.status = "Archived" THEN r.was \in Statuses(kind) \ {"Archived"} ELSE r.was = ""
  BY DEF Consistent
<1>5. CASE Restores(r, p)
  <2>1. n.status = r.was /\ n.was = "" /\ r.status = "Archived"
    BY <1>1, <1>2, <1>3, <1>4, <1>5 DEF NewStatus, Archives, Restores
  <2> QED BY <2>1, <1>4 DEF Consistent, Lives, n
<1>6. CASE Archives(r, p)
  <2>1. n.status = "Archived" /\ n.was = r.status /\ r.status \notin {"Archived", "Absent"}
    BY <1>1, <1>2, <1>3, <1>4, <1>6 DEF NewStatus, Archives, Restores
  <2>2. "Archived" \in Statuses(kind)
    BY <1>6 DEF Archives
  <2> QED BY <2>1, <2>2, <1>4 DEF Consistent, Lives, n
<1>7. CASE ~Restores(r, p) /\ ~Archives(r, p)
  <2>1. n.was = r.was /\ n.status = IF p.status = "" THEN r.status ELSE p.status
    BY <1>1, <1>2, <1>7 DEF NewStatus, Restores, Archives
  <2>2. CASE n.status = r.status
    BY <2>1, <2>2, <1>4 DEF Consistent, Lives, n
  <2>3. CASE n.status # r.status
    <3>1. n.status = p.status /\ p.status # "" /\ p.status # "Archived" /\ r.status # "Archived"
      BY <2>1, <2>3, <1>7 DEF Restores, Archives
    <3>2. kind \in Lockable
      BY <2>3, <3>1, <1>4 DEF Guarded, Statuses, Lockable
    <3>3. r.status = "Draft" /\ n.status = "Locked"
      <4>1. r.status # "Locked"
        BY <3>1, <3>2 DEF LockableRow
      <4> QED BY <2>3, <3>1, <3>2, <4>1, <1>4 DEF Statuses, Lockable
    <3>4. n.status \in Life!Advanced(kind, r.status)
      <4>1. Life!Advanced(kind, "Draft") = {"Locked"}
        BY <3>2 DEF Life!Advanced, Life!Lockable, Lockable
      <4> QED BY <3>3, <4>1
    <3>5. n.status \in Statuses(kind)
      BY <3>1
    <3> QED BY <2>1, <3>1, <3>4, <3>5, <1>4 DEF Consistent, Lives, n
  <2> QED BY <2>2, <2>3
<1> QED BY <1>5, <1>6, <1>7

GuardedKinds == \A a \in Arts : Kind[a] \in Guarded

\* a step that only changes the record of h
LEMMA LocalLiving ==
    ASSUME TypeOK, Living, NEW h \in Handlers, NEW rec,
           row' = row, hs' = [hs EXCEPT ![h] = rec], RecLives(rec)
    PROVE  Living'
<1>1. \A g \in Handlers : hs'[g] = IF g = h THEN rec ELSE hs[g]
  BY DEF TypeOK
<1> QED BY <1>1 DEF Living, RecLives

LEMMA StepLiving ==
    ASSUME GuardedKinds, IInv, Living, NEW h \in Handlers, Step(h)
    PROVE  Living'
<1> USE DEF InTx
<1>1. hs[h] \in Handler /\ RecAlive(hs[h]) /\ RecLives(hs[h]) /\ TypeOK
  BY DEF IInv, TypeOK, Alive, Living
<1>2. ASSUME NEW ans, Finish(h, ans), row' = row PROVE Living'
  <2>1. RecLives(Idle(ans))
    BY DEF RecLives, Idle
  <2> QED BY <1>1, <1>2, <2>1, LocalLiving DEF Finish
<1>3. ASSUME NEW pc \in {"update", "document", "record", "commit"}, row' = row,
             NEW rec, hs' = [hs EXCEPT ![h] = rec],
             rec.pc = pc, rec.art = hs[h].art, rec.patch = hs[h].patch, rec.new = hs[h].new,
             pc = "update" => hs[h].pc = "link",
             pc # "update" => hs[h].pc \in {"sources", "document", "record"}
      PROVE Living'
  <2>1. RecLives(rec)
    BY <1>1, <1>3 DEF RecLives
  <2> QED BY <1>1, <1>3, <2>1, LocalLiving
<1>4. ASSUME NEW pc \in {"update", "document", "record"}, Goto(h, pc), row' = row,
             pc = "update" => hs[h].pc = "link",
             pc # "update" => hs[h].pc \in {"sources", "document", "record"}
      PROVE Living'
  <2> DEFINE rec == [hs[h] EXCEPT !.pc = pc]
  <2>1. rec.pc = pc /\ rec.art = hs[h].art /\ rec.patch = hs[h].patch /\ rec.new = hs[h].new
    BY <1>1 DEF Handler
  <2>2. hs' = [hs EXCEPT ![h] = rec]
    BY <1>4 DEF Goto
  <2> HIDE DEF rec
  <2> QED BY <1>3, <1>4, <2>1, <2>2
<1>5. ASSUME NEW kind \in Kinds, Create(h, kind) PROVE Living'
  <2> DEFINE n == [NoRow EXCEPT !.status = Initial(kind), !.rev = 1, !.body = 1]
  <2>1. PICK a \in Arts :
          /\ Kind[a] = kind /\ row[a].status = "Absent"
          /\ hs' = [hs EXCEPT ![h] =
                     [Idle("none") EXCEPT !.pc = "document", !.art = a,
                        !.patch = [NoPatch EXCEPT !.edit = TRUE], !.new = n]]
    BY <1>5 DEF Create
  <2> DEFINE rec == [Idle("none") EXCEPT !.pc = "document", !.art = a,
                        !.patch = [NoPatch EXCEPT !.edit = TRUE], !.new = n]
  <2>2. n.status = Initial(kind) /\ n.was = ""
    BY DEF NoRow
  <2>3. Initial(kind) \in Statuses(kind) /\ Initial(kind) # "Archived"
    BY <2>1 DEF GuardedKinds, Guarded, Initial, Statuses, Lockable
  <2>4. row[a].was = ""
    BY <2>1 DEF Living, Consistent
  <2> HIDE DEF n
  <2>5. rec.pc = "document" /\ rec.art = a /\ rec.new = n
    BY DEF Idle
  <2>6. hs' = [hs EXCEPT ![h] = rec] /\ row' = row
    BY <1>5, <2>1 DEF Create
  <2> HIDE DEF rec
  <2>7. Consistent(kind, n) /\ Lives(kind, row[a], n)
    BY <2>1, <2>2, <2>3, <2>4 DEF Consistent, Lives
  <2>8. RecLives(rec)
    BY <2>1, <2>5, <2>7 DEF RecLives
  <2> QED BY <1>1, <2>6, <2>8, LocalLiving
<1>6. ASSUME Starts(h) PROVE Living'
  <2>1. PICK a \in Arts, p \in Patch, pc \in {"link", "update"} :
          /\ p.status \in Statuses(Kind[a]) \cup {""}
          /\ hs' = [hs EXCEPT ![h] = [Idle("none") EXCEPT !.pc = pc, !.art = a, !.patch = p,
                                                          !.from = row[a].status]]
    BY <1>6 DEF Starts
  <2> DEFINE rec == [Idle("none") EXCEPT !.pc = pc, !.art = a, !.patch = p,
                                         !.from = row[a].status]
  <2>2. rec.pc = pc /\ rec.art = a /\ rec.patch = p
    BY DEF Idle
  <2>3. hs' = [hs EXCEPT ![h] = rec] /\ row' = row
    BY <1>6, <2>1 DEF Starts
  <2> HIDE DEF rec
  <2>4. RecLives(rec)
    BY <2>1, <2>2 DEF RecLives
  <2> QED BY <1>1, <2>3, <2>4, LocalLiving
<1>7. ASSUME Applies(h) PROVE Living'
  <2> DEFINE b == hs[h].art
             n == Updated(Kind[b], row[b], hs[h].patch)
  <2>1. PICK next \in {"sources", "document"} :
          hs' = [hs EXCEPT ![h] = [@ EXCEPT !.pc = next, !.new = n]]
    BY <1>7 DEF Applies
  <2> DEFINE rec == [hs[h] EXCEPT !.pc = next, !.new = n]
  <2>2. b \in Arts /\ row[b].status # "Absent" /\ hs[h].pc = "update"
    BY <1>1, <1>7 DEF RecAlive, Applies
  <2>3. row[b] \in Row /\ hs[h].patch \in Patch /\ Kind[b] \in Guarded
        /\ Consistent(Kind[b], row[b]) /\ hs[h].patch.status \in Statuses(Kind[b]) \cup {""}
    BY <1>1, <2>2 DEF TypeOK, Handler, GuardedKinds, Living, RecLives
  <2>4. Kind[b] \in Lockable => LockableRow(row[b], hs[h].patch)
    BY <1>7 DEF Applies
  <2>5. Consistent(Kind[b], n) /\ Lives(Kind[b], row[b], n)
    BY <2>2, <2>3, <2>4, UpdatedLives
  <2> HIDE DEF n
  <2>6. rec.pc = next /\ rec.art = b /\ rec.new = n
    BY <1>1 DEF Handler
  <2>7. hs' = [hs EXCEPT ![h] = rec] /\ row' = row
    BY <1>7, <2>1 DEF Applies
  <2> HIDE DEF rec
  <2>8. RecLives(rec)
    BY <2>5, <2>6 DEF RecLives
  <2> QED BY <1>1, <2>7, <2>8, LocalLiving
<1>8. ASSUME RecordActivity(h) PROVE Living'
  <2>1. PICK failed \in BOOLEAN :
          hs' = [hs EXCEPT ![h] = [@ EXCEPT !.pc = "commit", !.aborted = failed]]
    BY <1>8 DEF RecordActivity
  <2> DEFINE rec == [hs[h] EXCEPT !.pc = "commit", !.aborted = failed]
  <2>2. rec.pc = "commit" /\ rec.art = hs[h].art /\ rec.patch = hs[h].patch /\ rec.new = hs[h].new
    BY <1>1 DEF Handler
  <2>3. hs' = [hs EXCEPT ![h] = rec] /\ row' = row /\ hs[h].pc = "record"
    BY <1>8, <2>1 DEF RecordActivity
  <2> HIDE DEF rec
  <2> QED BY <1>3, <2>2, <2>3
<1>9. ASSUME Commit(h), ~hs[h].aborted PROVE Living'
  <2> DEFINE b == hs[h].art
             n == hs[h].new
  <2>1. hs[h].pc = "commit" /\ hs' = [hs EXCEPT ![h] = Idle("ok")] /\ row' = [row EXCEPT ![b] = n]
    BY <1>9 DEF Commit, Finish
  <2>2. b \in Arts /\ Consistent(Kind[b], n)
    BY <1>1, <2>1 DEF RecAlive, RecLives
  <2>3. \A a \in Arts : row'[a] = IF a = b THEN n ELSE row[a]
    BY <1>1, <2>1 DEF TypeOK
  <2>4. \A g \in Handlers : hs'[g] = IF g = h THEN Idle("ok") ELSE hs[g]
    BY <1>1, <2>1 DEF TypeOK
  <2> HIDE DEF n
  <2>5. \A a \in Arts : Consistent(Kind[a], row'[a])
    BY <2>2, <2>3 DEF Living
  <2>6. ASSUME NEW g \in Handlers PROVE RecLives(hs[g])'
    <3>1. CASE g = h
      <4>1. Idle("ok").pc = "idle"
        BY DEF Idle
      <4>2. hs'[g].pc = "idle"
        BY <2>4, <3>1, <4>1
      <4> QED BY <4>2 DEF RecLives
    <3>2. CASE g # h /\ hs[g].pc \in InTx
      <4>1. hs[g].art # b /\ hs[g].art \in Arts
        BY <2>1, <3>2 DEF IInv, Exclusive, Alive, RecAlive
      <4> QED BY <2>3, <2>4, <3>2, <4>1 DEF Living, RecLives
    <3>3. CASE g # h /\ hs[g].pc \notin InTx
      BY <2>4, <3>3 DEF Living, RecLives
    <3> QED BY <3>1, <3>2, <3>3
  <2> QED BY <2>5, <2>6 DEF Living
<1>10. ASSUME Commit(h), hs[h].aborted PROVE Living'
  BY <1>2, <1>10 DEF Commit
<1>11. ASSUME WriteDocument(h) PROVE Living'
  BY <1>4, <1>11 DEF WriteDocument
<1>12. ASSUME Moves(h, {}) PROVE Living'
  BY <1>2, <1>12 DEF Moves
<1>13. ASSUME hs[h].pc = "link", Moves(h, {"update"}) PROVE Living'
  BY <1>2, <1>4, <1>13 DEF Moves
<1>14. ASSUME hs[h].pc = "sources", Moves(h, {"document"}) PROVE Living'
  BY <1>2, <1>4, <1>14 DEF Moves
<1> QED BY <1>5, <1>6, <1>7, <1>8, <1>9, <1>10, <1>11, <1>12, <1>13, <1>14 DEF Step

\* only a commit changes what the lifecycle sees
LEMMA StepRefines ==
    ASSUME GuardedKinds, IInv, Living, NEW h \in Handlers, Step(h)
    PROVE  [Life!LifecycleNext]_<<[a \in Arts |-> row[a].status], [a \in Arts |-> row[a].was]>>
<1> DEFINE S == [a \in Arts |-> row[a].status]
           O == [a \in Arts |-> row[a].was]
<1>1. CASE row' = row
  BY <1>1
<1>2. CASE row' # row
  <2> DEFINE n == hs[h].new
  <2>1. Commit(h) /\ ~hs[h].aborted
    BY <1>2 DEF Step, Create, Starts, Moves, Applies, WriteDocument, RecordActivity, Commit
  <2>2. hs[h].pc = "commit" /\ row' = [row EXCEPT ![hs[h].art] = n]
    BY <2>1 DEF Commit
  <2>b. PICK b \in Arts : b = hs[h].art
    BY <2>2 DEF IInv, Alive, RecAlive, InTx
  <2>3. Lives(Kind[b], row[b], n) /\ Kind[b] \in Guarded
    BY <2>2, <2>b DEF IInv, Alive, RecAlive, Living, RecLives, GuardedKinds, InTx
  <2>4. \A a \in Arts : row'[a] = IF a = b THEN n ELSE row[a]
    BY <2>2, <2>b DEF IInv, TypeOK
  <2>5. S' = [S EXCEPT ![b] = n.status] /\ O' = [O EXCEPT ![b] = n.was]
    BY <2>4
  <2>6. S[b] = row[b].status /\ O[b] = row[b].was
    BY <2>3
  <2>7. n.was = row[b].was => O' = O
    BY <2>5, <2>6
  <2>8. n.status = row[b].status => S' = S
    BY <2>5, <2>6
  <2> HIDE DEF S, O, n
  <2>9. CASE n.status = row[b].status /\ n.was = row[b].was
    BY <2>7, <2>8, <2>9 DEF S, O
  <2>10. CASE row[b].status = "Absent" /\ n.status = Initial(Kind[b]) /\ n.was = row[b].was
    <3>1. Life!Begin(b)
      BY <2>5, <2>6, <2>7, <2>10 DEF Life!Begin, Life!Initial, Life!Lockable, Initial, Lockable, S, O
    <3>9. Life!LifecycleNext
      BY <2>3, <3>1 DEF Life!LifecycleNext
    <3> QED BY <3>9
  <2>11. CASE n.status \in Life!Advanced(Kind[b], row[b].status) /\ n.was = row[b].was
    <3>1. Life!Advance(b)
      BY <2>5, <2>6, <2>7, <2>11 DEF Life!Advance, S, O
    <3>9. Life!LifecycleNext
      BY <2>3, <3>1 DEF Life!LifecycleNext
    <3> QED BY <3>9
  <2>12. CASE row[b].status \notin {"Absent", "Archived"} /\ n.status = "Archived"
              /\ n.was = row[b].status
    <3>1. Kind[b] # "task"
      BY <2>3 DEF Guarded, Lockable
    <3>2. Life!Archive(b)
      BY <2>5, <2>6, <2>12, <3>1 DEF Life!Archive, S, O
    <3>9. Life!LifecycleNext
      BY <2>3, <3>2 DEF Life!LifecycleNext
    <3> QED BY <3>9
  <2>13. CASE row[b].status = "Archived" /\ n.status = row[b].was /\ n.was = ""
    <3>1. Life!Restore(b)
      BY <2>5, <2>6, <2>13 DEF Life!Restore, S, O
    <3>9. Life!LifecycleNext
      BY <2>3, <3>1 DEF Life!LifecycleNext
    <3> QED BY <3>9
  <2> QED BY <2>3, <2>9, <2>10, <2>11, <2>12, <2>13 DEF Lives
<1> QED BY <1>1, <1>2

(* Projects of stories, journeys, problems and feedback follow the abstract *)
(* lifecycle however many requests race: the WHERE clause of each UPDATE is *)
(* enough, even when the service judged a status that is no longer there.   *)
THEOREM LifecycleImplemented ==
    ASSUME GuardedKinds PROVE Spec => FollowsLifecycle
<1>1. Init => Living
  <2> SUFFICES ASSUME Init PROVE Living
    OBVIOUS
  <2>1. ASSUME NEW a \in Arts PROVE Consistent(Kind[a], row[a])
    BY DEF Init, Consistent, NoRow
  <2>2. ASSUME NEW h \in Handlers PROVE RecLives(hs[h])
    <3>1. hs[h].pc = "idle"
      BY DEF Init, Idle
    <3> QED BY <3>1 DEF RecLives, InTx
  <2> QED BY <2>1, <2>2 DEF Living
<1>2. IInv /\ Living /\ [Next]_vars => Living'
  <2>1. ASSUME IInv, Living, Next PROVE Living'
    <3>1. PICK h \in Handlers : Step(h)
      BY <2>1, NextIsStep DEF IInv
    <3> QED BY <2>1, <3>1, StepLiving
  <2>2. ASSUME Living, UNCHANGED vars PROVE Living'
    BY <2>2 DEF Living, RecLives, vars
  <2> QED BY <2>1, <2>2
<1>3. Init => Life!LifecycleInit
  <2> SUFFICES ASSUME Init PROVE Life!LifecycleInit
    OBVIOUS
  <2>1. \A a \in Arts : row[a].status = "Absent" /\ row[a].was = ""
    BY DEF Init, NoRow
  <2> QED BY <2>1 DEF Life!LifecycleInit
<1>4. IInv /\ Living /\ [Next]_vars
        => [Life!LifecycleNext]_<<[a \in Arts |-> row[a].status], [a \in Arts |-> row[a].was]>>
  <2>1. ASSUME IInv, Living, Next
        PROVE [Life!LifecycleNext]_<<[a \in Arts |-> row[a].status], [a \in Arts |-> row[a].was]>>
    <3>1. PICK h \in Handlers : Step(h)
      BY <2>1, NextIsStep DEF IInv
    <3> QED BY <2>1, <3>1, StepRefines
  <2>2. ASSUME UNCHANGED vars
        PROVE [Life!LifecycleNext]_<<[a \in Arts |-> row[a].status], [a \in Arts |-> row[a].was]>>
    BY <2>2 DEF vars
  <2> QED BY <2>1, <2>2
<1> QED BY <1>1, <1>2, <1>3, <1>4, Invariance, PTL DEF Spec, FollowsLifecycle, Life!LifecycleSpec

-----------------------------------------------------------------------------
(* One request at a time.  What the service accepts is still so when the    *)
(* UPDATE runs and when it commits, and the checks of both layers together  *)
(* do what the workflow documentation promises.                             *)

OneAtATime == \A g, h \in Handlers : g = h

FitsKind ==
    \A a \in Arts : /\ row[a].status \in Statuses(Kind[a]) \cup {"Absent"}
                    /\ row[a].was \in Statuses(Kind[a]) \cup {""}

\* the problem that the row r of an idea has after the body p
ProblemLocked(r, p) ==
    LET l == IF p.link # None THEN p.link ELSE r.link
    IN l # None /\ row[l].status = "Locked"

\* the new row is what the statement computes from the row as it is
RecComputed(rec) ==
    LET a == rec.art IN
    \/ /\ row[a].status = "Absent"
       /\ rec.new.status = Initial(Kind[a]) /\ rec.new.was = ""
    \/ /\ row[a].status # "Absent"
       /\ ServiceAccepts(Kind[a], row[a].status, rec.patch)
       /\ rec.new = Updated(Kind[a], row[a], rec.patch)
       /\ Kind[a] = "idea" => IdeaRow(row[a], rec.patch, ProblemLocked(row[a], rec.patch))

RecSerial(rec) ==
    /\ rec.pc \in {"link", "update"} =>
          ServiceAccepts(Kind[rec.art], row[rec.art].status, rec.patch)
    /\ rec.pc \in InTx => RecComputed(rec)

Serial == FitsKind /\ \A h \in Handlers : RecSerial(hs[h])

(* The transition map and the immutability check of the service, together  *)
(* with the SET clause: what an accepted update makes of a row.            *)
LEMMA UpdateObeys ==
    ASSUME NEW kind \in Kinds, NEW r \in Row, NEW p \in Patch,
           r.status \in Statuses(kind), r.was \in Statuses(kind) \cup {""},
           ServiceAccepts(kind, r.status, p)
    PROVE  LET n == Updated(kind, r, p) IN
             /\ n.status \in Statuses(kind) /\ n.was \in Statuses(kind) \cup {""}
             /\ n.status \in Transitions(kind, r.status)
             /\ r.status \in Immutable(kind) => n.body = r.body /\ n.link = r.link
<1> DEFINE n == Updated(kind, r, p)
<1>1. n.status = NewStatus(kind, r, p) /\ n.was = NewWas(r, p)
  BY DEF Updated
<1>2. p.status \in Statuses(kind) \cup {""}
      /\ (p.status # "" => p.status \in Transitions(kind, r.status))
  BY DEF ServiceAccepts
<1>3. ASSUME r.status \in Immutable(kind) PROVE n.body = r.body /\ n.link = r.link
  <2>1. ~p.edit /\ p.link = None
    BY <1>3 DEF ServiceAccepts, PatchAllowed, StatusOnly
  <2>2. kind # "feedback"
    BY <1>3 DEF Immutable, Lockable
  <2> QED BY <2>1, <2>2 DEF Updated
<1>4. n.status \in Statuses(kind) /\ n.status \in Transitions(kind, r.status)
  <2>1. CASE kind \in Lockable
    BY <1>1, <1>2, <2>1
       DEF NewStatus, Restores, Statuses, Transitions, LockableTransitions, Initial, Lockable
  <2>2. CASE kind = "idea"
    BY <1>1, <1>2, <2>2
       DEF NewStatus, Restores, Statuses, Transitions, IdeaTransitions, Initial, Lockable
  <2>3. CASE kind = "task"
    BY <1>1, <1>2, <2>3
       DEF NewStatus, Restores, Statuses, Transitions, TaskTransitions, Initial, Lockable
  <2>4. CASE kind = "feedback"
    BY <1>1, <1>2, <2>4
       DEF NewStatus, Restores, Statuses, Transitions, FeedbackTransitions, Initial, Lockable
  <2> QED BY <2>1, <2>2, <2>3, <2>4 DEF Kinds, Lockable
<1>5. n.was \in Statuses(kind) \cup {""}
  BY <1>1 DEF NewWas
<1> QED BY <1>3, <1>4, <1>5

\* every map allows staying
LEMMA StayAllowed ==
    ASSUME NEW kind \in Kinds, NEW s \in Statuses(kind) PROVE s \in Transitions(kind, s)
<1>1. CASE kind \in Lockable
  BY <1>1 DEF Statuses, Transitions, LockableTransitions, Lockable
<1>2. CASE kind = "idea"
  BY <1>2 DEF Statuses, Transitions, IdeaTransitions, Lockable
<1>3. CASE kind = "task"
  BY <1>3 DEF Statuses, Transitions, TaskTransitions, Lockable
<1>4. CASE kind = "feedback"
  BY <1>4 DEF Statuses, Transitions, FeedbackTransitions, Lockable
<1> QED BY <1>1, <1>2, <1>3, <1>4 DEF Kinds, Lockable

\* an idea that an update selects has a locked problem
LEMMA SelectedHasProblem ==
    ASSUME NEW r, NEW p, IdeaRow(r, p, ProblemLocked(r, p)),
           Updated("idea", r, p).status = "Selected",
           r.status \notin {"Selected", "Archived"}
    PROVE  LET l == Updated("idea", r, p).link IN l # None /\ row[l].status = "Locked"
<1>1. p.status \in {"", "Selected"}
  BY DEF Updated, NewStatus, Restores
<1>2. ProblemLocked(r, p)
  BY <1>1 DEF IdeaRow
<1> QED BY <1>2 DEF ProblemLocked, Updated

LEMMA InitialFits ==
    \A kind \in Kinds : Initial(kind) \in Statuses(kind) /\ Initial(kind) # "Selected"
BY DEF Initial, Statuses, Lockable, Kinds

\* the only request moves and the rows stay
LEMMA SerialMoves ==
    ASSUME OneAtATime, Serial, NEW h \in Handlers, row' = row, RecSerial(hs'[h])
    PROVE  Serial'
<1>1. FitsKind'
  BY DEF Serial, FitsKind
<1>2. ASSUME NEW g \in Handlers PROVE RecSerial(hs[g])'
  <2>1. RecSerial(hs'[g])
    BY DEF OneAtATime
  <2> QED BY <2>1 DEF RecSerial, RecComputed, ProblemLocked
<1> QED BY <1>1, <1>2 DEF Serial

LEMMA SerialFinish ==
    ASSUME OneAtATime, TypeOK, Serial, NEW h \in Handlers, NEW ans, Finish(h, ans), row' = row
    PROVE  Serial'
<1>1. hs'[h].pc = "idle"
  BY DEF Finish, Idle, TypeOK
<1> QED BY <1>1, SerialMoves DEF RecSerial, InTx

LEMMA SerialGoto ==
    ASSUME OneAtATime, TypeOK, Serial, NEW h \in Handlers, NEW pc, row' = row,
           hs'[h].pc = pc, hs'[h].art = hs[h].art, hs'[h].patch = hs[h].patch,
           hs'[h].new = hs[h].new,
           \/ pc = "update" /\ hs[h].pc = "link"
           \/ pc \in InTx /\ hs[h].pc \in InTx
    PROVE  Serial'
<1>1. RecSerial(hs[h])
  BY DEF Serial
<1>2. RecSerial(hs'[h])
  BY <1>1 DEF RecSerial, RecComputed, InTx
<1> QED BY <1>2, SerialMoves

LEMMA SerialCreate ==
    ASSUME OneAtATime, IInv, Serial, NEW h \in Handlers, NEW kind \in Kinds, Create(h, kind)
    PROVE  Serial'
<1> DEFINE n == [NoRow EXCEPT !.status = Initial(kind), !.rev = 1, !.body = 1]
<1>1. PICK a \in Arts :
        /\ Kind[a] = kind /\ row[a].status = "Absent"
        /\ hs' = [hs EXCEPT ![h] = [Idle("none") EXCEPT !.pc = "document", !.art = a,
                                      !.patch = [NoPatch EXCEPT !.edit = TRUE], !.new = n]]
  BY DEF Create
<1>2. n.status = Initial(kind) /\ n.was = ""
  BY DEF NoRow
<1> HIDE DEF n
<1>3. hs'[h].pc = "document" /\ hs'[h].art = a /\ hs'[h].new = n
  BY <1>1 DEF Idle, IInv, TypeOK
<1>4. RecSerial(hs'[h])
  BY <1>1, <1>2, <1>3 DEF RecSerial, RecComputed
<1> QED BY <1>4, SerialMoves DEF Create

LEMMA SerialLoad ==
    ASSUME OneAtATime, IInv, Serial, NEW h \in Handlers,
           NEW kind \in Kinds, NEW first \in {"link", "update"}, Load(h, kind, first)
    PROVE  Serial'
<1>a. PICK a \in Arts : \E p \in Patches(a) :
        /\ Kind[a] = kind
        /\ \/ /\ ServiceAccepts(kind, row[a].status, p)
              /\ hs' = [hs EXCEPT ![h] =
                          [Idle("none") EXCEPT !.pc = IF p.link = None THEN "update" ELSE first,
                                               !.art = a, !.patch = p, !.from = row[a].status]]
           \/ Finish(h, "rejected")
  BY DEF Load
<1>1. PICK p \in Patches(a) :
        /\ Kind[a] = kind
        /\ \/ /\ ServiceAccepts(kind, row[a].status, p)
              /\ hs' = [hs EXCEPT ![h] =
                          [Idle("none") EXCEPT !.pc = IF p.link = None THEN "update" ELSE first,
                                               !.art = a, !.patch = p, !.from = row[a].status]]
           \/ Finish(h, "rejected")
  BY <1>a
<1>2. row' = row /\ TypeOK
  BY DEF Load, IInv
<1>3. CASE Finish(h, "rejected")
  BY <1>2, <1>3, SerialFinish
<1>4. CASE /\ ServiceAccepts(kind, row[a].status, p)
           /\ hs' = [hs EXCEPT ![h] =
                       [Idle("none") EXCEPT !.pc = IF p.link = None THEN "update" ELSE first,
                                            !.art = a, !.patch = p, !.from = row[a].status]]
  <2>1. hs'[h].pc \in {"link", "update"} /\ hs'[h].art = a /\ hs'[h].patch = p
    BY <1>2, <1>4 DEF Idle, TypeOK
  <2>2. RecSerial(hs'[h])
    BY <1>1, <1>4, <2>1 DEF RecSerial, InTx
  <2> QED BY <1>2, <2>2, SerialMoves
<1> QED BY <1>1, <1>3, <1>4

LEMMA SerialStatement ==
    ASSUME OneAtATime, IInv, Serial, NEW h \in Handlers, NEW kind \in Kinds, NEW matches,
           NEW next \in {"sources", "document"}, Statement(h, kind, matches, next),
           matches /\ kind = "idea" =>
              IdeaRow(row[hs[h].art], hs[h].patch, ProblemLocked(row[hs[h].art], hs[h].patch))
    PROVE  Serial'
<1>1. /\ hs[h].pc = "update" /\ Kind[hs[h].art] = kind /\ row' = row
      /\ RecAlive(hs[h]) /\ RecSerial(hs[h]) /\ TypeOK
  BY DEF Statement, IInv, Alive, Serial
<1>2. CASE ~matches
  BY <1>1, <1>2, SerialFinish DEF Statement
<1>3. CASE matches
  <2> DEFINE n == Updated(kind, row[hs[h].art], hs[h].patch)
  <2>1. hs' = [hs EXCEPT ![h] = [@ EXCEPT !.pc = next, !.new = n]]
    BY <1>1, <1>3 DEF Statement
  <2> HIDE DEF n
  <2>2. /\ hs'[h].pc = next /\ hs'[h].art = hs[h].art /\ hs'[h].patch = hs[h].patch
        /\ hs'[h].new = n
    BY <1>1, <2>1 DEF TypeOK, Handler
  <2>3. /\ row[hs[h].art].status # "Absent"
        /\ ServiceAccepts(kind, row[hs[h].art].status, hs[h].patch)
    BY <1>1 DEF RecAlive, RecSerial
  <2>4. RecComputed(hs'[h])
    BY <1>1, <1>3, <2>2, <2>3 DEF RecComputed, n
  <2>5. RecSerial(hs'[h])
    BY <2>2, <2>4 DEF RecSerial
  <2> QED BY <1>1, <2>5, SerialMoves
<1> QED BY <1>2, <1>3

\* what a commit puts in the place of a row
LEMMA CommittedRow ==
    ASSUME IInv, Serial, NEW h \in Handlers, Commit(h), ~hs[h].aborted, NEW a \in Arts
    PROVE  /\ row'[a] = row[a] \/ (a = hs[h].art /\ row'[a] = hs[h].new)
           /\ hs[h].art \in Arts /\ RecComputed(hs[h])
<1>1. hs[h].pc = "commit" /\ row' = [row EXCEPT ![hs[h].art] = hs[h].new]
  BY DEF Commit
<1>2. hs[h].art \in Arts /\ RecComputed(hs[h])
  BY <1>1 DEF IInv, Alive, RecAlive, Serial, RecSerial, InTx
<1> QED BY <1>1, <1>2 DEF IInv, TypeOK

\* what a commit does to a row, in the words of the three promises
LEMMA CommitObeys ==
    ASSUME IInv, Serial, NEW h \in Handlers, Commit(h), ~hs[h].aborted, NEW a \in Arts
    PROVE  /\ row'[a].status \in Statuses(Kind[a]) \cup {"Absent"}
           /\ row'[a].was \in Statuses(Kind[a]) \cup {""}
           /\ row[a].status \in Immutable(Kind[a]) =>
                 row'[a].body = row[a].body /\ row'[a].link = row[a].link
           /\ row[a].status # "Absent" => row'[a].status \in Transitions(Kind[a], row[a].status)
           /\ Kind[a] = "idea" /\ row'[a].status = "Selected"
                /\ row[a].status \notin {"Selected", "Archived"}
                => row'[a].link # None /\ row[row'[a].link].status = "Locked"
<1> DEFINE kind == Kind[a]
           n == hs[h].new
           p == hs[h].patch
<1>1. row[a] \in Row /\ kind \in Kinds /\ p \in Patch
  BY KindAssumption DEF IInv, TypeOK, Handler
<1>2. /\ row[a].status \in Statuses(kind) \cup {"Absent"}
      /\ row[a].was \in Statuses(kind) \cup {""}
  BY DEF Serial, FitsKind
<1>3. CASE row'[a] = row[a]
  BY <1>1, <1>2, <1>3, StayAllowed
<1>4. CASE a = hs[h].art /\ row'[a] = n /\ row[a].status = "Absent"
  <2>1. n.status = Initial(kind) /\ n.was = ""
    BY <1>4, CommittedRow DEF RecComputed
  <2>2. "Absent" \notin Immutable(kind)
    BY <1>1 DEF Immutable, Kinds, Lockable
  <2> QED BY <1>1, <1>4, <2>1, <2>2, InitialFits
<1>5. CASE a = hs[h].art /\ row'[a] = n /\ row[a].status # "Absent"
  <2>1. /\ ServiceAccepts(kind, row[a].status, p) /\ n = Updated(kind, row[a], p)
        /\ kind = "idea" => IdeaRow(row[a], p, ProblemLocked(row[a], p))
    BY <1>5, CommittedRow DEF RecComputed
  <2> HIDE DEF kind, n, p
  <2>2. /\ n.status \in Statuses(kind) /\ n.was \in Statuses(kind) \cup {""}
        /\ n.status \in Transitions(kind, row[a].status)
        /\ row[a].status \in Immutable(kind) => n.body = row[a].body /\ n.link = row[a].link
    <3>1. row[a].status \in Statuses(kind)
      BY <1>2, <1>5
    <3> QED BY <1>1, <1>2, <2>1, <3>1, UpdateObeys
  <2>3. ASSUME kind = "idea", n.status = "Selected", row[a].status \notin {"Selected", "Archived"}
        PROVE  n.link # None /\ row[n.link].status = "Locked"
    <3>1. n = Updated("idea", row[a], p) /\ IdeaRow(row[a], p, ProblemLocked(row[a], p))
      BY <2>1, <2>3
    <3> QED BY <2>3, <3>1, SelectedHasProblem
  <2> QED BY <1>5, <2>2, <2>3 DEF kind
<1> QED BY <1>3, <1>4, <1>5, CommittedRow

LEMMA SerialCommit ==
    ASSUME OneAtATime, IInv, Serial, NEW h \in Handlers, Commit(h)
    PROVE  Serial'
<1>1. CASE hs[h].aborted
  BY <1>1, SerialFinish DEF Commit, IInv
<1>2. CASE ~hs[h].aborted
  <2>1. FitsKind'
    BY <1>2, CommitObeys DEF FitsKind
  <2>a. hs' = [hs EXCEPT ![h] = Idle("ok")] /\ TypeOK
    BY <1>2 DEF Commit, Finish, IInv
  <2>2. hs'[h].pc = "idle"
    BY <2>a DEF Idle, TypeOK
  <2>3. \A g \in Handlers : hs'[g].pc = "idle"
    BY <2>2 DEF OneAtATime
  <2> QED BY <2>1, <2>3 DEF Serial, RecSerial, InTx
<1> QED BY <1>1, <1>2

LEMMA SerialRepository ==
    ASSUME OneAtATime, IInv, Serial, NEW h \in Handlers, Repository(h)
    PROVE  Serial'
<1> /\ "story" \in Kinds /\ "journey" \in Kinds /\ "problem" \in Kinds
    /\ "idea" \in Kinds /\ "task" \in Kinds /\ "feedback" \in Kinds
  BY DEF Kinds
<1>1. TypeOK /\ hs[h] \in Handler
  BY DEF IInv, TypeOK
<1>2. ASSUME NEW pc, Goto(h, pc), row' = row,
             \/ pc = "update" /\ hs[h].pc = "link"
             \/ pc \in InTx /\ hs[h].pc \in InTx
      PROVE  Serial'
  <2>1. /\ hs'[h].pc = pc /\ hs'[h].art = hs[h].art /\ hs'[h].patch = hs[h].patch
        /\ hs'[h].new = hs[h].new
    BY <1>1, <1>2 DEF Goto, TypeOK, Handler
  <2> QED BY <1>1, <1>2, <2>1, SerialGoto
<1>3. ASSUME NEW kind, NEW required, CheckLink(h, kind, required) PROVE Serial'
  BY <1>1, <1>2, <1>3, SerialFinish DEF CheckLink
<1>4. CASE CheckProblemLocked(h) \/ CheckIdeaSelected(h)
  BY <1>3, <1>4 DEF CheckProblemLocked, CheckIdeaSelected
<1>5. CASE UpdateStory(h) \/ UpdateJourney(h) \/ UpdateTask(h) \/ UpdateFeedback(h)
  BY <1>5, SerialStatement DEF UpdateStory, UpdateJourney, UpdateTask, UpdateFeedback
<1>6. CASE UpdateProblem(h)
  <2> DEFINE next == IF hs[h].patch.link = None THEN "document" ELSE "sources"
  <2>1. next \in {"sources", "document"}
    OBVIOUS
  <2>2. Statement(h, "problem", LockableRow(row[hs[h].art], hs[h].patch), next)
    BY <1>6 DEF UpdateProblem
  <2> HIDE DEF next
  <2> QED BY <2>1, <2>2, SerialStatement
<1>7. CASE UpdateIdea(h)
  <2>1. LinkedIs(h, "Locked") = ProblemLocked(row[hs[h].art], hs[h].patch)
    BY DEF LinkedIs, Linked, ProblemLocked
  <2>2. Statement(h, "idea",
                  IdeaRow(row[hs[h].art], hs[h].patch,
                          ProblemLocked(row[hs[h].art], hs[h].patch)), "document")
    BY <1>7, <2>1 DEF UpdateIdea
  <2> QED BY <2>2, SerialStatement
<1>8. CASE LinkSources(h)
  BY <1>1, <1>2, <1>8, SerialFinish DEF LinkSources, InTx
<1>9. CASE WriteDocument(h)
  BY <1>2, <1>9 DEF WriteDocument, InTx
<1>10. CASE RecordActivity(h)
  <2>1. PICK failed \in BOOLEAN :
          hs' = [hs EXCEPT ![h] = [@ EXCEPT !.pc = "commit", !.aborted = failed]]
    BY <1>10 DEF RecordActivity
  <2>2. hs'[h] = [hs[h] EXCEPT !.pc = "commit", !.aborted = failed]
    BY <1>1, <2>1 DEF TypeOK
  <2>3. /\ hs'[h].pc = "commit" /\ hs'[h].art = hs[h].art /\ hs'[h].patch = hs[h].patch
        /\ hs'[h].new = hs[h].new
    BY <1>1, <2>2 DEF Handler
  <2>4. hs[h].pc \in InTx /\ "commit" \in InTx /\ row' = row
    BY <1>10 DEF RecordActivity, InTx
  <2> QED BY <1>1, <2>3, <2>4, SerialGoto
<1> QED BY <1>4, <1>5, <1>6, <1>7, <1>8, <1>9, <1>10, SerialCommit DEF Repository

LEMMA SerialStep ==
    ASSUME OneAtATime, IInv, Serial, [Next]_vars
    PROVE  Serial'
<1>1. ASSUME NEW h \in Handlers, Service(h) PROVE Serial'
  <2>1. \/ \E kind \in Kinds : Create(h, kind)
        \/ \E kind \in Kinds : \E first \in {"link", "update"} : Load(h, kind, first)
    BY <1>1 DEF Kinds, Service, CreateStory, CreateJourney, CreateProblem, CreateIdea,
                CreateTask, CreateFeedback, LoadStory, LoadJourney, LoadProblem, LoadIdea,
                LoadTask, LoadFeedback
  <2> QED BY <2>1, SerialCreate, SerialLoad
<1>2. ASSUME NEW h \in Handlers, RollBack(h) PROVE Serial'
  BY <1>2, SerialFinish DEF RollBack, IInv
<1>3. CASE UNCHANGED vars
  BY <1>3 DEF vars, Serial, FitsKind, RecSerial, RecComputed, ProblemLocked
<1> QED BY <1>1, <1>2, <1>3, SerialRepository DEF Next

\* only a commit changes a row
LEMMA RowSteps ==
    ASSUME IInv, [Next]_vars
    PROVE  row' = row \/ \E h \in Handlers : Commit(h) /\ ~hs[h].aborted
<1>1. ASSUME Next PROVE row' = row \/ \E h \in Handlers : Commit(h) /\ ~hs[h].aborted
  <2>1. PICK h \in Handlers : Step(h)
    BY <1>1, NextIsStep DEF IInv
  <2> QED BY <2>1 DEF Step, Create, Starts, Moves, Applies, WriteDocument, RecordActivity, Commit
<1> QED BY <1>1 DEF vars

THEOREM SerialInvariance == ASSUME OneAtATime PROVE Spec => []Serial
<1>1. Init => Serial
  <2> SUFFICES ASSUME Init PROVE Serial
    OBVIOUS
  <2>1. FitsKind
    BY DEF Init, NoRow, FitsKind
  <2>2. \A h \in Handlers : hs[h].pc = "idle"
    BY DEF Init, Idle
  <2> QED BY <2>1, <2>2 DEF Serial, RecSerial, InTx
<1>2. IInv /\ Serial /\ [Next]_vars => Serial'
  BY SerialStep
<1> QED BY <1>1, <1>2, Invariance, PTL DEF Spec

(* docs/workflows/artifacts.md: content and links of an artifact that is    *)
(* immutable do not change, when requests come one at a time.               *)
THEOREM ImmutableStays == ASSUME OneAtATime PROVE Spec => ImmutableKept
<1>1. IInv /\ Serial /\ [Next]_vars =>
        [\A a \in Arts : row[a].status \in Immutable(Kind[a]) =>
            row'[a].body = row[a].body /\ row'[a].link = row[a].link]_vars
  BY RowSteps, CommitObeys
<1> QED BY <1>1, Invariance, SerialInvariance, PTL DEF Spec, ImmutableKept

(* docs/workflows/artifacts.md: committed statuses move along the map of    *)
(* their kind, when requests come one at a time; restores included, whose   *)
(* SQL puts back a status that nobody asked for.                            *)
THEOREM MapsFollowed == ASSUME OneAtATime PROVE Spec => TransitionsLegal
<1>1. IInv /\ Serial /\ [Next]_vars =>
        [\A a \in Arts : row[a].status # "Absent" =>
            row'[a].status \in Transitions(Kind[a], row[a].status)]_vars
  <2> SUFFICES ASSUME IInv, Serial, [Next]_vars, vars' # vars,
                      NEW a \in Arts, row[a].status # "Absent"
               PROVE  row'[a].status \in Transitions(Kind[a], row[a].status)
    OBVIOUS
  <2>1. CASE row' = row
    <3>1. row[a].status \in Statuses(Kind[a]) /\ Kind[a] \in Kinds
      BY KindAssumption DEF Serial, FitsKind
    <3> QED BY <2>1, <3>1, StayAllowed
  <2> QED BY <2>1, RowSteps, CommitObeys
<1> QED BY <1>1, Invariance, SerialInvariance, PTL DEF Spec, TransitionsLegal

(* docs/workflows/artifacts.md: an idea is selected while its problem is    *)
(* locked, when requests come one at a time: nothing unlocks the problem    *)
(* between the UPDATE's EXISTS and the commit.                              *)
THEOREM SelectionNeedsLock == ASSUME OneAtATime PROVE Spec => ChosenUnderLock
<1>1. IInv /\ Serial /\ [Next]_vars =>
        [\A a \in Arts :
            Kind[a] = "idea" /\ row'[a].status = "Selected"
              /\ row[a].status \notin {"Selected", "Archived"}
              => row'[a].link # None /\ row[row'[a].link].status = "Locked"]_vars
  BY RowSteps, CommitObeys
<1> QED BY <1>1, Invariance, SerialInvariance, PTL DEF Spec, ChosenUnderLock
=============================================================================
