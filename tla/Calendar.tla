------------------------------ MODULE Calendar ------------------------------
(***************************************************************************)
(* The manual events of a project's calendar: calendar/service.go,         *)
(* calendar/repo.go, calendar/dto.go.                                      *)
(*                                                                         *)
(* An event is kept twice over: as instants (starts_at, ends_at) and as the *)
(* texts they were made of (start_time, end_time).  A PATCH reads the row   *)
(* without a lock, turns the instants into dates, merges the fields it     *)
(* names, builds instants again and writes every column.                   *)
(***************************************************************************)
EXTENDS Integers, FiniteSets

CONSTANTS Days,         \* the days of the calendar are 0 .. Days - 1
          Hours,        \* the times of a day are 0 .. Hours - 1
          Handlers,     \* concurrent requests
          MaxRequests   \* bound: requests on the event after its creation

ASSUME DaysAndHours == Days \in Nat \ {0} /\ Hours \in Nat \ {0}
ASSUME BoundIsNatural == MaxRequests \in Nat

VARIABLES
    event,   \* the row of calendar_events
    hs,      \* the requests
    asked,   \* requests started
    kept,    \* history: the fields as committed requests named them
    lost     \* history: fields that a whole-row write put back

vars == <<event, hs, asked, kept, lost>>

Dates  == 0..(Days - 1)
Times  == 0..(Hours - 1)
NoTime == Hours              \* empty, or any text that is not HH:mm
Texts  == {0, 1}             \* title, description, phase, links, tags ...

\* What a client sees and names.
Fields == [start : Dates, end : Dates, allDay : BOOLEAN,
           startTime : Times \cup {NoTime}, endTime : Times \cup {NoTime}, text : Texts]

\* The columns.
Instants == 0..(Days * Hours - 1)
Rows == [startsAt : Instants, endsAt : Instants, allDay : BOOLEAN,
         startTime : Times \cup {NoTime}, endTime : Times \cup {NoTime}, text : Texts]
NoFields == [start |-> 0, end |-> 0, allDay |-> TRUE,
             startTime |-> NoTime, endTime |-> NoTime, text |-> 0]
NoRow == [startsAt |-> 0, endsAt |-> 0, allDay |-> TRUE,
          startTime |-> NoTime, endTime |-> NoTime, text |-> 0]

Handler == [pc : {"idle", "update", "updated", "delete", "deleted"},
            next : Fields, named : SUBSET DOMAIN NoFields, missed : BOOLEAN]
Idle == [pc |-> "idle", next |-> NoFields, named |-> {}, missed |-> FALSE]

-----------------------------------------------------------------------------
(* Dates, times, instants                                                  *)

\* mutant: the session of PostgreSQL is one hour west of UTC
DateOfWest(i) == IF i < Hours THEN 0 ELSE (i - 1) \div Hours

\* to_char(..., 'YYYY-MM-DD') in a session whose time zone is UTC.
DateOf(i) == i \div Hours

\* buildEventTimestamps refuses an end before the start.
InOrder(f) ==
    /\ f.start <= f.end
    /\ f.allDay \/ f.start * Hours + f.startTime <= f.end * Hours + f.endTime

\* The columns of a valid event: midnight when it lasts all day.
RowOf(f) ==
    [startsAt  |-> f.start * Hours + (IF f.allDay THEN 0 ELSE f.startTime),
     endsAt    |-> f.end * Hours + (IF f.allDay THEN 0 ELSE f.endTime),
     allDay    |-> f.allDay, startTime |-> f.startTime, endTime |-> f.endTime,
     text      |-> f.text]

\* loadCalendarEvent
Shown(r) ==
    [start |-> DateOf(r.startsAt), end |-> DateOf(r.endsAt), allDay |-> r.allDay,
     startTime |-> r.startTime, endTime |-> r.endTime, text |-> r.text]

\* GetCalendarEvent shows no times of an event that lasts all day.
Detail(r) ==
    IF r.allDay THEN [Shown(r) EXCEPT !.startTime = NoTime, !.endTime = NoTime] ELSE Shown(r)

\* Times are demanded of an event that does not last all day.
HasTimes(f) == f.allDay \/ (f.startTime \in Times /\ f.endTime \in Times)

Valid(f) == HasTimes(f) /\ InOrder(f)

-----------------------------------------------------------------------------
(* Patches                                                                 *)

\* mergeCalendarPatch: the fields named, and no times for all day.
Merge(cur, patch) ==
    LET out == [f \in DOMAIN cur |-> IF f \in DOMAIN patch THEN patch[f] ELSE cur[f]]
    IN  IF out.allDay THEN [out EXCEPT !.startTime = NoTime, !.endTime = NoTime] ELSE out

\* Validate: the dates a patch may name.
PatchDates == Dates

\* What a client sends: the page moves the event, sets its times or all day,
\* or edits its text.
Patches ==
    [{"start"} -> PatchDates] \cup [{"end"} -> PatchDates] \cup [{"start", "end"} -> PatchDates]
    \cup [{"startTime"} -> Times \cup {NoTime}] \cup [{"endTime"} -> Times \cup {NoTime}]
    \cup [{"allDay"} -> BOOLEAN] \cup [{"text"} -> Texts]
    \cup {[allDay |-> FALSE, startTime |-> s, endTime |-> e] : s, e \in Times}

-----------------------------------------------------------------------------
(* Requests                                                                *)

Move(h, new) == hs' = [hs EXCEPT ![h] = new]
Ask == asked < MaxRequests /\ asked' = asked + 1

\* The row is changed by a transaction that has not ended.
Locked(h) == \E g \in Handlers \ {h} : hs[g].pc \in {"updated", "deleted"}

\* hs after h ended and the others that had read the row missed its commit.
EndTelling(h) ==
    hs' = [g \in Handlers |->
             IF g = h THEN Idle
             ELSE IF hs[g].pc = "update" THEN [hs[g] EXCEPT !.missed = TRUE]
             ELSE hs[g]]

\* One transaction inserts the row, logs and notifies; nobody knows the event
\* until it commits.  Times sent with an event of all day are stored unchecked.
CreateCalendarEvent ==
    /\ event.life = "none"
    /\ \E f \in {x \in Fields : x.text = 0 /\ Valid(x)} :
           event' = [life |-> "live", row |-> RowOf(f)] /\ kept' = f
    /\ UNCHANGED <<hs, asked, lost>>

\* Read and merge; an event that is not there, or would not be valid, is an
\* error and nothing is written.
UpdateCalendarEvent(h) ==
    /\ hs[h].pc = "idle" /\ event.life = "live" /\ Ask
    /\ \E patch \in Patches :
         LET next == Merge(Shown(event.row), patch)
         IN  Move(h, IF Valid(next)
                     THEN [Idle EXCEPT !.pc = "update", !.next = next, !.named = DOMAIN patch]
                     ELSE Idle)
    /\ UNCHANGED <<event, kept, lost>>

\* The UPDATE waits for the row's lock; it finds no row once a delete has
\* committed (404).
WriteRow(h) ==
    /\ hs[h].pc = "update" /\ ~Locked(h)
    /\ Move(h, IF event.life = "live" THEN [hs[h] EXCEPT !.pc = "updated"] ELSE Idle)
    /\ UNCHANGED <<event, asked, kept, lost>>

\* mutant: only the columns named are written
ColumnsNamed(h) ==
    LET new == RowOf(hs[h].next)
        old == event.row
    IN  [old EXCEPT
           !.startsAt  = IF hs[h].named \cap {"start", "startTime", "allDay"} # {} THEN new.startsAt ELSE @,
           !.endsAt    = IF hs[h].named \cap {"end", "endTime", "allDay"} # {} THEN new.endsAt ELSE @,
           !.allDay    = IF "allDay" \in hs[h].named THEN new.allDay ELSE @,
           !.startTime = IF hs[h].named \cap {"startTime", "allDay"} # {} THEN new.startTime ELSE @,
           !.endTime   = IF hs[h].named \cap {"endTime", "allDay"} # {} THEN new.endTime ELSE @,
           !.text      = IF "text" \in hs[h].named THEN new.text ELSE @]

\* The UPDATE names every column.
Columns(h) == RowOf(hs[h].next)

CommitUpdate(h) ==
    LET named == hs[h].named
        next  == hs[h].next
    IN  /\ hs[h].pc = "updated"
        /\ event' = [event EXCEPT !.row = Columns(h)]
        /\ kept' = [f \in DOMAIN kept |-> IF f \in named THEN next[f] ELSE kept[f]]
        /\ lost' = (lost \ named)
                     \cup {f \in DOMAIN kept \ named : hs[h].missed /\ next[f] # kept[f]}
        /\ EndTelling(h)
        /\ UNCHANGED asked

\* The event is loaded (404) and its row deleted under the row's lock.
DeleteCalendarEvent(h) ==
    /\ hs[h].pc = "idle" /\ event.life = "live" /\ Ask
    /\ Move(h, [Idle EXCEPT !.pc = "delete"])
    /\ UNCHANGED <<event, kept, lost>>

DeleteRow(h) ==
    /\ hs[h].pc = "delete" /\ ~Locked(h)
    /\ Move(h, IF event.life = "live" THEN [hs[h] EXCEPT !.pc = "deleted"] ELSE Idle)
    /\ UNCHANGED <<event, asked, kept, lost>>

CommitDelete(h) ==
    /\ hs[h].pc = "deleted"
    /\ event' = [life |-> "deleted", row |-> NoRow]
    /\ kept' = NoFields /\ lost' = {}
    /\ Move(h, Idle)
    /\ UNCHANGED asked

\* A statement, the entry of the activity log among them, or the commit fails,
\* or the deadline passes: the transaction is rolled back.
Rollback(h) ==
    /\ hs[h].pc # "idle"
    /\ Move(h, Idle)
    /\ UNCHANGED <<event, asked, kept, lost>>

-----------------------------------------------------------------------------
Init ==
    /\ event = [life |-> "none", row |-> NoRow]
    /\ hs = [h \in Handlers |-> Idle]
    /\ asked = 0 /\ kept = NoFields /\ lost = {}

Proceed(h) == WriteRow(h) \/ CommitUpdate(h) \/ DeleteRow(h) \/ CommitDelete(h)

\* Every request is answered and any more would be refused (404), or none may
\* come.
Done == /\ asked = MaxRequests \/ event.life = "deleted"
        /\ \A h \in Handlers : hs[h].pc = "idle"
        /\ UNCHANGED vars

Next ==
    \/ CreateCalendarEvent
    \/ \E h \in Handlers :
           UpdateCalendarEvent(h) \/ DeleteCalendarEvent(h) \/ Proceed(h) \/ Rollback(h)
    \/ Done

\* A transaction goes on, and PostgreSQL grants a lock that is free.
Spec == Init /\ [][Next]_vars

-----------------------------------------------------------------------------
(* Properties                                                              *)

\* Types of the row and the requests.
TypeOK ==
    /\ event \in [life : {"none", "live", "deleted"}, row : Rows]
    /\ hs \in [Handlers -> Handler] /\ asked \in 0..MaxRequests
    /\ kept \in Fields /\ lost \subseteq DOMAIN NoFields

\* The instants and the texts they were made of agree, and an event ends no
\* earlier than it starts (the CHECK of calendar_events never fires), however
\* edits of one end of it overlap: each writes all columns it validated.
RowConsistent ==
    LET r == event.row
    IN  event.life = "live" =>
          /\ r.startsAt <= r.endsAt
          /\ IF r.allDay THEN r.startsAt % Hours = 0 /\ r.endsAt % Hours = 0
             ELSE r.startsAt % Hours = r.startTime /\ r.endsAt % Hours = r.endTime

\* Every field a client sees is what the last request naming it made it,
\* whatever instants and dates it was turned into since, unless a request that
\* had read the event before wrote it back: there is no lock and no version.
\* Times are seen of events that do not last all day.
FieldsKept ==
    LET seen == Detail(event.row)
    IN  event.life = "live" =>
          \A f \in DOMAIN seen :
             \/ seen[f] = kept[f] \/ f \in lost
             \/ f \in {"startTime", "endTime"} /\ seen.allDay

\* A request that goes on to answer 200 has changed a row that is there.
ChangesWhatIsThere ==
    \A h \in Handlers : hs[h].pc \in {"updated", "deleted"} => event.life = "live"

\* The row is one that any of the requests could have left on its own, and
\* none of them answers 200 without it (calendar/repo.go, UpdateCalendarEvent).
EventSound == TypeOK /\ RowConsistent /\ ChangesWhatIsThere
=============================================================================
