----------------------- MODULE CalendarListingProofs -----------------------
(***************************************************************************)
(* What is proved of the calendar's events and of the lists of the API,    *)
(* for any number of days, hours, requests, rows, writers and limits:      *)
(* theorems about Calendar first, then about Listing.                      *)
(***************************************************************************)
EXTENDS Calendar, Listing, FiniteSetTheorems, SequenceTheorems, TLAPS

-----------------------------------------------------------------------------
(* Days and hours                                                          *)

\* An instant made of a day and a time gives back both.
LEMMA Instant ==
  ASSUME NEW d \in Nat, NEW t \in Times
  PROVE  /\ d * Hours + t \in Nat
         /\ (d * Hours + t) \div Hours = d
         /\ (d * Hours + t) % Hours = t
<1>1. Hours \in Nat \ {0} /\ t \in 0..(Hours - 1)
  BY DaysAndHours DEF Times
<1>2. \A H \in Nat \ {0} : t \in 0..(H - 1) => d * H + t \in Nat
  OBVIOUS
<1>3. \A H \in Nat \ {0} : t \in 0..(H - 1) => (d * H + t) \div H = d
  BY SMTT(30)
<1>4. \A H \in Nat \ {0} : t \in 0..(H - 1) => (d * H + t) % H = t
  BY SMTT(30)
<1> QED BY <1>1, <1>2, <1>3, <1>4

\* Later days begin later.
LEMMA DaysInOrder ==
  ASSUME NEW d \in Nat, NEW e \in Nat, d <= e
  PROVE  d * Hours <= e * Hours
<1>1. \A H \in Nat : d * H <= e * H
  BY SMTT(30)
<1> QED BY <1>1, DaysAndHours

\* An instant of the calendar is one of its columns' values.
LEMMA InCalendar ==
  ASSUME NEW d \in Dates, NEW t \in Times
  PROVE  d * Hours + t \in Instants
<1>1. d \in Nat /\ d + 1 <= Days /\ Days \in Nat /\ Hours \in Nat \ {0}
      /\ t \in Nat /\ t <= Hours - 1
  BY DaysAndHours DEF Dates, Times
<1>2. (d + 1) * Hours <= Days * Hours
  BY <1>1, DaysInOrder
<1>3. \A H \in Nat : (d + 1) * H = d * H + H
  BY <1>1, SMTT(30)
<1>4. d * Hours \in Nat /\ Days * Hours \in Nat
  BY <1>1
<1> QED BY <1>1, <1>2, <1>3, <1>4 DEF Instants

LEMMA TimesFacts == 0 \in Times /\ NoTime \notin Times /\ 0 \in Dates
BY DaysAndHours DEF Times, NoTime, Dates

-----------------------------------------------------------------------------
(* Rows and what is shown of them                                          *)

Names == DOMAIN NoFields

LEMMA NamesAre ==
  Names = {"start", "end", "allDay", "startTime", "endTime", "text"}
BY DEF Names, NoFields

LEMMA NoTypes == NoFields \in Fields /\ NoRow \in Rows
<1>1. 0 \in Instants
  <2>1. Days * Hours \in Nat /\ Days * Hours >= 1
    BY DaysAndHours, SMTT(30)
  <2> QED BY <2>1 DEF Instants
<1> QED BY <1>1, TimesFacts DEF NoFields, NoRow, Fields, Rows, Texts

LEMMA FieldsFacts ==
  ASSUME NEW f \in Fields
  PROVE  /\ f.start \in Dates /\ f.end \in Dates /\ f.allDay \in BOOLEAN
         /\ f.startTime \in Times \cup {NoTime} /\ f.endTime \in Times \cup {NoTime}
         /\ f.text \in Texts
         /\ DOMAIN f = Names
BY NamesAre DEF Fields

\* The row of a valid event is consistent and shows the event again.
LEMMA RowOfFacts ==
  ASSUME NEW f \in Fields, Valid(f)
  PROVE  /\ RowOf(f) \in Rows
         /\ RowOf(f).startsAt <= RowOf(f).endsAt
         /\ RowOf(f).allDay = f.allDay
         /\ IF f.allDay THEN RowOf(f).startsAt % Hours = 0 /\ RowOf(f).endsAt % Hours = 0
            ELSE /\ RowOf(f).startsAt % Hours = RowOf(f).startTime
                 /\ RowOf(f).endsAt % Hours = RowOf(f).endTime
         /\ Shown(RowOf(f)) = f
<1> DEFINE s == IF f.allDay THEN 0 ELSE f.startTime
           e == IF f.allDay THEN 0 ELSE f.endTime
<1>1. s \in Times /\ e \in Times
  BY FieldsFacts, TimesFacts DEF Valid, HasTimes
<1>2. f.start \in Dates /\ f.end \in Dates /\ f.start \in Nat /\ f.end \in Nat
  BY FieldsFacts DEF Dates
<1>3. /\ f.start * Hours + s \in Instants /\ f.end * Hours + e \in Instants
      /\ (f.start * Hours + s) \div Hours = f.start /\ (f.end * Hours + e) \div Hours = f.end
      /\ (f.start * Hours + s) % Hours = s /\ (f.end * Hours + e) % Hours = e
  BY <1>1, <1>2, InCalendar, Instant
<1> DEFINE a == f.start * Hours + s
           b == f.end * Hours + e
           r == [startsAt |-> a, endsAt |-> b, allDay |-> f.allDay,
                 startTime |-> f.startTime, endTime |-> f.endTime, text |-> f.text]
<1>4. a <= b
  <2>1. CASE f.allDay
    <3>1. f.start * Hours <= f.end * Hours
      BY <1>2, DaysInOrder DEF Valid, InOrder
    <3>2. f.start * Hours \in Nat /\ f.end * Hours \in Nat
      BY <1>2, DaysAndHours
    <3> QED BY <2>1, <3>1, <3>2
  <2>2. CASE ~f.allDay
    BY <2>2 DEF Valid, InOrder
  <2> QED BY <2>1, <2>2
<1>5. RowOf(f) = r
  BY DEF RowOf
<1> HIDE DEF s, e, a, b
<1>6. a \in Instants /\ b \in Instants /\ DateOf(a) = f.start /\ DateOf(b) = f.end
      /\ a % Hours = s /\ b % Hours = e
  BY <1>3 DEF DateOf, a, b
<1>7. r \in Rows
  BY <1>6, FieldsFacts DEF Rows
<1>8. Shown(r) = f
  BY <1>6, FieldsFacts DEF Shown, Fields
<1>9. s = (IF f.allDay THEN 0 ELSE f.startTime) /\ e = (IF f.allDay THEN 0 ELSE f.endTime)
  BY DEF s, e
<1> QED BY <1>4, <1>5, <1>6, <1>7, <1>8, <1>9

-----------------------------------------------------------------------------
(* Merging a patch                                                         *)

\* A function of the fields is a record of them.
LEMMA IsFields ==
  ASSUME NEW s, s = [f \in Names |-> s[f]],
         s["start"] \in Dates, s["end"] \in Dates, s["allDay"] \in BOOLEAN,
         s["startTime"] \in Times \cup {NoTime}, s["endTime"] \in Times \cup {NoTime},
         s["text"] \in Texts
  PROVE  s \in Fields
<1> DEFINE U == Dates \cup BOOLEAN \cup Times \cup {NoTime} \cup Texts
<1>1. \A f \in Names : s[f] \in U
  BY NamesAre
<1> HIDE DEF U
<1>2. s \in [Names -> U]
  BY <1>1
<1>3. s \in [{"start", "end", "allDay", "startTime", "endTime", "text"} -> U]
  BY <1>2, NamesAre
<1> QED BY <1>3 DEF Fields

\* Whatever a patch names has the type of its field.
Typed(p) ==
    /\ DOMAIN p \subseteq Names
    /\ "start" \in DOMAIN p => p["start"] \in Dates
    /\ "end" \in DOMAIN p => p["end"] \in Dates
    /\ "allDay" \in DOMAIN p => p["allDay"] \in BOOLEAN
    /\ "startTime" \in DOMAIN p => p["startTime"] \in Times \cup {NoTime}
    /\ "endTime" \in DOMAIN p => p["endTime"] \in Times \cup {NoTime}
    /\ "text" \in DOMAIN p => p["text"] \in Texts

LEMMA PatchFacts == ASSUME NEW patch \in Patches PROVE Typed(patch)
<1>1. CASE patch \in [{"start"} -> PatchDates] \cup [{"end"} -> PatchDates]
                      \cup [{"start", "end"} -> PatchDates]
  BY <1>1, NamesAre DEF Typed, PatchDates
<1>2. CASE patch \in [{"startTime"} -> Times \cup {NoTime}]
                      \cup [{"endTime"} -> Times \cup {NoTime}]
  BY <1>2, NamesAre DEF Typed
<1>3. CASE patch \in [{"allDay"} -> BOOLEAN] \cup [{"text"} -> Texts]
  BY <1>3, NamesAre DEF Typed
<1>4. CASE \E s, e \in Times : patch = [allDay |-> FALSE, startTime |-> s, endTime |-> e]
  BY <1>4, NamesAre DEF Typed
<1> QED BY <1>1, <1>2, <1>3, <1>4 DEF Patches

\* Merging keeps the types, and the fields that are not named but for the times
\* of all day.
LEMMA MergeFacts ==
  ASSUME NEW cur \in Fields, NEW patch, Typed(patch)
  PROVE  /\ Merge(cur, patch) \in Fields
         /\ \A f \in Names \ DOMAIN patch :
               \/ Merge(cur, patch)[f] = cur[f]
               \/ /\ f \in {"startTime", "endTime"} /\ Merge(cur, patch).allDay
                  /\ Merge(cur, patch)[f] = NoTime
         /\ Merge(cur, patch).allDay =>
               Merge(cur, patch).startTime = NoTime /\ Merge(cur, patch).endTime = NoTime
<1> DEFINE out == [f \in Names |-> IF f \in DOMAIN patch THEN patch[f] ELSE cur[f]]
           set == [out EXCEPT !.startTime = NoTime, !.endTime = NoTime]
           m   == Merge(cur, patch)
<1>1. \A f \in Names : out[f] = IF f \in DOMAIN patch THEN patch[f] ELSE cur[f]
  OBVIOUS
<1>2. out = [f \in Names |-> out[f]] /\ DOMAIN out = Names
  OBVIOUS
<1>3. m = IF out.allDay THEN set ELSE out
  BY FieldsFacts DEF Merge
<1> HIDE DEF out
<1>4. out \in Fields
  <2>1. /\ cur["start"] \in Dates /\ cur["end"] \in Dates /\ cur["allDay"] \in BOOLEAN
        /\ cur["startTime"] \in Times \cup {NoTime} /\ cur["endTime"] \in Times \cup {NoTime}
        /\ cur["text"] \in Texts
    BY FieldsFacts
  <2>2. /\ out["start"] \in Dates /\ out["end"] \in Dates /\ out["allDay"] \in BOOLEAN
        /\ out["startTime"] \in Times \cup {NoTime} /\ out["endTime"] \in Times \cup {NoTime}
        /\ out["text"] \in Texts
    BY <1>1, <2>1, NamesAre DEF Typed
  <2> QED BY <1>2, <2>2, IsFields
<1>5. /\ set \in Fields /\ set.allDay = out.allDay
      /\ set.startTime = NoTime /\ set.endTime = NoTime
      /\ \A f \in Names \ {"startTime", "endTime"} : set[f] = out[f]
  BY <1>2, <1>4, NamesAre DEF Fields
<1> HIDE DEF set, m
<1>6. CASE out.allDay
  <2>1. m = set /\ m.allDay
    BY <1>3, <1>5, <1>6
  <2>2. ASSUME NEW f \in Names \ DOMAIN patch, f \notin {"startTime", "endTime"}
        PROVE  m[f] = cur[f]
    BY <1>1, <1>5, <2>1, <2>2
  <2>3. m["startTime"] = NoTime /\ m["endTime"] = NoTime
    BY <1>5, <2>1
  <2> QED BY <1>5, <2>1, <2>2, <2>3 DEF m
<1>7. CASE ~out.allDay
  <2>1. m = out
    BY <1>3, <1>7
  <2> QED BY <1>1, <1>4, <1>7, <2>1 DEF m
<1> QED BY <1>6, <1>7

-----------------------------------------------------------------------------
(* The inductive invariant                                                 *)

Writing == {"updated", "deleted"}

\* Every field but those named is as the committed requests made it, was put
\* back by a request that had missed one of them, or is a time of all day.
Tells(s, named, k, l) ==
    \A f \in Names \ named :
        \/ s[f] = k[f] \/ f \in l
        \/ f \in {"startTime", "endTime"} /\ s.allDay /\ s[f] = NoTime

\* What a request would write is valid, and as old as its read.
Knows(r, life, k, l) ==
    /\ r.pc # "idle" => life # "none"
    /\ r.pc \in Writing => life = "live"
    /\ r.pc \in {"update", "updated"} =>
          /\ Valid(r.next)
          /\ ~r.missed /\ life = "live" => Tells(r.next, r.named, k, l)

\* One request at a time has changed the row.
Exclusive ==
    \A g \in Handlers : \A h \in Handlers \ {g} :
        hs[g].pc \in Writing => hs[h].pc \notin Writing

\* The row shows what the requests named.
RowTells(e, k, l) ==
    e.life = "live" => Shown(e.row) \in Fields /\ Tells(Shown(e.row), {}, k, l)

CalendarInv ==
    /\ TypeOK /\ RowConsistent /\ Exclusive
    /\ RowTells(event, kept, lost)
    /\ \A h \in Handlers : Knows(hs[h], event.life, kept, lost)

-----------------------------------------------------------------------------
(* Steps                                                                   *)

LEMMA IdleFacts ==
  /\ Idle \in Handler /\ Idle.pc = "idle"
  /\ \A life, k, l : Knows(Idle, life, k, l)
BY NoTypes DEF Idle, Handler, Knows, Writing

LEMMA OfOne ==
  ASSUME CalendarInv, NEW h \in Handlers
  PROVE  /\ TypeOK /\ hs[h] \in Handler /\ Knows(hs[h], event.life, kept, lost)
         /\ hs[h].next \in Fields /\ hs[h].named \in SUBSET Names /\ hs[h].missed \in BOOLEAN
         /\ asked \in 0..MaxRequests /\ (Ask => asked' \in 0..MaxRequests)
<1>1. TypeOK /\ hs[h] \in Handler /\ Knows(hs[h], event.life, kept, lost)
      /\ asked \in 0..MaxRequests
  BY DEF CalendarInv, TypeOK
<1>2. Ask => asked' \in 0..MaxRequests
  BY <1>1, BoundIsNatural DEF Ask
<1> QED BY <1>1, <1>2 DEF Handler, Names

\* A request that only moves.
LEMMA MoveKeeps ==
  ASSUME CalendarInv, NEW h \in Handlers, NEW r \in Handler, Move(h, r),
         UNCHANGED <<event, kept, lost>>, asked' \in 0..MaxRequests,
         r.pc \in Writing => \A g \in Handlers \ {h} : hs[g].pc \notin Writing,
         Knows(r, event.life, kept, lost)
  PROVE  CalendarInv'
<1>1. /\ hs' \in [Handlers -> Handler] /\ hs'[h] = r
      /\ \A g \in Handlers \ {h} : hs'[g] = hs[g]
  BY DEF Move, CalendarInv, TypeOK
<1>2. TypeOK'
  BY <1>1 DEF CalendarInv, TypeOK
<1>3. RowConsistent' /\ RowTells(event', kept', lost')
  BY DEF CalendarInv, RowConsistent
<1>4. Exclusive'
  BY <1>1 DEF CalendarInv, Exclusive
<1>5. \A g \in Handlers : Knows(hs'[g], event'.life, kept', lost')
  BY <1>1 DEF CalendarInv
<1> QED BY <1>2, <1>3, <1>4, <1>5 DEF CalendarInv

\* A request that fails, or finds no event, is over.
LEMMA GivingUpKeeps ==
  ASSUME CalendarInv, NEW h \in Handlers, Move(h, Idle), UNCHANGED <<event, asked, kept, lost>>
  PROVE  CalendarInv'
<1>1. asked' \in 0..MaxRequests
  BY OfOne
<1> QED BY <1>1, IdleFacts, MoveKeeps DEF Writing

LEMMA CreateKeeps ==
  ASSUME CalendarInv, CreateCalendarEvent
  PROVE  CalendarInv'
<1>1. event.life = "none" /\ UNCHANGED <<hs, asked, lost>> /\ TypeOK
  BY DEF CreateCalendarEvent, CalendarInv
<1>2. PICK f \in Fields : Valid(f) /\ event' = [life |-> "live", row |-> RowOf(f)] /\ kept' = f
  BY DEF CreateCalendarEvent
<1> DEFINE r == RowOf(f)
<1>3. /\ r \in Rows /\ r.startsAt <= r.endsAt /\ Shown(r) = f
      /\ IF r.allDay THEN r.startsAt % Hours = 0 /\ r.endsAt % Hours = 0
         ELSE r.startsAt % Hours = r.startTime /\ r.endsAt % Hours = r.endTime
  BY <1>2, RowOfFacts
<1>4. event'.life = "live" /\ event'.row = r /\ event' = [life |-> "live", row |-> r]
  BY <1>2
<1> HIDE DEF r
<1>5. TypeOK'
  BY <1>1, <1>2, <1>3, <1>4 DEF TypeOK
<1>6. RowConsistent'
  BY <1>3, <1>4 DEF RowConsistent
<1>7. RowTells(event', kept', lost')
  BY <1>2, <1>3, <1>4 DEF RowTells, Tells
<1>8. ASSUME NEW h \in Handlers
      PROVE  hs'[h].pc = "idle" /\ Knows(hs'[h], event'.life, kept', lost')
  <2>1. hs[h].pc = "idle"
    BY <1>1, OfOne DEF Knows
  <2> QED BY <1>1, <2>1 DEF Knows, Writing
<1>9. Exclusive'
  BY <1>8 DEF Exclusive, Writing
<1> QED BY <1>5, <1>6, <1>7, <1>8, <1>9 DEF CalendarInv

LEMMA UpdateKeeps ==
  ASSUME CalendarInv, NEW h \in Handlers, UpdateCalendarEvent(h)
  PROVE  CalendarInv'
<1>1. /\ event.life = "live" /\ asked' \in 0..MaxRequests
      /\ UNCHANGED <<event, kept, lost>>
      /\ Shown(event.row) \in Fields /\ Tells(Shown(event.row), {}, kept, lost)
  BY OfOne DEF UpdateCalendarEvent, CalendarInv, RowTells
<1>2. PICK patch \in Patches :
        Move(h, IF Valid(Merge(Shown(event.row), patch))
                THEN [Idle EXCEPT !.pc = "update", !.next = Merge(Shown(event.row), patch),
                                  !.named = DOMAIN patch]
                ELSE Idle)
  BY DEF UpdateCalendarEvent
<1> DEFINE cur == Shown(event.row)
           next == Merge(cur, patch)
           named == DOMAIN patch
           r == [Idle EXCEPT !.pc = "update", !.next = next, !.named = named]
<1>3. Typed(patch)
  BY PatchFacts
<1>4. /\ next \in Fields
      /\ \A f \in Names \ named :
            next[f] = cur[f] \/ (f \in {"startTime", "endTime"} /\ next.allDay /\ next[f] = NoTime)
  BY <1>1, <1>3, MergeFacts
<1>5. named \in SUBSET Names
  BY <1>3 DEF Typed
<1>6. CASE ~Valid(next)
  BY <1>1, <1>2, <1>6, IdleFacts, MoveKeeps DEF Writing
<1>7. CASE Valid(next)
  <2>1. Move(h, r)
    BY <1>2, <1>7
  <2>2. next \in Fields /\ next["startTime"] = next.startTime /\ next["endTime"] = next.endTime
    BY <1>4
  <2> HIDE DEF next, named
  <2>3. Tells(next, named, kept, lost)
    <3>1. SUFFICES ASSUME NEW f \in Names \ named,
                          ~(f \in {"startTime", "endTime"} /\ next.allDay /\ next[f] = NoTime)
                   PROVE  next[f] = kept[f] \/ f \in lost
      BY DEF Tells
    <3>2. next[f] = cur[f]
      BY <1>4, <3>1
    <3>3. cur[f] = kept[f] \/ f \in lost \/ (f \in {"startTime", "endTime"} /\ cur[f] = NoTime)
      BY <1>1, <3>1 DEF Tells
    <3>4. ASSUME f \in {"startTime", "endTime"}, next[f] = NoTime PROVE FALSE
      <4>1. ~next.allDay
        BY <3>1, <3>4
      <4>2. next[f] \in Times
        BY <1>7, <2>2, <3>4, <4>1 DEF Valid, HasTimes
      <4> QED BY <3>4, <4>2, TimesFacts
    <3> QED BY <3>2, <3>3, <3>4
  <2>4. r \in Handler /\ r.pc = "update" /\ r.next = next /\ r.named = named
    BY <1>4, <1>5, IdleFacts DEF Handler, Names
  <2> HIDE DEF r
  <2>5. Knows(r, event.life, kept, lost)
    BY <1>1, <1>7, <2>3, <2>4 DEF Knows, Writing
  <2> QED BY <1>1, <2>1, <2>4, <2>5, MoveKeeps DEF Writing
<1> QED BY <1>6, <1>7

LEMMA WriteRowKeeps ==
  ASSUME CalendarInv, NEW h \in Handlers, WriteRow(h) \/ DeleteRow(h)
  PROVE  CalendarInv'
<1>1. /\ hs[h] \in Handler /\ Knows(hs[h], event.life, kept, lost)
      /\ UNCHANGED <<event, asked, kept, lost>> /\ asked' \in 0..MaxRequests
      /\ \A g \in Handlers \ {h} : hs[g].pc \notin Writing
  BY OfOne DEF WriteRow, DeleteRow, Locked, Writing
<1>2. CASE event.life # "live"
  BY <1>1, <1>2, GivingUpKeeps DEF WriteRow, DeleteRow
<1>3. CASE event.life = "live"
  <2>1. PICK pc \in Writing :
          /\ Move(h, [hs[h] EXCEPT !.pc = pc])
          /\ pc = "updated" => hs[h].pc = "update"
    BY <1>3 DEF WriteRow, DeleteRow, Writing
  <2> DEFINE r == [hs[h] EXCEPT !.pc = pc]
  <2>2. /\ r \in Handler /\ r.pc = pc /\ r.next = hs[h].next /\ r.named = hs[h].named
        /\ r.missed = hs[h].missed
    BY <1>1 DEF Handler, Writing
  <2>3. Move(h, r)
    BY <2>1
  <2> HIDE DEF r
  <2>4. Knows(r, event.life, kept, lost)
    BY <1>1, <1>3, <2>1, <2>2 DEF Knows, Writing
  <2> QED BY <1>1, <2>2, <2>3, <2>4, MoveKeeps
<1> QED BY <1>2, <1>3

LEMMA DeleteKeeps ==
  ASSUME CalendarInv, NEW h \in Handlers, DeleteCalendarEvent(h)
  PROVE  CalendarInv'
<1> DEFINE r == [Idle EXCEPT !.pc = "delete"]
<1>1. /\ event.life = "live" /\ Move(h, r) /\ asked' \in 0..MaxRequests
      /\ UNCHANGED <<event, kept, lost>>
  BY OfOne DEF DeleteCalendarEvent
<1>2. r \in Handler /\ r.pc = "delete"
  BY IdleFacts DEF Handler
<1> HIDE DEF r
<1>3. Knows(r, event.life, kept, lost)
  BY <1>1, <1>2 DEF Knows, Writing
<1> QED BY <1>1, <1>2, <1>3, MoveKeeps DEF Writing

LEMMA CommitDeleteKeeps ==
  ASSUME CalendarInv, NEW h \in Handlers, CommitDelete(h)
  PROVE  CalendarInv'
<1>1. /\ event' = [life |-> "deleted", row |-> NoRow] /\ kept' = NoFields /\ lost' = {}
      /\ UNCHANGED asked /\ TypeOK
      /\ hs' = [hs EXCEPT ![h] = Idle]
  BY OfOne DEF CommitDelete, Move
<1>2. /\ hs' \in [Handlers -> Handler] /\ hs'[h] = Idle
      /\ \A g \in Handlers \ {h} : hs'[g] = hs[g] /\ hs[g].pc \notin Writing
  BY <1>1, IdleFacts DEF TypeOK, CalendarInv, Exclusive, CommitDelete, Writing
<1>3. TypeOK'
  BY <1>1, <1>2, NoTypes DEF TypeOK
<1>4. RowConsistent' /\ RowTells(event', kept', lost')
  BY <1>1 DEF RowConsistent, RowTells
<1>5. Exclusive'
  BY <1>2, IdleFacts DEF Exclusive, Writing
<1>6. ASSUME NEW g \in Handlers PROVE Knows(hs'[g], event'.life, kept', lost')
  <2>1. CASE g = h
    BY <1>2, <2>1, IdleFacts
  <2>2. CASE g # h
    BY <1>1, <1>2, <2>2, OfOne DEF Knows
  <2> QED BY <2>1, <2>2
<1> QED BY <1>3, <1>4, <1>5, <1>6 DEF CalendarInv

LEMMA CommitUpdateKeeps ==
  ASSUME CalendarInv, NEW h \in Handlers, CommitUpdate(h)
  PROVE  CalendarInv'
<1> DEFINE next == hs[h].next
           named == hs[h].named
           k == [f \in Names |-> IF f \in named THEN next[f] ELSE kept[f]]
           l == (lost \ named) \cup {f \in Names \ named : hs[h].missed /\ next[f] # kept[f]}
           row == RowOf(next)
<1>1. /\ TypeOK /\ next \in Fields /\ named \in SUBSET Names /\ Valid(next)
      /\ event.life = "live" /\ (~hs[h].missed => Tells(next, named, kept, lost))
      /\ kept \in Fields /\ lost \in SUBSET Names
      /\ \A g \in Handlers \ {h} : hs[g].pc \notin Writing
  BY OfOne DEF CommitUpdate, Knows, Writing, CalendarInv, Exclusive, TypeOK, Names
<1>2. /\ event' = [event EXCEPT !.row = row] /\ lost' = l /\ kept' = k /\ UNCHANGED asked
  <2>1. DOMAIN kept = Names
    BY <1>1, FieldsFacts
  <2> QED BY <2>1 DEF CommitUpdate, Columns
<1>3. /\ row \in Rows /\ row.startsAt <= row.endsAt /\ Shown(row) = next
      /\ IF row.allDay THEN row.startsAt % Hours = 0 /\ row.endsAt % Hours = 0
         ELSE row.startsAt % Hours = row.startTime /\ row.endsAt % Hours = row.endTime
  BY <1>1, RowOfFacts
<1>4. \A f \in Names : k[f] = IF f \in named THEN next[f] ELSE kept[f]
  OBVIOUS
<1>5. k = [f \in Names |-> k[f]]
  OBVIOUS
<1> HIDE DEF row, k
<1>6. k \in Fields
  <2>1. \A s \in Fields :
          /\ s["start"] \in Dates /\ s["end"] \in Dates /\ s["allDay"] \in BOOLEAN
          /\ s["startTime"] \in Times \cup {NoTime} /\ s["endTime"] \in Times \cup {NoTime}
          /\ s["text"] \in Texts
    BY FieldsFacts
  <2>2. /\ k["start"] \in {next["start"], kept["start"]}
        /\ k["end"] \in {next["end"], kept["end"]}
        /\ k["allDay"] \in {next["allDay"], kept["allDay"]}
        /\ k["startTime"] \in {next["startTime"], kept["startTime"]}
        /\ k["endTime"] \in {next["endTime"], kept["endTime"]}
        /\ k["text"] \in {next["text"], kept["text"]}
    BY <1>4, NamesAre
  <2>3. /\ k["start"] \in Dates /\ k["end"] \in Dates /\ k["allDay"] \in BOOLEAN
        /\ k["startTime"] \in Times \cup {NoTime} /\ k["endTime"] \in Times \cup {NoTime}
        /\ k["text"] \in Texts
    BY <1>1, <2>1, <2>2
  <2> QED BY <1>5, <2>3, IsFields
<1>7. l \in SUBSET Names
  BY <1>1
<1>8. Tells(next, {}, k, l)
  <2>1. SUFFICES ASSUME NEW f \in Names,
                        ~(f \in {"startTime", "endTime"} /\ next.allDay /\ next[f] = NoTime)
                 PROVE  next[f] = k[f] \/ f \in l
    BY DEF Tells
  <2>2. CASE f \in named
    BY <1>4, <2>2
  <2>3. CASE f \notin named /\ hs[h].missed
    BY <1>4, <2>3
  <2>4. CASE f \notin named /\ ~hs[h].missed
    <3>1. next[f] = kept[f] \/ f \in lost
      BY <1>1, <2>1, <2>4 DEF Tells
    <3> QED BY <1>4, <2>4, <3>1
  <2> QED BY <2>2, <2>3, <2>4
<1> HIDE DEF next, named, l
<1>9. event'.life = "live" /\ event'.row = row
      /\ event' \in [life : {"none", "live", "deleted"}, row : Rows]
  BY <1>1, <1>2, <1>3 DEF TypeOK
<1>10. /\ hs' \in [Handlers -> Handler] /\ hs'[h] = Idle
       /\ \A g \in Handlers \ {h} :
             /\ hs'[g].pc = hs[g].pc /\ hs'[g].next = hs[g].next
             /\ hs[g].pc = "update" => hs'[g].missed
  <2>1. \A g \in Handlers : hs[g] \in Handler
    BY OfOne
  <2>2. \A x \in Handler : /\ [x EXCEPT !.missed = TRUE] \in Handler
                           /\ [x EXCEPT !.missed = TRUE].pc = x.pc
                           /\ [x EXCEPT !.missed = TRUE].next = x.next
                           /\ [x EXCEPT !.missed = TRUE].missed
    BY DEF Handler
  <2>3. hs' = [g \in Handlers |->
                 IF g = h THEN Idle
                 ELSE IF hs[g].pc = "update" THEN [hs[g] EXCEPT !.missed = TRUE]
                 ELSE hs[g]]
    BY DEF CommitUpdate, EndTelling
  <2>4. hs' \in [Handlers -> Handler]
    BY <2>1, <2>2, <2>3, IdleFacts
  <2> QED BY <2>1, <2>2, <2>3, <2>4
<1>11. TypeOK'
  BY <1>1, <1>2, <1>6, <1>7, <1>9, <1>10 DEF TypeOK, Names
<1>12. RowConsistent'
  BY <1>3, <1>9 DEF RowConsistent
<1>13. RowTells(event', kept', lost')
  BY <1>1, <1>2, <1>3, <1>8, <1>9 DEF RowTells
<1>14. Exclusive'
  BY <1>1, <1>10, IdleFacts DEF Exclusive, Writing
<1>15. ASSUME NEW g \in Handlers PROVE Knows(hs'[g], event'.life, kept', lost')
  <2>1. CASE g = h
    BY <1>10, <2>1, IdleFacts
  <2>2. CASE g # h
    <3>1. Knows(hs[g], event.life, kept, lost) /\ hs[g].pc \notin Writing
      BY <1>1, <2>2, OfOne
    <3> QED BY <1>9, <1>10, <2>2, <3>1 DEF Knows, Writing
  <2> QED BY <2>1, <2>2
<1> QED BY <1>11, <1>12, <1>13, <1>14, <1>15 DEF CalendarInv

-----------------------------------------------------------------------------
(* The specification                                                       *)

LEMMA InitKeeps == Init => CalendarInv
<1> SUFFICES ASSUME Init PROVE CalendarInv
  OBVIOUS
<1>1. /\ event = [life |-> "none", row |-> NoRow] /\ hs = [h \in Handlers |-> Idle]
      /\ asked = 0 /\ kept = NoFields /\ lost = {}
  BY DEF Init
<1>2. \A h \in Handlers : hs[h] = Idle /\ hs[h].pc = "idle"
  BY <1>1, IdleFacts
<1>3. TypeOK
  BY <1>1, IdleFacts, NoTypes, BoundIsNatural DEF TypeOK
<1>4. RowConsistent /\ RowTells(event, kept, lost)
  BY <1>1 DEF RowConsistent, RowTells
<1>5. Exclusive
  BY <1>2 DEF Exclusive, Writing
<1>6. \A h \in Handlers : Knows(hs[h], event.life, kept, lost)
  BY <1>2, IdleFacts
<1> QED BY <1>3, <1>4, <1>5, <1>6 DEF CalendarInv

LEMMA NextKeeps == CalendarInv /\ [Next]_vars => CalendarInv'
<1> SUFFICES ASSUME CalendarInv, [Next]_vars PROVE CalendarInv'
  OBVIOUS
<1>1. CASE CreateCalendarEvent
  BY <1>1, CreateKeeps
<1>2. ASSUME NEW h \in Handlers, UpdateCalendarEvent(h) PROVE CalendarInv'
  BY <1>2, UpdateKeeps
<1>3. ASSUME NEW h \in Handlers, DeleteCalendarEvent(h) PROVE CalendarInv'
  BY <1>3, DeleteKeeps
<1>4. ASSUME NEW h \in Handlers, WriteRow(h) \/ DeleteRow(h) PROVE CalendarInv'
  BY <1>4, WriteRowKeeps
<1>5. ASSUME NEW h \in Handlers, CommitUpdate(h) PROVE CalendarInv'
  BY <1>5, CommitUpdateKeeps
<1>6. ASSUME NEW h \in Handlers, CommitDelete(h) PROVE CalendarInv'
  BY <1>6, CommitDeleteKeeps
<1>7. ASSUME NEW h \in Handlers, Rollback(h) PROVE CalendarInv'
  BY <1>7, GivingUpKeeps DEF Rollback
<1>8. CASE Done \/ UNCHANGED vars
  <2>1. UNCHANGED <<event, hs, asked, kept, lost>>
    BY <1>8 DEF Done, vars
  <2>2. TypeOK'
    BY <2>1 DEF TypeOK, CalendarInv
  <2>3. RowConsistent' /\ Exclusive'
    BY <2>1 DEF RowConsistent, Exclusive, CalendarInv
  <2>4. RowTells(event', kept', lost') /\ \A h \in Handlers : Knows(hs'[h], event'.life, kept', lost')
    BY <2>1 DEF CalendarInv
  <2> QED BY <2>2, <2>3, <2>4 DEF CalendarInv
<1> QED BY <1>1, <1>2, <1>3, <1>4, <1>5, <1>6, <1>7, <1>8 DEF Next, Proceed

LEMMA InvSays == CalendarInv => EventSound /\ FieldsKept
<1> SUFFICES ASSUME CalendarInv PROVE EventSound /\ FieldsKept
  OBVIOUS
<1>1. ChangesWhatIsThere
  BY OfOne DEF ChangesWhatIsThere, Knows, Writing
<1>2. EventSound
  BY <1>1 DEF EventSound, CalendarInv
<1>3. FieldsKept
  <2>1. SUFFICES ASSUME event.life = "live",
                        NEW f \in DOMAIN Detail(event.row),
                        ~(f \in {"startTime", "endTime"} /\ Detail(event.row).allDay)
                 PROVE  Detail(event.row)[f] = kept[f] \/ f \in lost
    BY DEF FieldsKept
  <2> DEFINE r == event.row
             s == Shown(r)
  <2>2. s \in Fields /\ Tells(s, {}, kept, lost) /\ r.allDay = s.allDay
    BY <2>1 DEF CalendarInv, RowTells, Shown
  <2>3. Detail(r) = IF s.allDay THEN [s EXCEPT !.startTime = NoTime, !.endTime = NoTime] ELSE s
    BY <2>2 DEF Detail
  <2> HIDE DEF s
  <2>4. /\ DOMAIN Detail(r) = Names /\ Detail(r).allDay = s.allDay
        /\ f \in Names
    BY <2>1, <2>2, <2>3, NamesAre DEF Fields
  <2>5. Detail(r)[f] = s[f]
    BY <2>1, <2>2, <2>3, <2>4, NamesAre DEF Fields
  <2> QED BY <2>1, <2>2, <2>4, <2>5 DEF Tells
<1> QED BY <1>2, <1>3

LEMMA Invariant == Spec => []CalendarInv
<1> QED BY InitKeeps, NextKeeps, PTL DEF Spec

\* However edits and a deletion of an event overlap, its instants, dates and
\* texts agree and it ends no earlier than it starts (UpdateCalendarEvent
\* validates what it writes, and writes every column).
THEOREM EventIsSound == Spec => []EventSound
<1> QED BY Invariant, InvSays, PTL

\* A field that differs from what the last request naming it made it was
\* written back by a request that had read the event before
\* (UpdateCalendarEvent reads without a lock).
THEOREM EventFieldsKept == Spec => []FieldsKept
<1> QED BY Invariant, InvSays, PTL

-----------------------------------------------------------------------------
(* Lists: orders, ranks and pages                                          *)

\* Any set of rows is finite, and a smaller one counts less.
LEMMA RowsAreFinite ==
  ASSUME NEW S \in SUBSET Items
  PROVE  /\ IsFiniteSet(S) /\ Cardinality(S) \in Nat
         /\ \A T \in SUBSET S : Cardinality(T) \in Nat /\ Cardinality(T) <= Cardinality(S)
<1>1. IsFiniteSet(S)
  BY PresentAreItems, FS_Subset
<1>2. ASSUME NEW T \in SUBSET S
      PROVE  Cardinality(T) \in Nat /\ Cardinality(T) <= Cardinality(S)
  BY <1>1, FS_Subset, FS_CardinalityType
<1> QED BY <1>1, <1>2, FS_CardinalityType

\* A row is ahead of fewer rows than are listed.
LEMMA AheadBound ==
  ASSUME NEW rs, NEW i \in Items
  PROVE  /\ Ahead(rs, i) \in Nat
         /\ Before(rs, i, i) = FALSE /\ rs[i].key \in Nat /\ rs[i].in
            => Ahead(rs, i) < Cardinality({j \in Items : rs[j].in})
<1> DEFINE L == {j \in Items : rs[j].in}
           A == {j \in Items : rs[j].in /\ Before(rs, j, i)}
<1>1. A \in SUBSET L /\ L \in SUBSET Items /\ A \in SUBSET Items
  OBVIOUS
<1>2. IsFiniteSet(L) /\ Cardinality(A) \in Nat /\ Cardinality(A) <= Cardinality(L)
      /\ Cardinality(L) \in Nat
  BY <1>1, RowsAreFinite
<1>3. ASSUME rs[i].in, ~ Before(rs, i, i) PROVE Cardinality(A) # Cardinality(L)
  <2>1. i \in L /\ i \notin A
    BY <1>3
  <2> QED BY <1>1, <1>2, <2>1, FS_Subset
<1> QED BY <1>2, <1>3 DEF Ahead

\* An order lists every row once.
LEMMA OrderLists ==
  ASSUME NEW s \in Orders
  PROVE  /\ s \in Seq(Items) /\ Len(s) = Cardinality(Listed)
         /\ s \in [1..Cardinality(Listed) -> Listed]
         /\ \A m, n \in 1..Len(s) : s[m] = s[n] => m = n
         /\ \A i \in Listed : \E n \in 1..Len(s) : s[n] = i
         /\ Sorted(s)
<1> DEFINE N == Cardinality(Listed)
<1>1. /\ Listed \in SUBSET Items /\ IsFiniteSet(Listed) /\ N \in Nat
  BY RowsAreFinite DEF Listed
<1>2. /\ s \in [1..N -> Listed] /\ \A m, n \in 1..N : m # n => s[m] # s[n]
      /\ Sorted(s)
  BY DEF Orders, SetToSeqs
<1>3. s \in Seq(Items) /\ Len(s) = N
  BY <1>1, <1>2
<1>4. s \in Injection(1..N, Listed)
  BY <1>2 DEF Injection, IsInjective
<1>5. Cardinality(1..N) = N
  BY <1>1, FS_Interval
<1>6. s \in Surjection(1..N, Listed)
  BY <1>1, <1>4, <1>5, FS_Injection
<1> QED BY <1>2, <1>3, <1>6 DEF Surjection

\* A row that shares its key with no other stands behind as many as are before it.
LEMMA PlaceOfRow ==
  ASSUME NEW s \in Orders, rows \in [Items -> Row], NEW i \in Listed \ Tied(rows)
  PROVE  /\ Ahead(rows, i) \in 0..(Len(s) - 1)
         /\ s[Ahead(rows, i) + 1] = i
         /\ \A n \in 1..Len(s) : s[n] = i => n = Ahead(rows, i) + 1
<1>1. /\ s \in [1..Len(s) -> Listed] /\ Len(s) \in Nat /\ Sorted(s)
      /\ \A m, n \in 1..Len(s) : s[m] = s[n] => m = n
  BY OrderLists
<1>2. PICK n \in 1..Len(s) : s[n] = i
  BY OrderLists
<1>3. \A j \in Listed : rows[j].key \in Nat /\ rows[j].in /\ j \in Items
  <2>1. \A t \in Keys \cup {0} : t \in Nat
    BY DEF Keys
  <2>2. ASSUME NEW j \in Items PROVE rows[j].key \in Nat
    <3>1. rows[j] \in Row
      OBVIOUS
    <3>2. rows[j].key \in Keys \cup {0}
      BY <3>1 DEF Row
    <3> QED BY <3>2, <2>1
  <2> QED BY <2>2 DEF Listed
<1>4. \A j \in Listed \ {i} : rows[j].key # rows[i].key
  BY DEF Tied, Listed
<1>5. ASSUME NEW m \in 1..Len(s), m # n
      PROVE  Before(rows, s[m], i) <=> m < n
  <2>1. s[m] \in Listed \ {i}
    BY <1>1, <1>2, <1>5
  <2>2. Before(rows, s[m], i) \/ Before(rows, i, s[m])
    BY <2>1, <1>3, <1>4 DEF Before
  <2>3. Before(rows, s[m], i) => m < n
    BY <1>1, <1>2 DEF Sorted
  <2>4. Before(rows, i, s[m]) => n < m
    BY <1>1, <1>2 DEF Sorted
  <2> QED BY <2>2, <2>3, <2>4
<1> DEFINE A == {j \in Items : rows[j].in /\ Before(rows, j, i)}
           f == [m \in 1..(n - 1) |-> s[m]]
<1>6. A = {s[m] : m \in 1..(n - 1)}
  <2>1. ASSUME NEW j \in A PROVE \E m \in 1..(n - 1) : s[m] = j
    <3>1. j \in Listed /\ j # i
      BY <1>3 DEF Listed, Before
    <3>2. PICK m \in 1..Len(s) : s[m] = j
      BY <3>1, OrderLists
    <3> QED BY <3>1, <3>2, <1>2, <1>5
  <2>2. ASSUME NEW m \in 1..(n - 1) PROVE s[m] \in A
    BY <1>1, <1>2, <1>3, <1>5
  <2> QED BY <2>1, <2>2
<1>7. f \in Bijection(1..(n - 1), A)
  BY <1>1, <1>6 DEF Bijection, Injection, Surjection, IsInjective
<1>8. ExistsBijection(1..(n - 1), A)
  BY <1>7 DEF ExistsBijection
<1>9. Cardinality(A) = n - 1
  BY <1>8, FS_CountingElements
<1>10. Ahead(rows, i) = n - 1
  BY <1>9 DEF Ahead
<1> QED BY <1>1, <1>2, <1>10

\* What SubSeq returns between two places, the last one cut at the end.
LEMMA FromIs ==
  ASSUME NEW s \in Seq(Items), NEW first \in Nat \ {0}, NEW last \in Nat
  PROVE  /\ From(s, first, last) \in Seq(Items)
         /\ DOMAIN From(s, first, last) =
              {n \in 1..last : first + n - 1 <= last /\ first + n - 1 <= Len(s)}
         /\ \A n \in DOMAIN From(s, first, last) : From(s, first, last)[n] = s[first + n - 1]
<1> DEFINE end == IF last < Len(s) THEN last ELSE Len(s)
           t == SubSeq(s, first, end)
<1>1. /\ Len(s) \in Nat /\ end \in Nat /\ end <= Len(s) /\ end <= last /\ first >= 1
      /\ \A n \in Int : n <= end <=> n <= last /\ n <= Len(s)
  OBVIOUS
<1>2. \A n \in first..end : s[n] \in Items
  BY <1>1
<1> HIDE DEF end
<1>3. /\ t \in Seq(Items) /\ Len(t) = IF first <= end THEN end - first + 1 ELSE 0
      /\ \A n \in 1..(end - first + 1) : t[n] = s[first + n - 1]
  BY <1>1, <1>2, SubSeqProperties
<1>4. DOMAIN t = {n \in 1..last : first + n - 1 <= end}
  <2>1. DOMAIN t = 1..Len(t)
    BY <1>3
  <2> QED BY <1>1, <1>3, <2>1
<1>5. From(s, first, last) = t
  BY DEF From, end
<1>6. \A n \in DOMAIN t : n \in 1..(end - first + 1)
  BY <1>1, <1>4
<1> HIDE DEF t
<1>7. \A n \in 1..last :
        first + n - 1 <= end <=> first + n - 1 <= last /\ first + n - 1 <= Len(s)
  BY <1>1
<1>8. DOMAIN t = {n \in 1..last : first + n - 1 <= last /\ first + n - 1 <= Len(s)}
  BY <1>4, <1>7
<1>9. \A n \in DOMAIN t : t[n] = s[first + n - 1]
  BY <1>3, <1>6
<1> QED BY <1>3, <1>5, <1>8, <1>9

\* A page is the first rows of what was fetched for it.
LEMMA FirstRows ==
  ASSUME NEW s \in Seq(Items), NEW limit \in Nat
  PROVE  /\ DOMAIN Page(s, limit) = {n \in 1..limit : n <= Len(s)}
         /\ \A n \in DOMAIN Page(s, limit) : Page(s, limit)[n] = s[n]
<1>1. PICK one \in Nat \ {0} : one = 1
  OBVIOUS
<1>2. /\ DOMAIN From(s, one, limit) =
           {n \in 1..limit : one + n - 1 <= limit /\ one + n - 1 <= Len(s)}
      /\ \A n \in DOMAIN From(s, one, limit) : From(s, one, limit)[n] = s[one + n - 1]
  BY FromIs
<1>3. Page(s, limit) = From(s, one, limit)
  BY <1>1 DEF Page
<1>4. \A n \in 1..limit : n = one + n - 1 /\ n <= limit
  BY <1>1
<1> QED BY <1>2, <1>3, <1>4

\* A page holds the rows from the offset on, and the client goes on to another
\* while there are rows behind it, with a cursor and without.
LEMMA PageIs ==
  ASSUME NEW s \in Seq(Items), NEW offset \in Nat, NEW limit \in Nat
  PROVE  LET fetched == Fetched(s, offset, limit)
             page    == Page(fetched, limit)
         IN  /\ offset + limit < Len(s) => Another(fetched, limit)
             /\ DOMAIN page = {n \in 1..limit : offset + n <= Len(s)}
             /\ \A n \in DOMAIN page : page[n] = s[offset + n]
<1> DEFINE fetched == Fetched(s, offset, limit)
           page == Page(fetched, limit)
           more == IF endpoint.cursor THEN limit + 1 ELSE limit
<1>1. Len(s) \in Nat /\ more \in Nat /\ more >= limit
      /\ (endpoint.cursor => more = limit + 1) /\ (~endpoint.cursor => more = limit)
  OBVIOUS
<1>0. PICK first \in Nat \ {0}, last \in Nat : first = offset + 1 /\ last = offset + more
  BY <1>1
<1>2. /\ fetched \in Seq(Items)
      /\ DOMAIN fetched = {n \in 1..last : first + n - 1 <= last /\ first + n - 1 <= Len(s)}
      /\ \A n \in DOMAIN fetched : fetched[n] = s[first + n - 1]
  <2>1. fetched = From(s, first, last)
    <3>1. CASE endpoint.cursor
      <4>1. last = offset + limit + 1
        BY <1>0, <1>1, <3>1
      <4> QED BY <1>0, <4>1, <3>1 DEF Fetched
    <3>2. CASE ~endpoint.cursor
      <4>1. last = offset + limit
        BY <1>0, <1>1, <3>2
      <4> QED BY <1>0, <4>1, <3>2 DEF Fetched
    <3> QED BY <3>1, <3>2
  <2>2. /\ From(s, first, last) \in Seq(Items)
        /\ DOMAIN From(s, first, last) =
             {n \in 1..last : first + n - 1 <= last /\ first + n - 1 <= Len(s)}
        /\ \A n \in DOMAIN From(s, first, last) : From(s, first, last)[n] = s[first + n - 1]
    BY FromIs
  <2> QED BY <2>1, <2>2
<1> HIDE DEF fetched, more
<1>3. /\ DOMAIN fetched = {n \in 1..more : offset + n <= Len(s)}
      /\ \A n \in DOMAIN fetched : fetched[n] = s[offset + n]
  BY <1>0, <1>1, <1>2
<1>b. fetched \in Seq(Items)
  BY <1>2
<1>4. DOMAIN fetched = 1..Len(fetched) /\ Len(fetched) \in Nat
  BY <1>b
<1>5. offset + limit < Len(s) => Another(fetched, limit)
  <2> SUFFICES ASSUME offset + limit < Len(s) PROVE Another(fetched, limit)
    OBVIOUS
  <2>1. DOMAIN fetched = 1..more
    BY <1>1, <1>3
  <2>2. Len(fetched) = more
    <3>1. 1..Len(fetched) = 1..more
      BY <1>4, <2>1
    <3>2. \A L, M \in Nat : 1..L = 1..M => L = M
      <4>1. ASSUME NEW L \in Nat, NEW M \in Nat, 1..L = 1..M PROVE L = M
        <5>1. L + 1 \notin 1..M /\ M + 1 \notin 1..L
          BY <4>1
        <5> QED BY <5>1
      <4> QED BY <4>1
    <3> QED BY <1>1, <1>4, <3>1, <3>2
  <2>3. CASE endpoint.cursor
    BY <1>1, <2>2, <2>3 DEF Another
  <2>4. CASE ~endpoint.cursor
    BY <1>1, <2>2, <2>4 DEF Another
  <2> QED BY <2>3, <2>4
<1>6. /\ DOMAIN page = {n \in 1..limit : n <= Len(fetched)}
      /\ \A n \in DOMAIN page : page[n] = fetched[n]
  BY <1>b, FirstRows
<1> HIDE DEF page
<1>7. \A n \in 1..limit : n <= Len(fetched) <=> offset + n <= Len(s)
  <2>1. ASSUME NEW n \in 1..limit PROVE n <= Len(fetched) <=> offset + n <= Len(s)
    <3>1. n \in 1..more
      BY <1>1
    <3>2. n \in DOMAIN fetched <=> offset + n <= Len(s)
      BY <1>3, <3>1
    <3> QED BY <1>4, <3>2
  <2> QED BY <2>1
<1>8. /\ DOMAIN page = {n \in 1..limit : offset + n <= Len(s)}
      /\ \A n \in DOMAIN page : page[n] = fetched[n] /\ n \in DOMAIN fetched
  BY <1>6, <1>7, <1>4
<1>9. \A n \in DOMAIN page : page[n] = s[offset + n]
  BY <1>3, <1>8
<1> QED BY <1>5, <1>8, <1>9 DEF page, fetched

\* How often a page of an order shows a row.
TimesShown(page, i) == Cardinality({n \in DOMAIN page : page[n] = i})

\* A row that shares its key with no other is on the page its place is on, once.
LEMMA ShownOnPage ==
  ASSUME NEW s \in Orders, rows \in [Items -> Row], NEW i \in Listed \ Tied(rows),
         NEW offset \in Nat, NEW limit \in Nat
  PROVE  TimesShown(Page(Fetched(s, offset, limit), limit), i) =
           IF offset <= Ahead(rows, i) /\ Ahead(rows, i) < offset + limit THEN 1 ELSE 0
<1> DEFINE page == Page(Fetched(s, offset, limit), limit)
           place == Ahead(rows, i)
           at == {n \in DOMAIN page : page[n] = i}
<1>0. s \in Seq(Items)
  BY OrderLists
<1>1. /\ DOMAIN page = {n \in 1..limit : offset + n <= Len(s)}
      /\ \A n \in DOMAIN page : page[n] = s[offset + n]
  BY <1>0, PageIs
<1>2. /\ place \in 0..(Len(s) - 1) /\ s[place + 1] = i
      /\ \A n \in 1..Len(s) : s[n] = i => n = place + 1
      /\ Len(s) \in Nat
  BY PlaceOfRow, OrderLists
<1> HIDE DEF page, place
<1>3. \A n \in DOMAIN page : page[n] = i <=> offset + n = place + 1
  BY <1>1, <1>2
<1>4. CASE offset <= place /\ place < offset + limit
  <2>1. place + 1 - offset \in DOMAIN page
    BY <1>1, <1>2, <1>4
  <2>2. at = {place + 1 - offset}
    BY <1>1, <1>2, <1>3, <2>1
  <2> QED BY <1>4, <2>2, FS_Singleton DEF TimesShown, page, place
<1>5. CASE ~ (offset <= place /\ place < offset + limit)
  <2>1. at = {}
    BY <1>1, <1>2, <1>3, <1>5
  <2> QED BY <1>5, <2>1, FS_EmptySet DEF TimesShown, page, place
<1> QED BY <1>4, <1>5

\* A page of any list shows a row a number of times.
LEMMA ShownIsNat ==
  ASSUME NEW s \in Orders, NEW offset \in Nat, NEW limit \in Nat, NEW i
  PROVE  /\ TimesShown(Page(Fetched(s, offset, limit), limit), i) \in Nat
         /\ TimesShown(<<>>, i) = 0
<1> DEFINE page == Page(Fetched(s, offset, limit), limit)
           at == {n \in DOMAIN page : page[n] = i}
<1>1. s \in Seq(Items)
  BY OrderLists
<1>2. DOMAIN page = {n \in 1..limit : offset + n <= Len(s)}
  BY <1>1, PageIs
<1>3. at \in SUBSET (1..limit)
  BY <1>2
<1>4. IsFiniteSet(1..limit)
  BY FS_Interval
<1>5. Cardinality(at) \in Nat
  BY <1>3, <1>4, FS_Subset, FS_CardinalityType
<1>6. {n \in DOMAIN <<>> : <<>>[n] = i} = {}
  OBVIOUS
<1> QED BY <1>5, <1>6, FS_EmptySet DEF TimesShown

-----------------------------------------------------------------------------
(* The invariant                                                           *)

\* The clock has ticked once for every transaction: so its times are Keys.
RowsAndTimes ==
  /\ ListingTypeOK
  /\ clock = Cardinality(Present) + 1 + started

\* While a client pages: rows that share a key are no steady ones; a steady row
\* that came no nearer is ahead of the offset as long as no answer showed it; one
\* that moved no further was shown once, and lies behind the offset then.
PagesSoFar ==
  /\ reader.pc = "start" => reader.offset = 0 /\ \A i \in Items : reader.count[i] = 0
  /\ reader.pc # "start" => Tied(rows) \subseteq touched
  /\ endpoint.items => \A i \in Steady \ fell : reader.count[i] = 0 =>
        reader.pc # "done" /\ Ahead(rows, i) >= reader.offset
  /\ \A i \in Steady \ rose :
        reader.count[i] <= 1 /\ (reader.count[i] = 1 => Ahead(rows, i) < reader.offset)

\* Steady rows that no answer showed and that no later one will, if nothing moves.
Missed ==
  {i \in Steady : reader.count[i] = 0 /\ (reader.pc = "done" \/ Ahead(rows, i) < reader.offset)}

\* Each has a departure to answer for.
MissesSoFar ==
  endpoint.items /\ reader.pc # "start" => Cardinality(Missed) <= departures

ListingInv == RowsAndTimes /\ PagesSoFar /\ MissesSoFar

\* What every list says of itself.
LEMMA EndpointIs ==
  ASSUME NEW e \in Endpoints
  PROVE  e.desc \in BOOLEAN /\ e.items \in BOOLEAN
<1>1. ASSUME NEW ops, e = Newest(ops) \/ e = [Newest(ops) EXCEPT !.cursor = FALSE]
      PROVE  e.desc = TRUE /\ e.items = TRUE
  BY <1>1 DEF Newest
<1>2. ASSUME e \in {ListCalendarData, ListProjectActivity}
      PROVE  e.desc \in BOOLEAN /\ e.items \in BOOLEAN
  <2>1. e = ListCalendarData => e.desc = FALSE /\ e.items = TRUE
    BY DEF ListCalendarData
  <2>2. e = ListProjectActivity => e.desc = TRUE /\ e.items = TRUE
    BY DEF ListProjectActivity
  <2> QED BY <1>2, <2>1, <2>2
<1>3. ASSUME NEW key \in {"changed", "created", "chosen"}, NEW desc \in BOOLEAN,
             e = ListResources(key, desc)
      PROVE  e.desc \in BOOLEAN /\ e.items \in BOOLEAN
  BY <1>3 DEF ListResources
<1>4. \/ \E ops : e = Newest(ops) \/ e = [Newest(ops) EXCEPT !.cursor = FALSE]
      \/ e \in {ListCalendarData, ListProjectActivity}
      \/ \E key \in {"changed", "created", "chosen"}, desc \in BOOLEAN :
            e = ListResources(key, desc)
  BY DEF Endpoints, ListStories, ListJourneys, ListProblems, ListIdeas, ListTasks,
         ListFeedback, ListPages, ListProjects
<1> QED BY <1>1, <1>2, <1>3, <1>4

LEMMA CardsAreNat ==
  /\ Cardinality(Items) \in Nat /\ Cardinality(Present) \in Nat
  /\ Cardinality(Present) <= Cardinality(Items) /\ MaxWrites \in Nat
BY RowsAreFinite, PresentAreItems, LimitsArePositive

LEMMA InitListing == ListingInit => ListingInv
<1> SUFFICES ASSUME ListingInit PROVE ListingInv
  OBVIOUS
<1>1. PICK key \in [Present -> 1..Cardinality(Present)] :
        rows = [i \in Items |-> IF i \in Present
                                THEN [in |-> TRUE, key |-> key[i]] ELSE [in |-> FALSE, key |-> 0]]
  BY DEF ListingInit
<1>2. 1..Cardinality(Present) \subseteq Keys
  BY CardsAreNat DEF Keys
<1>3. \A i \in Present : key[i] \in Keys
  BY <1>1, <1>2
<1>4. rows \in [Items -> Row]
  BY <1>1, <1>3 DEF Row
<1>6. reader \in Reader /\ reader.offset = 0 /\ reader.pc = "start"
      /\ \A i \in Items : reader.count[i] = 0
  BY LimitsArePositive DEF ListingInit, Reader
<1>7. /\ clock \in 1..(Cardinality(Items) + MaxWrites + 1) /\ started \in 0..MaxWrites
      /\ clock = Cardinality(Present) + 1 + started
  BY CardsAreNat DEF ListingInit
<1>8. RowsAndTimes
  BY <1>4, <1>6, <1>7 DEF RowsAndTimes, ListingTypeOK, ListingInit
<1>9. \A i \in Items : Ahead(rows, i) \in Nat
  BY AheadBound
<1>10. PagesSoFar
  BY <1>6, <1>9 DEF PagesSoFar, Steady, Listed
<1> QED BY <1>6, <1>8, <1>10 DEF ListingInv, MissesSoFar

-----------------------------------------------------------------------------
(* The writers                                                             *)

\* Two rows that share their key with none are not behind equally many.
LEMMA AheadDiffers ==
  ASSUME rows \in [Items -> Row], endpoint \in Endpoints,
         NEW i \in Listed \ Tied(rows), NEW j \in Listed \ Tied(rows), i # j
  PROVE  Ahead(rows, i) # Ahead(rows, j)
<1>1. \A k \in Items : rows[k].key \in Nat
  <2>1. \A t \in Keys \cup {0} : t \in Nat
    BY DEF Keys
  <2>2. \A r \in Row : r.key \in Nat
    BY <2>1 DEF Row
  <2> QED BY <2>2
<1>2. ASSUME NEW a \in Listed, NEW b \in Listed, Before(rows, a, b)
      PROVE  Ahead(rows, a) # Ahead(rows, b)
  <2> DEFINE A == {k \in Items : rows[k].in /\ Before(rows, k, a)}
             B == {k \in Items : rows[k].in /\ Before(rows, k, b)}
  <2>1. a \in Items /\ b \in Items /\ rows[a].in
    BY DEF Listed
  <2>2. a \in B /\ a \notin A
    BY <1>1, <1>2, <2>1 DEF Before
  <2>3. A \in SUBSET B
    BY <1>1, <1>2, <2>1 DEF Before
  <2>4. IsFiniteSet(B)
    <3>1. B \in SUBSET Items
      OBVIOUS
    <3> QED BY <3>1, RowsAreFinite
  <2>5. Cardinality(A) # Cardinality(B)
    BY <2>2, <2>3, <2>4, FS_Subset
  <2> QED BY <2>5 DEF Ahead
<1>3. i \in Items /\ j \in Items /\ rows[i].key # rows[j].key
  BY DEF Listed, Tied
<1>4. Before(rows, i, j) \/ Before(rows, j, i)
  BY <1>1, <1>3 DEF Before
<1> QED BY <1>2, <1>4

\* A change of one row moves another by one place at most towards the top, and
\* only when the changed row leaves its place for a later one, or the list.
LEMMA OnePlaceNearer ==
  ASSUME rows \in [Items -> Row], endpoint \in Endpoints, NEW i \in Items, NEW new \in Row,
         NEW j \in Items \ {i}, rows' = [rows EXCEPT ![i] = new]
  PROVE  /\ Ahead(rows', j) + 1 >= Ahead(rows, j)
         /\ (rows[i].in => new.in /\ ~Behind(rows[i].key, new.key))
            => Ahead(rows', j) >= Ahead(rows, j)
<1> DEFINE A == {k \in Items : rows[k].in /\ Before(rows, k, j)}
           B == {k \in Items : rows'[k].in /\ Before(rows', k, j)}
<1>1. \A k \in Items : rows[k].key \in Nat /\ rows'[k].key \in Nat
  <2>1. \A t \in Keys \cup {0} : t \in Nat
    BY DEF Keys
  <2>2. \A r \in Row : r.key \in Nat
    BY <2>1 DEF Row
  <2>3. \A k \in Items : rows[k] \in Row /\ rows'[k] \in Row
    OBVIOUS
  <2> QED BY <2>2, <2>3
<1>2. rows'[i] = new /\ \A k \in Items \ {i} : rows'[k] = rows[k]
  OBVIOUS
<1>3. A \in SUBSET Items /\ B \in SUBSET Items /\ A \ {i} \in SUBSET B
  BY <1>2 DEF Before
<1>4. IsFiniteSet(A) /\ Cardinality(A) \in Nat /\ Cardinality(B) \in Nat
      /\ Cardinality(A \ {i}) <= Cardinality(B)
  BY <1>3, RowsAreFinite
<1>5. Cardinality(A) <= Cardinality(B) + 1
  <2>1. Cardinality(A \ {i}) = IF i \in A THEN Cardinality(A) - 1 ELSE Cardinality(A)
    BY <1>4, FS_RemoveElement
  <2> QED BY <1>4, <2>1
<1>6. ASSUME rows[i].in => new.in /\ ~Behind(rows[i].key, new.key)
      PROVE  Cardinality(A) <= Cardinality(B)
  <2>1. ASSUME i \in A PROVE i \in B
    <3>1. rows[i].in /\ Before(rows, i, j) /\ rows'[j] = rows[j] /\ rows'[i].in
      BY <1>2, <1>6, <2>1
    <3>2. ~Behind(rows[i].key, rows'[i].key)
      BY <1>2, <1>6, <3>1
    <3>3. Before(rows', i, j)
      BY <1>1, <3>1, <3>2 DEF Before, Behind
    <3> QED BY <3>1, <3>3
  <2>2. A \in SUBSET B
    BY <1>3, <2>1
  <2> QED BY <1>3, <2>2, RowsAreFinite
<1> QED BY <1>4, <1>5, <1>6 DEF Ahead

\* A committed row changes the history as Put says; everything the invariant
\* says of the other rows follows from it.
LEMMA PutKeeps ==
  ASSUME ListingInv, NEW i \in Items, NEW new \in Row, Put(i, new),
         UNCHANGED <<endpoint, reader, clock, started>>, ws' \in [Writers -> Keys \cup {0}]
  PROVE  ListingInv'
<1> DEFINE others == {j \in Listed : j # i}
           departs == rows[i].in /\ (new.in => Behind(rows[i].key, new.key))
<1>1. /\ rows \in [Items -> Row] /\ rows' = [rows EXCEPT ![i] = new]
      /\ endpoint \in Endpoints /\ departures \in Nat
      /\ touched' = touched \cup {i} \cup Tied(rows')
      /\ fell' = fell \cup {j \in others : Ahead(rows', j) < Ahead(rows, j)}
      /\ rose' = rose \cup {j \in others : Ahead(rows', j) > Ahead(rows, j)}
      /\ departures' = departures + IF departs THEN 1 ELSE 0
  BY DEF Put, ListingInv, RowsAndTimes, ListingTypeOK
<1>2. /\ rows' \in [Items -> Row] /\ rows'[i] = new
      /\ \A j \in Items \ {i} : rows'[j] = rows[j]
  BY <1>1
<1> HIDE DEF departs
<1>3. Tied(rows') \subseteq Items /\ others \subseteq Items
      /\ departures' \in Nat /\ departures' >= departures
      /\ (departs => departures' = departures + 1)
  BY <1>1 DEF Tied, Listed
<1>4. RowsAndTimes'
  BY <1>1, <1>2, <1>3 DEF ListingInv, RowsAndTimes, ListingTypeOK
<1>5. \A j : Ahead(rows, j)' = Ahead(rows', j)
  BY DEF Ahead, Before
<1>6. \A j \in Items : Ahead(rows', j) \in Nat /\ Ahead(rows, j) \in Nat
  <2>1. ASSUME NEW rs, NEW j \in Items PROVE Ahead(rs, j) \in Nat
    BY AheadBound
  <2> QED BY <2>1
<1>7. Steady' \subseteq Steady \cap others
  BY <1>1, <1>2 DEF Steady, Listed
<1>8. /\ \A j \in Steady' \ fell' : j \in Steady \ fell /\ Ahead(rows', j) >= Ahead(rows, j)
      /\ \A j \in Steady' \ rose' : j \in Steady \ rose /\ Ahead(rows', j) <= Ahead(rows, j)
  <2>1. ASSUME NEW j \in Steady', j \notin fell'
        PROVE  j \in Steady \ fell /\ Ahead(rows', j) >= Ahead(rows, j)
    <3>1. j \in Steady /\ j \in others /\ j \in Items /\ j \notin fell
      BY <1>1, <1>3, <1>7, <2>1
    <3>2. ~ (Ahead(rows', j) < Ahead(rows, j))
      BY <1>1, <2>1, <3>1
    <3> QED BY <1>6, <3>1, <3>2
  <2>2. ASSUME NEW j \in Steady', j \notin rose'
        PROVE  j \in Steady \ rose /\ Ahead(rows', j) <= Ahead(rows, j)
    <3>1. j \in Steady /\ j \in others /\ j \in Items /\ j \notin rose
      BY <1>1, <1>3, <1>7, <2>2
    <3>2. ~ (Ahead(rows', j) > Ahead(rows, j))
      BY <1>1, <2>2, <3>1
    <3> QED BY <1>6, <3>1, <3>2
  <2> QED BY <2>1, <2>2
<1>9. PagesSoFar'
  <2>1. \A j \in Items : reader.offset \in Nat /\ reader.count[j] \in Nat
    BY DEF ListingInv, RowsAndTimes, ListingTypeOK, Reader
  <2>2. Steady' \subseteq Items
    BY <1>3, <1>7
  <2>3. \A j \in Steady' \ rose' :
          reader.count[j] <= 1 /\ (reader.count[j] = 1 => Ahead(rows', j) < reader.offset)
    BY <1>6, <1>8, <2>1, <2>2 DEF ListingInv, PagesSoFar
  <2>4. endpoint.items => \A j \in Steady' \ fell' : reader.count[j] = 0 =>
          reader.pc # "done" /\ Ahead(rows', j) >= reader.offset
    BY <1>6, <1>8, <2>1, <2>2 DEF ListingInv, PagesSoFar
  <2>5. Tied(rows)' \subseteq touched'
    BY <1>1 DEF Tied
  <2> QED BY <1>5, <2>3, <2>4, <2>5 DEF ListingInv, PagesSoFar
<1>10. MissesSoFar'
  <2> SUFFICES ASSUME endpoint.items, reader.pc # "start"
               PROVE  Cardinality(Missed') <= departures'
    BY DEF MissesSoFar
  <2>1. /\ Missed \in SUBSET Items /\ Missed' \in SUBSET Items /\ IsFiniteSet(Missed)
        /\ Cardinality(Missed) \in Nat /\ Cardinality(Missed) <= departures
    <3>1. Missed \in SUBSET Items
      BY DEF Missed, Steady, Listed
    <3>2. Missed' \in SUBSET Items
      BY <1>3, <1>7 DEF Missed
    <3> QED BY <3>1, <3>2, RowsAreFinite DEF ListingInv, MissesSoFar
  <2>2. ASSUME Missed' \subseteq Missed PROVE Cardinality(Missed') <= departures'
    <3>1. Cardinality(Missed') <= Cardinality(Missed) /\ Cardinality(Missed') \in Nat
      BY <2>1, <2>2, RowsAreFinite
    <3> QED BY <1>1, <1>3, <2>1, <3>1
  <2>3. \A j \in Steady' : j \in Steady /\ j \in Items \ {i} /\ j \in Listed \ Tied(rows)
    BY <1>3, <1>7 DEF ListingInv, PagesSoFar, Steady, Listed
  <2>4. \A j \in Missed' : j \in Steady' /\ reader.count[j] = 0
                           /\ (reader.pc = "done" \/ Ahead(rows', j) < reader.offset)
    BY <1>5 DEF Missed
  <2>5. reader.offset \in Nat
    BY DEF ListingInv, RowsAndTimes, ListingTypeOK, Reader
  <2>6. CASE reader.pc = "done"
    BY <2>2, <2>3, <2>4, <2>6 DEF Missed
  <2>7. CASE reader.pc # "done" /\ ~departs
    <3>1. \A j \in Items \ {i} : Ahead(rows', j) >= Ahead(rows, j)
      BY <1>1, <2>7, OnePlaceNearer DEF departs
    <3>2. \A j \in Missed' : Ahead(rows, j) < reader.offset
      BY <1>6, <2>3, <2>4, <2>5, <2>7, <3>1
    <3>3. Missed' \subseteq Missed
      BY <2>3, <2>4, <3>2 DEF Missed
    <3> QED BY <2>2, <3>3
  <2>8. CASE reader.pc # "done" /\ departs
    <3> DEFINE atOffset == {j \in Steady' : Ahead(rows, j) = reader.offset}
    <3>1. \A j \in Items \ {i} : Ahead(rows', j) + 1 >= Ahead(rows, j)
      BY <1>1, OnePlaceNearer
    <3>2. \A j \in Missed' : Ahead(rows, j) < reader.offset \/ Ahead(rows, j) = reader.offset
      BY <1>6, <2>3, <2>4, <2>5, <2>8, <3>1
    <3>3. Missed' \subseteq Missed \cup atOffset
      BY <2>3, <2>4, <3>2 DEF Missed
    <3>4. \A j, k \in atOffset : j = k
      BY <1>1, <2>3, AheadDiffers
    <3> HIDE DEF atOffset
    <3>5. CASE atOffset = {}
      BY <2>2, <3>3, <3>5
    <3>6. CASE atOffset # {}
      <4>1. PICK j \in atOffset : TRUE
        BY <3>6
      <4>2. Missed' \in SUBSET (Missed \cup {j})
        BY <3>3, <3>4
      <4>3. IsFiniteSet(Missed \cup {j})
            /\ Cardinality(Missed \cup {j}) <= Cardinality(Missed) + 1
            /\ Cardinality(Missed \cup {j}) \in Nat
        <5>1. /\ IsFiniteSet(Missed \cup {j})
              /\ Cardinality(Missed \cup {j}) =
                   IF j \in Missed THEN Cardinality(Missed) ELSE Cardinality(Missed) + 1
          <6> HIDE DEF Missed
          <6> QED BY <2>1, FS_AddElement
        <5> QED BY <2>1, <5>1
      <4>4. Cardinality(Missed') <= Cardinality(Missed \cup {j}) /\ Cardinality(Missed') \in Nat
        BY <4>2, <4>3, FS_Subset, FS_CardinalityType
      <4> QED BY <1>1, <1>3, <2>1, <2>8, <4>3, <4>4
    <3> QED BY <3>5, <3>6
  <2> QED BY <2>6, <2>7, <2>8
<1> QED BY <1>4, <1>9, <1>10 DEF ListingInv

\* A transaction starts.
LEMMA BeginKeeps ==
  ASSUME ListingInv, NEW w \in Writers, Begin(w)
  PROVE  ListingInv'
<1>1. /\ started \in 0..MaxWrites /\ started < MaxWrites /\ started' = started + 1
      /\ clock' = clock + 1 /\ clock = Cardinality(Present) + 1 + started
  BY DEF Begin, ListingInv, RowsAndTimes, ListingTypeOK
<1>2. /\ clock \in Keys /\ started' \in 0..MaxWrites
      /\ clock' \in 1..(Cardinality(Items) + MaxWrites + 1)
      /\ clock' = Cardinality(Present) + 1 + started'
  BY <1>1, CardsAreNat DEF Keys
<1>3. ws' \in [Writers -> Keys \cup {0}]
  BY <1>2 DEF Begin, ListingInv, RowsAndTimes, ListingTypeOK
<1>4. RowsAndTimes'
  BY <1>2, <1>3 DEF Begin, ListingInv, RowsAndTimes, ListingTypeOK
<1>5. PagesSoFar' /\ MissesSoFar'
  BY DEF Begin, ListingInv, PagesSoFar, MissesSoFar, Missed, Steady, Listed, Tied, Ahead, Before
<1> QED BY <1>4, <1>5 DEF ListingInv

\* Whatever a transaction commits is a row.
LEMMA CommitKeeps ==
  ASSUME ListingInv, NEW w \in Writers, Commit(w)
  PROVE  ListingInv'
<1>1. /\ rows \in [Items -> Row] /\ ws[w] \in Keys /\ 0 \notin Keys
      /\ UNCHANGED <<endpoint, reader, clock, started>>
      /\ ws' \in [Writers -> Keys \cup {0}] /\ endpoint \in Endpoints
      /\ ws[w] \in Nat /\ \A t \in 1..ws[w] : t \in Keys
  <2>1. 0 \notin Keys
    BY CardsAreNat DEF Keys
  <2>2. \A now \in Keys : now \in Nat /\ \A t \in 1..now : t \in Keys
    BY CardsAreNat DEF Keys
  <2>3. ws[w] \in Keys
    BY <2>1 DEF Commit, ListingInv, RowsAndTimes, ListingTypeOK
  <2> QED BY <2>1, <2>2, <2>3 DEF Commit, ListingInv, RowsAndTimes, ListingTypeOK
<1>2. PICK i \in Items : Enter(i, ws[w]) \/ Touch(i, ws[w]) \/ MoveTo(i) \/ Leave(i)
  BY DEF Commit
<1>3. rows[i] \in Row
  BY <1>1
<1>5. CASE Enter(i, ws[w])
  <2>1. PICK key \in KeysAt(ws[w]) : Put(i, [in |-> TRUE, key |-> key])
    BY <1>5 DEF Enter
  <2>2. key \in Keys
    BY <1>1, <2>1 DEF KeysAt
  <2> DEFINE new == [in |-> TRUE, key |-> key]
  <2>3. new \in Row
    BY <2>2 DEF Row
  <2>4. Put(i, new)
    BY <2>1
  <2> HIDE DEF new
  <2> QED BY <1>1, <2>3, <2>4, PutKeeps
<1>6. CASE Touch(i, ws[w])
  <2> DEFINE new == IF endpoint.key = "changed" THEN [rows[i] EXCEPT !.key = ws[w]] ELSE rows[i]
  <2>1. Put(i, new)
    BY <1>6 DEF Touch
  <2>2. new \in Row
    BY <1>1, <1>3 DEF Row
  <2> HIDE DEF new
  <2> QED BY <1>1, <2>1, <2>2, PutKeeps
<1>7. CASE MoveTo(i)
  <2>1. PICK key \in Keys : Put(i, [rows[i] EXCEPT !.key = key])
    BY <1>7 DEF MoveTo
  <2> DEFINE new == [rows[i] EXCEPT !.key = key]
  <2>2. new \in Row
    BY <1>3 DEF Row
  <2>3. Put(i, new)
    BY <1>7, <2>1 DEF MoveTo
  <2> HIDE DEF new
  <2> QED BY <1>1, <2>2, <2>3, PutKeeps
<1>8. CASE Leave(i)
  <2> DEFINE new == [rows[i] EXCEPT !.in = FALSE]
  <2>1. Put(i, new)
    BY <1>8 DEF Leave
  <2>2. new \in Row
    BY <1>3 DEF Row
  <2> HIDE DEF new
  <2> QED BY <1>1, <2>1, <2>2, PutKeeps
<1> QED BY <1>2, <1>5, <1>6, <1>7, <1>8

LEMMA RollbackTxKeeps ==
  ASSUME ListingInv, NEW w \in Writers, RollbackTx(w)
  PROVE  ListingInv'
<1>1. RowsAndTimes'
  BY DEF RollbackTx, ListingInv, RowsAndTimes, ListingTypeOK
<1>2. PagesSoFar' /\ MissesSoFar'
  BY DEF RollbackTx, ListingInv, PagesSoFar, MissesSoFar, Missed, Steady, Listed, Tied, Ahead, Before
<1> QED BY <1>1, <1>2 DEF ListingInv

-----------------------------------------------------------------------------
(* The client                                                              *)

\* A page is read: of a row that shares its key with no other, Ahead tells
\* whether the page shows it.
LEMMA FetchKeeps ==
  ASSUME ListingInv, FetchPage
  PROVE  ListingInv'
<1>1. PICK order \in Orders,
           limit \in IF reader.pc = "paging" THEN {reader.limit}
                     ELSE {Limit(wanted) : wanted \in 0..(MaxLimit + 1)} :
        LET fetched == Fetched(order, reader.offset, limit)
            answer  == Answer(Page(fetched, limit))
        IN  reader' = [pc     |-> IF Another(fetched, limit) THEN "paging" ELSE "done",
                       offset |-> Cursor(reader.offset, limit),
                       limit  |-> limit,
                       count  |-> [i \in Items |->
                          reader.count[i] + Cardinality({n \in DOMAIN answer : answer[n] = i})]]
  BY DEF FetchPage, ReadPage
<1> DEFINE offset == reader.offset
           fetched == Fetched(order, offset, limit)
           page == Page(fetched, limit)
           shown == [i \in Items |-> TimesShown(Answer(page), i)]
<1>2. /\ reader \in Reader /\ offset \in Nat /\ rows \in [Items -> Row]
      /\ endpoint \in Endpoints /\ endpoint.items \in BOOLEAN
      /\ reader.count \in [Items -> Nat] /\ reader.limit \in 0..MaxLimit
  BY EndpointIs DEF ListingInv, RowsAndTimes, ListingTypeOK, Reader
<1>3. limit \in 0..MaxLimit /\ limit \in Nat
  <2>1. \A wanted \in 0..(MaxLimit + 1) : Limit(wanted) \in 0..MaxLimit
    BY LimitsArePositive DEF Limit
  <2>2. limit \in 0..MaxLimit
    BY <1>2, <2>1
  <2> QED BY <2>2, LimitsArePositive
<1>4. ASSUME NEW i \in Items
      PROVE  /\ shown[i] \in Nat
             /\ i \in Listed \ Tied(rows) => shown[i] =
                  IF endpoint.items /\ offset <= Ahead(rows, i) /\ Ahead(rows, i) < offset + limit
                  THEN 1 ELSE 0
  <2>1. TimesShown(page, i) \in Nat /\ TimesShown(<<>>, i) = 0
    BY <1>2, <1>3, ShownIsNat
  <2>2. i \in Listed \ Tied(rows) => TimesShown(page, i) =
          IF offset <= Ahead(rows, i) /\ Ahead(rows, i) < offset + limit THEN 1 ELSE 0
    BY <1>2, <1>3, ShownOnPage
  <2> QED BY <2>1, <2>2 DEF Answer
<1>5. offset + limit < Cardinality(Listed) => Another(fetched, limit)
  <2>1. order \in Seq(Items) /\ Len(order) = Cardinality(Listed)
    BY OrderLists
  <2> QED BY <1>2, <1>3, <2>1, PageIs
<1>6. reader' = [pc     |-> IF Another(fetched, limit) THEN "paging" ELSE "done",
                 offset |-> offset + limit,
                 limit  |-> limit,
                 count  |-> [i \in Items |-> reader.count[i] + shown[i]]]
  BY <1>1 DEF Cursor, TimesShown
<1> HIDE DEF shown, fetched, page
<1>7. /\ reader'.pc \in {"paging", "done"}
      /\ offset + limit < Cardinality(Listed) => reader'.pc = "paging"
      /\ reader'.offset = offset + limit /\ reader'.limit = limit
      /\ reader'.count = [i \in Items |-> reader.count[i] + shown[i]]
  BY <1>5, <1>6
<1>8. /\ reader'.count \in [Items -> Nat] /\ reader' \in Reader
      /\ \A i \in Items : reader'.count[i] = reader.count[i] + shown[i]
  <2>1. \A i \in Items : reader.count[i] + shown[i] \in Nat
    BY <1>2, <1>4
  <2>2. reader'.count \in [Items -> Nat]
    BY <1>7, <2>1
  <2>3. reader' \in Reader
    BY <1>2, <1>3, <1>6, <2>1 DEF Reader
  <2> QED BY <1>7, <2>2, <2>3
<1>9. /\ UNCHANGED <<endpoint, rows, clock, ws, started>>
      /\ IF reader.pc = "start"
         THEN touched' = Tied(rows) /\ fell' = {} /\ rose' = {} /\ departures' = 0
         ELSE UNCHANGED <<touched, fell, rose, departures>>
      /\ reader.pc # "done" /\ reader'.pc # "start"
  BY <1>7 DEF FetchPage, ReadPage
<1>10. RowsAndTimes'
  <2>1. Tied(rows) \subseteq Items
    BY DEF Tied
  <2> QED BY <1>8, <1>9, <2>1 DEF ListingInv, RowsAndTimes, ListingTypeOK
<1>11. /\ Tied(rows) \subseteq touched' /\ Steady' = Listed \ touched'
       /\ \A i \in Items : Ahead(rows, i)' = Ahead(rows, i)
       /\ Tied(rows)' = Tied(rows)
  BY <1>9 DEF ListingInv, PagesSoFar, Steady, Listed, Ahead, Before, Tied
<1>12. ASSUME NEW i \in Steady'
       PROVE  /\ i \in Items /\ i \in Listed \ Tied(rows)
              /\ Ahead(rows, i) \in Nat /\ Ahead(rows, i) < Cardinality(Listed)
              /\ Cardinality(Listed) \in Nat
  <2>1. i \in Items /\ i \in Listed \ Tied(rows)
    BY <1>11, <1>12 DEF Listed
  <2>2. PICK order2 \in Orders : order2 = order
    BY <1>1
  <2>3. Ahead(rows, i) \in 0..(Cardinality(Listed) - 1) /\ Cardinality(Listed) \in Nat
    BY <1>2, <2>1, <2>2, PlaceOfRow, OrderLists, RowsAreFinite DEF Listed
  <2> QED BY <2>1, <2>3
<1>13. ASSUME NEW i \in Steady'
       PROVE  reader.count[i] \in Nat /\ shown[i] \in Nat /\ reader'.count[i] \in Nat
  BY <1>2, <1>4, <1>8, <1>12
<1>14. ASSUME NEW i \in Steady' \ fell', endpoint.items, reader'.count[i] = 0
       PROVE  reader'.pc # "done" /\ Ahead(rows, i) >= reader'.offset
  <2>1. reader.count[i] = 0 /\ shown[i] = 0
    BY <1>8, <1>12, <1>13, <1>14
  <2>2. Ahead(rows, i) >= offset
    <3>1. CASE reader.pc = "start"
      BY <1>12, <3>1 DEF ListingInv, PagesSoFar
    <3>2. CASE reader.pc # "start"
      <4>1. i \in Steady \ fell
        BY <1>9, <1>11, <3>2 DEF Steady
      <4> QED BY <1>14, <2>1, <4>1 DEF ListingInv, PagesSoFar
    <3> QED BY <3>1, <3>2
  <2>3. Ahead(rows, i) >= offset + limit
    BY <1>2, <1>3, <1>4, <1>12, <1>14, <2>1, <2>2
  <2> QED BY <1>2, <1>3, <1>7, <1>12, <2>3
<1>15. ASSUME NEW i \in Steady' \ rose'
       PROVE  /\ reader'.count[i] <= 1
              /\ reader'.count[i] = 1 => Ahead(rows, i) < reader'.offset
  <2>1. reader.count[i] <= 1 /\ (reader.count[i] = 1 => Ahead(rows, i) < offset)
    <3>1. CASE reader.pc = "start"
      BY <1>12, <3>1 DEF ListingInv, PagesSoFar
    <3>2. CASE reader.pc # "start"
      <4>1. i \in Steady \ rose
        BY <1>9, <1>11, <3>2 DEF Steady
      <4> QED BY <4>1 DEF ListingInv, PagesSoFar
    <3> QED BY <3>1, <3>2
  <2>2. shown[i] = IF endpoint.items /\ offset <= Ahead(rows, i) /\ Ahead(rows, i) < offset + limit
                   THEN 1 ELSE 0
    BY <1>4, <1>12
  <2> QED BY <1>2, <1>3, <1>7, <1>8, <1>12, <1>13, <2>1, <2>2
<1>16. PagesSoFar'
  <2>1. \A i \in Steady' : i \in Items
    BY <1>12
  <2> QED BY <1>9, <1>11, <1>14, <1>15, <2>1 DEF PagesSoFar
<1>17. MissesSoFar'
  <2> SUFFICES ASSUME endpoint.items PROVE Cardinality(Missed') <= departures'
    BY <1>9 DEF MissesSoFar
  <2>1. ASSUME NEW i \in Missed'
        PROVE  /\ i \in Steady' /\ reader.count[i] = 0 /\ Ahead(rows, i) < offset
    <3>1. i \in Steady' /\ reader'.count[i] = 0
          /\ (reader'.pc = "done" \/ Ahead(rows, i) < offset + limit)
      <4>1. Missed' \subseteq Steady'
        BY DEF Missed
      <4>2. i \in Items
        BY <1>12, <4>1
      <4> QED BY <1>7, <1>11, <4>1, <4>2 DEF Missed
    <3>2. reader.count[i] = 0 /\ shown[i] = 0
      BY <1>8, <1>12, <1>13, <3>1
    <3>3. Ahead(rows, i) < offset + limit
      BY <1>2, <1>3, <1>7, <1>12, <3>1
    <3> QED BY <1>2, <1>3, <1>4, <1>12, <3>1, <3>2, <3>3
  <2>2. CASE reader.pc = "start"
    <3>1. Missed' = {}
      BY <1>12, <2>1, <2>2 DEF ListingInv, PagesSoFar
    <3> QED BY <1>9, <2>2, <3>1, FS_EmptySet
  <2>3. CASE reader.pc # "start"
    <3>1. Missed' \subseteq Missed
      BY <1>9, <1>11, <2>1, <2>3 DEF Missed, Steady
    <3>2. Missed \in SUBSET Items
      BY DEF Missed, Steady, Listed
    <3>3. Cardinality(Missed') <= Cardinality(Missed) /\ Cardinality(Missed') \in Nat
          /\ Cardinality(Missed) \in Nat
      BY <3>1, <3>2, RowsAreFinite
    <3>4. Cardinality(Missed) <= departures /\ departures' = departures /\ departures \in Nat
      BY <1>9, <2>3 DEF ListingInv, MissesSoFar, RowsAndTimes, ListingTypeOK
    <3> QED BY <3>3, <3>4
  <2> QED BY <2>2, <2>3
<1> QED BY <1>10, <1>16, <1>17 DEF ListingInv

-----------------------------------------------------------------------------
\* Every step keeps the invariant, one that changes nothing too.
LEMMA NextListing ==
  ASSUME ListingInv, [ListingNext]_listingVars
  PROVE  ListingInv'
<1>1. CASE FetchPage
  BY <1>1, FetchKeeps
<1>2. CASE \E w \in Writers : Begin(w) \/ Commit(w) \/ RollbackTx(w)
  BY <1>2, BeginKeeps, CommitKeeps, RollbackTxKeeps
<1>3. CASE UNCHANGED listingVars
  <2>1. UNCHANGED <<endpoint, rows, clock, ws, started, reader, touched, fell, rose, departures>>
    BY <1>3 DEF listingVars
  <2>2. RowsAndTimes'
    BY <2>1 DEF ListingInv, RowsAndTimes, ListingTypeOK
  <2>3. PagesSoFar' /\ MissesSoFar'
    BY <2>1 DEF ListingInv, PagesSoFar, MissesSoFar, Missed, Steady, Listed, Tied, Ahead, Before
  <2> QED BY <2>2, <2>3 DEF ListingInv
<1> QED BY <1>1, <1>2, <1>3 DEF ListingNext, ListingDone

\* pagination.go and the lists of every module: for any number of rows, writers
\* and transactions, and any limits.
THEOREM ListingInvariant == ListingSpec => []ListingInv
BY InitListing, NextListing, PTL DEF ListingSpec

\* A row that stays where it is relative to the pages is on exactly one.
THEOREM PagesAreRight == ListingSpec => []PagesRight
<1>1. ListingInv => PagesRight
  <2> SUFFICES ASSUME ListingInv PROVE PagesRight
    OBVIOUS
  <2>1. \A i \in Items : reader.count[i] \in Nat
    BY DEF ListingInv, RowsAndTimes, ListingTypeOK, Reader
  <2>2. \A i \in Steady : i \in Items
    BY DEF Steady, Listed
  <2>3. SteadyRowsSeen
    BY <2>1, <2>2 DEF ListingInv, PagesSoFar, SteadyRowsSeen
  <2> QED BY <2>3 DEF ListingInv, RowsAndTimes, PagesSoFar, SteadyRowsOnce, PagesRight
<1> QED BY <1>1, ListingInvariant, PTL

\* A client that pages through a list by OFFSET misses no more steady rows than
\* listed rows left their place for a later one, or the list: creations and edits
\* that bring rows to the top hide none.
THEOREM MissesAreCounted == ListingSpec => []OneMissPerDeparture
<1>1. ListingInv => OneMissPerDeparture
  <2> SUFFICES ASSUME ListingInv, reader.pc = "done", endpoint.items
               PROVE  Cardinality({i \in Steady : reader.count[i] = 0}) <= departures
    BY DEF OneMissPerDeparture
  <2>1. Missed = {i \in Steady : reader.count[i] = 0}
    BY DEF Missed
  <2> QED BY <2>1 DEF ListingInv, MissesSoFar
<1> QED BY <1>1, ListingInvariant, PTL
=============================================================================
