------------------------------- MODULE Listing -------------------------------
(***************************************************************************)
(* The lists of the API, read page by page while others write: a cursor is *)
(* an offset (core/pagination), every page is a SELECT of its own, which   *)
(* asks for one row more than the page holds to know of another, and most  *)
(* lists are sorted by the time of the last change, newest first.          *)
(*                                                                         *)
(* That time is NOW(), the start of the transaction that changed the row:  *)
(* transactions that overlap may stamp a row with an older time than it    *)
(* had.  Pages kept by the response cache are pages read earlier.          *)
(***************************************************************************)
EXTENDS Naturals, FiniteSets, SequencesExt

CONSTANTS Items,         \* rows of one list, those that exist later included: numbers
          Present,       \* those there at the start
          Writers,       \* concurrent transactions
          MaxWrites,     \* bound: transactions ever started
          DefaultLimit,  \* limit of a page when none, or zero, is asked
          MaxLimit       \* the largest limit granted

ASSUME PresentAreItems == Present \subseteq Items /\ Items \subseteq Nat /\ IsFiniteSet(Items)
ASSUME LimitsArePositive == /\ MaxLimit \in Nat \ {0} /\ MaxWrites \in Nat
                            /\ DefaultLimit \in 1..MaxLimit

VARIABLES
    endpoint,  \* the list that is read
    rows,      \* its rows
    clock,     \* NOW() of the next transaction
    ws,        \* start of the transaction of each writer, 0 without one
    started,   \* transactions started
    reader,    \* the client that pages through the list
    touched,   \* history: rows changed, or sharing their key, since the first page
    fell,      \* history: rows that came nearer to the top since then
    rose,      \* history: rows that came further from it
    departures \* history: how often a row left its place for a later one, or the list

listingVars == <<endpoint, rows, clock, ws, started, reader, touched, fell, rose, departures>>

-----------------------------------------------------------------------------
(* The lists                                                               *)

\* key: what a row is sorted by: the time of its last change ("changed"), of
\* its creation ("created"), or something a client chose ("chosen"); desc: the
\* greatest first; ops: what happens to rows; items: the answer carries them;
\* cursor: and a cursor.
Newest(ops) == [key |-> "changed", desc |-> TRUE, ops |-> ops, items |-> TRUE, cursor |-> TRUE]

\* Artifacts, all or those of one status (of feedback, one outcome): they are
\* never deleted, but an edit of the status takes a row out of the list or
\* brings it in.
ListStories  == Newest({"enter", "touch", "leave"})
ListJourneys == Newest({"enter", "touch", "leave"})
ListProblems == Newest({"enter", "touch", "leave"})
ListIdeas    == Newest({"enter", "touch", "leave"})
ListTasks    == Newest({"enter", "touch", "leave"})
ListFeedback == Newest({"enter", "touch", "leave"})

\* Pages of one status: a page of another status is not in the list.
ListPages == Newest({"enter", "touch", "leave"})

\* Projects of a user, who may join one that was changed earlier; a deleted one
\* leaves.  The client gives the offset itself.
ListProjects == [Newest({"enter", "join", "touch", "leave"}) EXCEPT !.cursor = FALSE]

\* Resources sorted as asked.  The rows reach the answer's decoder as a type
\* it does not take for a list (toSlice): items is always empty.
ListResources(key, desc) ==
    [key |-> key, desc |-> desc, ops |-> {"enter", "join", "touch", "leave"}, items |-> FALSE, cursor |-> TRUE]

\* Manual events, deadlines of tasks and feedback, by the day they start.
ListCalendarData ==
    [key |-> "chosen", desc |-> FALSE, ops |-> {"enter", "move", "leave"}, items |-> TRUE, cursor |-> TRUE]

\* The log is only appended to.
ListProjectActivity ==
    [key |-> "created", desc |-> TRUE, ops |-> {"enter"}, items |-> TRUE, cursor |-> TRUE]

Endpoints ==
    {ListStories, ListJourneys, ListProblems, ListIdeas, ListTasks, ListFeedback,
     ListPages, ListProjects, ListCalendarData, ListProjectActivity}
    \cup {ListResources(key, desc) : key \in {"changed", "created", "chosen"}, desc \in BOOLEAN}

-----------------------------------------------------------------------------
(* Sorting and paging                                                      *)

Keys == 1..(Cardinality(Items) + MaxWrites)
Row == [in : BOOLEAN, key : Keys \cup {0}]

Listed == {i \in Items : rows[i].in}

\* mutant: the oldest first
BeforeAscending(rs, i, j) == rs[i].key < rs[j].key

\* ORDER BY key, DESC or ASC.
Before(rs, i, j) == IF endpoint.desc THEN rs[i].key > rs[j].key ELSE rs[i].key < rs[j].key

\* A row with key b stands behind one with key a.
Behind(a, b) == IF endpoint.desc THEN b < a ELSE a < b

\* Rows that share their key with another.
Tied(rs) == {i \in Items : rs[i].in /\ \E j \in Items \ {i} : rs[j].in /\ rs[j].key = rs[i].key}

\* ORDER BY says nothing of rows with the same key: any order will do.
Sorted(s) == \A m, n \in 1..Len(s) : Before(rows, s[m], s[n]) => m < n
Orders == {s \in SetToSeqs(Listed) : Sorted(s)}

\* normalizeLimit, parseLimit
Limit(asked) == IF asked = 0 THEN DefaultLimit ELSE IF asked > MaxLimit THEN MaxLimit ELSE asked

From(s, first, last) == SubSeq(s, first, IF last < Len(s) THEN last ELSE Len(s))

\* OFFSET and LIMIT limit + 1, or LIMIT limit where no cursor is made of it
Fetched(order, offset, limit) ==
    From(order, offset + 1, IF endpoint.cursor THEN offset + limit + 1 ELSE offset + limit)

\* The answer has a cursor; without one the client goes on after a full page.
Another(fetched, limit) == IF endpoint.cursor THEN Len(fetched) > limit ELSE Len(fetched) = limit

\* The rows of a page; none when the decoder loses them.
Page(fetched, limit) == From(fetched, 1, limit)

Answer(page) == IF endpoint.items THEN page ELSE <<>>

\* mutant: the cursor skips the row that told of a next page
CursorPastFetched(offset, limit) == offset + limit + 1

\* EncodeOffsetCursor of the next offset, which DecodeOffsetCursor gives back.
Cursor(offset, limit) == offset + limit

-----------------------------------------------------------------------------
(* The client                                                              *)

\* count: how often an answer showed the row.
Reader == [pc : {"start", "paging", "done"}, offset : Nat, limit : 0..MaxLimit,
           count : [Items -> Nat]]

\* One page: the first, with a limit of the client's choice, or the one after it,
\* which the last answer's cursor stands for.  History begins with the first.
ReadPage ==
    /\ \E order \in Orders,
          limit \in IF reader.pc = "paging" THEN {reader.limit}
                    ELSE {Limit(asked) : asked \in 0..(MaxLimit + 1)} :
         LET fetched == Fetched(order, reader.offset, limit)
             answer  == Answer(Page(fetched, limit))
         IN  reader' = [pc     |-> IF Another(fetched, limit) THEN "paging" ELSE "done",
                        offset |-> Cursor(reader.offset, limit),
                        limit  |-> limit,
                        count  |-> [i \in Items |->
                           reader.count[i] + Cardinality({n \in DOMAIN answer : answer[n] = i})]]
    /\ IF reader.pc = "start"
       THEN touched' = Tied(rows) /\ fell' = {} /\ rose' = {} /\ departures' = 0
       ELSE UNCHANGED <<touched, fell, rose, departures>>
    /\ UNCHANGED <<endpoint, rows, clock, ws, started>>

\* The SELECT reads what is committed and waits for nobody.
FetchPage == reader.pc # "done" /\ ReadPage

-----------------------------------------------------------------------------
(* The writers                                                             *)

\* A transaction starts: NOW() is fixed.
Begin(w) ==
    /\ ws[w] = 0 /\ started < MaxWrites /\ reader.pc # "done"
    /\ started' = started + 1
    /\ ws' = [ws EXCEPT ![w] = clock]
    /\ clock' = clock + 1
    /\ UNCHANGED <<endpoint, rows, reader, touched, fell, rose, departures>>

\* How many rows stand before row i in rs.
Ahead(rs, i) == Cardinality({j \in Items : rs[j].in /\ Before(rs, j, i)})

\* The transaction commits row i as new: what it does to the other rows.
Put(i, new) ==
    LET old == rows
        new_rows == [rows EXCEPT ![i] = new]
        others == {j \in Listed : j # i}
    IN  /\ rows' = new_rows
        /\ touched' = touched \cup {i} \cup Tied(new_rows)
        /\ fell' = fell \cup {j \in others : Ahead(new_rows, j) < Ahead(old, j)}
        /\ rose' = rose \cup {j \in others : Ahead(new_rows, j) > Ahead(old, j)}
        /\ departures' = departures + IF rows[i].in /\ (new.in => Behind(rows[i].key, new.key)) THEN 1 ELSE 0

\* The key of a row that comes in: of now, or, when it was not changed for that,
\* a time in the past.
KeysAt(now) ==
    IF endpoint.key = "chosen" THEN Keys ELSE IF "join" \in endpoint.ops THEN 1..now ELSE {now}

\* Created, or its status is now the one the list is filtered by.
Enter(i, now) ==
    /\ "enter" \in endpoint.ops /\ ~rows[i].in
    /\ \E key \in KeysAt(now) : Put(i, [in |-> TRUE, key |-> key])

\* An edit stamps the row, which moves it only on a list by time of change.
Touch(i, now) ==
    /\ "touch" \in endpoint.ops /\ rows[i].in
    /\ Put(i, IF endpoint.key = "changed" THEN [rows[i] EXCEPT !.key = now] ELSE rows[i])

\* An event or a deadline moves to another day.
MoveTo(i) ==
    /\ "move" \in endpoint.ops /\ rows[i].in
    /\ \E key \in Keys : Put(i, [rows[i] EXCEPT !.key = key])

\* Deleted, or no longer of the status the list is filtered by.
Leave(i) ==
    /\ "leave" \in endpoint.ops /\ rows[i].in
    /\ Put(i, [rows[i] EXCEPT !.in = FALSE])

Commit(w) ==
    /\ ws[w] # 0
    /\ \E i \in Items : Enter(i, ws[w]) \/ Touch(i, ws[w]) \/ MoveTo(i) \/ Leave(i)
    /\ ws' = [ws EXCEPT ![w] = 0]
    /\ UNCHANGED <<endpoint, clock, started, reader>>

RollbackTx(w) ==
    /\ ws[w] # 0
    /\ ws' = [ws EXCEPT ![w] = 0]
    /\ UNCHANGED <<endpoint, rows, clock, started, reader, touched, fell, rose, departures>>

-----------------------------------------------------------------------------
\* Times of change and creation differ; keys that clients chose may not.  Rows
\* are numbered as their keys stand.
ListingInit ==
    /\ endpoint \in Endpoints
    /\ \E key \in [Present -> 1..Cardinality(Present)] :
         /\ \A i, j \in Present :
              i < j => IF endpoint.key = "chosen" THEN key[i] <= key[j] ELSE key[i] < key[j]
         /\ rows = [i \in Items |-> IF i \in Present
                                    THEN [in |-> TRUE, key |-> key[i]] ELSE [in |-> FALSE, key |-> 0]]
    /\ clock = Cardinality(Present) + 1
    /\ ws = [w \in Writers |-> 0] /\ started = 0
    /\ reader = [pc |-> "start", offset |-> 0, limit |-> 0, count |-> [i \in Items |-> 0]]
    /\ touched = {} /\ fell = {} /\ rose = {} /\ departures = 0

\* The client has the last page and no transaction is open.
ListingDone == reader.pc = "done" /\ (\A w \in Writers : ws[w] = 0) /\ UNCHANGED listingVars

ListingNext == FetchPage \/ (\E w \in Writers : Begin(w) \/ Commit(w) \/ RollbackTx(w)) \/ ListingDone

\* The client goes on to the last page.
ListingSpec == ListingInit /\ [][ListingNext]_listingVars

-----------------------------------------------------------------------------
(* Properties                                                              *)

\* Types of the rows, the transactions and the client.
ListingTypeOK ==
    /\ endpoint \in Endpoints /\ rows \in [Items -> Row] /\ reader \in Reader
    /\ clock \in 1..(Cardinality(Items) + MaxWrites + 1) /\ started \in 0..MaxWrites
    /\ ws \in [Writers -> Keys \cup {0}]
    /\ touched \subseteq Items /\ fell \subseteq Items /\ rose \subseteq Items /\ departures \in Nat

\* Rows there from the first page on that nobody touched and that shared their
\* key with no other.
Steady == Listed \ touched

\* A steady row that no page showed came nearer to the top while the client
\* paged: some row before it left, or moved behind it.  Rows the client had not
\* seen are never skipped by the arithmetic of offset, limit and cursor.
SteadyRowsSeen ==
    reader.pc = "done" /\ endpoint.items =>
      \A i \in Steady \ fell : reader.count[i] >= 1

\* A steady row shown twice was pushed from the top while the client paged.
SteadyRowsOnce == \A i \in Steady \ rose : reader.count[i] <= 1

\* What limit, offset and cursor promise together (pagination.go): a row that
\* stays where it is relative to the pages is on exactly one of them.
PagesRight == ListingTypeOK /\ SteadyRowsSeen /\ SteadyRowsOnce

\* Every steady row that a client misses has one change of its own to answer for: a
\* listed row that left, or went to a later place, by an older time stamp too.  One
\* change hides one row at most, wherever the pages end, and new rows and edits that
\* bring rows to the top hide none (OFFSET on a list by updated_at DESC).
OneMissPerDeparture ==
    reader.pc = "done" /\ endpoint.items =>
      Cardinality({i \in Steady : reader.count[i] = 0}) <= departures
=============================================================================
