---------------------------- MODULE ProjectsProofs ----------------------------
(***************************************************************************)
(* Proofs about a project's settings, its deletion and its notifications,  *)
(* for any number of members and concurrent requests.                      *)
(***************************************************************************)
EXTENDS Projects, TLAPS

-----------------------------------------------------------------------------
(* The inductive invariant                                                 *)

Writing == {"core", "archived", "deleting"}

\* What a request has read is as old as its read; what it wrote or told keeps
\* the project.
Knows(r) ==
    /\ r.pc \in Writing \cup {"sent"} => project.life = "live"
    /\ r.pc \in Steps => project.life # "none"
    /\ r.pc \in {"settings", "core"} => {"name", "status"} \subseteq r.named
    /\ r.pc \in {"archive", "archived"} =>
          r.named = {"status", "gate"} /\ r.cur.status = "Archived"
    /\ r.pc \in Steps /\ ~r.missed /\ project.life = "live" =>
          \A f \in Fields \ r.named : r.cur[f] = kept[f] \/ f \in lost
    /\ r.pc \in {"archive", "archived"} /\ ~r.missed /\ project.life = "live" =>
          r.cur.name = kept.name
    /\ r.pc = "account" =>
          /\ r.user \in Members
          /\ r.names \/ r.missed \/ r.opt = keptInApp[r.user] \/ r.user \in lost

\* One request at a time has written the row of the project, and none is told
\* of anything while it is being deleted.
Exclusive ==
    \A g \in Handlers : \A h \in Handlers \ {g} :
        /\ hs[g].pc \in Writing => hs[h].pc \notin Writing
        /\ hs[g].pc = "deleting" => hs[h].pc # "sent"

\* projects tells what the requests named, also where the settings do not.
RowKept == project.life = "live" => project.name = kept.name /\ project.status = kept.status

ProjectsInv ==
    /\ TypeOK
    /\ RowsAgree /\ SettingsKept /\ OptOutKept /\ RowKept
    /\ Exclusive
    /\ \A h \in Handlers : Knows(hs[h])

-----------------------------------------------------------------------------
(* Records                                                                 *)

LEMMA IdleType ==
  /\ Idle \in Handler /\ Idle.pc = "idle" /\ ~Idle.missed
  /\ NoSettings \in Settings
BY BoundIsNatural DEF Idle, Handler, NoSettings, Settings, Names, Statuses, Fields, Users

LEMMA IdleKnows == Knows(Idle)
BY IdleType DEF Knows, Writing, Steps

\* What the invariant says of one request.
LEMMA OfOne ==
  ASSUME ProjectsInv, NEW h \in Handlers
  PROVE  TypeOK /\ hs[h] \in Handler /\ Knows(hs[h]) /\ hs[h].cur \in Settings
         /\ hs[h].named \in SUBSET Fields /\ hs[h].user \in Users
BY DEF ProjectsInv, TypeOK, Handler

\* A request that is asked has a number.
LEMMA AskCounts ==
  ASSUME ProjectsInv, Ask
  PROVE  asked' \in 0..MaxRequests /\ asked' \in Names /\ asked' \in Nat
BY BoundIsNatural DEF ProjectsInv, TypeOK, Ask, Names

\* A project's settings are a function of their fields.
LEMMA SettingsFields ==
  /\ \A s \in Settings : /\ s.name \in Names /\ s.status \in Statuses /\ s.gate \in BOOLEAN
                         /\ s["name"] = s.name /\ s["status"] = s.status /\ s["gate"] = s.gate
  /\ \A s : /\ s \in [Fields -> Names \cup Statuses \cup BOOLEAN]
            /\ s["name"] \in Names /\ s["status"] \in Statuses /\ s["gate"] \in BOOLEAN
            => s \in Settings
BY DEF Settings, Fields

-----------------------------------------------------------------------------
(* Steps that leave the rows alone                                         *)

LEMMA MoveKeeps ==
  ASSUME ProjectsInv, NEW h \in Handlers, NEW r \in Handler, Move(h, r),
         UNCHANGED <<project, settings, inApp, kept, keptInApp, lost>>,
         inbox' \subseteq Users \X Nat, asked' \in 0..MaxRequests,
         r.pc \in Writing => \A g \in Handlers \ {h} : hs[g].pc \notin Writing,
         r.pc = "deleting" => \A g \in Handlers \ {h} : hs[g].pc # "sent",
         r.pc = "sent" => \A g \in Handlers \ {h} : hs[g].pc # "deleting",
         Knows(r)
  PROVE  ProjectsInv'
<1>1. /\ hs' \in [Handlers -> Handler] /\ hs'[h] = r
      /\ \A g \in Handlers \ {h} : hs'[g] = hs[g]
  BY DEF Move, ProjectsInv, TypeOK
<1>2. TypeOK'
  BY <1>1 DEF ProjectsInv, TypeOK
<1>3. (RowsAgree /\ SettingsKept /\ OptOutKept /\ RowKept)'
  BY DEF ProjectsInv, RowsAgree, SettingsKept, OptOutKept, RowKept
<1>4. Exclusive'
  BY <1>1 DEF ProjectsInv, Exclusive, Writing
<1>5. \A g \in Handlers : Knows(hs[g])'
  <2>1. ASSUME NEW g \in Handlers, Knows(hs'[g]) PROVE Knows(hs[g])'
    BY <2>1 DEF Knows
  <2>2. \A g \in Handlers : Knows(hs'[g])
    BY <1>1 DEF ProjectsInv
  <2> QED BY <2>1, <2>2
<1> QED BY <1>2, <1>3, <1>4, <1>5 DEF ProjectsInv

\* A request that holds nothing and has read what is true.
LEMMA ReadKeeps ==
  ASSUME ProjectsInv, NEW h \in Handlers, NEW r \in Handler, Move(h, r),
         UNCHANGED <<project, settings, inApp, inbox, kept, keptInApp, lost>>,
         asked' \in 0..MaxRequests,
         r.pc \notin Writing, r.pc # "sent", Knows(r)
  PROVE  ProjectsInv'
<1>1. inbox' \subseteq Users \X Nat
  BY DEF ProjectsInv, TypeOK
<1>2. r.pc # "deleting"
  BY DEF Writing
<1> QED BY <1>1, <1>2, MoveKeeps

-----------------------------------------------------------------------------
(* Each request begins                                                     *)

LEMMA ReadSettingsKeeps ==
  ASSUME ProjectsInv, NEW h \in Handlers, ReadSettings(h)
  PROVE  ProjectsInv'
<1>0. TypeOK /\ asked' \in 0..MaxRequests /\ asked' \in Names /\ settings \in Settings
      /\ project.life = "live"
      /\ UNCHANGED <<project, settings, inApp, inbox, kept, keptInApp, lost>>
  BY OfOne, AskCounts DEF ReadSettings, TypeOK
<1>1. PICK name \in {settings.name, asked'}, status \in PatchStatuses, gate \in BOOLEAN,
           named \in {{"name", "status"}, Fields} :
        Move(h, [Idle EXCEPT !.pc = "settings", !.named = named,
                   !.cur = Merge(settings, [name |-> name, status |-> status,
                                            gate |-> gate], named)])
  BY DEF ReadSettings
<1> DEFINE new == [name |-> name, status |-> status, gate |-> gate]
           cur == Merge(settings, new, named)
           r == [Idle EXCEPT !.pc = "settings", !.named = named, !.cur = cur]
<1>2. new \in Settings
  BY <1>0, <1>1 DEF Settings, PatchStatuses
<1> HIDE DEF new
<1>3. \A f \in Fields : cur[f] = IF f \in named THEN new[f] ELSE settings[f]
  BY DEF Merge
<1>4. cur \in Settings
  <2>1. cur = [f \in Fields |-> cur[f]]
    BY DEF Merge
  <2>2. cur["name"] \in Names /\ cur["status"] \in Statuses /\ cur["gate"] \in BOOLEAN
    BY <1>0, <1>2, <1>3, SettingsFields DEF Fields
  <2>3. \A f \in Fields : cur[f] \in Names \cup Statuses \cup BOOLEAN
    BY <2>2 DEF Fields
  <2> HIDE DEF cur
  <2>4. cur \in [Fields -> Names \cup Statuses \cup BOOLEAN]
    BY <2>1, <2>3
  <2> QED BY <2>2, <2>4, SettingsFields
<1> HIDE DEF cur
<1>5. named \in SUBSET Fields /\ {"name", "status"} \subseteq named
  BY DEF Fields
<1>6. r \in Handler /\ r.pc = "settings" /\ r.named = named /\ r.cur = cur
  BY <1>4, <1>5, IdleType DEF Handler
<1>7. \A f \in Fields \ named : cur[f] = kept[f] \/ f \in lost
  BY <1>0, <1>3 DEF ProjectsInv, SettingsKept
<1>8. Move(h, r)
  BY <1>1 DEF cur, new
<1> HIDE DEF r
<1>9. Knows(r)
  BY <1>0, <1>5, <1>6, <1>7 DEF Knows, Writing
<1> QED BY <1>0, <1>6, <1>8, <1>9, ReadKeeps DEF Writing

LEMMA ReadIdentityKeeps ==
  ASSUME ProjectsInv, NEW h \in Handlers, ReadIdentity(h)
  PROVE  ProjectsInv'
<1>0. TypeOK /\ asked' \in 0..MaxRequests /\ project \in Project /\ project.life = "live"
      /\ UNCHANGED <<project, settings, inApp, inbox, kept, keptInApp, lost>>
  BY OfOne, AskCounts DEF ReadIdentity, TypeOK
<1> DEFINE cur == [name |-> project.name, status |-> "Archived", gate |-> TRUE]
           named == {"status", "gate"}
           r == [Idle EXCEPT !.pc = "archive", !.named = named, !.cur = cur]
<1>1. cur \in Settings /\ cur.status = "Archived" /\ cur.name = project.name
  BY <1>0 DEF Project, Settings, Statuses
<1>2. cur["name"] = project.name /\ project.name = kept.name /\ kept["name"] = kept.name
  BY <1>0, SettingsFields DEF ProjectsInv, RowKept, TypeOK
<1> HIDE DEF cur
<1>3. named \in SUBSET Fields
  BY DEF Fields
<1>4. r \in Handler /\ r.pc = "archive" /\ r.named = named /\ r.cur = cur
  BY <1>1, <1>3, IdleType DEF Handler
<1>5. Move(h, r)
  BY DEF ReadIdentity, cur
<1>6. \A f \in Fields \ named : cur[f] = kept[f]
  BY <1>2 DEF Fields
<1> HIDE DEF r
<1>7. Knows(r)
  BY <1>0, <1>1, <1>2, <1>4, <1>6 DEF Knows, Writing
<1> QED BY <1>0, <1>4, <1>5, <1>7, ReadKeeps DEF Writing

LEMMA ReadAccountKeeps ==
  ASSUME ProjectsInv, NEW h \in Handlers, ReadAccount(h)
  PROVE  ProjectsInv'
<1>0. TypeOK /\ asked' \in 0..MaxRequests /\ inApp \in [Users -> BOOLEAN]
      /\ UNCHANGED <<project, settings, inApp, inbox, kept, keptInApp, lost>>
  BY OfOne, AskCounts DEF ReadAccount, TypeOK
<1>1. PICK u \in Members, opt \in BOOLEAN, names \in BOOLEAN :
        Move(h, [Idle EXCEPT !.pc = "account", !.user = u, !.names = names,
                   !.opt = OptOf(u, opt, names)])
  BY DEF ReadAccount
<1> DEFINE o == OptOf(u, opt, names)
           r == [Idle EXCEPT !.pc = "account", !.user = u, !.names = names, !.opt = o]
<1>2. u \in Users
  BY DEF Users
<1>3. o \in BOOLEAN /\ (names \/ o = inApp[u])
  BY <1>0, <1>2 DEF OptOf
<1>4. names \/ o = keptInApp[u] \/ u \in lost
  BY <1>2, <1>3 DEF ProjectsInv, OptOutKept
<1>5. Move(h, r)
  BY <1>1
<1> HIDE DEF o
<1>6. r \in Handler /\ r.pc = "account" /\ r.user = u /\ (r.names <=> names) /\ r.opt = o
  BY <1>2, <1>3, IdleType DEF Handler
<1> HIDE DEF r
<1>7. Knows(r)
  BY <1>4, <1>6 DEF Knows, Writing, Steps
<1> QED BY <1>0, <1>5, <1>6, <1>7, ReadKeeps DEF Writing

LEMMA ReadDeleteKeeps ==
  ASSUME ProjectsInv, NEW h \in Handlers, ReadDelete(h)
  PROVE  ProjectsInv'
<1> DEFINE r == [Idle EXCEPT !.pc = "delete"]
<1>1. r \in Handler /\ r.pc = "delete"
  BY IdleType DEF Handler
<1>2. Move(h, r) /\ asked' \in 0..MaxRequests
      /\ UNCHANGED <<project, settings, inApp, inbox, kept, keptInApp, lost>>
  BY AskCounts DEF ReadDelete
<1> HIDE DEF r
<1>3. Knows(r)
  BY <1>1 DEF Knows, Writing, Steps
<1> QED BY <1>1, <1>2, <1>3, ReadKeeps DEF Writing

LEMMA StartEventKeeps ==
  ASSUME ProjectsInv, NEW h \in Handlers, StartEvent(h)
  PROVE  ProjectsInv'
<1>0. asked' \in 0..MaxRequests /\ asked' \in Nat
      /\ UNCHANGED <<project, settings, inApp, inbox, kept, keptInApp, lost>>
  BY AskCounts DEF StartEvent
<1>1. PICK a \in Members, named \in {{"gate"}, {}}, u \in Users :
        Move(h, [Idle EXCEPT !.pc = "event", !.user = a, !.named = named,
                   !.only = u, !.number = asked'])
  BY DEF StartEvent
<1> DEFINE n == asked'
           r == [Idle EXCEPT !.pc = "event", !.user = a, !.named = named,
                   !.only = u, !.number = n]
<1>2. named \in SUBSET Fields /\ a \in Users /\ n \in Nat
  BY <1>0 DEF Fields, Users
<1>3. Move(h, r)
  BY <1>1
<1> HIDE DEF n
<1>4. r \in Handler /\ r.pc = "event"
  BY <1>2, IdleType DEF Handler
<1> HIDE DEF r
<1>5. Knows(r)
  BY <1>4 DEF Knows, Writing, Steps
<1> QED BY <1>0, <1>3, <1>4, <1>5, ReadKeeps DEF Writing

LEMMA CreateProjectKeeps ==
  ASSUME ProjectsInv, NEW h \in Handlers, CreateProject(h)
  PROVE  ProjectsInv'
<1>1. /\ TypeOK /\ asked' \in 0..MaxRequests /\ asked' \in Names
      /\ project.life = "none"
      /\ project' = [life |-> "live", name |-> asked', status |-> "Active"]
      /\ settings' = [NoSettings EXCEPT !.name = asked']
      /\ kept' = settings'
      /\ UNCHANGED <<inApp, inbox, hs, keptInApp, lost>>
  BY OfOne, AskCounts DEF CreateProject
<1>2. /\ settings' \in Settings /\ settings'.name = asked' /\ settings'.status = "Active"
      /\ project' \in Project /\ project'.life = "live"
      /\ project'.name = asked' /\ project'.status = "Active"
  BY <1>1, IdleType DEF NoSettings, Settings, Project, Statuses
<1>3. TypeOK'
  BY <1>1, <1>2 DEF TypeOK
<1>4. (RowsAgree /\ SettingsKept /\ OptOutKept /\ RowKept)'
  BY <1>1, <1>2 DEF ProjectsInv, RowsAgree, SettingsKept, OptOutKept, RowKept
<1>5. Exclusive'
  BY <1>1 DEF ProjectsInv, Exclusive
<1>6. ASSUME NEW g \in Handlers PROVE Knows(hs[g])'
  <2>1. Knows(hs[g])
    BY DEF ProjectsInv
  <2>2. hs[g].pc \notin Steps /\ hs[g].pc \notin Writing \cup {"sent"}
    BY <1>1, <2>1 DEF Knows
  <2>3. Knows(hs[g])' <=> (hs[g].pc = "account" =>
          /\ hs[g].user \in Members
          /\ hs[g].names \/ hs[g].missed \/ hs[g].opt = keptInApp[hs[g].user] \/ hs[g].user \in lost)
    BY <1>1, <2>2 DEF Knows, Steps
  <2> QED BY <2>1, <2>3 DEF Knows
<1> QED BY <1>3, <1>4, <1>5, <1>6 DEF ProjectsInv

-----------------------------------------------------------------------------
(* Each request goes on                                                    *)

\* A request whose project is gone, or that fails, is over.
LEMMA GivingUpKeeps ==
  ASSUME ProjectsInv, NEW h \in Handlers, Move(h, Idle),
         UNCHANGED <<project, settings, inApp, inbox, asked, kept, keptInApp, lost>>
  PROVE  ProjectsInv'
<1>1. asked' \in 0..MaxRequests
  BY DEF ProjectsInv, TypeOK
<1> QED BY <1>1, IdleType, IdleKnows, ReadKeeps DEF Writing

\* The lock of the row, and its UPDATE or DELETE.
LEMMA LockingKeeps ==
  ASSUME ProjectsInv, NEW h \in Handlers,
         UpdateCore(h) \/ UpdateArchived(h) \/ DeleteRow(h)
  PROVE  ProjectsInv'
<1>0. /\ TypeOK /\ hs[h] \in Handler /\ Knows(hs[h]) /\ asked' \in 0..MaxRequests
      /\ UNCHANGED <<project, settings, inApp, inbox, asked, kept, keptInApp, lost>>
      /\ inbox' \subseteq Users \X Nat
  BY OfOne DEF UpdateCore, UpdateArchived, DeleteRow, TypeOK
<1>1. CASE project.life # "live"
  BY <1>0, <1>1, GivingUpKeeps DEF UpdateCore, UpdateArchived, DeleteRow
<1>2. CASE project.life = "live"
  <2>1. PICK pc \in Writing :
          /\ Move(h, [hs[h] EXCEPT !.pc = pc])
          /\ hs[h].pc = CASE pc = "core" -> "settings" [] pc = "archived" -> "archive"
                          [] pc = "deleting" -> "delete"
          /\ pc = "deleting" => \A g \in Handlers : hs[g].pc # "sent"
          /\ ~Locked(h)
    BY <1>2 DEF UpdateCore, UpdateArchived, DeleteRow, Writing
  <2> DEFINE r == [hs[h] EXCEPT !.pc = pc]
  <2>2. /\ r \in Handler /\ r.pc = pc /\ r.cur = hs[h].cur /\ r.named = hs[h].named
        /\ r.missed = hs[h].missed
    BY <1>0 DEF Handler, Writing
  <2>3. Move(h, r)
    BY <2>1
  <2> HIDE DEF r
  <2>4. \A g \in Handlers \ {h} : hs[g].pc \notin Writing
    BY <2>1 DEF Locked, Writing
  <2>5. Knows(r)
    <3>1. CASE pc = "core"
      BY <1>0, <1>2, <2>1, <2>2, <3>1 DEF Knows, Steps
    <3>2. CASE pc = "archived"
      BY <1>0, <1>2, <2>1, <2>2, <3>2 DEF Knows, Steps
    <3>3. CASE pc = "deleting"
      BY <1>2, <2>2, <3>3 DEF Knows, Steps
    <3> QED BY <3>1, <3>2, <3>3 DEF Writing
  <2>6. r.pc # "sent"
    BY <2>2 DEF Writing
  <2> QED BY <1>0, <2>1, <2>2, <2>3, <2>4, <2>5, <2>6, MoveKeeps
<1> QED BY <1>1, <1>2

\* What a commit tells the others.
LEMMA TellingMoves ==
  ASSUME TypeOK, NEW h \in Handlers, NEW pcs, NEW users, EndTelling(h, pcs, users)
  PROVE  /\ hs' \in [Handlers -> Handler]
         /\ hs'[h] = Idle
         /\ \A g \in Handlers \ {h} :
              /\ hs'[g].pc = hs[g].pc /\ hs'[g].cur = hs[g].cur
              /\ hs'[g].named = hs[g].named /\ hs'[g].user = hs[g].user
              /\ hs'[g].names = hs[g].names /\ hs'[g].opt = hs[g].opt
              /\ IF hs[g].pc \in pcs /\ hs[g].user \in users THEN hs'[g].missed
                 ELSE hs'[g].missed = hs[g].missed
<1> DEFINE told(g) == [hs[g] EXCEPT !.missed = TRUE]
<1>1. \A g \in Handlers :
        /\ told(g) \in Handler /\ hs[g] \in Handler /\ told(g).missed
        /\ told(g).pc = hs[g].pc /\ told(g).cur = hs[g].cur
        /\ told(g).named = hs[g].named /\ told(g).user = hs[g].user
        /\ told(g).names = hs[g].names /\ told(g).opt = hs[g].opt
  <2>1. \A g \in Handlers : hs[g] \in Handler
    BY DEF TypeOK
  <2> QED BY <2>1 DEF Handler
<1>2. hs' = [g \in Handlers |->
                IF g = h THEN Idle
                ELSE IF hs[g].pc \in pcs /\ hs[g].user \in users THEN told(g) ELSE hs[g]]
  BY DEF EndTelling
<1> HIDE DEF told
<1>3. hs' \in [Handlers -> Handler] /\ hs'[h] = Idle
  BY <1>1, <1>2, IdleType
<1> QED BY <1>1, <1>2, <1>3

\* A commit that changes the rows keeps what the other requests know: those it
\* might concern missed it.
LEMMA CommitRowsKeeps ==
  ASSUME ProjectsInv, NEW h \in Handlers, hs[h].pc \in {"core", "archived"},
         EndTelling(h, Steps, Users),
         project' \in Project, project'.life = "live",
         settings' \in Settings, kept' \in Settings,
         lost' \subseteq Fields \cup Users \cup {"mirror"},
         \A u \in Users : u \in lost' <=> u \in lost,
         UNCHANGED <<inApp, inbox, asked, keptInApp>>,
         (RowsAgree /\ SettingsKept /\ RowKept)'
  PROVE  ProjectsInv'
<1>1. TypeOK /\ \A g \in Handlers : hs[g] \in Handler /\ hs[g].user \in Users
  BY OfOne DEF ProjectsInv
<1>2. /\ hs' \in [Handlers -> Handler]
      /\ hs'[h] = Idle
      /\ \A g \in Handlers \ {h} :
           /\ hs'[g].pc = hs[g].pc /\ hs'[g].cur = hs[g].cur
           /\ hs'[g].named = hs[g].named /\ hs'[g].user = hs[g].user
           /\ hs'[g].names = hs[g].names /\ hs'[g].opt = hs[g].opt
           /\ IF hs[g].pc \in Steps /\ hs[g].user \in Users THEN hs'[g].missed
              ELSE hs'[g].missed = hs[g].missed
  BY <1>1, TellingMoves
<1>3. TypeOK'
  BY <1>1, <1>2 DEF TypeOK
<1>4. OptOutKept'
  BY DEF ProjectsInv, OptOutKept
<1>5. Exclusive'
  BY <1>2, IdleType DEF ProjectsInv, Exclusive, Writing
<1>6. ASSUME NEW g \in Handlers \ {h} PROVE Knows(hs[g])'
  <2>1. Knows(hs[g])
    BY DEF ProjectsInv
  <2>2. hs[g].pc \in Steps => hs'[g].missed
    BY <1>1, <1>2
  <2>3. hs[g].pc = "account" =>
          /\ hs'[g].user \in Members
          /\ hs'[g].names \/ hs'[g].missed \/ hs'[g].opt = keptInApp'[hs'[g].user]
             \/ hs'[g].user \in lost'
    <3> SUFFICES ASSUME hs[g].pc = "account"
                 PROVE  /\ hs[g].user \in Members
                        /\ hs[g].names \/ hs[g].missed \/ hs[g].opt = keptInApp[hs[g].user]
                           \/ hs[g].user \in lost
      BY <1>1, <1>2 DEF Steps
    <3> QED BY <2>1 DEF Knows
  <2>4. \A r : /\ r.pc = hs[g].pc /\ r.named = hs[g].named /\ r.cur = hs[g].cur
               /\ r.pc \in Steps => r.missed
               => /\ r.pc \in {"settings", "core"} => {"name", "status"} \subseteq r.named
                  /\ r.pc \in {"archive", "archived"} =>
                        r.named = {"status", "gate"} /\ r.cur.status = "Archived"
                  /\ r.pc \in Steps => r.missed
    BY <2>1 DEF Knows
  <2>5. /\ hs'[g].pc \in {"settings", "core"} => {"name", "status"} \subseteq hs'[g].named
        /\ hs'[g].pc \in {"archive", "archived"} =>
              hs'[g].named = {"status", "gate"} /\ hs'[g].cur.status = "Archived"
        /\ hs'[g].pc \in Steps => hs'[g].missed
    BY <1>2, <2>2, <2>4
  <2> QED BY <1>2, <2>3, <2>5 DEF Knows, Steps
<1>7. Knows(hs[h])'
  BY <1>2, IdleType DEF Knows, Writing, Steps
<1> QED BY <1>3, <1>4, <1>5, <1>6, <1>7 DEF ProjectsInv

\* What the requests named is a row of settings again.
LEMMA KeptType ==
  ASSUME ProjectsInv, NEW h \in Handlers
  PROVE  /\ KeptAfter(h) \in Settings
         /\ \A f \in Fields : KeptAfter(h)[f] = IF f \in hs[h].named THEN hs[h].cur[f] ELSE kept[f]
<1>1. hs[h].cur \in Settings /\ kept \in Settings
  BY OfOne DEF TypeOK
<1> DEFINE k == KeptAfter(h)
<1>2. \A f \in Fields : k[f] = IF f \in hs[h].named THEN hs[h].cur[f] ELSE kept[f]
  BY DEF KeptAfter
<1>3. k = [f \in Fields |-> k[f]]
  BY DEF KeptAfter
<1> HIDE DEF k
<1>4. k["name"] \in Names /\ k["status"] \in Statuses /\ k["gate"] \in BOOLEAN
  BY <1>1, <1>2, SettingsFields DEF Fields
<1>5. \A f \in Fields : k[f] \in Names \cup Statuses \cup BOOLEAN
  BY <1>4 DEF Fields
<1>6. k \in [Fields -> Names \cup Statuses \cup BOOLEAN]
  BY <1>3, <1>5
<1>7. k \in Settings
  BY <1>4, <1>6, SettingsFields
<1> QED BY <1>2, <1>7 DEF k

\* Users are not taken for fields of the settings.
LEMMA Apart == \A u \in Users : u \notin Fields /\ u # "mirror"
BY UsersAreNoFields DEF Users, Fields

LEMMA CommitSettingsKeeps ==
  ASSUME ProjectsInv, NEW h \in Handlers, CommitSettings(h)
  PROVE  ProjectsInv'
<1> DEFINE cur == hs[h].cur
           named == hs[h].named
<1>1. /\ TypeOK /\ Knows(hs[h]) /\ cur \in Settings /\ named \subseteq Fields
      /\ hs[h].pc = "core" /\ project \in Project
      /\ project' = Core(cur) /\ settings' = cur /\ kept' = KeptAfter(h)
      /\ lost' = (lost \ (named \cup {"mirror"})) \cup Overwritten(h)
      /\ EndTelling(h, Steps, Users)
      /\ UNCHANGED <<inApp, inbox, asked, keptInApp>>
  BY OfOne DEF CommitSettings, TypeOK
<1>2. project.life = "live" /\ {"name", "status"} \subseteq named
      /\ (~hs[h].missed => \A f \in Fields \ named : cur[f] = kept[f] \/ f \in lost)
  BY <1>1 DEF Knows, Writing, Steps
<1>3. /\ project' \in Project /\ project'.life = "live"
      /\ project'.name = cur.name /\ project'.status = cur.status
  BY <1>1, <1>2 DEF Core, Project, Settings
<1>4. /\ kept' \in Settings
      /\ \A f \in Fields : kept'[f] = IF f \in named THEN cur[f] ELSE kept[f]
  BY <1>1, KeptType
<1>5. Overwritten(h) \subseteq Fields /\ lost \subseteq Fields \cup Users \cup {"mirror"}
  BY <1>1 DEF Overwritten, TypeOK
<1>6. lost' \subseteq Fields \cup Users \cup {"mirror"}
      /\ \A u \in Users : u \in lost' <=> u \in lost
  BY <1>1, <1>5, Apart
<1>7. \A f \in Fields : settings'[f] = kept'[f] \/ f \in lost'
  <2> SUFFICES ASSUME NEW f \in Fields, f \notin named
               PROVE  cur[f] = kept[f] \/ f \in lost'
    BY <1>1, <1>4
  <2>1. CASE hs[h].missed
    BY <1>1, <2>1 DEF Overwritten
  <2>2. CASE ~hs[h].missed
    <3>1. f # "mirror"
      BY DEF Fields
    <3> QED BY <1>1, <1>2, <2>2, <3>1
  <2> QED BY <2>1, <2>2
<1>8. kept'.name = cur.name /\ kept'.status = cur.status
  <2>1. "name" \in Fields /\ "status" \in Fields
    BY DEF Fields
  <2>2. kept'["name"] = cur["name"] /\ kept'["status"] = cur["status"]
    BY <1>2, <1>4, <2>1
  <2> QED BY <1>1, <1>4, <2>2, SettingsFields
<1>9. (RowsAgree /\ SettingsKept /\ RowKept)'
  BY <1>1, <1>3, <1>7, <1>8 DEF RowsAgree, SettingsKept, RowKept
<1>10. settings' \in Settings
  BY <1>1
<1> QED BY <1>1, <1>3, <1>4, <1>6, <1>9, <1>10, CommitRowsKeeps

LEMMA CommitArchiveKeeps ==
  ASSUME ProjectsInv, NEW h \in Handlers, CommitArchive(h)
  PROVE  ProjectsInv'
<1> DEFINE cur == hs[h].cur
           named == hs[h].named
<1>1. /\ TypeOK /\ Knows(hs[h]) /\ cur \in Settings /\ named \subseteq Fields
      /\ hs[h].pc = "archived" /\ project \in Project
      /\ project' = [project EXCEPT !.status = "Archived"]
      /\ settings' = cur /\ kept' = KeptAfter(h)
      /\ lost' = (lost \ named) \cup Overwritten(h)
                   \cup (IF hs[h].missed THEN {"mirror"} ELSE {})
      /\ EndTelling(h, Steps, Users)
      /\ UNCHANGED <<inApp, inbox, asked, keptInApp>>
  BY OfOne DEF CommitArchive, TypeOK
<1>2. /\ project.life = "live" /\ named = {"status", "gate"} /\ cur.status = "Archived"
      /\ ~hs[h].missed => cur.name = kept.name
  BY <1>1 DEF Knows, Writing
<1>3. /\ project' \in Project /\ project'.life = "live"
      /\ project'.name = project.name /\ project'.status = "Archived"
  BY <1>1, <1>2 DEF Project, Statuses
<1>4. /\ kept' \in Settings /\ kept \in Settings
      /\ \A f \in Fields : kept'[f] = IF f \in named THEN cur[f] ELSE kept[f]
  BY <1>1, KeptType DEF TypeOK
<1>5. Overwritten(h) \subseteq Fields /\ lost \subseteq Fields \cup Users \cup {"mirror"}
  BY <1>1 DEF Overwritten, TypeOK
<1>6. lost' \subseteq Fields \cup Users \cup {"mirror"}
      /\ \A u \in Users : u \in lost' <=> u \in lost
  BY <1>1, <1>5, Apart
<1>7. \A f \in Fields : settings'[f] = kept'[f] \/ f \in lost'
  <2> SUFFICES ASSUME NEW f \in Fields, f \notin named
               PROVE  cur[f] = kept[f] \/ f \in lost'
    BY <1>1, <1>4
  <2>1. CASE hs[h].missed
    BY <1>1, <2>1 DEF Overwritten
  <2>2. CASE ~hs[h].missed
    <3>1. f = "name"
      BY <1>2 DEF Fields
    <3> QED BY <1>1, <1>2, <1>4, <2>2, <3>1, SettingsFields
  <2> QED BY <2>1, <2>2
<1>8. kept'.name = kept.name /\ kept'.status = "Archived"
  <2>1. "name" \in Fields /\ "status" \in Fields /\ "name" \notin named /\ "status" \in named
    BY <1>2 DEF Fields
  <2>2. kept'["name"] = kept["name"] /\ kept'["status"] = cur["status"]
    BY <1>4, <2>1
  <2> QED BY <1>1, <1>2, <1>4, <2>2, SettingsFields
<1>9. project.name = kept.name
  BY <1>2 DEF ProjectsInv, RowKept
<1>10. settings'.status = "Archived" /\ (settings'.name = project'.name \/ "mirror" \in lost')
  <2>1. CASE hs[h].missed
    BY <1>1, <1>2, <2>1
  <2>2. CASE ~hs[h].missed
    BY <1>1, <1>2, <1>3, <1>9, <2>2
  <2> QED BY <2>1, <2>2
<1>11. (RowsAgree /\ SettingsKept /\ RowKept)'
  BY <1>3, <1>7, <1>8, <1>9, <1>10 DEF RowsAgree, SettingsKept, RowKept
<1>12. settings' \in Settings
  BY <1>1
<1> QED BY <1>1, <1>3, <1>4, <1>6, <1>11, <1>12, CommitRowsKeeps

LEMMA CommitDeleteKeeps ==
  ASSUME ProjectsInv, NEW h \in Handlers, CommitDelete(h)
  PROVE  ProjectsInv'
<1>1. /\ TypeOK /\ hs[h].pc = "deleting"
      /\ project' = [life |-> "deleted", name |-> 0, status |-> "Active"]
      /\ settings' = NoSettings /\ kept' = NoSettings
      /\ lost' = lost \ (Fields \cup {"mirror"})
      /\ Move(h, Idle)
      /\ UNCHANGED <<inApp, inbox, asked, keptInApp>>
  BY OfOne DEF CommitDelete
<1>2. project' \in Project /\ project'.life = "deleted"
  BY <1>1, BoundIsNatural DEF Project, Names, Statuses
<1>3. /\ hs' \in [Handlers -> Handler] /\ hs'[h] = Idle
      /\ \A g \in Handlers \ {h} : hs'[g] = hs[g]
  BY <1>1, IdleType DEF Move, TypeOK
<1>4. TypeOK'
  BY <1>1, <1>2, <1>3, IdleType DEF TypeOK
<1>5. (RowsAgree /\ SettingsKept /\ RowKept)'
  BY <1>2 DEF RowsAgree, SettingsKept, RowKept
<1>6. \A u \in Users : u \in lost' <=> u \in lost
  BY <1>1, Apart
<1>7. OptOutKept'
  BY <1>1, <1>6 DEF ProjectsInv, OptOutKept
<1>8. Exclusive'
  BY <1>3, IdleType DEF ProjectsInv, Exclusive, Writing
<1>9. \A g \in Handlers \ {h} : hs[g].pc \notin Writing \cup {"sent"}
  BY <1>1 DEF ProjectsInv, Exclusive, Writing
<1>10. ASSUME NEW g \in Handlers, Knows(hs'[g]), hs'[g].user \in Users,
              hs'[g].pc \notin Writing \cup {"sent"}
       PROVE  Knows(hs[g])'
  BY <1>1, <1>2, <1>6, <1>10 DEF Knows
<1>11. \A g \in Handlers : /\ Knows(hs'[g]) /\ hs'[g].user \in Users
                           /\ hs'[g].pc \notin Writing \cup {"sent"}
  <2>1. Knows(Idle) /\ Idle.user \in Users /\ Idle.pc \notin Writing \cup {"sent"}
    BY IdleKnows, IdleType DEF Handler, Writing
  <2>2. \A g \in Handlers : Knows(hs[g]) /\ hs[g].user \in Users
    BY OfOne
  <2> QED BY <1>3, <1>9, <2>1, <2>2
<1> QED BY <1>4, <1>5, <1>7, <1>8, <1>10, <1>11 DEF ProjectsInv

LEMMA UpsertAccountKeeps ==
  ASSUME ProjectsInv, NEW h \in Handlers, UpsertAccount(h)
  PROVE  ProjectsInv'
<1> DEFINE u == hs[h].user
           opt == hs[h].opt
           names == hs[h].names
<1>1. /\ TypeOK /\ hs[h] \in Handler /\ Knows(hs[h]) /\ hs[h].pc = "account"
      /\ inApp' = [inApp EXCEPT ![u] = opt]
      /\ keptInApp' = IF names THEN [keptInApp EXCEPT ![u] = opt] ELSE keptInApp
      /\ lost' = IF names THEN lost \ {u}
                 ELSE IF hs[h].missed THEN lost \cup {u} ELSE lost
      /\ EndTelling(h, {"account"}, {u})
      /\ UNCHANGED <<project, settings, inbox, asked, kept>>
  BY OfOne DEF UpsertAccount
<1>2. /\ u \in Users /\ opt \in BOOLEAN
      /\ names \/ hs[h].missed \/ opt = keptInApp[u] \/ u \in lost
  BY <1>1 DEF Knows, Handler
<1>3. /\ inApp \in [Users -> BOOLEAN] /\ keptInApp \in [Users -> BOOLEAN]
      /\ lost \subseteq Fields \cup Users \cup {"mirror"}
  BY <1>1 DEF TypeOK
<1>4. /\ hs' \in [Handlers -> Handler]
      /\ hs'[h] = Idle
      /\ \A g \in Handlers \ {h} :
           /\ hs'[g].pc = hs[g].pc /\ hs'[g].cur = hs[g].cur
           /\ hs'[g].named = hs[g].named /\ hs'[g].user = hs[g].user
           /\ hs'[g].names = hs[g].names /\ hs'[g].opt = hs[g].opt
           /\ IF hs[g].pc \in {"account"} /\ hs[g].user \in {u} THEN hs'[g].missed
              ELSE hs'[g].missed = hs[g].missed
  BY <1>1, TellingMoves
<1>5. inApp' \in [Users -> BOOLEAN] /\ keptInApp' \in [Users -> BOOLEAN]
  BY <1>1, <1>2, <1>3
<1>6. /\ lost' \subseteq Fields \cup Users \cup {"mirror"}
      /\ \A x : x # u => (x \in lost' <=> x \in lost)
      /\ \A x \in Fields \cup {"mirror"} : x \in lost' <=> x \in lost
  <2>1. \A x : x # u => (x \in lost' <=> x \in lost)
    BY <1>1
  <2>2. lost' \subseteq lost \cup {u}
    BY <1>1
  <2> QED BY <1>2, <1>3, <2>1, <2>2, Apart
<1>7. TypeOK'
  BY <1>1, <1>4, <1>5, <1>6 DEF TypeOK
<1>8. (RowsAgree /\ SettingsKept /\ RowKept)'
  BY <1>1, <1>6 DEF ProjectsInv, RowsAgree, SettingsKept, RowKept
<1>9. \A v \in Users \ {u} : /\ inApp'[v] = inApp[v] /\ keptInApp'[v] = keptInApp[v]
                             /\ v \in lost' <=> v \in lost
  BY <1>1, <1>2, <1>3, <1>6
<1>10. inApp'[u] = keptInApp'[u] \/ u \in lost'
  <2>1. inApp'[u] = opt
    BY <1>1, <1>2, <1>3
  <2>2. CASE names
    BY <1>1, <1>2, <1>3, <2>1, <2>2
  <2>3. CASE ~names
    BY <1>1, <1>2, <2>1, <2>3
  <2> QED BY <2>2, <2>3
<1>11. OptOutKept'
  BY <1>9, <1>10 DEF ProjectsInv, OptOutKept
<1>12. Exclusive'
  BY <1>4, IdleType DEF ProjectsInv, Exclusive, Writing
<1>13. ASSUME NEW g \in Handlers \ {h} PROVE Knows(hs[g])'
  <2>1. Knows(hs[g]) /\ hs[g].user \in Users
    BY OfOne
  <2>2. ASSUME hs[g].pc = "account"
        PROVE  /\ hs'[g].user \in Members
               /\ hs'[g].names \/ hs'[g].missed \/ hs'[g].opt = keptInApp'[hs'[g].user]
                  \/ hs'[g].user \in lost'
    <3>1. CASE hs[g].user = u
      BY <1>4, <2>1, <2>2, <3>1 DEF Knows
    <3>2. CASE hs[g].user # u
      <4>1. hs'[g].missed = hs[g].missed
        BY <1>4, <3>2
      <4> QED BY <1>4, <1>9, <2>1, <2>2, <3>2, <4>1 DEF Knows
    <3> QED BY <3>1, <3>2
  <2>3. hs[g].pc # "account" => hs'[g].missed = hs[g].missed
    BY <1>4
  <2>4. CASE hs[g].pc # "account"
    BY <1>1, <1>4, <1>6, <2>1, <2>3, <2>4 DEF Knows, Steps
  <2>5. CASE hs[g].pc = "account"
    BY <1>4, <2>2, <2>5 DEF Knows, Steps, Writing
  <2> QED BY <2>4, <2>5
<1>14. Knows(hs[h])'
  BY <1>4, IdleType DEF Knows, Writing, Steps
<1> QED BY <1>7, <1>8, <1>11, <1>12, <1>13, <1>14 DEF ProjectsInv

\* A notification is addressed, and committed.
LEMMA EventKeeps ==
  ASSUME ProjectsInv, NEW h \in Handlers, Publish(h) \/ CommitEvent(h)
  PROVE  ProjectsInv'
<1>0. /\ TypeOK /\ hs[h] \in Handler /\ asked' \in 0..MaxRequests
      /\ UNCHANGED <<project, settings, inApp, kept, keptInApp, lost>>
  BY OfOne DEF Publish, CommitEvent, TypeOK
<1>1. CASE Publish(h) /\ project.life = "live"
  <2> DEFINE to == Recipients(h)
             r == [hs[h] EXCEPT !.pc = "sent", !.to = to]
  <2>1. Move(h, r) /\ (\A g \in Handlers : hs[g].pc # "deleting") /\ inbox' = inbox
    BY <1>1 DEF Publish
  <2>2. to \in SUBSET Users
    BY <1>0 DEF Recipients, Handler, Users
  <2> HIDE DEF to
  <2>3. r \in Handler /\ r.pc = "sent"
    BY <1>0, <2>2 DEF Handler
  <2> HIDE DEF r
  <2>4. Knows(r)
    BY <1>1, <2>3 DEF Knows, Writing, Steps
  <2>5. inbox' \subseteq Users \X Nat
    BY <1>0, <2>1 DEF TypeOK
  <2> QED BY <1>0, <2>1, <2>3, <2>4, <2>5, MoveKeeps DEF Writing
<1>2. CASE Publish(h) /\ project.life # "live"
  BY <1>2, GivingUpKeeps DEF Publish
<1>3. CASE CommitEvent(h)
  <2>1. {<<u, hs[h].number>> : u \in hs[h].to} \subseteq Users \X Nat
    BY <1>0 DEF Handler
  <2>2. inbox' \subseteq Users \X Nat /\ Move(h, Idle)
    BY <1>0, <1>3, <2>1 DEF CommitEvent, TypeOK
  <2> QED BY <1>0, <2>2, IdleType, IdleKnows, MoveKeeps DEF Writing
<1> QED BY <1>1, <1>2, <1>3

-----------------------------------------------------------------------------
(* The theorems                                                            *)

LEMMA InitKeeps == ASSUME Init PROVE ProjectsInv
<1>1. TypeOK
  BY IdleType, BoundIsNatural DEF Init, TypeOK, Project, Names, Statuses
<1>2. RowsAgree /\ SettingsKept /\ OptOutKept /\ RowKept
  BY DEF Init, RowsAgree, SettingsKept, OptOutKept, RowKept
<1>3. Exclusive /\ \A h \in Handlers : Knows(hs[h])
  BY IdleType, IdleKnows DEF Init, Exclusive, Writing
<1> QED BY <1>1, <1>2, <1>3 DEF ProjectsInv

LEMMA NextKeeps == ASSUME ProjectsInv, [Next]_vars PROVE ProjectsInv'
<1>1. ASSUME NEW h \in Handlers, Request(h) PROVE ProjectsInv'
  BY <1>1, CreateProjectKeeps, ReadSettingsKeeps, ReadIdentityKeeps, ReadDeleteKeeps,
     ReadAccountKeeps, StartEventKeeps DEF Request
<1>2. ASSUME NEW h \in Handlers, Proceed(h) PROVE ProjectsInv'
  BY <1>2, LockingKeeps, CommitSettingsKeeps, CommitArchiveKeeps, CommitDeleteKeeps,
     UpsertAccountKeeps, EventKeeps DEF Proceed
<1>3. ASSUME NEW h \in Handlers, Rollback(h) PROVE ProjectsInv'
  BY <1>3, GivingUpKeeps DEF Rollback
<1>4. CASE UNCHANGED vars
  <2>1. (TypeOK /\ RowsAgree /\ SettingsKept /\ OptOutKept /\ RowKept /\ Exclusive)'
    BY <1>4 DEF vars, ProjectsInv, TypeOK, RowsAgree, SettingsKept, OptOutKept, RowKept, Exclusive
  <2>2. (\A h \in Handlers : Knows(hs[h]))'
    BY <1>4 DEF vars, ProjectsInv, Knows
  <2> QED BY <2>1, <2>2 DEF ProjectsInv
<1> QED BY <1>1, <1>2, <1>3, <1>4 DEF Next, Done

LEMMA ProjectsInvariant == Spec => []ProjectsInv
BY InitKeeps, NextKeeps, PTL DEF Spec

\* Both rows of a project and the switches of its members are what the last
\* request that named them made them, but for the overlaps recorded in lost
\* (project/repo.go, home/repo.go).
THEOREM SettingsAreSound == Spec => []SettingsSound
<1>1. ProjectsInv => SettingsSound
  BY DEF ProjectsInv, SettingsSound
<1> QED BY <1>1, ProjectsInvariant, PTL

\* Requests that change nothing for others, one by one.
LEMMA OneMoves ==
  ASSUME TypeOK, NEW h \in Handlers, NEW r, Move(h, r)
  PROVE  hs'[h] = r /\ \A g \in Handlers \ {h} : hs'[g] = hs[g]
BY DEF TypeOK, Move

\* Only Publish brings a request to the step after which it is sent.
LEMMA OnlyPublishSends ==
  ASSUME ProjectsInv, Next, NEW g \in Handlers, hs[g].pc = "event", hs'[g].pc = "sent"
  PROVE  Publish(g) /\ project.life = "live" /\ hs'[g].to = Recipients(g)
<1>1. TypeOK /\ hs[g] \in Handler
  BY OfOne
<1>2. PICK h \in Handlers : Request(h) \/ Proceed(h) \/ Rollback(h)
  BY DEF Next, Done, vars
<1>3. h = g
  <2> SUFFICES ASSUME h # g PROVE hs'[g].pc = hs[g].pc
    OBVIOUS
  <2>1. CASE \E r : Move(h, r)
    BY <1>1, <2>1, OneMoves
  <2>2. CASE hs' = hs
    BY <2>2
  <2>3. CASE \E pcs, users : EndTelling(h, pcs, users)
    BY <1>1, <2>3, TellingMoves
  <2> QED
    BY <1>2, <2>1, <2>2, <2>3
       DEF Request, Proceed, Rollback, CreateProject, ReadSettings, ReadIdentity, ReadDelete,
           ReadAccount, StartEvent, UpdateCore, CommitSettings, UpdateArchived, CommitArchive,
           DeleteRow, CommitDelete, UpsertAccount, Publish, CommitEvent
<1>4. Publish(g) \/ Rollback(g)
  BY <1>2, <1>3 DEF Request, Proceed, Rollback, CreateProject, ReadSettings, ReadIdentity,
       ReadDelete, ReadAccount, StartEvent, UpdateCore, CommitSettings, UpdateArchived,
       CommitArchive, DeleteRow, CommitDelete, UpsertAccount, CommitEvent
<1>5. ~Move(g, Idle)
  BY <1>1, IdleType, OneMoves
<1>6. Publish(g) /\ project.life = "live" /\ Move(g, [hs[g] EXCEPT !.pc = "sent", !.to = Recipients(g)])
  BY <1>4, <1>5 DEF Publish, Rollback
<1> DEFINE to == Recipients(g)
           r == [hs[g] EXCEPT !.pc = "sent", !.to = to]
<1>7. r.to = to
  BY <1>1 DEF Handler
<1>8. hs'[g] = r
  BY <1>1, <1>6, OneMoves
<1> QED BY <1>6, <1>7, <1>8

\* Nobody is told of what they did themselves, or of anything after they, or
\* the project, turned notifications off (notify/notify.go).
THEOREM EveryoneIsNotifiedAsAsked == Spec => NotifiedAsAsked
<1>1. ASSUME ProjectsInv, [Next]_vars, NEW h \in Handlers,
             hs[h].pc = "event", hs'[h].pc = "sent", NEW u \in hs'[h].to
      PROVE  /\ u # hs[h].user
             /\ keptInApp[u] \/ u \in lost
             /\ hs[h].named = {} \/ kept.gate \/ "gate" \in lost
  <2>1. Next
    BY <1>1 DEF vars
  <2>2. u \in Recipients(h) /\ project.life = "live"
    BY <1>1, <2>1, OnlyPublishSends
  <2>3. /\ u # hs[h].user /\ inApp[u] /\ u \in Users
        /\ hs[h].named = {} \/ settings.gate
    BY <1>1, <2>2, OfOne DEF Recipients, Handler, Users
  <2>4. keptInApp[u] \/ u \in lost
    BY <1>1, <2>3 DEF ProjectsInv, OptOutKept
  <2>5. settings["gate"] = kept["gate"] \/ "gate" \in lost
    BY <1>1, <2>2 DEF ProjectsInv, SettingsKept, Fields
  <2>6. settings["gate"] = settings.gate /\ kept["gate"] = kept.gate
    BY <1>1, SettingsFields DEF ProjectsInv, TypeOK
  <2> QED BY <2>3, <2>4, <2>5, <2>6
<1>2. ASSUME ProjectsInv, [Next]_vars
      PROVE  \A h \in Handlers : hs[h].pc = "event" /\ hs'[h].pc = "sent" =>
                \A u \in hs'[h].to :
                    /\ u # hs[h].user
                    /\ keptInApp[u] \/ u \in lost
                    /\ hs[h].named = {} \/ kept.gate \/ "gate" \in lost
  BY <1>1, <1>2
<1> QED BY <1>2, ProjectsInvariant, PTL DEF Spec, NotifiedAsAsked

\* Nothing of a deleted project is written, and nobody is told of anything in
\* it (project/repo.go, notify/notify.go).
THEOREM DeletedStaysGone == Spec => DeletedIsGone
<1>1. ASSUME ProjectsInv, [Next]_vars, project.life = "deleted"
      PROVE  project' = project /\ settings' = settings /\ inbox' = inbox
  <2>1. CASE UNCHANGED vars
    BY <2>1 DEF vars
  <2>2. ASSUME NEW h \in Handlers, Request(h) \/ Proceed(h) \/ Rollback(h)
        PROVE  project' = project /\ settings' = settings /\ inbox' = inbox
    <3>1. hs[h].pc \notin Writing \cup {"sent"}
      BY <1>1 DEF ProjectsInv, Knows
    <3>2. UNCHANGED <<project, settings, inbox>>
      BY <1>1, <2>2, <3>1
         DEF Writing, Request, Proceed, Rollback, CreateProject, ReadSettings, ReadIdentity,
             ReadDelete, ReadAccount, StartEvent, UpdateCore, CommitSettings, UpdateArchived,
             CommitArchive, DeleteRow, CommitDelete, UpsertAccount, Publish, CommitEvent
    <3> QED BY <3>2
  <2> QED BY <1>1, <2>1, <2>2 DEF Next, Done
<1> QED BY <1>1, ProjectsInvariant, PTL DEF Spec, DeletedIsGone

=============================================================================
