------------------------------ MODULE Projects ------------------------------
(***************************************************************************)
(* A project's rows and who hears of what happens in it: home/service.go   *)
(* (creating the project, account settings), project/service.go and        *)
(* project/repo.go (settings, archive, delete), notify/notify.go (fan-out).*)
(*                                                                         *)
(* Settings of a project and of an account are read whole, changed in      *)
(* memory and written whole.  Transactions are READ COMMITTED: the row of  *)
(* the project stays locked from its first UPDATE or DELETE to the end,    *)
(* what was read before the lock is not read again.                        *)
(***************************************************************************)
EXTENDS Naturals, FiniteSets

CONSTANTS Members,      \* active members of the project
          Outsider,     \* a user who is no member (a task may name one)
          Handlers,     \* concurrent requests
          MaxRequests   \* bound: requests ever started

ASSUME OutsiderIsNoMember == Outsider \notin Members
ASSUME BoundIsNatural == MaxRequests \in Nat
ASSUME UsersAreNoFields ==
    (Members \cup {Outsider}) \cap {"name", "status", "gate", "mirror"} = {}

VARIABLES
    project,    \* the row of projects
    settings,   \* the row of project_settings, deleted with the project
    inApp,      \* account_settings: in_app_notifications, TRUE without a row
    inbox,      \* notifications committed: recipient, number of the event
    hs,         \* the requests
    asked,      \* requests started
    kept,       \* history: project settings as the committed requests named them
    keptInApp,  \* history: the same of in_app_notifications
    lost        \* history: fields a whole-row write put back to an older value

vars == <<project, settings, inApp, inbox, hs, asked, kept, keptInApp, lost>>

Users    == Members \cup {Outsider}
Names    == 0..MaxRequests
Statuses == {"Active", "Archived"}
Fields   == {"name", "status", "gate"}

\* gate is notify_artifact_created; the other switches behave like it.
Settings == [name : Names, status : Statuses, gate : BOOLEAN]
Project  == [life : {"none", "live", "deleted"}, name : Names, status : Statuses]

\* A patch of settings names the name and the status, and the switches it
\* changes: named is the set of its fields.
Handler == [pc : {"idle", "settings", "core", "archive", "archived", "delete",
                  "deleting", "account", "event", "sent"},
            cur    : Settings,          \* settings to be written
            named  : SUBSET Fields,     \* fields the request names
            user   : Users,             \* whose account, or the actor of an event
            opt    : BOOLEAN,           \* in_app_notifications to be written
            names  : BOOLEAN,           \* the request names in_app_notifications
            only   : Users,             \* recipient of a directed event
            to     : SUBSET Users,      \* recipients, uncommitted
            number : Nat,
            missed : BOOLEAN]           \* history: a commit since its read
NoSettings == [name |-> 0, status |-> "Active", gate |-> TRUE]
Idle == [pc |-> "idle", cur |-> NoSettings, named |-> {}, user |-> Outsider,
         opt |-> TRUE, names |-> FALSE, only |-> Outsider, to |-> {},
         number |-> 0, missed |-> FALSE]

Move(h, new) == hs' = [hs EXCEPT ![h] = new]
Ask == asked < MaxRequests /\ asked' = asked + 1

\* hs after h ended and those at one of the steps pcs, for user u if one is
\* given, missed what it committed.
EndTelling(h, pcs, user) ==
    hs' = [g \in Handlers |->
             IF g = h THEN Idle
             ELSE IF hs[g].pc \in pcs /\ hs[g].user \in user
             THEN [hs[g] EXCEPT !.missed = TRUE] ELSE hs[g]]

\* Another transaction has changed the row of the project and has not ended.
Locked(h) == \E g \in Handlers \ {h} : hs[g].pc \in {"core", "archived", "deleting"}

-----------------------------------------------------------------------------
(* Creating                                                                *)

\* One transaction inserts the project, its founder and its settings; until
\* it commits nobody knows the project.
CreateProject(h) ==
    /\ hs[h].pc = "idle" /\ project.life = "none" /\ Ask
    /\ project' = [life |-> "live", name |-> asked', status |-> "Active"]
    /\ settings' = [NoSettings EXCEPT !.name = asked']
    /\ kept' = settings'
    /\ UNCHANGED <<inApp, inbox, hs, keptInApp, lost>>

-----------------------------------------------------------------------------
(* Settings                                                                *)

\* mutant: a switch missing from the body counts as on
MergeDefaults(cur, new, named) ==
    [f \in Fields |-> IF f \in named THEN new[f]
                      ELSE IF f = "gate" THEN TRUE ELSE cur[f]]

\* projectSettingsPatch over the settings that were read.
Merge(cur, new, named) == [f \in Fields |-> IF f \in named THEN new[f] ELSE cur[f]]

\* Validate: the statuses a patch may name.
PatchStatuses == Statuses

\* UpdateSettings reads the row without a lock; name and status are mandatory.
ReadSettings(h) ==
    /\ hs[h].pc = "idle" /\ project.life = "live" /\ Ask
    /\ \E name \in {settings.name, asked'}, status \in PatchStatuses, gate \in BOOLEAN,
          named \in {{"name", "status"}, Fields} :
           Move(h, [Idle EXCEPT !.pc = "settings", !.named = named,
                      !.cur = Merge(settings, [name |-> name, status |-> status,
                                               gate |-> gate], named)])
    /\ UNCHANGED <<project, settings, inApp, inbox, kept, keptInApp, lost>>

\* mutant: no foreign key tells that the project is gone
UpdateCoreBlind(h) ==
    /\ hs[h].pc = "settings" /\ ~Locked(h)
    /\ Move(h, [hs[h] EXCEPT !.pc = "core"])
    /\ UNCHANGED <<project, settings, inApp, inbox, asked, kept, keptInApp, lost>>

\* The UPDATE of projects waits for the lock; when the project is gone it
\* changes no row and the upsert of the settings fails on its foreign key.
UpdateCore(h) ==
    /\ hs[h].pc = "settings" /\ ~Locked(h)
    /\ Move(h, IF project.life = "live" THEN [hs[h] EXCEPT !.pc = "core"] ELSE Idle)
    /\ UNCHANGED <<project, settings, inApp, inbox, asked, kept, keptInApp, lost>>

\* What the requests named, once h has committed.
KeptAfter(h) ==
    [f \in Fields |-> IF f \in hs[h].named THEN hs[h].cur[f] ELSE kept[f]]

\* Fields that a commit of h sets back to what it had read too early.
Overwritten(h) == IF hs[h].missed
                  THEN {f \in Fields \ hs[h].named : hs[h].cur[f] # kept[f]} ELSE {}

\* queryUpdateProjectCore mirrors name and status.
Core(new) == [project EXCEPT !.name = new.name, !.status = new.status]

Steps == {"settings", "core", "archive", "archived"}

CommitSettings(h) ==
    /\ hs[h].pc = "core"
    /\ project' = Core(hs[h].cur)
    /\ settings' = hs[h].cur
    /\ kept' = KeptAfter(h)
    /\ lost' = (lost \ (hs[h].named \cup {"mirror"})) \cup Overwritten(h)
    /\ EndTelling(h, Steps, Users)
    /\ UNCHANGED <<inApp, inbox, asked, keptInApp>>

-----------------------------------------------------------------------------
(* Archiving and deleting                                                  *)

\* Archive reads name and status without a lock; archived already is a 409.
ReadIdentity(h) ==
    /\ hs[h].pc = "idle" /\ project.life = "live" /\ project.status # "Archived" /\ Ask
    /\ Move(h, [Idle EXCEPT !.pc = "archive", !.named = {"status", "gate"},
                  !.cur = [name |-> project.name, status |-> "Archived", gate |-> TRUE]])
    /\ UNCHANGED <<project, settings, inApp, inbox, kept, keptInApp, lost>>

UpdateArchived(h) ==
    /\ hs[h].pc = "archive" /\ ~Locked(h)
    /\ Move(h, IF project.life = "live" THEN [hs[h] EXCEPT !.pc = "archived"] ELSE Idle)
    /\ UNCHANGED <<project, settings, inApp, inbox, asked, kept, keptInApp, lost>>

\* The status of projects, and all settings: every switch on again, and the
\* name that was read, which may be an old one ("mirror": the rows differ).
CommitArchive(h) ==
    /\ hs[h].pc = "archived"
    /\ project' = [project EXCEPT !.status = "Archived"]
    /\ settings' = hs[h].cur
    /\ kept' = KeptAfter(h)
    /\ lost' = (lost \ hs[h].named) \cup Overwritten(h)
                 \cup (IF hs[h].missed THEN {"mirror"} ELSE {})
    /\ EndTelling(h, Steps, Users)
    /\ UNCHANGED <<inApp, inbox, asked, keptInApp>>

ReadDelete(h) ==
    /\ hs[h].pc = "idle" /\ project.life = "live" /\ Ask
    /\ Move(h, [Idle EXCEPT !.pc = "delete"])
    /\ UNCHANGED <<project, settings, inApp, inbox, kept, keptInApp, lost>>

\* The DELETE waits for rows that reference the project, uncommitted; deleting
\* a project that is gone is answered like the first time.
DeleteRow(h) ==
    /\ hs[h].pc = "delete" /\ ~Locked(h)
    /\ \A g \in Handlers : hs[g].pc # "sent"
    /\ Move(h, IF project.life = "live" THEN [hs[h] EXCEPT !.pc = "deleting"] ELSE Idle)
    /\ UNCHANGED <<project, settings, inApp, inbox, asked, kept, keptInApp, lost>>

\* The settings go with the project; notifications lose their project_id.
CommitDelete(h) ==
    /\ hs[h].pc = "deleting"
    /\ project' = [life |-> "deleted", name |-> 0, status |-> "Active"]
    /\ settings' = NoSettings /\ kept' = NoSettings /\ lost' = lost \ (Fields \cup {"mirror"})
    /\ Move(h, Idle)
    /\ UNCHANGED <<inApp, inbox, asked, keptInApp>>

-----------------------------------------------------------------------------
(* Account settings                                                        *)

\* A body without the switch writes back what was read.
OptOf(u, opt, names) == IF names THEN opt ELSE inApp[u]

\* UpdateAccountSettings reads before its transaction begins.
ReadAccount(h) ==
    /\ hs[h].pc = "idle" /\ Ask
    /\ \E u \in Members, opt \in BOOLEAN, names \in BOOLEAN :
           Move(h, [Idle EXCEPT !.pc = "account", !.user = u, !.names = names,
                      !.opt = OptOf(u, opt, names)])
    /\ UNCHANGED <<project, settings, inApp, inbox, kept, keptInApp, lost>>

UpsertAccount(h) ==
    LET u == hs[h].user
    IN  /\ hs[h].pc = "account"
        /\ inApp' = [inApp EXCEPT ![u] = hs[h].opt]
        /\ keptInApp' = IF hs[h].names THEN [keptInApp EXCEPT ![u] = hs[h].opt]
                        ELSE keptInApp
        /\ lost' = IF hs[h].names THEN lost \ {u}
                   ELSE IF hs[h].missed THEN lost \cup {u} ELSE lost
        /\ EndTelling(h, {"account"}, {u})
        /\ UNCHANGED <<project, settings, inbox, asked, kept>>

-----------------------------------------------------------------------------
(* Notifications                                                           *)

\* A request of a member, in the transaction that will notify: of everybody,
\* or of the one user a task is assigned to.
StartEvent(h) ==
    /\ hs[h].pc = "idle" /\ project.life = "live" /\ Ask
    /\ \E a \in Members, named \in {{"gate"}, {}}, u \in Users :
           /\ named = {} \/ u = Outsider
           /\ Move(h, [Idle EXCEPT !.pc = "event", !.user = a, !.named = named,
                         !.only = u, !.number = asked'])
    /\ UNCHANGED <<project, settings, inApp, inbox, kept, keptInApp, lost>>

\* mutant: nobody asks the account
RecipientsWithoutSwitch(h) ==
    IF hs[h].named = {} THEN {hs[h].only} \ {hs[h].user}
    ELSE IF settings.gate THEN Members \ {hs[h].user} ELSE {}

\* Publish: a broadcast goes to the other active members, a directed event to
\* its recipient; both ask the account, the former also the project's switch
\* (notify_task_assigned is on in every row: no request names it).
Recipients(h) ==
    {u \in IF hs[h].named = {} THEN {hs[h].only}
           ELSE IF settings.gate THEN Members ELSE {} : u # hs[h].user /\ inApp[u]}

\* The INSERT references the project: it waits for an uncommitted DELETE; after
\* it the members are gone, or the reference fails, and nobody is told.
Publish(h) ==
    /\ hs[h].pc = "event"
    /\ \A g \in Handlers : hs[g].pc # "deleting"
    /\ Move(h, IF project.life = "live"
               THEN [hs[h] EXCEPT !.pc = "sent", !.to = Recipients(h)] ELSE Idle)
    /\ UNCHANGED <<project, settings, inApp, inbox, asked, kept, keptInApp, lost>>

CommitEvent(h) ==
    /\ hs[h].pc = "sent"
    /\ inbox' = inbox \cup {<<u, hs[h].number>> : u \in hs[h].to}
    /\ Move(h, Idle)
    /\ UNCHANGED <<project, settings, inApp, asked, kept, keptInApp, lost>>

\* A statement fails or the deadline passes: the transaction is rolled back.
Rollback(h) ==
    /\ hs[h].pc # "idle"
    /\ Move(h, Idle)
    /\ UNCHANGED <<project, settings, inApp, inbox, asked, kept, keptInApp, lost>>

-----------------------------------------------------------------------------
Init ==
    /\ project = [life |-> "none", name |-> 0, status |-> "Active"]
    /\ settings = NoSettings /\ kept = NoSettings
    /\ inApp = [u \in Users |-> TRUE] /\ keptInApp = inApp
    /\ inbox = {} /\ lost = {} /\ asked = 0
    /\ hs = [h \in Handlers |-> Idle]

Request(h) ==
    \/ CreateProject(h) \/ ReadSettings(h) \/ ReadIdentity(h) \/ ReadDelete(h)
    \/ ReadAccount(h) \/ StartEvent(h)

Proceed(h) ==
    \/ UpdateCore(h) \/ CommitSettings(h) \/ UpdateArchived(h) \/ CommitArchive(h)
    \/ DeleteRow(h) \/ CommitDelete(h) \/ UpsertAccount(h)
    \/ Publish(h) \/ CommitEvent(h)

\* Every request is answered and no more may come.
Done == asked = MaxRequests /\ (\A h \in Handlers : hs[h].pc = "idle") /\ UNCHANGED vars

Next == (\E h \in Handlers : Request(h) \/ Proceed(h) \/ Rollback(h)) \/ Done

Spec == Init /\ [][Next]_vars

-----------------------------------------------------------------------------
(* Properties                                                              *)

\* Types of the rows and the requests.
TypeOK ==
    /\ project \in Project /\ settings \in Settings /\ kept \in Settings
    /\ inApp \in [Users -> BOOLEAN] /\ keptInApp \in [Users -> BOOLEAN]
    /\ inbox \subseteq Users \X Nat /\ lost \subseteq Fields \cup Users \cup {"mirror"}
    /\ hs \in [Handlers -> Handler] /\ asked \in 0..MaxRequests

\* projects and project_settings tell the same name and status, unless the
\* last archive had read a name that was changed before it got the lock.
RowsAgree ==
    project.life = "live" =>
        /\ project.status = settings.status
        /\ project.name = settings.name \/ "mirror" \in lost

\* Every setting is what the last request naming it made it (an archive names
\* the status and turns the switches on), unless a request that had read the
\* row earlier wrote it back: UpdateSettings takes no lock for its read.
SettingsKept ==
    project.life = "live" => \A f \in Fields : settings[f] = kept[f] \/ f \in lost

\* The in-app switch of a user is what the last request naming it made it,
\* unless an overlapping request about other account settings wrote it back.
OptOutKept == \A u \in Users : inApp[u] = keptInApp[u] \/ u \in lost

\* No setting or switch goes astray, in either table, but for the overlaps
\* recorded in lost (project/repo.go, home/repo.go): all of the above.
SettingsSound == TypeOK /\ RowsAgree /\ SettingsKept /\ OptOutKept

\* Nobody is told of what they did themselves, or of anything after they, or
\* for a broadcast the project, turned notifications off in a request that was
\* not written back: Publish asks the rows that are committed when it runs.
NotifiedAsAsked ==
    [][\A h \in Handlers : hs[h].pc = "event" /\ hs'[h].pc = "sent" =>
         \A u \in hs'[h].to :
             /\ u # hs[h].user
             /\ keptInApp[u] \/ u \in lost
             /\ hs[h].named = {} \/ kept.gate \/ "gate" \in lost]_vars

\* Once deleted, a project has no settings, is not archived or renamed, and
\* nobody is told of anything in it: requests that began before end with an
\* error.
DeletedIsGone ==
    [][project.life = "deleted" =>
         /\ project' = project /\ settings' = settings /\ inbox' = inbox]_vars
=============================================================================
