------------------------------- MODULE Routes -------------------------------
(* The routes of the modules with the policies each registers                *)
(* (internal/modules/*/routes.go), and the validator every registration runs *)
(* (internal/core/policy/validator_rules.go).  A route is what its policies  *)
(* are, what data its answer is made of and what data it changes; texts of   *)
(* paths are left out.  The uncached reads (search, calendar, activity, one  *)
(* event) and the routes that touch no cached data (auth, feedback, system,  *)
(* health) are represented by those listed here.                             *)
EXTENDS Naturals, Sequences

CONSTANTS Kinds        \* the kinds of artifacts served, of the six

ASSUME KindsAssumption == Kinds # {}

-----------------------------------------------------------------------------
(* Policies of a chain, in the order they run. *)

Scoped == <<"AuthRequired", "ProjectRequired", "ProjectMatchFromPath", "ResolvePermissions">>

CachedReadOfProject == Scoped \o <<"RequirePermission", "CacheRead", "CacheControl">>

CachedReadOfUser == <<"AuthRequired", "CacheRead", "CacheControl">>

\* artifacts, pages, resources: RequireJSON stands before RequirePermission
ContentWrite == Scoped \o <<"RequireJSON", "RequirePermission", "RateLimit", "CacheInvalidate">>

\* team, project
ProjectWrite == Scoped \o <<"RequirePermission", "RequireJSON", "RateLimit", "CacheInvalidate">>

PlainProjectWrite == Scoped \o <<"RequirePermission", "RateLimit", "CacheInvalidate">>

UserWrite == <<"AuthRequired", "RequireJSON", "RateLimit", "CacheInvalidate">>

PlainUserWrite == <<"AuthRequired", "RateLimit", "CacheInvalidate">>

-----------------------------------------------------------------------------
(* A route: whether its path names a project and an item in it, its chain,   *)
(* the permission it requires, the dimensions its cache key varies by and    *)
(* the tags it reads or bumps; "of" is the data its answer is made of or     *)
(* that it changes, cascades of a delete included.  Of a project: roster,    *)
(* who is a member, ranks, as what, masks, what a member may do, roles, what *)
(* a role may do, pending, its open invites.  Of a user: memberships, the    *)
(* projects joined, standing, as what, offers and inbox, the open invites.   *)
(* A tag is scoped by the project on a project's path and by the user        *)
(* elsewhere.                                                                *)

NoPerm == <<"none", "required">>

Route(name, project, item, chain, perm, vary, tags, of) ==
  [name |-> name, project |-> project, item |-> item, chain |-> chain, perm |-> perm,
   vary |-> vary, tags |-> tags, of |-> of]

OfProject(name, perm, tags, of) ==
  Route(name, TRUE, FALSE, CachedReadOfProject, perm, {"project"}, tags, of)

OneOfProject(name, perm, tags, of) ==
  Route(name, TRUE, TRUE, CachedReadOfProject, perm, {"project", "item"}, tags, of)

OfUser(name, tags, of) ==
  Route(name, FALSE, FALSE, CachedReadOfUser, NoPerm, {"user"}, tags, of)

Write(name, chain, perm, tags, of) ==
  Route(name, TRUE, FALSE, chain, perm, {}, tags, of)

WriteOfUser(name, chain, tags, of) ==
  Route(name, FALSE, FALSE, chain, NoPerm, {}, tags, of)

ArtifactTags(k) == {"artifacts.project", k}

\* names of other artifacts are part of an answer; one task comes with the members to assign it to
DetailData(k) == {"artifacts"} \cup (IF k = "task" THEN {"roster", "ranks"} ELSE {})

ArtifactReads ==
  UNION {{OfProject(<<"list", k>>, <<k, "view">>, ArtifactTags(k), {"artifacts"}),
          OneOfProject(<<"get", k>>, <<k, "view">>, ArtifactTags(k), DetailData(k))} : k \in Kinds}

\* whom a task is assigned to is told
Changed(k) == {"artifacts", "activity"} \cup (IF k = "task" THEN {"tasks", "notifications"} ELSE {})

ArtifactWrites ==
  UNION {{Write(<<"create", k>>, ContentWrite, <<k, "create">>, ArtifactTags(k), Changed(k) \cup {"notifications"}),
          Write(<<"update", k>>, ContentWrite, <<k, "edit">>, ArtifactTags(k), Changed(k))} : k \in Kinds}

PageTags == {"pages.project", "pages.page"}

PageReads ==
  {OfProject(<<"list", "page">>, <<"page", "view">>, PageTags, {"pages"}),
   OneOfProject(<<"get", "page">>, <<"page", "view">>, PageTags, {"pages"})}

PageWrites ==
  {Write(<<"create", "page">>, ContentWrite, <<"page", "create">>, PageTags, {"pages", "activity", "notifications"}),
   Write(<<"update", "page">>, ContentWrite, <<"page", "edit">>, PageTags, {"pages", "activity"}),
   Write(<<"rename", "page">>, ContentWrite, <<"page", "edit">>, PageTags, {"pages", "activity"})}

ResourceTags == {"resources.project", "resources.resource"}

ResourceReads ==
  {OfProject(<<"list", "resource">>, <<"resource", "view">>, ResourceTags, {"resources"}),
   OneOfProject(<<"get", "resource">>, <<"resource", "view">>, ResourceTags, {"resources"})}

ResourceWrites ==
  {Write(<<"create", "resource">>, ContentWrite, <<"resource", "create">>, ResourceTags, {"resources", "activity", "notifications"}),
   Write(<<"update", "resource">>, ContentWrite, <<"resource", "edit">>, ResourceTags, {"resources", "activity", "notifications"})}

TeamTags == {"team.members", "team.roles"}

TeamReads ==
  {OfProject(<<"list", "member">>, <<"member", "view">>, {"team.members"}, {"roster", "ranks", "pending"}),
   OfProject(<<"list", "role">>, <<"member", "view">>, {"team.roles"}, {"roles", "masks", "ranks", "roster"})}

TeamWrites ==
  {Write(<<"create", "invite">>, ProjectWrite, <<"member", "create">>, TeamTags, {"pending", "offers", "notifications"}),
   Write(<<"batch", "invite">>, ProjectWrite, <<"member", "create">>, TeamTags, {"pending", "offers", "notifications"}),
   Write(<<"cancel", "invite">>, PlainProjectWrite, <<"member", "delete">>, TeamTags, {"pending", "offers"}),
   Write(<<"update", "member">>, ProjectWrite, <<"member", "edit">>, TeamTags, {"masks", "ranks", "standing"}),
   Write(<<"update", "role">>, ProjectWrite, <<"member", "edit">>, TeamTags, {"masks", "roles"})}

Counted == {"artifacts", "tasks"}

ProjectReads ==
  {OfProject(<<"dashboard", "project">>, <<"project", "view">>, {"project.dashboard"},
             Counted \cup {"project", "events", "activity", "pages", "resources"}),
   OfProject(<<"overview", "project">>, <<"project", "view">>, {"project.overview"}, Counted \cup {"project"}),
   Route(<<"access", "project">>, TRUE, FALSE, Scoped \o <<"CacheRead", "CacheControl">>, NoPerm,
         {"project", "user"}, {"project.access"}, {"masks", "ranks"}),
   OfProject(<<"settings", "project">>, <<"project", "view">>, {"project.settings"}, {"project"})}

ProjectTags == {"project.dashboard", "project.overview", "project.access", "project.settings"}

\* ON DELETE CASCADE: notifications lose the reference and keep their text
GoesWithProject == {"project", "artifacts", "tasks", "pages", "resources", "events", "activity", "roster", "ranks",
                    "masks", "roles", "pending", "offers", "memberships", "standing"}

ProjectWrites ==
  {Write(<<"update", "project">>, ProjectWrite, <<"project", "edit">>, ProjectTags, {"project"}),
   Write(<<"archive", "project">>, PlainProjectWrite, <<"project", "archive">>, ProjectTags, {"project"}),
   Write(<<"delete", "project">>, PlainProjectWrite, <<"project", "delete">>, ProjectTags, GoesWithProject)}

\* not cached, and nothing is invalidated when it changes
CalendarWrites ==
  {Write(<<"create", "event">>, Scoped \o <<"RequireJSON", "RequirePermission", "RateLimit">>, <<"calendar", "create">>,
         {}, {"events", "activity", "notifications"}),
   Write(<<"update", "event">>, Scoped \o <<"RequireJSON", "RequirePermission", "RateLimit">>, <<"calendar", "edit">>,
         {}, {"events", "activity"}),
   Write(<<"delete", "event">>, Scoped \o <<"RequirePermission", "RateLimit">>, <<"calendar", "delete">>,
         {}, {"events", "activity"})}

HomeReads ==
  {OfUser(<<"home", "dashboard">>, {"home.dashboard"},
          {"memberships", "project", "tasks", "standing", "inbox", "offers", "notifications", "activity"}),
   OfUser(<<"home", "projects">>, {"home.projects"}, {"memberships", "project", "tasks", "standing"}),
   OfUser(<<"home", "reference">>, {"home.reference"}, {"memberships", "project", "roster"}),
   OfUser(<<"home", "invites">>, {"home.invites"}, {"inbox", "offers", "project"}),
   OfUser(<<"home", "notifications">>, {"home.notifications"}, {"notifications"}),
   OfUser(<<"home", "activity">>, {"home.activity"}, {"memberships", "project", "activity"}),
   OfUser(<<"home", "dashboard-activity">>, {"home.dashboard_activity"}, {"memberships", "project", "activity"}),
   OfUser(<<"home", "account">>, {"home.account"}, {"account"}),
   Route(<<"home", "docs">>, FALSE, FALSE, CachedReadOfUser, NoPerm, {}, {"home.docs"}, {})}

\* an accepted invite rewrites the rank and the permissions of one who is a member already
Joined == {"memberships", "standing", "roster", "ranks", "masks", "pending", "inbox"}

HomeWrites ==
  {WriteOfUser(<<"create", "project">>, UserWrite, {"home.dashboard", "home.projects", "home.reference"},
               {"memberships", "standing"}),
   WriteOfUser(<<"accept", "invite">>, PlainUserWrite, {"home.dashboard", "home.invites", "home.projects"},
               Joined),
   WriteOfUser(<<"decline", "invite">>, PlainUserWrite, {"home.invites", "home.dashboard"}, {"pending", "inbox"}),
   WriteOfUser(<<"update", "account">>, UserWrite, {"home.account", "home.dashboard"}, {"account"})}

Reads == ArtifactReads \cup PageReads \cup ResourceReads \cup TeamReads \cup ProjectReads \cup HomeReads

Writes == ArtifactWrites \cup PageWrites \cup ResourceWrites \cup TeamWrites \cup ProjectWrites
          \cup CalendarWrites \cup HomeWrites

\* data of one user: when its user writes it, no other user's answer is touched
Personal == {"account", "memberships", "standing", "inbox"}

\* routes of one path, which differ by the method alone: of them, one event's are limited
Path(r) == IF r.name \in {<<"update", "event">>, <<"delete", "event">>} THEN <<"one", "event">> ELSE r.name

\* home.docs is the same for everybody: SharedAuthenticated
Shared(r) == r.name = <<"home", "docs">>

-----------------------------------------------------------------------------
(* The validator: the rules are about the kinds of policies and their order. *)

Has(r, p) == \E n \in DOMAIN r.chain : r.chain[n] = p

\* mutant: the cache is looked up before the permission is required
StageOfLookup(p) ==
  CASE p = "AuthRequired" -> 1
    [] p \in {"ProjectRequired", "ProjectMatchFromPath"} -> 2
    [] p \in {"ResolvePermissions", "CacheRead"} -> 3
    [] p = "RequirePermission" -> 4
    [] p = "RateLimit" -> 5
    [] p = "CacheInvalidate" -> 6
    [] p = "CacheControl" -> 7
    [] OTHER -> 0

Stage(p) ==
  CASE p = "AuthRequired" -> 1
    [] p \in {"ProjectRequired", "ProjectMatchFromPath"} -> 2
    [] p = "ResolvePermissions" -> 3
    [] p = "RequirePermission" -> 4
    [] p = "RateLimit" -> 5
    [] p \in {"CacheRead", "CacheInvalidate"} -> 6
    [] p = "CacheControl" -> 7
    [] OTHER -> 0                                    \* RequireJSON may stand anywhere

Ordering(r) ==
  \A n, m \in DOMAIN r.chain :
     n < m => /\ Stage(r.chain[m]) # 0 => Stage(r.chain[n]) <= Stage(r.chain[m])
              /\ ~ (r.chain[n] = "ProjectMatchFromPath" /\ r.chain[m] = "ProjectRequired")

AuthDependencies(r) ==
  \/ Has(r, "AuthRequired")
  \/ \A p \in {"RequirePermission", "ProjectRequired", "ResolvePermissions"} : ~ Has(r, p)

\* mutant: the path is not looked at
ProjectRulesWithoutPath(r) == Has(r, "ProjectRequired") <=> Has(r, "ProjectMatchFromPath")

ProjectRules(r) ==
  /\ Has(r, "ProjectRequired") <=> Has(r, "ProjectMatchFromPath")
  /\ Has(r, "ProjectRequired") <=> r.project

ResolverRules(r) ==
  /\ Has(r, "ResolvePermissions") => Has(r, "ProjectRequired")
  /\ Has(r, "RequirePermission") => Has(r, "ResolvePermissions")

CacheSafety(r) ==
  Has(r, "AuthRequired") /\ Has(r, "CacheRead") /\ ~ Shared(r)
    => r.vary \cap {"user", "project"} # {}

\* a route without policies is not looked at
Accepted(r) ==
  r.chain # <<>> => /\ Ordering(r) /\ AuthDependencies(r) /\ ProjectRules(r)
                    /\ ResolverRules(r) /\ CacheSafety(r)

=============================================================================
