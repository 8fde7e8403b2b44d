# TLA+ models of projectbook-backend

This directory holds TLA+ specifications of the Go service in `src/`, TLC
configurations that check them on small instances, and TLAPS proofs of their
most important properties for every instance. Paths below are relative to
`src/` (`artifacts/repo.go` stands for `internal/modules/artifacts/repo.go`,
`core/` for `internal/core/`); `PROJECT.json` maps every definition to the
lines it models.

## 1. The system

projectbook-backend is a JSON API over PostgreSQL (the truth), MongoDB (the
rich content of artifacts, pages and resources) and Redis (response cache,
permission cache, rate limits, sessions of the goAuth library). Any number of
replicas run; they share nothing but the three stores. A request passes a chain
of policies (authentication, project match, permission resolution, permission
check, rate limit, cache) and reaches a module's handler, service and
repository. Writes run in `storage.WithTx`, a READ COMMITTED transaction; what
is done in Redis or MongoDB is never part of it. Mails go out inside a request
or in a detached goroutine.

| Component | State | Operations | What makes it correct | Modelled in |
|---|---|---|---|---|
| Response cache (`core/cache`, `core/policy/cache.go`) | Redis: a version per tag, responses under a key made from the versions; per process: cached tag tokens | cached read, invalidation after a write, TTLs | a reachable response reflects every write whose tags were bumped; staleness has a known cause and ends | `RouteCache` |
| Permission resolution (`core/permissions`, permission updates in `team`, acceptance in `home`) | PostgreSQL: role masks, memberships, invites; Redis: per user one map from project to resolution | resolve with detached backfill, member and role update, accept, startup resync, DEL | a cached mask that differs from the database has a known cause; backfills never go back or disturb other projects | `PermissionCache` |
| Design artifacts (`artifacts`): stories, journeys, problems, ideas, tasks, feedback | a row (status, archived_from_status, link, document_revision), a document, an activity log | create and PATCH of six kinds | immutable artifacts keep their content; statuses follow the lifecycle; the document is at its row | `ArtifactRules`, `Artifacts`, `ArtifactLifecycle` |
| Membership and invites (`team`, `home`) | members, invites by address, a partial unique index | invite, batch, cancel, accept, decline, change a role, roster, delete of the project | one pending invite per address; who joined was invited; an ended invite stays ended; nothing outlives the project | `Membership`, `Enrolment` |
| Projects and notifications (`home`, `project`, `core/notify`) | rows of projects, settings, accounts; notifications | create, save settings, archive, delete, account switches, fan-out | no setting goes astray; nobody is told who asked not to be | `Projects` |
| Pages, resources (`pages`, `resources`) | row, document, versions, links | create, load and update, archive, restore, rename, delete, get | row, document, versions and links fit together; archived content stays | `Content` |
| Calendar (`calendar`) | event rows with instants and texts | create, PATCH, delete, get | instants and texts agree; fields are kept | `Calendar` |
| Lists (every `List…`, the activity feed, `core/pagination`) | rows, offset cursors | page after page while others write | a row that nobody touched is on exactly one page | `Listing` |
| Policy chain, validator, rate limiter (`core/policy`, `core/ratelimit`, the modules' `routes.go`) | context of a request, counters, cached answers | every policy, every accepted order of them | answers only to the entitled, about their own subject, after the writes they must show | `Routes`, `Gateway` |
| Process life (`cmd/api`, `core/config`, `core/app`) | environment, configuration, open clients, requests in flight | load, lint, open, register, serve, drain, close | production serves hardened; nothing is left open; stopping ends | `Startup` |
| Accounts (`auth`) | users, codes, sessions (goAuth, external) | sign-up, resend, forgot, verify, reset, change of password, login, logout | a sign-up keeps its promise; old sessions are explained | `Accounts`, `MailedFlows` |
| Feedback mail (`feedback`) | a submission with its marks | submit, detached send, three marks | the row tells the truth about the mail | `FeedbackMail`, `MailedFlows` |
| PostgreSQL and document stores (`core/storage`) | open transactions | `WithTx`, find_one, update_one | – | their outcomes are actions of the models that use them |
| Permission masks, logging, metrics, tracing, migrations, tools, health | – | – | – | not modelled, section 6 |

### How the parts meet

`Gateway` puts requests through the policies and the cached answers of the
routes that `Routes` lists, so that it is about the interplay of chain, limiter,
cache keys and tags; what the cache does inside one key is `RouteCache`, what
the resolver answers is `PermissionCache`. `Membership` and `PermissionCache`
look at the same acceptance from two sides: who belongs, and with which mask.
`MailedFlows` composes `Accounts` and `FeedbackMail`, which share handlers and
die together when the process stops. `Artifacts` implements
`ArtifactLifecycle`, and `Membership` implements `Enrolment`.

### The hard behaviours

* **Check, then act.** Services read an artifact, an event, settings or an
  invite outside the transaction and act on it inside; another request may
  commit in between. Several writers write whole rows they read earlier.
* **Three stores, one transaction.** A Mongo write inside `WithTx` survives the
  rollback; a Redis invalidation follows the commit and may never happen.
* **Caches filled by slow readers.** A response or a resolution computed before
  a write may be stored after that write's invalidation.
* **Swallowed errors.** Best-effort statements run on the request's own
  transaction, where a failed statement aborts everything.
* **Clocks.** Resolutions, versions of rows and lists are ordered by NOW(),
  taken at the begin of a transaction and not at its commit.
* **Detached work and stops.** Goroutines and requests end with the process;
  what they had not done is not taken up again.

`PROJECT.json` lists each hazard at its line with the properties that would
catch it going wrong.

## 2. The modules

### RouteCache

One cached read route with a set of tags. A cache key is the hash of the route,
its vary values and the *tag-version token*; other routes share only the
versions, so here a key *is* the token, a vector of versions. A response body is
the vector of committed writes per tag it reflects.

| Specification | Code |
|---|---|
| `db` | committed writes per tag |
| `ver`, `store` | Redis version counters and responses |
| `token[p]` | `Manager.tagTokenCache` of process *p* |
| `StartRead` … `StoreResponse` | `CacheRead`: token lookup, MGET, `storeTagToken`, GET, handler, SET, each a step of its own |
| `HandlerCommits`, `BumpTag`, `ClearTokens`, `BumpFails` | `CacheInvalidate`: the handler commits and answers, then one INCR per tag (a pipeline is not atomic), then the process forgets its tokens |
| `EntryExpires`, `TokenExpires`, `Crash` | TTLs, a replica stopping |
| `bumped`, `lost`, `acked`, `floor` | history, read by properties only |

A failing Redis is a failing step (`RedisReadFails`, `BumpFails`). Redis loses
responses but no version counter.

### PermissionCache

| Specification | Code |
|---|---|
| `roles`, `mem`, `invite` | `role_permissions`, `project_members`, `project_invites` |
| `cache[u]` | Redis value `rbac:<user>`, a map from project to entry |
| `Miss`, `Load`, `Watch`, `Exec` | `HybridResolver.Resolve`, the membership query, and `backfillOnce`: WATCH and GET, comparison of stamps, MULTI/SET/EXEC |
| `CheckMember`, `UpdateMember` | `team.UpdateMemberPermissions`: role mask read outside the transaction, UPDATE and commit |
| `UpdateRole`, `CommitRole` | `team.UpdateRolePermissions`: UPDATE of the role, then of the members whose stored mask differs (their rows stay locked), commit |
| `CreateInvite`, `EndInvite`, `CheckInvite`, `AcceptInvite` | an invite carries the role's mask of its creation; acceptance upserts the membership and invalidates nobody |
| `Resync` | `Lifecycle.RunStartup` |
| `Invalidate`, `InvalidateFails` | the DEL after the commit; its error is dropped |
| `excused` | history: entries whose difference from the database has a known cause |

A project has one key (slug and UUID keys hold the same entry); UPDATE and
COMMIT are one step except for the role update, whose list of affected members
is computed under locks; a cache hit changes nothing and is no action; a
watched key that expires aborts the EXEC, as in Redis 7.

### ArtifactRules, Artifacts, ArtifactLifecycle

`ArtifactRules` has the pure part: transition maps and immutability of the
service, and the `SET` and `WHERE` of each UPDATE as operators on a row and a
PATCH body, three-valued logic included. `Artifacts` has the requests: `Load…`
is the service's read and check outside the transaction, `CheckProblemLocked`
and `CheckIdeaSelected` read the linked artifact without a lock, `Update…` waits
for the row lock (`Writing(a) = {}`) and evaluates its own `WHERE`, then
`LinkSources`, `WriteDocument` (Mongo, visible at once), `RecordActivity`,
`Commit`; `RollBack` can replace any step. A create's document is written
before its row is committed, as in the code. Content is identified by the
revision it was written at. Links are one per artifact.

`ArtifactLifecycle` is the abstract specification: a status advances, is
archived, and a restore goes back where the archive came from. `Life` in
`Artifacts` is the refinement mapping.

### Membership, Enrolment

One project, from the founder's point of view. Committed rows are in `member`,
`invites` and `project`; what a request has changed and not committed is in
`hs[h]` (`rows`: invites it has updated, `upsert`: the membership it has
inserted), and stands for the locks it holds: `LockedRows`, `MemberLocked`,
`KeyLocked` (the unique index makes an INSERT wait), `Deleting` and `Referenced`
(foreign keys wait both ways).

| Actions | Code |
|---|---|
| `StartInvites`, `SweepAndFindMember`, `FindPending`, `InsertInvite`, `CommitInvite` | `CreateInvite` and `BatchInvites`: one transaction per entry, the sweep of expired invites first |
| `StartCancel`, `CancelInvite` | status of the address's latest invite, then an UPDATE of the pending one |
| `StartAccept`, `MarkAccepted`, `UpsertMember`, `CommitAccept` | `home.AcceptInvite`; the row count of the UPDATE is dropped |
| `StartDecline`, `DeclineInvite`, `StartUpdateMember`, `UpdateMember` | checks and UPDATEs |
| `DeleteProject`, `Cascade` | DELETE of the row, then of what references it |
| `StartRoster`, `RosterMembers`, … | the roster and the dashboard, several queries |

`Enrolment` is the abstract specification: no requests, locks or transactions,
only a project, everybody's role and the letters that invite people. A letter is
sent to somebody with no other that is open and ends in one way for good; joining
takes a letter of one's own, and its role; an update makes nobody Owner; a delete
empties everything at once. `Enrolled` in `Membership` maps the *committed* rows to
it, so a commit is a step and whatever a request does before it is a stutter. A
letter that ended while it was being answered is honoured (`Join`): the code means
no such thing but does it (section 3).

### Projects

`projects` and `project_settings` of one project, the in-app switch of each
account, and notifications. Settings, archive, delete and account settings read
(`Read…`), lock and write (`UpdateCore`, `UpdateArchived`, `DeleteRow`), commit
(`Commit…`). `kept` is what committed requests *named*; `lost` holds what a
whole-row write has put back. `StartEvent`, `Publish` are the fan-out in the
middle of another transaction. One switch stands for all of them.

### Content

One page or one resource. `Load…` is the service's read and check; then a
transaction changes the row (`from` is the status that was judged), reads and
merges the document, which is visible at once, and commits. A transaction that
fails leaves what it wrote to the document: `stray`. `kept` is the content
according to committed writes. The reader reads the row and then the document.

### Calendar

One manual event. The row holds instants (day × hours + time) and the texts they
were made of; `Shown` turns instants back into dates as `to_char` does in UTC,
`Merge` is `mergeCalendarPatch`, `RowOf` `buildEventTimestamps`. `WriteRow`
takes the row's lock, `CommitUpdate` writes every column.

### Listing

A client pages through one of the lists (each has its sort key, order and
operations on rows) by offset, while transactions change rows. `Enter` creates a
row or brings it into a list filtered by status, `Leave` deletes it or takes it
out: the lists of artifacts and pages are read with a filter of status (feedback
also of outcome), the unfiltered list being the case in which no row leaves. Edits
stamp a row with the begin of their transaction; a project joined or a resource
restored comes in with a key of the past (`KeysAt`). The projects of a user come
without a cursor (`cursor`): there it is assumed that the client asks for another
page after a full one. `fell` and `rose` remember which rows others pushed,
`departures` how often a row went to a later place or out of the list.

### Routes, Gateway

`Routes` is the table of the modules' routes: chain, permission, vary
dimensions, tags, and the data an answer shows or a write changes, the rows that
a delete cascades to (`GoesWithProject`) and those an acceptance upserts (`Joined`)
included; and the validator's rules (`Accepted`). `Gateway` serves one read and one
write that have data in common, or two writes of one path (`Twins`: PATCH and DELETE
of an event share a counter, whose key has the path and not the method), or one route
alone, or one read under every order of
policies that the validator accepts, with permissions taken away meanwhile and
a limiter that fails (only for a route served alone: `Upset`). `Asked` is a
request as it comes in, `Local` a policy that looks at the request only, `Walk`
the run of such policies up to the next one that looks beyond it (applied eight
times, since no chain is longer); `answers` are the cached answers, `confirmed`
the writes whose requests were answered.

### Startup

One process. `LoadFrom` is profile, environment and fallback of every key, `Lint` the
rules; `BootStep` and `BootFails` are the eleven steps of `initDependencies`
with what each error branch closes; requests begin, commit and invalidate;
`Signal`, `Drained`, `DrainTimesOut`, `CloseStep` end it. Values are one per
case the code tells apart.

### Accounts, FeedbackMail, MailedFlows

An engine call is one step that may fail; what the service does between calls is
a step of its own. A password is the number of the version it was valid for.
`FeedbackMail` is the goroutine of one submission with its window of twenty
seconds. In `MailedFlows` a handler is one or the other.

## 3. The runs

| Run | Instance | Checks |
|---|---|---|
| `route_cache` | 2 processes, one keeping tokens; 1 reader, 1 writer, 2 tags, 1 write of each | `CurrentEntryCoversBumps`, `StaleEntryExplained`, `UncachedTokensSeeWrite`, `StalenessEnds` under crashes, TTLs and Redis failures |
| `permission_cache` | 1 user, 2 projects that share the user's key, 1 role, 2 masks, 2 resolutions, 2 writers, 3 of them at a time, 2 seconds, 2 writes | `StaleEntryExplained`, `EntriesNeverGoBack`, `OtherProjectsKept` |
| `artifacts` | a journey and a feedback, 2 requests, transactions and log statements failing | `DocumentSound`, `FollowsLifecycle` |
| `artifacts_serial` | story, problem, idea and task in a chain, 3 revisions of each and 7 altogether, one request at a time | `ImmutableKept`, `TransitionsLegal`, `ChosenUnderLock` |
| `membership` | founder and guest, 2 roles, 2 of 3 requests at a time, invites that expire | `MembershipSound`, `JoinExplained`, `ReadersSeeEverybody`, `FollowsEnrolment`, `EveryRequestAnswered` |
| `projects` | 2 members and an outsider, 2 of 4 requests at a time | `SettingsSound`, `NotifiedAsAsked`, `DeletedIsGone` |
| `content` | a page or a resource, 2 of 3 writes at a time, 1 failing transaction, a reader | `ContentSound`, `ContentNotOlder`, `ArchivedEditsAreStale` |
| `calendar` | 2 days of 2 hours, 2 of 3 requests at a time | `EventSound`, `FieldsKept` |
| `listing` | every list, 3 rows and one to come, limits 1 and 2, 2 writers | `PagesRight`, `OneMissPerDeparture` |
| `gateway` | every read and write with data in common, the two writes of one path, every route alone, every accepted order; 2 slots, 2 users, 2 projects, 2 items; 3 requests at a pair, 2 at a route alone or a known gap | `AnswersEntitled`, `OwnSubject`, `WritesSeen`, `LimitPerIdentity` |
| `startup` | two base environments under every profile, one variable changed in every way; 2 requests | `ProductionServesHardened`, `ServesAsConfigured`, `StopsCleanly`, `StopEnds` |
| `mailed_flows` | 1 address, 2 flows at a time, 2 changes of password, 2 codes | `SignupKeepsPromise`, `SessionsExplained`, `FeedbackStatusTrue` |

Type invariants are checked with the properties that begin with them
(`MembershipSound`, `ContentSound`, …) or on their own. **Deadlock** is checked
in every run: where a system may come to rest, a `Done` step says when.

**Bounds.** `MaxWrites`, `MaxRev`, `MaxRequests`, `MaxNow`, `MaxFaults`,
`MaxVersion`, `MaxCodes` cap counters by a guard on the action that starts
something; two constraints cut further, `FewAtOnce` (requests under way at once)
and `Small` (revisions of a chain of artifacts). Two actors of each sort are what the interleavings need: the code has
no three-way protocol, and every property relates one reader to one writer or
two writers of one row. A third request is there where a sequence needs it (an
edit that missed a commit that another had already overtaken; an invitation, its
acceptance and the delete). Two tags are needed for a pipeline that fails
between its INCRs, two projects for one map with two entries, two days and hours
for every order of two instants. In `listing` three rows and pages of one or two
put a page boundary at every place; where the key is chosen by clients, equal
keys occur. `startup` changes one variable because each rule looks at one or
two, and the base environments supply the second. `mailed_flows` has one
address: a confirmation with the code of another account is left to the proof.

**Where properties hold, and where not.** `ImmutableKept` and `TransitionsLegal`
are promises of the service's check, and the code keeps them only while no other
request of the same artifact is under way; what concurrency cannot break for the
lockable kinds and feedback is `FollowsLifecycle`, since the UPDATE's own
`WHERE` implies it. `ChosenUnderLock` excludes restores: a restore puts
`archived_from_status` back and does not ask for a locked problem. `FieldsKept`,
`SettingsSound`, `SessionsExplained`, `JoinExplained`, and `StaleEntryExplained`
name the causes by which the code may lose something, and say that there are no
others. `ServesAsConfigured` names the three variables that Lint does not read.

`WritesSeen` lists in `KnownGap` the pairs of routes that have data in common and
whose tags do not meet: content and events against the project's dashboard and
overview; the delete of a project against every cached list and detail of its
artifacts, pages, resources, members and roles; nearly everything against the home
lists; an accepted or declined invite against the project's members and roles (its
tags are the user's); what a member may do, changed by an acceptance, an update of
the member or of the role, against the access answer, and the ranks that the detail
of a task shows. `MCGateway` assumes, and TLC confirms, that each listed pair is one
whose tags do not meet (`GapsAreGaps`), so no pair is excused that the code covers;
the property, and the theorem, that there are no others.

**Fairness.** `RouteCache`: requests run to completion (weak fairness of each
reader's and writer's steps; they end by the request timeout at the latest) and
TTLs elapse; no client has to send anything and Redis does not have to fail.
`Membership`: strong fairness of a started request's steps, because PostgreSQL
grants locks in the order of waiting and ends one of two that wait for each
other (`deadlock_timeout`). `Startup`: weak fairness of the main goroutine, and
of requests only if a request timeout is configured. The other specifications
state safety only.

### What the models showed about the code

Response cache and permissions:

* A completed invalidation can stay invisible in a process that keeps tokens:
  `storeTagToken` runs after the MGET in a step of its own, and a token fetched
  before an INCR is put back after `BumpTags` cleared the map
  (`core/cache/manager.go:366`, against `docs/cache-guide.md:135,302`). Other
  replicas' tokens are not cleared at all. Hence `UncachedTokensSeeWrite` is
  about processes without tokens.
* Dashboards, home lists, rosters, the members in a task's detail and the access
  answer are cached under tags that many writes do not bump (`KnownGap`).
* The delete of a project bumps the four tags of the project alone
  (`project/routes.go:136-141`): a member whose permissions are still cached goes on
  to get the cached lists and details of its artifacts, pages, resources and team.
* A role update does not list a member who joined with an older mask: the users
  to invalidate are selected by their stored mask (`team/repo.go:296,722`,
  against `docs/workflows/team.md:61`).

Artifacts:

* Locked content can change: the service judges a status it read before the
  transaction, and the UPDATE lets every body with `status: Archived` through,
  content included (`artifacts/repo.go:323`, against
  `docs/workflows/artifacts.md:145`).
* A Considered idea cannot be edited unless its problem is Locked: without a
  status in the body `NULLIF($4,'') <> 'Selected'` is NULL (`repo.go:1340`,
  against `service_immutable_test.go:42`).
* Best-effort logging is not: a failed log INSERT aborts the transaction it runs
  in (`repo.go:2116-2126`; likewise the notifications of `resources/repo.go:404`
  and of `CreateCalendarEvent`).

Membership and projects:

* A cancelled or declined invite can still be accepted: its status is read before
  the transaction and the row count of `MarkInviteAccepted` is dropped
  (`home/service.go:218`, against `docs/ProjectBookDocs/API-GUIDELINES.md:1937`).
* Archive turns every switch of a project on and resets its delivery channel;
  saving the settings of an archived project un-archives it, since a save names
  the status (`API-GUIDELINES.md:1642`).
* Delete leaves the project's documents in MongoDB and its notifications with no
  project, and sends no DEL for the resolver's keys (`API-GUIDELINES.md:1677`).
* Writes to an archived project are not stopped; directed notifications need no
  membership.

Content, calendar, lists:

* A PATCH with only a status wipes a resource's links, which its document keeps;
  `UpdateResource` naming the current status answers 404.
* An edit of a page that names a status restores a page archived meanwhile; the
  `linkedArtifactsCount` of a list counts `artifact_links`, which pages never
  write.
* `ListResources` always answers no items: `toSlice` does not take the type its
  rows come in (`resources/dto.go:235-251`, against `API-GUIDELINES.md:3819`);
  versions of `GetResource` likewise.
* An edit of a status between two pages of a list filtered by status makes the
  client miss a row that nobody touched, as any row that leaves before it does:
  one for each (`OneMissPerDeparture`).
* Overlapping edits give a row an older `updated_at` than it had.
* Edits of derived calendar events answer 404; times sent with an event of all
  day are stored unchecked; dates are written as UTC and shown in the session's
  time zone.

Accounts, feedback, process:

* A sign-up that fails after the account was created leaves the address taken: a
  retry answers 409. A race of two sign-ups answers 500.
* A reset of a forgotten password ends no session; errors of `LogoutAll` are
  dropped; `ConfirmChangePassword` does not ask whose code it was given.
* A mail that the window cut off cannot be marked failed, and nothing sends a
  queued submission again.
* Profile `minimal` refuses to start, since project modules need the resolver
  that it disables (`project/routes.go:23-24`, against
  `docs/environment-variables.md:27`). Junk in three variables of the cache is
  taken for the default without a word (`environment-variables.md:16`).

## 4. The proofs

Theorems hold for every value of the constants, under the `ASSUME`s of the
modules: `None` and the like are no elements of the other sets, bounds are
naturals, limits, days and hours are positive, a few sets are not empty, finite or
disjoint from names the specification uses itself. No other assumption is made,
except that `LifecycleImplemented` assumes its kinds, the three theorems about
serial requests assume one handler (`OneAtATime`), and those about `Startup` name
its assumption on the environments (`EnvironmentsTyped`: variables of the program
with values that the code tells apart). TLC checks the statement of each theorem
that is listed with a property in a run of its own module.

The proofs have one shape: an inductive invariant; `Init` implies it; each action
keeps it, by a lemma of its own, with a frame lemma (`MoveKeeps`, `LocalLiving`,
…) for steps that change one request's record only; it implies the properties.

**PipelineProofs**, `RouteCache`: `TypeCorrect`, `BumpMiss` (`CurrentEntryCoversBumps`),
`StalenessExplained`, `UncachedReadsSeeWrites`, `StaleHitsUseOldTokens`. The
properties are not inductive: nothing in them speaks of fills under way. `IInv`
adds that tokens and keys are behind the versions (`TokensBehind`), that a fill
whose key is current has read the database after the last bump
(`FillCoversBumps`: the database is read after the versions, versions move after
the commit), the order of the histories (`HistoryOrder`) and that every commit
after the last bump of a tag belongs to a pending or lost INCR
(`CommitsAccounted`).

**PipelineProofs**, `Gateway`: `GatewayInvariant`, `AnswersAreEntitled`
(`AnswersEntitled`), `AnswersAreOwn` (`OwnSubject`), `WritesAreSeen`
(`WritesSeen`), `LimitsHold` (`LimitPerIdentity`). They hold for every set of
kinds, users, projects, items and requests under way, every limit and every number
of failures. The properties speak of answers only; `GatewayInv` says why an answer
will be right:

* A request in its chain (`InChain`) has in its context only what is true of it,
  and each gate behind it let it through for a reason (`OnTheWay`), from the
  permissions it held when it came in (`Held`; permissions are only taken away).
  `GatesFirst` turns the validator's stages into "every gate of the chain lies
  before whatever looks beyond the request", whatever accepted order it is.
* The key of a lookup is about the request's subject, and its versions are of the
  request's scope and no later than the present ones (`KeyOK`; `KeyIs` reads this off
  the vary dimensions). A kept answer is about what its key is about (`EntryOK`), so
  a hit is about the request.
* Of a kept answer that lacks a confirmed write in its scope, every tag that the
  write bumps has moved on since (`EntryOK`): a key of now does not find it. A
  request that is past its handler carries what it committed (`GoingOut`), and
  confirms it in the step that bumps.
* What the limiter let through is what it counted, up to the limit (`LimiterOK`),
  because the identity in its key is that of the request (`BucketIs`).

The table of routes enters by lemmas about each group of rows (`ReadsOK`,
`WritesOK`: chains and vary dimensions; `TagsMeetInProject`, `TagsMeetAtHome`:
whatever pair of a read and a write shares data, and is no `KnownGap`, shares a tag
in the same scope). A chain of any policies none of which occurs twice is covered by
`RechainedOK`. The walk is one lemma per policy (`LocalKeeps`). It is assumed that
some kind is served and that `NotMember` is no set of permissions of a route.

**ArtifactsProofs**: `DocumentIsSound` (`DocumentSound`) rests on `IInv`: a
handler past its UPDATE has its artifact's row lock (`Exclusive`), its new row is
one revision ahead of the committed one (`Ahead`), and what it handles exists
(`Alive`, `AbsentIsNew`). `LifecycleImplemented` is the refinement: with lockable
kinds and feedback only, each commit maps to a step of `ArtifactLifecycle` and
every other step to a stutter; it needs in addition that the new row of a handler
follows from the row it locked (`Living`). Ideas and tasks are excluded: their
`WHERE` trusts the service, and concurrency does break the lifecycle.
`ImmutableStays`, `MapsFollowed` and `SelectionNeedsLock` (`ImmutableKept`,
`TransitionsLegal`, `ChosenUnderLock`) say what service and SQL achieve together
for requests one at a time, in projects of any size: what the service accepted
still holds when the UPDATE runs and when it commits (`Serial`), and `UpdateObeys`
is the pure part, from an accepted body to the row that `SET` computes.

**ProcessProofs**, `PermissionCache`: `TypeCorrect`, `StampsNeverDecrease`
(`EntriesNeverGoBack`), `OnlyOneProject` (`OtherProjectsKept`), `StaleExplained`
(`StaleEntryExplained`). `IInv` adds
`Addressed` (a busy resolution has a user and a project, a busy writer what its
step needs) and `Watching`: a resolution about to EXEC either saw exactly the map
that is still there, and an entry no later than its own, or is marked dirty. This
is what WATCH buys, and both action properties follow from it.
`StaleEntryExplained` is inductive under it: each step that makes an entry stale
either leads to the DEL or is one of the named causes (`WriterExplained`).

**ProcessProofs**, `Startup`: `MainInvariant`, `MainStopsCleanly` (`StopsCleanly`),
`MainServesAsConfigured` (`ServesAsConfigured`), `MainServesHardened`
(`ProductionServesHardened`), for every set of environments and any number of
requests. `MainInv` follows the process: who is past the load has the configuration
of its environment, who is past the lint a configuration that passed it
(`MainStages`); nothing is asked or lost before the modules register (`MainQuiet`);
which clients are open at each place of the opening and of the closing order
(`MainOpen`), without which "nothing stays open" is not inductive; and what the end
owes to requests and configuration (`MainEnd`). What Lint accepts is a lemma of
its own: `TakenWhenLinted` (no later step refuses it), `HardenedWhenLinted` (under a
name of production the rules leave only hardened values).

**MembershipProofs**: `MembershipIsSound`, `JoinsAreExplained`, `ReadersSeeAll`,
`EnrolmentImplemented`.
`MembershipInv` adds what each request's locks stand for (`LocksExclusive`: no
two requests hold one row or one new key of the index), that the founder is never
invited (or an acceptance would overwrite the Owner role), and what each request
knows at each step (`Good`): its locked rows are pending, an acceptance under way
has its invite pending or in `overtaken`, a roster under construction has seen
everybody who did not move.

`EnrolmentImplemented` is the refinement `Spec => FollowsEnrolment`, one lemma per
commit (`CommitSends`, `CommitJoins`, `RosterExpires`, `CancelEnds`, `DeclineEnds`,
`UpdateChanges`, `CascadeDeletes`) and one for the rest (`OthersStutter`). It rests
on three parts of `Good` that no safety property needs: the role a request
carries is that of its invite, an invite that is still pending when it is joined by
is among the rows its request marked, and an update never names the Owner role.

**ProjectsProofs**: `SettingsAreSound`, `EveryoneIsNotifiedAsAsked`,
`DeletedStaysGone`. `ProjectsInv` adds that one request at a time has written the
project's row (`Exclusive`), and that what a request has read is what is kept, or
lost, or it has missed a commit (`Knows`).

**ContentProofs**: `ContentIsSound`, `ReadersFindNewContent`, `OnlyStaleEdits`.
`ContentInv` adds that one writer at a time is past the row's lock (`Alone`), what
its new row is compared to the old (`Holds`), that values are numbered by requests
asked so far, and that a reader is never ahead of the row.

**CalendarListingProofs**, `Calendar`: `EventIsSound`, `EventFieldsKept`. `CalendarInv` adds that
what a request would write is valid and tells of the committed requests all but
what it names, unless it missed a commit (`Knows`), and the same of the row
(`RowTells`). The arithmetic is in `Instant`, `DaysInOrder` and `InCalendar`: a day
and a time give an instant and come back from it.

**CalendarListingProofs**, `Listing`: `ListingInvariant`, `PagesAreRight`
(`PagesRight`), `MissesAreCounted` (`OneMissPerDeparture`), for any rows, transactions
and limits. "On exactly one page" says nothing of a client in the middle of its
pages. `ListingInv` adds, for each row nobody touched: as long as no answer showed
it, at least as many rows are ahead of it as the offset, unless others pushed it up;
once shown, fewer are (`PagesSoFar`); and the rows already passed over (`Missed`) are
no more than the departures (`MissesSoFar`). One change brings a row one place nearer
at most, and only if it is a departure (`OnePlaceNearer`); since no two rows without
a tie have equally many ahead (`AheadDiffers`), one row at most crosses the offset
with it. Orders are
permutations of a finite set: `PlaceOfRow` makes a row's place the number of rows
ahead of it, and `FromIs`, `FirstRows`, `PageIs`, `ShownOnPage` say which rows a page
of an offset and a limit shows.

**MailedFlowsProofs**: `SignupsKeepTheirPromise`, `SessionsAreExplained`,
`FeedbackStatusIsTrue`. `FlowsInv` adds which operations are at which step and
that an address without an account has no name yet; `MailInv` that the sent mark
is reached only behind a delivery. Both halves are proved against the composed
specification: a step of one leaves the other's variables alone, a stop hits both.

**Only model-checked.** Liveness: `StalenessEnds`, `EveryRequestAnswered` and
`StopEnds`, since liveness under fairness and ENABLED are outside the prover. Every
safety invariant and action property of the runs is stated by a theorem. No module
uses a recursive operator, so nothing depends on induction over data.

## 5. Abstractions worth knowing

* Transactions are READ COMMITTED: a statement sees what is committed when it
  runs, rows it changed stay locked, uncommitted changes are in the request's
  record.
* Failures are steps of their own: of a statement, a commit, a Redis command, a
  mail, or a stop of the process. A request timeout ends a request like a
  failure.
* History variables (`bumped`, `lost`, `kept`, `overtaken`, `excused`, `stray`,
  `moved`, `touched`, …) are read by properties only, never by a guard.
* Texts are model values or numbers of the request that wrote them.

## 6. Not modelled

* Slugs (`nextUniqueSlug` asks and inserts in two steps, guarded by a unique
  index), task assignees, the orphan flag that triggers keep, and notifications of
  the artifact module.
* Permission masks: a constant table of which bit implies which.
* The text of answers, CORS, body limits, headers, logging, metrics, tracing,
  migrations, the route document generator and other tools, health and system
  routes: they keep no state or run once.
* goAuth itself: its calls are atomic steps, external to `src/`. TOTP and backup
  codes are stubs in the code.
* SELECTs without effect: dashboards, search, the docs pages.
* The `…ForSidebar` functions of the artifacts, which nothing reaches.

## 7. Running

    tlc -workers 2 -config Artifacts.cfg MCArtifacts.tla
    tlapm ArtifactsProofs.tla

Runs take between some seconds and one minute. Definitions commented `mutant:`
are deliberately wrong variants of the operator below them, named after the slip
they make; each shows that a property can fail and none is part of a
specification.
