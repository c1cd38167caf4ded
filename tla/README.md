# Verification of the MotherDuck Terraform provider

The provider (`src/internal`, Go) manages MotherDuck through two services: SQL
on one embedded DuckDB instance that has attached MotherDuck, and a REST API
for users, tokens and ducklings. Terraform calls its resource handlers
(Create, Read, Update, Delete, ImportState), several of them in parallel, and
decides from what they write into the state and from their diagnostics what to
do next: an error in Create taints a resource, a tainted resource is deleted
and made again, a resource that Read removes is made again.

Most of what can go wrong is therefore not in one statement but in what a
handler concludes from an answer that failed, came late or was already stale.
The modules here model the two clients below all handlers and the handlers of
every resource type, check them with TLC on small instances, and prove safety
properties for all values of the constants.

## 1. Inventory

| Part | State it keeps | Operations | What is hard about it |
|---|---|---|---|
| SQL client (`client/sql`) | admission channel `sem`, pool of one connection, boot progress, default database | Exec, QueryRow+Scan, WithDatabaseUse, AttachDatabase, CurrentDatabase, ... | goroutines, deadlines while queued, a Row that keeps the admission, connections lost in the middle of the boot or of a `USE` scope |
| SQL retry (`retry`) | none | `retry.SQL`, `Sleep` | repeats only what may be repeated |
| REST client (`client/rest`) | none between requests | `do`, `doWithRetry`, `collectPages`, one method per endpoint | lost and late requests, repeated ones, offset pages that shift, page tokens in circles |
| Service account (`rest_resources.go`) | username in the Terraform state | Create, Read, Update, Delete, Import | no lookup by name; Delete of a human may drop an organization |
| Access token (`rest_resources.go`) | token ID and secret | Create, Read, Update, Delete, Import | a lost answer leaves a token nobody can revoke |
| Duckling configuration (`rest_resources.go`) | the configuration as read | put, Read, Delete, plan modifier | the PUT replaces everything; cooldowns carried over from the state |
| Flight run (`flight_run_resource.go`) | run number, last status, settings | Create (+ wait), Read, Update, Delete (+ cancel) | a run starts production work; an error after the start means a second one |
| Flight (`flight_resource.go`) | Flight and its version | CRUD, Import | two statements per update |
| Dive, Guide (`dive_resource.go`, `guide_resource.go`) | content version, status, access | CRUD, Import | updates of several statements, each of which may fail |
| Database (`database_resource.go`) | name and options | CRUD, Import | CREATE selects nothing, DROP needs the session elsewhere |
| Snapshot (`snapshot_resource.go`) | snapshot ID and name | Create, Read, rename, unname | outlives its database; found by ID, else by name |
| Share, share grant, secure view | share, grantees, view text | CRUD, Import | a failed read-back must not taint |
| Schema, table, view, secret, role, role assignment | names, columns, definition, scope | CRUD, Import | one name, three notions of letter case; types and definitions come back in another spelling; CREATE is not repeated, DROP is |
| Provider configuration (`provider`, `providerctx`) | settings, the one SQL client | Configure, SQLClient | built lazily under a mutex |
| Data sources, embed sessions, validators, SQL text | none | reads, pure functions | nothing changes |

How they interact: every SQL handler calls `providerctx.SQLClient` and then the
methods of the one client; a handler makes several client calls, each admitted
on its own, so other handlers run between them. REST handlers share nothing but
the API. `retry.SQL` wraps single client calls, `doWithRetry` single requests.
Nothing persists but Terraform's state, which is written when a handler returns
(Create and Update set it more than once).

What makes each part correct:

* SQL client: one operation at a time; a `USE` of one handler is never seen by
  another; no statement reaches DuckDB before MotherDuck is attached; the
  token is not set again; queued calls observe their deadlines.
* REST client: at most one effect of a POST; success reported only for what
  happened; all attempts used; walks and requests end.
* Service account: live accounts are not forgotten, human users are not
  deleted, accounts made by others are not taken over.
* Flight run: production starts once per intent; refresh forgets only what is
  gone; what the state says is true of the resource's own run; waits end.
* Snapshot: a named snapshot is in the state, or a diagnostic spoke of it;
  refresh and update stay with the one the state has.
* Dive, Guide, Flight: an object is in the state as soon as it has an ID; a
  version is not appended again without a reason; a failed follow-up statement
  replaces nothing; an apply without a diagnostic did what was configured.
* Catalog objects: nothing is dropped for a change of letter case or of
  spelling; an object that was made is in the state; a refresh takes the row of
  the object that the statements act on; a secure view stays on its share.
* Access token: a live token is in the state with its own secret, or a
  diagnostic spoke of it.
* Duckling configuration: a PUT writes what is configured and keeps what is not
  managed.
* All but the clients: repeated applies settle, once nothing interferes any more.

## 2. Modules

| Module | Models | Extends |
|---|---|---|
| `SqlSession` | the SQL client and the goroutines that call it | |
| `SerialSession` | abstract: exclusive sessions on a connection that always comes home | |
| `MCSqlSession` | symmetry for TLC | `SqlSession` |
| `SqlSession_proofs` | theorems | `SqlSession` |
| `RestCall` | one REST request, from `do` to the API and back | instantiates `RestContract` |
| `RestContract` | abstract: what a handler may assume of one request | |
| `RestCall_proofs` | theorems | `RestCall` |
| `ServiceAccount` | the service account resource, the user listing, the other users | |
| `MCServiceAccount` | a small organization | `ServiceAccount` |
| `ServiceAccount_proofs` | theorems | `ServiceAccount` |
| `FlightRun` | the Flight run resource, the schedule, the listing, the grants | |
| `FlightRun_proofs` | theorems | `FlightRun` |
| `Snapshot` | the snapshot resource, its database, the catalog, the other users | |
| `Snapshot_proofs` | theorems | `Snapshot` |
| `ManagedObject` | abstract: what an apply may make, keep and destroy of the objects of a resource | |
| `AppContent` | the Dive, Guide and Flight resources, their versions, the session's functions | instantiates `ManagedObject` |
| `AppContent_proofs` | theorems | `AppContent` |
| `CatalogObject` | eleven resource types whose object has a name in the SQL catalog | instantiates `ManagedObject` |
| `CatalogObject_proofs` | theorems | `CatalogObject` |
| `AdminUser` | what the resources of one user have in common | |
| `AccessToken` | the access token resource and the token listing | `AdminUser` |
| `DucklingConfig` | the Duckling configuration resource and its plan modifier | `AdminUser` |
| `UserResources` | one of the two, with the user coming and going | `AccessToken`, `DucklingConfig` |
| `UserResources_proofs` | theorems | `UserResources` |

In every module a definition named `Slip...` is the definition after it as a
plausible mistake would have it. No action uses it; substituting it makes a run
fail, which shows that the property can fail.

### SqlSession

`sem` is the channel's content, `pc`, `ctx`, `kind` and `target` are one
goroutine's call, `previous`, `discard` and `once` its locals; `conn` is the
database the pooled connection has selected, `None` when there is no connection;
`next`, `initialized` and `defaultDatabase` are the fields of
`oneTimeInitializer`; `attached` and `dbs` are the DuckDB instance and
MotherDuck. A statement is kept only as far as the session depends on it: `USE`,
`CREATE DATABASE`, `DROP DATABASE`, or anything else.

A call goes `idle`, `queued`, `admitted`, perhaps `boot`, then `run` (Exec),
`run`, `row`, `scanned` (QueryRow and Scan; the Row keeps the admission, a
second Scan or a Close comes after it was given up) or `prev`, `use`, `scoped`,
`restore`, `close` (WithDatabaseUse), then `release`. `Checkout`, `Open` and
the `Boot...` actions are the pool and the connector; `BootFails` and
`BootRefused` close the new connection and leave `next` where it is. `follow`
chains the calls of a database resource's Delete: CurrentDatabase, the reset to
`memory`, the drop. `Cancel`, `Lose` and `ExternalDrop` are the environment: a
context ends, the idle connection breaks, another client drops a database.
A fault of a call is a done context, a missing object, or one of `MaxFaults`
transport faults.

`SerialSession` says what handlers rely on: a client enters a session as the
last one left it, selects what it likes, and leaves on no connection, the base
database or a home that never changes. `ImplementsSerial` is the refinement:
the owner is whoever holds the admission.

### RestCall

`attempt` is the loop variable, `wire` the attempts whose copy of the request
is still under way, `reply` the answer to the current attempt, `applied` how
often the API carried the request out. `Send`, `Answered`, `RedirectRefused`,
`TransportError`, `Wake` and `SleepCancelled` are `doWithRetry`; `Process`,
`TurnAway` and `Drop` are the network and the API, which may act on a copy after
its attempt timed out and after `do` returned. `RestContract` reduces that to
two actions: the server acts (at most once if the request is not repeatable,
even late), and the request returns (a success only if the server acted).

### ServiceAccount

One username. `users` are the organization's users, as IDs in listing order; an
ID belongs to `Named` if its user has the username and to `Services` if it is a
service account. `FetchPage` and `PagesLoop` are `collectPages`, one page per
step, with the cursor as offset, so that `Appears` and `Elsewhere` (others
create and delete users) shift pages under the walk; `Match` and `NoMatch` are
`findUser` and its two passes; `Gone` and `Unconfirmed` the probe of
`confirmUserGone`. A POST goes on the wire when Create begins and takes effect
in `ProcessPost`, once or never; a DELETE takes effect in `ProcessDelete`, any
number of times while it is on the wire. Both may happen after the handler gave
up: that is what `RestContract` allows. `StrayTokens` are page tokens that the
API hands out against all order; a walk that meets one may be incomplete, which
ends `calm`. `since` and `victims` are history: which
users had ever existed when a handler began, and whom its DELETE removed.

### FlightRun

`last`, `status`, `listed`, `purged` and `access` are the Flight's runs as
MotherDuck has them; `tf`, `recorded`, `saved`, `waits`, `cancels` the resource
in the state; `op`, `pc`, `observed`, `late`, `ctx`, `page`, `first` the handler
that runs. `waits` is the configured wait of a Create that runs, FALSE at any other
time. `Start` is `MD_RUN_FLIGHT`, which may start a run whose number never
arrives; the status it answers with is any. "failed" stands for every status that
`flightRunFailed` counts, "cancelled" among them. `WaitSucceeded` ... `PollFails` are the loop of `waitForFlightRun`,
`ReadStatus`, `ReadPage` and `ReadUnseen` the two ways of Read to find a run and
the look at the parent Flight, `Delete` and `CancelUnanswered` the cancellation.
`Functions` are the read functions the session exposes, which the provider
probes first. `Schedule`, `List`, `Purge`, `Progress` and `Grants` are MotherDuck:
other runs start, the listing lags, old runs go away, grants change. Of a run of
the schedule only its place in the listing matters, so it is over at once; the
resource's own change their status at any time. `mine`, `excused`, `fresh` and
`watch` are history: `fresh` counts the runs listed since the page before, and
`watch` says that the run of the state has been listed all along and that fewer
runs than a page were fresh between any two pages. It is a premise of
`WalkFindsListed`, no guard of `ReadPage`.

Terraform's share is in `Leave`, `Taint` and `Begin`: an error in Create taints
what is in the state, a tainted resource is deleted, a resource that is not in
the state is created.

### Snapshot

`last`, `title`, `dbs`, `current`, `listed` are MotherDuck: the snapshots of
databases of the resource's database name, their names, which databases exist,
which snapshots belong to the database that exists now, and which ones the
catalog shows. `tf`, `id`, `name` are the state, where a snapshot that could
not be read back has no ID; `op`, `pc`, `mid`, `mname`, `chosen` the handler
that runs, with its model and the database it selects. `FoundById`, `Cleared`,
`NotListed`, `FoundByName` and `Unlisted` are the two queries of
`readSnapshotStatus`; `Recover`, `Attach`, `ChooseNative` and `Unname` are
Delete, which has to find an ID and some native database to work from.
`CreateLost`, `RenameLost` and `UnnameLost` are statements that took effect and
whose answer was lost, `Fails` those that had none.

Others drop the database, make snapshots, rename and clear them; the catalog
lists a snapshot late and may stop listing one that has no name or no database.
`mine`, `told` and `calm` are history: the snapshots the resource made or
imported, those a diagnostic gave up, and whether the account has been calm:
nobody else has created the database again or given a snapshot a name of the
resource, and no database was dropped while a destroy ran.

### AppContent

`live` has every object there has been, as five fields: `desc` (a description,
a Flight's token name), `text` and `note` (what a version carries), `api` (the
API version of a Dive's version) and `aud` (status, access or instance type).
`tf` is the state: an ID, the taint, and the fields as recorded. `kind` is the
resource type, `offers` the functions of the session, `admin` what the user may
do.

`CreateStatement`, `Audience`, `ReadNew`, `WriteNote`, `ReadNote`,
`WriteStatus`, `ReadStatus` are the Create of the three types, one action per
statement; `StartUpdate` computes the statements of an Update (`DiveStatements`,
`GuideStatements`, `FlightStatements`) from plan and state, `Write` sends them
one by one, `ReadBack` ends it or keeps what an Update that failed has done.
Each statement is refused for good, fails, takes effect without an answer, or
works. `Edit` and `Outside` are the practitioner and everybody else. `stale`,
`excuse`, `read` and `lost` are history: what the state could not know.

### CatalogObject

Schema, table, view, secret, share, share grant, secure view, role, role
assignment, database and Iceberg database follow one protocol and differ in
tables of decisions: which names are equal (`CatalogNamesEqual`, `EqualFold`),
which row a query takes (`Found`), what a plan replaces (`Replaces`), whether a
write is read back and what its failure means (`WriteOf`), what Update sends
(`Updates`), what Delete takes for absence (`DeleteOf`) and what Read records
(`Reading`). A name is a word, the case of its non-ASCII letter and the case of
its ASCII letters, because DuckDB folds only the latter, MotherDuck both and
`lower()` in a query both. A body is one of three: one as MotherDuck reports it,
another spelling of it, and another body. `misled` is history: keys whose object
a Delete gave up for a not-found error about something else.

### ManagedObject

What both modules promise of the objects at MotherDuck, without statements,
handlers or read-backs: `wanted` says whether the configuration asks for the
object, `present` which objects exist, `strays` which of them no state needs to
name, `held` the one the state names, `doubted` its taint. An object is made
(`Make`) only if it is wanted and none is held, and is then held unless the answer
was lost; it is taken over (`Adopt`), made again by an update (`Restore`), read
back (`Trust`, after which it is not doubted again); it is destroyed (`Destroy`)
or given up (`GiveUp`) only if it is not wanted or doubted; and it is forgotten
(`Forget`) only when it is gone. `Meddle` is everybody else. In `AppContent` the
objects are IDs, `wanted` is any configuration, and the strays are those whose
create statement had no answer (`lost`). In `CatalogObject` they are the keys of
the catalog, `wanted` is a configuration that does not replace what is held, and
the strays are also what others made and what a misled Delete gave up. All the
statements of a handler but the create and the drop are stutters there.

### AccessToken, DucklingConfig, UserResources

`UserResources` configures one of the two (`managed`) for a user who is deleted
and comes back. `AccessToken` has `tokens` and `live`, the configuration `want`
and the state `held`; `CreateToken` is the POST with every way it can fail,
`late` one that is carried out after Create gave up (`LateMint`); `FetchTokens`
is one page of the listing walk, `Verdict` what Read concludes after the last
page. `told` is history: the tokens that left the state with a warning.

`DucklingConfig` has `stored`, the configuration at MotherDuck, `limited`, a plan
that allows Pulse only, `dwant` and `dheld`. `StartPut` is the plan with
`ducklingCooldownPlanModifier`, `PutDuckling` the PUT with its attempts and its
answer, `LatePut` an attempt without an answer that is carried out after a later
one was answered or after the handler gave up. `respelled` says that the username
has another letter case in the configuration than in the state, which an Update
sends as a PUT like any other. `fresh` is history: the state was still true when
the plan was made. One half of the configuration (read-write) stands for both.

## 3. Runs

| Run | Instance | Shows |
|---|---|---|
| `session` | 3 goroutines, 2 databases, 1 fault, an outside dropper | `OneAdmitted`, `UseConfined`, `BootInOrder`, `ScopeRestores`, `ImplementsSerial` |
| `session_live` | 2 goroutines, attach mode set, admitted calls may hang | `QueuedObservesDeadline`, and `Served` if none hangs |
| `rest_call` | 4 attempts, fair | `PostAtMostOnce`, `UsesEveryAttempt`, `Returns`, `ImplementsContract` |
| `service_account` | 5 user IDs, pages of 1, 2 handlers, 1 stray page token, fair | `HumansSpared`, `ForgetsOnlyGone`, `NoTakeover`, `CalmWalkIsExact`, `WalkEnds` |
| `flight_run` | 5 runs, 2 of them the resource's, 2 pages of 2 | `SecondRunJustified`, `TaintIsNews`, `CleanEndings`, `WalkFindsListed` |
| `flight_wait` | 2 runs, 1 page of 2, read by number or listed, fair | `WaitEnds`, `RecordsOwnRun` |
| `flight_null_config` | 2 runs, a null in `config` | `TaintIsNews` fails: a bug (section 6) |
| `snapshot` | 2 snapshots, 2 names | `NoSilentOrphan`, `UnlistedIsAnnounced` (both in a calm account), `KeepsListed` |
| `snapshot_vanished` | 1 snapshot | `OrphansAreTold` fails: a bug (section 6) |
| `app_content` | 3 kinds, 3 objects, 1 failure, 1 edit, 1 outside event, fair | `ImplementsManaged`, `RepeatsExcused`, `AppliedOrTold`, `ReadNeverReplaced`, `NoSilentMigration`, `Converges` |
| `catalog_object` | 11 kinds, 1 word in 3 spellings, 1 failure, 2 edits, 2 outside events, fair | `ImplementsManaged`, `DropsJustified`, `NamesAgree`, `AppliedOrTold`, `Converges` |
| `user_resources` | 2 tokens, pages of 1, 3 sizes, 1 failure, 1 edit, 2 outside events, fair | `TokensAccounted`, `AppliedAsAsked`, `UnsetKeepsLive`, `Converges` |

Several of these are conjunctions of properties that belong together and are
named on their own in the module: `UseConfined`, `BootInOrder`, `NamesAgree`,
`TokensAccounted`, `AppliedAsAsked`. Each conjunct has a mutant of its own.
Type correctness is proved (section 5) and therefore in no run.

Why the bounds are enough to meet the interesting cases:

* Three goroutines: one admitted, one queued that is cancelled, one that takes
  the admission meanwhile. Two databases: the default, and one that a scope
  selects. One fault hits every step of every call once; context ends and lost
  idle connections are not counted as faults of a statement. Goroutines are
  interchangeable, so the run of invariants uses symmetry; the liveness runs
  do not.
* Four attempts are the constant in the code.
* Pages of one make every creation and deletion shift a boundary. The five
  users are a colleague's service account, another human, a human who has the
  username first, the account, and the account created again; two handlers are
  needed for a late POST or DELETE of the first to meet the second.
* Five runs of a Flight in pages of two (`flight_run`): one run that arrives between
  two pages moves the last row of the first page to the second, without voiding the
  premise of `WalkFindsListed` (fewer than `PageSize` fresh runs), and the row of the
  run may be beyond the `MaxPages` pages that the walk reads. Of
  the five the resource starts at most two (`MaxStarts`), its own and the one after
  a taint or a lost answer, and at most two are not listed (`MaxUnlisted`); both
  bound the environment and nothing else. The two runs of `flight_wait` are its own
  and a neighbour on the same page.
* Two snapshots are the resource's own and its double: one somebody else made
  under the same name, or a second own one after the answer about the first was
  lost. Two names make a rename.
* Three objects of `AppContent` are one, its replacement after a taint, and one
  more behind a lost answer. One failure meets every statement of every handler
  and one outside event every moment between two statements.
* One word of `CatalogObject` in three spellings has a pair that differs in ASCII
  case and a pair that differs in non-ASCII case, which is what the three notions
  of equality tell apart. Two outside events drop an object and make another
  under the neighbouring name; two edits change a thing and change it back.
* Two tokens of `UserResources` are the resource's own and its successor or
  namesake; pages of one put them on two pages. Three sizes are Pulse and two
  with cooldowns.

Deadlock is not checked where the modelled world can come to rest: a request
that has returned (`RestCall`), an organization whose IDs are used up
(`ServiceAccount`), and a resource that is neither configured nor in the state
(`AppContent`, `CatalogObject`, `UserResources`). `SqlSession`, `FlightRun` and
`Snapshot` never deadlock.

## 4. Fairness

* `SqlSession!HungSpec`: a `select` whose context is done wakes up
  (`WF Abandon`), and nothing else: the deadline of a queued call must not
  depend on the admitted statement ever returning. `Served` assumes more, in
  its premise `Scheduled`: driver calls return, so an admitted call keeps moving
  (`WF Work`), and a Go channel serves blocked senders in their order, so a call
  for which the channel has room again and again gets in (`SF Acquire`).
* `RestCall!FairSpec`: `http.Client` has a timeout and the timers of
  `retry.Sleep` fire (`WF Client`). Nothing is assumed of the network.
* `ServiceAccount!FairSpec`: requests return (`WF Handler`), by `Returns` above.
* `FlightRun!FairSpec`: statements return (`WF Handler`) and time passes
  (`WF Clock`). Nothing makes the run end.
* `AppContent!FairSpec`, `CatalogObject!FairSpec`, `UserResources!FairSpec`:
  statements and requests return (`WF Handler`), each of them having a deadline,
  and the practitioner runs `terraform apply` again and again (`SF` of refresh and
  of each start of a handler: one disables the other while it runs, so weak
  fairness would say nothing). `Converges` is about such a practitioner; its
  premise `Feasible` says that what is configured can be had.

## 5. Proofs

Assumptions are those the modules name: the special values differ from the
sets they are not members of (`NamesAssumption`, `IdsAssumption`), bounds are
numbers (`SettingsAssumption`, `AttemptsAssumption`, `PagingAssumption`,
`PageAssumption`, `SnapshotAssumption`, `AdminUserAssumption`,
`AccessTokenAssumption`, `NoneIsNoToken`, `DucklingAssumption`,
`AppContentAssumption`, `NoneIsNoContent`, `CatalogObjectAssumption`,
`NoneIsNoObject`). The sets of goroutines and databases need not be finite.

Each proof module shows that `IInv` holds initially and survives every action
(one lemma per conjunct or per group of actions), and derives the properties
from it. Why the properties need a stronger invariant:

* `SqlSession`: `CallsInv` says what a goroutine's locals are worth at each
  point; `BootInv` ties `attached`, `next` and `initialized`; `HomeInv` says
  that the connection is away from home only while some goroutine is at a
  point where it will restore or discard it, and that `previous` is a home.
  `OneAdmitted` is what makes "some goroutine" unique. `ClientImplementsSerial`
  maps every step to a step or a stutter of `SerialSession`.
* `RestCall`: `CallInv` counts: the times the request was carried out and the
  copies still under way are never more than the copies sent. With one attempt
  for a POST that gives `PostAtMostOnce`, and the bound of the contract.
* `ServiceAccount`: `KnowledgeInv` says what a handler may conclude. Usernames
  are unique and IDs are never reused, so a page that has shown a service
  account of the name proves that no human who was there when the handler
  started has it or will have it; that outlives every page shift and every
  late DELETE. `WalkInv` is about a walk that nobody disturbs: what it has
  collected is the listing up to the cursor. That rests on two lemmas about
  offsets as cardinalities: an offset is below the size of the listing, and a
  page extends a prefix of the listing to a longer one (`PagesExtendThePrefix`).
* `FlightRun`: `RunInv` says that all but the recorded run are excused, and
  that neither the state nor the handler's model is ahead of the run.
  `TaintsAreNews` assumes that no value of `config` is null: with one it fails.
  `WalkInv` says that a run that was listed all along has a rank at or beyond
  the next page while the walk has not shown it. Ranks only grow, because purges
  take the oldest runs (`PurgingSpares`) and new ones are listed first
  (`ListingShifts`). Ranks are dense (`RanksAreDense`), so a full page is an
  interval of ranks and shows every run of these ranks. As long as fewer
  runs than a page are new, the first row of the page before is not in this one,
  so the walk does not take two pages for the same and stop early.
* `Snapshot`: `ListedInv` says that a lookup by name means that the lookup by ID
  was in vain, which gives `ListedKept` for every account. `OwnInv` is about the
  calm one: names are unique, at most one named snapshot is untold, the state or
  the Create that reads it back has it, and a name by which the resource looks
  it up is of no other. `CalmInv` says `calm => OwnInv`; `NoneForgotten` and
  `UnlistedAnnounced` follow. Their properties have the premise `calm`, too, and
  the two findings are what happens without it.

* `UserResources`: `HandlerInv` and `ApiInv` say that the state has a token that
  was made, that a Create runs with an empty state only, and that a user who is
  gone has no live token; `PlanInv` says that the plan under way is the one for
  the configuration and the state, and that the state is what MotherDuck has
  unless something happened outside. That is why a cooldown that was carried
  over from the state is the live one.

* `AppContent`: `HandlerInv` says what a handler's model and its `plan` are worth
  at each point; `TodoInv` that every statement an Update has still to send has
  a reason in plan and state, also after an earlier statement moved the state;
  `SightInv` how far the state sees the last version of the object: what it does
  not see came from outside, or is a version of its own whose answer was lost.
  That is why a version that is appended again is excused and why no statement
  moves a Dive to another API version behind the configuration's back.
  `ContentIsManaged` maps every step to a step or a stutter of `ManagedObject`. It
  needs of `IInv` that an Update and a follow-up statement find no taint, that a
  Create's model is the configuration, and that a Delete has a reason.
  `ApplyInv` ties the read-back at the end to what the statements before it
  left at MotherDuck: `CreatedSoFar` for the statements of a Create, where a
  follow-up that failed has already cost a warning, and `UpdatedSoFar` for those
  of an Update, where every field that no statement has still to write is as
  configured. The base of the latter is `StatementsCover`: a field whose statement
  is not planned is the configured one already. `NotesInv` is there because a
  Flight's versions have no description.
* `CatalogObject`: `CatalogInv` says that the object under a key has a name of
  that key, and that there is none without its parent; `HandlerInv` that the
  name in the plan of an update is one and the same object for the statement,
  for the catalog query and for the state, and that a Delete under way has a
  reason. The lemma behind it, `ReplacesFacts`, goes through the comparison of
  each type: a plan that replaces nothing has a name of the same key, and a plan
  that does has another one. `ApplyInv` says that, unless somebody interfered,
  the object is what the state says until the statement of an update is sent, and
  what the model asks for from then on (`UnsentFulfils`, `WrittenFulfils`);
  `SeesOwn` that a read-back, whose query matches names as the catalog does, finds
  this object and no other; `ReadingBackSettles` that the state it makes of the
  row is the one a refresh would make. `CatalogIsManaged` maps every step to one of
  `ManagedObject`: because the name in a plan has the key of the name in the state
  (`HandlerInv`), a change of spelling does not show; because an update replaces
  nothing and is of an object without taint (`ApplyInv`), a `CREATE OR REPLACE` of
  what somebody dropped is a `Restore`; because nothing is without its parent
  (`CatalogInv`), a Delete that finds no parent forgets nothing that exists.
  `OrphansUnanswered`, here and in `AppContent`, is a part of `IInv` and says of a
  state what `ManagedObject` says of the steps that lead to it.

The theorems are: type correctness of the eight modules; `ExclusiveAdmission`,
`UseNeverLeaks`, `CallbackOnTarget`, `TokenSetOnce`, `AttachedBeforeStatements`,
`UseStaysConfined`, `BootsInOrder`, `ScopesRestore`, `ClientImplementsSerial`;
`CreatesOnce`, `NoFalseSuccess`,
`GivesUpAtTheEnd`, `AlwaysAnswers`, `RequestKeepsContract`; `NoHumanDeleted`,
`NeverForgotten`, `CreatesItsOwn`, `CalmWalksAreExact`; `OwnRun`, `RestartsJustified`,
`TaintsAreNews`, `EndingsAreClean`, `WalksFindTheListed`; `ListedKept`, `NoneForgotten`,
`UnlistedAnnounced`; `CredentialsAccounted`, `LossTold`, `AppliesDoAsAsked`,
`UnmanagedKept`; `OrphansAreUnanswered`, `RepeatsAreExcused`,
`ReadIsNeverReplaced`, `NoMigrationIsSilent`, `WritesAreAppliedOrTold`,
`ContentIsManaged` of `AppContent`; `OrphansAreUnanswered`, `DropsAreJustified`,
`NamesAreAgreed`, `WritesAreAppliedOrTold`, `CatalogIsManaged` of `CatalogObject`.

So every safety property that a run checks and that is expected to hold is a
theorem, too. Only model-checked are the eight liveness properties (`Served`,
`QueuedObservesDeadline`, `Returns`, `WalkEnds`, `WaitEnds` and the three
`Converges`): fairness and ENABLED are beyond the prover.

## 6. Findings

* `flight_null_config`: Create of a Flight run collects the error about a null
  in `config` and starts the run all the same; the error then taints the run
  and every apply starts another one.
* `snapshot_vanished`: Delete takes an error about the database it selects for
  the absence of the snapshot (`isNotFound`), and drops a snapshot that keeps
  its name from the state without a diagnostic.

Limitations that the models have and no property rules out:

* Every connection after the first selects the default database recorded at
  boot (`client/sql/client.go:79-81`). If a database resource drops that
  database, the session goes on until its connection is replaced, and from then
  on every SQL operation reports the error of that `USE`.
* After a database was created again, refresh takes a new snapshot of the same
  name for the one the catalog no longer lists; `docs/resources/snapshot.md:38-40`
  promises a warning for a snapshot that is no longer listed.
* Delete of a schema, relation, secret, grant or role assignment takes every
  not-found error for the absence of its object (`share_grant_resource.go:149`),
  which Read avoids with `isNotFoundFor`.
* A view keeps the definition it stored at its last write
  (`view_resource.go:128`). If the configuration adopts a definition that
  somebody else made, nothing is written and the stored one stays; undoing it
  outside Terraform later is not seen (`docs/guides/terraform-best-practices.md:166`
  says that such changes appear as drift).
* A PUT of a Duckling configuration that was planned before somebody else
  changed a cooldown writes the old one back: the API has no conditional PUT.
  A default cooldown that GET filled in is written back as a stored one. This
  holds, too, for a change that is only about the letter case of the username,
  which "is applied in place without an API call" according to the comment at
  `common.go:524-525`: that is so for an access token and a service account, while
  the Update of a Duckling configuration sends the PUT (`rest_resources.go:816`).
* If all boot statements have run and only the read of the current database
  fails, the next connection, on which no boot statement runs, records its own
  database as the default.
* While a wait is live, a failing status query is an error and taints a healthy
  run. The tests expect the error (`TestFlightWaitBoundsStatusQuery`), so
  `TaintIsNews` allows it.

## 7. Not modelled

* The text of statements and error messages, and the classification of errors
  by their text: which class an error falls into is a choice of the environment.
* Attributes that no decision depends on (descriptions, comments, timestamps).
* Validators and the plan modifiers that only compare text. Configurations are
  those the validators let through; the modifiers on which a statement depends
  (Duckling cooldowns, API version and note of a Dive, names, column types,
  secret scopes) are modelled.
* `retry.SQL`'s count of attempts and its backoff. In `SqlSession` a repeated
  drop is repeated as often as there are faults; in `FlightRun` a repeated read
  or cancellation is one step with the outcomes all its attempts can have.
* DuckDB and MotherDuck beyond what the handlers observe. What the modules say
  of them is marked external in the map of definitions.
* Data sources, embed sessions, SQL text, the documentation runner: no state.
* `providerctx`: the client is built once under a mutex that is held throughout.
* The cache of function probes, which lives for one handler and keeps no error.

## 8. Plan

What is left, in this order:

1. `DatabaseLifecycle`: the handlers of two database resources in parallel on the
   interface of `SerialSession`: does the reset of the default database suffice
   between two admissions?
2. The lazily built client of `providerctx` in front of the session, and the four
   attempts of `retry.SQL`.
