# LabServer, specified in TLA+

LabServer is a small planning and monitoring system for the servers of a lab. A
*Core* (FastAPI over one SQLite file) keeps users, sessions, servers and plans
("who intends to use which server when"), answers which plans collide, and shows
a dashboard that it fetches from a Beszel Hub and from collectors on the GPU
hosts. A *Web* application renders pages over the Core's HTTP API. Both run in
containers; the Core's container upgrades the database file before it starts.

This directory holds models of the Core, of the web frontend and of an
installation (migrations, containers, backup and restore), the TLC configurations
that check them on small instances, and proofs of what matters most for every
instance. Paths below are relative to the repository.

1. Inventory of the system
2. Modules
3. What the threads share: the one modelling decision that everything rests on
4. Runs: what is checked, with which bounds, and what it shows
5. Disagreements between the code and its documents
6. Fairness
7. Proofs
8. What is not modelled, and the plan

## 1. Inventory of the system

`core/` stands for `src/services/core/src/labserver_core/`.

| Component | State | Operations | Module |
|---|---|---|---|
| Plan service (`core/application/plan_service.py`) | rows of `plan_entries` | create, update (PATCH), cancel; get, list, conflicts only read | `PlanService`, `PlanData` |
| Plan contracts (`packages/contracts/.../plans.py`) | none | validation of bodies and of merged plans | `PlanData` |
| Audit trail (`persistence/repositories.py`) | rows of `audit_events` | add, in the same transaction as the plan | `PlanService` |
| Persistence (`core/persistence/`) | the SQLite file, one session per request | get, save, add, commit, rollback | `PlanService`, `Accounts` |
| Conflict evaluation (`core/domain/conflicts.py`) | none | `evaluate_plan_conflicts` | `Conflicts` |
| User accounts (`core/application/user_service.py`) | rows of `users` | create, update, set password; list only reads | `Accounts` |
| Login sessions (`core/application/auth_service.py`) | rows of `auth_sessions` | login, resolve (prunes), logout | `Accounts` |
| `core/bootstrap_admin.py` | none of its own | create or promote the first administrator | `Accounts` |
| Server registry (`core/application/server_service.py`, `core/seed_servers.py`) | rows of `managed_servers` | create, list, get; `update_server` has no caller | in part in `PlanService`, `Runtime`, `Web` |
| Dashboard (`core/application/monitoring_service.py`, `core/adapters/monitoring.py`) | cached records and their time, token, a lock | `get_dashboard`, `get_server_metrics` | `Dashboard` |
| Runtime store and service (`core/application/runtime_store.py`, `runtime_service.py`) | last report per server, in memory | `submit_report`, `get_overview`, `get_server_runtime` | `Runtime` |
| Collector (`ops/labserver-collector.py`) | none | one run: clock, devices, one POST | `Runtime` |
| Web frontend (`apps/web/.../routes/`, `auth.py`, `time.py`) | each browser's cookie | login, logout, schedule, publish, edit, cancel, provision, reset password, toggle; users, dashboard and running pages only show an answer | `Web` |
| Web client (`apps/web/.../clients/core.py`) | one HTTP client with its cookie jar | one HTTP call per method, errors, timeout | `Web` |
| Migrations (`services/core/migrations/`) | the schema | three revisions, statement by statement; no program runs the downgrades | `Migrations` |
| Operations (`ops/entrypoint-core.sh`, `backup.sh`, `restore.sh`, `docker-compose.yml`) | the database file, its journal, containers, a backup | upgrade and start, backup, restore | `Deployment` |
| `ops/smoke-loopback.sh` | none | reads from a running installation | no |
| Wiring, configuration, error mapping | none | construction, exceptions to status codes | no |

**How they interact.** Web calls the Core over HTTP. Every Core endpoint but
login first resolves the session cookie to an actor, in a session of the
database of its own; the handler then opens a second one. Plan, user, server and
auth handlers are plain functions, so the framework runs them in a thread pool,
and they meet in the SQLite file and nowhere else. `get_dashboard` is a coroutine:
it runs on the event loop, calls the database synchronously and the Hub
asynchronously, and meets other dashboard requests at the adapter's cache, its
lock and the connection pool. `bootstrap_admin` and `seed_servers` are processes
of their own on the same file. Collectors are started on the GPU hosts by cron or a
timer and post reports, which the Core keeps in a dictionary under a thread lock and
sets against the plans of the moment when somebody looks. The scripts start one-off
containers of the Core's image, which run the same entrypoint, on the same volume.

**What is hard, and which properties answer it.**

* *Plans.* A handler is a read-check-write over copies, with no version column
  and no lock: two requests on one plan interleave at every SELECT, and what an
  UPDATE writes depends on a second reading. A correct plan service keeps every
  committed plan valid although bodies are partial (`RowsValidWindow`,
  `SerialKeepsContract`), on an enabled server (`RowsOnEnabledServers`), explained by the
  audit trail (`RowsExplainedByAudits`), changed only by those who may and only with
  an event (`ChangesAuditedAndAllowed`, `AnswersAudited`), and cancelled once
  (`CancelKeepsFirst`, `CancelFinalOnceQuiet`). Handlers may die anywhere.
* *Conflicts.* A sweep over pieces of the candidate's window, three kinds of
  reports, and a merge of adjacent pieces. Correct means: what a look at every
  unit of time finds, and each fact once (`CapacityReported`, `DevicesReported`,
  `ReportsMaximal`, `MixedIntentIsUncertain`).
* *Accounts and sessions.* Names are checked in one step and inserted in another;
  logout, expiry and pruning overlap with requests that use the session; several
  administrators can disable or demote one another; a user update writes a copy of
  the whole row (`UsernamesUnique`, `EndedSessionsStayEnded`,
  `LockoutNeedsBootstrap`, `RotationsKept`).
* *Dashboard.* Requests share one refresh; the Hub is slow, fails, and forgets
  tokens, which it may show as an empty list with status 200; a full connection
  pool blocks the event loop; a card has the age of its record, of the list and of the
  cache (`RefreshesCollapse`, `AnswersRecent`, `AnswersNeverGoBack`,
  `CardTellsTheTruth`, `EveryRequestAnswered`).
* *Runtime.* The store keeps what arrived last, not what was measured last; report
  and freshness are read in two lock sections; users, plans and hosts are read one
  after the other while they change; a restart forgets the reports. Correct means:
  fresh is what somebody has measured lately (`FreshMeansObserved`,
  `ShownAsFreshIsRecent`), and a process is called planned if and only if a plan
  announces it (`MatchedHasPlan`, `PlannedIsNotBlamed`).
* *Web.* A page is a series of calls with no transaction around them; a call that is
  given up may still be executed; all visitors share a client that keeps cookies; an
  edit form comes back minutes later, with times as texts of a clock that summer time
  changes. Correct means: what a page says has happened has
  happened (`PageTellsTheTruth`), a call runs as the visitor and as nobody else
  (`CallsAsTheVisitor`), a session or account that is left over has a page that says
  so or a reason (`OpenSessionsExplained`, `NobodyWithoutPassword`), the schedule shows
  what stood still (`ScheduleShowsWhatStood`), and an edit changes what was typed
  (`PlansChangeAsTyped`).
* *Migrations and scripts.* A revision is many statements, each a transaction; a kill
  comes between any two or in the middle of one and leaves a journal; two containers
  may upgrade at once; a restore writes under whatever the killed Core has left.
  Correct means: nothing that was published is lost or revived (`NothingLost`), Core
  serves whole schemas (`ServesWholeSchema`), an upgrade is stuck only when it was cut
  (`StuckOnlyByCut`), and otherwise Core comes back (`ServesAgain`).

The full list, line by line, is under `hazards` in `PROJECT.json`.

## 2. Modules

    PlanData <- PlanService <- PlanSerial <- MCPlanService <- MCServices
                            <- PlanServiceProofs <- PlanContractProofs (with PlanSerial)
             <- PlanContract <........ PlanSerial (INSTANCE)
    Accounts <- AccountSerial <- MCAccounts <........ MCServices (INSTANCE)
                              <- AccountProofs
    AccountContract <........ AccountSerial (INSTANCE)
    Conflicts <- MCConflicts
              <- ConflictsProofs
    Dashboard <- MCDashboard
              <- DashboardProofs
    Runtime <- MCRuntime
            <- RuntimeProofs
    Web <- MCWeb
        <- WebProofs
    Migrations <- Deployment <- MCDeployment
                             <- DeploymentProofs

* **`PlanData`**: the plan row, the bodies, `Merge` (the PATCH), `Valid`
  (`validate_plan_window`), `NewRow`, `Cancelled`. Assumptions: `None` and `Unset` are
  no data, and bodies that reach a handler have passed the contract.
* **`PlanService`**: tables `users`, `servers`, `plans`, `audits`; `req[r]` is
  the thread of request `r`: program counter, actor and role, the entity in its
  hands (`row`) and the second reading (`seen`). One action per SELECT or commit
  of a handler, with the computation that follows up to the next one:

  | Action | Code |
  |---|---|
  | `ReceiveCreate/Update/Cancel` | route and `get_current_actor`: the session names an enabled user, whose role goes along |
  | `CheckActor` | `require_active_actor` |
  | `CreateOnServer` | `create`: server, new entity |
  | `RefusePlan`, `UpdatePlan`, `CancelPlan` | the first reading of the plan: 404, 403, or merge, validation, stamp |
  | `MoveToServer` | `update` to another server |
  | `Save` | `PlanRepository.save`: the second reading |
  | `Commit` | flush and COMMIT: UPDATE of the changed columns, INSERT of the event |
  | `Abort` | locked file, no connection, killed process |
  | `ServerCreated`, `UserRowSaved` | what other handlers commit |

* **`PlanContract`**: what callers are promised: create, update and cancel as
  single operations on plans and events, each with a stamp that is later than all
  before it.
* **`PlanSerial`**: `PlanService` with one request at a time, and `PlanContract` as what
  it has to implement (`SerialKeepsContract`). The refinement mapping is the identity on
  `plans` and `audits`; users, servers and what threads hold are hidden.
* **`Accounts`**: `users`, `sessions`, `req`, `now`. The same style: `ReadSession`,
  `Prune`, `ReadUser` are `AuthService.resolve`; `CheckPassword` and `CommitLogin` are
  login; `CheckAdmin` is `require_active_actor` and `require_admin`; then one action
  per operation, `Save`, and three commits (UPDATE by columns, UPDATE of the hash,
  INSERT). `LookForAdmins` and `Bootstrap` are the two units of work of the command.
* **`AccountContract`**, **`AccountSerial`**: the same as single operations on a directory
  and a table of sessions, and `Accounts` with one request at a time, which has to
  implement it (`SerialKeepsAccounts`).
* **`Conflicts`**: `evaluate_plan_conflicts` operator by operator; one action, the
  endpoint. The merge of adjacent reports is a fold over the sorted pieces, as in
  the code.
* **`Dashboard`**: `cache`, `token`, `queue` (the asyncio lock: its holder and its
  waiters, in order), `loop` (the request that blocks the event loop), `req`,
  `clock`. A step runs from one `await` to the next. `Freshness` is `_map_item`, for
  one host that falls silent at some time and that the Hub calls down a while later.
* **`Runtime`**: the tables `servers`, `users`, `plans` as far as the pages see them,
  `run` (the runs of the collector and the handlers that take their reports),
  `store`, `reader`, `clock`:

  | Action | Code |
  |---|---|
  | `Stamp`, `Observe`, `Lose` | `build_report`: the clock, then `collect_gpus`; `send_report` that fails |
  | `Accept`, `SetReport` | `submit_report`: the SELECT of the server; the section under the lock |
  | `Receive`, `CheckActor`, `ReadServers`, `ReadUsers` | the route and the SELECTs of `get_overview` and `get_server_runtime` |
  | `ReadClock`, `GetReport`, `GetFreshness`, `ListPlans` | `_build_host_runtime`, once per host: the clock, two sections under the lock, the SELECT of the plans with the correlation |
  | `Restart` | the Core's process ends and starts again |
  | `ServerCreated`, `UserSaved`, `PlanCommitted` | what other handlers commit |

  `observed_at` (when the devices were read) and `steady` (the plans and reports that
  have not changed since a request came in) are history, for the properties only.
* **`Web`**: the Core as its contracts promise it (`users`, `sessions`, `servers`,
  `plans`; every call at once), `cookie` per browser, `jar` of the shared client,
  `visit[v]` (the thread that serves a visit: the call that is under way and what
  earlier calls have answered), `late[v]` (a call that was given up and may still be
  executed). A visit is one use of a page, an edit from the form to its submission:

  | Action | Code |
  |---|---|
  | `VisitLogin` ... `VisitToggle`, `Submit` | the routes, with the cookie of that moment |
  | `Me` | `get_current_viewer`, `require_admin_viewer`, the own-account check of the toggle |
  | `Login`, `Logout` | `routes/auth.py` |
  | `CreateUser`, `SetPassword`, `UpdateUser` | `routes/users.py` |
  | `ListServers`, `ListUsers`, `ListPlans`, `ListConflicts`, `ShowSchedule` | `_schedule_context`, one call after the other |
  | `FindServer`, `CreatePlan`, `Render` | `create_planned_use` and its `_form_error` |
  | `GetPlan`, `UpdatePlan`, `CancelPlan` | `_load_changeable_plan`, `edit_planned_use`, `cancel_planned_use` |
  | `GiveUp`, `Late` | `CoreUnavailableError`; a handler of the Core that runs on |
  | `Expire`, `ServerCreated` | sessions that expire; servers that others add |

  Three conversions are modelled by what they do. The form shows whole minutes of the wall
  clock in `LABSERVER_TIMEZONE` (`Text`: `astimezone` and `strftime`), so that it loses the
  seconds of a plan that came through the API, and in the hour that is repeated when
  summer time ends, which of the two it was. `Parsed` is `parse_local_datetime`: Python
  reads a repeated text as its first occurrence and one that was skipped with the
  offset from before the change. `Wall` is the clock of a zone with one summer time, from
  the minute `SummerStart` to the minute `SummerEnd`, ahead by `Saving`; with `Saving` 0 it is
  a zone without. The form sends both times always, so that a window which has become
  empty on the way is refused before the PATCH (`GetPlan`). An emptied note is not sent, and
  so keeps its value (`Patched`). `did` and `touched` are history.
* **`Migrations`**: the three revisions as sequences of statements on a database
  of tables, columns, indexes, a version and the rows that are converted: what runs,
  what it makes of the file, what of it users have published. `env.py` asks for
  AUTOCOMMIT, so that every statement is a transaction. The version table, which alembic
  creates if it is not there, is not a part of the schema here.
* **`Deployment`**: `file`, `journal` and `writer` are the SQLite file: while a
  transaction writes, the file is `Damaged` and the journal holds the state to go back
  to; who opens the file next rolls it back, and a journal beside a file it does not
  belong to spoils it. `box` is the core container and the one-off container of a script,
  `script` the step of the script, `backup` the newest backup:

  | Action | Code |
  |---|---|
  | `Open`, `Begin`, `Finish`, `Fail` | `entrypoint-core.sh`: the version, each statement, the exit under `set -e` |
  | `BeginPlan`, `FinishPlan` | Core at work: a plan is published in one commit |
  | `Restart`, `Up`, `KillCore`, `KillScript` | `restart: unless-stopped`; the operator; kills |
  | `RunJob`, `JobFailed` | `docker compose run core`: the entrypoint, then the command |
  | `Snapshot`, `CheckBackup` | `backup.sh` |
  | `Verify`, `StopCore`, `Preserve`, `BeginCopy`, `EndCopy`, `StartCore` | `restore.sh` |

  `expected` (what has been published, or restored) and `cut` (what has been cut short)
  are history.
* **`MCServices`**: the Core's writing services side by side, each serving one request
  at a time; their contracts as properties. The two write different tables, so that a
  behaviour that uses only one of them shows everything.
* **Other `MC*`**: the constants and the specifications with restricted environments.
* **`PlanServiceProofs`**, **`PlanContractProofs`**, **`ConflictsProofs`**,
  **`AccountProofs`**, **`DashboardProofs`**, **`RuntimeProofs`**, **`WebProofs`**,
  **`DeploymentProofs`**: section 7.

Operators whose comment starts with *Variant* are plausible bugs. Nothing uses
them; each is put in place of the operator below it to see that a property
notices (`mutants` in `PROJECT.json`).

## 3. What the threads share

The Core opens SQLite through SQLAlchemy with default settings. Three facts shape
`PlanService` and `Accounts`:

1. *A SELECT outside a transaction sees what is committed.* The driver opens a
   transaction at the first INSERT, UPDATE or DELETE. Handlers write only through
   `commit()`, whose flush sends them. So every SELECT is a step of its own, and
   `commit()` is one step.
2. *`save` selects again.* Repositories give out frozen copies and close over no
   row, so `save(entity)` reads the row a second time into the session, and
   assigns every column of the copy to it.
3. *The UPDATE names the columns that differ from the second reading.* For most
   columns that is by value (`Column`). A datetime comes back from SQLite without a
   time zone and is never equal to the aware value assigned to it, so datetime columns
   are always written (`DateColumn`). Two overlapping updates are therefore mixed,
   column by column, except for datetimes.

The third fact has consequences in both directions. Windows stay valid, because
both ends always come from the one entity that was validated: that is the
argument of the theorem `WindowsStayValid`, and the variant that compares datetimes
by value breaks `RowsValidWindow`. Device count and device numbers are not that
lucky (section 5).

Data is abstracted to what the properties tell apart: `title` stands for all
columns that are copied and compared alike; times are small numbers; readings of
the clock are counted, so that they are distinct and ordered, as the real ones are;
ids and tokens are named after the request that makes them; salted hashes are
named after the request that sets them. A refused request leaves nothing behind,
whatever its status code.

## 4. Runs

"Pass" runs end with no error; "violation" runs check one documented statement
that the code does not keep.

| Run | Question | Instance |
|---|---|---|
| `plan_access` (`PlanAccess.cfg`) | Two overlapping requests of any kind while users are disabled, demoted or promoted and servers appear: are changes audited and allowed, answers audited, plans on enabled servers? | 2 requests, 2 users (1 administrator), 2 servers, every kind of PATCH |
| `plan_overlap` | Three requests overlap on one plan: valid window, the audit trail explains the row, a cancellation is final once nothing is in flight | 1 request has created the plan, 3 more reschedule either end of the window or cancel |
| `plan_cancel_race` | *(violation)* keeps a cancelled plan its first time? | 3 requests |
| `account_overlap` | Two requests of any kind and a session that is open: unique names, ended sessions, lockout | root is logged in, 2 more requests, 3 names, sessions last one tick |
| `services_serial` | One request after another: do the handlers implement `PlanContract` and `AccountContract`? | 3 requests of either service, 2 users, 2 servers, every kind of PATCH |
| `account_rotation_lost` | *(violation)* is a changed password kept? | 2 requests after the login |
| `conflict_answers` | Is what the sweep reports what a look at every unit of time finds? | every table of 3 plans over 5 windows and 4 kinds of intent, 2 capacities |
| `conflict_mixed_intent` | *(violation)* is mixed intent reported as uncertain? | the same tables |
| `dashboard_cache` | Three requests over a Hub that fails, is slow and forgets tokens | 2 connections, TTL 2, threshold 2, clock 0..3, 3 kinds of credential, 3 ways to treat strangers, a host that is silent from the start or never |
| `runtime_reports` | Reports that are slow, lost or swapped, a Core that restarts, and a reader between its steps: does fresh mean observed, and is a process matched exactly when a plan announces it? | 2 runs of the collector on 1 of 2 hosts, 2 devices, 1 reader, 1 plan that changes, threshold 1, clock 0..2 |
| `deployment` | Upgrades, kills, backups and restores in any order: is everything published still there, does Core serve whole schemas only, does it come back? | 3 first files (empty; first release with 2 reservations; second release), 2 kills, 2 scripts, 1 plan published afterwards |
| `web` | Two visits to any two pages, call by call, over a Core that may be late: do pages tell the truth, do calls run as the visitor, do plans change as typed? | 2 visits, 2 browsers (an administrator, a member), a free name, a second server, 2 plans that overlap around the end of a summer time of 2 minutes, 4 edits |

**Why these bounds.** The properties of plans relate one row, its events and the
requests that touch it. Two requests give every overlap of a pair, the third
gives what a pair leaves behind to a later one (a stale copy, a repeated cancel);
`plan_overlap` starts after the create, since nothing can overlap with the create of
the plan it makes, and so has three threads on the row. Windows inside 1..3 are
the smallest in which moving one end after another can make a window empty. One
device is enough to disagree with a count of 2. Two servers allow a move. For
sessions, one tick is enough to expire between any two steps. The tables of
`conflict_answers` let windows nest, cross, touch and stay apart, and demand below,
at and above capacity. In `dashboard_cache` the third request finds what two
overlapping ones have left, and two connections are the fewest with which one
request waits for the lock while the pool is empty. In `runtime_reports` two runs on
one host are enough to overtake each other; one reader is enough, because readers
write nothing that another could see; a second host without reports makes the
overview take two turns; and with threshold 1 the readings 0, 1, 2 are at, within and
beyond the limit. All clocks agree: a host's clock that is ahead makes reports look
younger, and no property could hold. In `web` two visits give every overlap of two pages,
or two pages one after the other on one browser; what a third could add is only another
change of the same rows, which the second can make already. A minute has two instants, so
that a time can have seconds. Summer lasts from minute 1 to minute 3 and saves one minute,
the least that skips a text (1) and repeats one (3). One plan starts in the first
minute with the repeated text and ends in the second, so that the form makes its window
empty; the other starts in the second, so that the untouched form moves it; one edit types
the text that is skipped, one moves an end, one changes the note, one changes nothing. In
`deployment` two kills are a kill of the upgrade and one of what repairs it, and two
scripts are a backup and its restore, or a restore and the one that mends it. The first
release's file has a reservation with a request and one without, one cancelled: the cases
that the conversion tells apart.

Initial states other than `Init` (`SeededInit`, `LoggedInInit`) are states that the
program reaches from `Init`: one created plan, one answered login, users and one
server created. They save
requests for the overlap. `plan_overlap`, `plan_cancel_race` and `services_serial` keep roles
and enabled flags fixed (as `SteadySpec` does); their change is the subject of
`plan_access`. The first file of `deployment` is one that a finished upgrade of an
earlier release leaves. The clock and the number of requests are the only caps; a request id
is used once. Symmetry over requests is used in `PlanAccess` and `PlanCancelRace`,
over visits in `Web`, which check invariants and action properties only, and in whose
formulas requests or visits are interchangeable, and over the runs of the collector in
`RuntimeReports`, which has invariants only. Deadlock is not checked where requests,
visits, kills or scripts are finite and the system stops when all have ended
(`PlanOverlap`, `PlanCancelRace`, `ServicesSerial`, the account runs, `DashboardCache`,
`RuntimeReports`, `Deployment`, `Web`).

**What the runs show about the parts.**

* Overlapping plan requests never corrupt a window, never leave a row that the
  audit trail does not explain, and never write without an event. A row's
  `updated_at`, its `created_at` with its owner, and its `cancelled_at` are each the
  stamp of an event (the event and the row take one stamp; the variant that reads
  the clock twice is noticed).
* Served one at a time, the services are exactly their contracts. Everything in
  section 5 about plans is due to overlap.
* A cancellation is final from any state on in which nothing is in flight. So
  the harm of the cancel race is confined to the requests that took part in it.
* A logged out, expired or pruned session never gives a new request an actor.
  From a directory with no enabled administrator, and no request past its check,
  only the command leads back.
* The Hub is asked at most once per TTL by those who see it answer; records are
  recent, never older than what somebody has already been shown, and every
  request is answered although a full pool stands still. A silent host is not shown as
  fresh beyond the threshold, and with TTL at most the threshold one that reports is
  shown as stale only if its own refresh failed or was as slow as that.
* A host of the runtime pages is fresh only if its devices were read within the
  threshold, in whatever order reports arrive; that the date of a report is the
  collector's, taken before it looks, is what this rests on. That the *processes
  shown* are that recent holds unless a report was stored while the answer was made
  (`steady` in `ShownAsFreshIsRecent`): then an old report may be shown with the
  freshness of the new one. Matched and unplanned are right with respect to every
  plan that stood still, whoever was created or disabled meanwhile.
* A page of the web frontend that reports success is right, and one that reports a
  refusal is right but for two cases that the property names: an account that was
  created before its password was refused, and a plan whose creation was given up
  before the page could be shown again. "Core service is unavailable" says nothing
  either way. The shared cookie jar does no harm: the cookie of the call comes last, and
  a page without a cookie makes no call; the variant with the other order lets one
  visitor act as another.
* A session that nobody has a cookie of stays open only for the reasons that
  `OpenSessionsExplained` lists, one of which is a logout that the Core refused because
  the account was disabled.
* The schedule is right about every plan that did not change while it was put together,
  and says of the others what some moment of the visit had.
* An edit changes what was typed. A time that nobody touched is put back to what it was
  when the form was opened, without its seconds; so is a note, if there was one. There
  is one exception, which `TimeAsTyped` names: a time in the second of two repeated hours
  is moved to the first, so that saving an untouched form makes a plan an hour longer,
  moves it, or is refused, since the window is empty (`Repeated`; without this
  alternative TLC finds the property violated). A text that the clock skips is accepted, and
  becomes the time an hour later (`Skipped`). Neither happens in a zone without summer time. A
  plan that is cancelled between the check and the PATCH is edited and stays cancelled
  (section 5).
* Whatever is killed, upgrades, backups and restores lose no plan and revive none. The
  order of the drops matters (the variant breaks `StuckOnlyByCut`), and so does that every
  one-off container opens the database first: that is what has rolled back the journal
  of a killed Core before the restore copies over the file (`RunJobBare`). Two upgrades at
  once do not hurt: one of them fails at its first statement.
* An upgrade that is cut between two statements of a revision is stuck for good, and the
  container restarts in vain. So is one that was restored from a snapshot of that moment.

## 5. Disagreements between the code and its documents

1. **The first cancellation time is not kept under overlap** (`plan_cancel_race`).
   `docs/api/core-v1.md:72` promises that repeated calls keep the first timestamp.
   Two cancels that both read the plan as not cancelled both write it; an update
   that read the plan before a cancel and selects it again after it writes NULL back
   and revives the plan.
2. **A changed password may come back** (`account_rotation_lost`).
   A rename, a change of role or of the enabled flag that overlaps a password change
   writes the hash it read.
3. **Mixed intent is reported from one side only** (`conflict_mixed_intent`).
   `docs/api/core-v1.md:91` says that mixing device numbers and bare counts is
   reported as uncertain. That is so for the plan with device numbers; the answer
   about the plan with the bare count does not mention it, unless the total exceeds
   capacity.

The first two need two requests within milliseconds; the third happens
every time.

Others have no run of their own, and are listed under `hazards` where something can go
wrong:

* *Count and devices.* The M1.1 design, line 82, says that a count must agree with given
  devices. Served one at a time that is so (`SerialKeepsContract`). An update of the count
  and one of the devices that overlap, each valid against the copy it read, are both
  stored, since each UPDATE names one column.
* *Cancelled plans.* The edit page answers "A cancelled plan cannot be edited"
  (`routes/schedule.py:346`), which is checked one call earlier, and by the page only: the
  Core's PATCH accepts it.
* *Lingering sessions.* The M2-A design has "no lingering sessions" as a goal (line 21). A
  logout that the Core refuses, because the account was disabled, drops the browser's
  cookie and leaves the session in the table; it is usable again when the account is
  enabled again before it expires. `OpenSessionsExplained` lists it among the reasons.
* *Summer time.* A comment of `templates/schedule/_timeline.html` relies on the
  deployment's zone, Asia/Shanghai, having none, and the compose file sets that zone by
  default; the timeline adds eight hours whatever the zone. `LABSERVER_TIMEZONE` may be any zone (`config.py:27-33`); with another, the edit form
  moves plans in the repeated hour (section 4). No document says what should happen.
* *Rollback.* `docs/operations/deployment.md:192-205` has the operator restore the backup
  before the previous release is built. Until then every container, also the one that
  `restore.sh` starts at its end, upgrades with the release that is to be left: when that
  upgrade is stuck, the script ends at its first step; when it is not, the restored file is
  upgraded at once to revisions that the previous release does not know.
* *Outage of the Hub.* The m2-c design (section 4, item 4) has hosts UNREACHABLE while the
  Hub is out of reach, where the code prefers cached records and their own age.
* *Retry.* The m2-d design (line 57) speaks of a POST with retry, where the collector sends
  once.
* *Idle reservations.* `RuntimePlanCorrelation.IDLE_RESERVATION` is declared and never
  produced.

## 6. Fairness

Plans, accounts, conflicts, the runtime pages and the web frontend are checked for safety
and have no fairness: any request may stop anywhere.

`Dashboard` assumes weak fairness of `Proceed(r)`, the next step of the coroutine
that holds the lock, and of `PoolTimeout`. The first holds because every call to the
Hub has a timeout in `httpx` and the event loop runs what is ready; weak fairness is
enough because a step that is enabled stays enabled until it is taken (what can
disable it is a blocked loop, which ends by `PoolTimeout`, and there are finitely many
requests). The second is the `pool_timeout` of SQLAlchemy's queue pool.
Nothing else is promised: requests need not come, the Hub need not forget tokens,
time need not pass.

`Deployment` assumes weak fairness of `Upgrade(c)` (a container that runs goes on with its
command), of `Restart` (docker restarts the core container, whose policy is
`unless-stopped`), of `ScriptStep` (a script goes on with its next command) and of
`FinishPlan` (a commit comes to an end). Kills are bounded by `Kills`, so that at some
point they stop, as they do in practice. The operator promises nothing: no script need be
started, and `Up` need not be taken, which is why `ServesAgain` excepts a container that a
script has left stopped.

## 7. Proofs

TLC checks the properties on the instances of section 4. The theorems state every one of
them but liveness and what section 5 refutes, for any sets of requests, users, servers,
plans, visits and so on, any bodies and tables, any bounds of the clock, of kills and of
scripts. They are listed under `theorems` in `PROJECT.json`. Each module states the
inductive invariant that its properties need, which TLC has found to hold on the instance of
the run before it was proved: one lemma per action says that the action keeps it, and the
properties follow.

| Module | Theorem | States |
|---|---|---|
| `PlanServiceProofs` | `TypeCorrect`, `WindowsStayValid`, `PlansStayOnEnabledServers` | `Spec => []TypeOK`, `[]RowsValidWindow`, `[]RowsOnEnabledServers` |
| | `CancellationIsFinal` | `Spec => CancelFinalOnceQuiet` |
| | `TrailExplainsRows`, `AnswersHaveEvents` | `Spec => []RowsExplainedByAudits`, `[]AnswersAudited` |
| | `ChangesHaveEvents` | `Spec => ChangesAuditedAndAllowed` (action property) |
| `PlanContractProofs` | `SerialPlansKeepContract` | `SerialPlans => SerialKeepsContract` (refinement of `PlanContract`) |
| `AccountProofs` | `TypeCorrect`, `NamesStayUnique` | `Spec => []TypeOK`, `[]UsernamesUnique` |
| | `SessionsEndForGood`, `OnlyBootstrapEndsLockout` | `Spec => EndedSessionsStayEnded`, `LockoutNeedsBootstrap` |
| | `SerialAccountsKeepContract` | `SerialAccounts => SerialKeepsAccounts` (refinement of `AccountContract`) |
| `DashboardProofs` | `TypeCorrect`, `RefreshesAreShared` | `Spec => []TypeOK`, `[]RefreshesCollapse` |
| | `AnswersAreRecent`, `CardsTellTheTruth`, `NobodyGoesBack` | `Spec => AnswersRecent`, `CardTellsTheTruth`, `AnswersNeverGoBack` |
| `RuntimeProofs` | `TypeCorrect`, `FreshIsObserved`, `FreshIsRecent` | `Spec => []TypeOK`, `[]FreshMeansObserved`, `[]ShownAsFreshIsRecent` |
| | `NobodyIsBlamed`, `MatchesArePlans` | `Spec => []PlannedIsNotBlamed`, `[]MatchedHasPlan` |
| `WebProofs` | `TypeCorrect`, `PagesTellTheTruth`, `CallsAreTheVisitors` | `Spec => []TypeOK`, `[]PageTellsTheTruth`, `[]CallsAsTheVisitor` |
| | `AccountsGetPasswords` | `Spec => []NobodyWithoutPassword`, if `PasswordsAtFirst` |
| | `SessionsAreExplained`, `ScheduleIsRight` | `Spec => []OpenSessionsExplained`, `[]ScheduleShowsWhatStood` |
| | `PlansAreAsTyped` | `Spec => PlansChangeAsTyped` (action property) |
| `ConflictsProofs` | `ConflictTypes`, `ReportsAreMaximal` | `Spec => []TypeOK`, `[]ReportsMaximal` |
| | `CapacityIsReported`, `DevicesAreReported` | `Spec => []CapacityReported`, `[]DevicesReported` |
| `DeploymentProofs` | `DeploymentTypes`, `NothingIsLost` | `Spec => []TypeOK`, `[]NothingLost` |
| | `WholeSchemaServed`, `OnlyCutsGetStuck` | `Spec => []ServesWholeSchema`, `[]StuckOnlyByCut` |

**Assumptions.** Those that the modules declare, which TLC evaluates in every run. Most say
that `None` and `Unset` are told apart from data. The others are facts of the code:
`BodiesAssumption` (bodies have passed the contract); in `AccountsAssumption`, seeds have
different names and passwords of their own or none; positive TTLs; in `WebAssumption`, the
first plans are on servers that exist; in `ClockAssumption`, summer time lasts at least as
long as what it saves, and the window typed into the form of a new plan is one; in `ConflictsAssumption`, a table has finitely many
plans and a plan finitely many devices, and quantities and capacities are not negative
(`ge=0` and `NonNegativeInt` in the contracts); in `DeploymentAssumption`, a first file has
the schema that the revisions up to its version make (`Schema`), which is what a finished
upgrade of an earlier release leaves. `AccountsGetPasswords` has the hypothesis
`PasswordsAtFirst` besides: an account that has no password before anybody visits is
not what the frontend could be blamed for.

### Plans

*`IInv`.* None of the invariants of `PlanServiceProofs` is inductive: what a
commit writes comes from the thread's memory. `IInv` adds `Staged(r)`, what a
thread may rely on at each step: the entity in its hands is itself a valid row on an
enabled server (`Sound`), a plan it is about exists, a second reading is a row. The
step that matters is `FlushIsSound`: the UPDATE of a sound entity over a sound row is
sound *whatever the second reading was*. It takes both ends of the window from the
entity, because datetimes are always written, and the server from one of the two
rows, both of which are on enabled servers. Servers are created and never
disabled, so that a check stays true: with a way to disable a server this theorem
would fail, and should.

*Finality of cancellation.* `CancelFinalOnceQuiet` says more than an invariant: from
a quiet state on. The lemma behind it is an invariant relative to a plan and a
time (`Settled`): the row has that time, and every thread that works on the plan
has read it. A quiet state with a cancelled plan is settled, since nobody holds a
copy; every step keeps it settled, because an update copies the cancellation and
a cancel answers without writing. `Made` says that a plan
which exists was made by a request that has been answered.

*The trail.* An event is inserted with the row, but the row was put together earlier, and
only some of its columns are written. `AInv` therefore says of every thread that holds a
plan (`Backed`): owner and creation are those of the committed row, which nobody ever
changes; a cancellation time that it carries has its event already, or gets it from this
thread; and its actor may change the plan. The last one is what makes
`ChangesHaveEvents` true although the right is checked two SELECTs before the commit: the
owner cannot change, and the role is the one the request came in with.

*The refinement.* In `SerialPlans` a commit is an operation of `PlanContract` and every
other step stutters. `SInv` says that nothing a thread holds is stale (`Current`): what it
is going to write is the merge of one accepted body into the plan *as it is committed*, the
second reading is the committed row, and its stamp is later than every event. Each
conjunct of `Current` is false as soon as two requests overlap, which is what
`plan_cancel_race` shows.

### Accounts

`IInv` has three parts beside the types and the unique names, which the database
enforces at the commit but an update could break. `Founded(r, q)` says at each step what
the thread knows: most of all that the row it saves has the name that the user *has*
(usernames never change), so that an UPDATE cannot make two names equal. `RowsMade`
says where rows come from: a request that is done. *Sessions:* a session that is over stays
over because expiry only comes nearer and rows are not inserted twice. *Lockout:* relative
to a state without an enabled administrator in which no request is past its check, no
request passes it again; the command is the only other writer of roles.
The refinement follows the plans': `Current` relates what a thread read to the tables as
they are, and `HashesSet` says that the hash which is named after a request is there only
when the request has ended, so that an update never seems to be a change of password.

### Dashboard

`IInv` says who is in the queue of the lock (`InLine`: everyone who holds a connection,
once; all but the first wait), who blocks the loop (`LoopExplained`), where the token and
the cache come from (`TokenExplained`, `CacheTimely`), and how the times in a thread relate
to the cache (`Timely`): who refreshes has seen the cache expire *under the lock*, so that
nobody can have refreshed since; the records it got are no older than the cached ones. The
properties follow, `NobodyGoesBack` by an invariant relative to an answer that somebody
has got (`Behind`). That everybody is answered is liveness.

### Runtime

`RunsTimely`: a run's date is not later than its look at the devices. `OwnersExist`: plans
are of users who exist, and users are never deleted. `Right(q)` relates what a thread
holds to the store and the plans, as long as they stood still: between the two lock
sections the report in hand is the one that is stored (`Reported`), and the names it has
read include every owner (`OwnersKnown`). `Told` keeps the properties for hosts that have
been built, while what they are about changes: lemma `StillRight` says that whatever
happens around a thread leaves it right, since it takes what it touches out of `steady`.
The rest is the correlation itself: `MatchedIsAnnounced` says that the plans which
`_build_host_runtime` goes through for a process are those that announce it.

### Web

For each visit, `Local` relates the call under way, what has been executed and what may
still be: `Shape` (which page makes which call), `Told` (what has been executed when the
page says what), `Left` (a call that was given up is the last one, and the visit's own).
`TokensKnown` and `OwnCookies` say where tokens come from: of a login on the same browser,
as the user who logged in. `CallsAsTheVisitor` needs that the cookie of a call comes last,
whatever the shared jar holds, and is then inductive with them. `Seen` is what a visit to
the schedule knows about the plans that stood still, after each of its calls; `PlansMade`
and `ServersKnown` are what it rests on.

`PlansAreAsTyped` is about the clock besides, for any summer time that lasts at least as
long as what it saves. `ParsedIs`: what is read from a text has that text, or the text was
skipped. `RoundTripIs`: a time that goes through the form loses its seconds and nothing
else, or its text is repeated. The cases are those of the clock: before summer time, in it,
in the repeated hour, after it. That both ends of what is posted make a window, `Subject` keeps
for calls that are late, too.

### Conflicts

The state says little: an answer is the evaluation of its plan on the table as it is
(`Answered`). What the evaluation yields is the theorem, along the three parts of the code.
*Cutting:* every unit of the window lies in exactly one segment, because between two
neighbouring boundaries there is no other (`SegmentAt`, `SegmentsApart`), and the plans that
overlap a segment are those that hold the server at each of its units, because their ends
are boundaries (`ActiveIsOthers`): with the ends left out (`BoundariesAtStarts`) this lemma
is the one that is false. *Reporting:* `RawAt` says what the segments report of one unit.
*Merging:* `Merged(m, s)` says that the list `m` says of every unit what the reports of `s`
say, and that no two of its reports of one shape touch. Each step of `Absorb` keeps it,
given that reports come in the order of their starts and that two of the same shape do not
overlap (`Pieces`): a new report continues at most one of those merged so far
(`AbsorbExtends`), which need not be the last one.

`TotalDemand` and `Coalesce` are folds over a finite set. The library's induction theorems
take an operator as a parameter, which the provers cannot instantiate; `NatInductionSet`
and `SetInduction` say the same of a *set*, by the least element of what is left out
(`WFMin`, well-foundedness of `<` and of strict inclusion). With them, `StepExists` and
`SumStepExists` show that the recursion of a fold has a solution, so that the `CHOOSE` in its
definition can be unfolded, and `CoalesceMerges` and `TotalDemandNat` what it yields.

### Deployment

The statements of the three revisions are numbered 1 to 16. `Progress(db, n)` says that a
database is what the first `n` of them make of an empty one: which parts it has, which
version it states, and, between the conversion and the drop of the tables that have been
converted, that everything in the old tables is in the new one. `IInv` says of the database
as the next program to open it will find it (`Recovered`, with the journal put back):

* `Whole`: it has made progress, and unless a revision was cut either a whole number of
  revisions or as far as a container has come that goes on from there;
* `Upgrading`, `Alone`: a container in the middle of a revision is exactly as far as the
  database, and it is the only one, because the first statement of a revision fails for a
  second container;
* `Serving`: a Core that serves has the last version, unless a restore was cut while it
  copied;
* `DiskRight`, `ScriptRight`: a journal belongs to the file beside it, and a restore copies
  only when the journal of a killed Core has been put back and nobody writes;
* `BackupRight`: a backup has made progress, and stands between revisions only if one was
  cut.

`NothingLost` is a part of it and is inductive with the rest. It is the conjunct on
statements 10 to 12 in `Progress` that makes the order of the revision matter: the old
tables are dropped after all they held has been converted.

### Only model-checked

* Liveness (`EveryRequestAnswered`, `ServesAgain`): under fairness, beyond the prover.
* That the code does *not* do what section 5 quotes: counterexamples are TLC's.

## 8. What is not modelled, and the plan

Left out for good: formatting, wording, status codes, logging; pages and
endpoints that only list, which change nothing; `smoke-loopback.sh`; the wiring.
`update_server` is left out as long as nothing calls it, and `seed_servers` beside
`create_server`: both write servers in one transaction under a unique key, and the seeding
takes the write lock before it reads its second entry. In `Dashboard`: cancelled tasks, the check of
the actor, the numbers of each host and the plans on its card, and hosts that the Hub has
paused or has never heard of (their freshness is a constant, `monitoring.py:299-303`). In `Runtime`: what
nvidia-smi prints and how it is parsed, process ids and memory, roles, clocks that
disagree. In `Conflicts`: the check of the actor and the 404, and that the plan, its
server and the others are read by three SELECTs; the answer is about one table. In `Web`:
the other validation errors of a form, which end a visit before its first writing call; a
zone's standard offset, which only gives other names to the same texts, changes of the
clock beyond one summer time, and offsets that are not whole minutes; filters of the schedule; the role of an account that is provisioned; fields other than the times and the note, which
are treated like the note; wrong passwords; moves to another server, which the
form does not offer; and the calls of the Core are at once, as its contracts have it, so
that what overlaps inside the Core is left to `PlanService` and `Accounts`. Warnings of the
schedule are overlaps there: which overlaps collide is the subject of `Conflicts`. In
`Deployment`: downgrades, a second image (section 5), a full or failing disk, and the
archive that a restore leaves for the operator. Two simplifications there: who finds the
database locked waits for the writer (`Begin`), where SQLite gives up after its timeout of
five seconds, so that statements are taken to be shorter than that; and a script that
is killed takes its one-off container with it (`KillScript`), as Ctrl-C and a fall of the
machine do, while a container whose script alone was killed would run on.

What would come next, in this order:

1. **A rollback**: a second image in `Deployment`, with the procedure of the handbook.
2. **Two overlapping bootstrap commands** against a contract of their own.
