# Lungyam in TLA+

Lungyam is an API gateway in Rust: a Pingora data plane that routes, limits and
forwards requests, and a control plane that stages, records, activates and rolls
back configurations on disk. This directory holds TLA+ modules translated from its
source, TLC configurations that check them on small instances, and TLAPS proofs of
what matters most for all instances. Paths below are relative to the repository
(`core` stands for `crates/lungyam-core/src`, `proxy`, `admin` and `cli` likewise).

## Inventory

| Part | State | Operations | Talks to | Hard | What makes it correct |
|---|---|---|---|---|---|
| Configuration lifecycle (`core/lifecycle.rs`) | one process-wide lock | `stage`, `activate_pending`, `rollback_to` | the three stores | two files that change one after the other, nested locks, an error or crash at each system call | an `Ok` means done, an error means nothing changed, the files agree at rest |
| Active store (`core/store.rs`) | `lungyam.yaml` | `load`, `save` | file system | rename, then a directory sync that may fail | replaced whole or not at all |
| Revision store (`core/revision.rs`) | `revisions/NNNNNN` | `create`, `list`, `load` | file system | numbering, leftovers of crashes | numbers never reused, revisions never changed |
| Revision state (`core/revision_state.rs`) | `revisions/state.yaml` | `load`, `save` | revision store | references to what may not be there | names only revisions that exist |
| Rate limiter (`proxy/lib.rs`) | a counter per route name | `allow_request` | clock, pinned route | clock read before the lock, limits that change | neither too many admitted nor too few |
| Routing (`core/routing.rs`) | none | match, order, find | data plane, simulator | ties, prefixes, hosts with ports | highest priority, longest path, first declared |
| Request path (`proxy/lib.rs`) | a context per request | the Pingora filters | snapshot, balancers, limiter | awaits between steps, shared round robin, retry | served by the route it matched, tried as promised, answered in the end |
| Pools and health (`proxy/lib.rs`) | balancers built at start | select, observe | Pingora | callbacks, endpoint names | status follows the balancer |
| Runtime status (`core/runtime.rs`) | route snapshot, health map | `apply_route_config`, `config_snapshot`, `set_endpoint_health` | data plane, admin pages | check and swap are not atomic | structure never changes while running |
| Validation, diff (`core/config.rs`, `config_diff.rs`) | none | `validate`, `between` | everything | what callers take for granted | everything accepted can be run |
| Admin staging (`admin/route_stage.rs`, `upstream_stage.rs`, `route_forms.rs`) | none | make a candidate, stage it | runtime status, lifecycle | candidates of a stale base, two copies of the checks, forms that are rendered and read back | what is acknowledged stays, a form changes what it names |
| Admin protection (`admin/security.rs`) | CSRF token | check | staging handlers | reloads and restarts between check and write | no write without leave |
| Revision pages (`admin/revision_views.rs`) | none | list, compare | the stores, without the lock | files that change between two reads | what is shown fits together |
| Other admin pages (`admin/lib.rs`, `route_simulator.rs`) | none | read, look up, format | runtime status | two locks, answers that stay on the page | counts and rows fit, the simulator says what the proxy does |
| Command line (`cli/main.rs`) | none | load, warn, start | proxy, admin | | |

Left outside: installer, release scripts, container files, templates and the vendored
htmx, none of which holds state of the program.

## Modules

| Module | Models | Checked by |
|---|---|---|
| `ConfigLifecycle` | lifecycle and the three stores, step by system call | `MCConfigLifecycle`, two runs |
| `ConfigRegistry` | what the lifecycle promises, without files, locks and errors | `ImplementsRegistry` |
| `ConfigLifecycleInv` | the inductive invariant `IInv` | |
| `ConfigLifecycleProofs` | proofs about its types, locks, numbers, files, results and the refinement | TLAPS |
| `RateLimiter` | `allow_request` under changing policies | `MCRateLimiter`, one run |
| `RateLimiterProofs` | proofs about the limiter | TLAPS |
| `Routing` | matching and ordering, as operators | through its users |
| `RoutingProofs` | what sorting and first match yield | TLAPS |
| `RouteLookup` | one lookup by the data plane, the routes page | `MCRouteLookup`, one run |
| `RouteLookupProofs` | proofs about the lookup and the headers | TLAPS |
| `Gateway` | requests, reloads, pools, health | `MCGateway`, a run and a finding; `MCAdminViews` |
| `GatewayProofs` | proofs about the gateway and the pages of `AdminViews` | TLAPS |
| `HeaderPolicies` | header transforms and request ids | `MCHeaderPolicies`, one run |
| `Configuration` | all of `validate`, `ConfigDiff`, what a reload may change | through its users |
| `AdminForms` | forms to candidates and back, as operators | through the next two |
| `FormEditing` | a configuration edited form by form | `MCFormEditing`, one run |
| `AdminStaging` | the staging handlers in a running process | `MCAdminStaging`, one run |
| `AdminStagingProofs` | proofs about staging and about editing with forms | TLAPS |
| `RevisionPages` | list and difference of revisions beside the writers | `MCRevisionPages`, one run |
| `RevisionPagesProofs` | proofs about the revision pages | TLAPS |
| `AdminViews` | dashboard and simulator beside the data plane | `MCAdminViews`, one run |
| `Durability` | the stores when the power is lost | `MCDurability`, one run |
| `DurabilityProofs` | proofs about losses of power | TLAPS |

How they compose: `ConfigLifecycle` implements `ConfigRegistry` (`ImplementsRegistry`, checked
on an instance and proved step by step), and `AdminStaging` and `RevisionPages` are written over the steps of
`ConfigRegistry`, by `INSTANCE` on the same variables. `AdminStaging` and `FormEditing` extend
`AdminForms`, that extends `Configuration`, that extends `Routing`; `RouteLookup` and `Gateway`
extend `Routing`, `AdminViews` extends `Gateway`.

### ConfigLifecycle

Each thread has a record `task` of the local variables of the call it is in: `pc` (the
next system call), `op` (which of the three public methods), `phase` (staging,
activating, or restoring the previous file), candidate, previous configuration, revision,
the state about to be saved. `stage_inner` and `activate_revision_inner` are shared by
the methods that call them, as in the code: a rollback runs through `phase = "stage"`
and then `"activate"`. A step ends where the disk changes, a lock changes hands or
something another step may change has been read; between two such points the code is
sequential under the lifecycle lock. Every system call that can fail has an action that
fails it (`...Fails`), which takes the code's error path to the error the caller sees.
`Crash` may hit between any two steps; the process starts again with fresh locks and
counters and the files as they are. Temporary names are a process id and a counter:
after a crash the leftovers either keep their names (same process id, as in a container)
or can never be met again. The contents of a configuration are abstract; validity is
membership in `ValidConfigs`. The metadata of a revision (time, actor, reason) is left out.

`drift` and `refused` are auxiliary: the first says that the last crash or late error
between the two writes of an activation has not been repaired by an activation since,
the second counts operations refused because of a leftover name.

The file system keeps what a completed system call did; `Durability` drops that.

### Durability

The stores once more, without failing calls and callers that race, on a file system whose
directory operations wait in a `journal` until they are durable. Contents are synced before
they get their name, so a name is there with its content or not at all. A loss of power
(`PowerLoss`) keeps a prefix of the journal on an ordered file system (ext4 and XFS commit
metadata in order) and any part of it on another; `ordered`, chosen at the start, says which. `sync_parent_directory`,
which only the active store calls, puts the places of what is durable from then on into `synced`: on an
ordered file system all there are, on another those in the directory of the configuration. What is
checked: once the sync has returned the active file is not lost again on either; on an ordered file system the state file never refers to a lost
revision, and with nothing pending the active file is the revision it names. On an unordered one
the state file may name a revision that is gone, for nothing syncs the directory of the
revisions; the code then refuses to save states (`UnknownRevision`) until that number has been
given out again. No text of the repository promises otherwise, so no property does.

### RateLimiter

`Match` pins a route and its limit, `ReadClock` reads the clock before the mutex,
`Decide` is everything under it. The clock may advance, and other policies be installed,
between any two of them, so decisions use readings out of order and limits already
replaced. `Instant::duration_since` saturates at zero, as in the standard library.
Routes without a limit touch nothing and are no action.

### Routing and RouteLookup

A path is the sequence of its bytes, of which only the slash has a meaning, and `path_matches`
is the comparison of texts that it is in the code. `SegmentsRespected` says what it is for: the
routes that match are those at or above the path, segment by segment. `LookUp` is `request_filter` up to the place of
the route: `/health` the gateway answers itself, before it looks at any route, so the properties speak of
the other requests. The simulator shares `find_matching_route` and is in `AdminViews`. A
host is the name with case folded, its spelling and its port, because a host without a
port is compared ignoring case and one with a port is not. `SortRoutes` puts each route
at the place that a stable sort gives it. `RouteViews` is the routes page, which sorts the
running table a second time.

### Gateway

`request[r]` is the `RequestContext` with the pc of the filter Pingora calls next.
`Filter` reads the snapshot and finds the route in one step (it reads the shared state
once); `CheckPolicies`, `Select`, `Connect` or `FailToConnect`, and `Forward` follow, with any
number of steps of others in between. `CheckCandidate` and `Install` are the two halves of
`apply_route_config`, before and under the write lock. No caller outside the tests uses
`apply_route_config` yet: the model checks what its documentation offers. `Select` is
one step of the balancer's iterator: it takes the shared cursor and looks at one endpoint;
after `MaxIterations` of them (256 in the code) the request has no endpoint. `CheckHealth`
changes the balancer and `Observe` is the callback that then writes `RuntimeStatus`.

External, and modelled from how the code uses it: Pingora's round robin, health checker
and connecting, name resolution at start, the clock. Left out: reuse of open connections
and the retries Pingora makes on its own when one of them breaks, its overall limit on
retries, what is sent and received after the connection stands, logging. Headers and request
ids are in `HeaderPolicies`. A panic ends the request it happens in.

### HeaderPolicies

A request takes a number of the sequence (`NewContext`), is matched and keeps the policies of
its route (`Match`), is sent on (`SendUpstream`) and answered (`SendAnswer`); `ApplyPolicies`
replaces the policies in between. Headers are a function from lower-case names to values, which is
what `insert_header` and `remove_header` make of them; a policy spells names as it likes, and the
spellings of its `BTreeMap` come in byte order, so of two spellings of a name the later wins.
`RemoveLoop` and `InsertLoop` are the two loops, as recursive functions of the number of rounds. The
names of the specification (`ProxyInit`, `ProxyNext`, `ProxySpec`) are its own, so that one module can
reason about routes and headers.

### Configuration, AdminForms and FormEditing

A configuration is a record like the Rust struct, with texts as model values: `Trimmed` says
which are others with white space around them, `SocketAddresses`, `HeaderNames` and so on which
parse as what. `Valid` is all of `Config::validate`, `Diff` all of `ConfigDiff::between`, and
`SameStructure` the comparison of `apply_route_config`. In `AdminForms` an operation that may
fail is the set of its results, empty for an error. Of the text of a field a form keeps what the
code tells apart: blank, not a number, a number; the pieces of a list; lines with or without a
colon. `Candidates` is the dispatch of both handlers, `UpstreamValidated` the copy of the checks
behind "validate-upstream", `RenderRoute` and `RenderUpstream` the prefilled forms.

`FormEditing` applies one accepted form after another to a configuration that was written by
hand, new forms (`NewForms`) and prefilled ones with one field changed (`RouteEdits`,
`UpstreamEdits`). It takes each form as staged, activated and loaded before the next page is opened.

### AdminStaging

The steps in between. `process` is the running process: the configuration it runs, the one it was
started with, its CSRF token (the number of its start), whether the admin knows the path of the
configuration. `Post` is everything a handler does before it waits for the lifecycle lock: it
reads the running configuration once and answers 403, 503, 422 or 200 (for a validation), or goes
on with its candidate. `AcquireLifecycle`, `Record`, `MarkPending` and `StageFails` are
`FileConfigLifecycle::stage` in the steps of the registry, and the answer. Around them:
`Activate` with its restart flag, `HotReload` (`apply_route_config` with the active file),
`Restart`, `CrashInActivation` (the registry's `Slip`), and `EditFile`, since the active file
is one that people edit as well. `activate_pending` and `apply_route_config` have no caller
outside the tests yet; they are modelled as the documentation of `lungyam-core` offers them, in
the process of the admin. `rollback_to` stages and activates and is not repeated here.

### RevisionPages

The list reads the state file (`LoadState`), opens the directory and reads it (`OpenDirectory`,
`ReadEntries`: the entries of then, and any of those added since); the difference reads one
revision and then the other. The writers are `ConfigRegistry!Next` in between.

### AdminViews

`ReadConfig` and `ReadHealth` are the two locks `RuntimeStatus::snapshot` takes one after the
other. `Simulate` answers the form of the simulator from the configuration that runs; the
answer then stays in `simulation`, as it stays on the page, while routes are replaced.

## Runs

| Run | Asks | States |
|---|---|---|
| `ConfigLifecycle_recovery` | one caller; two crashes and two failing calls anywhere; every step is one of `ConfigRegistry` | 4.1 million |
| `ConfigLifecycle_threads` | two callers race, one failing call; whoever has the lock gives it back (fair) | 0.1 million |
| `RateLimiter_policies` | three requests, two limits that replace each other | 2.2 million |
| `RouteLookup_tables` | all tables of up to three of eleven routes, 64 requests each | 72 thousand |
| `Gateway_failover` | two requests on a pool of two, outages, health checks; every request is answered (fair) | 0.2 million |
| `Gateway_retry` | the finding below | |
| `HeaderPolicies_rewrites` | two requests under policies that replace each other | 2.4 thousand |
| `FormEditing_forms` | new and prefilled forms, one after another | 1.8 thousand |
| `AdminStaging_writes` | two forms race activation, reload, restart and edits of the file; a form that begins to stage is answered (fair) | 70 thousand |
| `RevisionPages_list` | the pages beside writers of three revisions | 2.3 million |
| `AdminViews_pages` | a request, the dashboard and the simulator beside two threads that reload | 0.2 million |
| `Durability_losses` | two losses of power, on an ordered file system and on an unordered one | 0.1 million |

What the properties say:

- `StateFileWellFormed`, `FreshNumber`: the state file names only published revisions, and
  a pending one is newer than the active one; a number about to be published is above all others.
- `FilesAgreeAtRest`: with no call under way the active file is the configuration of the
  active revision, unless `drift`.
- `OkMeansDone`, `ErrorChangesNothing`: what a returned result says about the files, compared
  with what the call found when it got the lock. `Recovery` and a failing directory sync after
  the rename are the two errors that leave the new configuration in place.
- `BoundedRefusals`: a leftover name refuses at most one call for each crash or error that
  could have left one, so a container that restarts does not get stuck.
- `ImplementsRegistry`: the files implement an append-only history with one pending
  revision; the one departure is the registry's `Slip`.
- `AdmissionBound`, `RefusalJustified`: a route admits at most the largest limit in each
  shortest window begun; a refused request finds its own limit used up less than its own
  window before its reading of the clock.
- `BestRouteWins`, `DeepestRouteWins`: the README's order, stated on the declared table and without
  sorting, is what the data plane computes.
- `SegmentsRespected`: the README's "Path matching respects segment boundaries" (README.md:190), stated with
  the paths above a path and without comparing prefixes: a request is answered by a route at or
  above its path, and by none only if none of those admits its host and method.
- `ServedByBestRoute`, `PoolAlwaysFound`: through any reloads a request is sent to the pool of the
  best route of the configuration it pinned, and that pool exists and is as configured.
- `LoneRequestServed`: a request during which nobody else selected an endpoint and nothing changed
  fails only if its pool has no endpoint that is both up and held healthy.
- `StatusAgrees`: with no report under way the status map says what the balancer does. Instances
  configure endpoints by address; for host names it does not hold, because reports carry the
  resolved address (see the hazards).
- `PageInOrder`: sorting the sorted table again, as the routes page does, changes nothing.
- `ChangedAsConfigured`, `IdsAgree`: a request and its answer are changed by the policies it was
  matched with, name by name, and in nothing else but the gateway's own headers; backend and
  client see one id, nobody else's, whatever the client and the policies say.
- `RoundTrip`: a prefilled form submitted unchanged changes nothing. `ValidatedCanBeStaged`: the two
  copies of the upstream checks agree. `OneChange`, `UpdateInPlace`: a form leaves the other routes
  and their order alone, and an updated route its place among those it ties with.
- `WritesGated`: a revision is written only in a process started with leave to write, by a form with the
  token of that process, through any reloads, restarts and edits of the file.
- `AcknowledgedStays`: a form answered with a revision finds its candidate stored under it, and
  it or something staged later pending or active.
- `FlagMatchesReload`: to a process that runs what the replaced file says, an activation reports a
  restart exactly when `apply_route_config` would refuse.
- `ReferencesListed`, `ListedCompare`, `DiffStaysTrue`: what the head of the revisions page names is
  in its list and marked there; what is listed can be compared; what a difference says stays so, and
  "the same" means that every request gets the same route, unless two routes tie (see the findings).
- `DashboardFits`, `SimulationHolds`: the dashboard counts the endpoints it lists, if they are configured by
  address and listed once; what the simulator
  said of a configuration is the route of every such request served from it, whenever it came.
  `/health` is served from none.
- `ActiveSurvives`, `RecordsHold`: see Durability.
- `TypeOK`: the types, and with them that numbers end where they may, that every accepted candidate is
  valid (`AdminStaging`) and that no endpoint's health is forgotten (`Gateway`).
- `EveryRequestAnswered`, `LockReleased`, `EveryFormAnswered`: liveness.

### Findings

One run is expected to fail, on a statement of the repository:

- `Gateway_retry`: "marks the connection error retryable while another endpoint remains"
  (README.md:194). The first of two endpoints is down and the second up, from start to end. Request 1
  fails on the first; request 2 takes the next turn of the shared cursor; request 1 gets the first
  endpoint again, and its second failure is final, with the second endpoint up, held healthy and never
  tried. The property asks for all three, so two dead endpoints do not violate it. `LoneRequestServed` is what does hold.

Other statements the code does not bear out were met while modelling. The modules do what the code
does in each of them; no run refutes the sentence, and no property says it:

- `proxy/lib.rs:293`, "validated route name is a valid header value": validation does not look at
  the characters of a name (`Gateway`, `Forward`).
- `proxy/lib.rs:384`, "configuration validation guarantees valid upstream endpoints": validation only
  refuses empty ones (`Gateway`, `Start`).
- README.md:198, "Request and response policies can remove headers and then add or replace headers":
  `alt-svc` is taken from every response after the policy (`HeaderPolicies`).
- `upstream-summary.html:6`, "Staged upstream changes remain restart-required": the flag
  (`core/lifecycle.rs:126`) compares with the replaced file, so the second of two activations with the
  same changed upstream says no restart is needed, though none has happened (`AdminStaging`, `Activate`).
- `route-updates.html:6`, "Forms are prefilled from the active configuration": they are filled from the
  running one, and after an activation without a restart the next form takes the activated change
  back (`AdminStaging`, `Post`).
- `revision_views.rs:122`, "The selected revisions contain the same effective configuration": the
  difference loses the order of routes, which decides between ties (`Configuration`, `Diff`).
- `routes.html:66` and `:95`, the simulator "Uses the same host, path, method, priority, and specificity
  rules as the Pingora data plane" and shows "which active route wins": for `/health` it names a
  route, and the gateway answers itself (`AdminViews`, `Simulate`).

### Bounds

- Lifecycle: two threads, because the lock admits one at a time and a third would only wait as
  the second does; three configurations (two valid, so that one can replace the other, and one
  that is not); two revisions, so that numbers run out within the run; with one caller two crashes
  and two faults, so that one can hit the repair of the other, and between two callers one
  fault and no crash, since a crash ends both.
- Limiter: three requests fill a limit of two and meet it; windows of two and three within five
  ticks cover two boundaries.
- Lookup: three routes are one more than any comparison involves; the eleven routes tie in every way,
  and the text of one path goes on with that of another both at a slash and within a segment.
- Failover: two requests share the cursor; a pool of two, of which any may be down at the start and
  two outages follow, so that the balancer is wrong in both directions; three iterations
  for a pool of two keep the relation of 256 to any pool, one more than a full turn.
- Reloads and admin views: two threads race between the check and the swap, one request and the pages
  see them, for neither the request nor the pages change what is configured; tables of two routes
  whose sorted order differs from the declared one; pools of one endpoint, so one iteration is enough,
  and no outage, which is the failover run's; each page has its two reads anywhere between the
  others' steps.
- Headers: a header in two spellings, the gateway's own in another than its own, policies that touch
  each of them; two requests for ids that could be mixed up, and as many numbers as requests (`Id`).
- Forms: tables of at most three routes (`MaxRoutes`), two of them tied and hand-written with what
  only YAML allows; forms of each operation, filled well, badly and with white space.
- Staging: two forms, two revisions (`MaxRevision`), so that the second replaces the first and a third is
  refused; two starts (`MaxStarts`), so that a token can be an old one; configurations in which
  writes are forbidden by either setting can be put into the file (`HandWritten`).
- Revision pages: three revisions give a read of the list two writers to miss; five configurations differ in
  each part that a difference names or, declared in two orders, in none.
- Durability: three revisions and two losses (`MaxLosses`), so that one can hit what follows another.

### Fairness

`ConfigLifecycle` assumes that a call under way takes its next step: none of them waits for input,
the revision lock is only taken inside the lifecycle lock, and the lifecycle lock is not needed to
be fair for `LockReleased`. `Gateway` assumes it of each request: a connection attempt ends by itself or
by `connect_timeout_ms`. Nothing is assumed of health checks, reloads or outages. `AdminStaging`
assumes it of each handler that has begun to stage; two forms cannot pass the lock to and fro, since
each stages once, so weak fairness is enough for the one that waits. Nothing is assumed of clients,
operators, activations or restarts.

## Proofs

All are proofs of safety properties of `Spec` (`ViewsSpec` in `AdminViews`, `EditingSpec` in `FormEditing`,
`ProxySpec` in `HeaderPolicies`), for every value of the constants under the assumptions the modules
state, which TLC evaluates on every run:

- `ConfigAssumption`, `BoundAssumption`, `BoundsAssumption`, `InitialConfigAssumption`: configurations
  and bounds are what they are called, and the configuration a process is given is valid. In `Gateway`
  addresses are finitely many and endpoints resolve to some of them.
- `LimitAssumption`: limits and windows are positive, as validation has it.
- `TablesAssumption`, and `ConfigsAssumption` of `RevisionPages`: tables are finite sequences of routes
  with integer priorities (a `Vec`, an `i32`), and paths are finite sequences of bytes.
- `ConfigsAssumption` of `RevisionPages` and `AdminStaging` also: upstreams are a map (`IsMap`, a
  `BTreeMap`), and what valid configuration a form makes of another is in `Configs`, the universe of the model.
- `RequestsAssumption`, `NoneAssumption`, `NumbersAssumption`: `None`, and `Junk` for what is not a number, are
  none of the values they stand beside; the same of `None` in the `ConfigAssumption` of `Durability`.
- `TrimmedAssumption`: trimming what was trimmed changes nothing (`str::trim`).
- `FirstConfigAssumption`, `FormsAssumption`, `LinesAssumption` of `FormEditing`: a configuration and a form are
  records of finite lists, sets and maps, a priority or an interval is an integer, blank or not a number, and
  a line that adds a header is not blank.
- `NamesAssumption`, `SpellingsAssumption`, `IdAssumption` of `HeaderPolicies`: `x-request-id` is neither the
  route's header nor `alt-svc`; the spellings are finitely many and those of the policies are among them; and
  no two numbers have the same id, for a `u64` that counts requests does not come round.

Four theorems about the gateway have a hypothesis of their own, in each case because the
property does not hold of everything that validation accepts:

- `NamesAreHeaderValues` (`PoolsAreFound`): the names of routes can be put into a header. Of another name
  the request panics (see the hazards).
- `EndpointsAreAddresses` (`StatusAgreesAlways`, `LoneServed`, `DashboardsFit`): endpoints are configured by
  address. The observer names an endpoint by its address, so it never reports one configured by host name;
  and a host name may stand for several addresses, more than the `failures` that are allowed.
- `EndpointsListedOnce` (`DashboardsFit`): no upstream lists an endpoint twice. The dashboard would count it
  twice, and the map of health holds it once.
- `PoolsFitIterations` (`LoneServed`): no pool is larger than what one selection looks at, 256.

| Theorem | Module | Property |
|---|---|---|
| `TypeCorrect` | `ConfigLifecycleProofs` | `TypeOK` |
| `StateFileSafe` | `ConfigLifecycleProofs` | `StateFileWellFormed` |
| `NumbersFresh` | `ConfigLifecycleProofs` | `FreshNumber` |
| `FilesAgree` | `ConfigLifecycleProofs` | `FilesAgreeAtRest` |
| `ErrorsChangeNothing` | `ConfigLifecycleProofs` | `ErrorChangesNothing` |
| `OkIsDone` | `ConfigLifecycleProofs` | `OkMeansDone` |
| `RegistryImplemented` | `ConfigLifecycleProofs` | `ImplementsRegistry` |
| `RefusalsBounded` | `ConfigLifecycleProofs` | `BoundedRefusals` |
| `AdmissionBounded` | `RateLimiterProofs` | `AdmissionBound` |
| `RefusalsJustified` | `RateLimiterProofs` | `RefusalJustified` |
| `SortRoutesSorts`, `SortRoutesIdempotent` | `RoutingProofs` | for all tables |
| `BestRouteAlways` | `RouteLookupProofs` | `BestRouteWins` |
| `DeepestRouteAlways` | `RouteLookupProofs` | `DeepestRouteWins` |
| `SegmentsAlwaysRespected` | `RouteLookupProofs` | `SegmentsRespected` |
| `PageAlwaysInOrder` | `RouteLookupProofs` | `PageInOrder` |
| `TypeCorrect` | `GatewayProofs` | `TypeOK` |
| `ServedByBestRouteAlways` | `GatewayProofs` | `ServedByBestRoute` |
| `PoolsAreFound` | `GatewayProofs` | `PoolAlwaysFound` |
| `StatusAgreesAlways` | `GatewayProofs` | `StatusAgrees` |
| `LoneServed` | `GatewayProofs` | `LoneRequestServed` |
| `SimulationsHold` | `GatewayProofs` | `SimulationHolds` |
| `DashboardsFit` | `GatewayProofs` | `DashboardFits` |
| `TypeCorrect` | `AdminStagingProofs` | `TypeOK` |
| `FlagAlwaysMatches` | `AdminStagingProofs` | `FlagMatchesReload` |
| `ReferencesAlwaysListed` | `RevisionPagesProofs` | `ReferencesListed` |
| `ListedAlwaysCompare` | `RevisionPagesProofs` | `ListedCompare` |
| `DiffAlwaysTrue` | `RevisionPagesProofs` | `DiffStaysTrue` |
| `AdmittedStaysAdmitted` | `AdminStagingProofs` | its `IInv` |
| `NothingWrittenWithoutLeave` | `AdminStagingProofs` | `WritesGated` |
| `AcknowledgedAlwaysStays` | `AdminStagingProofs` | `AcknowledgedStays` |
| `ValidatedCanAlwaysBeStaged` | `AdminStagingProofs` | `ValidatedCanBeStaged` |
| `PrefilledFormsChangeNothing` | `AdminStagingProofs` | `RoundTrip` |
| `FormsChangeOneThing` | `AdminStagingProofs` | `OneChange` |
| `UpdatesStayInPlace` | `AdminStagingProofs` | `UpdateInPlace` |
| `ChangedAsConfiguredAlways` | `RouteLookupProofs` | `ChangedAsConfigured` |
| `IdsAlwaysAgree` | `RouteLookupProofs` | `IdsAgree` |
| `RecordsHoldThroughLosses` | `DurabilityProofs` | `RecordsHold` |
| `ActiveFileSurvives` | `DurabilityProofs` | `ActiveSurvives` |

Lifecycle. None of the properties is inductive: that a published number is fresh needs that only
one thread publishes, that the files agree needs to know what a call under way has written so far.
`IInv` adds that in layers: who holds which lock (`LockInv`), which steps belong to which phase
(`PhaseInv`), what is known of the revision a call works on (`NumberInv`), and what the active file
holds at each step compared with the moment the lock was taken (`FileInv`), that the revision in hand
is the newest until it is recorded and a copy of what the call was given (`OriginInv`), and where the
temporary names on disk come from (`NameInv`). Each layer is proved
from those before it, one lemma per action. TLC confirmed `IInv` before it was proved.

`OkMeansDone` is about the last step of a call and needs `OriginInv`: a rollback ends two phases after it
read the revision it copies. The refinement is proved per action: only the renames
of a revision and of the state file, and the crashes and errors inside an activation, change what the registry
sees. What the registry calls the current configuration is not always the active file: while a call is between
its two writes it is the one the call will put back if it fails (`CurrentInside`), and a crash there, or a
repair that fails, is the registry's `Slip` (`WindowSlips`). For `BoundedRefusals` each
leftover name that the counters have still to come to is charged to one crash or error (`NameInv`), and a
counter never goes back within a process, so no name is met twice.

Limiter. The counter of a route is tied to the list of its admissions: the last `count` of
them happened in the current window, all others are paid for by earlier windows, each at least
`MinWindow` after the last. `AdmissionBound` follows by counting windows, `RefusalJustified` because
an exhausted counter means that the last admissions lie inside the window.

Routing. A route's rank is one more than the number of routes ahead of it. Being ahead is a strict
total order, so ranks grow along it, no two routes share one, and as many ranks as places are all
taken: that makes sorting a permutation, in order, with ties as declared. Sorting again finds every
route at its rank. The first match of the sorted table is ahead of every other route that matches,
hence the one the README describes; a path strictly below another has more bytes, hence
`DeepestRouteWins`. A proper prefix that is followed by a slash is what stands before that slash, and the
other way round (`MatchesAtOrAbove`), hence `SegmentsRespected`.

Gateway. A request reads the shared status once, so its invariant (`ContextInv`) is about the past: the
table is that of a configuration which was accepted, the place in it was the first match, and what
was accepted has the upstreams the balancers were built from (`Accepted`). `ServedByBestRoute` follows with the
first-match lemma of `RoutingProofs`, `PoolAlwaysFound` with validation. The status of an endpoint can
differ from the balancer only while a report about that very address is under way (`StatusInv`, `ReportInv`).
For `LoneRequestServed` the turns of the cursor are counted: of the last `w` turns before a request's next
selection none was of an endpoint that could have served it, and `w` is at least its failures plus the
endpoints passed over (`LoneContext`). A request gives up after at least as many of either as the pool has endpoints,
so by then a whole round has passed (`WholeRound`); another's step disturbs it or leaves all of this alone.
The pages add nothing the data plane reads (`PagesOnlyLook`); a simulation holds because it and the request
look up the same table, the counts of the dashboard because the keys of the map of health never change.

Staging. That a write has leave is checked long before it is made. `IInv` carries the check along: a
form past it is of this process, whose admin settings are those it was started with, because a reload
may not change them and a restart ends every form; and only the holder of the lifecycle lock writes
(`Locked`). For `AcknowledgedStays` the revision just recorded is the newest until it is marked
(`Marking`), so `pending` never falls behind what was acknowledged before, and the active revision
never gets ahead of the pending one (`HistoryShape`). For the types `Typed` carries along that every
candidate on its way was validated (`CandidatesValid`), and so what is recorded, activated and run.
`FlagMatchesReload` is then a fact about two valid configurations (`RestartIsStructure`): the maps of upstreams
differ exactly when a key was added, removed or changed, and a restart is asked for exactly when
`apply_route_config` would refuse.

Revision pages. The history only grows and nothing in it changes, which the registry promises (and the
lifecycle keeps, by the refinement); so what was read of the state file is still in the directory that is
read later (`PageInv`), and what was read of the first revision still there with the second (`FragmentInv`).
What a message says is a fact about two valid configurations: with no difference, each route of the one is in
the other under its name (`RouteUnderName`), the same routes have the same first match unless two
tie (`SameRoutesSameAnswer`), and no restart is asked for exactly when the structure is the same.

Forms. `ValidatedCanBeStaged` is a fact about two operators, case by case. `RoundTrip` needs to know where a
route comes from: by the inductive invariant `FromForms` every route and pool of the configuration is one of
the first configuration or one that some form made (`Written`, `WrittenPool`), and what a form made its own
prefilled form makes again, field by field: a list that was trimmed and whose blanks were dropped is left as it is
(`PiecesAgain`, `PiecesInOrderAgain`), headers come back from their lines whatever the order of the lines
(`HeadersAgain`). For `OneChange` and `UpdateInPlace` a form's effect on the table is an injection of the places of
the other routes that keeps their order (`Carries`; `Appending`, `Removing`, `Replacing`); which of two routes is ahead
depends on nothing else, so the pairs in which they are tried are the same (`TriedStays`), and a route that
keeps the priority and the bytes of its path keeps every route's place (`SamePlaces`).

Headers. A request carries the policies it was matched with and what the filters made of its headers
with them (`ProxyInv`), and its number is behind the sequence, which makes ids unique. What a loop leaves is a
claim about every number of rounds; it is proved without an induction rule, by looking at the first round after
which it fails (`FirstPlace` of `RoutingProofs` says that there is one), for the existence of the loop's result
(`RemoveLoopRuns`, `InsertLoopRuns`) and for its value (`RemoveLoopRemoves`, `InsertLoopInserts`). `ApplyIs` puts the two
together, and the gateway's own headers come last.

Durability. On an ordered file system a loss of power leaves the files of a prefix of the journal, so the
invariant (`PrefixInv`) says of every prefix, not only of the whole, that revisions have no gaps, that references
are to what is there, and that with nothing pending the active file is the revision the state file calls active.
Appending an operation adds one prefix, and each step of the lifecycle is shown to keep that one right
(`RevisionKeepsConsistent` and its like), for which `TaskInv` says what the call under way has in hand. For
`ActiveSurvives` `SyncedInv` says that outside the window between a rename and its sync every operation on the
active file is among the synced ones, so any part of the journal that contains those leaves the same active file.

Only model-checked is liveness (`LockReleased`, `EveryRequestAnswered`, `EveryFormAnswered`), which TLAPS has no
rules for.

The types of the limiter are proved as `LimiterTyped`.

## Not modelled

- Rendering: HTML, wording, units of bytes and uptime, logging. The pages not named above format one
  read of the runtime status. Templates are read as statements about the code.
- Parsing YAML and the defaults it fills in; a configuration is what comes out. YAML can hold what
  a form cannot (names padded with spaces, an empty host, a timeout of zero), and `RoundTrip` is
  about what a form wrote.
- The constant-time comparison of the token is equality, and system entropy never repeats.
- Pingora, tokio and axum: what they call is modelled, not how.
- Metadata of revisions (time, actor, reason), which nothing decides on.
- Listing revisions takes any directory with a number for a name; that only the program creates
  such directories is assumed.
- Installer, release scripts, container files, templates and the vendored htmx hold no state of the
  program.

## State of the project

Every part named in the inventory is modelled, but for what is listed above, and every safety property that
the passing runs check is proved, under the assumptions and hypotheses named above. What would be worth adding: the bodies of answers and the reuse of connections, if Pingora's
retries on them are to be relied on; and the parsing of YAML with its defaults.
