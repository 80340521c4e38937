# TLA+ models of the kcp Cluster API managers

These modules model the repository's managers, the demo that runs them together
and the tools that measure them: the wiring of workspaces into a running process
and its telemetry, the shard caches, the initializer and the maintainer of a
workspace's roles, the permission claims, the mains of the binaries, the
workspace manager, a demo run, and what a sweep and a verification conclude. TLC
checks them on small instances; TLAPS proves the safety properties that hold,
that the wiring serves a workspace as an abstract specification says, and that it
uses the telemetry as that is specified, for every value of the constants. Paths
below are relative to the repository's `src` directory, and to its `internal`
unless they begin with `cmd`, `test` or `providers`.

    tlc -config Wiring.cfg Wiring          # module and cfg of each run: see "Runs"
    tlapm WiringProofs.tla

## The system

A kcp shard holds many workspaces. A *provider* workspace publishes APIExports
(core, bootstrap, control plane, infrastructure, and one for onboarding);
tenants bind them. The processes of this repository serve all of a tenant fleet
from one process per provider.

| Component | State it keeps | Operations | Talks to |
|---|---|---|---|
| Per-workspace wiring (`providerwiring/wiring.go`) | map workspace -> runnable group; per group a stopped flag, a context and a WaitGroup | `Engage`, the watcher goroutine of each engagement, `disengage`, `Add`, `Start`, `Engaged` | called by the multi-cluster provider; calls the SetupFunc, the Recorder |
| Shard caches (`shardcaches.go`) | shards already indexed, shards whose failure was reported | `newCluster`, `addIndexes` | called by the provider once per workspace; calls the wildcard registry and the cache |
| Virtual workspace endpoint (`virtualworkspace.go`) | none | a poll with a timeout | the API server |
| Telemetry (`workspacetelemetry`) | counters per workspace, the exported set, failure reasons | `Engaged`, `Disengaged`, `EngagementFailed`, `RecordReconcile`, `Snapshot` | called by the wiring |
| Core manager (`coremanager`, `contractmetadata`) | process-wide: feature gates, controller names, which workspace has the webhooks | `NewFleet` and its registrations, cache indexes, `SetupCoreWebhooks`, `WaitForManager`; event sink, secret reader | the manager, Cluster API's controllers |
| Provider managers (`cmd/*`, `bootstrapmanager`, `controlplanemanager`, `providers/nutanix-infrastructure`) | the progress of main | build a manager, register, start, wait, exit | endpoints, the wiring, the fleet |
| Exports and claims (`capiexports`, `kcpfixtures`) | none of its own; the APIExports on the server | `Publish`, `DiscoverIn`, `ReconcileClaims`, `PublishAPIExport` | the API server |
| Claim controller (`workspacemanager/claims.go`) | a work queue, a cache | `ReconcileClaims` on every APIExport event | the API server |
| Initializer (`capiworkspaces/initializer.go`) | none of its own; LogicalCluster, APIBindings, ClusterRoles | wait for kcp's initializer, nudge claims kcp gave up on, write roles, remove its own initializer | kcp's `system:apibindings`, `permissionclaimlabel` and materialiser |
| Maintainer (`maintainer.go`, `reconcile.go`, `roles.go`) | a work queue, caches of bindings and roles | `ReconcileRoles` on every APIBinding event | the API server |
| Runner (`workspacemanager/setup.go`, `cmd/workspace-manager`) | three goroutines and an error channel | `New`, `Start`, `startMaintainer` | claim controller, initializer, maintainer, the endpoint |
| Demo (`demo`, `cmd/demo`) | the progress of `Run`; managers in the same process | publish, type, users, workspaces, grants, bindings, managers, objects, `waitForReady`, `CheckAccess` | all of the above |
| Scale model and sweep (`scaleharness`, `sweep`, `test/integration/sweep`) | samples; request counts; a running measurement | `Settle`, `SettleReleased`, `Throughput`, `Counter`, departure, retention, fit, stacks | the process it measures |
| Verification and diagnostics (`verify`, `workloaddiag`, `drift`) | results, the capabilities asserted to a step; lines already logged | `Run`, `CapabilityAsserted`; `Write` | the steps, the container runtime |

What makes it hard: `Engage` and the watcher of the same engagement run at once,
outside the lock, while the process may be ending; the Recorder is called
outside the wiring's lock; kcp's controllers race this project's initializer,
with a retry budget; controllers decide from caches that lag behind their own
writes, in replicas that elect no leader; `Publish` and the claim controller
rewrite the same objects; an engagement is handed once to what is registered at
that moment; endpoints appear only with the first tenant, so every process waits
for something that may not come in time; the demo has managers, controllers and
a script in one process, and judges success from reads taken one after the other;
and what is measured goes on moving.

What makes each part correct:

- *Wiring*: every runnable group has exactly one owner that will stop it; when a
  stop has returned nothing runs; a failed engagement leaves nothing; a
  workspace that left is released and one that came back is wired; `Start`
  returns.
- *Telemetry*: the exported cardinality is capped; every series is retired once;
  nothing outlives its workspace; what is counted is what is served; the
  reported differences do not wrap.
- *Shard caches*: no watch before its index, and none missing unreported;
  bookkeeping that refuses nobody; one report of the cause.
- *Initializer*: a workspace is Ready only when its roles cover what it serves;
  losing kcp's race does not strand it.
- *Maintainer*: somebody else's role is never written; no write without a
  change; the roles follow the bindings.
- *Claims*: no claim without the identity of its export; the claims converge to
  what is installed.
- *Managers*: whoever is engaged reaches every component of the process; lists
  find their indexes; a bound workspace is served in the end, whatever timed out.
- *Runner*: it neither hides the failure of a manager nor leaks one, and the
  wait that only a tenant can end does not keep that tenant out.
- *Demo*: nothing it does comes before what it leans on; success is true of all
  workspaces; tenants are apart; it ends.
- *Measurement*: a sample is of a process at rest; what is concluded of samples
  is what the process did.
- *Verification*: status 0 means that everything ran.

## Modules

| Module | Models | Extends |
|---|---|---|
| `Telemetry` | the Recorder | |
| `Service` | what a workspace is promised: its engagements run one after the other; abstract | |
| `Wiring` | `Wiring`, `runnableGroup`, the provider that drives them | `INSTANCE Service` |
| `WiringTelemetry` | the two together: each recorded step of `Wiring` with one call of the Recorder | `Wiring`, `INSTANCE Telemetry` |
| `ShardCaches` | `newCluster` and `addIndexes` | |
| `Roles` | `ReconcileRoles` and `applyRole`, one API call a step | |
| `Onboarding` | the initializer, reading live, next to kcp's controllers | `Roles` |
| `Maintainer` | the maintainer, reading caches, next to a tenant | `Roles` |
| `Claims` | `Publish`, `ReconcileClaims` and the claim controller | |
| `Managers` | the mains of the five provider binaries, and the demo's `startManagers` | |
| `Runner` | the workspace manager, in its binary or in a demo run | |
| `Tenancy` | the plan of users and workspaces, and the access checks: operators only | |
| `Demo` | `demo.Run` next to the manager it started | `Runner`, `Tenancy` |
| `Settling` | `Settle` and `SettleReleased` against a process with noise and pauses | |
| `Throughput` | `Begin`, `Completed` and `Await` | |
| `Scale` | departure, retention, least squares, held-out points, prediction: operators only, over exact fractions | |
| `Sweep` | one live sweep, whose samples `Scale` evaluates | `Scale` |
| `Traffic` | `Counter`, `Classify` and the counts reported, under clients | |
| `Stacks` | goroutine profiles and their difference | |
| `Verify` | `cmd/verify`, `verify.Run` and `CapabilityAsserted` | |
| `Progress` | the change writer | |
| `WiringProofs`, `MaintainerProofs`, `ClaimsProofs`, `OnboardingProofs`, `ManagersProofs`, `DemoProofs` | the theorems | the module of their name |
| `WiringTelemetryProofs` | the theorems of the two together | `WiringTelemetry`, `WiringProofs` |
| `PartsProofs` | the theorems of the parts that share no state | `Telemetry`, `Settling`, `Throughput`, `ShardCaches`, `Traffic`, `Progress`, `Verify`, `Sweep` |
| `MCWiringTelemetry`, `MCClaims`, `MCDemo`, `MCStacks` | the constants and symmetry of the runs | the module of their name |
| `MCControllers` | the two fleet-wide controllers, in one run: each behaviour is of one of them | `MCClaims`, `Maintainer` |
| `MCParts` | the parts that share no state, in one run: each behaviour is of one of them | `Onboarding`, `Managers`, `Telemetry`, `ShardCaches`, `Throughput`, `Settling`, `Sweep`, `Traffic`, `Verify`, `Progress` |

### How state and actions correspond to the code

**Wiring.** One engagement is one call of `Engage`; its two threads are the call
and the watcher, with program counters in `pc`. `engaged` is the map,
`stopped` and `running` are each group's flag and WaitGroup, `held` is the
local variable `group` of `disengage`. A section under `w.mu` or `g.mu` is one
action; what happens between two sections (GetManager, the SetupFunc, the
recorder calls, `wg.Wait`) is an action of its own. `disengage` is
`Delete`, `Release`, `Stop`, `Wait`, of either thread; `Start` is
`StartWaits` to `StartReturns`. `Join`, `Leave` and `Shutdown` are the provider:
three constants say how orderly it is (`DuplicateEngage`, `RejoinEarly`,
`LeaveDuringEngage`), because the code documents its de-duplication as racy and
nothing tells it when a disengagement has completed. `Serving` is the refinement
mapping to `Service`: an engagement begins when its group is made, is open until
the group is stopped, and runs what its setup registered. `Service` knows no map,
lock or thread; its `Begin` waits until nothing of the workspace's earlier
engagements runs.

**Telemetry.** Each method holds the lock throughout and is one action.
`exported` is a history variable: series ever exported. Workspace names are
integers because the ranking breaks ties by name.

**WiringTelemetry.** The recorder steps of `Wiring` (`RecordFailure`,
`RecordEngaged`, `Release`) happen together with the call of the Recorder that
the code makes there. `RecordReconcile` is left to `Telemetry`: nothing in the
binaries calls it at this commit. `late` is a history variable: the setups that
were recorded after their own disengagement was.

**ShardCaches.** Calls of one shard are serial (they come from one informer's
handler), those of different shards interleave. The mark in `indexed`, each
`IndexField` and the registry's `AddCache` are steps. `NewScopedCluster` follows
`AddCache` and may fail: the watches then stay and the workspace gets no cluster.

**Roles, Onboarding, Maintainer.** A role is the set of API groups its rules
cover, whether this project's label is on it, and the version the server gave
it; the rule lists are constants of `roles.go`. `Roles` has the list, get,
create and update of `ReconcileRoles` as separate steps, parameterised by what
the reconciler's client shows it: the server's state in `Onboarding`, whose
reads are live, a cache in `Maintainer`, where bindings and roles come over two
watches of which neither waits for the other, nor for the reconciler's own
writes. In a workspace a role may become somebody else's at any moment
(`TakeOver`): its label is taken off, or one of that name is created. Nobody
deletes a role. kcp is external: it binds, applies claims or gives up, materialises
CRDs, and removes its own initializer.

**Claims.** A claim is the pair of export and identity it names. `Publish` is
`CreateExport` / `CompareExport` / `ResetExport` for each export, then
`WaitForIdentities`, then the same `Reconcile` that the controller runs, as in
the code. `Publish` reads the server. The controller reads one cache of
APIExports: a single ordered watch, so its view is the server at some earlier
moment.

**Managers.** A main is a sequence of steps, and `pos` is where it is: gates,
provider, endpoint, manager, fleet or controllers, wiring, start, webhooks, and
the wait it ends with. What the steps leave behind is in the process: the gates
and the controller names, which are global, `registered` components, declared
`indexes`, and `heard`, which components an engagement was handed to. Any step
that calls something may fail and end the process; a deployment starts it again,
with empty state. `mgr.Start` in a goroutine of its own and in main itself are
two different steps, since they differ in what a signal does.

**Runner, Demo.** `thread` holds the three goroutines of `Start`, `errs` its
channel. `host` says whose process it is: the binary, where an error ends the
process and the deployment starts another, or a demo run, which logs what
`Start` returned and goes on. `Demo` adds `Run` as a program counter `at` over
the steps of `demo.go:587-924`; next to it work the manager, tenants'
controllers (`Provision`), the engagements and a user's interrupt. What a
workspace has is its roles, its bindings, its objects and the readiness of its
cluster, control plane and machine, which come and get ready at any moment, also
between the three reads of a pass of `waitForReady`, each of which is an action.
What is ready stays ready, and a workspace has one machine: neither the failure
of a machine nor a surplus of them in one workspace, which would make up for
another's in the sum of `demo.go:526`, is modelled. A grant takes effect at once.

**Settling, Throughput.** A poll of `Settle` is one step, in which the process
moves as it likes: it starts (or gives back) what is left, pauses for at most
`MaxPause` polls, and has up to `MaxNoise` transients. `Throughput` has the
sections under the lock as actions; `Await` reads the channel in one and waits
in another. Channels are numbered by their `Begin`.

**Scale, Sweep, Traffic, Stacks.** Floating-point figures are exact fractions.
`Sweep` generates the samples as `test/integration/sweep` does: baseline, up,
activate, down. A request is classified from the segments of its path. A
profile is a sequence of lines, headed as the Go runtime prints it. In `Scale`
a sample is sorted by its place among the others (`Place`), a sum is a fold over
the indices and a filter a recursive function: the code's `slices.SortFunc`, `+=` and
`append` in the forms that the proofs can compute with.

**Verify, Progress.** A capability is looked at before the step, asserted in the
environment while it runs, and looked at again by the tests; it may come and go
in between. `Write` gets any piece of any text.

## Runs

| Run | Module, cfg | Checks | Instance |
|---|---|---|---|
| `wiring` | `Wiring`, `Wiring.cfg` | `OneOwner`, `StopMeansQuiet`, `FailedIsUnwired`, `LeavingReleases`, `StartReturnsEventually` | 2 engagements of 1 workspace, any provider |
| `wiring_orderly` | `MCWiringTelemetry`, `WiringOrderly.cfg` | `RejoinedIsWired`, `ServesInTurn` (implements `Service`), `HeldForASetup`, `CountIsOfTheServed` | 2 engagements, 2 workspaces; a provider that waits for a disengagement, contexts that end at any moment |
| `demo` | `MCDemo`, `Demo.cfg` | `NeverForbidden`, `EngagedBeforeObjects`, `SuccessMeansReady`, `TenantsAreApart`, `RunEnds`; of the Runner `NilMeansAllEnded`, `RunnerLeavesNothing`, `Onboarded` | 8 sets of options, 3 workspaces in a demo and 2 with the binary, 1 failure |
| `controllers` | `MCControllers`, `Controllers.cfg` | of claims `ClaimsAreAttributed`, `ClaimsConverge`; of the maintainer `ForeignRolesKept`, `WritesChangeTheRole`, `RolesGrowWithBindings` | claims: 3 exports; `Publish` twice, or once with a withdrawal or a failure, or one of each of those. Maintainer: 1 replica, 2 groups, all starts; 1 bind, 1 unbind, 1 role taken over, 1 failure |
| `parts` | `MCParts`, `Parts.cfg` | `ReadyMeansGranted`, `RaceIsSurvived` (onboarding); `NobodyMissed`, `FieldsAreIndexed`, `NoNameIsRejected`, `CleanExitIsDrained`, `BoundIsServed` (managers); `SeriesConserved`, `AccountsBalance` (recorder); `ShardVerdictsAreTrue`; `ReachedIsWoken`; `VerdictIsRight`; `RetentionIsExact`, `DepartureIsReal`, `FitIsTheTrend` (sweep); `TrafficIsReal`; `ZeroMeansAllRan`; `TimelineIsWhole` | onboarding: 2 replicas, 2 default exports, 2 retries, 1 failure; managers: 6 mains, 2 workspaces, with and without webhooks and a gate turned back on, 1 failure, 1 restart; the others see below |
| `wiring_second_disengage` | `Wiring`, `WiringSecondDisengage.cfg` | violates `DisengageSparesOthers` | 2 engagements of 1 workspace, with `RejoinEarly` |
| `telemetry_late_setup` | `MCWiringTelemetry`, `TelemetryLateSetup.cfg` | violates `TelemetryReleased` | 1 workspace that leaves during its setup, no early rejoin |
| `telemetry_early_rejoin` | `MCWiringTelemetry`, `TelemetryEarlyRejoin.cfg` | violates `ServedAreCounted` | 1 workspace engaged again early, which does not leave during a setup |
| `maintainer_stale_role` | `Maintainer`, `MaintainerStaleRole.cfg` | violates `RolesFollowBindings` | 1 replica, 1 group bound and unbound |
| `claims_republish` | `MCClaims`, `ClaimsRepublish.cfg` | violates `RepublishKeepsClaims` | 3 exports, `Publish` twice |
| `shards_half_indexed` | `ShardCaches`, `ShardHalfIndexed.cfg` | violates `EngagedIsWhole` | 2 workspaces of 1 shard, 2 indexes, 1 that fails |
| `stacks` | `MCStacks`, `Stacks.cfg` | violates `GrownIsGrowth` | 3 stacks, 2 with the same frames, at most 2 goroutines each |

In `controllers` and `parts` a behaviour chooses a part at first and is one of
that part's specification from then on; the other parts keep an initial state, in
which their properties hold. The states are a sum, not a product, and a property
is checked in every behaviour of the part it is about. In `parts` the recorder
counts failed engagements in behaviours in which it exports no series; its two
theorems have no such limit.

The type invariants (`TypeOK`, and `SettlingTypeOK`, `ShardTypeOK`,
`ThroughputTypeOK`, `RunnerTypeOK`, `RolesTypeOK`) document the domain of each
variable. They hold in the instances of the passing runs and are in no cfg: those
of `Telemetry`, `Wiring`, `Maintainer`, `Claims` and `Onboarding` are theorems,
those of `Settling`, `Throughput` and `ShardCaches` parts of a proved invariant
(the invariants of the other proofs say the types they need themselves), and a
type by itself is no promise of the code.

Deadlock is not checked: every instance comes to rest where the program does
(a process that ended, a workspace that is Ready, controllers with an empty
queue, a run that returned) or at a bound. That nothing waits for ever is what
the liveness properties say.

### Why the bounds are enough

- *Wiring.* Every hand-over of a group is between the two threads of its
  engagement, `Start`, and at most one other engagement of the same workspace,
  so two engagements have every pair of actors; two workspaces show that one
  workspace's disengage leaves the other alone. One runnable is enough to be
  left running. The safety of `wiring` and `wiring_orderly` is proved for any
  number.
- *Wiring and telemetry.* A setup recorded late and an early rejoin need one
  workspace each; with both allowed at once their consequences mix, so each has a
  run of its own. `HeldForASetup` is proved for a provider of any kind.
- *Recorder.* Three workspaces for two labels: ties, displacement and a
  remainder all occur. Three reconciles make all orders of three loads; two
  reasons with one retained reach the cap. Proved for any number of each.
- *Shards.* Three workspaces, so that two can be on a broken shard with one on
  another; two indexes, so that one can fail after the other succeeded. Proved
  for any number, as is what is checked of *Verify*.
- *Throughput.* Two waiters and two measurements: an `Await` may meet the
  measurement before it, its own, and one begun while it waits; targets of one
  and two are reached at once and step by step.
- *Settling.* A quiet of four polls with a pause of one and one transient is
  the least that `QuietOutlasts` allows; the deadline of nine leaves room for a
  verdict on either side of it.
- *Sweep.* Four workspaces are the fewest at which a departure can be judged, on
  a straight line, one with a bend, one with a step at the end, and a constant.
  Two transients may fall in any two reads.
- *Traffic.* The wildcard and one workspace, a core resource and one of a group,
  through both front ends; with three requests a stream can be opened, opened
  again and opened elsewhere.
- *Verify.* Four steps, and one capability more than the code has, so that the
  order in which they are looked at matters. Two changes: gone and back.
- *Progress.* Five bytes have two lines, a blank one, a carriage return and
  every cut.
- *Sweep, Traffic, Progress* are also proved for any constants: any peak, curve
  and number of transients, any requests, any bytes.
- *Onboarding.* One export without Cluster API groups and one with, like the
  WorkspaceType's own defaults; two retries instead of twelve leave a first, a
  second and an exhausted state. The safety is proved for any number of each.
- *Maintainer.* Old caches need one bind and one unbind to differ from the
  server in both directions, and one role that is taken over to differ from it in
  whose the role is. `MaxVersion` is one more than the writes that these can
  cause. For two replicas see "What the models say".
- *Claims.* `core` and `bootstrap` claim from each other and are maintained, the
  third export is a stranger that is installed and withdrawn. `Publish` twice
  is what reaches the update path of `PublishAPIExport`. `MaxTrouble` allows any
  two of publishing, withdrawing and failing, in any order; the safety property
  is proved for any number of each.
- *Managers.* A webhook workspace needs one other workspace to be told from. One
  failure and one restart reach every step of main with the state of a first
  life gone. The safety is proved for any number of workspaces, failures and
  restarts.
- *Demo.* Options with and without users, with more users than workspaces, a
  name given twice and one that the access table reserves (all refused), both
  ways of onboarding, with and without managers in the process, an unprivileged
  credential. Three workspaces are the fewest that two users share unevenly, so
  that one of them owns two and the remainder and the quotient both matter. The
  binary needs no third tenant: one brings its endpoint and one comes after. Two
  exports stand for the four, `core` first: the step that could forget one
  treats the others alike. The safety is proved for any workspaces, exports, users
  and options within `DemoAssumption`.

### Fairness

- `Wiring`: goroutines are scheduled, GetManager and the SetupFunc return, a
  runnable returns once its context is done, as `manager.Runnable` asks of it.
  The provider and the leaving of workspaces are not fair; neither is `Add`.
- `Onboarding`: the workers run while there is something to do, kcp's controllers
  make progress. The materialiser is not fair: it may win the race or not, and
  nothing says when. `RaceIsSurvived` therefore starts from the moment it did.
- `Maintainer`: a worker runs while it has something to do, and each watch
  delivers in the end. Tenant and failures are not fair.
- `Claims`: the controller's worker and its watch, and kcp giving identities.
  `Publish` is not fair, so it may stop after any step.
- `Managers`: main and the manager's goroutines are scheduled and a container
  that failed is started again. That a manager engages a workspace and reconciles
  it, which takes seconds, is strongly fair, because a wait of minutes that runs
  out may end the process before it in one life, but not in all of them. Tenants
  and signals are not fair.
- `Runner`: the same, with the startup timeout of the maintainer as the wait, and
  what initialises some workspace and widens its roles as what takes seconds.
- `Demo`: `Run` takes its steps and the deadline of `waitForReady` passes.
  Nobody promises that machines become ready, so `RunEnds` is reached by the
  deadline where they do not.
- Fairness is of a process, not of each of its threads, wherever that is enough
  (one condition for all steps of `Managers`' main, of the Runner's goroutines, of
  kcp's controllers): less is assumed than the scheduler gives.
- `controllers` and `parts` assume the same of the part that a behaviour is of.

## What is proved

`Spec => []TypeOK` for `Telemetry`, `Wiring`, `Maintainer`, `Claims` and
`Onboarding` (`TypeCorrect` in each proof module; the last two name it
`ClaimsTypeOK` and `OnboardingTypeOK`), and:

| Theorem | States |
|---|---|
| `PartsProofs!ExportIsCapped` | `[]CardinalityBounded` |
| `PartsProofs!SeriesAreAccountedFor` | `[](LabelsAreTracked /\ SeriesConserved)` |
| `PartsProofs!VerdictsAreRight` | `[]VerdictIsRight` |
| `PartsProofs!NoWakeUpIsLost` | `[]ReachedIsWoken` |
| `PartsProofs!ShardsAreTruthful` | `[]ShardVerdictsAreTrue` |
| `PartsProofs!AccountsAlwaysBalance` | `[]AccountsBalance` |
| `PartsProofs!DeltaIsTrue` | `[]DeltaIsWhatHappened`, a conjunct of the next |
| `PartsProofs!TrafficIsAlwaysReal` | `[]TrafficIsReal` |
| `PartsProofs!TimelineIsAlwaysWhole` | `[]TimelineIsWhole` |
| `PartsProofs!RetentionIsAlwaysExact` | `[]RetentionIsExact` |
| `PartsProofs!DepartureIsAlwaysReal` | `[]DepartureIsReal` |
| `PartsProofs!FitIsAlwaysTheTrend` | `[]FitIsTheTrend` |
| `PartsProofs!StatusSaysWhatRan` | `[]ZeroMeansAllRan` |
| `WiringProofs!GroupsHaveOneOwner` | `[]OneOwner` |
| `WiringProofs!StoppedGroupsAreQuiet` | `[]StopMeansQuiet` |
| `WiringProofs!FailureLeavesNothingWired` | `[]FailedIsUnwired` |
| `WiringProofs!RejoiningIsClean` | `[]RejoinedIsWired`, if `~RejoinEarly` |
| `WiringProofs!WiringServesInTurn` | `ServesInTurn`, that is `Service`, if `~RejoinEarly` |
| `WiringProofs!NobodyIsServedTwice` | `[]ServedOnce` of `Service`, if `~RejoinEarly` |
| `WiringTelemetryProofs!RecordingIsTransparent` | the two together implement `Wiring` |
| `WiringTelemetryProofs!WiringUsesRecorder` | the two together implement `Telemetry` |
| `WiringTelemetryProofs!ChurnLeavesLateSetups` | `[]HeldForASetup`, whatever the provider does |
| `WiringTelemetryProofs!CountIsExact` | `[]CountIsOfTheServed`, if `~RejoinEarly` |
| `ClaimsProofs!ClaimsCarryTheirIdentity` | `[]ClaimsAreAttributed` |
| `MaintainerProofs!ForeignRolesAreKept` | `ForeignRolesKept` |
| `MaintainerProofs!WritesAreNeeded` | `WritesChangeTheRole` |
| `OnboardingProofs!ReadyWorkspacesAreGranted` | `[]ReadyMeansGranted` |
| `OnboardingProofs!InitializersNeverOverwrite` | no initializer ever comes to update a role |
| `ManagersProofs!EngagementsReachAll` | `[]NobodyMissed` |
| `ManagersProofs!ListsHaveTheirIndex` | `[]FieldsAreIndexed` |
| `ManagersProofs!NamesAreAccepted` | `NoNameIsRejected` |
| `ManagersProofs!CleanExitsAreDrained` | `[]CleanExitIsDrained` |
| `DemoProofs!NilIsTheEnd` | `[]NilMeansAllEnded`, of the Runner in either host |
| `DemoProofs!TenantsMayBind` | `[]NeverForbidden` |
| `DemoProofs!ObjectsComeLast` | `[]EngagedBeforeObjects` |
| `DemoProofs!SuccessIsReal` | `[]SuccessMeansReady` |
| `DemoProofs!TenantsStayApart` | `[]TenantsAreApart` |

### From which assumptions

The named ones of the modules. Most say only of what kind the constants are.
Those that say more:

- `TelemetryAssumption`: workspaces are integers, as the ranking breaks ties by
  name, and finitely many.
- `ClaimsAssumption`: each worker maintains at least one export.
- `QuietOutlasts`: the quiet asked for is longer than the pauses that noise can
  hide one after another. Without it `Settle` can be fooled by a process whose
  last goroutine comes exactly as a transient goes; `sweep_test.go:99-113`
  chooses its quiet periods for that reason.
- `TrafficAssumption`: no cluster's name is empty, and a kind is a group and a
  resource.
- `SweepAssumption`: two workspaces or more at the peak, and costs that are
  natural numbers, being counts of goroutines.
- `WiringTelemetryAssumption`: the Recorder's reasons include the wiring's two,
  and the bound on failures, which is the model's and not the code's, is never
  met.
- `VerifyAssumption`: there is a fast step, and what a step needs are
  capabilities, as `cmd/verify` declares them.
- `DemoAssumption`: workspaces are numbered from 1 and there are enough of them
  for what is asked; a user has a name; `core` is not the only provider, and
  Nutanix is not among a demo's (`Options.providers`, `demo.go:354-365`).

`~RejoinEarly` is a hypothesis of theorems, not an assumption: what the provider
must do for the property to hold. Nothing tells a provider when a disengagement
has completed, so one that does not wait breaks it: `telemetry_early_rejoin`, and
for the wiring alone the first entries under "Wiring, shards, roles, claims"
below. No theorem assumes that a workspace stays during its setup. Every
assumption is evaluated by a run, and the hypothesis holds in `wiring_orderly`.

### Along which argument

- *What is summed, sorted or filtered.* Induction over the subsets of a finite
  set and over the numbers comes from the library's well-founded orders
  (`SubsetInduction`, `UpToInduction`); the property is given as a set, so that
  the lemmas can be applied. A recursive function is first shown to exist and
  to satisfy its equation (`GatheredExists`, `RecordsExist`), and sums to be
  linear (`SumIsLinear`).
- *Telemetry.* The ranking is a strict total order on the tracked workspaces, so
  the workspaces ahead of the members of `Top` are a chain, and there are at
  most `TopN`. The conservation of series needs `LabelsAreTracked` and the
  finiteness of the label set. For the accounts (`Books`): no more load is
  tracked than there were reconciles, so the remainder that is reported does not
  wrap, and a failure goes without a reason only once the reasons are at their
  cap.
- *Wiring.* `OneOwner` is not inductive by itself: one has to know that a call
  has a group only after it looked at the map (`Joined`), that a group is
  registered under its own workspace (`Homed`), that a thread holds a group
  exactly from its `Delete` on (`HeldFromDelete`), that only an owner stops a
  group (`StoppedByOwner`), and that `Start` drains what it stopped
  (`StartDrains`). `IInv` is the conjunction. `StopMeansQuiet` follows because
  `Add` is refused once the group is stopped and an owner waits for zero.
- *Wiring, orderly.* A watcher moves only once its context is done, and is there
  as long as its group is registered (`Turns`). A provider that waits has one
  engagement of a workspace at most that is not over, both threads included
  (`OneAtATime`). So what `Delete` finds in the map is its own group, and a call
  that answered nil keeps its place there until its context ends
  (`KeepsItsPlace`).
- *Wiring implements Service.* The only step that needs an argument is `EngageNew`:
  when a call is about to look at the map, every group of the workspace's earlier
  engagements has ended for good (`HandedOver`). It was so when the call was made,
  because a thread only ever takes its own group (`HoldsOwn`), was through with
  it, and had waited for zero; and what ended stays so. `NobodyIsServedTwice`
  is then an argument about `Service` alone. By `RecordingIsTransparent` both
  theorems hold of the wiring with a Recorder too.
- *Wiring and telemetry.* `StepIsRecorder` has a case for each action of the
  composition: a call of the Recorder is a step of `Telemetry`, everything else a
  stutter. What the Recorder tracks is what it counts as engaged
  (`TracksTheEngaged`), and a workspace comes into that only by the recording of
  a setup. A watcher tells the Recorder once, in its `Release` (`TellsOnce`); if
  it did so before the setup was recorded, the setup is in `late`, and stays
  there and counted until something of that workspace is released
  (`LateAreCounted`). Hence `HeldForASetup`, for any provider. For
  `CountIsOfTheServed` the provider has to wait: then no `Release` is about a
  workspace that another engagement has (`ServedIsCounted`), and what is counted
  at rest belongs to a setup that is in the map and there, or late.
- *Claims.* `AttributedInv`: whatever identity an export, the cache or a
  reconcile's findings carry was given by the server to that export. The
  history `issued` makes it expressible; no step takes an identity back out of
  it, which is why the age of the view does not matter.
- *Maintainer.* `ViewInv`: what a cache holds is an older version of the role or
  the role itself, and whoever is about to update has read a managed role that
  differs from what it wants. The role may have become somebody else's since,
  which gives it another version. When the server accepts the update, the
  versions are equal, so what was checked on the copy holds of the role.
- *Onboarding.* `GateInv`: a reconciler looks at roles only once kcp has removed
  its initializer, and kcp does so only when every default binding has its
  claims applied and is bound. So all reconcilers, in whatever order, derive the
  same groups, and `RoleInv`: a role is absent or covers them all, and those
  before the one a reconciler is at are there. Hence no update is ever needed,
  and two replicas can only lose a create to each other.
- *Settling.* A process that moves without the reading changing must have hidden
  the move behind a transient. `QuietInv` says how many can be hidden at the
  current reading (`Hidden`), and that the quiet counted so far is at most a
  turn for each of them and the present pause: less than `Quiet`. `FloorInv`:
  from the poll that read the true end on, every poll was quiet.
- *Throughput.* `ThroughputInv`: the count is of the current measurement, and
  its channel is in `done` until the target is reached and closed from then on.
  A second `Begin` needs that channels are never numbered twice.
- *Shards.* The calls of a shard take turns (`ShardTurns`), so an index belongs
  to the call that marked the shard, and one that is missing while nobody indexes
  was refused (`IndexesInTurn`). The mark stays, so it is refused once
  (`RefusedStaysMarked`), and the calls after it reach the watches without it:
  `MissingIndexToldOnce` is what is left of "indexes before watches". Of the calls
  a broken shard refused, one reported the cause (`ReportedByOne`).
- *Traffic.* Counts only grow, so the earlier snapshot is below the present one
  in every request (`MarkIsOlder`), and the subtraction is exact; a request
  counted now is counted in their difference (`ObserveInBoth`). For the streams
  (`CountsAreReal`): a watch's path, taken apart by position, gives back the
  cluster, group and resource of its informer whichever front end it went
  through, nothing else is classified as a watch, and so there are as many
  distinct streams as informers that were opened.
- *Progress.* `LogIsTimeline`: the lines logged are those that the text so far
  records, with what follows its last line ending still pending. Writing a text
  in pieces records what writing it whole does (`PiecesAreTheWhole`).
- *Sweep.* `SweepInv`: each sample is what the process cost at that moment plus
  the transients its reads caught, the counts activated are one to `Activated`
  and those of departures never repeat. So the estimates of what a departure
  keeps are off only by noise, never below, and the lowest is exact once one is
  clean. The samples that a departure is judged on are one for each count, in
  turn, and at the end of a teardown the one with nobody left besides
  (`EngagedInTurn`), which the sorting puts first (`LastComesFirst`). Those under
  load are one for each count, too (`ActiveInTurn`).
- *Fit.* The deviations from a mean cancel (`DeviationsCancel`), so the two
  forms of the slope are one and the share that the line explains is a square
  over a product of squares; the residuals, which multiply out the same way
  (`ResidualsMultiply`), are not negative, and neither is what they leave. On a
  line the fit is the line (`LineIsFound`). Without one of its counts the rest
  is still in order, so only the two ends are extrapolated to.
- *Verify.* The results are those of the steps of the plan so far, in order
  (`ResultsFollowPlan`), and nothing is skipped, since a step runs only with
  what it needs asserted. Status 0 therefore speaks of the whole plan.
- *Managers.* The argument is about the order of main's steps, and a table of
  each main (`CoreMainSteps`, ...) gives it: `MainInOrder` has what the rest
  uses, that gates come first, that providers are told of indexes before they
  start, and that all that registers comes before the manager runs. From it
  `DoneIsRegistered`, `RunningIsWhole` and `HeardIsWhole`: what a finished step
  registers stays, so a manager that runs is whole, and so is what it heard.
- *Runner.* The results received and those on the channel are those sent; while
  `Start` runs, an error that was sent is still on the channel; and a thread
  that ended with nil was asked to. `Start` returns nil only after three of
  them, none an error.
- *Demo.* `DemoInv` says, for each stretch of `Run`, what the steps before it
  have left, and that nobody takes it away: the options and what they imply
  (`RunInv`), the grants (`GrantsInv`), the workspaces that are complete
  (`WorkspacesInv`), the managers that engaged (`EngagedInv`). `SeenInv` is the
  judgement: the count of machines that were listed can only reach the number
  expected if every workspace has its own, an argument about cardinalities, so a
  list that is too short never passes for a ready one. That the tenants' paths
  are distinct rests on the uniqueness of quotient and remainder, with which
  workspaces are dealt to users.

### What is only model-checked

Every invariant and action property of a passing run is a theorem. What remains:

- All liveness (`LeavingReleases`, `StartReturnsEventually`, `RaceIsSurvived`,
  `RolesGrowWithBindings`, `ClaimsConverge`, `BoundIsServed`, `Onboarded`,
  `RunEnds`, `RunnerLeavesNothing`): the prover handles neither fairness nor
  `ENABLED`.
- The violations, each of which is a behaviour that TLC shows.

## What the models say about the code

Seven runs show the code doing something other than its comments or its
specification say:

1. `wiring_second_disengage`: an engagement that failed is disengaged by the
   failing call and again by its watcher. The second call looks the group up by
   workspace name; if the workspace was engaged again in between, it takes out
   and stops that group. `wiring.go:218-220` says `disengage` is safe to call
   twice.
2. `telemetry_late_setup`: `Engaged` is recorded after setup, whether or not the
   context still lives (`wiring.go:173`). When the workspace left during its
   setup, which `wiring.go:148-150` expects, its disengagement may be recorded
   first, and the workspace stays counted, with its series, although it is gone.
   FR-012 says that a disengagement releases everything the engagement acquired,
   telemetry series by name. `HeldForASetup` says that this is the only way in
   which the Recorder keeps what it should not.
3. `telemetry_early_rejoin`: `Disengaged` is recorded by workspace name after the
   lock was released (`wiring.go:227`). If the workspace is engaged again in
   between, that erases the record of the engagement that is served.
   `telemetry.go:219` says the count is of the workspaces currently wired.
4. `maintainer_stale_role`: the maintainer compares with the role its cache
   has. If a binding is removed and made again before the cache of the roles
   has caught up with the maintainer's own write, the old role equals what is
   wanted: nothing is written, and since roles are not watched nothing comes
   back to it. The claim controller is not exposed to this: it watches the
   objects it writes, in one ordered stream, so its own write always starts
   another reconcile (`ClaimsConverge`).
5. `claims_republish`: `Publish` over an installation that is right first
   replaces the claims of each export by the identity-free ones and restores
   them in its second pass. `capiexports.go:691-693` says such an export is left
   alone.
6. `shards_half_indexed`: `addIndexes` marks the shard before it indexes it
   (`shardcaches.go:240`), and the mark stays when `IndexField` fails. The
   workspace that met the error is refused; the next one of that shard gets a
   cluster, and the watches, without the index. `shardcaches.go:137-148` says
   "Indexes before watches", and that a half-wired shard is worse than a
   workspace that visibly did not join.
7. `stacks`: `parseStacks` cuts a profile at blank lines (`stacks.go:80`), but
   the runtime prints none between the header and the first record, which is
   that of the stack with the most goroutines. The record is dropped: growth of
   the largest stack is not reported, and one that stopped being the largest is
   reported as grown from nothing.

The models also have the following behaviours, which no listed run checks; each
can be seen by changing a constant or stating the sentence as an invariant.

*Wiring, shards, roles, claims*

- With `RejoinEarly = TRUE`, `RejoinedIsWired` fails: `Engage` returns nil when
  it finds the group of an engagement whose context is already done
  (`wiring.go:138`), and the watcher then removes that group.
- With `RejoinEarly = TRUE`, `ServesInTurn` fails too: `disengage` forgets the
  workspace first and waits for its runnables afterwards, outside the lock
  (`wiring.go:224-233`), so the controllers of the next engagement may start
  while those of the last still stop.
- `Start` waits for the groups that are in the map when the context ends; the
  runnables of one that a watcher has just taken out may still run when it
  returns (`wiring.go:200-207`).
- With two replicas `RolesGrowWithBindings` fails: one whose list of bindings is
  old undoes the other's write, and the other's old cache of the role then hides
  it. In a workspace without roles it fails with one: the create collides with
  the maintainer's own earlier, smaller role, which it takes for the same
  (`reconcile.go:88`). Hence its premises: a single replica, roles that exist.
- Two replicas of the initializer read the same retry count, and the later patch
  can put a lower number back (`initializer.go:211`): the bound is on each
  replica's count, not on the sum.
- `ReconcileClaims` stops at the first export it cannot read, so a maintained
  export nobody published keeps the ones after it from their claims
  (`discovery.go:168`).

*Managers and demo*

- `--webhook-workspace-cluster-name` says that "Reconciliation is unaffected
  either way" (`cmd/core-manager/main.go:119-120`), but a webhook workspace that
  is not engaged in time ends the process, and its reconciles with it
  (`main.go:299-303`). `BoundIsServed` holds because the next one starts over.
- The core and dev-infrastructure mains run the manager in a goroutine and
  return when the context ends (`main.go:314`, `:232`), while it still drains;
  the other three return when the manager did. `CleanExitIsDrained` is about
  those.
- The kubeadm bootstrap binary has no default for `--endpoint-slice-name` and
  exits without one (`cmd/kubeadm-bootstrap-manager/main.go:101,136`), unlike
  its siblings.
- `--max-concurrent-reconciles` is documented, and defaulted, as workers per
  workspace (`cmd/core-manager/main.go:135`) and passed as
  `FleetMaxConcurrentReconciles`, whose own default is another
  (`fleet.go:87`).
- A webhook set-up that fails half-way is not recorded (`setup.go:311`); it is
  harmless because every caller exits.
- `waitForReady` adds up three lists of different moments (`demo.go:1183`). That
  is right (`SuccessMeansReady`) as long as what is ready stays ready: a cluster
  that stops being ready after its list was read is still reported as ready.
- `Result.Org` is set without users too (`demo.go:885`), against its comment
  (`demo.go:448`).

*Measurement and verification*

- A second `Begin` leaves the channel of the first open: an `Await` of that
  measurement waits for its whole timeout. `Begin(0)` has a channel that nothing
  closes until the first completion.
- The sample of a teardown with no workspace left is among those a departure is
  judged on, since `Report.Departure` leaves out the baseline and the counts it
  has seen, and not the phases (`report.go:431-436`, against the comment of
  424-427). `DepartureIsReal` states it so. Nothing outside the tests calls it.
- A transient in a sample of the way up lowers the retention that is reported,
  which is why `RetentionIsExact` has its premise.
- When the report of a verification cannot be written the status is that of a
  failure, and the report of an earlier run stays in place.

## Not modelled

- The deletion of a role under the maintainer, machines that fail again or that
  are more than one to a workspace, and the time a grant takes to be in force.
- The rules of a role, the verbs of a claim, the schemas of an export, the
  fields of the objects a demo creates: constant data.
- The vendored multi-cluster provider, the caches, Cluster API's controllers and
  kcp: external, modelled from how the code uses them.
- `LogicalCluster` and bindings are read live in `Onboarding`; if the provider
  served them from two caches, `ReadyMeansGranted` would need another look.
- The event sink and the secret reader (`coremanager/eventsink.go`,
  `secretreader.go`): a lookup each, no state between calls.
- Starting kcp as a child process, pinging it, writing kubeconfigs, rendering
  tables (`demo/kcpserver.go`, `ping.go`, `status.go`, `kubeconfig.go`): input
  and output. So are the reports of `scaleharness` and `sweep`, and
  `workloaddiag/diagnostics.go` and `render.go`.
- `drift`, `cmd/scalemodel`, `cmd/sweeptotals`, `cmd/controllercensus`: a pass
  over files. `kcpfixtures/moduledir.go` and `manifestdeps.go`: finding and
  reading manifests.

## What would come next

The order of the work was: the wiring and its telemetry, on which everything
else runs; the shard caches in front of it; the roles and the claims; then the
processes that host these parts (`Managers`, `Runner`), the demo that runs them
together, and the tools that measure and verify. What this leaves:

1. Abstract specifications for more of the parts, as `Service` is one for the
   wiring: what `Publish` and the claim controller together promise an export,
   what the demo promises a tenant.
2. `Onboarding` with cached reads.
3. `unionVerbs` and the list of claims against a reference definition.
4. The types of `Managers`, `Runner` and `Demo` as theorems of their own. What
   TLC alone checks of the passing runs is liveness, which needs another prover.
