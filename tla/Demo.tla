-------------------------------- MODULE Demo --------------------------------
(* A demo run (internal/demo): Run builds an installation from nothing, in   *)
(* an order that every later step leans on, while the workspace manager      *)
(* (module Runner) and the provider managers it started work on what it has  *)
(* built so far.  The behaviours with host = "binary" are those of Runner.   *)
EXTENDS Runner, Tenancy

CONSTANTS
  Runs,      \* the Options to run with, see RunOptions
  Providers, \* the exports every run publishes, core among them, in order
  Nutanix    \* the export that is published for show

RunOptions ==
  [mode : {"workspace-type", "manual"}, users : Seq(STRING), count : Nat,
   runManager : BOOLEAN, nutanix : BOOLEAN, privileged : BOOLEAN]

\* As many workspaces as a run may ask for; users are DNS labels, and there is
\* more to enable than core.
ASSUME DemoAssumption ==
  /\ IsFiniteSet(Workspaces) /\ Workspaces = 1 .. Cardinality(Workspaces)
  /\ Runs # {} /\ Runs \subseteq RunOptions
  /\ \A r \in Runs : r.count <= Cardinality(Workspaces) /\ \A i \in DOMAIN r.users : r.users[i] # None
  /\ Providers # <<>> /\ \E i \in DOMAIN Providers : Providers[i] # Providers[1]
  /\ Providers \in Seq(STRING \ {Nutanix})

Core == Providers[1]

VARIABLES
  opts,
  at,       \* the step Run is at, "ended" once it returned
  result,   \* what it returned: "none", "ok", "timeout" or "error"
  cur,      \* the workspace it is at
  mayBind,  \* users granted the verb bind on the exports
  holds,    \* <<user, path>>: grants made in a workspace
  boundTo,  \* boundTo[w]: exports w is bound to
  managers, \* exports whose manager runs in this process
  engaged,  \* engaged[w]: exports whose manager has engaged w
  objects,  \* workspaces holding their blueprint and clusters
  cluster,  \* cluster[w]: "absent", "there" or "ready"
  planes,   \* workspaces whose control plane is ready
  machine,  \* machine[w], likewise
  seen,     \* what the pass of waitForReady has read so far
  late,     \* the deadline of waitForReady has passed
  access    \* the access checks of the run

install == <<mayBind, holds, boundTo>>
fleet == <<managers, engaged>>
objs == <<objects, cluster, planes, machine>>
watch == <<seen, late>>
demo == <<opts, at, result, cur, install, fleet, objs, watch, access>>
vars == <<runnerVars, demo>>

-----------------------------------------------------------------------------
\* Options.providers and reconciled: nothing here reconciles the Nutanix types.
Published == IF opts.nutanix THEN Append(Providers, Nutanix) ELSE Providers
ExportSet(seq) == {seq[i] : i \in DOMAIN seq}
Reconciled == ExportSet(Published) \ {Nutanix}

Typed == opts.mode = "workspace-type"

Planned == 1 .. opts.count
Plans == PlanWorkspaces(opts.users, opts.count)
Users == {opts.users[i] : i \in DOMAIN opts.users}

Validate == opts.count >= 1 /\ ValidateUsers(opts.users) /\ Len(opts.users) <= opts.count

\* Those a tenant enables: the WorkspaceType has bound core.
TenantProviders == ExportSet(Published) \ (IF Typed THEN {Core} ELSE {})

\* A tenant's bindings are made as the tenant, impersonated.
EnabledBy(w) == IF Typed THEN Plans[w].owner ELSE None

HasRoles(w) == IF Typed THEN ws[w] = "ready" ELSE w \in widened

\* May the tenant create an APIBinding in w: be in it, hold a role that exists,
\* and have the verb bind in the workspace of the export, which an impersonated
\* user reaches only when the impersonator is privileged.
Forbidden(w) ==
  /\ EnabledBy(w) # None
  /\ \/ <<EnabledBy(w), Plans[w].path>> \notin holds
     \/ ~HasRoles(w)
     \/ EnabledBy(w) \notin mayBind
     \/ ~opts.privileged

Absent == [w \in Workspaces |-> "absent"]
NothingSeen == [clusters |-> FALSE, machines |-> 0, machinesReady |-> FALSE, planes |-> FALSE]

DemoInit ==
  /\ opts \in Runs
  /\ at = IF host = "demo" THEN "validate" ELSE "ended"
  /\ result = "none" /\ cur = 1
  /\ mayBind = {} /\ holds = {} /\ boundTo = [w \in Workspaces |-> {}]
  /\ managers = {} /\ engaged = [w \in Workspaces |-> {}]
  /\ objects = {} /\ cluster = Absent /\ planes = {} /\ machine = Absent
  /\ seen = NothingSeen /\ late = FALSE /\ access = {}

\* The binary has no options: one is enough.
Init ==
  /\ RunnerInit
  /\ DemoInit
  /\ host = "binary" => opts = CHOOSE r \in Runs : TRUE

-----------------------------------------------------------------------------
(* Run.  A step that waits has an action for what it waits for and fails     *)
(* with its timeout in GivesUp; a cancelled context fails the step Run is at *)
(* (Interrupt).  What is provisioned after Run returned is left out.         *)

Step(from, to) == at = from /\ at' = to /\ UNCHANGED result
Return(how) == at' = "ended" /\ result' = how
Running == at # "ended"

\* Run returned: what waitForReady had read is gone.
Forget == seen' = NothingSeen /\ late' = FALSE

RunValidate ==
  /\ IF Validate THEN Step("validate", "publish") ELSE at = "validate" /\ Return("error")
  /\ UNCHANGED <<runnerVars, opts, cur, install, fleet, objs, watch, access>>

PublishExports ==
  /\ Step("publish", IF Typed THEN "type" ELSE "users")
  /\ UNCHANGED <<runnerVars, opts, cur, install, fleet, objs, watch, access>>

EnsureWorkspaceType ==
  /\ Step("type", IF opts.runManager THEN "runner" ELSE "users")
  /\ typed' = TRUE
  /\ UNCHANGED <<host, ctxDone, runner, world, failures>>
  /\ UNCHANGED <<opts, cur, install, fleet, objs, watch, access>>

\* No goroutine of Start's has run: it is New that returned an error.
NewFailed == main = "error" /\ thread = AllOff

\* New, then Start in a goroutine: only New's error is Run's, see GivesUp.
RunRunner ==
  /\ at = "runner"
  /\ \/ main = "off" /\ main' = "building" /\ UNCHANGED <<at, result>>
     \/ main \notin {"off", "building"} /\ ~NewFailed /\ Step("runner", "users") /\ UNCHANGED main
  /\ UNCHANGED <<host, typed, ctxDone, thread, outcome, errs, received, world, failures>>
  /\ UNCHANGED <<opts, cur, install, fleet, objs, watch, access>>

\* The org, the homes and who holds them.
EnsureUsers ==
  /\ Step("users", "grant")
  /\ holds' = holds \cup {<<u, HomePath(u)>> : u \in Users}
  /\ UNCHANGED <<runnerVars, opts, cur, mayBind, boundTo, fleet, objs, watch, access>>

GrantProviderBinding ==
  /\ Step("grant", "create")
  /\ mayBind' = IF TenantProviders # {} THEN mayBind \cup Users ELSE mayBind
  /\ UNCHANGED <<runnerVars, opts, cur, holds, boundTo, fleet, objs, watch, access>>

CreateWorkspace ==
  /\ Step("create", "ready")
  /\ ws' = [ws EXCEPT ![cur] = IF Typed THEN "initializing" ELSE "ready"]
  /\ boundTo' = [boundTo EXCEPT ![cur] = IF Typed THEN {Core} ELSE {}]
  /\ UNCHANGED <<host, typed, ctxDone, runner, enabled, widened, failures>>
  /\ UNCHANGED <<opts, cur, mayBind, holds, fleet, objs, watch, access>>

WorkspaceReady ==
  /\ ws[cur] = "ready"
  /\ Step("ready", "own")
  /\ UNCHANGED <<runnerVars, opts, cur, install, fleet, objs, watch, access>>

\* Mutant: the owner is left to what the initializer wrote.
GrantRolesLost ==
  /\ Step("own", "bind")
  /\ UNCHANGED <<runnerVars, opts, cur, install, fleet, objs, watch, access>>

GrantRoles ==
  /\ Step("own", "bind")
  /\ holds' = IF Plans[cur].owner = None THEN holds
              ELSE holds \cup {<<Plans[cur].owner, Plans[cur].path>>}
  /\ UNCHANGED <<runnerVars, opts, cur, mayBind, boundTo, fleet, objs, watch, access>>

\* The next provider, in order; core only by hand.
BindExport ==
  /\ at = "bind"
  /\ LET missing == TenantProviders \ boundTo[cur]
     IN IF missing = {}
        THEN /\ Step("bind", IF Typed THEN "next" ELSE "roles")
             /\ UNCHANGED <<boundTo, enabled>>
        ELSE IF Forbidden(cur)
        THEN Return("error") /\ UNCHANGED <<boundTo, enabled>>
        ELSE /\ \E i \in DOMAIN Published :
                  /\ Published[i] \in missing
                  /\ \A j \in 1 .. i - 1 : Published[j] \notin missing
                  /\ boundTo' = [boundTo EXCEPT ![cur] = @ \cup {Published[i]}]
             /\ enabled' = enabled \cup {cur}
             /\ UNCHANGED <<at, result>>
  /\ UNCHANGED <<host, typed, ctxDone, runner, ws, widened, failures>>
  /\ UNCHANGED <<opts, cur, mayBind, holds, fleet, objs, watch, access>>

\* Only by hand: what the initializer would have written.
ReconcileRoles ==
  /\ Step("roles", "next")
  /\ widened' = widened \cup {cur}
  /\ UNCHANGED <<host, typed, ctxDone, runner, ws, enabled, failures>>
  /\ UNCHANGED <<opts, cur, install, fleet, objs, watch, access>>

NextWorkspace ==
  /\ IF cur < opts.count
     THEN Step("next", "create") /\ cur' = cur + 1
     ELSE Step("next", "slices") /\ UNCHANGED cur
  /\ UNCHANGED <<runnerVars, opts, install, fleet, objs, watch, access>>

\* Every export has an endpoint once something is bound to it.
WaitForEndpoints ==
  /\ \A e \in ExportSet(Published) : \E w \in Workspaces : e \in boundTo[w]
  /\ Step("slices", IF opts.runManager THEN "managers" ELSE "objects")
  /\ UNCHANGED <<runnerVars, opts, cur, install, fleet, objs, watch, access>>

\* The order of the steps inside is module Managers'.
StartManagers ==
  /\ Step("managers", "engage")
  /\ managers' = Reconciled
  /\ UNCHANGED <<runnerVars, opts, cur, install, engaged, objs, watch, access>>

\* Mutant: core's manager is the one that is waited for.
WaitedForCore == {Core}

WaitedFor == Reconciled

EngagedByEvery ==
  /\ \A w \in Planned : WaitedFor \subseteq engaged[w]
  /\ Step("engage", "objects")
  /\ UNCHANGED <<runnerVars, opts, cur, install, fleet, objs, watch, access>>

\* Blueprint and clusters, one workspace after the other.
CreateObjects ==
  /\ at = "objects"
  /\ \E w \in Planned \ objects :
       /\ \A v \in 1 .. w - 1 : v \in objects
       /\ objects' = objects \cup {w}
       /\ cluster' = [cluster EXCEPT ![w] = "there"]
       /\ at' = IF objects' = Planned THEN "watch" ELSE at
  /\ UNCHANGED <<runnerVars, opts, result, cur, install, fleet, planes, machine, watch, access>>

-----------------------------------------------------------------------------
(* waitForReady: three reads of a world that moves on, then the judgement.   *)

\* One machine for the control plane and none else: --worker-machines 0.
ExpectedMachines == opts.count

Snapshot ==
  /\ Step("watch", "machines")
  /\ seen' = [NothingSeen EXCEPT !.clusters = \A w \in Planned : cluster[w] = "ready"]
  /\ UNCHANGED <<runnerVars, opts, cur, install, fleet, objs, late, access>>

SnapshotMachines ==
  LET listed == {w \in Planned : machine[w] # "absent"}
  IN /\ Step("machines", "planes")
     /\ seen' = [seen EXCEPT !.machines = Cardinality(listed),
                             !.machinesReady = \A w \in listed : machine[w] = "ready"]
     /\ UNCHANGED <<runnerVars, opts, cur, install, fleet, objs, late, access>>

\* One entry for every cluster, also for a control plane not created yet.
SnapshotControlPlanes ==
  /\ Step("planes", "judge")
  /\ seen' = [seen EXCEPT !.planes = Planned \subseteq planes]
  /\ UNCHANGED <<runnerVars, opts, cur, install, fleet, objs, late, access>>

\* Mutant: as many machines as there are, none included.
ReadyUncounted == seen.clusters /\ seen.planes /\ seen.machinesReady

\* Result.Ready
Ready ==
  /\ seen.clusters /\ seen.planes
  /\ seen.machines >= ExpectedMachines /\ seen.machinesReady

\* Mutant: the deadline is not looked at again.
JudgeForever ==
  /\ at = "judge"
  /\ \/ Ready /\ at' = "access" /\ UNCHANGED result
     \/ ~Ready /\ at' = "watch" /\ UNCHANGED result
  /\ Forget
  /\ UNCHANGED <<runnerVars, opts, cur, install, fleet, objs, access>>

Judge ==
  /\ at = "judge"
  /\ \/ Ready /\ at' = "access" /\ UNCHANGED result
     \/ ~Ready /\ late /\ Return("timeout")
     \/ ~Ready /\ ~late /\ Step("judge", "watch")
  /\ Forget
  /\ UNCHANGED <<runnerVars, opts, cur, install, fleet, objs, access>>

\* Kcp opens the parent to every authenticated user.
Allowed ==
  (Users \X {ParentPath})
    \cup {h \in holds : h[2][1] = "home" \/ \E w \in Planned : h[2] = Plans[w].path /\ HasRoles(w)}

RunCheckAccess ==
  /\ Step("access", "report")
  /\ access' = IF Users = {} THEN {} ELSE CheckAccess(opts.users, Plans, Allowed)
  /\ UNCHANGED <<runnerVars, opts, cur, install, fleet, objs, watch>>

\* SnapshotOnboarding and SnapshotClaims read back; cmd/demo fails a run that leaked.
Report ==
  /\ at = "report"
  /\ Return(IF Users # {} /\ ~Isolated(access) THEN "error" ELSE "ok")
  /\ UNCHANGED <<runnerVars, opts, cur, install, fleet, objs, watch, access>>

Waits == {"ready", "slices", "engage"}

\* A wait runs out, a call fails for a reason of its own, or New failed: Run
\* returns, and leaves what it started running.
GivesUp ==
  /\ Running
  /\ \/ at \in Waits /\ UNCHANGED failures
     \/ at = "runner" /\ NewFailed /\ UNCHANGED failures
     \/ failures < MaxFailures /\ at \notin {"validate", "judge"} /\ failures' = failures + 1
  /\ Return("error") /\ Forget
  /\ UNCHANGED <<host, typed, ctxDone, runner, world>>
  /\ UNCHANGED <<opts, cur, install, fleet, objs, access>>

-----------------------------------------------------------------------------
(* Meanwhile. *)

\* The manager of an export engages a workspace bound to it.
Engage(e, w) ==
  /\ Running /\ e \in managers /\ e \in boundTo[w] \ engaged[w]
  /\ engaged' = [engaged EXCEPT ![w] = @ \cup {e}]
  /\ UNCHANGED <<runnerVars, opts, at, result, cur, install, managers, objs, watch, access>>

\* A manager of this process fails: it is logged.
ManagerExits(e) ==
  /\ Running /\ e \in managers /\ failures < MaxFailures
  /\ failures' = failures + 1
  /\ managers' = managers \ {e}
  /\ UNCHANGED <<host, typed, ctxDone, runner, world>>
  /\ UNCHANGED <<opts, at, result, cur, install, engaged, objs, watch, access>>

\* With --no-manager the deployment's managers are other processes.
Elsewhere == host = "demo" /\ ~opts.runManager

InitializeElsewhere(w) ==
  /\ Elsewhere /\ ws[w] = "initializing"
  /\ ws' = [ws EXCEPT ![w] = "ready"]
  /\ UNCHANGED <<host, typed, ctxDone, runner, enabled, widened, failures>>
  /\ UNCHANGED demo

\* The providers bring up what a workspace asks for, each part in its own time.
\* What is ready stays ready here: no machine fails.
Provision(w) ==
  /\ Running /\ w \in objects
  /\ Elsewhere \/ (engaged[w] = Reconciled /\ managers = Reconciled)
  /\ \/ /\ cluster[w] = "there" /\ cluster' = [cluster EXCEPT ![w] = "ready"]
        /\ UNCHANGED <<planes, machine>>
     \/ /\ w \notin planes /\ planes' = planes \cup {w}
        /\ UNCHANGED <<cluster, machine>>
     \/ /\ machine[w] = "absent" /\ machine' = [machine EXCEPT ![w] = "there"]
        /\ UNCHANGED <<cluster, planes>>
     \/ /\ machine[w] = "there" /\ machine' = [machine EXCEPT ![w] = "ready"]
        /\ UNCHANGED <<cluster, planes>>
  /\ UNCHANGED <<runnerVars, opts, at, result, cur, install, fleet, objects, watch, access>>

Deadline ==
  /\ at \in {"watch", "machines", "planes", "judge"} /\ ~late
  /\ late' = TRUE
  /\ UNCHANGED <<runnerVars, opts, at, result, cur, install, fleet, objs, seen, access>>

\* Ctrl-C, at any point of the run or after it.
Interrupt ==
  /\ ~ctxDone
  /\ ctxDone' = TRUE
  /\ IF Running THEN Return("error") /\ Forget ELSE UNCHANGED <<at, result, watch>>
  /\ UNCHANGED <<host, typed, runner, world, failures>>
  /\ UNCHANGED <<opts, cur, install, fleet, objs, access>>

RunStep ==
  \/ RunValidate \/ PublishExports \/ EnsureWorkspaceType \/ RunRunner \/ EnsureUsers
  \/ GrantProviderBinding \/ CreateWorkspace \/ WorkspaceReady \/ GrantRoles \/ BindExport
  \/ ReconcileRoles \/ NextWorkspace \/ WaitForEndpoints \/ StartManagers \/ EngagedByEvery
  \/ CreateObjects \/ Snapshot \/ SnapshotMachines \/ SnapshotControlPlanes \/ Judge
  \/ RunCheckAccess \/ Report \/ GivesUp

Meanwhile ==
  \/ \E e \in ExportSet(Providers), w \in Workspaces : Engage(e, w)
  \/ \E e \in ExportSet(Providers) : ManagerExits(e)
  \/ \E w \in Workspaces : InitializeElsewhere(w) \/ Provision(w)
  \/ Deadline \/ Interrupt

Next ==
  \/ RunnerStep /\ UNCHANGED demo
  \/ RunnerEnvironment /\ host = "binary" /\ UNCHANGED demo
  \/ host = "demo" /\ (RunStep \/ Meanwhile)

Spec == Init /\ [][Next]_vars

FairSpec == Spec /\ RunnerFairness /\ WF_vars(host = "demo" /\ RunStep) /\ WF_vars(Deadline)

-----------------------------------------------------------------------------
(* Every variable has its type. *)
TypeOK ==
  /\ RunnerTypeOK
  /\ opts \in Runs /\ cur \in 1 .. Cardinality(Workspaces)
  /\ result \in {"none", "ok", "timeout", "error"} /\ (at = "ended" /\ host = "demo" <=> result # "none")
  /\ boundTo \in [Workspaces -> SUBSET ExportSet(Published)]
  /\ managers \subseteq Reconciled
  /\ \A w \in Workspaces : engaged[w] \subseteq boundTo[w]
  /\ objects \subseteq Planned /\ planes \subseteq objects

(* What a tenant does is never refused for what the run has not granted yet: *)
(* when an impersonated binding is made, its owner is in the workspace, the  *)
(* roles exist and the providers may be bound.  Only a credential that is    *)
(* not privileged stands in the way (Options.ImpersonationConfig).           *)
NeverForbidden ==
  at = "bind" /\ opts.privileged => ~Forbidden(cur)

(* No object of a workspace exists before every manager of this process has  *)
(* engaged it: an engagement is not replayed to what comes later.            *)
EngagedBeforeObjects ==
  opts.runManager => \A w \in objects : Reconciled \subseteq engaged[w]

(* A run that reports success had everything it asked for, in every          *)
(* workspace, although it read the parts one after the other, and left no    *)
(* workspace whose roles nobody wrote or, by hand, that misses a provider.   *)
SuccessMeansReady ==
  result = "ok" =>
    \A w \in Planned :
      /\ cluster[w] = "ready" /\ w \in planes /\ machine[w] = "ready"
      /\ HasRoles(w) /\ (~Typed => boundTo[w] = ExportSet(Published))

(* Tenants never share: each has a home and a workspace of its own, no two   *)
(* workspaces have one path, what the run granted is what each can read, and *)
(* every context a tenant is handed is one they can use.  So the access      *)
(* checks, which look at the first workspace of each owner, never accuse a   *)
(* run of a leak (PlanWorkspaces, CheckAccess).                              *)
TenantsAreApart ==
  /\ at = "report" /\ Users # {} => Isolated(access)
  /\ result = "ok" =>
       /\ Cardinality(Users) = Len(opts.users)
       /\ Cardinality({Plans[w].path : w \in Planned}) = opts.count
       /\ \A u \in Users :
            /\ \E w \in Planned : Plans[w].owner = u /\ <<u, Plans[w].path>> \in holds
            /\ \A path \in TenantEntries(u, Plans) : <<u, path>> \in Allowed
       /\ \A h \in holds : h[2][2] = h[1]

(* A demo run returns: every wait in it has an end. *)
RunEnds == host = "demo" ~> at = "ended"
=============================================================================
