------------------------------ MODULE Managers ------------------------------
(* The provider binaries (cmd/core-manager and its siblings) and the demo's  *)
(* startManagers, which runs four of them in one process: what main does, in *)
(* order, against tenants that bind an export when they like, kcp that gives *)
(* an export its endpoint with the first binding, signals, and a deployment  *)
(* that starts the process again.  The processes meet only in the endpoints, *)
(* so a behaviour is the life of one binary.                                 *)
EXTENDS Naturals, FiniteSets, SequencesExt

CONSTANTS
  Binaries,       \* the mains to look at
  Consumers,       \* the workspaces that may bind an export
  WebhookFlags,   \* values of --webhook-workspace-cluster-name, or None
  GateFlags,      \* sets of gates --feature-gates may turn on
  None,
  DemoWorkspaces, \* the workspaces the demo has bound before it starts its managers
  MaxFailedCalls, \* bound on calls that fail for reasons of their own
  MaxRestarts     \* bound on restarts by the deployment

Exports == {"core", "bootstrap", "control-plane", "infrastructure", "nutanix"}

ASSUME ManagersAssumption ==
  /\ Binaries \subseteq Exports \cup {"demo"}
  /\ WebhookFlags \subseteq Consumers \cup {None}
  /\ None \notin Consumers /\ DemoWorkspaces \subseteq Consumers
  /\ MaxFailedCalls \in Nat /\ MaxRestarts \in Nat

VARIABLES
  binary,      \* which main this is; never changes
  webhookFlag, \* its --webhook-workspace-cluster-name
  gateFlag,    \* the gates its --feature-gates turns on
  bound,       \* bound[e]: workspaces bound to export e
  pos,         \* the next step of main, 0 once the process ended
  exit,        \* how it ended: "running", "clean" or "error"
  signalled,
  gates,       \* feature gates that are on
  names,       \* controller names in the process-global registry
  mgr,         \* mgr[e]: "none", "built", "starting", "started", "stopped"
  registered,  \* registered[e]: components registered with that manager
  indexes,     \* indexes[e]: field indexes declared to the provider
  heard,       \* heard[e][w]: components w's engagement was handed to
  inflight,    \* inflight[e]: workspaces being reconciled
  hooks,       \* admission paths being served, with the workspace they serve
  failedCalls,
  restarts

env == <<binary, webhookFlag, gateFlag>>
process == <<gates, names, mgr, registered, indexes, heard, inflight, hooks>>
managersVars == <<env, bound, pos, exit, signalled, process, failedCalls, restarts>>

-----------------------------------------------------------------------------
(* The mains, as the order of their steps. *)

\* initFlags applies the project's gates before the flags are parsed.
Preamble == << <<"gates", None>>, <<"globals", None>> >>

\* Provider, endpoint, manager: the same three in every main.
Addressed(e) == << <<"provider", e>>, <<"endpoint", e>>, <<"manager", e>> >>

\* Mutant: the engagement seam is added once the manager runs.
CoreMainWiresLate ==
  Preamble \o Addressed("core")
    \o << <<"fleet", "core">>, <<"controllers", "core">>, <<"go", "core">>,
          <<"elected", "core">>, <<"wiring", "core">>, <<"webhooks", "core">>, <<"wait", "core">> >>

CoreMain ==
  Preamble \o Addressed("core")
    \o << <<"fleet", "core">>, <<"controllers", "core">>, <<"wiring", "core">>,
          <<"go", "core">>, <<"elected", "core">>, <<"webhooks", "core">>, <<"wait", "core">> >>

BootstrapMain ==
  Preamble \o Addressed("bootstrap")
    \o << <<"fleet", "bootstrap">>, <<"controllers", "bootstrap">>, <<"start", "bootstrap">> >>

\* Mutant: main starts the manager like core-manager does.
ControlPlaneMainStartsAside ==
  Preamble \o Addressed("control-plane")
    \o << <<"fleet", "control-plane">>, <<"controllers", "control-plane">>,
          <<"go", "control-plane">>, <<"wait", "control-plane">> >>

ControlPlaneMain ==
  Preamble \o Addressed("control-plane")
    \o << <<"fleet", "control-plane">>, <<"controllers", "control-plane">>,
          <<"start", "control-plane">> >>

NutanixMain ==
  Preamble \o Addressed("nutanix")
    \o << <<"fleet", "nutanix">>, <<"controllers", "nutanix">>, <<"start", "nutanix">> >>

InfrastructureMain ==
  LET e == "infrastructure"
  IN Preamble \o Addressed(e)
       \o << <<"backend", e>>, <<"fleet", e>>, <<"controllers", e>>, <<"go", e>>,
             <<"elected", e>>, <<"webhooks", e>>, <<"wait", e>> >>

\* One manager after the other; none waits for the one before to serve.
DemoMain ==
  LET One(e) == Addressed(e)
                  \o << <<"fleet", e>> >>
                  \o (IF e = "infrastructure" THEN << <<"backend", e>> >> ELSE <<>>)
                  \o << <<"controllers", e>>, <<"go", e>> >>
  IN Preamble \o One("core") \o One("infrastructure") \o One("bootstrap") \o One("control-plane")
       \o << <<"wait", None>> >>

Main ==
  CASE binary = "core" -> CoreMain
    [] binary = "bootstrap" -> BootstrapMain
    [] binary = "control-plane" -> ControlPlaneMain
    [] binary = "nutanix" -> NutanixMain
    [] binary = "infrastructure" -> InfrastructureMain
    [] binary = "demo" -> DemoMain

Own == {Main[i][2] : i \in DOMAIN Main} \ {None}

\* An export's virtual workspace has a URL once something bound the export.
HasEndpoint(e) == bound[e] # {}

Alive == pos > 0
At(op) == Alive /\ Main[pos][1] = op
Here == Main[pos][2]

-----------------------------------------------------------------------------
FeatureGateDefaults == {"ClusterTopology"}

\* Mutant: the index the topology reconciler needs is not declared.
FleetCacheIndexesMissing == {}

FleetCacheIndexes == IF "ClusterTopology" \in gates THEN {"classRef"} ELSE {}

\* The controllers a provider's setup function registers.
TopologyControllers ==
  {"clusterclass", "topology/cluster", "topology/machinedeployment", "topology/machineset"}

CoreControllers ==
  {"cluster", "machine", "machineset", "machinedeployment"}
    \cup (IF "ClusterTopology" \in gates THEN TopologyControllers ELSE {})

Controllers(e) ==
  CASE e = "core" -> CoreControllers
    [] e = "bootstrap" -> {"kubeadmconfig"}
    [] e = "control-plane" -> {"kubeadmcontrolplane"}
    [] e = "infrastructure" -> {"devcluster", "devmachine"}
    [] e = "nutanix" -> {"nutanixcluster", "nutanixmachine"}

\* What a manager must have been told of before it starts.
Components(e) ==
  {"clustercache"} \cup Controllers(e) \cup (IF binary = "core" THEN {"wiring"} ELSE {})

\* Fields a controller lists by: the topology reconciler maps a class to its clusters.
ListedFields(c) == IF c = "topology/cluster" THEN {"classRef"} ELSE {}

\* No export publishes MachinePools: a controller that watches them never syncs.
Stalled(e) == e = "core" /\ "MachinePool" \in gates

WebhookPaths(e) ==
  IF e = "core" THEN {"Cluster", "Machine"} ELSE {"DevCluster", "DevMachine"}

UpstreamGates == {"MachinePool"}
EmptyPerExport == [e \in Exports |-> {}]
NoManagers == [e \in Exports |-> "none"]
NobodyHeard == [e \in Exports |-> [w \in Consumers |-> {}]]

ManagersInit ==
  /\ binary \in Binaries
  /\ webhookFlag \in IF binary \in {"core", "infrastructure"} THEN WebhookFlags ELSE {None}
  /\ gateFlag \in IF binary \in {"nutanix", "demo"} THEN {{}} ELSE GateFlags
  /\ bound = [e \in Exports |-> IF binary = "demo" THEN DemoWorkspaces ELSE {}]
  /\ pos = 1 /\ exit = "running" /\ signalled = FALSE
  /\ gates = UpstreamGates /\ names = {} /\ hooks = {}
  /\ mgr = NoManagers /\ heard = NobodyHeard
  /\ registered = EmptyPerExport /\ indexes = EmptyPerExport /\ inflight = EmptyPerExport
  /\ failedCalls = 0 /\ restarts = 0

-----------------------------------------------------------------------------
Proceed == pos' = pos + 1 /\ UNCHANGED exit
Exit(how) == pos' = 0 /\ exit' = how

\* Mutant: upstream's default for MachinePool is left as it is.
SetFeatureGateDefaultsPartial ==
  /\ At("gates") /\ Proceed
  /\ gates' = gates \cup FeatureGateDefaults \cup gateFlag
  /\ UNCHANGED <<env, bound, signalled, names, mgr, registered, indexes, heard, inflight,
                 hooks, failedCalls, restarts>>

\* The project's defaults, then --feature-gates over them.
SetFeatureGateDefaults ==
  /\ At("gates") /\ Proceed
  /\ gates' = FeatureGateDefaults \cup gateFlag
  /\ UNCHANGED <<env, bound, signalled, names, mgr, registered, indexes, heard, inflight,
                 hooks, failedCalls, restarts>>

\* The registry of contract metadata is the same in every process.
SetupProcessGlobals ==
  /\ At("globals") /\ Proceed
  /\ UNCHANGED <<env, bound, signalled, process, failedCalls, restarts>>

NewAPIExportProvider ==
  /\ At("provider") /\ Proceed
  /\ indexes' = [indexes EXCEPT ![Here] =
                   IF binary \in {"core", "demo"} THEN FleetCacheIndexes ELSE {}]
  /\ UNCHANGED <<env, bound, signalled, gates, names, mgr, registered, heard, inflight,
                 hooks, failedCalls, restarts>>

\* The poll looks at once, then again until there is an endpoint.
VirtualWorkspaceConfig ==
  /\ At("endpoint") /\ HasEndpoint(Here) /\ ~signalled
  /\ Proceed
  /\ UNCHANGED <<env, bound, signalled, process, failedCalls, restarts>>

\* Timed out, or the context ended: fatal either way.
EndpointTimesOut ==
  /\ At("endpoint") /\ (~HasEndpoint(Here) \/ signalled)
  /\ Exit("error")
  /\ UNCHANGED <<env, bound, signalled, process, failedCalls, restarts>>

NewManager ==
  /\ At("manager") /\ Proceed
  /\ mgr' = [mgr EXCEPT ![Here] = "built"]
  /\ UNCHANGED <<env, bound, signalled, gates, names, registered, indexes, heard, inflight,
                 hooks, failedCalls, restarts>>

NewDevInfrastructure ==
  /\ At("backend") /\ Proceed
  /\ UNCHANGED <<env, bound, signalled, process, failedCalls, restarts>>

\* Mutant: the demo leaves the check on, like a deployment.
SkipsNameValidationNever == FALSE

\* The demo sets SkipControllerNameValidation, a deployment does not.
SkipsNameValidation == binary = "demo"

\* A controller whose name the process has seen is rejected.
Register(e, components) ==
  LET controllers == components \ {"wiring"}
  IN IF ~SkipsNameValidation /\ controllers \cap names # {}
     THEN /\ Exit("error")
          /\ UNCHANGED <<names, registered>>
     ELSE /\ Proceed
          /\ names' = names \cup controllers
          /\ registered' = [registered EXCEPT ![e] = @ \cup components]

NewFleet ==
  /\ At("fleet")
  /\ Register(Here, {"clustercache"})
  /\ UNCHANGED <<env, bound, signalled, gates, mgr, indexes, heard, inflight, hooks,
                 failedCalls, restarts>>

SetupControllers ==
  /\ At("controllers")
  /\ Register(Here, Controllers(Here))
  /\ UNCHANGED <<env, bound, signalled, gates, mgr, indexes, heard, inflight, hooks,
                 failedCalls, restarts>>

AddToManager ==
  /\ At("wiring")
  /\ Register(Here, {"wiring"})
  /\ UNCHANGED <<env, bound, signalled, gates, mgr, indexes, heard, inflight, hooks,
                 failedCalls, restarts>>

\* Start in a goroutine (core, infrastructure, the demo) and go on, ...
GoStart ==
  /\ At("go") /\ Proceed
  /\ mgr' = [mgr EXCEPT ![Here] = "starting"]
  /\ UNCHANGED <<env, bound, signalled, gates, names, registered, indexes, heard, inflight,
                 hooks, failedCalls, restarts>>

\* ... or in main, which returns with it (bootstrap, control plane, nutanix).
StartInMain ==
  /\ At("start")
  /\ \/ /\ mgr[Here] = "built"
        /\ mgr' = [mgr EXCEPT ![Here] = "starting"]
        /\ UNCHANGED <<pos, exit>>
     \/ /\ mgr[Here] = "stopped"
        /\ Exit("clean")
        /\ UNCHANGED mgr
  /\ UNCHANGED <<env, bound, signalled, gates, names, registered, indexes, heard, inflight,
                 hooks, failedCalls, restarts>>

Elected ==
  /\ At("elected") /\ mgr[Here] \in {"started", "stopped"}
  /\ Proceed
  /\ UNCHANGED <<env, bound, signalled, process, failedCalls, restarts>>

EngagedBy(e) == {w \in Consumers : heard[e][w] # {}}

\* WaitForManager found the workspace: its handlers are registered, each path
\* for the first workspace that asks (setupWebhooks refuses a second).
SetupWebhooks ==
  /\ At("webhooks") /\ webhookFlag # None
  /\ webhookFlag \in EngagedBy(Here) /\ ~signalled
  /\ Proceed
  /\ hooks' = {<<p, webhookFlag>> : p \in WebhookPaths(Here)}
  /\ UNCHANGED <<env, bound, signalled, gates, names, mgr, registered, indexes, heard,
                 inflight, failedCalls, restarts>>

NoWebhooks ==
  /\ At("webhooks") /\ webhookFlag = None
  /\ Proceed
  /\ UNCHANGED <<env, bound, signalled, process, failedCalls, restarts>>

\* --engage-timeout passed, or the context ended: fatal.
WebhookWorkspaceMissing ==
  /\ At("webhooks") /\ webhookFlag # None
  /\ webhookFlag \notin EngagedBy(Here) \/ signalled
  /\ Exit("error")
  /\ UNCHANGED <<env, bound, signalled, process, failedCalls, restarts>>

\* main waits for the context alone, not for the manager's Start to return.
MainReturns ==
  /\ At("wait") /\ signalled
  /\ Exit("clean")
  /\ UNCHANGED <<env, bound, signalled, process, failedCalls, restarts>>

-----------------------------------------------------------------------------
(* The manager's goroutines, while the process lives. *)

Started(e) ==
  /\ Alive /\ mgr[e] = "starting"
  /\ mgr' = [mgr EXCEPT ![e] = "started"]
  /\ UNCHANGED <<env, bound, pos, exit, signalled, gates, names, registered, indexes, heard,
                 inflight, hooks, failedCalls, restarts>>

\* The coordinator hands an engagement to what is registered now, once.
Engage(e, w) ==
  /\ Alive /\ mgr[e] = "started" /\ ~signalled
  /\ w \in bound[e] \ EngagedBy(e)
  /\ heard' = [heard EXCEPT ![e][w] = registered[e]]
  /\ UNCHANGED <<env, bound, pos, exit, signalled, gates, names, mgr, registered, indexes,
                 inflight, hooks, failedCalls, restarts>>

BeginReconcile(e, w) ==
  /\ Alive /\ mgr[e] = "started" /\ ~signalled /\ ~Stalled(e)
  /\ Controllers(e) \subseteq heard[e][w]
  /\ w \notin inflight[e]
  /\ inflight' = [inflight EXCEPT ![e] = @ \cup {w}]
  /\ UNCHANGED <<env, bound, pos, exit, signalled, gates, names, mgr, registered, indexes,
                 heard, hooks, failedCalls, restarts>>

EndReconcile(e, w) ==
  /\ Alive /\ w \in inflight[e]
  /\ inflight' = [inflight EXCEPT ![e] = @ \ {w}]
  /\ UNCHANGED <<env, bound, pos, exit, signalled, gates, names, mgr, registered, indexes,
                 heard, hooks, failedCalls, restarts>>

\* A manager whose context is done waits for its workers, then Start returns nil.
Stopped(e) ==
  /\ Alive /\ signalled /\ mgr[e] = "started" /\ inflight[e] = {}
  /\ mgr' = [mgr EXCEPT ![e] = "stopped"]
  /\ UNCHANGED <<env, bound, pos, exit, signalled, gates, names, registered, indexes, heard,
                 inflight, hooks, failedCalls, restarts>>

\* A call of main, or the manager, fails: os.Exit(1), except in the demo, whose
\* manager goroutines only log it.
Fails ==
  /\ Alive /\ failedCalls < MaxFailedCalls
  /\ failedCalls' = failedCalls + 1
  /\ \/ /\ \/ Main[pos][1] \in {"provider", "manager", "backend", "fleet", "controllers", "wiring"}
           \/ binary # "demo" /\ \E e \in Exports : mgr[e] \in {"starting", "started"}
        /\ Exit("error")
        /\ UNCHANGED mgr
     \/ /\ binary = "demo"
        /\ \E e \in Exports : /\ mgr[e] \in {"starting", "started"}
                              /\ mgr' = [mgr EXCEPT ![e] = "stopped"]
        /\ UNCHANGED <<pos, exit>>
  /\ UNCHANGED <<env, bound, signalled, gates, names, registered, indexes, heard, inflight,
                 hooks, restarts>>

-----------------------------------------------------------------------------
(* Outside the process. *)

Bind(e, w) ==
  /\ binary # "demo"
  /\ w \notin bound[e]
  /\ bound' = [bound EXCEPT ![e] = @ \cup {w}]
  /\ UNCHANGED <<env, pos, exit, signalled, process, failedCalls, restarts>>

Signal ==
  /\ Alive /\ ~signalled
  /\ signalled' = TRUE
  /\ UNCHANGED <<env, bound, pos, exit, process, failedCalls, restarts>>

\* The deployment replaces a container that failed; nothing survives it.
Restart ==
  /\ exit = "error" /\ ~signalled /\ binary # "demo"
  /\ restarts' = IF restarts < MaxRestarts THEN restarts + 1 ELSE restarts
  /\ pos' = 1 /\ exit' = "running"
  /\ gates' = UpstreamGates /\ names' = {} /\ hooks' = {}
  /\ mgr' = NoManagers /\ heard' = NobodyHeard
  /\ registered' = EmptyPerExport /\ indexes' = EmptyPerExport /\ inflight' = EmptyPerExport
  /\ UNCHANGED <<env, bound, signalled, failedCalls>>

MainStep ==
  \/ SetFeatureGateDefaults \/ SetupProcessGlobals \/ NewAPIExportProvider
  \/ VirtualWorkspaceConfig \/ EndpointTimesOut \/ NewManager \/ NewDevInfrastructure
  \/ NewFleet \/ SetupControllers \/ AddToManager \/ GoStart \/ StartInMain \/ Elected
  \/ SetupWebhooks \/ NoWebhooks \/ WebhookWorkspaceMissing \/ MainReturns

ManagerStep(e) ==
  \/ Started(e) \/ Stopped(e)
  \/ \E w \in Consumers : Engage(e, w) \/ BeginReconcile(e, w) \/ EndReconcile(e, w)

Tenant == \E e \in Own, w \in Consumers : Bind(e, w)

ManagersNext ==
  \/ MainStep
  \/ \E e \in Own : ManagerStep(e)
  \/ Fails
  \/ Tenant
  \/ Signal
  \/ Restart

ManagersSpec == ManagersInit /\ [][ManagersNext]_managersVars

\* The process takes steps while it can, a failed container is started again.  A
\* wait of minutes may run out in one life of the process before the manager got
\* to an engagement, but not in all of them.
ManagersFairness ==
  /\ WF_managersVars(MainStep \/ Restart \/ \E e \in Own : Started(e))
  /\ \A w \in Consumers :
       /\ SF_managersVars(\E e \in Own : Engage(e, w))
       /\ SF_managersVars(\E e \in Own : BeginReconcile(e, w))

ManagersFairSpec == ManagersSpec /\ ManagersFairness

-----------------------------------------------------------------------------
(* Every variable has its type. *)
ManagersTypeOK ==
  /\ binary \in Binaries /\ webhookFlag \in WebhookFlags \cup {None} /\ gateFlag \subseteq {"MachinePool"}
  /\ bound \in [Exports -> SUBSET Consumers]
  /\ pos \in 0 .. Len(Main) /\ exit \in {"running", "clean", "error"} /\ (pos = 0 <=> exit # "running")
  /\ signalled \in BOOLEAN
  /\ mgr \in [Exports -> {"none", "built", "starting", "started", "stopped"}]
  /\ \A e \in Exports : registered[e] \subseteq names \cup {"wiring"}
  /\ inflight \in [Exports -> SUBSET Consumers]
  /\ failedCalls \in 0 .. MaxFailedCalls /\ restarts \in 0 .. MaxRestarts

(* An engagement reaches everything its manager is meant to run: what is     *)
(* registered later never hears of it, and nothing reports that              *)
(* (providerwiring.go, rule 1 of the lifecycle contract).                    *)
NobodyMissed ==
  \A e \in Own, w \in Consumers : w \in EngagedBy(e) => Components(e) \subseteq heard[e][w]

(* A field a registered controller lists by was declared to the provider     *)
(* whose caches it reads: such a list fails without its index.               *)
FieldsAreIndexed ==
  \A e \in Own : \A c \in registered[e] : ListedFields(c) \subseteq indexes[e]

(* No controller is refused for its name: each process builds one fleet, and *)
(* the one that builds four turns the check off.                             *)
NoNameIsRejected ==
  [][ (At("fleet") \/ At("controllers") \/ At("wiring")) /\ failedCalls' = failedCalls
        => exit' = "running" ]_managersVars

(* A process whose main runs the manager itself ends cleanly only after its  *)
(* reconciles did.  The two mains that wait for the context do not promise   *)
(* it: they return while the manager is still stopping.                      *)
CleanExitIsDrained ==
  exit = "clean" /\ binary \in {"bootstrap", "control-plane", "nutanix"}
    => \A e \in Own : inflight[e] = {}

(* A workspace that binds an export is reconciled in the end, however often  *)
(* the process gave up on its endpoint or its webhook workspace before, and  *)
(* the webhook workspace gets its webhooks.                                  *)
BoundIsServed ==
  \A w \in Consumers :
    binary # "demo" /\ (\E e \in Own : w \in bound[e])
      ~> \/ /\ \E e \in Own : w \in inflight[e]
            /\ w = webhookFlag => \E h \in hooks : h[2] = w
         \/ signalled \/ "MachinePool" \in gateFlag
=============================================================================
