--------------------------- MODULE ManagersProofs ---------------------------
(* What holds of every provider binary, and of the demo's managers, for any  *)
(* workspaces and flags, however often they fail and are started again.      *)
(*                                                                           *)
(* The argument is about the order of the steps of a main: a manager starts  *)
(* only after the steps that tell it of its components, the steps that came  *)
(* before the current one have left what they leave, and only the first of   *)
(* them changes the gates that say which components there are.               *)
EXTENDS Managers, SequenceTheorems, TLAPS

Ops == {"gates", "globals", "provider", "endpoint", "manager", "backend", "fleet", "controllers",
        "wiring", "go", "start", "elected", "webhooks", "wait"}

OfAnExport == Ops \ {"gates", "globals", "wait"}

InMain == {"bootstrap", "control-plane", "nutanix"}

\* Some step before the i-th of a main is this one.
Before(i, step) == \E j \in 1 .. i - 1 : Main[j] = step

\* How each main orders its steps, as far as the proofs need it.
MainIsASequence ==
  /\ Len(Main) \in Nat \ {0} /\ DOMAIN Main = 1 .. Len(Main)
  /\ \A i \in 1 .. Len(Main) :
       /\ Main[i][1] \in Ops
       /\ Main[i][1] \in OfAnExport => Main[i][2] \in Exports
       /\ Main[i][2] \in Exports \cup {None}

GatesComeFirst == \A i \in 1 .. Len(Main) : Main[i][1] = "gates" <=> i = 1

LastStepStays == Main[Len(Main)][1] \in {"start", "wait"}

\* A manager is told of everything before it starts.
ToldBeforeStart ==
  \A i \in 1 .. Len(Main) :
    Main[i][1] \in {"go", "start"} =>
      /\ Before(i, <<"fleet", Main[i][2]>>) /\ Before(i, <<"controllers", Main[i][2]>>)
      /\ binary = "core" => Before(i, <<"wiring", Main[i][2]>>)

\* The core controllers come after the provider whose caches they read.
ProviderBeforeCore ==
  \A i \in 1 .. Len(Main) :
    Main[i][1] = "controllers" /\ Main[i][2] = "core" =>
      binary \in {"core", "demo"} /\ Before(i, <<"provider", "core">>)

\* A deployment's binary builds one fleet and sets up its controllers once.
OneFleet ==
  binary # "demo" =>
    \A i, j \in 1 .. Len(Main) :
      Main[i][1] \in {"fleet", "controllers"} /\ Main[i][1] = Main[j][1] => i = j

\* The mains that run their manager themselves never wait for the context.
RunsItsManager ==
  binary \in InMain =>
    \A i \in 1 .. Len(Main) :
      /\ Main[i][1] # "wait" /\ Main[i][2] \in {binary, None}
      /\ Main[i][1] = "start" => Main[i][2] = binary

MainInOrder ==
  /\ MainIsASequence /\ GatesComeFirst /\ LastStepStays /\ ToldBeforeStart
  /\ ProviderBeforeCore /\ OneFleet /\ RunsItsManager

-----------------------------------------------------------------------------
Parts == {"clustercache", "wiring", "cluster", "machine", "machineset", "machinedeployment",
          "kubeadmconfig", "kubeadmcontrolplane", "devcluster", "devmachine",
          "nutanixcluster", "nutanixmachine"} \cup TopologyControllers

\* What a step of main registers.
Registers(op, e) ==
  {c \in Parts : \/ op = "fleet" /\ c = "clustercache"
                 \/ op = "controllers" /\ c \in Controllers(e)
                 \/ op = "wiring" /\ c = "wiring"}

ManagersTypes ==
  /\ binary \in Binaries
  /\ pos \in 0 .. Len(Main)
  /\ exit \in {"running", "clean", "error"} /\ (pos = 0 <=> exit # "running")
  /\ mgr \in [Exports -> {"none", "built", "starting", "started", "stopped"}]
  /\ registered \in [Exports -> SUBSET Parts]
  /\ indexes \in [Exports -> SUBSET {"classRef"}]
  /\ heard \in [Exports -> [Consumers -> SUBSET Parts]]
  /\ inflight \in [Exports -> SUBSET Consumers]
  /\ failedCalls \in Nat

\* Nothing runs before the gates are set, and the project's own is on from then.
GatesAreSettled ==
  /\ pos = 1 => mgr = NoManagers /\ heard = NobodyHeard
  /\ pos > 1 => "ClusterTopology" \in gates

\* The steps main has done have registered what they register.
DoneIsRegistered ==
  \A j \in 1 .. pos - 1 : \A c \in Parts :
    c \in Registers(Main[j][1], Main[j][2]) => c \in registered[Main[j][2]]

\* A manager that runs, or has run, was told of everything before.
RunningIsWhole ==
  \A e \in Exports : mgr[e] \in {"starting", "started", "stopped"} => Components(e) \subseteq registered[e]

HeardIsWhole ==
  \A e \in Exports, w \in Consumers : heard[e][w] # {} => Components(e) \subseteq heard[e][w]

\* Where the topology reconciler is registered, its index was declared.
TopologyIsIndexed ==
  /\ \A j \in 1 .. pos - 1 :
       Main[j] = <<"provider", "core">> /\ binary \in {"core", "demo"} => "classRef" \in indexes["core"]
  /\ \A e \in Exports :
       "topology/cluster" \in registered[e] => binary \in {"core", "demo"} /\ "classRef" \in indexes[e]

\* The names the process has seen are those of a fleet, or of controllers, set up before.
NamesAreOfDone ==
  /\ "clustercache" \in names /\ pos > 0 => \E j \in 1 .. pos - 1 : Main[j][1] = "fleet"
  /\ \A n \in names : n # "clustercache" /\ pos > 0 => \E j \in 1 .. pos - 1 : Main[j][1] = "controllers"

\* Only the demo calls a manager stopped whose workers may still run.
StoppedIsDrained ==
  binary # "demo" => \A e \in Exports : mgr[e] = "stopped" => inflight[e] = {}

ManagersInv ==
  /\ ManagersTypes /\ GatesAreSettled /\ DoneIsRegistered /\ RunningIsWhole /\ HeardIsWhole
  /\ TopologyIsIndexed /\ NamesAreOfDone /\ StoppedIsDrained /\ CleanExitIsDrained
LEMMA CoreMainSteps ==
  /\ Len(CoreMain) = 12 /\ DOMAIN CoreMain = 1 .. 12
  /\ CoreMain[1] = <<"gates", None>> /\ CoreMain[2] = <<"globals", None>>
  /\ CoreMain[3] = <<"provider", "core">> /\ CoreMain[4] = <<"endpoint", "core">>
  /\ CoreMain[5] = <<"manager", "core">> /\ CoreMain[6] = <<"fleet", "core">>
  /\ CoreMain[7] = <<"controllers", "core">> /\ CoreMain[8] = <<"wiring", "core">>
  /\ CoreMain[9] = <<"go", "core">> /\ CoreMain[10] = <<"elected", "core">>
  /\ CoreMain[11] = <<"webhooks", "core">> /\ CoreMain[12] = <<"wait", "core">>
BY DEF CoreMain, Preamble, Addressed

LEMMA BootstrapMainSteps ==
  /\ Len(BootstrapMain) = 8 /\ DOMAIN BootstrapMain = 1 .. 8
  /\ BootstrapMain[1] = <<"gates", None>> /\ BootstrapMain[2] = <<"globals", None>>
  /\ BootstrapMain[3] = <<"provider", "bootstrap">>
  /\ BootstrapMain[4] = <<"endpoint", "bootstrap">>
  /\ BootstrapMain[5] = <<"manager", "bootstrap">> /\ BootstrapMain[6] = <<"fleet", "bootstrap">>
  /\ BootstrapMain[7] = <<"controllers", "bootstrap">>
  /\ BootstrapMain[8] = <<"start", "bootstrap">>
BY DEF BootstrapMain, Preamble, Addressed

LEMMA ControlPlaneMainSteps ==
  /\ Len(ControlPlaneMain) = 8 /\ DOMAIN ControlPlaneMain = 1 .. 8
  /\ ControlPlaneMain[1] = <<"gates", None>> /\ ControlPlaneMain[2] = <<"globals", None>>
  /\ ControlPlaneMain[3] = <<"provider", "control-plane">>
  /\ ControlPlaneMain[4] = <<"endpoint", "control-plane">>
  /\ ControlPlaneMain[5] = <<"manager", "control-plane">>
  /\ ControlPlaneMain[6] = <<"fleet", "control-plane">>
  /\ ControlPlaneMain[7] = <<"controllers", "control-plane">>
  /\ ControlPlaneMain[8] = <<"start", "control-plane">>
BY DEF ControlPlaneMain, Preamble, Addressed

LEMMA NutanixMainSteps ==
  /\ Len(NutanixMain) = 8 /\ DOMAIN NutanixMain = 1 .. 8
  /\ NutanixMain[1] = <<"gates", None>> /\ NutanixMain[2] = <<"globals", None>>
  /\ NutanixMain[3] = <<"provider", "nutanix">> /\ NutanixMain[4] = <<"endpoint", "nutanix">>
  /\ NutanixMain[5] = <<"manager", "nutanix">> /\ NutanixMain[6] = <<"fleet", "nutanix">>
  /\ NutanixMain[7] = <<"controllers", "nutanix">> /\ NutanixMain[8] = <<"start", "nutanix">>
BY DEF NutanixMain, Preamble, Addressed

LEMMA InfrastructureMainSteps ==
  /\ Len(InfrastructureMain) = 12 /\ DOMAIN InfrastructureMain = 1 .. 12
  /\ InfrastructureMain[1] = <<"gates", None>> /\ InfrastructureMain[2] = <<"globals", None>>
  /\ InfrastructureMain[3] = <<"provider", "infrastructure">>
  /\ InfrastructureMain[4] = <<"endpoint", "infrastructure">>
  /\ InfrastructureMain[5] = <<"manager", "infrastructure">>
  /\ InfrastructureMain[6] = <<"backend", "infrastructure">>
  /\ InfrastructureMain[7] = <<"fleet", "infrastructure">>
  /\ InfrastructureMain[8] = <<"controllers", "infrastructure">>
  /\ InfrastructureMain[9] = <<"go", "infrastructure">>
  /\ InfrastructureMain[10] = <<"elected", "infrastructure">>
  /\ InfrastructureMain[11] = <<"webhooks", "infrastructure">>
  /\ InfrastructureMain[12] = <<"wait", "infrastructure">>
BY DEF InfrastructureMain, Preamble, Addressed

LEMMA DemoMainSteps ==
  /\ Len(DemoMain) = 28 /\ DOMAIN DemoMain = 1 .. 28
  /\ DemoMain[1] = <<"gates", None>> /\ DemoMain[2] = <<"globals", None>>
  /\ DemoMain[3] = <<"provider", "core">> /\ DemoMain[4] = <<"endpoint", "core">>
  /\ DemoMain[5] = <<"manager", "core">> /\ DemoMain[6] = <<"fleet", "core">>
  /\ DemoMain[7] = <<"controllers", "core">> /\ DemoMain[8] = <<"go", "core">>
  /\ DemoMain[9] = <<"provider", "infrastructure">>
  /\ DemoMain[10] = <<"endpoint", "infrastructure">>
  /\ DemoMain[11] = <<"manager", "infrastructure">>
  /\ DemoMain[12] = <<"fleet", "infrastructure">>
  /\ DemoMain[13] = <<"backend", "infrastructure">>
  /\ DemoMain[14] = <<"controllers", "infrastructure">>
  /\ DemoMain[15] = <<"go", "infrastructure">> /\ DemoMain[16] = <<"provider", "bootstrap">>
  /\ DemoMain[17] = <<"endpoint", "bootstrap">> /\ DemoMain[18] = <<"manager", "bootstrap">>
  /\ DemoMain[19] = <<"fleet", "bootstrap">> /\ DemoMain[20] = <<"controllers", "bootstrap">>
  /\ DemoMain[21] = <<"go", "bootstrap">> /\ DemoMain[22] = <<"provider", "control-plane">>
  /\ DemoMain[23] = <<"endpoint", "control-plane">>
  /\ DemoMain[24] = <<"manager", "control-plane">> /\ DemoMain[25] = <<"fleet", "control-plane">>
  /\ DemoMain[26] = <<"controllers", "control-plane">>
  /\ DemoMain[27] = <<"go", "control-plane">> /\ DemoMain[28] = <<"wait", None>>
BY DEF DemoMain, Preamble, Addressed

\* The mains of the binaries have one manager each.
LEMMA OneManagerInOrder == binary \in Exports => MainInOrder
<1> USE DEF MainInOrder, MainIsASequence, GatesComeFirst, LastStepStays, ToldBeforeStart,
            ProviderBeforeCore, OneFleet, RunsItsManager, Before, Ops, OfAnExport, Exports, InMain
<1>1. CASE binary = "core"
  <2>1. Main = CoreMain
    BY <1>1 DEF Main
  <2> QED
    BY <1>1, <2>1, CoreMainSteps
<1>2. CASE binary = "infrastructure"
  <2>1. Main = InfrastructureMain
    BY <1>2 DEF Main
  <2> QED
    BY <1>2, <2>1, InfrastructureMainSteps
<1>3. CASE binary = "bootstrap"
  <2>1. Main = BootstrapMain
    BY <1>3 DEF Main
  <2> QED
    BY <1>3, <2>1, BootstrapMainSteps
<1>4. CASE binary = "control-plane"
  <2>1. Main = ControlPlaneMain
    BY <1>4 DEF Main
  <2> QED
    BY <1>4, <2>1, ControlPlaneMainSteps
<1>5. CASE binary = "nutanix"
  <2>1. Main = NutanixMain
    BY <1>5 DEF Main
  <2> QED
    BY <1>5, <2>1, NutanixMainSteps
<1> QED
  BY <1>1, <1>2, <1>3, <1>4, <1>5

\* The demo's has four, one after the other.
LEMMA DemoMainInOrder == binary = "demo" => MainInOrder
<1> SUFFICES ASSUME binary = "demo" PROVE MainInOrder
  OBVIOUS
<1>1. Main = DemoMain
  BY DEF Main
<1>2. Len(Main) = 28 /\ DOMAIN Main = 1 .. 28
  BY <1>1, DemoMainSteps
<1>3. MainIsASequence /\ GatesComeFirst /\ LastStepStays
  BY <1>1, <1>2, DemoMainSteps
     DEF MainIsASequence, GatesComeFirst, LastStepStays, Ops, OfAnExport, Exports
<1>4. ToldBeforeStart
  <2> SUFFICES ASSUME NEW i \in 1 .. 28, DemoMain[i][1] \in {"go", "start"}
               PROVE  /\ Before(i, <<"fleet", DemoMain[i][2]>>)
                      /\ Before(i, <<"controllers", DemoMain[i][2]>>)
    BY <1>1, <1>2 DEF ToldBeforeStart
  <2>1. i \in {8, 15, 21, 27}
    BY DemoMainSteps
  <2>2. CASE i = 8
    <3>1. DemoMain[i][2] = "core" /\ 6 \in 1 .. i - 1 /\ 7 \in 1 .. i - 1
      BY <2>2, DemoMainSteps
    <3> QED
      BY <1>1, <3>1, DemoMainSteps DEF Before
  <2>3. CASE i = 15
    <3>1. DemoMain[i][2] = "infrastructure" /\ 12 \in 1 .. i - 1 /\ 14 \in 1 .. i - 1
      BY <2>3, DemoMainSteps
    <3> QED
      BY <1>1, <3>1, DemoMainSteps DEF Before
  <2>4. CASE i = 21
    <3>1. DemoMain[i][2] = "bootstrap" /\ 19 \in 1 .. i - 1 /\ 20 \in 1 .. i - 1
      BY <2>4, DemoMainSteps
    <3> QED
      BY <1>1, <3>1, DemoMainSteps DEF Before
  <2>5. CASE i = 27
    <3>1. DemoMain[i][2] = "control-plane" /\ 25 \in 1 .. i - 1 /\ 26 \in 1 .. i - 1
      BY <2>5, DemoMainSteps
    <3> QED
      BY <1>1, <3>1, DemoMainSteps DEF Before
  <2> QED
    BY <2>1, <2>2, <2>3, <2>4, <2>5
<1>5. ProviderBeforeCore
  <2> SUFFICES ASSUME NEW i \in 1 .. 28, DemoMain[i][1] = "controllers", DemoMain[i][2] = "core"
               PROVE  Before(i, <<"provider", "core">>)
    BY <1>1, <1>2 DEF ProviderBeforeCore
  <2>1. i = 7
    BY DemoMainSteps
  <2> QED
    BY <1>1, <2>1, DemoMainSteps DEF Before
<1>6. OneFleet /\ RunsItsManager
  BY DEF OneFleet, RunsItsManager, InMain
<1> QED
  BY <1>3, <1>4, <1>5, <1>6 DEF MainInOrder


-----------------------------------------------------------------------------
LEMMA InOrder == ManagersInv => MainInOrder
BY ManagersAssumption, OneManagerInOrder, DemoMainInOrder DEF ManagersInv, ManagersTypes

LEMMA MainIsFixed == binary' = binary => Main' = Main /\ Own' = Own
BY DEF Main, Own

\* What there is to register depends on the gates alone.
LEMMA PartsAreFixed ==
  ASSUME UNCHANGED <<binary, gates>>
  PROVE  \A op, e : Registers(op, e)' = Registers(op, e)
BY DEF Registers, Controllers, CoreControllers

LEMMA ControllersAreParts ==
  ASSUME NEW e \in Exports
  PROVE  /\ Controllers(e) \subseteq Parts
         /\ "clustercache" \notin Controllers(e) /\ "wiring" \notin Controllers(e)
         /\ "topology/cluster" \in Controllers(e) => e = "core"
BY DEF Controllers, CoreControllers, TopologyControllers, Parts, Exports

\* Own is of exports, and a main that runs its manager has that one only.
LEMMA OwnExports ==
  ASSUME MainInOrder
  PROVE  /\ Own \subseteq Exports
         /\ binary \in InMain => Own \subseteq {binary}
BY DEF MainInOrder, MainIsASequence, RunsItsManager, Own

\* Where main is: at a step of its own, and unless that is its last, at the next one next.
LEMMA WhereMainIs ==
  ASSUME ManagersInv, pos > 0
  PROVE  /\ pos \in 1 .. Len(Main) /\ Len(Main) \in Nat
         /\ Main[pos][1] \in Ops /\ (Main[pos][1] \in OfAnExport => Main[pos][2] \in Exports)
         /\ Main[pos][1] \notin {"start", "wait"} => pos + 1 \in 1 .. Len(Main)
         /\ Main[pos][1] = "gates" <=> pos = 1
         /\ exit = "running"
<1>1. MainInOrder
  BY InOrder
<1>2. pos \in 1 .. Len(Main) /\ Len(Main) \in Nat
  BY <1>1 DEF MainInOrder, MainIsASequence, ManagersInv, ManagersTypes
<1>3. Main[pos][1] \notin {"start", "wait"} => pos # Len(Main)
  BY <1>1 DEF MainInOrder, LastStepStays
<1>4. Main[pos][1] \in Ops /\ (Main[pos][1] \in OfAnExport => Main[pos][2] \in Exports)
  BY <1>1, <1>2 DEF MainInOrder, MainIsASequence
<1>5. Main[pos][1] = "gates" <=> pos = 1
  BY <1>1, <1>2 DEF MainInOrder, GatesComeFirst
<1>6. exit = "running"
  BY DEF ManagersInv, ManagersTypes
<1>7. Main[pos][1] \notin {"start", "wait"} => pos + 1 \in 1 .. Len(Main)
  BY <1>2, <1>3
<1> QED
  BY <1>2, <1>4, <1>5, <1>6, <1>7

-----------------------------------------------------------------------------
\* The process ends, cleanly only where that is allowed.
LEMMA EndKeeps ==
  ASSUME ManagersInv,
         pos' = 0, exit' \in {"clean", "error"}, failedCalls' \in Nat,
         UNCHANGED <<binary, gates, names, mgr, registered, indexes, heard, inflight>>,
         exit' = "clean" /\ binary \in InMain => \A e \in Own : inflight[e] = {}
  PROVE  ManagersInv'
<1>1. Main' = Main /\ Own' = Own
  BY MainIsFixed
<1>2. ManagersTypes'
  BY <1>1, InOrder DEF ManagersInv, ManagersTypes, MainInOrder, MainIsASequence
<1>3. GatesAreSettled' /\ DoneIsRegistered' /\ NamesAreOfDone'
  BY DEF GatesAreSettled, DoneIsRegistered, NamesAreOfDone
<1>4. RunningIsWhole' /\ HeardIsWhole' /\ StoppedIsDrained'
  BY DEF ManagersInv, RunningIsWhole, HeardIsWhole, StoppedIsDrained, Components, Controllers,
         CoreControllers
<1>5. TopologyIsIndexed'
  BY DEF ManagersInv, TopologyIsIndexed
<1>6. CleanExitIsDrained'
  BY <1>1 DEF CleanExitIsDrained, InMain
<1> QED
  BY <1>2, <1>3, <1>4, <1>5, <1>6 DEF ManagersInv

\* What main's progress changes of the invariant, for a step that registers nothing.
LEMMA ContinueKeeps ==
  ASSUME ManagersInv, pos > 0, Proceed, UNCHANGED <<binary, gates, names, registered>>,
         Main[pos][1] \notin {"gates", "fleet", "controllers", "wiring", "start", "wait"}
  PROVE  /\ pos' \in 0 .. Len(Main) /\ exit' = "running" /\ pos' > 1
         /\ "ClusterTopology" \in gates /\ DoneIsRegistered' /\ NamesAreOfDone'
<1>1. Main' = Main
  BY MainIsFixed
<1>2. /\ pos \in 1 .. Len(Main) /\ Len(Main) \in Nat /\ pos + 1 \in 1 .. Len(Main)
      /\ pos # 1 /\ exit = "running"
  BY WhereMainIs
<1>3. pos' = pos + 1 /\ exit' = "running"
  BY <1>2 DEF Proceed
<1>4. "ClusterTopology" \in gates
  BY <1>2 DEF ManagersInv, GatesAreSettled
<1>5. DoneIsRegistered'
  <2> SUFFICES ASSUME NEW j \in 1 .. pos, NEW c \in Parts, c \in Registers(Main[j][1], Main[j][2])
               PROVE  c \in registered[Main[j][2]]
    <3>1. \A op, e : Registers(op, e)' = Registers(op, e)
      BY PartsAreFixed
    <3> QED
      BY <1>1, <1>2, <1>3, <3>1 DEF DoneIsRegistered
  <2>1. j # pos
    BY DEF Registers
  <2> QED
    BY <1>2, <2>1 DEF ManagersInv, DoneIsRegistered
<1>6. NamesAreOfDone'
  BY <1>1, <1>2, <1>3 DEF ManagersInv, NamesAreOfDone
<1> QED
  BY <1>2, <1>3, <1>4, <1>5, <1>6

\* A step of main that the rest of the process sees nothing of.
LEMMA QuietKeeps ==
  ASSUME ManagersInv, pos > 0, Proceed,
         UNCHANGED <<binary, gates, names, mgr, registered, indexes, heard, inflight, failedCalls>>,
         Main[pos][1] \notin {"gates", "provider", "fleet", "controllers", "wiring", "start", "wait"}
  PROVE  ManagersInv'
<1>1. Main' = Main /\ Own' = Own
  BY MainIsFixed
<1>2. /\ pos' \in 0 .. Len(Main) /\ exit' = "running" /\ pos' > 1
      /\ "ClusterTopology" \in gates /\ DoneIsRegistered' /\ NamesAreOfDone'
  BY ContinueKeeps
<1>3. ManagersTypes' /\ GatesAreSettled'
  BY <1>1, <1>2 DEF ManagersInv, ManagersTypes, GatesAreSettled
<1>4. RunningIsWhole' /\ HeardIsWhole' /\ StoppedIsDrained' /\ CleanExitIsDrained'
  BY <1>2 DEF ManagersInv, RunningIsWhole, HeardIsWhole, StoppedIsDrained, CleanExitIsDrained,
              Components, Controllers, CoreControllers
<1>5. TopologyIsIndexed'
  <2>1. pos \in 1 .. Len(Main) /\ Len(Main) \in Nat /\ pos' = pos + 1
    BY WhereMainIs DEF Proceed
  <2> QED
    BY <1>1, <2>1 DEF ManagersInv, TopologyIsIndexed
<1> QED
  BY <1>2, <1>3, <1>4, <1>5 DEF ManagersInv

LEMMA QuietStepsKeep ==
  ASSUME ManagersInv,
         \/ SetupProcessGlobals \/ VirtualWorkspaceConfig \/ NewDevInfrastructure
         \/ Elected \/ SetupWebhooks \/ NoWebhooks
  PROVE  ManagersInv'
BY QuietKeeps
   DEF SetupProcessGlobals, VirtualWorkspaceConfig, NewDevInfrastructure, Elected, SetupWebhooks,
       NoWebhooks, At, Alive, env, process

LEMMA EndStepsKeep ==
  ASSUME ManagersInv, EndpointTimesOut \/ WebhookWorkspaceMissing \/ MainReturns
  PROVE  ManagersInv'
<1>1. CASE EndpointTimesOut \/ WebhookWorkspaceMissing
  <2>1. failedCalls \in Nat
    BY DEF ManagersInv, ManagersTypes
  <2> QED
    BY <1>1, <2>1, EndKeeps DEF EndpointTimesOut, WebhookWorkspaceMissing, Exit, env, process
<1>2. CASE MainReturns
  <2>1. failedCalls \in Nat
    BY DEF ManagersInv, ManagersTypes
  <2>2. binary \notin InMain
    BY <1>2, InOrder, WhereMainIs DEF MainReturns, At, Alive, MainInOrder, RunsItsManager
  <2> QED
    BY <1>2, <2>1, <2>2, EndKeeps DEF MainReturns, Exit, env, process
<1> QED
  BY <1>1, <1>2

LEMMA GatesKeep == ManagersInv /\ SetFeatureGateDefaults => ManagersInv'
<1> SUFFICES ASSUME ManagersInv, SetFeatureGateDefaults PROVE ManagersInv'
  OBVIOUS
<1>1. Main' = Main /\ Own' = Own
  BY MainIsFixed DEF SetFeatureGateDefaults, env
<1>2. /\ pos = 1 /\ pos' = 2 /\ pos' \in 0 .. Len(Main) /\ exit' = "running"
      /\ Main[1][1] = "gates" /\ "ClusterTopology" \in gates'
      /\ UNCHANGED <<binary, names, mgr, registered, indexes, heard, inflight, failedCalls>>
  BY WhereMainIs DEF SetFeatureGateDefaults, At, Alive, Proceed, env, FeatureGateDefaults
<1>3. mgr = NoManagers /\ heard = NobodyHeard
  BY <1>2 DEF ManagersInv, GatesAreSettled
<1>4. ManagersTypes' /\ GatesAreSettled'
  BY <1>1, <1>2 DEF ManagersInv, ManagersTypes, GatesAreSettled
<1>5. DoneIsRegistered'
  BY <1>1, <1>2 DEF DoneIsRegistered, Registers
<1>6. RunningIsWhole' /\ HeardIsWhole' /\ StoppedIsDrained' /\ CleanExitIsDrained'
  BY <1>2, <1>3 DEF RunningIsWhole, HeardIsWhole, StoppedIsDrained, CleanExitIsDrained,
                    NoManagers, NobodyHeard
<1>7. TopologyIsIndexed' /\ NamesAreOfDone'
  BY <1>1, <1>2 DEF ManagersInv, TopologyIsIndexed, NamesAreOfDone
<1> QED
  BY <1>4, <1>5, <1>6, <1>7 DEF ManagersInv

LEMMA ProviderKeeps == ManagersInv /\ NewAPIExportProvider => ManagersInv'
<1> SUFFICES ASSUME ManagersInv, NewAPIExportProvider PROVE ManagersInv'
  OBVIOUS
<1>1. Main' = Main /\ Own' = Own
  BY MainIsFixed DEF NewAPIExportProvider, env
<1>2. /\ pos' \in 0 .. Len(Main) /\ exit' = "running" /\ pos' > 1
      /\ "ClusterTopology" \in gates /\ DoneIsRegistered' /\ NamesAreOfDone'
  BY ContinueKeeps DEF NewAPIExportProvider, At, Alive, env
<1>3. /\ pos \in 1 .. Len(Main) /\ Len(Main) \in Nat /\ pos' = pos + 1 /\ Here \in Exports
      /\ Main[pos][1] = "provider"
  BY WhereMainIs DEF NewAPIExportProvider, At, Alive, Proceed, Here, OfAnExport, Ops
<1>4. indexes' = [indexes EXCEPT ![Here] = IF binary \in {"core", "demo"} THEN {"classRef"} ELSE {}]
  BY <1>2 DEF NewAPIExportProvider, FleetCacheIndexes
<1>5. UNCHANGED <<binary, gates, names, mgr, registered, heard, inflight, failedCalls>>
  BY DEF NewAPIExportProvider, env
<1>6. ManagersTypes' /\ GatesAreSettled'
  BY <1>1, <1>2, <1>3, <1>4, <1>5 DEF ManagersInv, ManagersTypes, GatesAreSettled
<1>7. RunningIsWhole' /\ HeardIsWhole' /\ StoppedIsDrained' /\ CleanExitIsDrained'
  BY <1>2, <1>5 DEF ManagersInv, RunningIsWhole, HeardIsWhole, StoppedIsDrained,
                    CleanExitIsDrained, Components, Controllers, CoreControllers
<1>8. TopologyIsIndexed'
  <2>1. indexes \in [Exports -> SUBSET {"classRef"}]
    BY DEF ManagersInv, ManagersTypes
  <2>2. \A e \in Exports : binary \in {"core", "demo"} /\ "classRef" \in indexes[e] => "classRef" \in indexes'[e]
    BY <1>3, <1>4, <2>1
  <2>3. Here = "core" /\ binary \in {"core", "demo"} => "classRef" \in indexes'["core"]
    BY <1>3, <1>4, <2>1
  <2>4. Main[pos] = <<"provider", "core">> => Here = "core"
    BY DEF Here
  <2> QED
    BY <1>1, <1>3, <1>5, <2>2, <2>3, <2>4 DEF ManagersInv, TopologyIsIndexed, Exports
<1> QED
  BY <1>2, <1>6, <1>7, <1>8 DEF ManagersInv

LEMMA NewManagerKeeps == ManagersInv /\ NewManager => ManagersInv'
<1> SUFFICES ASSUME ManagersInv, NewManager PROVE ManagersInv'
  OBVIOUS
<1>1. Main' = Main /\ Own' = Own
  BY MainIsFixed DEF NewManager, env
<1>2. /\ pos' \in 0 .. Len(Main) /\ exit' = "running" /\ pos' > 1
      /\ "ClusterTopology" \in gates /\ DoneIsRegistered' /\ NamesAreOfDone'
  BY ContinueKeeps DEF NewManager, At, Alive, env
<1>3. /\ pos \in 1 .. Len(Main) /\ Len(Main) \in Nat /\ pos' = pos + 1 /\ Here \in Exports
      /\ Main[pos][1] = "manager"
  BY WhereMainIs DEF NewManager, At, Alive, Proceed, Here, OfAnExport, Ops
<1>4. /\ mgr' = [mgr EXCEPT ![Here] = "built"]
      /\ UNCHANGED <<binary, gates, names, registered, indexes, heard, inflight, failedCalls>>
  BY DEF NewManager, env
<1>5. ManagersTypes' /\ GatesAreSettled'
  <2>1. mgr' \in [Exports -> {"none", "built", "starting", "started", "stopped"}]
    BY <1>4 DEF ManagersInv, ManagersTypes
  <2> QED
    BY <1>1, <1>2, <1>4, <2>1 DEF ManagersInv, ManagersTypes, GatesAreSettled
<1>6. RunningIsWhole' /\ HeardIsWhole' /\ StoppedIsDrained' /\ CleanExitIsDrained'
  BY <1>2, <1>3, <1>4
     DEF ManagersInv, ManagersTypes, RunningIsWhole, HeardIsWhole, StoppedIsDrained,
         CleanExitIsDrained, Components, Controllers, CoreControllers
<1>7. TopologyIsIndexed'
  BY <1>1, <1>3, <1>4 DEF ManagersInv, TopologyIsIndexed
<1> QED
  BY <1>2, <1>5, <1>6, <1>7 DEF ManagersInv

\* A step that registers: refused, and the process ends, or told to the manager.
LEMMA RegisterKeeps ==
  ASSUME ManagersInv, pos > 0, Main[pos][1] \in {"fleet", "controllers", "wiring"},
         NEW parts, parts = Registers(Main[pos][1], Here), Register(Here, parts),
         UNCHANGED <<binary, gates, mgr, indexes, heard, inflight, failedCalls>>
  PROVE  ManagersInv'
<1>1. Main' = Main /\ Own' = Own
  BY MainIsFixed
<1>2. /\ pos \in 1 .. Len(Main) /\ Len(Main) \in Nat /\ pos + 1 \in 1 .. Len(Main)
      /\ pos # 1 /\ Here \in Exports /\ exit = "running"
  BY WhereMainIs DEF Here, OfAnExport, Ops
<1>3. CASE Exit("error") /\ UNCHANGED <<names, registered>>
  <2>1. failedCalls \in Nat
    BY DEF ManagersInv, ManagersTypes
  <2> QED
    BY <1>3, <2>1, EndKeeps DEF Exit
<1>4. CASE /\ Proceed /\ names' = names \cup (parts \ {"wiring"})
           /\ registered' = [registered EXCEPT ![Here] = @ \cup parts]
  <2>1. /\ pos' = pos + 1 /\ exit' = "running" /\ "ClusterTopology" \in gates
        /\ registered \in [Exports -> SUBSET Parts] /\ parts \subseteq Parts
    BY <1>2, <1>4 DEF Proceed, ManagersInv, ManagersTypes, GatesAreSettled, Registers
  <2>2. registered' \in [Exports -> SUBSET Parts]
    BY <1>2, <1>4, <2>1
  <2>3. \A e \in Exports : /\ registered[e] \subseteq registered'[e]
                           /\ e # Here => registered'[e] = registered[e]
    BY <1>2, <1>4, <2>1
  <2>4. registered'[Here] = registered[Here] \cup parts
    BY <1>2, <1>4, <2>1
  <2>5. ManagersTypes' /\ GatesAreSettled'
    BY <1>1, <1>2, <2>1, <2>2 DEF ManagersInv, ManagersTypes, GatesAreSettled
  <2>6. DoneIsRegistered'
    <3> SUFFICES ASSUME NEW j \in 1 .. pos, NEW c \in Parts, c \in Registers(Main[j][1], Main[j][2])
                 PROVE  c \in registered'[Main[j][2]]
      <4>1. \A op, e : Registers(op, e)' = Registers(op, e)
        BY PartsAreFixed
      <4> QED
        BY <1>1, <1>2, <2>1, <4>1 DEF DoneIsRegistered
    <3>1. CASE j = pos
      BY <2>4, <3>1 DEF Here
    <3>2. CASE j # pos
      <4>1. c \in registered[Main[j][2]]
        BY <1>2, <3>2 DEF ManagersInv, DoneIsRegistered
      <4>2. Main[j][2] \in Exports
        <5>1. Main[j][1] \in OfAnExport
          BY DEF Registers, OfAnExport, Ops
        <5> QED
          BY <1>2, <5>1, InOrder DEF MainInOrder, MainIsASequence
      <4> QED
        BY <2>3, <4>1, <4>2
    <3> QED
      BY <3>1, <3>2
  <2>7. RunningIsWhole'
    BY <2>3 DEF ManagersInv, RunningIsWhole, Components, Controllers, CoreControllers
  <2>8. HeardIsWhole' /\ StoppedIsDrained' /\ CleanExitIsDrained'
    BY <2>1 DEF ManagersInv, HeardIsWhole, StoppedIsDrained, CleanExitIsDrained,
                Components, Controllers, CoreControllers
  <2>9. TopologyIsIndexed'
    <3>1. "topology/cluster" \in parts => binary \in {"core", "demo"} /\ Here = "core" /\ "classRef" \in indexes["core"]
      <4> SUFFICES ASSUME "topology/cluster" \in parts
                   PROVE  binary \in {"core", "demo"} /\ Here = "core" /\ "classRef" \in indexes["core"]
        OBVIOUS
      <4>1. Main[pos][1] = "controllers" /\ Here = "core"
        BY <1>2, ControllersAreParts DEF Registers
      <4>2. binary \in {"core", "demo"} /\ Before(pos, <<"provider", "core">>)
        BY <1>2, <4>1, InOrder DEF MainInOrder, ProviderBeforeCore, Here
      <4> QED
        BY <4>1, <4>2 DEF ManagersInv, TopologyIsIndexed, Before
    <3>2. \A j \in 1 .. pos : Main[j] = <<"provider", "core">> => j \in 1 .. pos - 1
      BY <1>2
    <3> QED
      BY <1>1, <1>2, <2>1, <2>3, <2>4, <3>1, <3>2 DEF ManagersInv, TopologyIsIndexed
  <2>10. NamesAreOfDone'
    <3>1. /\ "clustercache" \in parts => Main[pos][1] = "fleet"
          /\ \A n \in parts \ {"clustercache", "wiring"} : Main[pos][1] = "controllers"
      BY <1>2, ControllersAreParts DEF Registers
    <3> QED
      BY <1>1, <1>2, <1>4, <2>1, <3>1 DEF ManagersInv, NamesAreOfDone
  <2> QED
    BY <2>5, <2>6, <2>7, <2>8, <2>9, <2>10 DEF ManagersInv
<1> QED
  BY <1>3, <1>4 DEF Register

\* What the three steps that register hand on.
LEMMA RegistersIs ==
  ASSUME NEW e \in Exports
  PROVE  /\ Registers("fleet", e) = {"clustercache"} /\ Registers("wiring", e) = {"wiring"}
         /\ Registers("controllers", e) = Controllers(e)
<1>1. {"clustercache", "wiring"} \subseteq Parts
  BY DEF Parts
<1>2. Controllers(e) \subseteq Parts
  BY ControllersAreParts
<1> QED
  BY <1>1, <1>2 DEF Registers

LEMMA RegisterStepsKeep ==
  ASSUME ManagersInv, NewFleet \/ SetupControllers \/ AddToManager
  PROVE  ManagersInv'
<1>1. pos > 0 /\ Main[pos][1] \in {"fleet", "controllers", "wiring"}
  BY DEF NewFleet, SetupControllers, AddToManager, At, Alive
<1>2. Here \in Exports
  BY <1>1, WhereMainIs DEF Here, OfAnExport, Ops
<1>3. UNCHANGED <<binary, gates, mgr, indexes, heard, inflight, failedCalls>>
  BY DEF NewFleet, SetupControllers, AddToManager, env
<1>4. Register(Here, Registers(Main[pos][1], Here))
  BY <1>2, RegistersIs DEF NewFleet, SetupControllers, AddToManager, At
<1> QED
  BY <1>1, <1>3, <1>4, RegisterKeeps

-----------------------------------------------------------------------------
\* A manager starts with everything it is meant to run registered.
LEMMA WholeBeforeStart ==
  ASSUME ManagersInv, pos > 0, Main[pos][1] \in {"go", "start"}
  PROVE  Here \in Exports /\ Components(Here) \subseteq registered[Here]
<1>1. Here \in Exports /\ pos \in 1 .. Len(Main)
  BY WhereMainIs DEF Here, OfAnExport, Ops
<1>2. /\ Before(pos, <<"fleet", Here>>) /\ Before(pos, <<"controllers", Here>>)
      /\ binary = "core" => Before(pos, <<"wiring", Here>>)
  BY <1>1, InOrder DEF MainInOrder, ToldBeforeStart, Here
<1>3. ASSUME NEW op, Before(pos, <<op, Here>>)
      PROVE  Registers(op, Here) \subseteq registered[Here]
  <2>1. PICK j \in 1 .. pos - 1 : Main[j] = <<op, Here>>
    BY <1>3 DEF Before
  <2>2. Main[j][1] = op /\ Main[j][2] = Here
    BY <2>1
  <2> QED
    BY <2>2 DEF ManagersInv, DoneIsRegistered, Registers
<1>4. {"clustercache"} \cup Controllers(Here) \subseteq registered[Here]
  BY <1>1, <1>2, <1>3, RegistersIs
<1>5. binary = "core" => "wiring" \in registered[Here]
  BY <1>1, <1>2, <1>3, RegistersIs
<1> QED
  BY <1>1, <1>4, <1>5 DEF Components

\* A step that only moves a manager on, to a state its invariants allow.
LEMMA MoveKeeps ==
  ASSUME ManagersInv, pos # 1, NEW e \in Exports,
         NEW state \in {"starting", "started", "stopped"}, mgr' = [mgr EXCEPT ![e] = state],
         Components(e) \subseteq registered[e],
         state = "stopped" => binary = "demo" \/ inflight[e] = {},
         UNCHANGED <<binary, pos, exit, gates, names, registered, indexes, heard, inflight>>,
         failedCalls' \in Nat
  PROVE  ManagersInv'
<1>1. Main' = Main /\ Own' = Own
  BY MainIsFixed
<1>2. ManagersTypes' /\ GatesAreSettled'
  BY <1>1 DEF ManagersInv, ManagersTypes, GatesAreSettled
<1>3. DoneIsRegistered' /\ NamesAreOfDone' /\ TopologyIsIndexed'
  <2>1. \A op, f : Registers(op, f)' = Registers(op, f)
    BY PartsAreFixed
  <2> QED
    BY <1>1, <2>1 DEF ManagersInv, DoneIsRegistered, NamesAreOfDone, TopologyIsIndexed
<1>4. RunningIsWhole' /\ HeardIsWhole' /\ StoppedIsDrained'
  <2>1. \A f \in Exports : mgr'[f] = IF f = e THEN state ELSE mgr[f]
    BY DEF ManagersInv, ManagersTypes
  <2>2. \A f : Components(f)' = Components(f)
    BY DEF Components, Controllers, CoreControllers
  <2>3. RunningIsWhole' /\ HeardIsWhole'
    BY <2>1, <2>2 DEF ManagersInv, RunningIsWhole, HeardIsWhole
  <2>4. StoppedIsDrained'
    BY <2>1 DEF ManagersInv, StoppedIsDrained
  <2> QED
    BY <2>3, <2>4
<1>5. CleanExitIsDrained'
  BY <1>1 DEF ManagersInv, CleanExitIsDrained
<1> QED
  BY <1>2, <1>3, <1>4, <1>5 DEF ManagersInv

LEMMA GoStartKeeps == ManagersInv /\ GoStart => ManagersInv'
<1> SUFFICES ASSUME ManagersInv, GoStart PROVE ManagersInv'
  OBVIOUS
<1>1. Main' = Main /\ Own' = Own
  BY MainIsFixed DEF GoStart, env
<1>2. /\ pos' \in 0 .. Len(Main) /\ exit' = "running" /\ pos' > 1
      /\ "ClusterTopology" \in gates /\ DoneIsRegistered' /\ NamesAreOfDone'
  BY ContinueKeeps DEF GoStart, At, Alive, env
<1>3. /\ pos \in 1 .. Len(Main) /\ Len(Main) \in Nat /\ pos' = pos + 1
      /\ Main[pos][1] = "go"
  BY WhereMainIs DEF GoStart, At, Alive, Proceed
<1>4. Here \in Exports /\ Components(Here) \subseteq registered[Here]
  BY <1>3, WholeBeforeStart
<1>5. /\ mgr' = [mgr EXCEPT ![Here] = "starting"]
      /\ UNCHANGED <<binary, gates, names, registered, indexes, heard, inflight, failedCalls>>
  BY DEF GoStart, env
<1>6. \A f \in Exports : mgr'[f] = IF f = Here THEN "starting" ELSE mgr[f]
  BY <1>4, <1>5 DEF ManagersInv, ManagersTypes
<1>7. ManagersTypes' /\ GatesAreSettled'
  <2>1. mgr' \in [Exports -> {"none", "built", "starting", "started", "stopped"}]
    BY <1>5 DEF ManagersInv, ManagersTypes
  <2> QED
    BY <1>1, <1>2, <1>5, <2>1 DEF ManagersInv, ManagersTypes, GatesAreSettled
<1>8. RunningIsWhole' /\ HeardIsWhole'
  <2>1. \A f : Components(f)' = Components(f)
    BY <1>5 DEF Components, Controllers, CoreControllers
  <2> QED
    BY <1>4, <1>5, <1>6, <2>1 DEF ManagersInv, RunningIsWhole, HeardIsWhole
<1>9. StoppedIsDrained' /\ CleanExitIsDrained'
  BY <1>2, <1>5, <1>6 DEF ManagersInv, StoppedIsDrained, CleanExitIsDrained
<1>10. TopologyIsIndexed'
  BY <1>1, <1>3, <1>5 DEF ManagersInv, TopologyIsIndexed
<1> QED
  BY <1>2, <1>7, <1>8, <1>9, <1>10 DEF ManagersInv

LEMMA StartInMainKeeps == ManagersInv /\ StartInMain => ManagersInv'
<1> SUFFICES ASSUME ManagersInv, StartInMain PROVE ManagersInv'
  OBVIOUS
<1>1. /\ pos > 0 /\ pos # 1 /\ Main[pos][1] = "start" /\ failedCalls \in Nat /\ failedCalls' = failedCalls
      /\ UNCHANGED <<binary, gates, names, registered, indexes, heard, inflight>>
  BY WhereMainIs DEF StartInMain, At, Alive, ManagersInv, ManagersTypes, env
<1>2. Here \in Exports /\ Components(Here) \subseteq registered[Here]
  BY <1>1, WholeBeforeStart
<1>3. CASE mgr' = [mgr EXCEPT ![Here] = "starting"] /\ UNCHANGED <<pos, exit>>
  BY <1>1, <1>2, <1>3, MoveKeeps
<1>4. CASE mgr[Here] = "stopped" /\ Exit("clean") /\ UNCHANGED mgr
  <2>1. binary \in InMain => \A e \in Own : e = Here
    <3>1. pos \in 1 .. Len(Main)
      BY <1>1, WhereMainIs
    <3>2. binary \in InMain => Here = binary /\ Own \subseteq {binary}
      BY <1>1, <3>1, InOrder, OwnExports DEF MainInOrder, RunsItsManager, Here
    <3> QED
      BY <3>2
  <2>2. binary \in InMain => \A e \in Own : inflight[e] = {}
    BY <1>2, <1>4, <2>1 DEF ManagersInv, StoppedIsDrained, InMain
  <2> QED
    BY <1>1, <1>4, <2>2, EndKeeps DEF Exit
<1> QED
  BY <1>3, <1>4 DEF StartInMain

\* A manager's goroutines run while its main is past the first step.
LEMMA RunsLater ==
  ASSUME ManagersInv, NEW e \in Exports, mgr[e] # "none"
  PROVE  pos # 1
BY DEF ManagersInv, GatesAreSettled, NoManagers

LEMMA StartedKeeps == \A e \in Exports : ManagersInv /\ (Started(e) \/ Stopped(e)) => ManagersInv'
<1> SUFFICES ASSUME NEW e \in Exports, ManagersInv, Started(e) \/ Stopped(e) PROVE ManagersInv'
  OBVIOUS
<1>1. /\ mgr[e] \in {"starting", "started"} /\ failedCalls' \in Nat
      /\ UNCHANGED <<binary, pos, exit, gates, names, registered, indexes, heard, inflight>>
  BY DEF Started, Stopped, ManagersInv, ManagersTypes, env
<1>2. pos # 1 /\ Components(e) \subseteq registered[e]
  BY <1>1, RunsLater DEF ManagersInv, RunningIsWhole
<1>3. CASE Started(e)
  BY <1>1, <1>2, <1>3, MoveKeeps DEF Started
<1>4. CASE Stopped(e)
  BY <1>1, <1>2, <1>4, MoveKeeps DEF Stopped
<1> QED
  BY <1>3, <1>4

\* What a step that changes neither main nor what is registered leaves alone.
LEMMA AsideKeeps ==
  ASSUME ManagersInv, failedCalls' \in Nat,
         UNCHANGED <<binary, pos, exit, gates, names, mgr, registered, indexes>>
  PROVE  /\ Main' = Main /\ Own' = Own
         /\ DoneIsRegistered' /\ NamesAreOfDone' /\ TopologyIsIndexed' /\ RunningIsWhole'
         /\ \A f : Components(f)' = Components(f)
         /\ UNCHANGED heard => GatesAreSettled' /\ HeardIsWhole'
         /\ UNCHANGED inflight => StoppedIsDrained' /\ CleanExitIsDrained'
         /\ /\ heard' \in [Exports -> [Consumers -> SUBSET Parts]]
            /\ inflight' \in [Exports -> SUBSET Consumers]
            => ManagersTypes'
<1>1. Main' = Main /\ Own' = Own
  BY MainIsFixed
<1>2. DoneIsRegistered' /\ NamesAreOfDone' /\ TopologyIsIndexed'
  <2>1. \A op, f : Registers(op, f)' = Registers(op, f)
    BY PartsAreFixed
  <2> QED
    BY <1>1, <2>1 DEF ManagersInv, DoneIsRegistered, NamesAreOfDone, TopologyIsIndexed
<1>3. \A f : Components(f)' = Components(f)
  BY DEF Components, Controllers, CoreControllers
<1>4. RunningIsWhole'
  BY <1>3 DEF ManagersInv, RunningIsWhole
<1>5. UNCHANGED heard => GatesAreSettled' /\ HeardIsWhole'
  BY <1>3 DEF ManagersInv, GatesAreSettled, HeardIsWhole
<1>6. UNCHANGED inflight => StoppedIsDrained' /\ CleanExitIsDrained'
  BY <1>1 DEF ManagersInv, StoppedIsDrained, CleanExitIsDrained
<1>7. /\ heard' \in [Exports -> [Consumers -> SUBSET Parts]]
      /\ inflight' \in [Exports -> SUBSET Consumers]
      => ManagersTypes'
  BY <1>1 DEF ManagersInv, ManagersTypes
<1> QED
  BY <1>1, <1>2, <1>3, <1>4, <1>5, <1>6, <1>7

LEMMA EngageKeeps == \A e \in Exports, w \in Consumers : ManagersInv /\ Engage(e, w) => ManagersInv'
<1> SUFFICES ASSUME NEW e \in Exports, NEW w \in Consumers, ManagersInv, Engage(e, w)
             PROVE  ManagersInv'
  OBVIOUS
<1>1. /\ UNCHANGED <<binary, pos, exit, gates, names, mgr, registered, indexes, inflight>>
      /\ mgr[e] = "started" /\ heard' = [heard EXCEPT ![e][w] = registered[e]]
      /\ failedCalls' \in Nat
  BY DEF Engage, env, ManagersInv, ManagersTypes
<1>2. /\ heard \in [Exports -> [Consumers -> SUBSET Parts]] /\ registered[e] \subseteq Parts
      /\ inflight' \in [Exports -> SUBSET Consumers]
  BY <1>1 DEF ManagersInv, ManagersTypes
<1>3. heard' \in [Exports -> [Consumers -> SUBSET Parts]]
  BY <1>1, <1>2
<1>4. GatesAreSettled'
  BY <1>1, RunsLater DEF ManagersInv, GatesAreSettled
<1>5. HeardIsWhole'
  <2>1. \A f \in Exports, v \in Consumers :
          heard'[f][v] = IF f = e /\ v = w THEN registered[e] ELSE heard[f][v]
    BY <1>1, <1>2
  <2>2. Components(e) \subseteq registered[e]
    BY <1>1 DEF ManagersInv, RunningIsWhole
  <2>3. \A f : Components(f)' = Components(f)
    BY <1>1, AsideKeeps
  <2> QED
    BY <2>1, <2>2, <2>3 DEF ManagersInv, HeardIsWhole
<1> QED
  BY <1>1, <1>2, <1>3, <1>4, <1>5, AsideKeeps DEF ManagersInv

LEMMA ReconcileKeeps ==
  \A e \in Exports, w \in Consumers :
    ManagersInv /\ (BeginReconcile(e, w) \/ EndReconcile(e, w)) => ManagersInv'
<1> SUFFICES ASSUME NEW e \in Exports, NEW w \in Consumers, ManagersInv,
                    BeginReconcile(e, w) \/ EndReconcile(e, w)
             PROVE  ManagersInv'
  OBVIOUS
<1>1. /\ UNCHANGED <<binary, pos, exit, gates, names, mgr, registered, indexes, heard>>
      /\ failedCalls' \in Nat /\ pos > 0 /\ exit = "running"
  BY DEF BeginReconcile, EndReconcile, env, ManagersInv, ManagersTypes, Alive
<1>2. inflight \in [Exports -> SUBSET Consumers] /\ heard' \in [Exports -> [Consumers -> SUBSET Parts]]
  BY <1>1 DEF ManagersInv, ManagersTypes
<1>3. /\ inflight' \in [Exports -> SUBSET Consumers]
      /\ \A f \in Exports : /\ f # e => inflight'[f] = inflight[f]
                            /\ mgr[f] # "started" => inflight'[f] \subseteq inflight[f]
  BY <1>2 DEF BeginReconcile, EndReconcile
<1>4. StoppedIsDrained'
  BY <1>1, <1>3 DEF ManagersInv, StoppedIsDrained
<1>5. CleanExitIsDrained'
  BY <1>1 DEF CleanExitIsDrained
<1> QED
  BY <1>1, <1>2, <1>3, <1>4, <1>5, AsideKeeps DEF ManagersInv

LEMMA FailsKeeps == ManagersInv /\ Fails => ManagersInv'
<1> SUFFICES ASSUME ManagersInv, Fails PROVE ManagersInv'
  OBVIOUS
<1>1. /\ UNCHANGED <<binary, gates, names, registered, indexes, heard, inflight>>
      /\ failedCalls' \in Nat
  BY DEF Fails, env, ManagersInv, ManagersTypes
<1>2. CASE Exit("error") /\ UNCHANGED mgr
  BY <1>1, <1>2, EndKeeps DEF Exit
<1>3. CASE /\ binary = "demo" /\ UNCHANGED <<pos, exit>>
           /\ \E e \in Exports : /\ mgr[e] \in {"starting", "started"}
                                 /\ mgr' = [mgr EXCEPT ![e] = "stopped"]
  <2>1. PICK e \in Exports : /\ mgr[e] \in {"starting", "started"}
                             /\ mgr' = [mgr EXCEPT ![e] = "stopped"]
    BY <1>3
  <2>2. pos # 1 /\ Components(e) \subseteq registered[e]
    BY <2>1, RunsLater DEF ManagersInv, RunningIsWhole
  <2> QED
    BY <1>1, <1>3, <2>1, <2>2, MoveKeeps
<1> QED
  BY <1>2, <1>3 DEF Fails

LEMMA OutsideKeeps == ManagersInv /\ (Tenant \/ Signal \/ UNCHANGED managersVars) => ManagersInv'
<1> SUFFICES ASSUME ManagersInv, Tenant \/ Signal \/ UNCHANGED managersVars PROVE ManagersInv'
  OBVIOUS
<1>1. UNCHANGED <<binary, pos, exit, gates, names, mgr, registered, indexes, heard, inflight, failedCalls>>
  BY DEF Tenant, Bind, Signal, managersVars, env, process
<1>2. /\ failedCalls' \in Nat /\ heard' \in [Exports -> [Consumers -> SUBSET Parts]]
      /\ inflight' \in [Exports -> SUBSET Consumers]
  BY <1>1 DEF ManagersInv, ManagersTypes
<1> QED
  BY <1>1, <1>2, AsideKeeps DEF ManagersInv

LEMMA BeginningHolds ==
  ASSUME binary \in Binaries, pos = 1, exit = "running", names = {}, mgr = NoManagers,
         heard = NobodyHeard, registered = EmptyPerExport, indexes = EmptyPerExport,
         inflight = EmptyPerExport, failedCalls \in Nat
  PROVE  ManagersInv
<1>1. MainInOrder
  BY ManagersAssumption, OneManagerInOrder, DemoMainInOrder
<1>2. ManagersTypes
  BY <1>1 DEF ManagersTypes, NoManagers, NobodyHeard, EmptyPerExport, MainInOrder, MainIsASequence
<1> QED
  BY <1>2
     DEF ManagersInv, GatesAreSettled, DoneIsRegistered, RunningIsWhole, HeardIsWhole,
         TopologyIsIndexed, NamesAreOfDone, StoppedIsDrained, CleanExitIsDrained,
         NoManagers, NobodyHeard, EmptyPerExport

LEMMA RestartKeeps == ManagersInv /\ Restart => ManagersInv'
<1> SUFFICES ASSUME ManagersInv, Restart PROVE ManagersInv'
  OBVIOUS
<1>1. /\ binary' = binary /\ pos' = 1 /\ exit' = "running" /\ names' = {} /\ mgr' = NoManagers
      /\ heard' = NobodyHeard /\ registered' = EmptyPerExport /\ indexes' = EmptyPerExport
      /\ inflight' = EmptyPerExport /\ failedCalls' \in Nat
  BY DEF Restart, env, ManagersInv, ManagersTypes
<1>2. MainInOrder /\ Main' = Main
  BY <1>1, InOrder, MainIsFixed
<1>3. ManagersTypes'
  BY <1>1, <1>2 DEF ManagersInv, ManagersTypes, NoManagers, NobodyHeard, EmptyPerExport,
                    MainInOrder, MainIsASequence
<1> QED
  BY <1>1, <1>3
     DEF ManagersInv, GatesAreSettled, DoneIsRegistered, RunningIsWhole, HeardIsWhole,
         TopologyIsIndexed, NamesAreOfDone, StoppedIsDrained, CleanExitIsDrained,
         NoManagers, NobodyHeard, EmptyPerExport

LEMMA InitManagers == ManagersInit => ManagersInv
BY ManagersAssumption, BeginningHolds DEF ManagersInit

LEMMA NextManagers == ManagersInv /\ [ManagersNext]_managersVars => ManagersInv'
<1> SUFFICES ASSUME ManagersInv, [ManagersNext]_managersVars PROVE ManagersInv'
  OBVIOUS
<1>1. CASE MainStep
  BY <1>1, QuietStepsKeep, EndStepsKeep, GatesKeep, ProviderKeeps, NewManagerKeeps,
     RegisterStepsKeep, GoStartKeeps, StartInMainKeeps DEF MainStep
<1>2. ASSUME NEW e \in Own, ManagerStep(e) PROVE ManagersInv'
  <2>1. e \in Exports
    BY InOrder, OwnExports
  <2> QED
    BY <1>2, <2>1, StartedKeeps, EngageKeeps, ReconcileKeeps DEF ManagerStep
<1> QED
  BY <1>1, <1>2, FailsKeeps, OutsideKeeps, RestartKeeps DEF ManagersNext

LEMMA ManagersInvariant == ManagersSpec => []ManagersInv
BY InitManagers, NextManagers, PTL DEF ManagersSpec

-----------------------------------------------------------------------------
\* An engagement reaches everything its manager is meant to run, in every binary
\* and in the demo: all of it is registered before the manager starts
\* (providerwiring.go, rule 1 of the lifecycle contract).
THEOREM EngagementsReachAll == ManagersSpec => []NobodyMissed
<1>1. ManagersInv => NobodyMissed
  <2> SUFFICES ASSUME ManagersInv PROVE NobodyMissed
    OBVIOUS
  <2>1. Own \subseteq Exports
    BY InOrder, OwnExports
  <2> QED
    BY <2>1 DEF ManagersInv, HeardIsWhole, NobodyMissed, EngagedBy
<1> QED
  BY <1>1, ManagersInvariant, PTL

\* The provider was told of the index before any controller that lists by it was
\* set up, and of the gate that decides about both before that
\* (internal/coremanager/fleet.go, FleetCacheIndexes).
THEOREM ListsHaveTheirIndex == ManagersSpec => []FieldsAreIndexed
<1>1. ManagersInv => FieldsAreIndexed
  <2> SUFFICES ASSUME ManagersInv PROVE FieldsAreIndexed
    OBVIOUS
  <2>1. Own \subseteq Exports
    BY InOrder, OwnExports
  <2> QED
    BY <2>1 DEF ManagersInv, TopologyIsIndexed, FieldsAreIndexed, ListedFields
<1> QED
  BY <1>1, ManagersInvariant, PTL

\* A main that runs its manager itself ends cleanly only once that manager's
\* reconciles have ended.
THEOREM CleanExitsAreDrained == ManagersSpec => []CleanExitIsDrained
<1>1. ManagersInv => CleanExitIsDrained
  BY DEF ManagersInv
<1> QED
  BY <1>1, ManagersInvariant, PTL

\* Where nothing failed, a step that registers is never what ends a process: the
\* names a deployment's binary registers are new to it, and the demo does not look.
LEMMA NamesAreNew ==
  ASSUME ManagersInv, pos > 0, binary # "demo"
  PROVE  /\ At("fleet") => "clustercache" \notin names
         /\ At("controllers") => Controllers(Here) \cap names = {}
<1>1. pos \in 1 .. Len(Main) /\ (Main[pos][1] = "controllers" => Here \in Exports)
  BY WhereMainIs DEF Here, OfAnExport, Ops
<1>2. ASSUME NEW j \in 1 .. pos - 1, Main[pos][1] \in {"fleet", "controllers"}
      PROVE  Main[j][1] # Main[pos][1]
  <2>1. j \in 1 .. Len(Main) /\ j # pos /\ Len(Main) \in Nat
    BY <1>1, WhereMainIs
  <2> QED
    BY <1>1, <1>2, <2>1, InOrder DEF MainInOrder, OneFleet
<1>3. At("fleet") => "clustercache" \notin names
  BY <1>2 DEF ManagersInv, NamesAreOfDone, At
<1>4. At("controllers") => Controllers(Here) \cap names = {}
  BY <1>1, <1>2, ControllersAreParts DEF ManagersInv, NamesAreOfDone, At
<1> QED
  BY <1>3, <1>4

LEMMA NotRejected ==
  ASSUME ManagersInv, ManagersNext, At("fleet") \/ At("controllers") \/ At("wiring"), failedCalls' = failedCalls
  PROVE  exit' = "running"
<1>1. pos > 0 /\ exit = "running" /\ Main[pos][1] \in {"fleet", "controllers", "wiring"} /\ failedCalls \in Nat
  BY WhereMainIs DEF At, Alive, ManagersInv, ManagersTypes
<1>2. CASE NewFleet
  BY <1>1, <1>2, NamesAreNew DEF NewFleet, Register, SkipsNameValidation, Proceed
<1>3. CASE SetupControllers
  BY <1>1, <1>3, NamesAreNew DEF SetupControllers, Register, SkipsNameValidation, Proceed
<1>4. CASE AddToManager
  BY <1>1, <1>4 DEF AddToManager, Register, Proceed
<1>5. ASSUME NEW e \in Own, ManagerStep(e) PROVE exit' = "running"
  BY <1>1, <1>5 DEF ManagerStep, Started, Stopped, Engage, BeginReconcile, EndReconcile
<1>6. CASE Tenant \/ Signal
  BY <1>1, <1>6 DEF Tenant, Bind, Signal
<1>7. ~Fails /\ ~Restart
  BY <1>1 DEF Fails, Restart
<1>8. CASE MainStep
  BY <1>1, <1>2, <1>3, <1>4, <1>8
     DEF MainStep, SetFeatureGateDefaults, SetupProcessGlobals, NewAPIExportProvider,
         VirtualWorkspaceConfig, EndpointTimesOut, NewManager, NewDevInfrastructure, GoStart,
         StartInMain, Elected, SetupWebhooks, NoWebhooks, WebhookWorkspaceMissing, MainReturns, At
<1> QED
  BY <1>5, <1>6, <1>7, <1>8 DEF ManagersNext

\* No controller is refused for its name: a deployment's binary builds one fleet
\* and sets up its controllers once, and the demo turns the check off.
THEOREM NamesAreAccepted == ManagersSpec => NoNameIsRejected
<1>1. /\ ManagersInv /\ [ManagersNext]_managersVars
      => [(At("fleet") \/ At("controllers") \/ At("wiring")) /\ failedCalls' = failedCalls => exit' = "running"]_managersVars
  BY NotRejected
<1> QED
  BY <1>1, ManagersInvariant, PTL DEF ManagersSpec, NoNameIsRejected
====
