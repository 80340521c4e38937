------------------------------ MODULE MCParts ------------------------------
(***************************************************************************)
(* The components that share no state with another: onboarding, the        *)
(* provider binaries, the Recorder, the shard caches and the measuring and *)
(* verifying tools.  Each behaviour is one of one of them, chosen at       *)
(* first; the others keep one initial state.                               *)
(***************************************************************************)
EXTENDS Onboarding, Managers,
        Telemetry, ShardCaches, Throughput, Settling, Sweep, Traffic, Verify, Progress

CONSTANT MaxExported  \* bound on the two series counters, which only grow

VARIABLE part

Parts ==
  {"onboarding", "managers", "recorder", "shards", "throughput", "settling", "sweep", "traffic",
   "verify", "progress"}

\* The onboarding export serves no Cluster API group, core serves one.
MCGroupOf == [e \in DefaultExports |-> IF e = "core" THEN {"cluster"} ELSE {}]

\* An operator leaves the gates alone or turns one back on.
MCGateFlags == {{}, {"MachinePool"}}

\* Costs of serving 0..4 workspaces: a line, a bend after the second, a step at
\* the peak, and a cost that does not depend on the count.
MCCurves ==
  {[k \in 0..4 |-> costs[k + 1]] :
     costs \in {<<2, 5, 7, 9, 11>>, <<2, 4, 5, 15, 19>>, <<2, 5, 6, 7, 20>>, <<5, 5, 5, 5, 5>>}}

ACurve == CHOOSE c \in MCCurves : c[4] = 11

MCKinds == {<<"g", "things">>, <<"", "configmaps">>}

MCFastSteps == <<"build", "test:unit">>
MCSlowSteps == <<"test:integration:kcp", "test:integration:container-runtime">>
\* One capability more than the code's, so that their order matters.
MCNeedsOf ==
  [s \in ToSet(MCFastSteps \o MCSlowSteps) |->
     IF s = "test:integration:container-runtime" THEN <<"container runtime", "registry">> ELSE <<>>]

partsVars ==
  <<part, onboardingVars, managersVars, vars, shardVars, throughputVars, settlingVars, sweepVars,
    trafficVars, verifyVars, progressVars>>

PartsInit ==
  /\ part \in Parts
  /\ Init /\ OnboardingInit /\ ShardInit /\ ThroughputInit /\ TrafficInit /\ ProgressInit
  /\ ManagersInit /\ (part # "managers" => binary = "bootstrap" /\ webhookFlag = None /\ gateFlag = {})
  /\ SettlingInit /\ (part # "settling" => waitsFor = "start" /\ lag = 0 /\ noise = 0)
  /\ SweepInit /\ (part # "sweep" => curve = ACurve /\ retains = 0)
  /\ VerifyInit /\ (part # "verify" => plan = FastSteps /\ available = {})

Only(p) ==
  /\ part = p /\ UNCHANGED part
  /\ p # "onboarding" => UNCHANGED onboardingVars
  /\ p # "managers"   => UNCHANGED managersVars
  /\ p # "recorder"   => UNCHANGED vars
  /\ p # "shards"     => UNCHANGED shardVars
  /\ p # "throughput" => UNCHANGED throughputVars
  /\ p # "settling"   => UNCHANGED settlingVars
  /\ p # "sweep"      => UNCHANGED sweepVars
  /\ p # "traffic"    => UNCHANGED trafficVars
  /\ p # "verify"     => UNCHANGED verifyVars
  /\ p # "progress"   => UNCHANGED progressVars

\* Failed engagements have books of their own: they fail before any series is
\* exported, or not at all.
RecorderNext ==
  /\ exported <= MaxExported /\ Next
  /\ engagementFailures' = 0 \/ exported' = 0

PartsNext ==
  \/ Only("onboarding") /\ OnboardingNext
  \/ Only("managers") /\ ManagersNext
  \/ Only("recorder") /\ RecorderNext
  \/ Only("shards") /\ ShardNext
  \/ Only("throughput") /\ ThroughputNext
  \/ Only("settling") /\ SettlingNext
  \/ Only("sweep") /\ SweepNext
  \/ Only("traffic") /\ TrafficNext
  \/ Only("verify") /\ VerifyNext
  \/ Only("progress") /\ ProgressNext

\* That of OnboardingFairSpec and ManagersFairSpec, each in its behaviours.
Onboards == part = "onboarding"
Manages == part = "managers"

PartsFairness ==
  /\ WF_onboardingVars(Onboards /\ Kcp)
  /\ WF_onboardingVars(Onboards /\ \E r \in Reconcilers : Works(r))
  /\ WF_managersVars(Manages /\ (MainStep \/ Restart \/ \E e \in Own : Started(e)))
  /\ \A w \in Consumers :
       /\ SF_managersVars(Manages /\ \E e \in Own : Engage(e, w))
       /\ SF_managersVars(Manages /\ \E e \in Own : BeginReconcile(e, w))

PartsSpec == PartsInit /\ [][PartsNext]_partsVars /\ PartsFairness
=============================================================================
