----------------------- MODULE WiringTelemetryProofs -----------------------
(***************************************************************************)
(* Theorems about the wiring with a Recorder: the composition is a wiring  *)
(* and is a Recorder, and what the Recorder holds is for workspaces the    *)
(* wiring serves.  The wiring's invariants are those of WiringProofs.      *)
(***************************************************************************)
EXTENDS WiringTelemetry, WiringProofs

\* The Recorder tracks, and labels, what it counts as engaged and nothing else.
TracksTheEngaged == DOMAIN load = recEngaged /\ labelled \subseteq recEngaged

\* What was recorded too late is still counted: nothing has taken it out.
LateAreCounted ==
  /\ late \subseteq Engagements
  /\ \A e \in late : result[e] = "nil" /\ workspace[e] \in recEngaged

\* Whoever was set up is counted for as long as its workspace is there.
ServedIsCounted ==
  \A e \in Engagements : ctx[e] = "live" /\ result[e] = "nil" => workspace[e] \in recEngaged

-----------------------------------------------------------------------------
(* The steps *)

USE DEF Goto, callVars, groupVars, startVars

\* What the Recorder's methods do to the set it counts, and to what it tracks
\* and labels.
Counts(w) ==
  /\ recEngaged' = recEngaged \cup {w} /\ DOMAIN load' = DOMAIN load \cup {w}
  /\ labelled' = labelled

Forgets(w) ==
  /\ recEngaged' = recEngaged \ {w} /\ DOMAIN load' = DOMAIN load \ {w}
  /\ labelled' = labelled \ {w}

LEMMA RecorderEffects ==
  /\ \A w : Recorder!Engaged(w) => Counts(w)
  /\ \A w : Recorder!Disengaged(w) => Forgets(w)
  /\ \A w, r : Recorder!EngagementFailed(w, r) => UNCHANGED <<recEngaged, load, labelled>>
  /\ Recorder!Snapshot => UNCHANGED <<recEngaged, load>> /\ labelled' \subseteq DOMAIN load
BY DEF Counts, Forgets,
       Recorder!Engaged, Recorder!Disengaged, Recorder!EngagementFailed, Recorder!Snapshot,
       Recorder!WithCount, Recorder!Without, Recorder!Top, Recorder!loadVars,
       Recorder!seriesVars, Recorder!failureVars

\* Recording changes nothing of the wiring.
LEMMA StepIsWiring == [WTNext]_allVars => [Next]_vars
BY DEF WTNext, allVars, Next, RecordedFailure, RecordedEngaged, RecordedRelease, Export

\* Each step of the composition is a call of the Recorder, or none.
LEMMA StepIsRecorder == IInv /\ [WTNext]_allVars => [Recorder!Next]_(Recorder!vars)
<1> SUFFICES ASSUME IInv, [WTNext]_allVars PROVE [Recorder!Next]_(Recorder!vars)
  OBVIOUS
<1> USE DEF IInv, Joined
<1>1. ASSUME NEW e \in Engagements, RecordedFailure(e) PROVE Recorder!Next
  <2>1. workspace[e] \in Workspaces /\ Recorder!EngagementFailed(workspace[e], Reason(e))
    BY <1>1 DEF RecordedFailure, RecordFailure
  <2>2. Reason(e) \in Reasons
    BY WiringTelemetryAssumption DEF Reason
  <2> QED
    BY <2>1, <2>2 DEF Recorder!Next
<1>2. ASSUME NEW e \in Engagements, RecordedEngaged(e) PROVE Recorder!Next
  <2>1. workspace[e] \in Workspaces /\ Recorder!Engaged(workspace[e])
    BY <1>2 DEF RecordedEngaged, RecordEngaged
  <2> QED
    BY <2>1 DEF Recorder!Next
<1>3. ASSUME NEW t \in Threads, RecordedRelease(t) PROVE Recorder!Next
  <2>1. pc[t] = "release" /\ Recorder!Disengaged(workspace[t[2]])
    BY <1>3 DEF RecordedRelease, Release
  <2>2. PICK e \in Engagements : e = t[2] /\ (t = Call(e) \/ t = Watcher(e))
    BY ThreadFacts
  <2>3. workspace[e] \in Workspaces
    BY <2>1, <2>2 DEF HasGroup
  <2>4. Recorder!Disengaged(workspace[e])
    BY <2>1, <2>2
  <2> QED
    BY <2>3, <2>4 DEF Recorder!Next
<1>4. CASE Export
  BY <1>4 DEF Export, Recorder!Next
<1>5. CASE UNCHANGED recorderVars
  BY <1>5 DEF recorderVars, Recorder!vars, Recorder!loadVars, Recorder!seriesVars,
              Recorder!failureVars
<1> QED
  BY <1>1, <1>2, <1>3, <1>4, <1>5 DEF WTNext, allVars

\* The Recorder is told exactly there.
LEMMA Steps ==
  ASSUME [WTNext]_allVars
  PROVE  \/ \E e \in Engagements :
               RecordFailure(e) /\ UNCHANGED <<recEngaged, load, labelled, late>>
         \/ \E e \in Engagements :
               /\ RecordEngaged(e) /\ Counts(workspace[e])
               /\ late' = late \cup {f \in {e} : Told(f)}
         \/ \E t \in Threads :
               /\ Release(t) /\ Forgets(workspace[t[2]])
               /\ late' = {e \in late : workspace[e] # workspace[t[2]]}
         \/ UnrecordedStep /\ UNCHANGED <<recEngaged, load, labelled, late>>
         \/ /\ UNCHANGED <<vars, recEngaged, load, late>>
            /\ labelled' = labelled \/ labelled' \subseteq DOMAIN load
BY RecorderEffects DEF WTNext, allVars, recorderVars, RecordedFailure, RecordedEngaged,
                       RecordedRelease, Export

-----------------------------------------------------------------------------
(* The invariants *)

\* Whoever was recorded keeps its workspace and its result.
LEMMA RecordedStays ==
  ASSUME IInv, Turns, [WTNext]_allVars, NEW e \in Engagements, result[e] = "nil"
  PROVE  result'[e] = "nil" /\ workspace'[e] = workspace[e]
<1> USE DEF IInv, TypeOK, Turns
<1>1. pc[Call(e)] = "returned"
  OBVIOUS
<1>2. \A f \in Engagements, w \in Workspaces : Join(f, w) => f # e
  BY <1>1 DEF Join
<1>3. \A f \in Engagements : EngageAgain(f) \/ RecordFailure(f) => f # e
  BY <1>1 DEF EngageAgain, RecordFailure
<1>4. [Next]_vars
  BY StepIsWiring
<1> QED
  BY <1>2, <1>3, <1>4
     DEF Next, UnrecordedStep, Shutdown, StartStep, StartWaits, StartCollects, StartDrained,
         StartReturns, StartStops, Leave, RunnableReturns, ContextDone, CallStep, EngageAgain,
         EngageNew, GetManager, Add, SetupReturns, Join, RecordFailure, RecordEngaged,
         DisengageStep, Delete, Stop, Wait, Release, vars

LEMMA TracksPreserved ==
  ASSUME TracksTheEngaged, [WTNext]_allVars
  PROVE  TracksTheEngaged'
BY Steps DEF TracksTheEngaged, Counts, Forgets

\* A watcher that has told the Recorder has, for good; and what tells it is its
\* Release.
LEMMA TellsOnce ==
  ASSUME IInv, Turns, [Next]_vars, NEW e \in Engagements, HasGroup(e)
  PROVE  /\ HasGroup(e)'
         /\ Told(e) => Told(e)'
         /\ Told(e)' => Told(e) \/ Release(Watcher(e))
<1> USE DEF IInv, TypeOK, HasGroup, Told
<1>1. ASSUME NEW f \in Engagements, CallStep(f)
      PROVE  pc'[Watcher(e)] = pc[Watcher(e)]
  BY <1>1, ThreadFacts
     DEF CallStep, EngageAgain, EngageNew, GetManager, Add, SetupReturns, Joined
<1>2. ASSUME NEW t \in Threads, DisengageStep(t) \/ Release(t)
      PROVE  /\ HasGroup(e)' /\ (Told(e) => Told(e)')
             /\ Told(e)' => Told(e) \/ Release(Watcher(e))
  <2>1. CASE t = Watcher(e)
    BY <1>2, <2>1, ThreadFacts DEF DisengageStep, Delete, Stop, Wait, Release, AfterDisengage
  <2>2. CASE t # Watcher(e)
    <3>1. pc'[Watcher(e)] = pc[Watcher(e)]
      BY <1>2, <2>2, ThreadFacts DEF DisengageStep, Delete, Stop, Wait, Release
    <3> QED
      BY <3>1
  <2> QED
    BY <2>1, <2>2
<1>3. ASSUME NEW f \in Engagements, ContextDone(f)
      PROVE  /\ HasGroup(e)' /\ (Told(e)' <=> Told(e))
  BY <1>3, ThreadFacts DEF ContextDone
<1>4. ASSUME NEW f \in Engagements, RecordFailure(f) \/ RecordEngaged(f)
      PROVE  pc'[Watcher(e)] = pc[Watcher(e)]
  BY <1>4, ThreadFacts DEF RecordFailure, RecordEngaged
<1>5. ASSUME NEW f \in Engagements, NEW w \in Workspaces, Join(f, w)
      PROVE  pc'[Watcher(e)] = pc[Watcher(e)]
  BY <1>5, ThreadFacts DEF Join
<1>6. CASE UNCHANGED pc
  BY <1>6
<1> QED
  BY <1>1, <1>2, <1>3, <1>4, <1>5, <1>6
     DEF Next, UnrecordedStep, Shutdown, StartStep, StartWaits, StartCollects, StartDrained,
         StartReturns, StartStops, Leave, RunnableReturns, vars

\* Who holds a workspace's place in the Recorder.
HoldsFor(w, e) ==
  workspace[e] = w /\ HasGroup(e) /\ result[e] = "nil" /\ (Told(e) => e \in late)

LEMMA SetupsPreserved ==
  ASSUME IInv, Undone, Turns, TracksTheEngaged, HeldForASetup, [WTNext]_allVars
  PROVE  HeldForASetup'
<1>0. TracksTheEngaged'
  BY TracksPreserved
<1> SUFFICES ASSUME NEW w \in recEngaged' PROVE \E e \in Engagements : HoldsFor(w, e)'
  BY <1>0 DEF HeldForASetup, Held, TracksTheEngaged, HoldsFor
<1>1. ASSUME w \in recEngaged PROVE \E e \in Engagements : HoldsFor(w, e)
  BY <1>1 DEF HeldForASetup, Held, HoldsFor
<1>2. ASSUME NEW f \in Engagements, RecordEngaged(f), Counts(workspace[f]),
             late' = late \cup {g \in {f} : Told(g)}
      PROVE  \E e \in Engagements : HoldsFor(w, e)'
  <2>1. CASE w = workspace[f]
    <3>1. HasGroup(f)
      BY <1>2 DEF RecordEngaged, Goto, Undone
    <3>2. UNCHANGED workspace /\ result'[f] = "nil" /\ pc'[Watcher(f)] = pc[Watcher(f)]
      BY <1>2, ThreadFacts DEF RecordEngaged, IInv, TypeOK
    <3> QED
      BY <1>2, <2>1, <3>1, <3>2 DEF HoldsFor, HasGroup, Told
  <2>2. CASE w # workspace[f]
    <3>1. PICK e \in Engagements : HoldsFor(w, e)
      BY <1>1, <1>2, <2>2 DEF Counts
    <3>2. UNCHANGED workspace /\ e # f
      BY <1>2, <2>2, <3>1 DEF RecordEngaged, HoldsFor
    <3>3. pc'[Watcher(e)] = pc[Watcher(e)] /\ result'[e] = result[e]
      BY <1>2, <3>2, ThreadFacts DEF RecordEngaged, IInv, TypeOK
    <3> QED
      BY <1>2, <3>1, <3>2, <3>3 DEF HoldsFor, HasGroup, Told
  <2> QED
    BY <2>1, <2>2
<1>3. ASSUME NEW t \in Threads, Release(t), Forgets(workspace[t[2]]),
             late' = {e \in late : workspace[e] # workspace[t[2]]}
      PROVE  \E e \in Engagements : HoldsFor(w, e)'
  <2>1. PICK e \in Engagements : HoldsFor(w, e)
    BY <1>1, <1>3 DEF Forgets
  <2>2. w # workspace[t[2]] /\ UNCHANGED <<workspace, result>>
    BY <1>3 DEF Forgets, Release
  <2>3. t # Watcher(e)
    BY <2>1, <2>2, ThreadFacts DEF HoldsFor
  <2>4. pc'[Watcher(e)] = pc[Watcher(e)]
    BY <1>3, <2>3, ThreadFacts DEF Release, IInv, TypeOK
  <2> QED
    BY <1>3, <2>1, <2>2, <2>4 DEF HoldsFor, HasGroup, Told
<1>4. ASSUME UnrecordedStep \/ (\E f \in Engagements : RecordFailure(f)) \/ UNCHANGED vars,
             UNCHANGED <<recEngaged, late>>
      PROVE  \E e \in Engagements : HoldsFor(w, e)'
  <2>1. PICK e \in Engagements : HoldsFor(w, e)
    BY <1>1, <1>4
  <2>2. HasGroup(e)' /\ (Told(e)' => Told(e) \/ Release(Watcher(e)))
    BY <2>1, StepIsWiring, TellsOnce DEF HoldsFor
  <2>3. result'[e] = "nil" /\ workspace'[e] = workspace[e]
    BY <2>1, RecordedStays DEF HoldsFor
  <2>4. Told(e)' => Told(e)
    BY <1>4, <2>1, ThreadFacts
       DEF UnrecordedStep, Shutdown, StartStep, StartWaits, StartCollects, StartDrained,
           StartReturns, StartStops, Leave, RunnableReturns, ContextDone, CallStep, EngageAgain,
           EngageNew, GetManager, Add, SetupReturns, Join, RecordFailure, DisengageStep, Delete,
           Stop, Wait, AfterDisengage, vars, Told, HoldsFor, HasGroup, IInv, TypeOK, Joined
  <2> QED
    BY <1>4, <2>1, <2>2, <2>3, <2>4 DEF HoldsFor
<1> QED
  BY <1>2, <1>3, <1>4, Steps

LEMMA LatePreserved ==
  ASSUME IInv, Turns, LateAreCounted, [WTNext]_allVars
  PROVE  LateAreCounted'
<1>1. \A e \in Engagements : result[e] = "nil" => result'[e] = "nil" /\ workspace'[e] = workspace[e]
  BY RecordedStays
<1>2. ASSUME NEW f \in Engagements, RecordEngaged(f), Counts(workspace[f]),
             late' = late \cup {g \in {f} : Told(g)}
      PROVE  LateAreCounted'
  <2>1. result'[f] = "nil" /\ UNCHANGED workspace
    BY <1>2 DEF RecordEngaged, IInv, TypeOK
  <2> QED
    BY <1>1, <1>2, <2>1 DEF LateAreCounted, Counts
<1>3. ASSUME NEW t \in Threads, Release(t), Forgets(workspace[t[2]]),
             late' = {e \in late : workspace[e] # workspace[t[2]]}
      PROVE  LateAreCounted'
  BY <1>1, <1>3 DEF LateAreCounted, Forgets
<1>4. CASE UNCHANGED <<recEngaged, late>>
  BY <1>1, <1>4 DEF LateAreCounted
<1> QED
  BY <1>2, <1>3, <1>4, Steps

\* What the Recorder is told at the end of one engagement is never about
\* another that its workspace has since.
LEMMA ServedPreserved ==
  ASSUME ~RejoinEarly, InTurn, ServedIsCounted, [WTNext]_allVars
  PROVE  ServedIsCounted'
<1> USE DEF InTurn, IInv, TypeOK, Turns
<1>0. [Next]_vars /\ InTurn'
  BY StepIsWiring, InTurnPreserved
<1> SUFFICES ASSUME NEW e \in Engagements, ctx'[e] = "live", result'[e] = "nil"
             PROVE  workspace'[e] \in recEngaged'
  BY DEF ServedIsCounted
<1>1. ASSUME NEW f \in Engagements, RecordEngaged(f), Counts(workspace[f])
      PROVE  workspace'[e] \in recEngaged'
  BY <1>1 DEF RecordEngaged, Counts, ServedIsCounted
<1>2. ASSUME NEW t \in Threads, Release(t), Forgets(workspace[t[2]])
      PROVE  workspace'[e] \in recEngaged'
  <2>1. UNCHANGED <<workspace, ctx, result>> /\ pc[t] = "release"
    BY <1>2 DEF Release
  <2>2. PICK f \in Engagements : f = t[2] /\ (t = Call(f) \/ t = Watcher(f))
    BY ThreadFacts
  <2>3. f # e /\ ~Over(f) /\ ~Over(e) /\ ctx[f] # "none" /\ ctx[e] # "none"
    BY <2>1, <2>2 DEF Over
  <2>4. workspace[f] # workspace[e]
    BY <2>3 DEF OneAtATime
  <2> QED
    BY <1>2, <2>1, <2>2, <2>4 DEF Forgets, ServedIsCounted
<1>3. ASSUME UnrecordedStep \/ (\E f \in Engagements : RecordFailure(f)) \/ UNCHANGED vars,
             UNCHANGED recEngaged
      PROVE  workspace'[e] \in recEngaged'
  <2>1. HasGroup(e)' /\ pc'[Call(e)] = "returned"
    BY <1>0 DEF KeepsItsPlace
  <2>2. \A w \in Workspaces : ~Join(e, w)
    BY <2>1, ThreadFacts DEF Join
  <2>3. ~EngageAgain(e)
    BY <2>1, ThreadFacts DEF EngageAgain, Joined, HasGroup
  <2>4. ctx[e] = "live" /\ result[e] = "nil" /\ workspace'[e] = workspace[e]
    BY <1>3, <2>2, <2>3
       DEF UnrecordedStep, Shutdown, StartStep, StartWaits, StartCollects, StartDrained,
           StartReturns, StartStops, Leave, RunnableReturns, ContextDone, CallStep, EngageAgain,
           EngageNew, GetManager, Add, SetupReturns, Join, RecordFailure, DisengageStep, Delete,
           Stop, Wait, vars
  <2> QED
    BY <1>3, <2>4 DEF ServedIsCounted
<1> QED
  BY <1>1, <1>2, <1>3, Steps

-----------------------------------------------------------------------------
(* The theorems *)

\* Recording gets in the wiring's way nowhere: the wiring with a Recorder does
\* what the wiring without one may do.
THEOREM RecordingIsTransparent == WTSpec => Spec
<1>1. WTInit => Init
  BY DEF WTInit
<1> QED
  BY <1>1, StepIsWiring, PTL DEF WTSpec, Spec

LEMMA WiringInvariant == WTSpec => [](IInv /\ Turns /\ recEngaged \subseteq Workspaces)
<1> DEFINE J == IInv /\ Turns /\ recEngaged \subseteq Workspaces
<1>1. WTInit => J
  BY InitInvariant, InitInTurn DEF WTInit, InTurn, Recorder!Init
<1>2. J /\ [WTNext]_allVars => J'
  <2> SUFFICES ASSUME J, [WTNext]_allVars PROVE J'
    OBVIOUS
  <2>1. [Next]_vars
    BY StepIsWiring
  <2>2. IInv' /\ Turns'
    BY <2>1, TypePreserved, JoinedPreserved, HomedPreserved, HeldPreserved, OwnerPreserved,
       StoppedPreserved, DrainsPreserved, QuietPreserved, TurnsPreserved DEF IInv
  <2>3. recEngaged' \subseteq Workspaces
    <3>1. ASSUME NEW f \in Engagements, RecordEngaged(f) PROVE workspace[f] \in Workspaces
      BY <3>1 DEF RecordEngaged, IInv, Joined
    <3> QED
      BY <3>1, Steps DEF Counts, Forgets
  <2> QED
    BY <2>2, <2>3
<1> QED
  BY <1>1, <1>2, PTL DEF WTSpec

\* The wiring calls the Recorder as the Recorder expects: every behaviour of the
\* composition is one of Telemetry's, so what is proved of the Recorder holds of
\* it here.
THEOREM WiringUsesRecorder == WTSpec => Recorder!Spec
<1>1. WTInit => Recorder!Init
  BY DEF WTInit
<1> QED
  BY <1>1, WiringInvariant, StepIsRecorder, PTL DEF WTSpec, Recorder!Spec

\* Whatever the provider does, whatever the Recorder holds for a workspace it
\* holds on account of a setup that succeeded, and of whose end its watcher has
\* not told it, or had told it before the setup was recorded.
THEOREM ChurnLeavesLateSetups == WTSpec => []HeldForASetup
<1> DEFINE J == Undone /\ TracksTheEngaged /\ HeldForASetup
<1>1. WTInit => J
  BY InitInTurn
     DEF WTInit, Recorder!Init, InTurn, TracksTheEngaged, HeldForASetup, Held
<1>2. J /\ IInv /\ Turns /\ [WTNext]_allVars => J'
  BY StepIsWiring, UndonePreserved, TracksPreserved, SetupsPreserved
<1> QED
  BY <1>1, <1>2, WiringInvariant, PTL DEF WTSpec

\* With a provider that awaits a disengagement before it engages again, and ends
\* contexts whenever it likes, the count at rest is exact: the workspaces that
\* are wired and there, and those whose setup was recorded after their end.
THEOREM CountIsExact == ~RejoinEarly => (WTSpec => []CountIsOfTheServed)
<1> SUFFICES ASSUME ~RejoinEarly PROVE WTSpec => []CountIsOfTheServed
  OBVIOUS
<1> DEFINE J == InTurn /\ TracksTheEngaged /\ HeldForASetup /\ LateAreCounted /\ ServedIsCounted
<1>1. WTInit => J
  BY InitInTurn
     DEF WTInit, Init, Recorder!Init, TracksTheEngaged, HeldForASetup, Held, LateAreCounted,
         ServedIsCounted
<1>2. J /\ [WTNext]_allVars => J'
  BY StepIsWiring, InTurnPreserved, TracksPreserved, SetupsPreserved, LatePreserved,
     ServedPreserved DEF InTurn
<1>3. J => CountIsOfTheServed
  <2> SUFFICES ASSUME J, Quiet PROVE recEngaged = Served \cup {workspace[e] : e \in late}
    BY DEF CountIsOfTheServed
  <2>1. ASSUME NEW w \in Served PROVE w \in recEngaged
    <3>0. w \in Workspaces /\ engaged[w] # None /\ ctx[engaged[w]] = "live"
      BY <2>1 DEF Served
    <3>1. PICK e \in Engagements : e = engaged[w] /\ workspace[e] = w
      BY <3>0 DEF InTurn, IInv, TypeOK, Homed
    <3>2. HasGroup(e) /\ ~Failed(e)
      BY <3>0, <3>1 DEF InTurn, IInv, OneOwner, Registered, Undone
    <3>3. pc[Call(e)] = "returned" /\ result[e] = "nil"
      BY <3>0, <3>1, <3>2 DEF InTurn, IInv, Joined, TypeOK, Quiet, Settled, Failed, Turns
    <3> QED
      BY <3>0, <3>1, <3>3 DEF ServedIsCounted
  <2>2. ASSUME NEW w \in recEngaged PROVE w \in Served \cup {workspace[e] : e \in late}
    <3>1. PICK e \in Engagements : HoldsFor(w, e)
      BY <2>2 DEF HeldForASetup, Held, HoldsFor
    <3>2. CASE e \in late
      BY <3>1, <3>2 DEF HoldsFor
    <3>3. CASE e \notin late
      <4>1. pc[Watcher(e)] = "armed" /\ ctx[e] # "done"
        BY <3>1, <3>3 DEF HoldsFor, Told, HasGroup, Quiet, Settled
      <4>2. ctx[e] = "live" /\ workspace[e] = w /\ w \in Workspaces
        BY <3>1, <4>1, ThreadFacts DEF HoldsFor, InTurn, IInv, TypeOK, Turns, Joined
      <4>3. engaged[w] = e
        BY <3>1, <4>2 DEF HoldsFor, InTurn, KeepsItsPlace
      <4> QED
        BY <4>2, <4>3, WiringAssumption DEF Served
    <3> QED
      BY <3>2, <3>3
  <2>3. {workspace[e] : e \in late} \subseteq recEngaged
    BY DEF LateAreCounted
  <2> QED
    BY <2>1, <2>2, <2>3
<1> QED
  BY <1>1, <1>2, <1>3, PTL DEF WTSpec

=============================================================================
