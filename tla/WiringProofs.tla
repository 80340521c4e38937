---------------------------- MODULE WiringProofs ----------------------------
(***************************************************************************)
(* Theorems about Wiring, for any set of engagements and workspaces and    *)
(* whatever the provider does; the last ones, and that Wiring implements   *)
(* Service, with a provider that waits for a disengagement.                *)
(***************************************************************************)
EXTENDS Wiring, TLAPS

\* The parts of the inductive invariant, each a fact about one hand-over.

\* A call has created its group only after it looked at the map; by then it
\* knows its workspace.
Joined ==
  \A e \in Engagements :
    /\ HasGroup(e) => pc[Call(e)] \notin {"idle", "enter"}
    /\ pc[Call(e)] # "idle" => workspace[e] \in Workspaces

\* A group is registered for its own workspace only.
Homed == \A w \in Workspaces : engaged[w] # None => workspace[engaged[w]] = w

\* A thread holds a group from its Delete on, and stops only what it holds.
HeldFromDelete ==
  \A t \in Threads :
    /\ held[t] # None => pc[t] \in {"release", "stop", "wait", "returned", "done"}
    /\ pc[t] \in {"stop", "wait"} => held[t] # None

\* Only an owner on its way out stops a group: a registered one is not stopped.
StoppedByOwner ==
  /\ \A g \in stopped : Taken(g) \/ g \in collected
  /\ \A t \in Threads :
       held[t] # None /\ pc[t] \in {"wait", "returned", "done"} => held[t] \in stopped

\* Start has drained every group it stopped, except while it is draining one.
StartDrains ==
  /\ startPc \in {"idle", "waiting"} => collected = {}
  /\ startPc \in {"stopping", "returned"} =>
       \A g \in collected \cap stopped : running[g] = 0
  /\ startPc = "returned" => collected \subseteq stopped

IInv ==
  /\ TypeOK /\ Joined /\ Homed /\ OneOwner /\ HeldFromDelete
  /\ StoppedByOwner /\ StartDrains /\ StopMeansQuiet

-----------------------------------------------------------------------------

\* The two threads of an engagement, and every thread is one of them.
LEMMA ThreadFacts ==
  /\ \A e \in Engagements :
       /\ Call(e) \in Threads /\ Watcher(e) \in Threads
       /\ Call(e)[1] = "call" /\ Watcher(e)[1] = "watcher"
       /\ Call(e)[2] = e /\ Watcher(e)[2] = e
  /\ \A e, f \in Engagements :
       /\ Call(e) # Watcher(f)
       /\ Call(e) = Call(f) => e = f
       /\ Watcher(e) = Watcher(f) => e = f
  /\ \A t \in Threads :
       /\ t[2] \in Engagements
       /\ \/ t[1] = "call" /\ t = Call(t[2])
          \/ t[1] = "watcher" /\ t = Watcher(t[2])
BY DEF Threads, Call, Watcher

USE DEF Goto, callVars, groupVars, startVars

\* Type correctness is preserved by every step from a state of the invariant:
\* what Delete and Stop write is a group because of Joined and HeldFromDelete.
LEMMA TypePreserved ==
  ASSUME IInv, [Next]_vars
  PROVE  TypeOK'
<1> USE DEF TypeOK, CallPc, WatcherPc, StartPc, Disengaging, IInv
<1>1. CASE Shutdown
  BY <1>1 DEF Shutdown
<1>2. CASE StartStep
  <2>1. CASE StartWaits \/ StartDrained \/ StartReturns
    BY <2>1 DEF StartWaits, StartDrained, StartReturns
  <2>2. CASE StartCollects
    BY <2>2 DEF StartCollects
  <2>3. ASSUME NEW g \in Engagements, StartStops(g) PROVE TypeOK'
    BY <2>3 DEF StartStops
  <2>4. QED
    BY <1>2, <2>1, <2>2, <2>3 DEF StartStep
<1>3. ASSUME NEW e \in Engagements, Leave(e) \/ ContextDone(e) \/ RunnableReturns(e)
      PROVE TypeOK'
  BY <1>3 DEF Leave, ContextDone, RunnableReturns
<1>4. ASSUME NEW e \in Engagements, CallStep(e) PROVE TypeOK'
  BY <1>4 DEF CallStep, EngageAgain, EngageNew, GetManager, Add, SetupReturns
<1>5. ASSUME NEW e \in Engagements, NEW w \in Workspaces, Join(e, w) PROVE TypeOK'
  BY <1>5 DEF Join
<1>6. ASSUME NEW e \in Engagements, RecordFailure(e) \/ RecordEngaged(e) PROVE TypeOK'
  BY <1>6 DEF RecordFailure, RecordEngaged
<1>7. ASSUME NEW t \in Threads, DisengageStep(t) PROVE TypeOK'
  <2>1. CASE Delete(t)
    <3>1. workspace[t[2]] \in Workspaces
      BY <2>1, ThreadFacts DEF Delete, Joined, HasGroup
    <3>2. QED
      BY <2>1, <3>1 DEF Delete
  <2>2. CASE Stop(t)
    BY <2>2 DEF Stop, HeldFromDelete
  <2>3. CASE Wait(t)
    BY <2>3 DEF Wait, AfterDisengage
  <2>4. QED
    BY <1>7, <2>1, <2>2, <2>3 DEF DisengageStep
<1>8. ASSUME NEW t \in Threads, Release(t) PROVE TypeOK'
  BY <1>8 DEF Release, AfterDisengage
<1>9. CASE UNCHANGED vars
  BY <1>9 DEF vars
<1>10. QED
  BY <1>1, <1>2, <1>3, <1>4, <1>5, <1>6, <1>7, <1>8, <1>9 DEF Next, UnrecordedStep

LEMMA InitInvariant == Init => IInv
<1> SUFFICES ASSUME Init PROVE IInv
  OBVIOUS
<1> USE DEF Init
<1>1. TypeOK
  <2>1. pc \in [Threads -> CallPc \cup WatcherPc \cup Disengaging]
    BY DEF CallPc, WatcherPc
  <2>2. held \in [Threads -> Engagements \cup {None}]
    OBVIOUS
  <2>3. QED
    BY <2>1, <2>2 DEF TypeOK, StartPc
<1>2. \A e \in Engagements : pc[Call(e)] = "idle" /\ pc[Watcher(e)] = "none"
  BY ThreadFacts
<1>3. Joined
  BY <1>2 DEF Joined, HasGroup
<1>4. OneOwner
  BY <1>2, WiringAssumption DEF OneOwner, HasGroup, Registered, Taken
<1>5. HeldFromDelete
  BY DEF HeldFromDelete
<1>6. QED
  BY <1>1, <1>3, <1>4, <1>5 DEF IInv, Homed, StoppedByOwner, StartDrains, StopMeansQuiet

\* A call learns its workspace before it leaves "idle", and spawns the watcher
\* no earlier than it leaves "enter".
LEMMA JoinedPreserved ==
  ASSUME IInv, [Next]_vars
  PROVE  Joined'
<1> USE DEF IInv, TypeOK, Joined, HasGroup
<1>1. CASE Shutdown
  BY <1>1 DEF Shutdown
<1>2. CASE StartStep
  BY <1>2 DEF StartStep, StartWaits, StartCollects, StartDrained, StartReturns, StartStops
<1>3. ASSUME NEW e \in Engagements, Leave(e) \/ RunnableReturns(e)
      PROVE Joined'
  BY <1>3 DEF Leave, RunnableReturns
<1>4. ASSUME NEW e \in Engagements, ContextDone(e) PROVE Joined'
  BY <1>4, ThreadFacts DEF ContextDone
<1>5. ASSUME NEW e \in Engagements, CallStep(e) PROVE Joined'
  BY <1>5, ThreadFacts DEF CallStep, EngageAgain, EngageNew, GetManager, Add, SetupReturns
<1>6. ASSUME NEW e \in Engagements, NEW w \in Workspaces, Join(e, w) PROVE Joined'
  BY <1>6, ThreadFacts DEF Join
<1>7. ASSUME NEW e \in Engagements, RecordFailure(e) \/ RecordEngaged(e)
      PROVE Joined'
  BY <1>7, ThreadFacts DEF RecordFailure, RecordEngaged
<1>8. ASSUME NEW t \in Threads, DisengageStep(t) PROVE Joined'
  BY <1>8, ThreadFacts DEF DisengageStep, Delete, Stop, Wait, AfterDisengage
<1>9. ASSUME NEW t \in Threads, Release(t) PROVE Joined'
  BY <1>9, ThreadFacts DEF Release, AfterDisengage
<1>10. CASE UNCHANGED vars
  BY <1>10 DEF vars
<1>11. QED
  BY <1>1, <1>2, <1>3, <1>4, <1>5, <1>6, <1>7, <1>8, <1>9, <1>10 DEF Next, UnrecordedStep

\* EngageNew is the only step that registers, and it registers under the
\* workspace of the engagement, which never changes again.
LEMMA HomedPreserved ==
  ASSUME IInv, [Next]_vars
  PROVE  Homed'
<1> USE DEF IInv, TypeOK, Homed, Joined, HasGroup, OneOwner, Registered
<1>1. CASE Shutdown
  BY <1>1 DEF Shutdown
<1>2. CASE StartStep
  BY <1>2 DEF StartStep, StartWaits, StartCollects, StartDrained, StartReturns, StartStops
<1>3. ASSUME NEW e \in Engagements, Leave(e) \/ RunnableReturns(e)
      PROVE Homed'
  BY <1>3 DEF Leave, RunnableReturns
<1>4. ASSUME NEW e \in Engagements, ContextDone(e) PROVE Homed'
  BY <1>4, ThreadFacts DEF ContextDone
<1>5. ASSUME NEW e \in Engagements, CallStep(e) PROVE Homed'
  BY <1>5, ThreadFacts DEF CallStep, EngageAgain, EngageNew, GetManager, Add, SetupReturns
<1>6. ASSUME NEW e \in Engagements, NEW w \in Workspaces, Join(e, w) PROVE Homed'
  BY <1>6, ThreadFacts DEF Join
<1>7. ASSUME NEW e \in Engagements, RecordFailure(e) \/ RecordEngaged(e)
      PROVE Homed'
  BY <1>7, ThreadFacts DEF RecordFailure, RecordEngaged
<1>8. ASSUME NEW t \in Threads, DisengageStep(t) PROVE Homed'
  BY <1>8, ThreadFacts DEF DisengageStep, Delete, Stop, Wait, AfterDisengage
<1>9. ASSUME NEW t \in Threads, Release(t) PROVE Homed'
  BY <1>9, ThreadFacts DEF Release, AfterDisengage
<1>10. CASE UNCHANGED vars
  BY <1>10 DEF vars
<1>11. QED
  BY <1>1, <1>2, <1>3, <1>4, <1>5, <1>6, <1>7, <1>8, <1>9, <1>10 DEF Next, UnrecordedStep

\* Delete takes a group; no later step of the same thread takes another.
LEMMA HeldPreserved ==
  ASSUME IInv, [Next]_vars
  PROVE  HeldFromDelete'
<1> USE DEF IInv, TypeOK, HeldFromDelete, Joined, HasGroup
<1>1. CASE Shutdown
  BY <1>1 DEF Shutdown
<1>2. CASE StartStep
  BY <1>2 DEF StartStep, StartWaits, StartCollects, StartDrained, StartReturns, StartStops
<1>3. ASSUME NEW e \in Engagements, Leave(e) \/ RunnableReturns(e)
      PROVE HeldFromDelete'
  BY <1>3 DEF Leave, RunnableReturns
<1>4. ASSUME NEW e \in Engagements, ContextDone(e) PROVE HeldFromDelete'
  BY <1>4, ThreadFacts DEF ContextDone
<1>5. ASSUME NEW e \in Engagements, CallStep(e) PROVE HeldFromDelete'
  BY <1>5, ThreadFacts DEF CallStep, EngageAgain, EngageNew, GetManager, Add, SetupReturns
<1>6. ASSUME NEW e \in Engagements, NEW w \in Workspaces, Join(e, w) PROVE HeldFromDelete'
  BY <1>6, ThreadFacts DEF Join
<1>7. ASSUME NEW e \in Engagements, RecordFailure(e) \/ RecordEngaged(e)
      PROVE HeldFromDelete'
  BY <1>7, ThreadFacts DEF RecordFailure, RecordEngaged
<1>8. ASSUME NEW t \in Threads, DisengageStep(t) PROVE HeldFromDelete'
  BY <1>8, ThreadFacts DEF DisengageStep, Delete, Stop, Wait, AfterDisengage
<1>9. ASSUME NEW t \in Threads, Release(t) PROVE HeldFromDelete'
  BY <1>9, ThreadFacts DEF Release, AfterDisengage
<1>10. CASE UNCHANGED vars
  BY <1>10 DEF vars
<1>11. QED
  BY <1>1, <1>2, <1>3, <1>4, <1>5, <1>6, <1>7, <1>8, <1>9, <1>10 DEF Next, UnrecordedStep

\* Ownership passes from the map to a thread or to Start, and is never shared.
LEMMA OwnerPreserved ==
  ASSUME IInv, [Next]_vars
  PROVE  OneOwner'
\* A step that moves no group and spawns no watcher leaves the owners as they are.
<1>0. ASSUME UNCHANGED <<held, engaged, collected>>,
             \A g \in Engagements : HasGroup(g)' <=> HasGroup(g)
      PROVE  OneOwner'
  <2>1. \A g \in Engagements :
          (Registered(g)' <=> Registered(g)) /\ (Taken(g)' <=> Taken(g))
    BY <1>0 DEF Registered, Taken
  <2> QED
    BY <1>0, <2>1 DEF IInv, OneOwner
<1> USE DEF IInv, TypeOK, OneOwner, HasGroup, Registered, Taken, Joined, HeldFromDelete, Homed
<1>1. CASE Shutdown
  BY <1>1 DEF Shutdown
<1>2. CASE StartStep
  <2>1. CASE StartCollects
    <3>1. collected = {} /\ collected' = {engaged[w] : w \in Workspaces} \ {None}
      BY <2>1 DEF StartCollects, StartDrains
    <3>2. \A g \in Engagements : (g \in collected)' <=> Registered(g)
      BY <3>1, WiringAssumption
    <3>3. \A g \in Engagements :
            /\ ~Registered(g)' /\ (Taken(g)' <=> Taken(g)) /\ (HasGroup(g)' <=> HasGroup(g))
      BY <2>1, WiringAssumption DEF StartCollects
    <3>4. QED
      BY <3>1, <3>2, <3>3, <2>1, WiringAssumption DEF StartCollects
  <2>2. CASE StartWaits \/ StartDrained \/ StartReturns
    BY <2>2 DEF StartWaits, StartDrained, StartReturns
  <2>3. ASSUME NEW g \in Engagements, StartStops(g) PROVE OneOwner'
    BY <2>3 DEF StartStops
  <2>4. QED
    BY <1>2, <2>1, <2>2, <2>3 DEF StartStep
<1>3. ASSUME NEW e \in Engagements, Leave(e) \/ RunnableReturns(e)
      PROVE OneOwner'
  BY <1>3 DEF Leave, RunnableReturns
<1>4. ASSUME NEW e \in Engagements, ContextDone(e) PROVE OneOwner'
  <2>1. UNCHANGED <<held, engaged, collected>>
    BY <1>4 DEF ContextDone
  <2>2. \A g \in Engagements : HasGroup(g)' <=> HasGroup(g)
    BY <1>4, ThreadFacts DEF ContextDone
  <2> QED
    BY <1>0, <2>1, <2>2
<1>5. ASSUME NEW e \in Engagements, CallStep(e) PROVE OneOwner'
  <2>1. CASE EngageNew(e)
    <3>1. workspace[e] \in Workspaces /\ engaged[workspace[e]] = None /\ ~HasGroup(e)
      BY <2>1, ThreadFacts DEF EngageNew
    <3>2. engaged' = [engaged EXCEPT ![workspace[e]] = e] /\ UNCHANGED <<held, collected>>
      BY <2>1 DEF EngageNew
    <3>3. \A g \in Engagements : HasGroup(g)' <=> HasGroup(g) \/ g = e
      BY <2>1, ThreadFacts DEF EngageNew
    <3>4. \A g \in Engagements : Registered(g)' <=> Registered(g) \/ g = e
      BY <3>1, <3>2, WiringAssumption
    <3>5. \A g \in Engagements : Taken(g)' <=> Taken(g)
      BY <3>2
    <3>6. \A w, v \in Workspaces : engaged'[w] # None /\ engaged'[w] = engaged'[v] => w = v
      BY <3>1, <3>2
    <3>7. QED
      BY <3>1, <3>2, <3>3, <3>4, <3>5, <3>6
  <2>2. CASE EngageAgain(e) \/ GetManager(e) \/ Add(e) \/ SetupReturns(e)
    <3>1. UNCHANGED <<held, engaged, collected>>
      BY <2>2 DEF EngageAgain, GetManager, Add, SetupReturns
    <3>2. \A g \in Engagements : HasGroup(g)' <=> HasGroup(g)
      BY <2>2, ThreadFacts DEF EngageAgain, GetManager, Add, SetupReturns
    <3> QED
      BY <1>0, <3>1, <3>2
  <2>3. QED
    BY <1>5, <2>1, <2>2 DEF CallStep
<1>6. ASSUME NEW e \in Engagements, NEW w \in Workspaces, Join(e, w) PROVE OneOwner'
  <2>1. UNCHANGED <<held, engaged, collected>>
    BY <1>6 DEF Join
  <2>2. \A g \in Engagements : HasGroup(g)' <=> HasGroup(g)
    BY <1>6, ThreadFacts DEF Join
  <2> QED
    BY <1>0, <2>1, <2>2
<1>7. ASSUME NEW e \in Engagements, RecordFailure(e) \/ RecordEngaged(e)
      PROVE OneOwner'
  <2>1. UNCHANGED <<held, engaged, collected>>
    BY <1>7 DEF RecordFailure, RecordEngaged
  <2>2. \A g \in Engagements : HasGroup(g)' <=> HasGroup(g)
    BY <1>7, ThreadFacts DEF RecordFailure, RecordEngaged
  <2> QED
    BY <1>0, <2>1, <2>2
<1>8. ASSUME NEW t \in Threads, DisengageStep(t) PROVE OneOwner'
  <2>1. CASE Delete(t)
    <3> DEFINE w == workspace[t[2]]
    <3>1. w \in Workspaces /\ held[t] = None
      BY <2>1, ThreadFacts DEF Delete
    <3>2. /\ engaged' = [engaged EXCEPT ![w] = None]
          /\ held' = [held EXCEPT ![t] = engaged[w]]
          /\ UNCHANGED collected
      BY <2>1 DEF Delete
    <3>3. \A g \in Engagements : HasGroup(g)' <=> HasGroup(g)
      BY <2>1, ThreadFacts DEF Delete
    <3>4. \A g \in Engagements : Registered(g)' <=> Registered(g) /\ engaged[w] # g
      BY <3>1, <3>2, WiringAssumption
    <3>5. \A g \in Engagements : Taken(g)' <=> Taken(g) \/ engaged[w] = g
      BY <3>1, <3>2, WiringAssumption
    <3>6. \A u, v \in Threads : held'[u] # None /\ held'[u] = held'[v] => u = v
      BY <3>1, <3>2
    <3>7. \A u, v \in Workspaces : engaged'[u] # None /\ engaged'[u] = engaged'[v] => u = v
      BY <3>1, <3>2
    <3>8. QED
      BY <3>1, <3>2, <3>3, <3>4, <3>5, <3>6, <3>7
  <2>2. CASE Stop(t) \/ Wait(t)
    <3>1. UNCHANGED <<held, engaged, collected>>
      BY <2>2 DEF Stop, Wait, AfterDisengage
    <3>2. \A g \in Engagements : HasGroup(g)' <=> HasGroup(g)
      BY <2>2, ThreadFacts DEF Stop, Wait, AfterDisengage
    <3> QED
      BY <1>0, <3>1, <3>2
  <2>3. QED
    BY <1>8, <2>1, <2>2 DEF DisengageStep
<1>9. ASSUME NEW t \in Threads, Release(t) PROVE OneOwner'
  <2>1. UNCHANGED <<held, engaged, collected>>
    BY <1>9 DEF Release, AfterDisengage
  <2>2. \A g \in Engagements : HasGroup(g)' <=> HasGroup(g)
    BY <1>9, ThreadFacts DEF Release, AfterDisengage
  <2> QED
    BY <1>0, <2>1, <2>2
<1>10. CASE UNCHANGED vars
  BY <1>10 DEF vars
<1>11. QED
  BY <1>1, <1>2, <1>3, <1>4, <1>5, <1>6, <1>7, <1>8, <1>9, <1>10 DEF Next, UnrecordedStep

\* A group is stopped by its owner, which keeps it.
LEMMA StoppedPreserved ==
  ASSUME IInv, [Next]_vars
  PROVE  StoppedByOwner'
<1> USE DEF IInv, TypeOK, StoppedByOwner, HeldFromDelete, OneOwner, Taken, Registered
<1>1. CASE Shutdown
  BY <1>1 DEF Shutdown
<1>2. CASE StartStep
  <2>1. CASE StartCollects
    BY <2>1 DEF StartCollects, StartDrains
  <2>2. CASE StartWaits \/ StartDrained \/ StartReturns
    BY <2>2 DEF StartWaits, StartDrained, StartReturns
  <2>3. ASSUME NEW g \in Engagements, StartStops(g) PROVE StoppedByOwner'
    BY <2>3 DEF StartStops
  <2>4. QED
    BY <1>2, <2>1, <2>2, <2>3 DEF StartStep
<1>3. ASSUME NEW e \in Engagements, Leave(e) \/ RunnableReturns(e)
      PROVE StoppedByOwner'
  BY <1>3 DEF Leave, RunnableReturns
<1>4. ASSUME NEW e \in Engagements, ContextDone(e) PROVE StoppedByOwner'
  BY <1>4, ThreadFacts DEF ContextDone
<1>5. ASSUME NEW e \in Engagements, CallStep(e) PROVE StoppedByOwner'
  BY <1>5, ThreadFacts DEF CallStep, EngageAgain, EngageNew, GetManager, Add, SetupReturns
<1>6. ASSUME NEW e \in Engagements, NEW w \in Workspaces, Join(e, w) PROVE StoppedByOwner'
  BY <1>6, ThreadFacts DEF Join
<1>7. ASSUME NEW e \in Engagements, RecordFailure(e) \/ RecordEngaged(e)
      PROVE StoppedByOwner'
  BY <1>7, ThreadFacts DEF RecordFailure, RecordEngaged
<1>8. ASSUME NEW t \in Threads, DisengageStep(t) PROVE StoppedByOwner'
  <2>1. CASE Delete(t)
    <3>1. held[t] = None /\ \A u \in Threads : u # t => held'[u] = held[u]
      BY <2>1 DEF Delete
    <3>2. QED
      BY <2>1, <3>1, WiringAssumption DEF Delete
  <2>2. CASE Stop(t)
    BY <2>2 DEF Stop
  <2>3. CASE Wait(t)
    BY <2>3, ThreadFacts DEF Wait, AfterDisengage
  <2>4. QED
    BY <1>8, <2>1, <2>2, <2>3 DEF DisengageStep
<1>9. ASSUME NEW t \in Threads, Release(t) PROVE StoppedByOwner'
  BY <1>9, ThreadFacts DEF Release, AfterDisengage
<1>10. CASE UNCHANGED vars
  BY <1>10 DEF vars
<1>11. QED
  BY <1>1, <1>2, <1>3, <1>4, <1>5, <1>6, <1>7, <1>8, <1>9, <1>10 DEF Next, UnrecordedStep

\* Start waits for each group it stops, and a stopped group gains no runnable.
LEMMA DrainsPreserved ==
  ASSUME IInv, [Next]_vars
  PROVE  StartDrains'
<1> USE DEF IInv, TypeOK, StartDrains, StoppedByOwner, HeldFromDelete, OneOwner, Taken, Registered
<1>1. CASE Shutdown
  BY <1>1 DEF Shutdown
<1>2. CASE StartStep
  BY <1>2 DEF StartStep, StartWaits, StartCollects, StartDrained, StartReturns, StartStops
<1>3. ASSUME NEW e \in Engagements, Leave(e) \/ RunnableReturns(e)
      PROVE StartDrains'
  BY <1>3 DEF Leave, RunnableReturns
<1>4. ASSUME NEW e \in Engagements, ContextDone(e) PROVE StartDrains'
  BY <1>4, ThreadFacts DEF ContextDone
<1>5. ASSUME NEW e \in Engagements, CallStep(e) PROVE StartDrains'
  BY <1>5, ThreadFacts DEF CallStep, EngageAgain, EngageNew, GetManager, Add, SetupReturns
<1>6. ASSUME NEW e \in Engagements, NEW w \in Workspaces, Join(e, w) PROVE StartDrains'
  BY <1>6, ThreadFacts DEF Join
<1>7. ASSUME NEW e \in Engagements, RecordFailure(e) \/ RecordEngaged(e)
      PROVE StartDrains'
  BY <1>7, ThreadFacts DEF RecordFailure, RecordEngaged
<1>8. ASSUME NEW t \in Threads, DisengageStep(t) PROVE StartDrains'
  BY <1>8, ThreadFacts DEF DisengageStep, Delete, Stop, Wait, AfterDisengage
<1>9. ASSUME NEW t \in Threads, Release(t) PROVE StartDrains'
  BY <1>9, ThreadFacts DEF Release, AfterDisengage
<1>10. CASE UNCHANGED vars
  BY <1>10 DEF vars
<1>11. QED
  BY <1>1, <1>2, <1>3, <1>4, <1>5, <1>6, <1>7, <1>8, <1>9, <1>10 DEF Next, UnrecordedStep

\* A stopped group with no runnable left never has one again.
LEMMA QuietPreserved ==
  ASSUME IInv, [Next]_vars
  PROVE  StopMeansQuiet'
<1> USE DEF IInv, TypeOK, StopMeansQuiet, StoppedByOwner, StartDrains, HeldFromDelete
<1>1. CASE Shutdown
  BY <1>1 DEF Shutdown
<1>2. CASE StartStep
  BY <1>2 DEF StartStep, StartWaits, StartCollects, StartDrained, StartReturns, StartStops
<1>3. ASSUME NEW e \in Engagements, Leave(e) \/ RunnableReturns(e)
      PROVE StopMeansQuiet'
  BY <1>3 DEF Leave, RunnableReturns
<1>4. ASSUME NEW e \in Engagements, ContextDone(e) PROVE StopMeansQuiet'
  BY <1>4, ThreadFacts DEF ContextDone
<1>5. ASSUME NEW e \in Engagements, CallStep(e) PROVE StopMeansQuiet'
  BY <1>5, ThreadFacts DEF CallStep, EngageAgain, EngageNew, GetManager, Add, SetupReturns
<1>6. ASSUME NEW e \in Engagements, NEW w \in Workspaces, Join(e, w) PROVE StopMeansQuiet'
  BY <1>6, ThreadFacts DEF Join
<1>7. ASSUME NEW e \in Engagements, RecordFailure(e) \/ RecordEngaged(e)
      PROVE StopMeansQuiet'
  BY <1>7, ThreadFacts DEF RecordFailure, RecordEngaged
<1>8. ASSUME NEW t \in Threads, DisengageStep(t) PROVE StopMeansQuiet'
  BY <1>8, ThreadFacts DEF DisengageStep, Delete, Stop, Wait, AfterDisengage
<1>9. ASSUME NEW t \in Threads, Release(t) PROVE StopMeansQuiet'
  BY <1>9, ThreadFacts DEF Release, AfterDisengage
<1>10. CASE UNCHANGED vars
  BY <1>10 DEF vars
<1>11. QED
  BY <1>1, <1>2, <1>3, <1>4, <1>5, <1>6, <1>7, <1>8, <1>9, <1>10 DEF Next, UnrecordedStep

LEMMA InductiveInvariant == Spec => []IInv
<1>1. IInv /\ [Next]_vars => IInv'
  BY TypePreserved, JoinedPreserved, HomedPreserved, HeldPreserved, OwnerPreserved,
     StoppedPreserved, DrainsPreserved, QuietPreserved DEF IInv
<1>2. QED
  BY InitInvariant, <1>1, PTL DEF Spec

-----------------------------------------------------------------------------

\* A call past its look at the map has a group; one that failed has run its
\* Delete by the time it stops or returns, and nothing registers it again.
Undone ==
  \A e \in Engagements :
    /\ pc[Call(e)] \notin {"idle", "enter", "returned"} \/ result[e] = "err" => HasGroup(e)
    /\ pc[Call(e)] \in {"release", "stop", "wait"} \/ Failed(e) => ~Registered(e)

LEMMA UndonePreserved ==
  ASSUME IInv, Undone, [Next]_vars
  PROVE  Undone'
<1> USE DEF IInv, TypeOK, Undone, HasGroup, Registered, Failed, Joined, Homed
<1>1. CASE Shutdown
  BY <1>1 DEF Shutdown
<1>2. CASE StartStep
  BY <1>2, WiringAssumption
     DEF StartStep, StartWaits, StartCollects, StartDrained, StartReturns, StartStops
<1>3. ASSUME NEW e \in Engagements, Leave(e) \/ RunnableReturns(e)
      PROVE Undone'
  BY <1>3 DEF Leave, RunnableReturns
<1>4. ASSUME NEW e \in Engagements, ContextDone(e) PROVE Undone'
  BY <1>4, ThreadFacts DEF ContextDone
<1>5. ASSUME NEW e \in Engagements, CallStep(e) PROVE Undone'
  BY <1>5, ThreadFacts, WiringAssumption
     DEF CallStep, EngageAgain, EngageNew, GetManager, Add, SetupReturns
<1>6. ASSUME NEW e \in Engagements, NEW w \in Workspaces, Join(e, w) PROVE Undone'
  BY <1>6, ThreadFacts DEF Join
<1>7. ASSUME NEW e \in Engagements, RecordFailure(e) \/ RecordEngaged(e)
      PROVE Undone'
  BY <1>7, ThreadFacts DEF RecordFailure, RecordEngaged
<1>8. ASSUME NEW t \in Threads, DisengageStep(t) PROVE Undone'
  BY <1>8, ThreadFacts, WiringAssumption DEF DisengageStep, Delete, Stop, Wait, AfterDisengage
<1>9. ASSUME NEW t \in Threads, Release(t) PROVE Undone'
  BY <1>9, ThreadFacts DEF Release, AfterDisengage
<1>10. CASE UNCHANGED vars
  BY <1>10 DEF vars
<1>11. QED
  BY <1>1, <1>2, <1>3, <1>4, <1>5, <1>6, <1>7, <1>8, <1>9, <1>10 DEF Next, UnrecordedStep

\* A group that is not registered is being stopped for as long as it runs
\* anything: its owner is on its way to wait for it.
LEMMA UnregisteredIsStopping ==
  ASSUME IInv, Undone
  PROVE  FailedIsUnwired
<1> SUFFICES ASSUME NEW e \in Engagements, Failed(e)
             PROVE  ~Registered(e) /\ (running[e] > 0 => BeingStopped(e))
  BY DEF FailedIsUnwired
<1>1. HasGroup(e) /\ ~Registered(e)
  BY DEF Undone, Failed
<1>2. Taken(e) \/ e \in collected
  BY <1>1 DEF IInv, OneOwner
<1>3. CASE Taken(e)
  <2>1. PICK t \in Threads : held[t] = e
    BY <1>3 DEF Taken
  <2>2. pc[t] \in {"release", "stop", "wait", "returned", "done"}
    BY <2>1, WiringAssumption DEF IInv, HeldFromDelete
  <2>3. pc[t] \in {"returned", "done"} => running[e] = 0
    BY <2>1, WiringAssumption DEF IInv, StopMeansQuiet
  <2>4. QED
    BY <1>1, <2>1, <2>2, <2>3 DEF BeingStopped
<1>4. CASE e \in collected
  BY <1>1, <1>4 DEF IInv, StopMeansQuiet, BeingStopped
<1>5. QED
  BY <1>2, <1>3, <1>4

-----------------------------------------------------------------------------
(* The turns of a workspace *)

\* Where a call and its watcher are in the life of the engagement, whatever the
\* provider does: a watcher moves once the context is done, and it is there for
\* as long as its group is registered.
Turns ==
  /\ \A e \in Engagements :
       /\ pc[Watcher(e)] \notin {"none", "armed"} => ctx[e] = "done"
       /\ Registered(e) => pc[Watcher(e)] \in {"armed", "delete"}
       /\ pc[Call(e)] \in {"delete", "release", "stop", "wait"} => result[e] = "err"
       /\ result[e] = "nil" => pc[Call(e)] = "returned"
       /\ pc[Call(e)] = "returned" => result[e] # "none"
       /\ result[e] = "err" => pc[Call(e)] \in {"delete", "release", "stop", "wait", "returned"}
       /\ ctx[e] = "none" <=> pc[Call(e)] = "idle"
  /\ processDone => \A e \in Engagements : ctx[e] # "live"
  /\ startPc \notin {"idle", "waiting"} => processDone

\* Nothing of the engagement is left to happen.
Over(e) ==
  /\ ctx[e] = "done" /\ pc[Call(e)] = "returned"
  /\ pc[Watcher(e)] \in {"none", "done"}

\* With a provider that waits for a disengagement before it engages again, one
\* engagement of a workspace is over before the next begins, ...
OneAtATime ==
  \A e, f \in Engagements :
    e # f /\ workspace[e] = workspace[f] /\ ctx[e] # "none" /\ ctx[f] # "none" => Over(e) \/ Over(f)

\* ... so that the map keeps the group of an engagement that did not fail for as
\* long as its workspace is there.
KeepsItsPlace ==
  \A e \in Engagements :
    /\ ctx[e] = "live" /\ HasGroup(e) /\ result[e] # "err" => engaged[workspace[e]] = e
    /\ result[e] = "nil" => HasGroup(e)

LEMMA TurnsPreserved ==
  ASSUME IInv, Turns, [Next]_vars
  PROVE  Turns'
<1> USE DEF IInv, TypeOK, Turns, HasGroup, Registered, Joined, Homed
<1>1. CASE Shutdown
  BY <1>1 DEF Shutdown
<1>2. CASE StartStep
  BY <1>2, WiringAssumption
     DEF StartStep, StartWaits, StartCollects, StartDrained, StartReturns, StartStops
<1>3. ASSUME NEW e \in Engagements, Leave(e) \/ RunnableReturns(e)
      PROVE Turns'
  BY <1>3 DEF Leave, RunnableReturns
<1>4. ASSUME NEW e \in Engagements, ContextDone(e) PROVE Turns'
  BY <1>4, ThreadFacts DEF ContextDone
<1>5. ASSUME NEW e \in Engagements, CallStep(e) PROVE Turns'
  BY <1>5, ThreadFacts, WiringAssumption
     DEF CallStep, EngageAgain, EngageNew, GetManager, Add, SetupReturns
<1>6. ASSUME NEW e \in Engagements, NEW w \in Workspaces, Join(e, w) PROVE Turns'
  BY <1>6, ThreadFacts DEF Join
<1>7. ASSUME NEW e \in Engagements, RecordFailure(e) \/ RecordEngaged(e)
      PROVE Turns'
  BY <1>7, ThreadFacts DEF RecordFailure, RecordEngaged
<1>8. ASSUME NEW t \in Threads, DisengageStep(t) PROVE Turns'
  BY <1>8, ThreadFacts, WiringAssumption DEF DisengageStep, Delete, Stop, Wait, AfterDisengage
<1>9. ASSUME NEW t \in Threads, Release(t) PROVE Turns'
  BY <1>9, ThreadFacts DEF Release, AfterDisengage
<1>10. CASE UNCHANGED vars
  BY <1>10 DEF vars
<1>11. QED
  BY <1>1, <1>2, <1>3, <1>4, <1>5, <1>6, <1>7, <1>8, <1>9, <1>10 DEF Next, UnrecordedStep

\* What is over stays over.
LEMMA OverPreserved ==
  ASSUME IInv, Turns, [Next]_vars, NEW f \in Engagements, Over(f)
  PROVE  Over(f)'
<1> USE DEF IInv, TypeOK, Over
<1>1. CASE Shutdown
  BY <1>1 DEF Shutdown
<1>2. CASE StartStep
  BY <1>2, WiringAssumption
     DEF StartStep, StartWaits, StartCollects, StartDrained, StartReturns, StartStops
<1>3. ASSUME NEW e \in Engagements, Leave(e) \/ RunnableReturns(e)
      PROVE Over(f)'
  BY <1>3 DEF Leave, RunnableReturns
<1>4. ASSUME NEW e \in Engagements, ContextDone(e) PROVE Over(f)'
  BY <1>4, ThreadFacts DEF ContextDone
<1>5. ASSUME NEW e \in Engagements, CallStep(e) PROVE Over(f)'
  BY <1>5, ThreadFacts, WiringAssumption
     DEF CallStep, EngageAgain, EngageNew, GetManager, Add, SetupReturns
<1>6. ASSUME NEW e \in Engagements, NEW w \in Workspaces, Join(e, w) PROVE Over(f)'
  BY <1>6, ThreadFacts DEF Join
<1>7. ASSUME NEW e \in Engagements, RecordFailure(e) \/ RecordEngaged(e)
      PROVE Over(f)'
  BY <1>7, ThreadFacts DEF RecordFailure, RecordEngaged
<1>8. ASSUME NEW t \in Threads, DisengageStep(t) PROVE Over(f)'
  BY <1>8, ThreadFacts, WiringAssumption DEF DisengageStep, Delete, Stop, Wait, AfterDisengage
<1>9. ASSUME NEW t \in Threads, Release(t) PROVE Over(f)'
  BY <1>9, ThreadFacts DEF Release, AfterDisengage
<1>10. CASE UNCHANGED vars
  BY <1>10 DEF vars
<1>11. QED
  BY <1>1, <1>2, <1>3, <1>4, <1>5, <1>6, <1>7, <1>8, <1>9, <1>10 DEF Next, UnrecordedStep

LEMMA OneAtATimePreserved ==
  ASSUME IInv, Turns, OneAtATime, ~RejoinEarly, [Next]_vars
  PROVE  OneAtATime'
<1>1. \A f \in Engagements : Over(f) => Over(f)'
  BY OverPreserved
<1>2. ASSUME NEW e \in Engagements, NEW w \in Workspaces, Join(e, w) PROVE OneAtATime'
  <2>1. /\ workspace' = [workspace EXCEPT ![e] = w] /\ ctx' = [ctx EXCEPT ![e] = "live"]
        /\ Unsettled(w) = {}
    BY <1>2 DEF Join
  <2>2. \A f \in Engagements : f # e /\ workspace[f] = w /\ ctx[f] # "none" => Over(f)
    <3> SUFFICES ASSUME NEW f \in Engagements, workspace[f] = w, ctx[f] # "none" PROVE Over(f)
      OBVIOUS
    <3>1. ctx[f] = "done" /\ Settled(f)
      BY <2>1 DEF Unsettled, IInv, TypeOK
    <3> QED
      BY <3>1 DEF Settled, Over, Turns
  <2> QED
    BY <1>1, <2>1, <2>2 DEF OneAtATime, IInv, TypeOK
<1>3. CASE /\ UNCHANGED workspace
           /\ \A e \in Engagements : ctx'[e] # "none" => ctx[e] # "none"
  BY <1>1, <1>3 DEF OneAtATime
<1>4. CASE \A e \in Engagements, w \in Workspaces : ~Join(e, w)
  <2>1. UNCHANGED workspace /\ \A e \in Engagements : ctx'[e] # "none" => ctx[e] # "none"
    <3> USE DEF IInv, TypeOK
    <3>1. CASE Shutdown
      BY <3>1 DEF Shutdown
    <3>2. ASSUME NEW e \in Engagements, Leave(e)
          PROVE  UNCHANGED workspace /\ \A f \in Engagements : ctx'[f] # "none" => ctx[f] # "none"
      BY <3>2 DEF Leave
    <3>3. CASE UNCHANGED <<workspace, ctx>>
      BY <3>3
    <3> QED
      BY <1>4, <3>1, <3>2, <3>3
         DEF Next, UnrecordedStep, StartStep, StartWaits, StartCollects, StartDrained, StartReturns,
             StartStops, RunnableReturns, ContextDone, CallStep, EngageAgain, EngageNew, GetManager,
             Add, SetupReturns, RecordFailure, RecordEngaged, DisengageStep, Delete, Stop, Wait,
             Release, vars
  <2> QED
    BY <1>3, <2>1
<1> QED
  BY <1>2, <1>4

\* So whoever takes a group out of the map takes its own engagement's.
LEMMA DeleteTakesOwn ==
  ASSUME IInv, Turns, OneAtATime, NEW t \in Threads, Delete(t), engaged[workspace[t[2]]] # None
  PROVE  engaged[workspace[t[2]]] = t[2]
<1> DEFINE g == engaged[workspace[t[2]]]
<1>1. t[2] \in Engagements /\ pc[t] = "delete" /\ workspace[t[2]] \in Workspaces
  BY ThreadFacts DEF Delete, IInv, Joined, HasGroup, Turns
<1>2. g \in Engagements /\ Registered(g) /\ workspace[g] = workspace[t[2]]
  BY <1>1 DEF IInv, TypeOK, Homed, Registered
<1>3. ~Over(t[2]) /\ ctx[t[2]] # "none"
  BY <1>1, ThreadFacts DEF Over, Turns
<1>4. ~Over(g) /\ ctx[g] # "none"
  BY <1>2, ThreadFacts DEF Over, Turns, IInv, Joined, HasGroup
<1> QED
  BY <1>1, <1>2, <1>3, <1>4 DEF OneAtATime

LEMMA KeepsItsPlacePreserved ==
  ASSUME IInv, Undone, Turns, OneAtATime, KeepsItsPlace, [Next]_vars
  PROVE  KeepsItsPlace'
<1> USE DEF IInv, TypeOK, Turns, KeepsItsPlace, HasGroup, Joined, Homed, Registered
<1>1. CASE Shutdown
  BY <1>1 DEF Shutdown
<1>2. CASE StartStep
  BY <1>2, WiringAssumption
     DEF StartStep, StartWaits, StartCollects, StartDrained, StartReturns, StartStops
<1>3. ASSUME NEW e \in Engagements, Leave(e) \/ RunnableReturns(e)
      PROVE KeepsItsPlace'
  BY <1>3 DEF Leave, RunnableReturns
<1>4. ASSUME NEW e \in Engagements, ContextDone(e) PROVE KeepsItsPlace'
  BY <1>4, ThreadFacts DEF ContextDone
<1>5. ASSUME NEW e \in Engagements, CallStep(e) PROVE KeepsItsPlace'
  <2>1. CASE EngageAgain(e)
    <3>1. PICK g \in Engagements : engaged[workspace[e]] = g
      BY <2>1, ThreadFacts DEF EngageAgain
    <3>2. /\ Registered(g) /\ workspace[g] = workspace[e] /\ workspace[e] \in Workspaces
          /\ pc[Call(e)] = "enter" /\ ~HasGroup(e)
      BY <2>1, <3>1, ThreadFacts, WiringAssumption DEF EngageAgain
    <3>3. g # e /\ ctx[g] # "none" /\ ctx[e] # "none" /\ ~Over(e) /\ ~Over(g)
      BY <3>2, ThreadFacts DEF Over, Turns, OneOwner
    <3> QED
      BY <3>2, <3>3 DEF OneAtATime
  <2>2. CASE EngageNew(e)
    <3>1. /\ pc[Call(e)] = "enter" /\ engaged[workspace[e]] = None /\ workspace[e] \in Workspaces
          /\ engaged' = [engaged EXCEPT ![workspace[e]] = e]
          /\ UNCHANGED <<workspace, ctx, result>>
      BY <2>2, ThreadFacts DEF EngageNew
    <3>2. \A f \in Engagements : HasGroup(f)' <=> HasGroup(f) \/ f = e
      BY <2>2, ThreadFacts DEF EngageNew
    <3>3. \A f \in Engagements : HasGroup(f) => workspace[f] \in Workspaces
      BY ThreadFacts
    <3> QED
      BY <3>1, <3>2, <3>3, WiringAssumption
  <2>3. CASE GetManager(e) \/ Add(e) \/ SetupReturns(e)
    BY <2>3, ThreadFacts DEF GetManager, Add, SetupReturns
  <2> QED
    BY <1>5, <2>1, <2>2, <2>3 DEF CallStep
<1>6. ASSUME NEW e \in Engagements, NEW w \in Workspaces, Join(e, w) PROVE KeepsItsPlace'
  BY <1>6, ThreadFacts DEF Join
<1>7. ASSUME NEW e \in Engagements, RecordFailure(e) \/ RecordEngaged(e)
      PROVE KeepsItsPlace'
  <2>1. HasGroup(e) /\ UNCHANGED <<workspace, ctx, engaged>>
    BY <1>7, ThreadFacts DEF RecordFailure, RecordEngaged, Undone
  <2>2. \A f \in Engagements : HasGroup(f)' <=> HasGroup(f)
    BY <1>7, ThreadFacts DEF RecordFailure, RecordEngaged
  <2>3. CASE RecordFailure(e)
    BY <2>1, <2>2, <2>3 DEF RecordFailure
  <2>4. CASE RecordEngaged(e)
    <3>1. pc[Call(e)] = "record" /\ result' = [result EXCEPT ![e] = "nil"]
      BY <2>4 DEF RecordEngaged
    <3>2. result[e] # "err"
      BY <3>1
    <3> QED
      BY <2>1, <2>2, <3>1, <3>2
  <2> QED
    BY <1>7, <2>3, <2>4
<1>8. ASSUME NEW t \in Threads, DisengageStep(t) PROVE KeepsItsPlace'
  <2>1. CASE Delete(t)
    <3>1. /\ t[2] \in Engagements /\ pc[t] = "delete" /\ workspace[t[2]] \in Workspaces
          /\ engaged' = [engaged EXCEPT ![workspace[t[2]]] = None] /\ pc' = [pc EXCEPT ![t] = "release"]
          /\ UNCHANGED <<workspace, ctx, result>>
      BY <2>1, ThreadFacts DEF Delete
    <3>2. ctx[t[2]] = "done" \/ result[t[2]] = "err"
      BY <3>1, ThreadFacts DEF Turns
    <3>3. \A e \in Engagements : HasGroup(e)' <=> HasGroup(e)
      BY <3>1, ThreadFacts
    <3>4. ASSUME NEW e \in Engagements, ctx[e] = "live", HasGroup(e), result[e] # "err"
          PROVE  engaged'[workspace[e]] = e
      <4>1. engaged[workspace[e]] = e /\ workspace[e] \in Workspaces /\ e # t[2]
        BY <3>2, <3>4, ThreadFacts
      <4>2. workspace[e] # workspace[t[2]]
        BY <2>1, <4>1, DeleteTakesOwn, WiringAssumption
      <4> QED
        BY <3>1, <4>1, <4>2
    <3> QED
      BY <3>1, <3>3, <3>4
  <2>2. CASE Stop(t) \/ Wait(t)
    BY <2>2, ThreadFacts DEF Stop, Wait, AfterDisengage
  <2> QED
    BY <1>8, <2>1, <2>2 DEF DisengageStep
<1>9. ASSUME NEW t \in Threads, Release(t) PROVE KeepsItsPlace'
  BY <1>9, ThreadFacts DEF Release, AfterDisengage
<1>10. CASE UNCHANGED vars
  BY <1>10 DEF vars
<1>11. QED
  BY <1>1, <1>2, <1>3, <1>4, <1>5, <1>6, <1>7, <1>8, <1>9, <1>10 DEF Next, UnrecordedStep

InTurn == IInv /\ Undone /\ Turns /\ OneAtATime /\ KeepsItsPlace

LEMMA InitInTurn == Init => InTurn
<1> SUFFICES ASSUME Init PROVE InTurn
  OBVIOUS
<1>1. IInv /\ Undone
  BY InitInvariant, ThreadFacts, WiringAssumption DEF Init, Undone, HasGroup, Registered, Failed
<1>2. Turns
  BY ThreadFacts, WiringAssumption DEF Init, Turns, Registered
<1>3. OneAtATime /\ KeepsItsPlace
  BY DEF Init, OneAtATime, KeepsItsPlace
<1> QED
  BY <1>1, <1>2, <1>3 DEF InTurn

LEMMA InTurnPreserved == ~RejoinEarly /\ InTurn /\ [Next]_vars => InTurn'
<1> SUFFICES ASSUME ~RejoinEarly, InTurn, [Next]_vars PROVE InTurn'
  OBVIOUS
<1>1. IInv'
  BY TypePreserved, JoinedPreserved, HomedPreserved, HeldPreserved, OwnerPreserved,
     StoppedPreserved, DrainsPreserved, QuietPreserved DEF IInv, InTurn
<1> QED
  BY <1>1, UndonePreserved, TurnsPreserved, OneAtATimePreserved, KeepsItsPlacePreserved DEF InTurn

-----------------------------------------------------------------------------
(* The service of a workspace, of a provider that waits for a disengagement *)

\* Nothing of the group runs, and nothing will.
Ended(g) == g \in stopped /\ running[g] = 0

\* A thread stops no group but its own engagement's, ...
HoldsOwn == \A t \in Threads : held[t] \in {None, t[2]}

\* ... and has done so before the next call looks at the map.
HandedOver ==
  \A e, f \in Engagements :
    e # f /\ pc[Call(e)] = "enter" /\ workspace[f] = workspace[e] /\ HasGroup(f) => Ended(f)

HandingOver == InTurn /\ HoldsOwn /\ HandedOver

LEMMA HoldsOwnPreserved ==
  ASSUME InTurn, HoldsOwn, [Next]_vars
  PROVE  HoldsOwn'
<1> USE DEF InTurn, IInv, TypeOK
<1>1. ASSUME NEW t \in Threads, Delete(t) PROVE HoldsOwn'
  <2>1. held' = [held EXCEPT ![t] = engaged[workspace[t[2]]]]
    BY <1>1 DEF Delete
  <2>2. engaged[workspace[t[2]]] \in {None, t[2]}
    BY <1>1, DeleteTakesOwn
  <2> QED
    BY <2>1, <2>2 DEF HoldsOwn
<1>2. CASE \A t \in Threads : ~Delete(t)
  <2>1. UNCHANGED held
    BY <1>2
       DEF Next, UnrecordedStep, Shutdown, StartStep, StartWaits, StartCollects, StartDrained,
           StartReturns, StartStops, Leave, RunnableReturns, ContextDone, CallStep, EngageAgain,
           EngageNew, GetManager, Add, SetupReturns, Join, RecordFailure, RecordEngaged,
           DisengageStep, Stop, Wait, Release, vars
  <2> QED
    BY <2>1 DEF HoldsOwn
<1> QED
  BY <1>1, <1>2

\* What has ended stays so: a stopped group refuses what is added.
LEMMA EndedStays ==
  ASSUME IInv, [Next]_vars, NEW g \in Engagements, Ended(g)
  PROVE  Ended(g)'
<1> USE DEF IInv, TypeOK, Ended
<1>1. CASE UNCHANGED running /\ stopped \subseteq stopped'
  BY <1>1
<1>2. ASSUME NEW e \in Engagements, Add(e) \/ RunnableReturns(e) PROVE Ended(g)'
  BY <1>2 DEF Add, RunnableReturns
<1>3. \/ UNCHANGED running /\ stopped \subseteq stopped'
      \/ \E e \in Engagements : Add(e) \/ RunnableReturns(e)
  BY DEF Next, UnrecordedStep, Shutdown, StartStep, StartWaits, StartCollects, StartDrained,
         StartReturns, StartStops, Leave, ContextDone, CallStep, EngageAgain,
         EngageNew, GetManager, SetupReturns, Join, RecordFailure, RecordEngaged,
         DisengageStep, Delete, Stop, Wait, Release, vars
<1> QED
  BY <1>1, <1>2, <1>3

\* While the process goes on, an engagement that is over has ended, if it had
\* anything to end: one of its own threads stopped it and waited.
LEMMA OverHasEnded ==
  ASSUME InTurn, HoldsOwn, ~processDone, NEW f \in Engagements, Over(f), HasGroup(f)
  PROVE  Ended(f)
<1> USE DEF InTurn, IInv
<1>1. ~Registered(f) /\ collected = {}
  BY DEF Turns, Over, HasGroup, StartDrains, TypeOK, StartPc
<1>2. PICK t \in Threads : held[t] = f
  BY <1>1 DEF OneOwner, Taken
<1>3. f # None
  BY WiringAssumption
<1>4. t[2] = f
  BY <1>2, <1>3 DEF HoldsOwn
<1>5. pc[t] \in {"returned", "done"}
  BY <1>2, <1>3, <1>4, ThreadFacts DEF Over, HeldFromDelete
<1> QED
  BY <1>2, <1>3, <1>5 DEF StoppedByOwner, StopMeansQuiet, Ended

LEMMA HandedOverPreserved ==
  ASSUME ~RejoinEarly, HandingOver, [Next]_vars
  PROVE  HandedOver'
<1> USE DEF HandingOver, InTurn, IInv, TypeOK
<1>1. \A g \in Engagements : Ended(g) => Ended(g)'
  BY EndedStays
<1>2. ASSUME NEW e \in Engagements, NEW w \in Workspaces, Join(e, w) PROVE HandedOver'
  <2>1. /\ workspace' = [workspace EXCEPT ![e] = w] /\ pc' = [pc EXCEPT ![Call(e)] = "enter"]
        /\ pc[Call(e)] = "idle" /\ Unsettled(w) = {} /\ ~processDone
    BY <1>2 DEF Join
  <2>2. ~HasGroup(e) /\ \A f \in Engagements : HasGroup(f)' <=> HasGroup(f)
    BY <2>1, ThreadFacts DEF HasGroup, Joined
  <2>3. ASSUME NEW f \in Engagements, f # e, workspace[f] = w, HasGroup(f) PROVE Ended(f)
    <3>1. ctx[f] # "none" /\ pc[Watcher(f)] # "none"
      BY <2>3 DEF Turns, Joined, HasGroup
    <3>2. ctx[f] = "done" /\ Settled(f)
      BY <2>1, <2>3, <3>1 DEF Unsettled
    <3>3. Over(f)
      BY <3>1, <3>2 DEF Settled, Over, Turns
    <3> QED
      BY <2>1, <2>3, <3>3, OverHasEnded
  <2>4. ASSUME NEW d \in Engagements, NEW f \in Engagements, d # f, pc'[Call(d)] = "enter",
               workspace'[f] = workspace'[d], HasGroup(f)
        PROVE  Ended(f)
    <3>1. f # e
      BY <2>2, <2>4
    <3>2. CASE d = e
      BY <2>1, <2>3, <2>4, <3>1, <3>2
    <3>3. CASE d # e
      BY <2>1, <2>4, <3>1, <3>3, ThreadFacts DEF HandedOver
    <3> QED
      BY <3>2, <3>3
  <2> QED
    BY <1>1, <2>2, <2>4 DEF HandedOver
<1>3. ASSUME NEW e \in Engagements, EngageNew(e) PROVE HandedOver'
  <2>1. /\ pc' = [pc EXCEPT ![Call(e)] = "manager", ![Watcher(e)] = "armed"]
        /\ pc[Call(e)] = "enter" /\ UNCHANGED workspace
    BY <1>3 DEF EngageNew
  <2>2. \A f \in Engagements : HasGroup(f)' <=> HasGroup(f) \/ f = e
    BY <2>1, ThreadFacts DEF HasGroup
  <2>3. \A d \in Engagements : pc'[Call(d)] = "enter" => d # e /\ pc[Call(d)] = "enter"
    BY <2>1, ThreadFacts
  <2>4. \A d \in Engagements : d # e /\ pc[Call(d)] = "enter" => workspace[d] # workspace[e]
    BY <2>1 DEF OneAtATime, Over, Turns
  <2> QED
    BY <1>1, <2>1, <2>2, <2>3, <2>4 DEF HandedOver
<1>4. CASE /\ UNCHANGED workspace
           /\ \A e \in Engagements : /\ HasGroup(e)' => HasGroup(e)
                                     /\ pc'[Call(e)] = "enter" => pc[Call(e)] = "enter"
  BY <1>1, <1>4 DEF HandedOver
<1>5. \/ \E e \in Engagements : EngageNew(e) \/ \E w \in Workspaces : Join(e, w)
      \/ /\ UNCHANGED workspace
         /\ \A e \in Engagements : /\ HasGroup(e)' => HasGroup(e)
                                   /\ pc'[Call(e)] = "enter" => pc[Call(e)] = "enter"
  <2> DEFINE Rest == /\ UNCHANGED workspace
                     /\ \A e \in Engagements :
                          /\ HasGroup(e)' => HasGroup(e)
                          /\ pc'[Call(e)] = "enter" => pc[Call(e)] = "enter"
  <2>1. CASE UNCHANGED <<workspace, pc>>
    BY <2>1 DEF HasGroup
  <2>2. ASSUME NEW e \in Engagements,
               \/ EngageAgain(e) \/ GetManager(e) \/ SetupReturns(e) \/ ContextDone(e)
               \/ RecordFailure(e) \/ RecordEngaged(e)
        PROVE  Rest
    BY <2>2, ThreadFacts
       DEF EngageAgain, GetManager, SetupReturns, ContextDone, RecordFailure, RecordEngaged, HasGroup
  <2>3. ASSUME NEW t \in Threads, DisengageStep(t) \/ Release(t) PROVE Rest
    BY <2>3, ThreadFacts
       DEF DisengageStep, Delete, Stop, Wait, Release, AfterDisengage, HasGroup
  <2> QED
    BY <2>1, <2>2, <2>3
       DEF Next, UnrecordedStep, Shutdown, StartStep, StartWaits, StartCollects, StartDrained,
           StartReturns, StartStops, Leave, RunnableReturns, CallStep, Add, vars
<1> QED
  BY <1>2, <1>3, <1>4, <1>5

LEMMA HandingOverPreserved == ~RejoinEarly /\ HandingOver /\ [Next]_vars => HandingOver'
BY InTurnPreserved, HoldsOwnPreserved, HandedOverPreserved DEF HandingOver

LEMMA InitHandingOver == Init => HandingOver
<1> SUFFICES ASSUME Init PROVE HandingOver
  OBVIOUS
<1>1. HoldsOwn /\ HandedOver
  BY ThreadFacts DEF Init, HoldsOwn, HandedOver
<1> QED
  BY <1>1, InitInTurn DEF HandingOver

\* The service's steps are those that make a group, stop it, add to it, or that
\* one of its runnables takes.
LEMMA StepIsService ==
  ASSUME HandingOver, [Next]_vars
  PROVE  [Serving!Next]_(Serving!vars)
<1> DEFINE Home == [e \in Engagements |-> IF HasGroup(e) THEN workspace[e] ELSE None]
           Open == {e \in Engagements : HasGroup(e) /\ e \notin stopped}
<1> USE DEF HandingOver, InTurn, IInv, TypeOK
<1>1. ASSUME NEW e \in Engagements, EngageNew(e), NEW w \in Workspaces, w = workspace[e]
      PROVE  Serving!Begin(e, w)
  <2>1. /\ pc' = [pc EXCEPT ![Call(e)] = "manager", ![Watcher(e)] = "armed"]
        /\ pc[Call(e)] = "enter" /\ UNCHANGED <<workspace, stopped, running>>
    BY <1>1 DEF EngageNew
  <2>2. ~HasGroup(e) /\ \A f \in Engagements : HasGroup(f)' <=> HasGroup(f) \/ f = e
    BY <2>1, ThreadFacts DEF HasGroup, Joined
  <2>3. e \notin stopped
    BY <2>2 DEF StoppedByOwner, OneOwner
  <2>4. \A f \in Engagements : Home[f] = w => f \notin Open /\ running[f] = 0
    BY <1>1, <2>1, <2>2, WiringAssumption DEF HandedOver, Ended
  <2>5. Home' = [Home EXCEPT ![e] = w] /\ Open' = Open \cup {e} /\ Home[e] = None
    BY <1>1, <2>1, <2>2, <2>3
  <2> QED
    BY <2>1, <2>4, <2>5 DEF Serving!Begin, Serving!Quiet
<1>2. ASSUME NEW e \in Engagements, Add(e) PROVE Serving!Run(e)
  <2>1. /\ pc[Call(e)] = "setup" /\ e \notin stopped /\ running' = [running EXCEPT ![e] = @ + 1]
        /\ UNCHANGED <<pc, workspace, stopped>>
    BY <1>2 DEF Add
  <2>2. HasGroup(e)
    BY <2>1 DEF Undone
  <2>3. e \in Open /\ Home' = Home /\ Open' = Open
    BY <2>1, <2>2 DEF HasGroup
  <2> QED
    BY <2>1, <2>3 DEF Serving!Run
<1>3. ASSUME NEW g \in Engagements, RunnableReturns(g) PROVE Serving!Return(g)
  <2>1. /\ running[g] > 0 /\ running' = [running EXCEPT ![g] = @ - 1]
        /\ UNCHANGED <<pc, workspace, stopped>>
    BY <1>3 DEF RunnableReturns
  <2>2. Home' = Home /\ Open' = Open
    BY <2>1 DEF HasGroup
  <2> QED
    BY <2>1, <2>2 DEF Serving!Return
<1>4. ASSUME NEW g \in Engagements, stopped' = stopped \cup {g}, HasGroup(g),
             UNCHANGED <<workspace, running>>, \A f \in Engagements : HasGroup(f)' <=> HasGroup(f)
      PROVE  [Serving!Next]_(Serving!vars)
  <2>1. Home' = Home /\ Open' = Open \ {g}
    BY <1>4
  <2>2. CASE g \in Open
    BY <1>4, <2>1, <2>2 DEF Serving!Next, Serving!Close
  <2>3. CASE g \notin Open
    BY <1>4, <2>1, <2>3 DEF Serving!vars
  <2> QED
    BY <2>2, <2>3
<1>5. ASSUME NEW t \in Threads, Stop(t) PROVE [Serving!Next]_(Serving!vars)
  <2>1. /\ pc[t] = "stop" /\ pc' = [pc EXCEPT ![t] = "wait"] /\ stopped' = stopped \cup {held[t]}
        /\ UNCHANGED <<workspace, running>>
    BY <1>5 DEF Stop
  <2>2. held[t] \in Engagements /\ HasGroup(held[t])
    BY <2>1 DEF HeldFromDelete, OneOwner, Taken
  <2>3. \A f \in Engagements : HasGroup(f)' <=> HasGroup(f)
    BY <2>1, ThreadFacts DEF HasGroup
  <2> QED
    BY <1>4, <2>1, <2>2, <2>3
<1>6. ASSUME NEW g \in Engagements, StartStops(g) PROVE [Serving!Next]_(Serving!vars)
  <2>1. g \in collected /\ stopped' = stopped \cup {g} /\ UNCHANGED <<pc, workspace, running>>
    BY <1>6 DEF StartStops
  <2>2. HasGroup(g) /\ \A f \in Engagements : HasGroup(f)' <=> HasGroup(f)
    BY <2>1 DEF OneOwner, HasGroup
  <2> QED
    BY <1>4, <2>1, <2>2
<1>7. CASE /\ UNCHANGED <<stopped, running>>
           /\ \A e \in Engagements : /\ HasGroup(e)' <=> HasGroup(e)
                                     /\ HasGroup(e) => workspace'[e] = workspace[e]
  <2>1. Home' = Home /\ Open' = Open
    BY <1>7
  <2> QED
    BY <1>7, <2>1 DEF Serving!vars
<1>8. ASSUME NEW e \in Engagements, NEW w \in Workspaces, Join(e, w)
      PROVE  [Serving!Next]_(Serving!vars)
  <2>1. /\ workspace' = [workspace EXCEPT ![e] = w] /\ pc' = [pc EXCEPT ![Call(e)] = "enter"]
        /\ pc[Call(e)] = "idle" /\ UNCHANGED <<stopped, running>>
    BY <1>8 DEF Join
  <2>2. ~HasGroup(e) /\ \A f \in Engagements : HasGroup(f)' <=> HasGroup(f)
    BY <2>1, ThreadFacts DEF HasGroup, Joined
  <2> QED
    BY <1>7, <2>1, <2>2
<1>9. ASSUME NEW e \in Engagements,
             \/ EngageAgain(e) \/ GetManager(e) \/ SetupReturns(e) \/ ContextDone(e)
             \/ RecordFailure(e) \/ RecordEngaged(e)
      PROVE  [Serving!Next]_(Serving!vars)
  <2>1. /\ UNCHANGED <<workspace, stopped, running>>
        /\ \A f \in Engagements : HasGroup(f)' <=> HasGroup(f)
    BY <1>9, ThreadFacts
       DEF EngageAgain, GetManager, SetupReturns, ContextDone, RecordFailure, RecordEngaged, HasGroup
  <2> QED
    BY <1>7, <2>1
<1>10. ASSUME NEW t \in Threads, Delete(t) \/ Wait(t) \/ Release(t)
       PROVE  [Serving!Next]_(Serving!vars)
  <2>1. /\ UNCHANGED <<workspace, stopped, running>>
        /\ \A f \in Engagements : HasGroup(f)' <=> HasGroup(f)
    BY <1>10, ThreadFacts DEF Delete, Wait, Release, AfterDisengage, HasGroup
  <2> QED
    BY <1>7, <2>1
<1>11. CASE UNCHANGED <<workspace, pc, stopped, running>>
  BY <1>7, <1>11 DEF HasGroup
<1>12. \/ \E e \in Engagements : \/ EngageNew(e) \/ Add(e) \/ RunnableReturns(e) \/ StartStops(e)
                                 \/ \E w \in Workspaces : Join(e, w)
                                 \/ EngageAgain(e) \/ GetManager(e) \/ SetupReturns(e)
                                 \/ ContextDone(e) \/ RecordFailure(e) \/ RecordEngaged(e)
       \/ \E t \in Threads : Stop(t) \/ Delete(t) \/ Wait(t) \/ Release(t)
       \/ UNCHANGED <<workspace, pc, stopped, running>>
  BY DEF Next, UnrecordedStep, Shutdown, StartStep, StartWaits, StartCollects, StartDrained,
         StartReturns, Leave, CallStep, DisengageStep, vars
<1>13. ASSUME NEW e \in Engagements, EngageNew(e) PROVE Serving!Next
  <2>1. PICK w \in Workspaces : w = workspace[e]
    BY <1>13 DEF EngageNew, Joined
  <2> QED
    BY <1>1, <1>13, <2>1 DEF Serving!Next
<1> QED
  BY <1>2, <1>3, <1>5, <1>6, <1>8, <1>9, <1>10, <1>11, <1>12, <1>13 DEF Serving!Next

\* What Service is for, by its own steps: an engagement begins only among those
\* that are quiet, and what is quiet stays so.
LEMMA ServiceServesOnce ==
  ASSUME running \in [Engagements -> Int], Serving!ServedOnce, [Serving!Next]_(Serving!vars)
  PROVE  Serving!ServedOnce'
<1> DEFINE Home == [e \in Engagements |-> IF HasGroup(e) THEN workspace[e] ELSE None]
           Open == {e \in Engagements : HasGroup(e) /\ e \notin stopped}
           Quiet(e) == e \notin Open /\ running[e] = 0
           Once == \A e, f \in Engagements :
                     e # f /\ Home[e] # None /\ Home[e] = Home[f] => Quiet(e) \/ Quiet(f)
<1>1. Once <=> Serving!ServedOnce
  BY DEF Serving!ServedOnce, Serving!Quiet
<1>2. Once' <=> Serving!ServedOnce'
  BY DEF Serving!ServedOnce, Serving!Quiet
<1>3. /\ Home \in [Engagements -> {Home[e] : e \in Engagements}]
      /\ Open \subseteq Engagements
  OBVIOUS
<1>4. ASSUME NEW e \in Engagements, NEW w \in Workspaces, Serving!Begin(e, w) PROVE Once'
  <2>1. /\ \A f \in Engagements : Home[f] = w => Quiet(f)
        /\ Home' = [Home EXCEPT ![e] = w] /\ Open' = Open \cup {e} /\ running' = running
    BY <1>4 DEF Serving!Begin, Serving!Quiet
  <2> HIDE DEF Home, Open
  <2> QED
    BY <1>1, <1>3, <2>1
<1>5. ASSUME NEW e \in Engagements, Serving!Run(e) PROVE Once'
  <2>1. /\ e \in Open /\ running' = [running EXCEPT ![e] = @ + 1]
        /\ Home' = Home /\ Open' = Open
    BY <1>5 DEF Serving!Run
  <2> HIDE DEF Home, Open
  <2> QED
    BY <1>1, <2>1
<1>6. ASSUME NEW e \in Engagements, Serving!Return(e) PROVE Once'
  <2>1. /\ running[e] > 0 /\ running' = [running EXCEPT ![e] = @ - 1]
        /\ Home' = Home /\ Open' = Open
    BY <1>6 DEF Serving!Return
  <2> HIDE DEF Home, Open
  <2> QED
    BY <1>1, <2>1
<1>7. ASSUME NEW e \in Engagements, Serving!Close(e) PROVE Once'
  <2>1. Open' = Open \ {e} /\ Home' = Home /\ running' = running
    BY <1>7 DEF Serving!Close
  <2> HIDE DEF Home, Open
  <2> QED
    BY <1>1, <2>1
<1>8. ASSUME UNCHANGED Serving!vars PROVE Once'
  <2>1. Home' = Home /\ Open' = Open /\ running' = running
    BY <1>8 DEF Serving!vars
  <2> HIDE DEF Home, Open
  <2> QED
    BY <1>1, <2>1
<1> QED
  BY <1>2, <1>4, <1>5, <1>6, <1>7, <1>8 DEF Serving!Next

-----------------------------------------------------------------------------
(* The theorems *)

\* Every variable of the wiring keeps its type in every behaviour.
THEOREM TypeCorrect == Spec => []TypeOK
<1>1. IInv => TypeOK
  BY DEF IInv
<1>2. QED
  BY <1>1, InductiveInvariant, PTL

\* Whatever the provider does and whoever races whom, every runnable group has
\* exactly one owner at every moment, so that it is stopped once and is never
\* lost by Engage, the watcher and Start.
THEOREM GroupsHaveOneOwner == Spec => []OneOwner
<1>1. IInv => OneOwner
  BY DEF IInv
<1>2. QED
  BY <1>1, InductiveInvariant, PTL

\* After runnableGroup.stop has returned, no runnable of the group runs again.
THEOREM StoppedGroupsAreQuiet == Spec => []StopMeansQuiet
<1>1. IInv => StopMeansQuiet
  BY DEF IInv
<1>2. QED
  BY <1>1, InductiveInvariant, PTL

\* An Engage that failed left nothing registered, and what its setup started is
\* stopped or being stopped.
THEOREM FailureLeavesNothingWired == Spec => []FailedIsUnwired
<1>1. Init => Undone
  BY ThreadFacts, WiringAssumption DEF Init, Undone, HasGroup, Registered, Failed
<1>2. IInv /\ Undone /\ [Next]_vars => Undone'
  BY UndonePreserved
<1>3. IInv /\ Undone => FailedIsUnwired
  BY UnregisteredIsStopping
<1>4. QED
  BY <1>1, <1>2, <1>3, InductiveInvariant, PTL DEF Spec

\* With a provider that waits for a disengagement before it engages a workspace
\* again, a workspace whose Engage returned nil is wired for as long as it is
\* there, even where its context ended in the middle of an Engage before.
THEOREM RejoiningIsClean == ~RejoinEarly => (Spec => []RejoinedIsWired)
<1> SUFFICES ASSUME ~RejoinEarly PROVE Spec => []RejoinedIsWired
  OBVIOUS
<1>1. InTurn /\ [Next]_vars => InTurn'
  BY InTurnPreserved
<1>2. InTurn => RejoinedIsWired
  BY WiringAssumption DEF InTurn, KeepsItsPlace, RejoinedIsWired
<1> QED
  BY <1>1, <1>2, InitInTurn, PTL DEF Spec

\* The wiring implements Service, with a provider that waits for a disengagement
\* before it engages a workspace again: one engagement's controllers have
\* returned before the next one's are set up, for any number of workspaces and
\* engagements (wiring.go:218-286).
THEOREM WiringServesInTurn == ~RejoinEarly => (Spec => ServesInTurn)
<1> SUFFICES ASSUME ~RejoinEarly PROVE Spec => ServesInTurn
  OBVIOUS
<1>1. Init => Serving!Init
  <2> SUFFICES ASSUME Init PROVE Serving!Init
    OBVIOUS
  <2>1. \A e \in Engagements : ~HasGroup(e)
    BY ThreadFacts DEF Init, HasGroup
  <2> QED
    BY <2>1 DEF Init, Serving!Init
<1>2. HandingOver /\ [Next]_vars => HandingOver'
  BY HandingOverPreserved
<1>3. HandingOver /\ [Next]_vars => [Serving!Next]_(Serving!vars)
  BY StepIsService
<1> QED
  BY <1>1, <1>2, <1>3, InitHandingOver, PTL DEF Spec, ServesInTurn, Serving!Spec

\* No workspace is ever reconciled on behalf of two engagements at once, with
\* such a provider: what holds of Service holds of its implementation.
THEOREM NobodyIsServedTwice == ~RejoinEarly => (Spec => []Serving!ServedOnce)
<1> SUFFICES ASSUME ~RejoinEarly PROVE Spec => []Serving!ServedOnce
  OBVIOUS
<1>1. Serving!Init => Serving!ServedOnce
  BY DEF Serving!Init, Serving!ServedOnce
<1>2. TypeOK /\ Serving!ServedOnce /\ [Serving!Next]_(Serving!vars) => Serving!ServedOnce'
  BY ServiceServesOnce DEF TypeOK
<1> QED
  BY <1>1, <1>2, TypeCorrect, WiringServesInTurn, PTL DEF ServesInTurn, Serving!Spec

=============================================================================
