------------------------------- MODULE Wiring -------------------------------
(***************************************************************************)
(* The per-workspace seam of internal/providerwiring: Wiring.Engage runs a *)
(* SetupFunc for a workspace that joined, a goroutine per engagement waits *)
(* for the engagement's context and disengages it, and Wiring.Start stops  *)
(* everything when the process's context ends.                             *)
(*                                                                         *)
(* One engagement is one call of Engage.  It owns two threads: the call    *)
(* itself and the watcher goroutine it spawns.  The runnableGroup it       *)
(* creates, if it creates one, is named after it.  A section under w.mu or *)
(* g.mu is one action; whatever the code does between two sections is a    *)
(* step that other threads interleave with.                                *)
(*                                                                         *)
(* This module is Wiring with Options.Telemetry nil: the steps at which    *)
(* the recorder is called are here and touch nothing else.  WiringTelemetry*)
(* adds the recorder.                                                      *)
(*                                                                         *)
(* External: the provider of multicluster-runtime, which calls Engage and  *)
(* cancels contexts (Join, Leave, Shutdown), the SetupFunc, GetManager and *)
(* the runnables.                                                          *)
(***************************************************************************)
EXTENDS Integers, FiniteSets

CONSTANTS
  Engagements,        \* bound: the calls of Engage in one behaviour
  Workspaces,
  None,               \* no group, no workspace
  MaxRunnables,       \* bound: runnables of one group that run at once
  \* What the provider may do.  Its de-duplication is documented as racy, and
  \* nothing tells it when a disengagement has completed.
  DuplicateEngage,    \* Engage a workspace whose engagement is still live
  RejoinEarly,        \* Engage again before the last disengagement completed
  LeaveDuringEngage   \* cancel a context while its Engage still runs

ASSUME WiringAssumption ==
  /\ None \notin Engagements /\ None \notin Workspaces
  /\ MaxRunnables \in Nat \ {0}
  /\ {DuplicateEngage, RejoinEarly, LeaveDuringEngage} \subseteq BOOLEAN

VARIABLES
  workspace,  \* the workspace of each engagement
  ctx,        \* its context: "none" before it joined, then "live", "done"
  pc,         \* where each thread is
  held,       \* the group a thread took out of the map, to stop it
  result,     \* what the call returned: "none", "nil", "err"
  engaged,    \* Wiring.engaged: the group registered for each workspace
  stopped,    \* the groups with runnableGroup.stopped set (and ctx cancelled)
  running,    \* runnables of each group that have not returned (the WaitGroup)
  startPc,    \* where Wiring.Start is
  collected,  \* the groups Start took out of the map and has not stopped
  processDone \* the process's context has ended

callVars  == <<pc, held, result>>
groupVars == <<stopped, running>>
startVars == <<startPc, collected, processDone>>
vars      == <<workspace, ctx, callVars, engaged, groupVars, startVars>>

Call(e)    == <<"call", e>>
Watcher(e) == <<"watcher", e>>
Threads    == {"call", "watcher"} \X Engagements

\* Where a thread can be; disengage is "delete" to "wait", of either thread.
Disengaging == {"delete", "release", "stop", "wait"}
CallPc      == {"idle", "enter", "manager", "setup", "noManager", "noSetup", "record", "returned"}
WatcherPc   == {"none", "armed", "done"}
StartPc     == {"idle", "waiting", "stopping", "draining", "returned"}

TypeOK ==
  /\ workspace \in [Engagements -> Workspaces \cup {None}]
  /\ ctx \in [Engagements -> {"none", "live", "done"}]
  /\ pc \in [Threads -> CallPc \cup WatcherPc \cup Disengaging]
  /\ held \in [Threads -> Engagements \cup {None}]
  /\ result \in [Engagements -> {"none", "nil", "err"}]
  /\ engaged \in [Workspaces -> Engagements \cup {None}]
  /\ stopped \subseteq Engagements
  /\ running \in [Engagements -> Nat]
  /\ startPc \in StartPc
  /\ collected \subseteq Engagements
  /\ processDone \in BOOLEAN

Init ==
  /\ workspace = [e \in Engagements |-> None]
  /\ ctx = [e \in Engagements |-> "none"]
  /\ pc = [t \in Threads |-> IF t[1] = "call" THEN "idle" ELSE "none"]
  /\ held = [t \in Threads |-> None]
  /\ result = [e \in Engagements |-> "none"]
  /\ engaged = [w \in Workspaces |-> None]
  /\ stopped = {}
  /\ running = [e \in Engagements |-> 0]
  /\ startPc = "idle"
  /\ collected = {}
  /\ processDone = FALSE

-----------------------------------------------------------------------------
(* Helpers *)

Goto(t, from, to) == pc[t] = from /\ pc' = [pc EXCEPT ![t] = to]

\* The engagement created a runnableGroup: its watcher was spawned with it.
HasGroup(e) == pc[Watcher(e)] # "none"

\* Two forms the seam exists to rule out: a runnable bound to the process, and
\* one bound to nothing.
GroupDoneOfProcess(g) == processDone
GroupDoneNever(g)     == FALSE

\* The group's context: done when the group was stopped or its parent is done.
GroupDone(g) == g \in stopped \/ ctx[g] = "done"

\* Neither thread of the engagement has a step left to take.
Settled(e) ==
  /\ pc[Call(e)] \in {"idle", "returned"}
  /\ \/ pc[Watcher(e)] \in {"none", "done"}
     \/ pc[Watcher(e)] = "armed" /\ ctx[e] # "done"

\* Where a thread goes when its disengage returns.
AfterDisengage(t) == IF t[1] = "call" THEN "returned" ELSE "done"

-----------------------------------------------------------------------------
(* The provider *)

Failed(e) == pc[Call(e)] = "returned" /\ result[e] = "err"

\* The engagements of w the provider believes in: a failed one is logged and
\* forgotten, and the next event of its binding engages the workspace again.
Known(w) == {e \in Engagements : workspace[e] = w /\ ctx[e] = "live" /\ ~Failed(e)}

Unsettled(w) == {e \in Engagements : workspace[e] = w /\ (ctx[e] = "live" \/ ~Settled(e))}

Join(e, w) ==
  /\ ctx[e] = "none" /\ ~processDone
  /\ DuplicateEngage \/ Known(w) = {}
  /\ RejoinEarly \/ Unsettled(w) = {}
  /\ Goto(Call(e), "idle", "enter")
  /\ workspace' = [workspace EXCEPT ![e] = w]
  /\ ctx' = [ctx EXCEPT ![e] = "live"]
  /\ UNCHANGED <<held, result, engaged, groupVars, startVars>>

Leave(e) ==
  /\ ctx[e] = "live"
  /\ LeaveDuringEngage \/ pc[Call(e)] = "returned"
  /\ ctx' = [ctx EXCEPT ![e] = "done"]
  /\ UNCHANGED <<workspace, callVars, engaged, groupVars, startVars>>

\* Every engagement's context descends from the process's.
Shutdown ==
  /\ ~processDone
  /\ processDone' = TRUE
  /\ ctx' = [e \in Engagements |-> IF ctx[e] = "live" THEN "done" ELSE ctx[e]]
  /\ UNCHANGED <<workspace, callVars, engaged, groupVars, startPc, collected>>

-----------------------------------------------------------------------------
(* Wiring.Engage *)

\* The workspace is already engaged: return nil and spawn nothing.
EngageAgain(e) ==
  /\ Goto(Call(e), "enter", "returned")
  /\ engaged[workspace[e]] # None
  /\ result' = [result EXCEPT ![e] = "nil"]
  /\ UNCHANGED <<workspace, ctx, held, engaged, groupVars, startVars>>

\* Register the group under w.mu, then spawn the watcher.
EngageNewUnguarded(e) ==
  /\ pc[Call(e)] = "enter"
  /\ pc' = [pc EXCEPT ![Call(e)] = "manager", ![Watcher(e)] = "armed"]
  /\ engaged' = [engaged EXCEPT ![workspace[e]] = e]
  /\ UNCHANGED <<workspace, ctx, held, result, groupVars, startVars>>

EngageNew(e) ==
  /\ pc[Call(e)] = "enter" /\ engaged[workspace[e]] = None
  /\ pc' = [pc EXCEPT ![Call(e)] = "manager", ![Watcher(e)] = "armed"]
  /\ engaged' = [engaged EXCEPT ![workspace[e]] = e]
  /\ UNCHANGED <<workspace, ctx, held, result, groupVars, startVars>>

GetManager(e) ==
  /\ Goto(Call(e), "manager", "setup") \/ Goto(Call(e), "manager", "noManager")
  /\ UNCHANGED <<workspace, ctx, held, result, engaged, groupVars, startVars>>

\* The SetupFunc registers a runnable: workspaceManager.Add, hence
\* runnableGroup.Add.  A refusal (ErrDisengaged) changes nothing, and leaves
\* the SetupFunc to return either way.
AddAlways(e) ==
  /\ pc[Call(e)] = "setup"
  /\ running[e] < MaxRunnables
  /\ running' = [running EXCEPT ![e] = @ + 1]
  /\ UNCHANGED <<workspace, ctx, callVars, engaged, stopped, startVars>>

Add(e) ==
  /\ pc[Call(e)] = "setup"
  /\ e \notin stopped
  /\ running[e] < MaxRunnables
  /\ running' = [running EXCEPT ![e] = @ + 1]
  /\ UNCHANGED <<workspace, ctx, callVars, engaged, stopped, startVars>>

SetupReturns(e) ==
  /\ Goto(Call(e), "setup", "record") \/ Goto(Call(e), "setup", "noSetup")
  /\ UNCHANGED <<workspace, ctx, held, result, engaged, groupVars, startVars>>

\* recordFailure, on the way to disengaging what setup left behind.
RecordFailureKeepsGroup(e) ==
  /\ pc[Call(e)] \in {"noManager", "noSetup"}
  /\ pc' = [pc EXCEPT ![Call(e)] = "returned"]
  /\ result' = [result EXCEPT ![e] = "err"]
  /\ UNCHANGED <<workspace, ctx, held, engaged, groupVars, startVars>>

RecordFailure(e) ==
  /\ pc[Call(e)] \in {"noManager", "noSetup"}
  /\ pc' = [pc EXCEPT ![Call(e)] = "delete"]
  /\ result' = [result EXCEPT ![e] = "err"]
  /\ UNCHANGED <<workspace, ctx, held, engaged, groupVars, startVars>>

\* telemetry.Engaged, once setup has succeeded; Engage returns nil.
RecordEngaged(e) ==
  /\ Goto(Call(e), "record", "returned")
  /\ result' = [result EXCEPT ![e] = "nil"]
  /\ UNCHANGED <<workspace, ctx, held, engaged, groupVars, startVars>>

-----------------------------------------------------------------------------
(* The watcher goroutine and Wiring.disengage, run by either thread *)

ContextDone(e) ==
  /\ ctx[e] = "done"
  /\ Goto(Watcher(e), "armed", "delete")
  /\ UNCHANGED <<workspace, ctx, held, result, engaged, groupVars, startVars>>

DeleteKeepsEntry(t) ==
  /\ Goto(t, "delete", "release")
  /\ held' = [held EXCEPT ![t] = engaged[workspace[t[2]]]]
  /\ UNCHANGED <<workspace, ctx, result, engaged, groupVars, startVars>>

\* Under w.mu: whatever group is registered for the workspace, forget it.
Delete(t) ==
  LET w == workspace[t[2]] IN
  /\ Goto(t, "delete", "release")
  /\ held' = [held EXCEPT ![t] = engaged[w]]
  /\ engaged' = [engaged EXCEPT ![w] = None]
  /\ UNCHANGED <<workspace, ctx, result, groupVars, startVars>>

\* telemetry.Disengaged, then on to stopping the group if there was one.
Release(t) ==
  /\ \/ held[t] # None /\ Goto(t, "release", "stop")
     \/ held[t] = None /\ Goto(t, "release", AfterDisengage(t))
  /\ UNCHANGED <<workspace, ctx, held, result, engaged, groupVars, startVars>>

\* runnableGroup.stop up to its Wait: set stopped under g.mu, and cancel.
Stop(t) ==
  /\ Goto(t, "stop", "wait")
  /\ stopped' = stopped \cup {held[t]}
  /\ UNCHANGED <<workspace, ctx, held, result, engaged, running, startVars>>

\* Mutant: stop returns without waiting for the runnables.
WaitForNothing(t) ==
  /\ Goto(t, "wait", AfterDisengage(t))
  /\ UNCHANGED <<workspace, ctx, held, result, engaged, groupVars, startVars>>

\* wg.Wait returns.
Wait(t) ==
  /\ Goto(t, "wait", AfterDisengage(t))
  /\ running[held[t]] = 0
  /\ UNCHANGED <<workspace, ctx, held, result, engaged, groupVars, startVars>>

-----------------------------------------------------------------------------
(* Wiring.Start.  A second call of it returns ErrStarted and changes nothing. *)

StartWaits ==
  /\ startPc = "idle" /\ startPc' = "waiting"
  /\ UNCHANGED <<workspace, ctx, callVars, engaged, groupVars, collected, processDone>>

\* The context is done: collect the groups and clear the map, under w.mu.
StartCollects ==
  /\ startPc = "waiting" /\ processDone
  /\ startPc' = "stopping"
  /\ collected' = {engaged[w] : w \in Workspaces} \ {None}
  /\ engaged' = [w \in Workspaces |-> None]
  /\ UNCHANGED <<workspace, ctx, callVars, groupVars, processDone>>

\* group.stop() of each collected group in turn, in map order.
StartStops(g) ==
  /\ startPc = "stopping" /\ g \in collected \ stopped
  /\ startPc' = "draining"
  /\ stopped' = stopped \cup {g}
  /\ UNCHANGED <<workspace, ctx, callVars, engaged, running, collected, processDone>>

StartDrained ==
  /\ startPc = "draining"
  /\ \A g \in collected \cap stopped : running[g] = 0
  /\ startPc' = "stopping"
  /\ UNCHANGED <<workspace, ctx, callVars, engaged, groupVars, collected, processDone>>

StartReturns ==
  /\ startPc = "stopping" /\ collected \subseteq stopped
  /\ startPc' = "returned"
  /\ UNCHANGED <<workspace, ctx, callVars, engaged, groupVars, collected, processDone>>

-----------------------------------------------------------------------------
(* Runnables: one may return at any time, and does once its context is done. *)

RunnableReturns(g) ==
  /\ running[g] > 0
  /\ running' = [running EXCEPT ![g] = @ - 1]
  /\ UNCHANGED <<workspace, ctx, callVars, engaged, stopped, startVars>>

-----------------------------------------------------------------------------

\* The steps at which the code calls the recorder are the three Record... and
\* Release actions; WiringTelemetry pairs those with the recorder's.
CallStep(e) ==
  \/ EngageAgain(e) \/ EngageNew(e)
  \/ GetManager(e) \/ Add(e) \/ SetupReturns(e)

DisengageStep(t) == Delete(t) \/ Stop(t) \/ Wait(t)

StartStep ==
  \/ StartWaits \/ StartCollects \/ StartDrained \/ StartReturns
  \/ \E g \in Engagements : StartStops(g)

UnrecordedStep ==
  \/ Shutdown \/ StartStep
  \/ \E e \in Engagements :
       \/ Leave(e) \/ CallStep(e) \/ ContextDone(e) \/ RunnableReturns(e)
       \/ \E w \in Workspaces : Join(e, w)
  \/ \E t \in Threads : DisengageStep(t)

Next ==
  \/ UnrecordedStep
  \/ \E e \in Engagements : RecordFailure(e) \/ RecordEngaged(e)
  \/ \E t \in Threads : Release(t)

Spec == Init /\ [][Next]_vars

\* What each of the two goroutines of an engagement does next.  Add is left
\* out: a SetupFunc is not obliged to register anything.
CallProceeds(e) ==
  \/ EngageAgain(e) \/ EngageNew(e) \/ GetManager(e) \/ SetupReturns(e)
  \/ RecordFailure(e) \/ RecordEngaged(e)
  \/ Release(Call(e)) \/ DisengageStep(Call(e))

WatcherProceeds(e) == ContextDone(e) \/ Release(Watcher(e)) \/ DisengageStep(Watcher(e))

\* Goroutines are scheduled; GetManager and the SetupFunc return; a runnable
\* returns once its context is done, as manager.Runnable asks of it.  Nothing
\* makes the provider call, or a workspace leave.
Fairness ==
  /\ \A e \in Engagements :
       /\ WF_vars(CallProceeds(e))
       /\ WF_vars(WatcherProceeds(e))
       /\ WF_vars(GroupDone(e) /\ RunnableReturns(e))
  /\ WF_vars(StartStep)

FairSpec == Spec /\ Fairness

-----------------------------------------------------------------------------
(* Properties *)

Registered(g) == \E w \in Workspaces : engaged[w] = g
Taken(g)      == \E t \in Threads : held[t] = g

\* Every group that was created has exactly one owner, and always has one: the
\* map, which will yield it to a disengage; the thread whose disengage took it
\* out; or Start.  So no interleaving of Engage's failure path, the watcher and
\* Start loses a group nobody will stop, or stops one twice (FR-012: a
\* disengagement releases everything the engagement acquired).
OneOwner ==
  /\ \A g \in Engagements :
       /\ HasGroup(g) <=> Registered(g) \/ Taken(g) \/ g \in collected
       /\ ~(Registered(g) /\ Taken(g))
       /\ ~(Registered(g) /\ g \in collected)
       /\ ~(Taken(g) /\ g \in collected)
  /\ \A t, u \in Threads : held[t] # None /\ held[t] = held[u] => t = u
  /\ \A w, v \in Workspaces : engaged[w] # None /\ engaged[w] = engaged[v] => w = v

\* When runnableGroup.stop has returned, whoever called it, no runnable of the
\* group runs, and none ever does again: a setup that races the stop has its
\* runnables refused (wiring.go:255-286).
StopMeansQuiet ==
  /\ \A t \in Threads :
       held[t] # None /\ pc[t] \in {"returned", "done"} => running[held[t]] = 0
  /\ startPc = "returned" => \A g \in collected : running[g] = 0

\* An Engage that returned an error left nothing registered, and a runnable of
\* its setup that still runs is being stopped by somebody: by the watcher or by
\* Start, when one of them took the group before the failing call could
\* ("not left half-wired").
BeingStopped(g) ==
  \/ \E t \in Threads : held[t] = g /\ pc[t] \in {"release", "stop", "wait"}
  \/ g \in collected /\ startPc # "returned"

FailedIsUnwired ==
  \A e \in Engagements :
    Failed(e) => ~Registered(e) /\ (running[e] > 0 => BeingStopped(e))

\* Once its workspace has left, an engagement's runnables end and its group is
\* unregistered, both for good, whatever its Engage or the process was doing at
\* that moment (FR-004).
LeavingReleases ==
  \A e \in Engagements : (ctx[e] = "done") ~> [](running[e] = 0 /\ ~Registered(e))

\* Start returns once the process's context is done: nothing it waits for
\* waits for it.
StartReturnsEventually == (startPc = "waiting" /\ processDone) ~> (startPc = "returned")

\* A call of Engage that found a group registered can only have found one that
\* was set up or is being set up; when every thread has come to rest, a
\* workspace whose latest Engage returned nil and whose context is live has a
\* registered group of a live engagement ("a workspace that left and came back
\* must wire cleanly").
RejoinedIsWired ==
  (\A e \in Engagements : Settled(e)) =>
    \A e \in Engagements :
      ctx[e] = "live" /\ result[e] = "nil" =>
        LET g == engaged[workspace[e]] IN g # None /\ ctx[g] = "live"

\* The service a workspace gets: an engagement begins when its group is made, is
\* closed when the group is stopped, and runs what its setup registered.
Serving == INSTANCE Service WITH
  home <- [e \in Engagements |-> IF HasGroup(e) THEN workspace[e] ELSE None],
  open <- {e \in Engagements : HasGroup(e) /\ e \notin stopped},
  runs <- running

\* The wiring implements Service: a workspace's controllers of one engagement have
\* all returned before those of the next are set up, and none starts after its
\* group was stopped, although failing calls, watchers and Start may each be the
\* one that stops it (wiring.go:218-234 and 255-286).
ServesInTurn == Serving!Spec

\* disengage stops the work of the engagement it was called for, never that of
\* a later engagement whose workspace is still there: the second of the two
\* calls a failed engagement ends in is harmless (wiring.go:218-220).
DisengageSparesOthers ==
  [][\A t \in Threads :
       LET g == held'[t] IN g \notin {held[t], None, t[2]} => ctx[g] # "live"]_vars

=============================================================================
