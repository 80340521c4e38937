-------------------------- MODULE WiringTelemetry --------------------------
(***************************************************************************)
(* Wiring with a Recorder: Options.Telemetry not nil.  Each of Wiring's    *)
(* recorded steps is one call of the Recorder, made outside w.mu, so that  *)
(* other threads run between it and what it records.                       *)
(*                                                                         *)
(* Nothing in the binaries records reconciles yet, so RecordReconcile is   *)
(* left to the module Telemetry; an exporter may take a Snapshot whenever. *)
(***************************************************************************)
EXTENDS Wiring

CONSTANTS
  Reasons, TopN, MaxFailureReasons, MaxReconciles, MaxFailures, \* Telemetry's
  MaxSnapshots  \* bound: snapshots that change what is exported

ManagerUnavailable == "manager-unavailable"
SetupFailed        == "setup-failed"

ASSUME WiringTelemetryAssumption ==
  /\ {ManagerUnavailable, SetupFailed} \subseteq Reasons
  /\ MaxFailures >= Cardinality(Engagements)   \* the bound is never met

VARIABLES load, recEngaged, labelled, released, exported,
          totalReconciles, engagementFailures, failuresByReason,
          late  \* history: setups recorded after their own disengagement was,
                \* and of which no later disengagement has been recorded

Recorder == INSTANCE Telemetry WITH engaged <- recEngaged

recorderVars == <<load, recEngaged, labelled, released, exported,
                  totalReconciles, engagementFailures, failuresByReason>>

allVars == <<vars, recorderVars, late>>

WTInit == Init /\ Recorder!Init /\ late = {}

Reason(e) == IF pc[Call(e)] = "noManager" THEN ManagerUnavailable ELSE SetupFailed

\* The recorder has been told that the engagement ended, by its watcher.
Told(e) == pc[Watcher(e)] \in {"stop", "wait", "done"}

\* A failed attempt is counted under its reason before it is undone.
RecordedFailure(e) ==
  RecordFailure(e) /\ Recorder!EngagementFailed(workspace[e], Reason(e)) /\ UNCHANGED late

RecordedEngagedNever(e) == RecordEngaged(e) /\ UNCHANGED <<recorderVars, late>>

\* Counted as engaged only once setup has succeeded: outside w.mu, and whether
\* or not the context is still live.
RecordedEngaged(e) ==
  /\ RecordEngaged(e)
  /\ Recorder!Engaged(workspace[e])
  /\ late' = late \cup {f \in {e} : Told(f)}

RecordedReleaseNever(t) == Release(t) /\ UNCHANGED <<recorderVars, late>>

\* Recorded for every disengage, whether or not there was a group to stop.
RecordedRelease(t) ==
  /\ Release(t)
  /\ Recorder!Disengaged(workspace[t[2]])
  /\ late' = {e \in late : workspace[e] # workspace[t[2]]}

Export ==
  /\ exported < MaxSnapshots
  /\ Recorder!Snapshot
  /\ UNCHANGED <<vars, late>>

WTNext ==
  \/ \E e \in Engagements : RecordedFailure(e) \/ RecordedEngaged(e)
  \/ \E t \in Threads : RecordedRelease(t)
  \/ UnrecordedStep /\ UNCHANGED <<recorderVars, late>>
  \/ Export

WTSpec == WTInit /\ [][WTNext]_allVars

-----------------------------------------------------------------------------
(* Properties *)

Quiet == \A e \in Engagements : Settled(e)

\* What the recorder holds something for: a count, a counter or a series.
Held == recEngaged \cup DOMAIN load \cup labelled

\* The workspaces that are wired and there.
Served == {w \in Workspaces : engaged[w] # None /\ ctx[engaged[w]] = "live"}

\* Whatever the provider does, the recorder holds something for a workspace only
\* on account of a setup that succeeded and whose end it has yet to be told of;
\* or of one it was told of too late (wiring.go:173, 226-228; FR-012).
HeldForASetup ==
  \A w \in Held :
    \E e \in Engagements :
      workspace[e] = w /\ HasGroup(e) /\ result[e] = "nil" /\ (Told(e) => e \in late)

\* Once every thread has come to rest, the workspaces counted as engaged are
\* those that are wired and there, each of them and no other; and those that
\* left during their setup, which nothing takes out (telemetry.go:219).
CountIsOfTheServed ==
  Quiet => recEngaged = Served \cup {workspace[e] : e \in late}

\* What FR-012 asks: disengagement releases everything the engagement acquired,
\* so that in a process that goes on running the recorder holds, at rest,
\* nothing for a workspace that is gone (telemetry.go:108-112).
TelemetryReleased == Quiet /\ ~processDone => Held \subseteq Served

\* What telemetry.go:219-220 says: the count is how many workspaces are currently
\* wired, so at rest one that is wired and there is in it.
ServedAreCounted == Quiet => Served \subseteq recEngaged

=============================================================================
