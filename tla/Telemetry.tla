----------------------------- MODULE Telemetry -----------------------------
(***************************************************************************)
(* The Recorder of internal/workspacetelemetry: it attributes reconciles   *)
(* and engagement failures to workspaces, keeps a counter for every one of *)
(* them, and exports a workspace label for the TopN busiest only.          *)
(*                                                                         *)
(* Every method holds r.mu for its whole body, so each is one action.      *)
(* Workspace names are ordered (ties in the ranking are broken by name), so*)
(* they are modelled as integers.  Counters are uint64 in the code; the    *)
(* model keeps them in Nat, bounded by MaxReconciles and MaxFailures, and  *)
(* the one subtraction (in Snapshot) is a property of its own.             *)
(***************************************************************************)
EXTENDS Integers, FiniteSets, FiniteSetsExt

CONSTANTS
  Workspaces,         \* workspace names; their order is the order of names
  Reasons,            \* engagement failure reasons
  TopN,               \* how many workspaces are exported with a label
  MaxFailureReasons,  \* how many reasons get a series of their own
  MaxReconciles,      \* bound: reconciles recorded in one behaviour
  MaxFailures         \* bound: failed engagements in one behaviour

ASSUME TelemetryAssumption ==
  /\ Workspaces \subseteq Int /\ IsFiniteSet(Workspaces)
  /\ IsFiniteSet(Reasons)
  /\ TopN \in Nat \ {0}               \* New replaces 0 by a default
  /\ MaxFailureReasons \in Nat \ {0}
  /\ MaxReconciles \in Nat /\ MaxFailures \in Nat

VARIABLES
  load,                \* workspace -> reconciles, for the tracked workspaces
  engaged,             \* the workspaces counted as engaged
  labelled,            \* the workspaces exported with a label
  released,            \* series retired so far
  exported,            \* history: series that were ever exported
  totalReconciles,
  engagementFailures,
  failuresByReason     \* reason -> failures, for the retained reasons

loadVars    == <<load, totalReconciles>>
seriesVars  == <<labelled, released, exported>>
failureVars == <<engagementFailures, failuresByReason>>
vars        == <<loadVars, seriesVars, failureVars, engaged>>

TypeOK ==
  /\ DOMAIN load \subseteq Workspaces /\ \A w \in DOMAIN load : load[w] \in Nat
  /\ engaged \subseteq Workspaces
  /\ labelled \subseteq Workspaces
  /\ released \in Nat /\ exported \in Nat
  /\ totalReconciles \in Nat /\ engagementFailures \in Nat
  /\ DOMAIN failuresByReason \subseteq Reasons
  /\ \A r \in DOMAIN failuresByReason : failuresByReason[r] \in Nat \ {0}

Init ==
  /\ load = [w \in {} |-> 0]
  /\ engaged = {}
  /\ labelled = {} /\ released = 0 /\ exported = 0
  /\ totalReconciles = 0
  /\ engagementFailures = 0
  /\ failuresByReason = [r \in {} |-> 0]

-----------------------------------------------------------------------------
(* Counters *)

\* The value a counter map holds for x; Go's zero value when it holds none.
CountOf(f, x) == IF x \in DOMAIN f THEN f[x] ELSE 0

\* The counter map f with x's counter at n, added when it was missing.
WithCount(f, x, n) == [y \in DOMAIN f \cup {x} |-> IF y = x THEN n ELSE f[y]]

Without(f, x) == [y \in DOMAIN f \ {x} |-> f[y]]

-----------------------------------------------------------------------------
(* The ranking *)

\* The comparison Snapshot sorts by: more reconciles first, then by name.
Precedes(v, w) ==
  \/ load[v] > load[w]
  \/ load[v] = load[w] /\ v < w

Ahead(w) == {v \in DOMAIN load : Precedes(v, w)}

\* The first TopN of the ranking, or all of it when it is shorter.
Top == {w \in DOMAIN load : Cardinality(Ahead(w)) < TopN}

-----------------------------------------------------------------------------
(* The Recorder's methods *)

Engaged(w) ==
  /\ engaged' = engaged \cup {w}
  /\ load' = WithCount(load, w, CountOf(load, w))
  /\ UNCHANGED <<totalReconciles, seriesVars, failureVars>>

DisengagedNotReleased(w) ==
  /\ engaged' = engaged \ {w}
  /\ load' = Without(load, w)
  /\ labelled' = labelled \ {w}
  /\ UNCHANGED <<released, exported, totalReconciles, failureVars>>

Disengaged(w) ==
  /\ engaged' = engaged \ {w}
  /\ load' = Without(load, w)
  /\ labelled' = labelled \ {w}
  /\ released' = IF w \in labelled THEN released + 1 ELSE released
  /\ UNCHANGED <<exported, totalReconciles, failureVars>>

\* The method takes the workspace and does not use it.
EngagementFailed(w, r) ==
  /\ engagementFailures < MaxFailures
  /\ engagementFailures' = engagementFailures + 1
  /\ failuresByReason' =
       IF r \in DOMAIN failuresByReason
          \/ Cardinality(DOMAIN failuresByReason) < MaxFailureReasons
       THEN WithCount(failuresByReason, r, CountOf(failuresByReason, r) + 1)
       ELSE failuresByReason
  /\ UNCHANGED <<loadVars, seriesVars, engaged>>

RecordReconcileUncounted(w) ==
  /\ CountOf(load, w) < MaxReconciles
  /\ load' = WithCount(load, w, CountOf(load, w) + 1)
  /\ UNCHANGED <<totalReconciles, engaged, seriesVars, failureVars>>

\* Not conditional on w being engaged: it adds the entry it does not find.
RecordReconcile(w) ==
  /\ totalReconciles < MaxReconciles
  /\ load' = WithCount(load, w, CountOf(load, w) + 1)
  /\ totalReconciles' = totalReconciles + 1
  /\ UNCHANGED <<engaged, seriesVars, failureVars>>

Snapshot ==
  /\ labelled' = Top
  /\ released' = released + Cardinality(labelled \ Top)
  /\ exported' = exported + Cardinality(Top \ labelled)
  /\ UNCHANGED <<loadVars, engaged, failureVars>>

Next ==
  \/ \E w \in Workspaces :
       \/ Engaged(w)
       \/ Disengaged(w)
       \/ RecordReconcile(w)
       \/ \E r \in Reasons : EngagementFailed(w, r)
  \/ Snapshot

Spec == Init /\ [][Next]_vars

-----------------------------------------------------------------------------
(* What Snapshot returns *)

LabelledReconciles == SumFunctionOnSet(load, Top)

\* Over the integers; the code subtracts uint64s.
RemainderReconciles == totalReconciles - LabelledReconciles

RemainderWorkspaces == Cardinality(DOMAIN load) - Cardinality(Top)

-----------------------------------------------------------------------------
(* Properties *)

\* The exported set never holds more than TopN workspaces, however many are
\* tracked and whatever their loads (Options.TopN, telemetry.go:42-44).
CardinalityBounded == Cardinality(labelled) <= TopN

\* A label names a workspace the Recorder still tracks: none survives the
\* disengagement of its workspace, from whichever side it was added.
LabelsAreTracked == labelled \subseteq DOMAIN load

\* Every series exported is retired exactly once: by being displaced in a
\* Snapshot or by Disengaged, never by both and never by neither.
SeriesConserved == exported = released + Cardinality(labelled)

\* The two unsigned subtractions in Snapshot never wrap, even though a
\* workspace's counter is dropped with it while its reconciles stay in the
\* total (telemetry.go:208-209).
RemainderNeverUnderflows == RemainderReconciles >= 0 /\ RemainderWorkspaces >= 0

\* Failure reasons are capped, and the cap loses attribution, never magnitude:
\* while there is room for another reason, every failure is attributed
\* (telemetry.go:133-134).
FailuresAttributed ==
  LET attributed == SumFunction(failuresByReason)
      retained   == Cardinality(DOMAIN failuresByReason)
  IN  /\ retained <= MaxFailureReasons
      /\ attributed <= engagementFailures
      /\ retained < MaxFailureReasons => attributed = engagementFailures

\* What Snapshot reports adds up, at every moment at which one may be taken.
AccountsBalance == RemainderNeverUnderflows /\ FailuresAttributed

=============================================================================
