------------------------------- MODULE Sweep -------------------------------
(***************************************************************************)
(* One live sweep (test/integration/sweep): workspaces are engaged and     *)
(* activated one by one up to Peak, then leave one by one, and a sample is *)
(* taken after each step.  The reports are computed by module Scale.       *)
(*                                                                         *)
(* External: what the process costs.  Serving k workspaces costs curve[k], *)
(* each active one Work more, and each that left keeps retains.  The last  *)
(* departure also stops the shared cache.  A read may catch a transient    *)
(* goroutine.                                                              *)
(***************************************************************************)
EXTENDS Scale

CONSTANTS
  Peak,
  Curves,        \* functions of 0..Peak
  Retains,
  Work,
  MaxTransients  \* bound: reads that catch one

ASSUME SweepAssumption ==
  /\ Peak \in Nat \ {0, 1} /\ Work \in Nat /\ MaxTransients \in Nat
  /\ Curves \subseteq [0..Peak -> Nat] /\ Retains \subseteq Nat

VARIABLES
  curve, retains, \* never change
  step,     \* "baseline", "engage", "activate", "depart"
  serving,  \* workspaces engaged
  samples,
  caught,   \* history: transients caught so far
  muddied   \* history: the samples, by index, that hold one

sweepVars == <<curve, retains, step, serving, samples, caught, muddied>>

SweepInit ==
  /\ curve \in Curves /\ retains \in Retains
  /\ step = "baseline" /\ serving = 0
  /\ samples = <<>> /\ caught = 0 /\ muddied = {}

Noise == {0, 1}

\* The cost is true, with noise more; reads that caught one are counted.
Sample(phase, workspaces, cost, noise, reads) ==
  /\ caught + reads <= MaxTransients
  /\ caught' = caught + reads
  /\ samples' = Append(samples, [phase |-> phase, workspaces |-> workspaces,
                                 goroutines |-> cost + noise])
  /\ muddied' = IF noise = 0 THEN muddied ELSE muddied \cup {Len(samples')}

Take(phase, workspaces, cost) ==
  \E noise \in Noise : Sample(phase, workspaces, cost, noise, noise)

\* Two reads, and the lower is kept.
TakeLowest(phase, workspaces, cost) ==
  \E n1, n2 \in Noise :
    Sample(phase, workspaces, cost, IF n1 < n2 THEN n1 ELSE n2, n1 + n2)

\* The manager has not been started: the shared cache is missing too.
Baseline ==
  /\ step = "baseline"
  /\ Take("baseline", 0, curve[0])
  /\ step' = "engage"
  /\ UNCHANGED <<curve, retains, serving>>

EngageOne ==
  /\ step = "engage" /\ serving < Peak
  /\ serving' = serving + 1
  /\ Take("engaged", serving', curve[serving'] + Work * serving)
  /\ step' = "activate"
  /\ UNCHANGED <<curve, retains>>

Activate ==
  /\ step = "activate"
  /\ Take("active", serving, curve[serving] + Work * serving)
  /\ step' = IF serving = Peak THEN "depart" ELSE "engage"
  /\ UNCHANGED <<curve, retains, serving>>

Remaining(k) ==
  IF k = 0 THEN curve[0] ELSE curve[k] + Work * k + retains * (Peak - k)

Depart ==
  /\ step = "depart" /\ serving > 0
  /\ serving' = serving - 1
  /\ TakeLowest("disengaged", serving', Remaining(serving'))
  /\ UNCHANGED <<curve, retains, step>>

SweepNext == Baseline \/ EngageOne \/ Activate \/ Depart

SweepSpec == SweepInit /\ [][SweepNext]_sweepVars

-----------------------------------------------------------------------------
Clean(i) == i \notin muddied
Of(phase) == {i \in DOMAIN samples : samples[i].phase = phase}

\* The active samples as a run of the scale model; heap is what they cost.
SweptRun ==
  [service |-> TRUE, mode |-> "observed", listeners |-> 1,
   profile |-> [named |-> TRUE, objects |-> 1, rate |-> 0],
   measurements |-> [i \in DOMAIN InPhase(samples, "active") |->
                       LET s == InPhase(samples, "active")[i]
                       IN [workspaces |-> s.workspaces, heap |-> s.goroutines, process |-> 0]]]

\* The true costs lie on a line, from the first workspace on.
IsLine == \A k \in 2..(Peak - 1) : 2 * curve[k] = curve[k - 1] + curve[k + 1]

(* What a departed workspace keeps is found exactly, as long as no sample on *)
(* the way up caught a transient and one comparable sample on the way down   *)
(* caught none: the lowest of the estimates drops every one-off              *)
(* (retained.go:47-60).                                                      *)
RetentionIsExact ==
  (/\ step = "depart"
   /\ \A i \in Of("active") : Clean(i)
   /\ \E i \in Of("disengaged") : Clean(i) /\ samples[i].workspaces \in 1..(Peak - 1))
  => \E r \in RetainedDetail(samples) : Same(r.perDeparture, Ratio(retains, 1))

(* What is said of the idle cost is true at every step of the sweep, its     *)
(* teardown included: a departure is claimed exactly where the cost leaves   *)
(* the line through the two smallest counts by more than a quarter, and      *)
(* never from too few counts.  Neither the baseline, nor the samples of      *)
(* activations, nor those on the way down are points, but for one: what the  *)
(* process costs with nobody left is a count of its own, and the line then   *)
(* starts there (report.go:428-439).                                         *)
DepartureIsReal ==
  LET first == IF step = "depart" /\ serving = 0 THEN 0 ELSE 1
      last  == IF step = "depart" THEN Peak ELSE serving
      Idle(k) == IF k = 0 THEN curve[0] ELSE curve[k] + Work * (k - 1)
      Line(k) == Idle(first) + (Idle(first + 1) - Idle(first)) * (k - first)
      leaves == {k \in (first + 2)..last : Line(k) > 0 /\ 4 * Idle(k) > 5 * Line(k)}
  IN (\A i \in Of("engaged") \cup {j \in Of("disengaged") : samples[j].workspaces = 0} : Clean(i)) =>
       ReportDeparture(samples) =
         IF last - first + 1 < DefaultMinPoints THEN CouldNotRun
         ELSE IF leaves = {} THEN NoDeparture
         ELSE DepartsAt(CHOOSE k \in leaves : \A j \in leaves : k <= j)

(* The slope that the instrument reports and the one that the model is       *)
(* fitted with are one figure.  On a line every held-out count is predicted  *)
(* exactly, and the two ends are the ones that were extrapolated to          *)
(* (report.go:240-263; model.go:407-462).                                    *)
FitIsTheTrend ==
  LET active == PointsOf(InPhase(samples, "active"))
  IN samples # <<>> /\ Last(samples).phase = "active" =>
     /\ \A s \in PerWorkspace(active), c \in LeastSquares(active) :
          /\ Same(s, c.perWorkspace)
          /\ ~Less(c.rSquared, Ratio(0, 1)) /\ ~Less(Ratio(1, 1), c.rSquared)
     /\ \A vs \in HoldOut(SweptRun) : \A i \in DOMAIN vs :
          /\ vs[i].extrapolated <=> i \in {1, Len(vs)}
          /\ IsLine /\ (\A j \in Of("active") : Clean(j)) => vs[i].error.num = 0
     /\ \A m \in Fit(SweptRun) : \A w \in 0..(Peak + 1) :
          \A p \in Predict(m, Shape(SweptRun), w) :
            (IsLine /\ (\A j \in Of("active") : Clean(j)) /\ ~p.extrapolated) =>
              Same(p.heap, Ratio(curve[w] + Work * w, 1))
=============================================================================
