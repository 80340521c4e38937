------------------------------- MODULE Scale -------------------------------
(***************************************************************************)
(* The arithmetic over what a sweep measured: internal/sweep's departure,  *)
(* slope and retention, and internal/scaleharness's fitted model with its  *)
(* held-out validation.  Pure functions; module Sweep takes the samples.   *)
(*                                                                         *)
(* A float64 is a Ratio, exact.  A sample has a phase, a workspace count   *)
(* and a cost in goroutines; a point a count and a value.                  *)
(***************************************************************************)
EXTENDS Integers, FiniteSets, SequencesExt

Ratio(n, d) == IF d < 0 THEN [num |-> -n, den |-> -d] ELSE [num |-> n, den |-> d]
Less(p, q) == p.num * q.den < q.num * p.den
Same(p, q) == p.num * q.den = q.num * p.den

Total(F(_), seq) == SumFunction([i \in DOMAIN seq |-> F(seq[i])])

\* The place of seq[i] by workspaces.  SortSeq has no definition in the prover.
Place(seq, i) ==
  Cardinality({j \in DOMAIN seq :
                 \/ seq[j].workspaces < seq[i].workspaces
                 \/ seq[j].workspaces = seq[i].workspaces /\ j <= i})

ByWorkspaces(seq) == [n \in DOMAIN seq |-> seq[CHOOSE i \in DOMAIN seq : Place(seq, i) = n]]

InPhase(samples, phase) ==
  LET upTo[n \in 0..Len(samples)] ==
        IF n = 0 THEN <<>>
        ELSE IF samples[n].phase = phase THEN Append(upTo[n - 1], samples[n]) ELSE upTo[n - 1]
  IN  upTo[Len(samples)]

PointsOf(samples) ==
  [i \in DOMAIN samples |-> [workspaces |-> samples[i].workspaces, value |-> samples[i].goroutines]]

-----------------------------------------------------------------------------
(* Departure *)

DefaultMinPoints == 4

CouldNotRun   == [found |-> FALSE, workspaces |-> 0, couldNotRun |-> TRUE]
NoDeparture   == [found |-> FALSE, workspaces |-> 0, couldNotRun |-> FALSE]
DepartsAt(w)  == [found |-> TRUE, workspaces |-> w, couldNotRun |-> FALSE]

\* The default tolerance is a quarter.  Everything is times run.
FindDeparture(points) ==
  LET sorted == ByWorkspaces(points)
      run  == sorted[2].workspaces - sorted[1].workspaces
      rise == sorted[2].value - sorted[1].value
      Projected(p) == sorted[1].value * run + rise * (p.workspaces - sorted[1].workspaces)
      Exceeds(p) == Projected(p) > 0 /\ 4 * run * p.value > 5 * Projected(p)
      departed == {i \in 3..Len(sorted) : Exceeds(sorted[i])}
  IN IF Len(points) < DefaultMinPoints \/ run = 0 THEN CouldNotRun
     ELSE IF departed = {} THEN NoDeparture
     ELSE DepartsAt(sorted[CHOOSE i \in departed : \A j \in departed : i <= j].workspaces)

\* Mutant: the baseline is a point like any other.
ScalingWithBaseline(samples) ==
  LET upTo[n \in 0..Len(samples)] ==
        IF n = 0 THEN <<>>
        ELSE IF \E p \in ToSet(upTo[n - 1]) : p.workspaces = samples[n].workspaces
               THEN upTo[n - 1] ELSE Append(upTo[n - 1], samples[n])
  IN  upTo[Len(samples)]

\* The first sample of each count, baseline aside.
Scaling(samples) ==
  LET upTo[n \in 0..Len(samples)] ==
        IF n = 0 THEN <<>>
        ELSE IF \/ samples[n].phase = "baseline"
                \/ \E p \in ToSet(upTo[n - 1]) : p.workspaces = samples[n].workspaces
               THEN upTo[n - 1] ELSE Append(upTo[n - 1], samples[n])
  IN  upTo[Len(samples)]

ReportDeparture(samples) == FindDeparture(PointsOf(Scaling(samples)))

-----------------------------------------------------------------------------
(* Slope and fit *)

X(p)  == p.workspaces
Y(p)  == p.value
XY(p) == p.workspaces * p.value
XX(p) == p.workspaces * p.workspaces

\* From the sums.  Nothing, where the code returns NaN.
PerWorkspace(points) ==
  LET n == Len(points)
      denominator == n * Total(XX, points) - Total(X, points) * Total(X, points)
  IN IF n < 2 \/ denominator = 0 THEN {}
     ELSE {Ratio(n * Total(XY, points) - Total(X, points) * Total(Y, points), denominator)}

\* leastSquares works with the deviations from the means; here, n times those.
DevX(p, points) == Len(points) * p.workspaces - Total(X, points)
DevY(p, points) == Len(points) * p.value - Total(Y, points)
Sxx(points) == Total(LAMBDA p : DevX(p, points) * DevX(p, points), points)
Sxy(points) == Total(LAMBDA p : DevX(p, points) * DevY(p, points), points)
Syy(points) == Total(LAMBDA p : DevY(p, points) * DevY(p, points), points)

\* Coefficients.At: the line of slope Sxy/Sxx through the means.
OnLine(points, w) ==
  Ratio(Total(Y, points) * Sxx(points) + Sxy(points) * (Len(points) * w - Total(X, points)),
        Len(points) * Sxx(points))

Coefficients(points) ==
  LET Resid(p) == Len(points) * Sxx(points) * p.value - OnLine(points, p.workspaces).num
      ssRes == Total(LAMBDA p : Resid(p) * Resid(p), points)
      ssTot == Sxx(points) * Sxx(points) * Syy(points)
  IN [base |-> OnLine(points, 0),
      perWorkspace |-> Ratio(Sxy(points), Sxx(points)),
      rSquared |-> IF ssTot = 0 THEN Ratio(1, 1) ELSE Ratio(ssTot - ssRes, ssTot)]

\* No trend in workspace count can be fitted to points of one count.
LeastSquares(points) == IF points = <<>> \/ Sxx(points) = 0 THEN {} ELSE {Coefficients(points)}

LoadModes == {"synthetic", "observed"}
NoProfile(profile) == profile.objects = 0 /\ profile.rate > 0
ValidProfile(profile) == profile.named /\ profile.objects >= 0 /\ profile.rate >= 0 /\ ~NoProfile(profile)
ValidRun(run) == run.service /\ run.mode \in LoadModes /\ ValidProfile(run.profile)

MinFitPoints == 3

Shape(run) == [profile |-> run.profile, listeners |-> run.listeners]

\* A run of two quantities, fitted one by one: live heap, and the process
\* footprint when every measurement has one.  Nothing for an error.
Fit(run) ==
  LET ms == ByWorkspaces(run.measurements)
      Of(field) == [i \in DOMAIN ms |-> [workspaces |-> ms[i].workspaces, value |-> ms[i][field]]]
      haveProcess == \A m \in ToSet(ms) : m.process # 0
      heap == LeastSquares(Of("heap"))
  IN IF ~ValidRun(run) \/ Len(run.measurements) < MinFitPoints \/ heap = {} THEN {}
     ELSE {[shape |-> Shape(run), min |-> Head(ms).workspaces, max |-> Last(ms).workspaces,
            heap |-> Of("heap"), process |-> IF haveProcess THEN Of("process") ELSE <<>>]}

\* Live heap may double before a collection, at GOGC=100; plus a flat allowance.
NonHeap == 128
ResidentBytes(heap) == Ratio(2 * heap.num + NonHeap * heap.den, heap.den)

\* Refused for no workspaces and for a shape that was not measured.
Predict(model, shape, workspaces) ==
  IF workspaces <= 0 \/ shape # model.shape THEN {}
  ELSE {[heap |-> OnLine(model.heap, workspaces),
         resident |-> IF model.process # <<>> THEN OnLine(model.process, workspaces)
                      ELSE ResidentBytes(OnLine(model.heap, workspaces)),
         extrapolated |-> workspaces > model.max \/ workspaces < model.min,
         factor |-> CASE workspaces > model.max -> Ratio(workspaces, model.max)
                      [] workspaces < model.min -> Ratio(model.min, workspaces)
                      [] OTHER -> Ratio(1, 1)]}

RelativeError(measured, predicted) ==
  LET off == Ratio(predicted.num - measured * predicted.den, predicted.den * measured)
  IN Ratio(IF off.num < 0 THEN -off.num ELSE off.num, off.den)

\* Mutant: the fit still holds the point it is judged by.
HoldOutKept(run) ==
  LET ms == ByWorkspaces(run.measurements)
  IN IF Len(ms) < MinFitPoints + 1 THEN {}
     ELSE {[i \in DOMAIN ms |->
             LET model == CHOOSE m \in Fit(run) : TRUE
             IN [workspaces |-> ms[i].workspaces,
                 error |-> RelativeError(ms[i].heap, OnLine(model.heap, ms[i].workspaces)),
                 extrapolated |-> ms[i].workspaces < model.min \/ ms[i].workspaces > model.max]]}

\* Every point is held out once, the ends included.  Nothing for an error.
HoldOut(run) ==
  LET ms == ByWorkspaces(run.measurements)
      Without(i) == Fit([run EXCEPT !.measurements = RemoveAt(ms, i)])
  IN IF Len(ms) < MinFitPoints + 1 \/ \E i \in DOMAIN ms : Without(i) = {} THEN {}
     ELSE {[i \in DOMAIN ms |->
             LET model == CHOOSE m \in Without(i) : TRUE
             IN [workspaces |-> ms[i].workspaces,
                 error |-> RelativeError(ms[i].heap, OnLine(model.heap, ms[i].workspaces)),
                 extrapolated |-> ms[i].workspaces < model.min \/ ms[i].workspaces > model.max]]}

-----------------------------------------------------------------------------
(* Retention *)

LastAt(samples, phase, k) ==
  samples[Max({i \in DOMAIN samples : samples[i].phase = phase /\ samples[i].workspaces = k})]

CountsIn(samples, phase) ==
  {samples[i].workspaces : i \in {i \in DOMAIN samples : samples[i].phase = phase}}

\* The counts with both ends of a comparison, for the peak p.
Comparable(samples, p) ==
  {k \in CountsIn(samples, "disengaged") \cap CountsIn(samples, "active") : 1 <= k /\ k < p}

PeakOf(samples) ==
  LET counts == CountsIn(samples, "active") \cup {0}
  IN CHOOSE k \in counts : \A j \in counts : j <= k

Estimate(samples, p, k) ==
  Ratio(LastAt(samples, "disengaged", k).goroutines - LastAt(samples, "active", k).goroutines, p - k)

\* Mutant: the largest difference is the worst case.
RetainedWorst(samples) ==
  LET p == PeakOf(samples)
      counts == Comparable(samples, p)
      best == CHOOSE k \in counts : \A j \in counts :
                ~Less(Estimate(samples, p, k), Estimate(samples, p, j))
  IN IF counts = {} THEN {}
     ELSE {[perDeparture |-> Estimate(samples, p, best), departed |-> p - best]}

\* The lowest estimate; of equal ones, that over the most departures.
RetainedDetail(samples) ==
  LET p == PeakOf(samples)
      counts == Comparable(samples, p)
      Better(k, j) == \/ Less(Estimate(samples, p, k), Estimate(samples, p, j))
                      \/ Same(Estimate(samples, p, k), Estimate(samples, p, j)) /\ k <= j
      best == CHOOSE k \in counts : \A j \in counts : Better(k, j)
  IN IF p < 2 \/ counts = {} THEN {}
     ELSE {[perDeparture |-> Estimate(samples, p, best), departed |-> p - best]}
=============================================================================
