------------------------------- MODULE Verify -------------------------------
(***************************************************************************)
(* cmd/verify and verify.Run: the project's verification steps, one after  *)
(* another, each after a look at what it needs, and the exit status and    *)
(* the report that callers tell the outcome by.                            *)
(*                                                                         *)
(* External: the task target a step runs, in a process of its own that     *)
(* inherits the environment variable and whose tests look again for what   *)
(* the step needs; the container runtime, which comes and goes; the disk.  *)
(***************************************************************************)
EXTENDS Naturals, SequencesExt

CONSTANTS
  FastSteps,    \* the steps of --fast, in order
  SlowSteps,    \* the ones that are added without it
  NeedsOf,      \* the capabilities each step names, in order
  Capabilities,
  MaxChanges    \* bound: capabilities that come or go

ASSUME VerifyAssumption ==
  /\ MaxChanges \in Nat
  /\ FastSteps \in Seq(ToSet(FastSteps)) \ {<<>>} /\ SlowSteps \in Seq(ToSet(SlowSteps))
  /\ NeedsOf \in [ToSet(FastSteps \o SlowSteps) -> Seq(Capabilities)]

VARIABLES
  plan,      \* the steps in scope
  stage,     \* "needs", "set", "running", "report" or "exited"
  need,      \* the need that is checked next
  results,
  asserted,  \* EnvCapabilitiesAsserted, as the set of names in it
  report,    \* the file: the status in it, "old" for an earlier run's
  code,      \* the exit status
  available, \* the capabilities there are
  changes,
  skips      \* history: the steps one of whose tests skipped

verifyVars == <<plan, stage, need, results, asserted, report, code, available, changes, skips>>

ExitPass == 0
ExitFail == 1
ExitCouldNotRun == 2

VerifyInit ==
  /\ plan \in {FastSteps, FastSteps \o SlowSteps}
  /\ stage = "needs" /\ need = 1 /\ results = <<>>
  /\ asserted = {} /\ report = "old" /\ code = ExitPass
  /\ available \in SUBSET Capabilities /\ changes = 0 /\ skips = {}

Current == plan[Len(results) + 1]

-----------------------------------------------------------------------------
(* Run *)

\* The step's result, and on to the next.
Record(outcome, missing) ==
  /\ results' = Append(results, [step |-> Current, outcome |-> outcome, missing |-> missing])
  /\ need' = 1
  /\ stage' = IF Len(results') = Len(plan) THEN "report" ELSE "needs"

\* missingCapability: the needs in order, up to the first that is missing.
CheckNeed ==
  /\ stage = "needs" /\ need <= Len(NeedsOf[Current])
  /\ LET capability == NeedsOf[Current][need]
     IN  IF capability \in available
           THEN need' = need + 1 /\ UNCHANGED <<results, stage>>
           ELSE Record("could not run", capability)
  /\ UNCHANGED <<plan, asserted, report, code, available, changes, skips>>

AssertedNamesOfNone(step) == {}
AssertedNames(step) == ToSet(NeedsOf[step])

\* All needs were there: they are asserted for the step.
Setenv ==
  /\ stage = "needs" /\ need > Len(NeedsOf[Current])
  /\ asserted' = AssertedNames(Current)
  /\ stage' = "running"
  /\ UNCHANGED <<plan, need, results, report, code, available, changes, skips>>

SetenvFails ==
  /\ stage = "needs" /\ need > Len(NeedsOf[Current])
  /\ Record("FAIL", "")
  /\ UNCHANGED <<plan, asserted, report, code, available, changes, skips>>

\* A test that looks for what it needs and does not find it: CapabilityAsserted
\* decides whether it skips or fails.
Unreachable(step) == ToSet(NeedsOf[step]) \ available

MaySkip(step) == Unreachable(step) \cap asserted = {}

\* The step's own work may fail as well.
RunStep ==
  /\ stage = "running"
  /\ \E works \in BOOLEAN :
       Record(IF works /\ MaySkip(Current) THEN "pass" ELSE "FAIL", "")
  /\ skips' = IF Unreachable(Current) \ asserted # {} THEN skips \cup {Current} ELSE skips
  /\ asserted' = {}
  /\ UNCHANGED <<plan, report, code, available, changes>>

Outcomes(rs) == {rs[i].outcome : i \in DOMAIN rs}

\* A failure outranks a step that could not run.
StatusFor(rs) ==
  IF "FAIL" \in Outcomes(rs) THEN ExitFail
  ELSE IF "could not run" \in Outcomes(rs) THEN ExitCouldNotRun
  ELSE ExitPass

StatusName == (ExitPass :> "pass") @@ (ExitFail :> "fail") @@ (ExitCouldNotRun :> "could-not-run")

WriteReport ==
  /\ stage = "report" /\ stage' = "exited"
  /\ report' = StatusName[StatusFor(results)] /\ code' = StatusFor(results)
  /\ UNCHANGED <<plan, need, results, asserted, available, changes, skips>>

\* What an earlier run wrote stays.
WriteReportFails ==
  /\ stage = "report" /\ stage' = "exited"
  /\ code' = ExitFail
  /\ UNCHANGED <<plan, need, results, asserted, report, available, changes, skips>>

Changes(capability) ==
  /\ stage # "exited" /\ changes < MaxChanges
  /\ changes' = changes + 1
  /\ available' = (available \ {capability}) \cup ({capability} \ available)
  /\ UNCHANGED <<plan, stage, need, results, asserted, report, code, skips>>

VerifyNext ==
  \/ CheckNeed \/ Setenv \/ SetenvFails \/ RunStep
  \/ WriteReport \/ WriteReportFails
  \/ \E c \in Capabilities : Changes(c)

VerifySpec == VerifyInit /\ [][VerifyNext]_verifyVars

-----------------------------------------------------------------------------
(* Properties *)

(* The exit status says what happened: 0 that every step in scope ran, with  *)
(* none of its tests skipped even where a capability went away after it was  *)
(* checked; 2 that some step did not and none failed.  And the report, where *)
(* it is this run's, says the same (verify.go:40-49; capability.go:29-34).   *)
ZeroMeansAllRan ==
  stage = "exited" =>
    /\ code = ExitPass =>
         /\ skips = {}
         /\ [i \in DOMAIN results |-> results[i].step] = plan
         /\ \A i \in DOMAIN results : results[i].outcome = "pass"
    /\ code = ExitCouldNotRun =>
         /\ \A i \in DOMAIN results : results[i].outcome # "FAIL"
         /\ \E i \in DOMAIN results : results[i].missing \in Capabilities
    /\ report # "old" => report = StatusName[code]
=============================================================================
