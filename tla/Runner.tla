------------------------------- MODULE Runner -------------------------------
(* The workspace manager (internal/workspacemanager): New builds the two     *)
(* managers that can exist before any workspace does, Start runs them and    *)
(* the maintainer, which waits for the onboarding export's endpoint.  In its *)
(* own binary an error ends the process and the deployment starts another;   *)
(* the demo runs it in a goroutine and only logs what Start returns.         *)
EXTENDS Naturals, FiniteSets, Sequences

CONSTANTS
  Hosts,       \* subset of {"binary", "demo"}
  Workspaces,
  BinaryWorkspaces, \* those there may be with the binary, a bound
  MaxFailures  \* bound on managers that fail for reasons of their own

Threads == {"claims", "initializer", "maintainer"}

ASSUME RunnerAssumption ==
  /\ Hosts \subseteq {"binary", "demo"}
  /\ BinaryWorkspaces \subseteq Workspaces
  /\ MaxFailures \in Nat

VARIABLES
  host,
  typed,     \* the WorkspaceType is published
  ctxDone,
  main,      \* "off", "building", "starting" (Start was called), "nil" or "error" (it returned)
  thread,    \* thread[t]: "off", "polling", "running", "sending", "ended"
  outcome,   \* outcome[t]: what its goroutine sends: "nil" or "error"
  errs,      \* the channel
  received,  \* results Start has taken from it
  ws,        \* ws[w]: "absent", "initializing", "ready"
  enabled,   \* workspaces whose tenant enabled a provider
  widened,   \* workspaces whose roles cover it
  failures

runner == <<main, thread, outcome, errs, received>>
world == <<ws, enabled, widened>>
runnerVars == <<host, typed, ctxDone, runner, world, failures>>

\* The default bindings of the type bind the onboarding export: its endpoint
\* exists from the first workspace on.
HasEndpoint == \E w \in Workspaces : ws[w] # "absent"

InProcess == host = "demo" \/ main \in {"building", "starting"}

AllOff == [t \in Threads |-> "off"]

RunnerInit ==
  /\ host \in Hosts
  /\ typed = FALSE /\ ctxDone = FALSE
  /\ main = "off"
  /\ thread = AllOff /\ outcome = [t \in Threads |-> "nil"]
  /\ errs = <<>> /\ received = 0
  /\ ws = [w \in Workspaces |-> "absent"] /\ enabled = {} /\ widened = {}
  /\ failures = 0

-----------------------------------------------------------------------------
\* New reads the WorkspaceType first of all: without it there is no Runner.
New ==
  /\ main = "building"
  /\ main' = IF typed /\ ~ctxDone THEN "starting" ELSE "error"
  /\ UNCHANGED <<host, typed, ctxDone, thread, outcome, errs, received, world, failures>>

\* Mutant: the initializer waits for an endpoint like the maintainer, but once.
StartInitializerLate ==
  /\ main = "starting" /\ thread = AllOff
  /\ thread' = [claims |-> "running", maintainer |-> "polling",
                 initializer |-> IF HasEndpoint THEN "running" ELSE "off"]
  /\ UNCHANGED <<host, typed, ctxDone, main, outcome, errs, received, world, failures>>

\* Start's three goroutines.
Start ==
  /\ main = "starting" /\ thread = AllOff
  /\ thread' = [t \in Threads |-> IF t = "maintainer" THEN "polling" ELSE "running"]
  /\ UNCHANGED <<host, typed, ctxDone, main, outcome, errs, received, world, failures>>

Ends(t, how) ==
  /\ thread' = [thread EXCEPT ![t] = "sending"]
  /\ outcome' = [outcome EXCEPT ![t] = how]

\* newMaintainerManager finds the endpoint, ...
MaintainerStarts ==
  /\ InProcess /\ thread["maintainer"] = "polling" /\ HasEndpoint /\ ~ctxDone
  /\ thread' = [thread EXCEPT !["maintainer"] = "running"]
  /\ UNCHANGED <<host, typed, ctxDone, main, outcome, errs, received, world, failures>>

\* ... or gives up: an error, unless the context ended.
MaintainerGivesUp ==
  /\ InProcess /\ thread["maintainer"] = "polling" /\ (~HasEndpoint \/ ctxDone)
  /\ Ends("maintainer", IF ctxDone THEN "nil" ELSE "error")
  /\ UNCHANGED <<host, typed, ctxDone, main, errs, received, world, failures>>

\* A manager returns nil when its context is done, ...
ManagerStops(t) ==
  /\ InProcess /\ thread[t] = "running" /\ ctxDone
  /\ Ends(t, "nil")
  /\ UNCHANGED <<host, typed, ctxDone, main, errs, received, world, failures>>

\* ... an error when it fails.
ManagerFails(t) ==
  /\ InProcess /\ thread[t] = "running" /\ failures < MaxFailures
  /\ failures' = failures + 1
  /\ Ends(t, "error")
  /\ UNCHANGED <<host, typed, ctxDone, main, errs, received, world>>

\* Mutant: room for one.
CapacityOne == 1

\* The channel has room for all three, so no goroutine waits for a reader.
Capacity == 3

\* errs <- err
Send(t) ==
  /\ InProcess /\ thread[t] = "sending" /\ Len(errs) < Capacity
  /\ errs' = Append(errs, outcome[t])
  /\ thread' = [thread EXCEPT ![t] = "ended"]
  /\ UNCHANGED <<host, typed, ctxDone, main, outcome, received, world, failures>>

\* Mutant: Start returns when two of the three have.
ReceiveTwo ==
  /\ main = "starting" /\ errs # <<>>
  /\ received' = received + 1
  /\ errs' = Tail(errs)
  /\ main' = IF Head(errs) = "error" THEN "error" ELSE IF received' = 2 THEN "nil" ELSE main
  /\ UNCHANGED <<host, typed, ctxDone, thread, outcome, world, failures>>

\* <-errs: the first error is returned, three nils are.
Receive ==
  /\ main = "starting" /\ errs # <<>>
  /\ received' = received + 1
  /\ errs' = Tail(errs)
  /\ main' = IF Head(errs) = "error" THEN "error"
             ELSE IF received + 1 = Cardinality(Threads) THEN "nil" ELSE main
  /\ UNCHANGED <<host, typed, ctxDone, thread, outcome, world, failures>>

\* Off with its process: the deployment starts the binary (again).
Deploy ==
  /\ host = "binary" /\ main \in {"off", "error"} /\ ~ctxDone
  /\ main' = "building"
  /\ thread' = AllOff /\ outcome' = [t \in Threads |-> "nil"]
  /\ errs' = <<>> /\ received' = 0
  /\ UNCHANGED <<host, typed, ctxDone, world, failures>>

-----------------------------------------------------------------------------
Works(t) == InProcess /\ thread[t] = "running" /\ ~ctxDone

\* The initializer lets a workspace become Ready (module Onboarding).
Initialize(w) ==
  /\ Works("initializer") /\ ws[w] = "initializing"
  /\ ws' = [ws EXCEPT ![w] = "ready"]
  /\ UNCHANGED <<host, typed, ctxDone, runner, enabled, widened, failures>>

\* The maintainer widens the roles (module Maintainer).
Widen(w) ==
  /\ Works("maintainer") /\ w \in enabled \ widened
  /\ widened' = widened \cup {w}
  /\ UNCHANGED <<host, typed, ctxDone, runner, ws, enabled, failures>>

Publish ==
  /\ host = "binary" /\ ~typed
  /\ typed' = TRUE
  /\ UNCHANGED <<host, ctxDone, runner, world, failures>>

Create(w) ==
  /\ host = "binary" /\ w \in BinaryWorkspaces /\ typed /\ ws[w] = "absent"
  /\ ws' = [ws EXCEPT ![w] = "initializing"]
  /\ UNCHANGED <<host, typed, ctxDone, runner, enabled, widened, failures>>

Enable(w) ==
  /\ host = "binary" /\ ws[w] = "ready" /\ w \notin enabled
  /\ enabled' = enabled \cup {w}
  /\ UNCHANGED <<host, typed, ctxDone, runner, ws, widened, failures>>

Cancel ==
  /\ ~ctxDone /\ main # "off"
  /\ ctxDone' = TRUE
  /\ UNCHANGED <<host, typed, runner, world, failures>>

ManagerStep(t) == ManagerStops(t) \/ Send(t)

RunnerStep ==
  \/ New \/ Start \/ MaintainerStarts \/ MaintainerGivesUp \/ Receive \/ Deploy
  \/ \E t \in Threads : ManagerStep(t) \/ ManagerFails(t)
  \/ \E w \in Workspaces : Initialize(w) \/ Widen(w)

RunnerEnvironment ==
  \/ Publish \/ Cancel
  \/ \E w \in Workspaces : Create(w) \/ Enable(w)

\* The goroutines are scheduled, and a process that ended is started again.  An
\* incarnation that finds no endpoint lasts for the startup timeout: what takes
\* seconds happens in one of them.
RunnerFairness ==
  /\ WF_runnerVars(\/ New \/ Start \/ MaintainerStarts \/ MaintainerGivesUp \/ Receive \/ Deploy
                  \/ \E t \in Threads : ManagerStep(t))
  /\ SF_runnerVars(\E w \in Workspaces : Initialize(w))
  /\ SF_runnerVars(\E w \in Workspaces : Widen(w))

-----------------------------------------------------------------------------
(* Every variable has its type. *)
RunnerTypeOK ==
  /\ main \in {"off", "building", "starting", "nil", "error"}
  /\ thread \in [Threads -> {"off", "polling", "running", "sending", "ended"}]
  /\ outcome \in [Threads -> {"nil", "error"}]
  /\ Len(errs) + received <= Cardinality(Threads)
  /\ ws \in [Workspaces -> {"absent", "initializing", "ready"}]
  /\ enabled \subseteq Workspaces /\ widened \subseteq enabled

(* Start returns nil only when every manager ended and was asked to: a       *)
(* deployment never goes on, or ends cleanly, without one of its managers    *)
(* (Runner.Start, "until ctx is done").                                      *)
NilMeansAllEnded ==
  main = "nil" => ctxDone /\ \A t \in Threads : thread[t] = "ended" /\ outcome[t] = "nil"

(* No goroutine of Start stays behind on the channel, not even when Start    *)
(* returned at the first error: once the context is done all of them end.    *)
RunnerLeavesNothing ==
  ctxDone /\ host = "demo" ~> \A t \in Threads : thread[t] \in {"off", "ended"}

(* A workspace of the type becomes Ready although the processes in charge    *)
(* of it keep ending because no workspace gives them an endpoint, and what   *)
(* its tenant enables comes to be in its roles.                              *)
Onboarded ==
  \A w \in BinaryWorkspaces :
    /\ host = "binary" /\ ws[w] = "initializing" ~> ws[w] = "ready" \/ ctxDone
    /\ host = "binary" /\ w \in enabled ~> w \in widened \/ ctxDone
=============================================================================
