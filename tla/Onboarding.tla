----------------------------- MODULE Onboarding -----------------------------
(***************************************************************************)
(* How a workspace of the Cluster API type becomes Ready: kcp binds the    *)
(* type's default APIExports and applies their permission claims under its *)
(* own initializer, this project's initializer controller waits for that,  *)
(* retries claims that kcp gave up on, writes the workspace's roles and    *)
(* removes its initializer (initializer.go, reconcile.go).                 *)
(*                                                                         *)
(* The controllers are the replicas of the workspace manager, which elects *)
(* no leader.  Their reads are live: the initializing virtual workspace    *)
(* proxies each request to the workspace.                                  *)
(*                                                                         *)
(* External: kcp, in CreateBinding .. BindingsInitialized.                 *)
(***************************************************************************)
EXTENDS Roles

CONSTANTS
  DefaultExports,   \* the exports the WorkspaceType binds
  GroupOf,          \* export -> the Cluster API groups it serves
  MaxClaimRetries,
  MaxSetbacks       \* bound: failed calls and restarts in one behaviour

ASSUME OnboardingAssumption ==
  /\ GroupOf \in [DefaultExports -> SUBSET Groups]
  /\ MaxClaimRetries \in Nat \ {0} /\ MaxSetbacks \in Nat

VARIABLES
  initializers,  \* the LogicalCluster's status.initializers
  phase,         \* the phase of each default APIBinding
  claims,        \* its claims: kcp is "trying", "gaveUp" or they are "applied"
  retries,       \* its claim-retry annotation
  crdsBound,     \* the CRDs the claims need have been materialised
  requeued,      \* the reconcilers with an event or a requeue to handle
  toNudge,       \* the bindings each found pending, with their annotation
  setbacks

kcpVars == <<phase, claims, retries, crdsBound>>
ctlVars == <<requeued, toNudge, setbacks>>
onboardingVars == <<roleVars, initializers, kcpVars, ctlVars>>

Ours == "cluster-api"
Kcps == "system:apibindings"

Ready == initializers = {}

OnboardingTypeOK ==
  /\ RolesTypeOK
  /\ pc \in [Reconcilers -> {"idle", "read", "nudge", "list", "get", "create",
                             "update", "reconciled", "failed"}]
  /\ initializers \subseteq {Ours, Kcps}
  /\ phase \in [DefaultExports -> {"none", "Binding", "Bound"}]
  /\ claims \in [DefaultExports -> {"trying", "gaveUp", "applied"}]
  /\ retries \in [DefaultExports -> 0..MaxClaimRetries]
  /\ crdsBound \in BOOLEAN
  /\ requeued \subseteq Reconcilers
  /\ toNudge \in [Reconcilers -> SUBSET (DefaultExports \X (0..(MaxClaimRetries - 1)))]
  /\ setbacks \in 0..MaxSetbacks

OnboardingInit ==
  /\ RolesInit
  /\ role = [n \in RoleSet |-> Absent]
  /\ initializers = {Ours, Kcps}
  /\ phase = [e \in DefaultExports |-> "none"]
  /\ claims = [e \in DefaultExports |-> "trying"]
  /\ retries = [e \in DefaultExports |-> 0]
  /\ crdsBound = FALSE
  /\ requeued = Reconcilers
  /\ toNudge = [r \in Reconcilers |-> {}]
  /\ setbacks = 0

-----------------------------------------------------------------------------
(* kcp *)

CreateBinding(e) ==
  /\ phase[e] = "none"
  /\ phase' = [phase EXCEPT ![e] = "Binding"]
  /\ UNCHANGED <<roleVars, initializers, claims, retries, crdsBound, ctlVars>>

BindDefault(e) ==
  /\ phase[e] = "Binding"
  /\ phase' = [phase EXCEPT ![e] = "Bound"]
  /\ UNCHANGED <<roleVars, initializers, claims, retries, crdsBound, ctlVars>>

Materialise ==
  /\ ~crdsBound /\ crdsBound' = TRUE
  /\ UNCHANGED <<roleVars, initializers, phase, claims, retries, ctlVars>>

\* permissionclaimlabel: applies the claims, or runs out of retries first.
ApplyClaims(e) ==
  /\ phase[e] = "Bound" /\ claims[e] = "trying"
  /\ claims' = [claims EXCEPT ![e] = IF crdsBound THEN "applied" ELSE "gaveUp"]
  /\ UNCHANGED <<roleVars, initializers, phase, retries, crdsBound, ctlVars>>

BindingsInitialized ==
  /\ Kcps \in initializers /\ \A e \in DefaultExports : claims[e] = "applied"
  /\ initializers' = initializers \ {Kcps}
  /\ requeued' = Reconcilers
  /\ UNCHANGED <<roleVars, kcpVars, toNudge, setbacks>>

-----------------------------------------------------------------------------
(* initializeWorkspace *)

\* An event of the LogicalCluster, or RequeueAfter.
Start(r) ==
  /\ pc[r] = "idle" /\ r \in requeued
  /\ requeued' = requeued \ {r}
  /\ Become(r, "read")
  /\ UNCHANGED <<role, want, at, got, initializers, kcpVars, toNudge, setbacks>>

PendingGivesUpEarly(e) ==
  /\ phase[e] = "Bound" /\ claims[e] # "applied"
  /\ retries[e] + 1 < MaxClaimRetries

\* claimsPending, and not yet retried MaxClaimRetries times.
Pending(e) ==
  /\ phase[e] = "Bound" /\ claims[e] # "applied"
  /\ retries[e] < MaxClaimRetries

ReadLogicalEager(r) ==
  /\ pc[r] = "read"
  /\ IF Ours \notin initializers THEN Become(r, "idle") ELSE Become(r, "list")
  /\ UNCHANGED <<role, want, at, got, initializers, kcpVars, ctlVars>>

\* The read of the LogicalCluster, with the list of the bindings
\* NudgeUnappliedClaims starts from.
ReadLogical(r) ==
  /\ pc[r] = "read"
  /\ \/ Ours \notin initializers /\ Become(r, "idle") /\ UNCHANGED toNudge
     \/ /\ Ours \in initializers /\ Kcps \in initializers
        /\ Become(r, "nudge")
        /\ toNudge' = [toNudge EXCEPT ![r] = {<<e, retries[e]>> : e \in {d \in DefaultExports : Pending(d)}}]
     \/ /\ Ours \in initializers /\ Kcps \notin initializers
        /\ Become(r, "list") /\ UNCHANGED toNudge
  /\ UNCHANGED <<role, want, at, got, initializers, kcpVars, requeued, setbacks>>

\* The patch sets the annotation; kcp looks at the binding again if it changed.
Nudge(r) ==
  /\ pc[r] = "nudge"
  /\ \E n \in toNudge[r] :
       /\ toNudge' = [toNudge EXCEPT ![r] = @ \ {n}]
       /\ retries' = [retries EXCEPT ![n[1]] = n[2] + 1]
       /\ claims' = [claims EXCEPT ![n[1]] =
                       IF @ = "gaveUp" /\ retries[n[1]] # n[2] + 1 THEN "trying" ELSE @]
  /\ UNCHANGED <<roleVars, initializers, phase, crdsBound, requeued, setbacks>>

\* RequeueAfter: ClaimRetryInterval.
Nudged(r) ==
  /\ pc[r] = "nudge" /\ toNudge[r] = {}
  /\ Become(r, "idle")
  /\ requeued' = requeued \cup {r}
  /\ UNCHANGED <<role, want, at, got, initializers, kcpVars, toNudge, setbacks>>

Served == UNION {GroupOf[e] : e \in {d \in DefaultExports : phase[d] = "Bound"}}

WriteRoles(r) ==
  /\ ListBindings(r, Served) \/ GetRole(r, role[Name(r)]) \/ CreateRole(r) \/ UpdateRole(r)
  /\ UNCHANGED <<initializers, kcpVars, ctlVars>>

\* The patch replaces the list by the one read, without ours: Kcps had left it.
RemoveInitializer(r) ==
  /\ pc[r] = "reconciled"
  /\ initializers' = initializers \ {Ours}
  /\ Become(r, "idle")
  /\ UNCHANGED <<role, want, at, got, kcpVars, ctlVars>>

\* A reconcile that returns an error is put back.
Fail(r) ==
  /\ setbacks < MaxSetbacks /\ setbacks' = setbacks + 1
  /\ \/ CallFails(r) /\ UNCHANGED toNudge
     \/ /\ pc[r] \in {"read", "nudge", "reconciled"} /\ Become(r, "failed")
        /\ toNudge' = [toNudge EXCEPT ![r] = {}]
        /\ UNCHANGED <<role, want, at, got>>
  /\ UNCHANGED <<initializers, kcpVars, requeued>>

Requeue(r) ==
  /\ pc[r] = "failed" /\ Become(r, "idle")
  /\ requeued' = requeued \cup {r}
  /\ UNCHANGED <<role, want, at, got, initializers, kcpVars, toNudge, setbacks>>

\* The replica restarts; its informer delivers the workspace again.
RestartReplica(r) ==
  /\ setbacks < MaxSetbacks /\ setbacks' = setbacks + 1
  /\ Lose(r)
  /\ requeued' = requeued \cup {r}
  /\ toNudge' = [toNudge EXCEPT ![r] = {}]
  /\ UNCHANGED <<initializers, kcpVars>>

Works(r) ==
  \/ Start(r) \/ ReadLogical(r) \/ Nudge(r) \/ Nudged(r)
  \/ WriteRoles(r) \/ RemoveInitializer(r) \/ Requeue(r)

Kcp ==
  \/ BindingsInitialized
  \/ \E e \in DefaultExports : CreateBinding(e) \/ BindDefault(e) \/ ApplyClaims(e)

OnboardingNext ==
  \/ Kcp \/ Materialise
  \/ \E r \in Reconcilers : Works(r) \/ Fail(r) \/ RestartReplica(r)

OnboardingSpec == OnboardingInit /\ [][OnboardingNext]_onboardingVars

\* kcp's controllers and the workers of the replicas make progress.  Nothing
\* says when, or whether, kcp materialises the CRDs.
OnboardingFairSpec ==
  /\ OnboardingSpec
  /\ WF_onboardingVars(Kcp)
  /\ WF_onboardingVars(\E r \in Reconcilers : Works(r))

-----------------------------------------------------------------------------
(* Properties *)

DefaultGroups == UNION {GroupOf[e] : e \in DefaultExports}

\* "A tenant is never handed a workspace that serves Cluster API and grants
\* nobody the use of it": once the workspace is Ready, every role covers every
\* group of the exports it was created with, whatever failed, restarted or ran
\* twice on the way (initializer.go:90-93 and 114-120).
ReadyMeansGranted ==
  Ready => \A n \in RoleSet : role[n].managed /\ DefaultGroups \subseteq role[n].groups

\* Losing the race with the materialiser does not strand a workspace: if the
\* CRDs appear while a binding's retries are not used up, it becomes Ready
\* (initializer.go:162-187).
RaceIsSurvived ==
  (crdsBound /\ \A e \in DefaultExports : retries[e] < MaxClaimRetries) ~> Ready

=============================================================================
