----------------------------- MODULE Maintainer -----------------------------
(***************************************************************************)
(* The fleet-wide controller that keeps one workspace's roles in line with *)
(* its APIBindings after it has become Ready (maintainer.go, reconcile.go).*)
(*                                                                         *)
(* It is started by the events of APIBindings and of nothing else, and it  *)
(* reads both the bindings and the roles from the caches of the export's   *)
(* virtual workspace.  The two are fed by watches of their own, and        *)
(* neither waits for the reconciler's own writes.                          *)
(*                                                                         *)
(* External: the tenant, in Bind, Unbind and TakeOver, and the watches, in *)
(* ObserveBindings and ObserveRole.                                        *)
(***************************************************************************)
EXTENDS Roles

CONSTANTS
  Starts,      \* how the workspace's roles may be found: see Init
  MaxBinds,    \* bound: bindings the tenant makes
  MaxUnbinds,  \* bound: bindings the tenant deletes
  MaxTakeOvers,  \* bound: roles the tenant makes its own
  MaxFailures, \* bound: failed calls and restarts
  MaxVersion   \* bound: versions of a role; two replicas can undo each other's
               \* writes for as long as their caches disagree

ASSUME MaintainerAssumption ==
  /\ Starts \subseteq {"initialized", "absent", "foreign"}
  /\ {MaxBinds, MaxUnbinds, MaxTakeOvers, MaxFailures} \subseteq Nat
  /\ MaxVersion \in Nat \ {0}

VARIABLES
  bound,      \* the groups the workspace's bindings serve
  seenBound,  \* as each reconciler's cache has them
  seenRole,   \* the roles as its cache has them
  pending,    \* the reconcilers with an event or a requeue to handle
  binds, unbinds, takeOvers, failures

cacheVars == <<seenBound, seenRole>>
envVars   == <<bound, binds, unbinds, takeOvers>>
vars      == <<roleVars, envVars, cacheVars, pending, failures>>

TypeOK ==
  /\ RolesTypeOK
  /\ pc \in [Reconcilers -> {"idle", "list", "get", "create", "update", "reconciled", "failed"}]
  /\ bound \subseteq Groups
  /\ seenBound \in [Reconcilers -> SUBSET Groups]
  /\ seenRole \in [Reconcilers -> [RoleSet -> RoleStates]]
  /\ pending \subseteq Reconcilers
  /\ binds \in 0..MaxBinds /\ unbinds \in 0..MaxUnbinds /\ takeOvers \in 0..MaxTakeOvers
  /\ failures \in 0..MaxFailures

Managed(groups) == [groups |-> groups, managed |-> TRUE, version |-> 1]

\* A role of one of the names that somebody else wrote.
Foreign == [groups |-> {}, managed |-> FALSE, version |-> 1]

\* The controller starts with its caches filled and an event for each binding.
Init ==
  /\ RolesInit
  /\ bound \in SUBSET Groups
  /\ \/ "initialized" \in Starts /\ role = [n \in RoleSet |-> Managed(bound)]
     \/ "absent" \in Starts /\ role = [n \in RoleSet |-> Absent]
     \/ "foreign" \in Starts /\ role \in [RoleSet -> {Foreign, Managed(bound)}]
  /\ seenBound = [r \in Reconcilers |-> bound]
  /\ seenRole = [r \in Reconcilers |-> role]
  /\ pending = Reconcilers
  /\ binds = 0 /\ unbinds = 0 /\ takeOvers = 0 /\ failures = 0

-----------------------------------------------------------------------------
(* The tenant and the watches *)

Bind(g) ==
  /\ g \notin bound /\ binds < MaxBinds
  /\ bound' = bound \cup {g} /\ binds' = binds + 1
  /\ UNCHANGED <<roleVars, cacheVars, unbinds, takeOvers, pending, failures>>

Unbind(g) ==
  /\ g \in bound /\ unbinds < MaxUnbinds
  /\ bound' = bound \ {g} /\ unbinds' = unbinds + 1
  /\ UNCHANGED <<roleVars, cacheVars, binds, takeOvers, pending, failures>>

\* Somebody in the workspace takes the label off a role of this project, or puts a
\* role of their own where there was none.
TakeOver(n) ==
  /\ role[n] = Absent \/ role[n].managed
  /\ takeOvers < MaxTakeOvers /\ takeOvers' = takeOvers + 1
  /\ role' = [role EXCEPT ![n] = [groups |-> @.groups, managed |-> FALSE, version |-> @.version + 1]]
  /\ UNCHANGED <<pc, want, at, got, cacheVars, bound, binds, unbinds, pending, failures>>

ObserveBindingsUnwatched(r) ==
  /\ seenBound[r] # bound
  /\ seenBound' = [seenBound EXCEPT ![r] = bound]
  /\ UNCHANGED <<roleVars, envVars, seenRole, pending, failures>>

ObserveBindings(r) ==
  /\ seenBound[r] # bound
  /\ seenBound' = [seenBound EXCEPT ![r] = bound]
  /\ pending' = pending \cup {r}
  /\ UNCHANGED <<roleVars, envVars, seenRole, failures>>

ObserveRole(r, n) ==
  /\ seenRole[r][n] # role[n]
  /\ seenRole' = [seenRole EXCEPT ![r][n] = role[n]]
  /\ UNCHANGED <<roleVars, envVars, seenBound, pending, failures>>

-----------------------------------------------------------------------------
(* maintainWorkspace *)

Start(r) ==
  /\ pc[r] = "idle" /\ r \in pending
  /\ pending' = pending \ {r}
  /\ Become(r, "list")
  /\ UNCHANGED <<role, want, at, got, envVars, cacheVars, failures>>

WriteRoles(r) ==
  /\ pc[r] = "update" => role[Name(r)].version < MaxVersion
  /\ \/ ListBindings(r, seenBound[r]) \/ GetRole(r, seenRole[r][Name(r)])
     \/ CreateRole(r) \/ UpdateRole(r)
  /\ UNCHANGED <<envVars, cacheVars, pending, failures>>

\* RequeueAfter: RebindRetry while the workspace serves nothing.
Finish(r) ==
  /\ pc[r] = "reconciled" /\ Become(r, "idle")
  /\ pending' = IF want[r] = {} THEN pending \cup {r} ELSE pending
  /\ want' = [want EXCEPT ![r] = {}]
  /\ UNCHANGED <<role, at, got, envVars, cacheVars, failures>>

\* A reconcile that returns an error is put back.
Requeue(r) ==
  /\ pc[r] = "failed" /\ Become(r, "idle")
  /\ pending' = pending \cup {r}
  /\ UNCHANGED <<role, want, at, got, envVars, cacheVars, failures>>

Fail(r) ==
  /\ failures < MaxFailures /\ failures' = failures + 1
  /\ CallFails(r)
  /\ UNCHANGED <<envVars, cacheVars, pending>>

\* The process restarts: it lists everything again.
Restart(r) ==
  /\ failures < MaxFailures /\ failures' = failures + 1
  /\ Lose(r)
  /\ seenBound' = [seenBound EXCEPT ![r] = bound]
  /\ seenRole' = [seenRole EXCEPT ![r] = role]
  /\ pending' = pending \cup {r}
  /\ UNCHANGED envVars

Works(r) == Start(r) \/ WriteRoles(r) \/ Finish(r) \/ Requeue(r)

Next ==
  \/ \E g \in Groups : Bind(g) \/ Unbind(g)
  \/ \E n \in RoleSet : TakeOver(n)
  \/ \E r \in Reconcilers :
       \/ Works(r) \/ Fail(r) \/ Restart(r)
       \/ ObserveBindings(r) \/ \E n \in RoleSet : ObserveRole(r, n)

Spec == Init /\ [][Next]_vars

\* The worker runs, and a watch delivers in the end.
FairSpec ==
  /\ Spec
  /\ \A r \in Reconcilers :
       /\ WF_vars(Works(r)) /\ WF_vars(ObserveBindings(r))
       /\ \A n \in RoleSet : WF_vars(ObserveRole(r, n))

-----------------------------------------------------------------------------
(* Properties *)

\* A role of this name that is somebody else's on the server is never written,
\* also when the reconciler's cache still shows it as this project's, or as absent
\* (reconcile.go:75-78).
ForeignRolesKept ==
  [][\A n \in RoleSet : (role[n] # Absent /\ ~role[n].managed) => role'[n] = role[n]]_role

\* "Quiet when nothing changed": a write of this project always changes what the
\* role grants, also when two replicas write at once from old caches
\* (reconcile.go:41-44).
WritesChangeTheRole ==
  [][\A n \in RoleSet :
       (role[n] # Absent /\ role'[n] # role[n] /\ role'[n].managed)
         => role'[n].groups # role[n].groups]_role

\* Once the tenant has stopped changing its bindings, the roles come to cover
\* exactly what they serve, and stay so, unless a role is somebody else's
\* (reconcile.go:33-35, claims.go:33-35).
RolesFollowBindings ==
  [](\A n \in RoleSet : role[n] = Absent \/ role[n].managed) =>
    <>[](\A n \in RoleSet : role[n].managed /\ role[n].groups = bound)

\* The same for a tenant that only adds bindings to a workspace whose roles the
\* initializer created: however the two caches lag and whichever calls fail, no
\* group that was bound is left ungranted.  It takes a single replica and roles
\* that exist and stay this project's, see the README.
RolesGrowWithBindings ==
  ([](\A n \in RoleSet : role[n].managed) /\ [](unbinds = 0)) =>
    <>[](\A n \in RoleSet : role[n].managed /\ role[n].groups = bound)

=============================================================================
