------------------------------- MODULE Roles -------------------------------
(***************************************************************************)
(* ReconcileRoles of internal/capiworkspaces, as each of the processes that*)
(* run it takes it, for one workspace: list the APIBindings, derive the    *)
(* API groups the roles cover, then for each role read it, and create it,  *)
(* update it or leave it.  Every read and write of the API server is a step*)
(* of its own.                                                             *)
(*                                                                         *)
(* A role is abstracted to the groups its derived rules name (the other    *)
(* rules are constant), whether this project manages it, and the version   *)
(* the API server gave it.                                                 *)
(*                                                                         *)
(* Who runs it, from which view of the workspace, and what follows is in   *)
(* the modules that extend this one: Onboarding (the initializer) and      *)
(* Maintainer.                                                             *)
(***************************************************************************)
EXTENDS Integers, FiniteSets, Sequences

CONSTANTS
  Reconcilers,  \* the processes that reconcile the workspace's roles
  Groups        \* the Cluster API groups

RoleNames == <<"admin", "view">>

RoleSet == {RoleNames[i] : i \in DOMAIN RoleNames}

Absent == [groups |-> {}, managed |-> FALSE, version |-> 0]

VARIABLES
  role,   \* the ClusterRoles on the API server
  pc,     \* where each reconciler is
  want,   \* the groups it derived
  at,     \* the role it is at
  got     \* what it read of it and is about to update

roleVars == <<role, pc, want, at, got>>

RoleStates == [groups: SUBSET Groups, managed: BOOLEAN, version: Nat]

RolesTypeOK ==
  /\ role \in [RoleSet -> RoleStates]
  /\ got \in [Reconcilers -> RoleStates]
  /\ want \in [Reconcilers -> SUBSET Groups]
  /\ at \in [Reconcilers -> DOMAIN RoleNames]

RolesInit ==
  /\ pc = [r \in Reconcilers |-> "idle"]
  /\ want = [r \in Reconcilers |-> {}]
  /\ at = [r \in Reconcilers |-> 1]
  /\ got = [r \in Reconcilers |-> Absent]

Name(r) == RoleNames[at[r]]

Become(r, there) == pc' = [pc EXCEPT ![r] = there]

\* On to the next role, or out of ReconcileRoles after the last.
Advance(r) ==
  IF at[r] = Len(RoleNames)
  THEN Become(r, "reconciled") /\ at' = [at EXCEPT ![r] = 1]
  ELSE Become(r, "get") /\ at' = [at EXCEPT ![r] = @ + 1]

Remember(r, what) == got' = [got EXCEPT ![r] = what]

\* An error ends the reconcile: the roles after this one are not looked at.
Abort(r) == Become(r, "failed") /\ at' = [at EXCEPT ![r] = 1]

\* What the bindings serve, as APIGroups reads it off their status.
ListBindings(r, served) ==
  /\ pc[r] = "list"
  /\ want' = [want EXCEPT ![r] = served]
  /\ Become(r, "get")
  /\ UNCHANGED <<role, at, got>>

-----------------------------------------------------------------------------
(* applyRole.  seen is the role as the reconciler's client reads it. *)

GetRoleUnlabelled(r, seen) ==
  /\ pc[r] = "get"
  /\ \/ seen = Absent /\ Become(r, "create") /\ UNCHANGED <<at, got>>
     \/ seen # Absent /\ seen.groups = want[r] /\ Advance(r) /\ UNCHANGED got
     \/ /\ seen # Absent /\ seen.groups # want[r]
        /\ Become(r, "update") /\ Remember(r, seen) /\ UNCHANGED at
  /\ UNCHANGED <<role, want>>

GetRole(r, seen) ==
  /\ pc[r] = "get"
  /\ \/ seen = Absent /\ Become(r, "create") /\ UNCHANGED <<at, got>>
     \/ seen # Absent /\ ~seen.managed /\ Abort(r) /\ UNCHANGED got
     \/ seen.managed /\ seen.groups = want[r] /\ Advance(r) /\ UNCHANGED got
     \/ /\ seen.managed /\ seen.groups # want[r]
        /\ Become(r, "update") /\ Remember(r, seen) /\ UNCHANGED at
  /\ UNCHANGED <<role, want>>

Written(r) == [groups |-> want[r], managed |-> TRUE, version |-> role[Name(r)].version + 1]

\* AlreadyExists is taken for another reconcile of the workspace.
CreateRole(r) ==
  /\ pc[r] = "create"
  /\ role' = IF role[Name(r)] = Absent THEN [role EXCEPT ![Name(r)] = Written(r)] ELSE role
  /\ Advance(r)
  /\ UNCHANGED <<want, got>>

UpdateRoleForced(r) ==
  /\ pc[r] = "update"
  /\ role' = [role EXCEPT ![Name(r)] = Written(r)]
  /\ Advance(r) /\ Remember(r, Absent)
  /\ UNCHANGED want

\* The API server refuses an update of a version that is not the latest.
UpdateRole(r) ==
  /\ pc[r] = "update"
  /\ \/ /\ role[Name(r)].version = got[r].version
        /\ role' = [role EXCEPT ![Name(r)] = Written(r)]
        /\ Advance(r)
     \/ role[Name(r)].version # got[r].version /\ Abort(r) /\ UNCHANGED role
  /\ Remember(r, Absent)
  /\ UNCHANGED want

\* Any call may fail.
CallFails(r) ==
  /\ pc[r] \in {"list", "get", "create", "update"}
  /\ Abort(r) /\ Remember(r, Absent)
  /\ UNCHANGED <<role, want>>

\* The process restarts: what the reconcile had found is lost.
Lose(r) ==
  /\ Become(r, "idle")
  /\ want' = [want EXCEPT ![r] = {}]
  /\ at' = [at EXCEPT ![r] = 1]
  /\ Remember(r, Absent)
  /\ UNCHANGED role

=============================================================================
