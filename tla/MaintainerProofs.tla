-------------------------- MODULE MaintainerProofs --------------------------
(***************************************************************************)
(* Maintainer is type correct, never writes a role that is not this        *)
(* project's, and never writes one that is right already, for any number of*)
(* replicas with caches of any age.                                        *)
(***************************************************************************)
EXTENDS Maintainer, TLAPS

\* A role as somebody has it, next to the role on the server: an older version of
\* it, or the role itself.
Older(a, b) == a.version <= b.version /\ (a.version = b.version => a = b)

\* What the two action properties rest on: a cache has no version the server did
\* not have, and who is about to update has read a managed role that differs from
\* what it wants.
ViewInv ==
  /\ \A r \in Reconcilers, n \in RoleSet : Older(seenRole[r][n], role[n])
  /\ \A r \in Reconcilers :
       pc[r] = "update" => /\ Older(got[r], role[Name(r)])
                           /\ got[r].managed /\ got[r].groups # want[r]

Places == {"idle", "list", "get", "create", "update", "reconciled", "failed"}

LEMMA NamesAreRoles ==
  /\ RoleSet = {"admin", "view"} /\ DOMAIN RoleNames = {1, 2} /\ Len(RoleNames) = 2
  /\ RoleNames[1] = "admin" /\ RoleNames[2] = "view"
BY DEF RoleSet, RoleNames

LEMMA NameType ==
  ASSUME RolesTypeOK, NEW r \in Reconcilers
  PROVE  Name(r) \in RoleSet
BY NamesAreRoles DEF RolesTypeOK, Name, RoleSet

LEMMA AbsentType == Absent \in RoleStates
BY DEF Absent, RoleStates

\* The steps that leave the role, or the end of a reconcile, stay in place.
LEMMA AdvanceType ==
  ASSUME TypeOK, NEW r \in Reconcilers, Advance(r) \/ Abort(r)
  PROVE  /\ pc' \in [Reconcilers -> Places] /\ at' \in [Reconcilers -> DOMAIN RoleNames]
         /\ pc'[r] # "update" /\ \A q \in Reconcilers \ {r} : pc'[q] = pc[q] /\ at'[q] = at[q]
<1>1. at \in [Reconcilers -> {1, 2}] /\ pc \in [Reconcilers -> Places]
  BY NamesAreRoles DEF TypeOK, RolesTypeOK, Places
<1>2. CASE Advance(r)
  <2>1. CASE at[r] = 2
    BY <1>1, <1>2, <2>1, NamesAreRoles DEF Advance, Become, Places
  <2>2. CASE at[r] = 1
    BY <1>1, <1>2, <2>2, NamesAreRoles DEF Advance, Become, Places
  <2> QED
    BY <1>1, <2>1, <2>2
<1>3. CASE Abort(r)
  BY <1>1, <1>3, NamesAreRoles DEF Abort, Become, Places
<1> QED
  BY <1>2, <1>3

LEMMA InitInv == Init => TypeOK /\ ViewInv
<1> SUFFICES ASSUME Init PROVE TypeOK /\ ViewInv
  OBVIOUS
<1>1. role \in [RoleSet -> RoleStates]
  <2>1. Absent \in RoleStates /\ Foreign \in RoleStates /\ Managed(bound) \in RoleStates
    BY AbsentType DEF Init, Foreign, Managed, RoleStates
  <2> QED
    BY <2>1 DEF Init
<1>2. RolesTypeOK
  BY <1>1, AbsentType, NamesAreRoles DEF Init, RolesInit, RolesTypeOK
<1>3. /\ pc = [r \in Reconcilers |-> "idle"]
      /\ seenBound = [r \in Reconcilers |-> bound] /\ bound \subseteq Groups
      /\ seenRole = [r \in Reconcilers |-> role] /\ pending = Reconcilers
  BY DEF Init, RolesInit
<1>4. /\ binds \in 0..MaxBinds /\ unbinds \in 0..MaxUnbinds /\ takeOvers \in 0..MaxTakeOvers
      /\ failures \in 0..MaxFailures
  BY MaintainerAssumption DEF Init
<1>5. TypeOK
  BY <1>1, <1>2, <1>3, <1>4 DEF TypeOK
<1>6. ViewInv
  <2>1. \A n \in RoleSet : role[n].version \in Nat
    BY <1>1 DEF RoleStates
  <2> QED
    BY <1>3, <2>1 DEF ViewInv, Older
<1> QED
  BY <1>5, <1>6

-----------------------------------------------------------------------------
(* The tenant and the watches write nothing a reconciler remembers. *)

LEMMA OutsideInv ==
  ASSUME TypeOK, ViewInv,
         \/ \E g \in Groups : Bind(g) \/ Unbind(g)
         \/ \E r \in Reconcilers : ObserveBindings(r)
  PROVE  TypeOK' /\ ViewInv'
<1>1. UNCHANGED <<role, pc, want, at, got, seenRole>>
  BY DEF Bind, Unbind, ObserveBindings, roleVars, cacheVars
<1>2. ViewInv'
  BY <1>1 DEF ViewInv, Name
<1>3. RolesTypeOK'
  BY <1>1 DEF TypeOK, RolesTypeOK
<1>4. bound' \subseteq Groups /\ seenBound' \in [Reconcilers -> SUBSET Groups] /\ pending' \subseteq Reconcilers
  BY DEF Bind, Unbind, ObserveBindings, cacheVars, envVars, TypeOK
<1>5. /\ binds' \in 0..MaxBinds /\ unbinds' \in 0..MaxUnbinds /\ takeOvers' \in 0..MaxTakeOvers
      /\ failures' \in 0..MaxFailures
  BY MaintainerAssumption DEF Bind, Unbind, ObserveBindings, envVars, TypeOK
<1> QED
  BY <1>1, <1>2, <1>3, <1>4, <1>5 DEF TypeOK

LEMMA ObserveRoleInv ==
  ASSUME TypeOK, ViewInv, NEW r \in Reconcilers, NEW n \in RoleSet, ObserveRole(r, n)
  PROVE  TypeOK' /\ ViewInv'
<1>1. /\ UNCHANGED <<role, pc, want, at, got, bound, seenBound, pending, binds, unbinds, takeOvers, failures>>
      /\ seenRole' = [seenRole EXCEPT ![r][n] = role[n]]
  BY DEF ObserveRole, roleVars, envVars
<1>2. role[n] \in RoleStates /\ role[n].version \in Nat
  BY DEF TypeOK, RolesTypeOK, RoleStates
<1>3. seenRole' \in [Reconcilers -> [RoleSet -> RoleStates]]
  BY <1>1, <1>2 DEF TypeOK
<1>4. \A q \in Reconcilers, m \in RoleSet :
        seenRole'[q][m] = IF q = r /\ m = n THEN role[n] ELSE seenRole[q][m]
  BY <1>1 DEF TypeOK
<1>5. Older(role[n], role[n])
  BY <1>2 DEF Older
<1>6. ViewInv'
  <2>1. \A q \in Reconcilers, m \in RoleSet : Older(seenRole'[q][m], role'[m])
    BY <1>1, <1>4, <1>5 DEF ViewInv
  <2>2. \A q \in Reconcilers : Name(q)' = Name(q)
    BY <1>1 DEF Name
  <2>3. \A q \in Reconcilers :
          pc'[q] = "update" => /\ Older(got'[q], role'[Name(q)'])
                               /\ got'[q].managed /\ got'[q].groups # want'[q]
    BY <1>1, <2>2 DEF ViewInv
  <2> QED
    BY <2>1, <2>3 DEF ViewInv, Older
<1>7. RolesTypeOK'
  BY <1>1 DEF TypeOK, RolesTypeOK
<1> QED
  BY <1>1, <1>3, <1>6, <1>7 DEF TypeOK

\* A write of a role gives it a version nobody has seen.
LEMMA OlderKept ==
  ASSUME NEW a \in RoleStates, NEW b \in RoleStates, NEW c \in RoleStates, Older(a, b),
         c = b \/ c.version = b.version + 1
  PROVE  Older(a, c)
<1>1. a.version \in Nat /\ b.version \in Nat
  BY DEF RoleStates
<1> QED
  BY <1>1 DEF Older

TakenOver(n) == [groups |-> role[n].groups, managed |-> FALSE, version |-> role[n].version + 1]

LEMMA TakeOverInv ==
  ASSUME TypeOK, ViewInv, NEW n \in RoleSet, TakeOver(n)
  PROVE  TypeOK' /\ ViewInv'
<1>1. /\ role' = [role EXCEPT ![n] = TakenOver(n)]
      /\ UNCHANGED <<pc, want, at, got, seenRole, bound, seenBound, binds, unbinds, pending, failures>>
  BY DEF TakeOver, TakenOver, cacheVars
<1>2. role \in [RoleSet -> RoleStates] /\ role[n] \in RoleStates /\ role[n].version \in Nat
  BY DEF TypeOK, RolesTypeOK, RoleStates
<1>3. TakenOver(n) \in RoleStates /\ TakenOver(n).version = role[n].version + 1
  BY <1>2 DEF RoleStates, TakenOver
<1>4. role'[n] = TakenOver(n)
  BY <1>1, <1>2
<1>5. \A m \in RoleSet \ {n} : role'[m] = role[m]
  BY <1>1, <1>2
<1>6. role' \in [RoleSet -> RoleStates]
  BY <1>1, <1>2, <1>3, <1>4, <1>5
<1>7. role'[n].version = role[n].version + 1
  BY <1>3, <1>4
<1>8. ASSUME NEW a \in RoleStates, NEW m \in RoleSet, Older(a, role[m]) PROVE Older(a, role'[m])
  BY <1>2, <1>5, <1>6, <1>7, <1>8, OlderKept
<1>9. \A q \in Reconcilers, m \in RoleSet : Older(seenRole'[q][m], role'[m])
  <2> SUFFICES ASSUME NEW q \in Reconcilers, NEW m \in RoleSet PROVE Older(seenRole[q][m], role'[m])
    BY <1>1
  <2>1. seenRole[q][m] \in RoleStates /\ Older(seenRole[q][m], role[m])
    BY DEF TypeOK, ViewInv
  <2> QED
    BY <1>8, <2>1
<1>10. ASSUME NEW q \in Reconcilers, pc'[q] = "update"
       PROVE  Older(got'[q], role'[Name(q)']) /\ got'[q].managed /\ got'[q].groups # want'[q]
  <2>1. pc[q] = "update" /\ got'[q] = got[q] /\ want'[q] = want[q] /\ Name(q)' = Name(q)
    BY <1>1, <1>10 DEF Name
  <2>2. got[q] \in RoleStates /\ Name(q) \in RoleSet /\ Older(got[q], role[Name(q)])
    BY <2>1, NameType DEF TypeOK, RolesTypeOK, ViewInv
  <2>3. Older(got[q], role'[Name(q)])
    BY <1>8, <2>2
  <2> QED
    BY <2>1, <2>3 DEF ViewInv
<1>11. takeOvers' \in 0..MaxTakeOvers
  BY MaintainerAssumption DEF TakeOver, TypeOK
<1>12. TypeOK'
  BY <1>1, <1>6, <1>11 DEF TypeOK, RolesTypeOK
<1> QED
  BY <1>9, <1>10, <1>12 DEF ViewInv

-----------------------------------------------------------------------------
(* A reconciler's own steps *)

\* Steps that write no role: those who are about to update stay as they were, or
\* have just read the role from the cache.
LEMMA QuietStep ==
  ASSUME TypeOK, ViewInv, NEW r \in Reconcilers,
         UNCHANGED <<role, seenRole>>,
         \A q \in Reconcilers \ {r} :
           pc'[q] = pc[q] /\ at'[q] = at[q] /\ got'[q] = got[q] /\ want'[q] = want[q],
         pc'[r] # "update"
           \/ /\ got'[r] = seenRole[r][Name(r)] /\ at'[r] = at[r]
              /\ got'[r].managed /\ got'[r].groups # want'[r]
  PROVE  ViewInv'
<1>1. \A q \in Reconcilers \ {r} : Name(q)' = Name(q)
  BY DEF Name
<1>2. pc'[r] = "update" => Older(got'[r], role'[Name(r)'])
  BY NameType DEF ViewInv, Name, TypeOK
<1>3. \A q \in Reconcilers :
        pc'[q] = "update" => /\ Older(got'[q], role'[Name(q)'])
                             /\ got'[q].managed /\ got'[q].groups # want'[q]
  BY <1>1, <1>2 DEF ViewInv
<1> QED
  BY <1>3 DEF ViewInv

\* Nobody else has seen what was written.
LEMMA WriteStep ==
  ASSUME TypeOK, ViewInv, NEW r \in Reconcilers,
         role' = [role EXCEPT ![Name(r)] = Written(r)], UNCHANGED <<want, seenRole>>,
         \A q \in Reconcilers \ {r} : pc'[q] = pc[q] /\ at'[q] = at[q] /\ got'[q] = got[q],
         pc'[r] # "update"
  PROVE  ViewInv' /\ role' \in [RoleSet -> RoleStates]
<1>0. Name(r) \in RoleSet
  BY NameType DEF TypeOK
<1>1. /\ \A n \in RoleSet : role[n] \in RoleStates /\ role[n].version \in Nat
      /\ want[r] \subseteq Groups
  BY DEF TypeOK, RolesTypeOK, RoleStates
<1>2. Written(r) \in RoleStates /\ Written(r).version = role[Name(r)].version + 1
  BY <1>0, <1>1 DEF Written, RoleStates
<1>3. role' \in [RoleSet -> RoleStates]
  BY <1>0, <1>2 DEF TypeOK, RolesTypeOK
<1>4. \A n \in RoleSet : role'[n] = role[n] \/ role'[n].version = role[n].version + 1
  BY <1>0, <1>2 DEF TypeOK, RolesTypeOK
<1>5. ASSUME NEW a \in RoleStates, NEW n \in RoleSet, Older(a, role[n]) PROVE Older(a, role'[n])
  BY <1>1, <1>3, <1>4, <1>5, OlderKept
<1>6. \A q \in Reconcilers, n \in RoleSet : Older(seenRole'[q][n], role'[n])
  <2> SUFFICES ASSUME NEW q \in Reconcilers, NEW n \in RoleSet PROVE Older(seenRole[q][n], role'[n])
    OBVIOUS
  <2>1. seenRole[q][n] \in RoleStates /\ Older(seenRole[q][n], role[n])
    BY DEF TypeOK, ViewInv
  <2> QED
    BY <1>5, <2>1
<1>7. ASSUME NEW q \in Reconcilers, pc'[q] = "update"
      PROVE  Older(got'[q], role'[Name(q)']) /\ got'[q].managed /\ got'[q].groups # want'[q]
  <2>1. q # r /\ pc[q] = "update" /\ got'[q] = got[q] /\ Name(q)' = Name(q)
    BY <1>7 DEF Name
  <2>2. got[q] \in RoleStates /\ Name(q) \in RoleSet /\ Older(got[q], role[Name(q)])
    BY <2>1, NameType DEF TypeOK, RolesTypeOK, ViewInv
  <2>3. Older(got[q], role'[Name(q)])
    BY <1>5, <2>2
  <2> QED
    BY <2>1, <2>3 DEF ViewInv
<1> QED
  BY <1>3, <1>6, <1>7 DEF ViewInv

LEMMA StartFinishInv ==
  ASSUME TypeOK, ViewInv, NEW r \in Reconcilers, Start(r) \/ Finish(r) \/ Requeue(r)
  PROVE  TypeOK' /\ ViewInv'
<1>1. PICK there \in {"idle", "list"} : pc' = [pc EXCEPT ![r] = there]
  BY DEF Start, Finish, Requeue, Become
<1>2. UNCHANGED <<role, at, got, bound, seenBound, seenRole, binds, unbinds, takeOvers, failures>>
  BY DEF Start, Finish, Requeue, envVars, cacheVars
<1>3. want' = want \/ want' = [want EXCEPT ![r] = {}]
  BY DEF Start, Finish, Requeue
<1>4. pending' \subseteq Reconcilers
  BY DEF Start, Finish, Requeue, TypeOK
<1>5. want' \in [Reconcilers -> SUBSET Groups] /\ \A q \in Reconcilers \ {r} : want'[q] = want[q]
  BY <1>3 DEF TypeOK, RolesTypeOK
<1>6. pc' \in [Reconcilers -> Places] /\ pc'[r] # "update" /\ \A q \in Reconcilers \ {r} : pc'[q] = pc[q]
  BY <1>1 DEF TypeOK, Places
<1>7. TypeOK'
  BY <1>2, <1>4, <1>5, <1>6 DEF TypeOK, RolesTypeOK, Places
<1>8. ViewInv'
  BY <1>2, <1>5, <1>6, QuietStep
<1> QED
  BY <1>7, <1>8

\* The types, from those of what a step of ReconcileRoles writes.
LEMMA WriteRolesType ==
  ASSUME TypeOK, NEW r \in Reconcilers, UNCHANGED <<envVars, cacheVars, pending, failures>>,
         role' \in [RoleSet -> RoleStates], pc' \in [Reconcilers -> Places],
         at' \in [Reconcilers -> DOMAIN RoleNames],
         want' \in [Reconcilers -> SUBSET Groups], got' \in [Reconcilers -> RoleStates]
  PROVE  TypeOK'
BY DEF TypeOK, RolesTypeOK, Places, envVars, cacheVars

LEMMA ListBindingsInv ==
  ASSUME TypeOK, ViewInv, NEW r \in Reconcilers, ListBindings(r, seenBound[r]),
         UNCHANGED <<envVars, cacheVars, pending, failures>>
  PROVE  TypeOK' /\ ViewInv'
<1>1. /\ want' = [want EXCEPT ![r] = seenBound[r]] /\ pc' = [pc EXCEPT ![r] = "get"]
      /\ UNCHANGED <<role, at, got, seenRole>>
  BY DEF ListBindings, Become, cacheVars
<1>2. want' \in [Reconcilers -> SUBSET Groups] /\ \A q \in Reconcilers \ {r} : want'[q] = want[q]
  BY <1>1 DEF TypeOK, RolesTypeOK
<1>3. pc' \in [Reconcilers -> Places] /\ pc'[r] # "update" /\ \A q \in Reconcilers \ {r} : pc'[q] = pc[q]
  BY <1>1 DEF TypeOK, Places
<1>4. /\ role' \in [RoleSet -> RoleStates] /\ at' \in [Reconcilers -> DOMAIN RoleNames]
      /\ got' \in [Reconcilers -> RoleStates]
  BY <1>1 DEF TypeOK, RolesTypeOK
<1> QED
  BY <1>1, <1>2, <1>3, <1>4, QuietStep, WriteRolesType

LEMMA GetRoleInv ==
  ASSUME TypeOK, ViewInv, NEW r \in Reconcilers, GetRole(r, seenRole[r][Name(r)]),
         UNCHANGED <<envVars, cacheVars, pending, failures>>
  PROVE  TypeOK' /\ ViewInv'
<1> DEFINE seen == seenRole[r][Name(r)]
<1>0. seen \in RoleStates
  BY NameType DEF TypeOK
<1>1. UNCHANGED <<role, want, seenRole>>
  BY DEF GetRole, cacheVars
<1>2. /\ role' \in [RoleSet -> RoleStates] /\ want' \in [Reconcilers -> SUBSET Groups]
      /\ at \in [Reconcilers -> DOMAIN RoleNames] /\ got \in [Reconcilers -> RoleStates]
      /\ pc \in [Reconcilers -> Places]
  BY <1>1 DEF TypeOK, RolesTypeOK, Places
<1>3. CASE Become(r, "create") /\ UNCHANGED <<at, got>>
  <2>1. pc' \in [Reconcilers -> Places] /\ pc'[r] # "update" /\ \A q \in Reconcilers \ {r} : pc'[q] = pc[q]
    BY <1>2, <1>3 DEF Become, Places
  <2> QED
    BY <1>1, <1>2, <1>3, <2>1, QuietStep, WriteRolesType
<1>4. CASE (Abort(r) \/ Advance(r)) /\ UNCHANGED got
  BY <1>1, <1>2, <1>4, AdvanceType, QuietStep, WriteRolesType
<1>5. CASE /\ seen.managed /\ seen.groups # want[r]
           /\ Become(r, "update") /\ Remember(r, seen) /\ UNCHANGED at
  <2>1. pc' \in [Reconcilers -> Places] /\ \A q \in Reconcilers \ {r} : pc'[q] = pc[q]
    BY <1>2, <1>5 DEF Become, Places
  <2>2. got' \in [Reconcilers -> RoleStates] /\ got'[r] = seen /\ \A q \in Reconcilers \ {r} : got'[q] = got[q]
    BY <1>0, <1>2, <1>5 DEF Remember
  <2>3. TypeOK'
    BY <1>2, <1>5, <2>1, <2>2, WriteRolesType
  <2>4. ViewInv'
    BY <1>1, <1>5, <2>1, <2>2, QuietStep
  <2> QED
    BY <2>3, <2>4
<1> QED
  BY <1>3, <1>4, <1>5 DEF GetRole

LEMMA CreateRoleInv ==
  ASSUME TypeOK, ViewInv, NEW r \in Reconcilers, CreateRole(r),
         UNCHANGED <<envVars, cacheVars, pending, failures>>
  PROVE  TypeOK' /\ ViewInv'
<1>1. /\ UNCHANGED <<want, got, seenRole>> /\ Advance(r)
      /\ want \in [Reconcilers -> SUBSET Groups] /\ got \in [Reconcilers -> RoleStates]
  BY DEF CreateRole, cacheVars, TypeOK, RolesTypeOK
<1>2. /\ pc' \in [Reconcilers -> Places] /\ at' \in [Reconcilers -> DOMAIN RoleNames]
      /\ pc'[r] # "update" /\ \A q \in Reconcilers \ {r} : pc'[q] = pc[q] /\ at'[q] = at[q]
  BY <1>1, AdvanceType
<1>3. CASE role' = [role EXCEPT ![Name(r)] = Written(r)]
  BY <1>1, <1>2, <1>3, WriteStep, WriteRolesType
<1>4. CASE UNCHANGED role
  BY <1>1, <1>2, <1>4, QuietStep, WriteRolesType DEF TypeOK, RolesTypeOK
<1> QED
  BY <1>3, <1>4 DEF CreateRole

\* Forgetting what was read of the role.
LEMMA ForgetType ==
  ASSUME TypeOK, NEW r \in Reconcilers, Remember(r, Absent)
  PROVE  got' \in [Reconcilers -> RoleStates] /\ \A q \in Reconcilers \ {r} : got'[q] = got[q]
BY AbsentType DEF Remember, TypeOK, RolesTypeOK

LEMMA UpdateRoleInv ==
  ASSUME TypeOK, ViewInv, NEW r \in Reconcilers, UpdateRole(r),
         UNCHANGED <<envVars, cacheVars, pending, failures>>
  PROVE  TypeOK' /\ ViewInv'
<1>1. /\ UNCHANGED <<want, seenRole>> /\ (Advance(r) \/ Abort(r))
      /\ want \in [Reconcilers -> SUBSET Groups]
  BY DEF UpdateRole, cacheVars, TypeOK, RolesTypeOK
<1>2. /\ pc' \in [Reconcilers -> Places] /\ at' \in [Reconcilers -> DOMAIN RoleNames]
      /\ pc'[r] # "update" /\ \A q \in Reconcilers \ {r} : pc'[q] = pc[q] /\ at'[q] = at[q]
  BY <1>1, AdvanceType
<1>3. got' \in [Reconcilers -> RoleStates] /\ \A q \in Reconcilers \ {r} : got'[q] = got[q]
  BY ForgetType DEF UpdateRole
<1>4. CASE role' = [role EXCEPT ![Name(r)] = Written(r)]
  BY <1>1, <1>2, <1>3, <1>4, WriteStep, WriteRolesType
<1>5. CASE UNCHANGED role
  BY <1>1, <1>2, <1>3, <1>5, QuietStep, WriteRolesType DEF TypeOK, RolesTypeOK
<1> QED
  BY <1>4, <1>5 DEF UpdateRole

LEMMA FailInv ==
  ASSUME TypeOK, ViewInv, NEW r \in Reconcilers, Fail(r)
  PROVE  TypeOK' /\ ViewInv'
<1>1. /\ UNCHANGED <<role, want, bound, seenBound, seenRole, pending, binds, unbinds, takeOvers>>
      /\ Abort(r) /\ Remember(r, Absent)
  BY DEF Fail, CallFails, envVars, cacheVars
<1>2. /\ pc' \in [Reconcilers -> Places] /\ at' \in [Reconcilers -> DOMAIN RoleNames]
      /\ pc'[r] # "update" /\ \A q \in Reconcilers \ {r} : pc'[q] = pc[q] /\ at'[q] = at[q]
  BY <1>1, AdvanceType
<1>3. got' \in [Reconcilers -> RoleStates] /\ \A q \in Reconcilers \ {r} : got'[q] = got[q]
  BY <1>1, ForgetType
<1>4. failures' \in 0..MaxFailures
  BY MaintainerAssumption DEF Fail, TypeOK
<1>5. TypeOK'
  BY <1>1, <1>2, <1>3, <1>4 DEF TypeOK, RolesTypeOK, Places
<1>6. ViewInv'
  BY <1>1, <1>2, <1>3, QuietStep
<1> QED
  BY <1>5, <1>6

LEMMA RestartInv ==
  ASSUME TypeOK, ViewInv, NEW r \in Reconcilers, Restart(r)
  PROVE  TypeOK' /\ ViewInv'
<1>1. /\ UNCHANGED <<role, bound, binds, unbinds, takeOvers>>
      /\ pc' = [pc EXCEPT ![r] = "idle"] /\ at' = [at EXCEPT ![r] = 1]
      /\ want' = [want EXCEPT ![r] = {}] /\ Remember(r, Absent)
      /\ seenBound' = [seenBound EXCEPT ![r] = bound] /\ seenRole' = [seenRole EXCEPT ![r] = role]
      /\ pending' = pending \cup {r}
  BY DEF Restart, Lose, Become, envVars
<1>2. got' \in [Reconcilers -> RoleStates] /\ \A q \in Reconcilers \ {r} : got'[q] = got[q]
  BY <1>1, ForgetType
<1>3. failures' \in 0..MaxFailures
  BY MaintainerAssumption DEF Restart, TypeOK
<1>4. /\ pc' \in [Reconcilers -> Places] /\ at' \in [Reconcilers -> DOMAIN RoleNames]
      /\ want' \in [Reconcilers -> SUBSET Groups] /\ seenBound' \in [Reconcilers -> SUBSET Groups]
      /\ seenRole' \in [Reconcilers -> [RoleSet -> RoleStates]] /\ pending' \subseteq Reconcilers
  BY <1>1, NamesAreRoles DEF TypeOK, RolesTypeOK, Places
<1>5. TypeOK'
  BY <1>1, <1>2, <1>3, <1>4 DEF TypeOK, RolesTypeOK, Places
<1>6. \A q \in Reconcilers, n \in RoleSet : Older(seenRole'[q][n], role'[n])
  <2> SUFFICES ASSUME NEW q \in Reconcilers, NEW n \in RoleSet PROVE Older(seenRole'[q][n], role[n])
    BY <1>1
  <2>1. CASE q = r
    <3>1. seenRole'[q][n] = role[n] /\ role[n].version \in Nat
      BY <1>1, <2>1 DEF TypeOK, RolesTypeOK, RoleStates
    <3> QED
      BY <3>1 DEF Older
  <2>2. CASE q # r
    BY <1>1, <2>2 DEF TypeOK, ViewInv
  <2> QED
    BY <2>1, <2>2
<1>7. ASSUME NEW q \in Reconcilers, pc'[q] = "update"
      PROVE  Older(got'[q], role'[Name(q)']) /\ got'[q].managed /\ got'[q].groups # want'[q]
  <2>1. q # r /\ pc[q] = "update" /\ want'[q] = want[q] /\ Name(q)' = Name(q)
    BY <1>1, <1>7 DEF TypeOK, RolesTypeOK, Name
  <2> QED
    BY <1>1, <1>2, <2>1 DEF ViewInv
<1> QED
  BY <1>5, <1>6, <1>7 DEF ViewInv

LEMMA Inductive == TypeOK /\ ViewInv /\ [Next]_vars => TypeOK' /\ ViewInv'
<1> SUFFICES ASSUME TypeOK, ViewInv, [Next]_vars PROVE TypeOK' /\ ViewInv'
  OBVIOUS
<1>1. CASE UNCHANGED vars
  <2>1. UNCHANGED <<role, pc, want, at, got, seenRole, bound, seenBound, binds, unbinds, takeOvers,
                 pending, failures>>
    BY <1>1 DEF vars, roleVars, envVars, cacheVars
  <2>2. ViewInv'
    BY <2>1 DEF ViewInv, Name
  <2>3. TypeOK'
    BY <2>1 DEF TypeOK, RolesTypeOK
  <2> QED
    BY <2>2, <2>3
<1>2. ASSUME NEW r \in Reconcilers, WriteRoles(r) PROVE TypeOK' /\ ViewInv'
  BY <1>2, ListBindingsInv, GetRoleInv, CreateRoleInv, UpdateRoleInv DEF WriteRoles
<1> QED
  BY <1>1, <1>2, OutsideInv, TakeOverInv, ObserveRoleInv, StartFinishInv, FailInv, RestartInv DEF Next, Works

-----------------------------------------------------------------------------
(* What the invariant gives *)

\* Whoever changes a role that is there already either takes it over, which leaves
\* it to nobody of this project, or is a reconciler that read this very version.
LEMMA OnlyUpdatesWrite ==
  ASSUME TypeOK, ViewInv, [Next]_vars, NEW n \in RoleSet, role[n] # Absent, role'[n] # role[n]
  PROVE  /\ role[n].managed
         /\ role'[n].managed => role'[n].groups # role[n].groups
<1>1. ~UNCHANGED role
  OBVIOUS
<1>2. \/ \E m \in RoleSet : TakeOver(m)
      \/ \E r \in Reconcilers : CreateRole(r) \/ UpdateRole(r)
  BY <1>1 DEF Next, Works, Start, WriteRoles, ListBindings, GetRole, Finish, Requeue, Fail, CallFails,
              Restart, Lose, Bind, Unbind, ObserveBindings, ObserveRole, vars, roleVars
<1>3. ASSUME NEW m \in RoleSet, TakeOver(m)
      PROVE  role[n].managed /\ ~role'[n].managed
  <2>1. /\ role \in [RoleSet -> RoleStates] /\ role[m] \in RoleStates
        /\ role' = [role EXCEPT ![m] = TakenOver(m)]
    BY <1>3 DEF TypeOK, RolesTypeOK, TakeOver, TakenOver
  <2>2. m = n
    BY <2>1
  <2>3. role[n].managed
    BY <1>3, <2>2 DEF TakeOver
  <2>4. role'[n] = TakenOver(n)
    BY <2>1, <2>2
  <2> QED
    BY <2>3, <2>4 DEF TakenOver
<1>4. ASSUME NEW r \in Reconcilers, CreateRole(r) \/ UpdateRole(r)
      PROVE  role[n].managed /\ role'[n].groups # role[n].groups
  <2>3. Name(r) \in RoleSet /\ role \in [RoleSet -> RoleStates] /\ got[r] \in RoleStates
    BY NameType DEF TypeOK, RolesTypeOK
  <2>4. role' = [role EXCEPT ![Name(r)] = Written(r)]
    BY <1>1, <1>4 DEF CreateRole, UpdateRole
  <2>5. n = Name(r) /\ role'[n].groups = want[r]
    BY <2>3, <2>4 DEF Written
  <2>6. UpdateRole(r)
    BY <1>1, <1>4, <2>5 DEF CreateRole
  <2>7. pc[r] = "update" /\ role[n].version = got[r].version
    BY <1>1, <2>5, <2>6 DEF UpdateRole
  <2>8. got[r] = role[n] /\ got[r].managed /\ got[r].groups # want[r]
    BY <2>5, <2>7 DEF ViewInv, Older
  <2> QED
    BY <2>5, <2>8
<1> QED
  BY <1>2, <1>3, <1>4

\* Every state of the maintainer, of its caches and of the tenant around it is well
\* typed (maintainer.go:66-101, reconcile.go:66-113).
THEOREM TypeCorrect == Spec => []TypeOK
<1>1. Init => TypeOK /\ ViewInv
  BY InitInv
<1>2. (TypeOK /\ ViewInv) /\ [Next]_vars => (TypeOK /\ ViewInv)'
  BY Inductive
<1> QED
  BY <1>1, <1>2, PTL DEF Spec

\* A role that somebody took over, at any moment, is never written again, by any
\* number of replicas whose caches may still show it as this project's: the label is
\* checked on the cached role, and the version sent with the update makes the
\* check hold of the one on the server (reconcile.go:75-78 and 105-110).
THEOREM ForeignRolesAreKept == Spec => ForeignRolesKept
<1>1. Init => TypeOK /\ ViewInv
  BY InitInv
<1>2. (TypeOK /\ ViewInv) /\ [Next]_vars => (TypeOK /\ ViewInv)'
  BY Inductive
<1>3. (TypeOK /\ ViewInv) /\ [Next]_vars
        => [\A n \in RoleSet : (role[n] # Absent /\ ~role[n].managed) => role'[n] = role[n]]_role
  BY OnlyUpdatesWrite
<1> QED
  BY <1>1, <1>2, <1>3, PTL DEF Spec, ForeignRolesKept

\* A write of this project of a role that is there always changes what it grants:
\* replicas that decide from old caches never write what is there already (reconcile.go:41-44,
\* 101-110).
THEOREM WritesAreNeeded == Spec => WritesChangeTheRole
<1>1. Init => TypeOK /\ ViewInv
  BY InitInv
<1>2. (TypeOK /\ ViewInv) /\ [Next]_vars => (TypeOK /\ ViewInv)'
  BY Inductive
<1>3. (TypeOK /\ ViewInv) /\ [Next]_vars
        => [\A n \in RoleSet : (role[n] # Absent /\ role'[n] # role[n] /\ role'[n].managed)
              => role'[n].groups # role[n].groups]_role
  BY OnlyUpdatesWrite
<1> QED
  BY <1>1, <1>2, <1>3, PTL DEF Spec, WritesChangeTheRole

=============================================================================
