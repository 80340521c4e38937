-------------------------- MODULE OnboardingProofs --------------------------
(***************************************************************************)
(* A workspace is Ready only when its roles cover every default export, for*)
(* any number of replicas of the initializer, exports and retries.         *)
(***************************************************************************)
EXTENDS Onboarding, TLAPS

Covered(n) == role[n].managed /\ role[n].groups = DefaultGroups

\* kcp's initializer is the gate: it leaves when every default binding is bound
\* with its claims applied, ours leaves after it, and no role is looked at before.
GateInv ==
  /\ \A e \in DefaultExports : claims[e] = "applied" => phase[e] = "Bound"
  /\ Kcps \notin initializers => \A e \in DefaultExports : claims[e] = "applied"
  /\ Ours \notin initializers => Kcps \notin initializers
  /\ \A r \in Reconcilers :
       pc[r] \in {"list", "get", "create", "update", "reconciled"} => Kcps \notin initializers

\* So all that a reconciler derives is right, and all that it wrote: it finds no
\* role to update, and those before the one it is at are written.
RoleInv ==
  /\ \A n \in RoleSet : role[n] = Absent \/ Covered(n)
  /\ \A r \in Reconcilers :
       /\ pc[r] \in {"get", "create"} => want[r] = DefaultGroups
       /\ pc[r] \notin {"get", "create"} => at[r] = 1 /\ pc[r] # "update"
       /\ at[r] = 2 => Covered("admin")
       /\ pc[r] = "reconciled" => \A n \in RoleSet : Covered(n)
  /\ Ours \notin initializers => \A n \in RoleSet : Covered(n)

IInv == OnboardingTypeOK /\ GateInv /\ RoleInv

Places == {"idle", "read", "nudge", "list", "get", "create", "update", "reconciled", "failed"}

-----------------------------------------------------------------------------
(* The roles and the places of a reconciler *)

LEMMA NamesAreRoles ==
  /\ RoleSet = {"admin", "view"} /\ DOMAIN RoleNames = {1, 2} /\ Len(RoleNames) = 2
  /\ RoleNames[1] = "admin" /\ RoleNames[2] = "view"
BY DEF RoleSet, RoleNames

LEMMA TypeFacts ==
  ASSUME OnboardingTypeOK
  PROVE  /\ pc \in [Reconcilers -> Places] /\ at \in [Reconcilers -> {1, 2}]
         /\ want \in [Reconcilers -> SUBSET Groups] /\ got \in [Reconcilers -> RoleStates]
         /\ role \in [RoleSet -> RoleStates]
         /\ \A r \in Reconcilers : Name(r) \in RoleSet
BY NamesAreRoles DEF OnboardingTypeOK, RolesTypeOK, Places, Name

LEMMA AbsentType == Absent \in RoleStates /\ ~Absent.managed
BY DEF Absent, RoleStates

\* The default exports serve groups there are.
LEMMA ServedIsGroups == Served \subseteq Groups /\ DefaultGroups \subseteq Groups
BY OnboardingAssumption DEF Served, DefaultGroups

\* With every default binding bound, what is served is all there is to serve.
LEMMA ServedIsAll ==
  ASSUME \A e \in DefaultExports : phase[e] = "Bound"
  PROVE  Served = DefaultGroups
BY DEF Served, DefaultGroups

\* A reconciler that goes elsewhere leaves the others where they are.
LEMMA Moves ==
  ASSUME OnboardingTypeOK, NEW r \in Reconcilers, NEW there \in Places, Become(r, there)
  PROVE  /\ pc' \in [Reconcilers -> Places] /\ pc'[r] = there
         /\ \A q \in Reconcilers \ {r} : pc'[q] = pc[q]
BY TypeFacts DEF Become

LEMMA Advances ==
  ASSUME OnboardingTypeOK, NEW r \in Reconcilers, Advance(r)
  PROVE  /\ pc' \in [Reconcilers -> Places] /\ at' \in [Reconcilers -> {1, 2}]
         /\ \A q \in Reconcilers \ {r} : pc'[q] = pc[q] /\ at'[q] = at[q]
         /\ \/ at[r] = 2 /\ pc'[r] = "reconciled" /\ at'[r] = 1
            \/ at[r] = 1 /\ pc'[r] = "get" /\ at'[r] = 2
<1>1. at \in [Reconcilers -> {1, 2}]
  BY TypeFacts
<1>2. CASE at[r] = 2
  <2>1. Become(r, "reconciled") /\ at' = [at EXCEPT ![r] = 1]
    BY <1>2, NamesAreRoles DEF Advance
  <2> QED
    BY <1>1, <1>2, <2>1, Moves DEF Places
<1>3. CASE at[r] = 1
  <2>1. Become(r, "get") /\ at' = [at EXCEPT ![r] = 2]
    BY <1>1, <1>3, NamesAreRoles DEF Advance
  <2> QED
    BY <1>1, <1>3, <2>1, Moves DEF Places
<1> QED
  BY <1>1, <1>2, <1>3

LEMMA Aborts ==
  ASSUME OnboardingTypeOK, NEW r \in Reconcilers, Abort(r)
  PROVE  /\ pc' \in [Reconcilers -> Places] /\ at' \in [Reconcilers -> {1, 2}]
         /\ \A q \in Reconcilers \ {r} : pc'[q] = pc[q] /\ at'[q] = at[q]
         /\ pc'[r] = "failed" /\ at'[r] = 1
<1>1. Become(r, "failed") /\ at' = [at EXCEPT ![r] = 1] /\ "failed" \in Places
  BY DEF Abort, Places
<1> QED
  BY <1>1, TypeFacts, Moves

-----------------------------------------------------------------------------
(* kcp: it moves no reconciler and writes no role. *)

LEMMA KcpStep ==
  ASSUME IInv, Kcp \/ Materialise
  PROVE  IInv'
<1>1. UNCHANGED <<role, pc, want, at, got, toNudge, setbacks, retries>>
  BY DEF Kcp, Materialise, BindingsInitialized, CreateBinding, BindDefault, ApplyClaims, roleVars,
         kcpVars, ctlVars
<1>2. OnboardingTypeOK'
  <2>1. RolesTypeOK'
    BY <1>1 DEF IInv, OnboardingTypeOK, RolesTypeOK
  <2>2. /\ initializers' \subseteq {Ours, Kcps} /\ requeued' \subseteq Reconcilers
        /\ crdsBound' \in BOOLEAN
        /\ phase' \in [DefaultExports -> {"none", "Binding", "Bound"}]
        /\ claims' \in [DefaultExports -> {"trying", "gaveUp", "applied"}]
    BY DEF IInv, OnboardingTypeOK, Kcp, Materialise, BindingsInitialized, CreateBinding, BindDefault, ApplyClaims,
           kcpVars, ctlVars
  <2> QED
    BY <1>1, <2>1, <2>2 DEF IInv, OnboardingTypeOK
<1>3. GateInv'
  <2>1. CASE BindingsInitialized
    BY <1>1, <2>1 DEF BindingsInitialized, IInv, GateInv, kcpVars
  <2>2. ASSUME NEW e \in DefaultExports, CreateBinding(e) \/ BindDefault(e) PROVE GateInv'
    <3>1. /\ UNCHANGED <<initializers, claims>>
          /\ claims[e] = "applied" => phase'[e] = "Bound"
      BY <2>2 DEF CreateBinding, BindDefault, IInv, GateInv, OnboardingTypeOK
    <3>2. \A d \in DefaultExports \ {e} : phase'[d] = phase[d]
      BY <2>2 DEF CreateBinding, BindDefault, IInv, OnboardingTypeOK
    <3> QED
      BY <1>1, <2>2, <3>1, <3>2 DEF CreateBinding, BindDefault, IInv, GateInv
  <2>3. ASSUME NEW e \in DefaultExports, ApplyClaims(e) PROVE GateInv'
    <3>1. /\ UNCHANGED <<initializers, phase>> /\ phase[e] = "Bound"
          /\ claims[e] # "applied"
          /\ \A d \in DefaultExports \ {e} : claims'[d] = claims[d]
      BY <2>3 DEF ApplyClaims, IInv, OnboardingTypeOK
    <3> QED
      BY <1>1, <3>1 DEF IInv, GateInv
  <2>4. CASE Materialise
    BY <1>1, <2>4 DEF Materialise, IInv, GateInv
  <2> QED
    BY <2>1, <2>2, <2>3, <2>4 DEF Kcp
<1>4. RoleInv'
  <2>1. Ours \notin initializers' => Ours \notin initializers
    BY DEF Kcp, Materialise, BindingsInitialized, CreateBinding, BindDefault, ApplyClaims, Ours, Kcps
  <2> QED
    BY <1>1, <2>1 DEF IInv, RoleInv, Covered
<1> QED
  BY <1>2, <1>3, <1>4 DEF IInv

-----------------------------------------------------------------------------
(* The initializer *)

Working == {"list", "get", "create", "update", "reconciled"}

\* A reconciler goes on to the roles only past the gate, or from work to work.
LEMMA GateKept ==
  ASSUME IInv, NEW r \in Reconcilers, UNCHANGED <<phase, claims, initializers>>,
         \A q \in Reconcilers \ {r} : pc'[q] = pc[q],
         pc'[r] \in Working => pc[r] \in Working \/ Kcps \notin initializers
  PROVE  GateInv'
BY DEF IInv, GateInv, Working

\* A step that writes no role keeps what is known of them.
LEMMA RolesKept ==
  ASSUME IInv, NEW r \in Reconcilers, UNCHANGED <<role, initializers>>,
         \A q \in Reconcilers \ {r} : pc'[q] = pc[q] /\ at'[q] = at[q] /\ want'[q] = want[q],
         pc'[r] \in {"get", "create"} => want'[r] = DefaultGroups,
         pc'[r] \notin {"get", "create"} => at'[r] = 1 /\ pc'[r] # "update",
         at'[r] = 2 => Covered("admin"),
         pc'[r] = "reconciled" => \A n \in RoleSet : Covered(n)
  PROVE  RoleInv'
BY DEF IInv, RoleInv, Covered

\* Steps between the roles: they only take the reconciler somewhere else.
LEMMA MoveStep ==
  ASSUME IInv, NEW r \in Reconcilers,
         Start(r) \/ ReadLogical(r) \/ Nudged(r) \/ Requeue(r)
  PROVE  IInv'
<1>1. UNCHANGED <<role, want, at, got, initializers, phase, claims, retries, crdsBound, setbacks>>
  BY DEF Start, ReadLogical, Nudged, Requeue, kcpVars
<1>2. /\ pc' \in [Reconcilers -> Places] /\ \A q \in Reconcilers \ {r} : pc'[q] = pc[q]
      /\ pc[r] \in {"idle", "read", "nudge", "failed"}
      /\ pc'[r] \in {"idle", "read", "nudge", "list"}
      /\ pc'[r] = "list" => Kcps \notin initializers
  BY Moves DEF Start, ReadLogical, Nudged, Requeue, Places, IInv
<1>3. requeued' \subseteq Reconcilers
      /\ toNudge' \in [Reconcilers -> SUBSET (DefaultExports \X (0..(MaxClaimRetries - 1)))]
  <2>1. CASE toNudge' = [toNudge EXCEPT ![r] = {<<e, retries[e]>> : e \in {d \in DefaultExports : Pending(d)}}]
    <3>1. \A e \in DefaultExports : Pending(e) => retries[e] \in 0..(MaxClaimRetries - 1)
      BY OnboardingAssumption DEF Pending, IInv, OnboardingTypeOK
    <3>2. {<<e, retries[e]>> : e \in {d \in DefaultExports : Pending(d)}}
            \subseteq DefaultExports \X (0..(MaxClaimRetries - 1))
      BY <3>1
    <3> QED
      BY <2>1, <3>2 DEF IInv, OnboardingTypeOK, Start, ReadLogical, Nudged, Requeue
  <2>2. CASE UNCHANGED toNudge
    BY <2>2 DEF IInv, OnboardingTypeOK, Start, ReadLogical, Nudged, Requeue
  <2> QED
    BY <2>1, <2>2 DEF Start, ReadLogical, Nudged, Requeue
<1>4. OnboardingTypeOK'
  BY <1>1, <1>2, <1>3 DEF IInv, OnboardingTypeOK, RolesTypeOK, Places
<1>5. GateInv'
  BY <1>1, <1>2, GateKept DEF Working
<1>6. RoleInv'
  <2>1. at[r] = 1
    BY <1>2 DEF IInv, RoleInv
  <2> QED
    BY <1>1, <1>2, <2>1, RolesKept
<1> QED
  BY <1>4, <1>5, <1>6 DEF IInv

\* The patch of a binding's annotation: it takes no applied claim back.
LEMMA NudgeStep ==
  ASSUME IInv, NEW r \in Reconcilers, Nudge(r)
  PROVE  IInv'
<1>1. UNCHANGED <<role, pc, want, at, got, initializers, phase, crdsBound, requeued, setbacks>>
  BY DEF Nudge, roleVars
<1>2. PICK n \in toNudge[r] :
        /\ toNudge' = [toNudge EXCEPT ![r] = @ \ {n}]
        /\ retries' = [retries EXCEPT ![n[1]] = n[2] + 1]
        /\ claims' = [claims EXCEPT ![n[1]] =
                        IF @ = "gaveUp" /\ retries[n[1]] # n[2] + 1 THEN "trying" ELSE @]
  BY DEF Nudge
<1>3. n[1] \in DefaultExports /\ n[2] + 1 \in 0..MaxClaimRetries
  BY OnboardingAssumption DEF IInv, OnboardingTypeOK
<1>4. OnboardingTypeOK'
  BY <1>1, <1>2, <1>3 DEF IInv, OnboardingTypeOK, RolesTypeOK
<1>5. \A e \in DefaultExports : claims'[e] = "applied" <=> claims[e] = "applied"
  BY <1>2, <1>3 DEF IInv, OnboardingTypeOK
<1> QED
  BY <1>1, <1>4, <1>5 DEF IInv, GateInv, RoleInv, Covered

LEMMA ListStep ==
  ASSUME IInv, NEW r \in Reconcilers, ListBindings(r, Served),
         UNCHANGED <<initializers, kcpVars, ctlVars>>
  PROVE  IInv'
<1>1. /\ UNCHANGED <<role, at, got, initializers, phase, claims, retries, crdsBound, requeued,
                     toNudge, setbacks>>
      /\ pc[r] = "list" /\ Become(r, "get") /\ want' = [want EXCEPT ![r] = Served]
  BY DEF ListBindings, kcpVars, ctlVars
<1>2. /\ pc' \in [Reconcilers -> Places] /\ pc'[r] = "get"
      /\ \A q \in Reconcilers \ {r} : pc'[q] = pc[q]
  BY <1>1, Moves DEF Places, IInv
<1>3. Served = DefaultGroups
  BY <1>1, ServedIsAll DEF IInv, GateInv
<1>4. want' \in [Reconcilers -> SUBSET Groups] /\ want'[r] = DefaultGroups
      /\ \A q \in Reconcilers \ {r} : want'[q] = want[q]
  BY <1>1, <1>3, ServedIsGroups, TypeFacts DEF IInv
<1>5. OnboardingTypeOK'
  BY <1>1, <1>2, <1>4 DEF IInv, OnboardingTypeOK, RolesTypeOK, Places
<1>6. GateInv'
  BY <1>1, <1>2, GateKept DEF Working
<1>7. at[r] = 1
  BY <1>1 DEF IInv, RoleInv
<1> QED
  BY <1>1, <1>2, <1>4, <1>5, <1>6, <1>7, RolesKept DEF IInv

\* A role that is there is covered, so the reconciler goes on to the next.
LEMMA GetStep ==
  ASSUME IInv, NEW r \in Reconcilers, GetRole(r, role[Name(r)]),
         UNCHANGED <<initializers, kcpVars, ctlVars>>
  PROVE  IInv'
<1>1. /\ UNCHANGED <<role, want, initializers, phase, claims, retries, crdsBound, requeued,
                     toNudge, setbacks>>
      /\ pc[r] = "get" /\ want[r] = DefaultGroups
  BY DEF GetRole, kcpVars, ctlVars, IInv, RoleInv
<1>2. Name(r) \in RoleSet /\ (role[Name(r)] = Absent \/ Covered(Name(r)))
  BY TypeFacts DEF IInv, RoleInv
<1>3. CASE role[Name(r)] = Absent
  <2>1. Become(r, "create") /\ UNCHANGED <<at, got>>
    BY <1>3, AbsentType DEF GetRole
  <2>2. /\ pc' \in [Reconcilers -> Places] /\ pc'[r] = "create"
        /\ \A q \in Reconcilers \ {r} : pc'[q] = pc[q]
    BY <2>1, Moves DEF Places, IInv
  <2>3. OnboardingTypeOK'
    BY <1>1, <2>1, <2>2 DEF IInv, OnboardingTypeOK, RolesTypeOK, Places
  <2>4. GateInv'
    BY <1>1, <2>2, GateKept DEF Working
  <2>5. at[r] = 2 => Covered("admin")
    BY DEF IInv, RoleInv
  <2> QED
    BY <1>1, <2>1, <2>2, <2>3, <2>4, <2>5, RolesKept DEF IInv
<1>4. CASE Covered(Name(r))
  <2>1. Advance(r) /\ UNCHANGED got
    BY <1>1, <1>4, AbsentType DEF GetRole, Covered
  <2>2. /\ pc' \in [Reconcilers -> Places] /\ at' \in [Reconcilers -> {1, 2}]
        /\ \A q \in Reconcilers \ {r} : pc'[q] = pc[q] /\ at'[q] = at[q]
        /\ \/ at[r] = 2 /\ pc'[r] = "reconciled" /\ at'[r] = 1
           \/ at[r] = 1 /\ pc'[r] = "get" /\ at'[r] = 2
    BY <2>1, Advances DEF IInv
  <2>3. OnboardingTypeOK'
    BY <1>1, <2>1, <2>2, NamesAreRoles DEF IInv, OnboardingTypeOK, RolesTypeOK, Places
  <2>4. GateInv'
    BY <1>1, <2>2, GateKept DEF Working
  <2>5. /\ at[r] = 2 => Covered("admin") /\ Covered("view")
        /\ at[r] = 1 => Covered("admin")
    BY <1>4, NamesAreRoles DEF IInv, RoleInv, Name
  <2> QED
    BY <1>1, <2>1, <2>2, <2>3, <2>4, <2>5, RolesKept, NamesAreRoles DEF IInv
<1> QED
  BY <1>2, <1>3, <1>4

\* Whether it creates the role or finds it created, the role is covered after.
LEMMA CreateStep ==
  ASSUME IInv, NEW r \in Reconcilers, CreateRole(r),
         UNCHANGED <<initializers, kcpVars, ctlVars>>
  PROVE  IInv'
<1>0. PICK name \in RoleSet : name = Name(r)
  BY TypeFacts DEF IInv
<1>1. /\ UNCHANGED <<want, got, initializers, phase, claims, retries, crdsBound, requeued,
                     toNudge, setbacks>>
      /\ pc[r] = "create" /\ want[r] = DefaultGroups /\ Advance(r)
  BY DEF CreateRole, kcpVars, ctlVars, IInv, RoleInv
<1>2. /\ pc' \in [Reconcilers -> Places] /\ at' \in [Reconcilers -> {1, 2}]
      /\ \A q \in Reconcilers \ {r} : pc'[q] = pc[q] /\ at'[q] = at[q]
      /\ \/ at[r] = 2 /\ pc'[r] = "reconciled" /\ at'[r] = 1
         \/ at[r] = 1 /\ pc'[r] = "get" /\ at'[r] = 2
  BY <1>1, Advances DEF IInv
<1>3. /\ Written(r) \in RoleStates
      /\ Written(r).managed /\ Written(r).groups = DefaultGroups
  <2>1. role[name].version \in Nat
    BY TypeFacts DEF IInv, RoleStates
  <2> QED
    BY <1>1, <1>0, <2>1, ServedIsGroups DEF Written, RoleStates
<1>4. /\ role' \in [RoleSet -> RoleStates] /\ Covered(name)'
      /\ \A n \in RoleSet : role'[n] = role[n] \/ Covered(n)'
  <2>1. CASE role[name] = Absent
    <3>1. role' = [role EXCEPT ![name] = Written(r)]
      BY <1>0, <2>1 DEF CreateRole
    <3> QED
      BY <1>3, <3>1, TypeFacts DEF Covered, DefaultGroups, IInv
  <2>2. CASE role[name] # Absent
    <3>1. Covered(name) /\ role' = role
      BY <1>0, <2>2 DEF CreateRole, IInv, RoleInv
    <3> QED
      BY <3>1, TypeFacts DEF Covered, IInv
  <2> QED
    BY <2>1, <2>2
<1>5. \A n \in RoleSet : Covered(n) => Covered(n)'
  BY <1>4 DEF Covered
<1>6. OnboardingTypeOK'
  BY <1>1, <1>2, <1>4, NamesAreRoles DEF IInv, OnboardingTypeOK, RolesTypeOK, Places
<1>7. GateInv'
  BY <1>1, <1>2, GateKept DEF Working
<1>8. at'[r] = 2 => Covered("admin")'
  BY <1>2, <1>4, <1>0, NamesAreRoles DEF Name
<1>9. pc'[r] = "reconciled" => \A n \in RoleSet : Covered(n)'
  <2>1. at[r] = 2 => Covered("admin") /\ name = "view"
    BY <1>0, NamesAreRoles DEF IInv, RoleInv, Name
  <2> QED
    BY <1>2, <1>4, <1>5, <2>1, NamesAreRoles
<1>10. RoleInv'
  <2>1. \A n \in RoleSet : role'[n] = Absent \/ Covered(n)'
    BY <1>4 DEF IInv, RoleInv, Covered
  <2>2. Ours \notin initializers' => \A n \in RoleSet : Covered(n)'
    BY <1>1, <1>5 DEF IInv, RoleInv
  <2>3. \A q \in Reconcilers :
          /\ pc'[q] \in {"get", "create"} => want'[q] = DefaultGroups
          /\ pc'[q] \notin {"get", "create"} => at'[q] = 1 /\ pc'[q] # "update"
          /\ at'[q] = 2 => Covered("admin")'
          /\ pc'[q] = "reconciled" => \A n \in RoleSet : Covered(n)'
    BY <1>1, <1>2, <1>5, <1>8, <1>9, NamesAreRoles DEF IInv, RoleInv
  <2> QED
    BY <2>1, <2>2, <2>3 DEF RoleInv, DefaultGroups
<1> QED
  BY <1>6, <1>7, <1>10 DEF IInv

\* Ours leaves the list when a reconcile went through, with kcp's gone before.
LEMMA RemoveStep ==
  ASSUME IInv, NEW r \in Reconcilers, RemoveInitializer(r)
  PROVE  IInv'
<1>1. /\ UNCHANGED <<role, want, at, got, phase, claims, retries, crdsBound, requeued, toNudge, setbacks>>
      /\ pc[r] = "reconciled" /\ initializers' = initializers \ {Ours} /\ Become(r, "idle")
  BY DEF RemoveInitializer, kcpVars, ctlVars
<1>2. /\ pc' \in [Reconcilers -> Places] /\ pc'[r] = "idle"
      /\ \A q \in Reconcilers \ {r} : pc'[q] = pc[q]
  BY <1>1, Moves DEF Places, IInv
<1>3. Kcps \notin initializers /\ at[r] = 1 /\ \A n \in RoleSet : Covered(n)
  BY <1>1 DEF IInv, GateInv, RoleInv
<1>4. OnboardingTypeOK'
  BY <1>1, <1>2 DEF IInv, OnboardingTypeOK, RolesTypeOK, Places
<1>5. GateInv'
  BY <1>1, <1>2, <1>3 DEF IInv, GateInv
<1>6. RoleInv'
  BY <1>1, <1>2, <1>3 DEF IInv, RoleInv, Covered
<1> QED
  BY <1>4, <1>5, <1>6 DEF IInv

\* A failed call and a restart lose what the reconcile had found, not what it wrote.
LEMMA FailStep ==
  ASSUME IInv, NEW r \in Reconcilers, Fail(r) \/ RestartReplica(r)
  PROVE  IInv'
<1>1. UNCHANGED <<role, initializers, phase, claims, retries, crdsBound>>
  BY DEF Fail, RestartReplica, CallFails, Lose, kcpVars
<1>2. /\ pc' \in [Reconcilers -> Places] /\ at' \in [Reconcilers -> {1, 2}]
      /\ \A q \in Reconcilers \ {r} : pc'[q] = pc[q] /\ at'[q] = at[q]
      /\ pc'[r] \in {"idle", "failed"} /\ at'[r] = 1
  <2>1. CASE Abort(r)
    BY <2>1, Aborts DEF IInv
  <2>2. CASE pc[r] \in {"read", "nudge", "reconciled"} /\ Become(r, "failed") /\ UNCHANGED at
    <3>1. at[r] = 1
      BY <2>2 DEF IInv, RoleInv
    <3> QED
      BY <2>2, <3>1, Moves, TypeFacts DEF IInv, Places
  <2>3. CASE Become(r, "idle") /\ at' = [at EXCEPT ![r] = 1]
    BY <2>3, Moves, TypeFacts DEF IInv, Places
  <2> QED
    BY <2>1, <2>2, <2>3 DEF Fail, RestartReplica, CallFails, Lose
<1>3. /\ want' \in [Reconcilers -> SUBSET Groups] /\ got' \in [Reconcilers -> RoleStates]
      /\ \A q \in Reconcilers \ {r} : want'[q] = want[q]
  BY AbsentType, TypeFacts DEF Fail, RestartReplica, CallFails, Lose, Remember, IInv
<1>4. /\ requeued' \subseteq Reconcilers /\ setbacks' \in 0..MaxSetbacks
      /\ toNudge' \in [Reconcilers -> SUBSET (DefaultExports \X (0..(MaxClaimRetries - 1)))]
  BY OnboardingAssumption DEF Fail, RestartReplica, IInv, OnboardingTypeOK
<1>5. OnboardingTypeOK'
  BY <1>1, <1>2, <1>3, <1>4, NamesAreRoles DEF IInv, OnboardingTypeOK, RolesTypeOK, Places
<1>6. GateInv'
  BY <1>1, <1>2, GateKept DEF Working
<1>7. RoleInv'
  BY <1>1, <1>2, <1>3, RolesKept
<1> QED
  BY <1>5, <1>6, <1>7 DEF IInv

-----------------------------------------------------------------------------
LEMMA InitInv == OnboardingInit => IInv
<1> SUFFICES ASSUME OnboardingInit PROVE IInv
  OBVIOUS
<1>1. OnboardingTypeOK
  <2>1. RolesTypeOK
    BY AbsentType, NamesAreRoles DEF OnboardingInit, RolesInit, RolesTypeOK
  <2>2. /\ retries \in [DefaultExports -> 0..MaxClaimRetries] /\ setbacks \in 0..MaxSetbacks
        /\ toNudge \in [Reconcilers -> SUBSET (DefaultExports \X (0..(MaxClaimRetries - 1)))]
    BY OnboardingAssumption DEF OnboardingInit
  <2> QED
    BY <2>1, <2>2 DEF OnboardingInit, RolesInit, OnboardingTypeOK
<1>2. GateInv
  BY DEF OnboardingInit, RolesInit, GateInv
<1>3. RoleInv
  BY DEF OnboardingInit, RolesInit, RoleInv
<1> QED
  BY <1>1, <1>2, <1>3 DEF IInv

LEMMA Inductive == IInv /\ [OnboardingNext]_onboardingVars => IInv'
<1> SUFFICES ASSUME IInv, [OnboardingNext]_onboardingVars PROVE IInv'
  OBVIOUS
<1>1. CASE UNCHANGED onboardingVars
  BY <1>1 DEF onboardingVars, roleVars, kcpVars, ctlVars, IInv, OnboardingTypeOK, RolesTypeOK, GateInv, RoleInv, Covered
<1>2. ASSUME NEW r \in Reconcilers, WriteRoles(r) PROVE IInv'
  <2>1. ~UpdateRole(r)
    BY DEF UpdateRole, IInv, RoleInv
  <2> QED
    BY <1>2, <2>1, ListStep, GetStep, CreateStep DEF WriteRoles
<1>3. ASSUME NEW r \in Reconcilers, Works(r) PROVE IInv'
  BY <1>2, <1>3, MoveStep, NudgeStep, RemoveStep DEF Works
<1> QED
  BY <1>1, <1>3, KcpStep, FailStep DEF OnboardingNext

\* Every state of the initializer, of the roles it writes and of kcp next to it is
\* well typed; the retry annotation stays within its bound (initializer.go:162-187).
THEOREM TypeCorrect == OnboardingSpec => []OnboardingTypeOK
<1>1. IInv => OnboardingTypeOK
  BY DEF IInv
<1> QED
  BY <1>1, InitInv, Inductive, PTL DEF OnboardingSpec

\* A workspace that is Ready has every role, and each covers every group of the
\* exports the workspace was created with, however many replicas initialize it and
\* whatever fails or restarts on the way (initializer.go:90-93 and 114-120).
THEOREM ReadyWorkspacesAreGranted == OnboardingSpec => []ReadyMeansGranted
<1>1. IInv => ReadyMeansGranted
  BY DEF IInv, RoleInv, ReadyMeansGranted, Ready, Covered, Ours
<1> QED
  BY <1>1, InitInv, Inductive, PTL DEF OnboardingSpec

\* No initializer overwrites a role: an update, which alone can race another
\* writer's, is never needed before the workspace is Ready, as every replica
\* derives the same groups behind the gate (initializer.go:107-120).
THEOREM InitializersNeverOverwrite == OnboardingSpec => [](\A r \in Reconcilers : pc[r] # "update")
<1>1. IInv => \A r \in Reconcilers : pc[r] # "update"
  BY DEF IInv, RoleInv
<1> QED
  BY <1>1, InitInv, Inductive, PTL DEF OnboardingSpec
=============================================================================
