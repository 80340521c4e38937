------------------------------ MODULE Tenancy ------------------------------
(* Where a demo run puts its workspaces and who may read them                *)
(* (internal/demo/users.go, kubeconfig.go): the tree, the plan that shares   *)
(* the workspaces out between the users, the access checks and the contexts  *)
(* a user is handed.  Pure functions; module Demo runs them.  A path is      *)
(* <<kind, user, number>>: nothing else of it tells two workspaces apart.    *)
EXTENDS Naturals, FiniteSets, Sequences

CONSTANT None   \* no owner

ParentPath == <<"parent", None, 0>>
OrgPath == <<"org", None, 0>>
HomePath(user) == <<"home", user, 0>>

\* i is the place in the run, from 1 on as TLA+ sequences count.
Owner(users, i) == users[((i - 1) % Len(users)) + 1]

\* Mutant: contiguous blocks of as many workspaces as there are users.
PlanBlocks(users, workspaces) ==
  [i \in 1 .. workspaces |->
     IF users = <<>> THEN [path |-> <<"workspace", None, i>>, owner |-> None]
     ELSE LET owner == users[((i - 1) \div Len(users)) + 1]
          IN [path |-> <<"workspace", owner, ((i - 1) % Len(users)) + 1>>, owner |-> owner]]

PlanWorkspaces(users, workspaces) ==
  [i \in 1 .. workspaces |->
     IF users = <<>> THEN [path |-> <<"workspace", None, i>>, owner |-> None]
     ELSE [path |-> <<"workspace", Owner(users, i), ((i - 1) \div Len(users)) + 1>>,
           owner |-> Owner(users, i)]]

\* How the access checks spell owners that are not users.
Everyone == "everyone"
Nobody == "nobody"

\* Names that are no DNS label are not among the users modelled.
ValidateUsers(users) ==
  /\ \A i \in DOMAIN users : users[i] \notin {Everyone, Nobody}
  /\ \A i, j \in DOMAIN users : i # j => users[i] # users[j]

-----------------------------------------------------------------------------
(* CheckAccess: what every user is refused and served. *)

Check(user, path, owner, allowed) ==
  [user |-> user, owner |-> owner, allowed |-> <<user, path>> \in allowed]

\* The first workspace of an owner, when there is one.
FirstOwned(plans, owner) ==
  LET owned == {i \in DOMAIN plans : plans[i].owner = owner}
  IN {plans[i].path : i \in {i \in owned : \A j \in owned : i <= j}}

\* allowed: the pairs <<user, path>> kcp serves the list of.
CheckAccess(users, plans, allowed) ==
  LET U == {users[i] : i \in DOMAIN users}
  IN UNION {
       {Check(user, ParentPath, Everyone, allowed), Check(user, OrgPath, Nobody, allowed)}
         \cup UNION {{Check(user, path, owner, allowed) :
                        path \in {HomePath(owner)} \cup FirstOwned(plans, owner)} : owner \in U}
       : user \in U}

Expected(check) == check.owner = Everyone \/ (check.owner # Nobody /\ check.owner = check.user)

AsIntended(check) == check.owner = Everyone \/ check.allowed = Expected(check)

\* A run that checked nothing proved nothing.
Isolated(checks) == checks # {} /\ \A check \in checks : AsIntended(check)

-----------------------------------------------------------------------------
(* The contexts written into the kubeconfig of a tenant. *)

TenantEntries(user, plans) ==
  {HomePath(user)} \cup {plans[i].path : i \in {j \in DOMAIN plans : plans[j].owner = user}}
=============================================================================
