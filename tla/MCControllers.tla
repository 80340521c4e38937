--------------------------- MODULE MCControllers ---------------------------
(***************************************************************************)
(* The two fleet-wide controllers of the workspace manager, which meet in  *)
(* nothing they read or write: the claims of the exports, and the roles of *)
(* a workspace.  Each behaviour is one of one of them, chosen at first.    *)
(***************************************************************************)
EXTENDS MCClaims, Maintainer

VARIABLE controller

controllerVars == <<controller, claimsVars, vars>>

\* Roles that are somebody else's are what the maintainer leaves alone.
ControllersInit ==
  /\ controller \in {"claims", "maintainer"}
  /\ ClaimsInit
  /\ Init
  /\ controller # "maintainer" => bound = {} /\ role = [n \in RoleSet |-> Foreign]

Only(c) == controller = c /\ UNCHANGED controller

ControllersNext ==
  \/ Only("claims") /\ UNCHANGED vars /\ ClaimsNext
  \/ Only("maintainer") /\ UNCHANGED claimsVars /\ Next

\* That of ClaimsFairSpec and FairSpec, each in its behaviours: each controller's
\* worker, and what it waits for.
Claiming == controller = "claims"
Maintaining == controller = "maintainer"

ControllersFairness ==
  /\ WF_claimsVars(Claiming /\ Controller)
  /\ WF_claimsVars(Claiming /\ (Observe \/ \E e \in Exports : Identify(e)))
  /\ WF_vars(Maintaining /\ \E r \in Reconcilers : Works(r))
  /\ WF_vars(Maintaining /\ \E r \in Reconcilers :
                              ObserveBindings(r) \/ \E n \in RoleSet : ObserveRole(r, n))

ControllersSpec == ControllersInit /\ [][ControllersNext]_controllerVars /\ ControllersFairness
=============================================================================
