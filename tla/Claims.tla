------------------------------- MODULE Claims -------------------------------
(***************************************************************************)
(* The permission claims of the provider exports: Publish, which creates   *)
(* the exports and then fills the claims in, and the claim controller of   *)
(* the workspace manager, which runs the second half of it, ReconcileClaims,*)
(* on every APIExport event (capiexports.go, discovery.go, kcpfixtures.go, *)
(* workspacemanager/claims.go).                                            *)
(*                                                                         *)
(* Both may run at once, next to exports that appear, are identified and   *)
(* are withdrawn.  Publish reads the server; the controller reads one cache*)
(* fed by one ordered watch, so what it sees is the server at some earlier *)
(* moment.  Updates carry the version read.                                *)
(*                                                                         *)
(* A claim is the export whose resources it names with the identity it     *)
(* carries; the claims on built-in types, the resources and the verbs do   *)
(* not change and are left out.                                            *)
(***************************************************************************)
EXTENDS Integers, Sequences, FiniteSets

CONSTANTS
  Exports,        \* the labelled exports there may be
  Order,          \* the exports each worker maintains, in order
  ContractOf,     \* export -> the contract its label says
  KnownContracts,
  Named,          \* export -> the exports it claims from by name
  Wanted,         \* export -> the contracts it claims from, whoever serves them
  MaxIdentities, MaxWithdrawals, MaxPublishes, MaxFaults,  \* bounds
  MaxTrouble  \* bound on withdrawals, publishes and failures together

Workers == {"controller", "publisher"}

ASSUME ClaimsAssumption ==
  /\ Order \in [Workers -> Seq(Exports) \ {<<>>}]
  /\ MaxIdentities \in Nat /\ MaxWithdrawals \in Nat
  /\ MaxPublishes \in Nat /\ MaxFaults \in Nat /\ MaxTrouble \in Nat

MaintainedBy(w) == {Order[w][i] : i \in DOMAIN Order[w]}

Maintained == MaintainedBy("controller") \cup MaintainedBy("publisher")

VARIABLES
  export,    \* the APIExports on the server
  issued,    \* history: the export each identity was given to
  seen,      \* the controller's cache
  doing,     \* where the controller and Publish are
  found,     \* what each discovered: exports with their identities
  place,     \* the export each is at
  readVersion, \* the version it read and is about to update
  woken,     \* the controller has an event or a requeue to handle
  withdrawals, publishes, faults

workVars == <<doing, found, place, readVersion>>
boundVars == <<withdrawals, publishes, faults>>
claimsVars == <<export, issued, seen, workVars, woken, boundVars>>

Attributions == Exports \X (0..MaxIdentities)

Trouble == withdrawals + publishes + faults

ExportStates ==
  [exists: BOOLEAN, identity: 0..MaxIdentities, claims: SUBSET Attributions, version: Nat]

ClaimsTypeOK ==
  /\ export \in [Exports -> ExportStates]
  /\ issued \in Seq(Exports) /\ Len(issued) <= MaxIdentities
  /\ seen \in [Exports -> ExportStates]
  /\ doing \in [Workers -> {"idle", "create", "compare", "reset", "wait",
                         "list", "get", "update", "failed"}]
  /\ found \in [Workers -> SUBSET Attributions]
  /\ place \in [Workers -> Nat] /\ \A w \in Workers : place[w] \in DOMAIN Order[w]
  /\ readVersion \in [Workers -> Nat]
  /\ woken \in BOOLEAN
  /\ withdrawals \in 0..MaxWithdrawals
  /\ publishes \in 0..MaxPublishes
  /\ faults \in 0..MaxFaults

Unpublished == [exists |-> FALSE, identity |-> 0, claims |-> {}, version |-> 0]

ClaimsInit ==
  /\ export = [e \in Exports |-> Unpublished]
  /\ issued = <<>>
  /\ seen = export
  /\ doing = [w \in Workers |-> "idle"]
  /\ found = [w \in Workers |-> {}]
  /\ place = [w \in Workers |-> 1]
  /\ readVersion = [w \in Workers |-> 0]
  /\ woken = FALSE
  /\ withdrawals = 0 /\ publishes = 0 /\ faults = 0

-----------------------------------------------------------------------------
(* The server: identities, other installers, the watch *)

Created(e) == [exists |-> TRUE, identity |-> 0, claims |-> {}, version |-> export[e].version + 1]

Deleted(e) == [exists |-> FALSE, identity |-> 0, claims |-> {}, version |-> export[e].version + 1]

Identify(e) ==
  /\ export[e].exists /\ export[e].identity = 0 /\ Len(issued) < MaxIdentities
  /\ issued' = Append(issued, e)
  /\ export' = [export EXCEPT ![e] = [exists |-> TRUE, identity |-> Len(issued) + 1,
                                   claims |-> export[e].claims, version |-> export[e].version + 1]]
  /\ UNCHANGED <<seen, workVars, woken, boundVars>>

Install(e) ==
  /\ e \notin Maintained /\ ~export[e].exists
  /\ export' = [export EXCEPT ![e] = Created(e)]
  /\ UNCHANGED <<issued, seen, workVars, woken, boundVars>>

Withdraw(e) ==
  /\ e \notin Maintained /\ export[e].exists /\ withdrawals < MaxWithdrawals /\ Trouble < MaxTrouble
  /\ withdrawals' = withdrawals + 1
  /\ export' = [export EXCEPT ![e] = Deleted(e)]
  /\ UNCHANGED <<issued, seen, workVars, woken, publishes, faults>>

\* The controller watches every APIExport and its reconcile takes no argument.
Observe ==
  /\ seen # export /\ seen' = export /\ woken' = TRUE
  /\ UNCHANGED <<export, issued, workVars, boundVars>>

-----------------------------------------------------------------------------
(* Steps shared by both: ReconcileClaims *)

Does(w, there) == doing' = [doing EXCEPT ![w] = there]

View(w) == IF w = "controller" THEN seen ELSE export

DiscoverUnidentified(view) ==
  {<<e, view[e].identity>> : e \in {x \in Exports : view[x].exists /\ ContractOf[x] \in KnownContracts}}

Discover(view) ==
  {<<e, view[e].identity>> :
     e \in {x \in Exports : /\ view[x].exists /\ view[x].identity # 0
                            /\ ContractOf[x] \in KnownContracts}}

ClaimsFor(p, discovered) ==
  {d \in discovered : \/ d[1] \in Named[p] /\ d[2] # 0
                      \/ d[1] # p /\ ContractOf[d[1]] \in Wanted[p]}

\* An update of the claims of p.
Rewrite(p, claims) ==
  export' = [export EXCEPT ![p] = [exists |-> TRUE, identity |-> export[p].identity,
                                   claims |-> claims, version |-> export[p].version + 1]]

\* On to the next export; the controller and Publish are idle after the last.
NextExport(w) ==
  IF place[w] = Len(Order[w])
  THEN Does(w, "idle") /\ place' = [place EXCEPT ![w] = 1] /\ found' = [found EXCEPT ![w] = {}]
  ELSE Does(w, "get") /\ place' = [place EXCEPT ![w] = @ + 1] /\ UNCHANGED found

\* An error ends the reconcile, and with it Publish.
GiveUp(w) ==
  /\ Does(w, IF w = "controller" THEN "failed" ELSE "idle")
  /\ place' = [place EXCEPT ![w] = 1]
  /\ found' = [found EXCEPT ![w] = {}]

DiscoverIn(w) ==
  /\ doing[w] = "list" /\ Does(w, "get")
  /\ found' = [found EXCEPT ![w] = Discover(View(w))]
  /\ UNCHANGED <<export, issued, seen, place, readVersion, woken, boundVars>>

\* setClaims: the Get and the comparison.
GetClaims(w) ==
  LET p == Order[w][place[w]] IN
  /\ doing[w] = "get"
  /\ \/ ~View(w)[p].exists /\ GiveUp(w) /\ UNCHANGED readVersion
     \/ /\ View(w)[p].exists /\ View(w)[p].claims = ClaimsFor(p, found[w])
        /\ NextExport(w) /\ UNCHANGED readVersion
     \/ /\ View(w)[p].exists /\ View(w)[p].claims # ClaimsFor(p, found[w])
        /\ Does(w, "update") /\ readVersion' = [readVersion EXCEPT ![w] = View(w)[p].version]
        /\ UNCHANGED <<found, place>>
  /\ UNCHANGED <<export, issued, seen, woken, boundVars>>

\* setClaims: the Update.
UpdateClaims(w) ==
  LET p == Order[w][place[w]] IN
  /\ doing[w] = "update" /\ readVersion' = [readVersion EXCEPT ![w] = 0]
  /\ \/ /\ export[p].version = readVersion[w]
        /\ Rewrite(p, ClaimsFor(p, found[w]))
        /\ NextExport(w)
     \/ export[p].version # readVersion[w] /\ GiveUp(w) /\ UNCHANGED export
  /\ UNCHANGED <<issued, seen, woken, boundVars>>

Reconcile(w) == DiscoverIn(w) \/ GetClaims(w) \/ UpdateClaims(w)

-----------------------------------------------------------------------------
(* The claim controller *)

StartClaims ==
  /\ doing["controller"] = "idle" /\ woken /\ woken' = FALSE
  /\ Does("controller", "list")
  /\ UNCHANGED <<export, issued, seen, found, place, readVersion, boundVars>>

RequeueForgets ==
  /\ doing["controller"] = "failed" /\ Does("controller", "idle")
  /\ UNCHANGED <<export, issued, seen, found, place, readVersion, woken, boundVars>>

RequeueClaims ==
  /\ doing["controller"] = "failed" /\ Does("controller", "idle") /\ woken' = TRUE
  /\ UNCHANGED <<export, issued, seen, found, place, readVersion, boundVars>>

-----------------------------------------------------------------------------
(* Publish *)

Publish ==
  /\ doing["publisher"] = "idle" /\ publishes < MaxPublishes /\ Trouble < MaxTrouble
  /\ publishes' = publishes + 1
  /\ Does("publisher", "create")
  /\ UNCHANGED <<export, issued, seen, found, place, readVersion, woken, withdrawals, faults>>

\* On to the next export, and after the last to WaitForIdentities.
Published ==
  IF place["publisher"] = Len(Order["publisher"])
  THEN Does("publisher", "wait") /\ place' = [place EXCEPT !["publisher"] = 1]
  ELSE Does("publisher", "create") /\ place' = [place EXCEPT !["publisher"] = @ + 1]

\* PublishAPIExport with the claims that need no identity: none.
CreateExport ==
  LET p == Order["publisher"][place["publisher"]] IN
  /\ doing["publisher"] = "create"
  /\ \/ ~export[p].exists /\ export' = [export EXCEPT ![p] = Created(p)] /\ Published
     \/ export[p].exists /\ Does("publisher", "compare") /\ UNCHANGED <<export, place>>
  /\ UNCHANGED <<issued, seen, found, readVersion, woken, boundVars>>

\* updateAPIExport: the Get and the comparison.
CompareExport ==
  LET p == Order["publisher"][place["publisher"]] IN
  /\ doing["publisher"] = "compare"
  /\ \/ export[p].claims = {} /\ Published /\ UNCHANGED readVersion
     \/ /\ export[p].claims # {} /\ Does("publisher", "reset")
        /\ readVersion' = [readVersion EXCEPT !["publisher"] = export[p].version] /\ UNCHANGED place
  /\ UNCHANGED <<export, issued, seen, found, woken, boundVars>>

\* updateAPIExport: the Update.
ResetExport ==
  LET p == Order["publisher"][place["publisher"]] IN
  /\ doing["publisher"] = "reset" /\ readVersion' = [readVersion EXCEPT !["publisher"] = 0]
  /\ \/ /\ export[p].version = readVersion["publisher"]
        /\ Rewrite(p, {})
        /\ Published /\ UNCHANGED found
     \/ export[p].version # readVersion["publisher"] /\ GiveUp("publisher") /\ UNCHANGED export
  /\ UNCHANGED <<issued, seen, woken, boundVars>>

WaitForIdentities ==
  /\ doing["publisher"] = "wait" /\ \A p \in MaintainedBy("publisher") : export[p].identity # 0
  /\ Does("publisher", "list")
  /\ UNCHANGED <<export, issued, seen, found, place, readVersion, woken, boundVars>>

-----------------------------------------------------------------------------

\* Any call may fail, WaitForIdentities may time out, either process may stop:
\* the controller is put back or started again, Publish is over.
FailClaims(w) ==
  /\ doing[w] \notin {"idle", "failed"} /\ faults < MaxFaults /\ Trouble < MaxTrouble
  /\ faults' = faults + 1
  /\ GiveUp(w) /\ readVersion' = [readVersion EXCEPT ![w] = 0]
  /\ UNCHANGED <<export, issued, seen, woken, withdrawals, publishes>>

Controller == StartClaims \/ RequeueClaims \/ Reconcile("controller")

Publisher ==
  \/ Publish \/ CreateExport \/ CompareExport \/ ResetExport
  \/ WaitForIdentities \/ Reconcile("publisher")

ClaimsNext ==
  \/ \E e \in Exports : Identify(e) \/ Install(e) \/ Withdraw(e)
  \/ Observe \/ Controller \/ Publisher
  \/ \E w \in Workers : FailClaims(w)

ClaimsSpec == ClaimsInit /\ [][ClaimsNext]_claimsVars

\* The controller's worker runs, its watch delivers, kcp identifies exports.
\* Publish may stop anywhere.
ClaimsFairSpec ==
  /\ ClaimsSpec
  /\ WF_claimsVars(Controller) /\ WF_claimsVars(Observe)
  /\ \A e \in Exports : WF_claimsVars(Identify(e))

-----------------------------------------------------------------------------
(* Properties *)

Identified == {<<issued[i], i>> : i \in DOMAIN issued}

\* No claim on an export's types is ever written without the identity the server
\* gave to that export, however old the view it was computed from: one without
\* would claim a built-in type instead (capiexports.go:511-514, discovery.go:94-99).
ClaimsAreAttributed == \A p \in Maintained : export[p].claims \subseteq Identified

Settled ==
  \A p \in Maintained : export[p].claims = ClaimsFor(p, Discover(export))

AllPublished == \A p \in Maintained : export[p].exists

\* Once every maintained export is there, the claims come to be what the
\* installed providers imply, however Publish, the controller, installs and
\* withdrawals interleaved (discovery.go:144-157, claims.go:24-31).
ClaimsConverge == <>AllPublished => <>[]Settled

\* An export whose claims already match is left alone by Publish
\* (capiexports.go:691-693).
RepublishKeepsClaims ==
  [][ \A p \in Maintained :
        Publisher /\ Settled /\ export[p].exists
          => export'[p].claims = export[p].claims ]_claimsVars

=============================================================================
