---------------------------- MODULE ClaimsProofs ----------------------------
(***************************************************************************)
(* Claims is type correct, and every claim it writes carries the identity  *)
(* the server gave to the export it names, for any set of exports, any     *)
(* order of them and any number of steps.                                  *)
(***************************************************************************)
EXTENDS Claims, TLAPS, SequenceTheorems

\* The steps of a worker touch an export it maintains.
LEMMA AtAnExport ==
  ASSUME ClaimsTypeOK, NEW w \in Workers
  PROVE  /\ Order[w] \in Seq(Exports) /\ Len(Order[w]) \in Nat
         /\ DOMAIN Order[w] = 1..Len(Order[w]) /\ 1 \in DOMAIN Order[w]
         /\ place[w] \in 1..Len(Order[w])
         /\ Order[w][place[w]] \in Exports
<1>1. Order[w] \in Seq(Exports) /\ Order[w] # <<>>
  BY ClaimsAssumption
<1>2. Len(Order[w]) \in Nat /\ Len(Order[w]) # 0 /\ DOMAIN Order[w] = 1..Len(Order[w])
  BY <1>1, EmptySeq
<1>3. place[w] \in DOMAIN Order[w]
  BY DEF ClaimsTypeOK
<1> QED
  BY <1>1, <1>2, <1>3, ElementOfSeq

\* Where a worker is stays within the exports it maintains.
Places ==
  /\ doing \in [Workers -> {"idle", "create", "compare", "reset", "wait",
                         "list", "get", "update", "failed"}]
  /\ place \in [Workers -> Nat] /\ \A w \in Workers : place[w] \in DOMAIN Order[w]

LEMMA AdvanceKeepsPlaces ==
  ASSUME ClaimsTypeOK, NEW w \in Workers, NextExport(w)
  PROVE  Places' /\ found' \in [Workers -> SUBSET Attributions]
         /\ (found' = found \/ found' = [found EXCEPT ![w] = {}])
<1>1. PICK n \in 1..Len(Order[w]) : place' = [place EXCEPT ![w] = n]
  <2>1. CASE place[w] = Len(Order[w])
    BY <2>1, AtAnExport DEF NextExport
  <2>2. CASE place[w] # Len(Order[w])
    BY <2>2, AtAnExport DEF NextExport
  <2> QED
    BY <2>1, <2>2
<1>2. place' \in [Workers -> Nat] /\ \A v \in Workers : place'[v] \in DOMAIN Order[v]
  <2>1. place \in [Workers -> Nat] /\ \A v \in Workers : place[v] \in DOMAIN Order[v]
    BY DEF ClaimsTypeOK
  <2>2. DOMAIN Order[w] = 1..Len(Order[w]) /\ Len(Order[w]) \in Nat
    BY AtAnExport
  <2> QED
    BY <1>1, <2>1, <2>2
<1>3. \/ Does(w, "idle") /\ found' = [found EXCEPT ![w] = {}]
      \/ Does(w, "get") /\ found' = found
  BY DEF NextExport
<1>4. doing' \in [Workers -> {"idle", "create", "compare", "reset", "wait",
                          "list", "get", "update", "failed"}]
  BY <1>3 DEF Does, ClaimsTypeOK
<1>5. found' \in [Workers -> SUBSET Attributions]
  BY <1>3 DEF ClaimsTypeOK
<1> QED
  BY <1>2, <1>3, <1>4, <1>5 DEF Places

LEMMA AbortKeepsPlaces ==
  ASSUME ClaimsTypeOK, NEW w \in Workers, GiveUp(w)
  PROVE  Places' /\ found' \in [Workers -> SUBSET Attributions]
         /\ found' = [found EXCEPT ![w] = {}]
<1>1. place' \in [Workers -> Nat] /\ \A v \in Workers : place'[v] \in DOMAIN Order[v]
  <2>1. place \in [Workers -> Nat] /\ \A v \in Workers : place[v] \in DOMAIN Order[v]
    BY DEF ClaimsTypeOK
  <2>2. 1 \in DOMAIN Order[w] /\ place' = [place EXCEPT ![w] = 1]
    BY AtAnExport DEF GiveUp
  <2> QED
    BY <2>1, <2>2
<1>2. doing' \in [Workers -> {"idle", "create", "compare", "reset", "wait",
                          "list", "get", "update", "failed"}]
  BY DEF GiveUp, Does, ClaimsTypeOK
<1>3. /\ found' = [found EXCEPT ![w] = {}]
      /\ found' \in [Workers -> SUBSET Attributions]
  BY DEF GiveUp, ClaimsTypeOK
<1> QED
  BY <1>1, <1>2, <1>3 DEF Places

LEMMA PublishedKeepsPlaces ==
  ASSUME ClaimsTypeOK, Published
  PROVE  Places'
<1> DEFINE w == "publisher"
<1>0. w \in Workers
  BY DEF Workers
<1> HIDE DEF w
<1>1. PICK n \in 1..Len(Order[w]) : place' = [place EXCEPT ![w] = n]
  <2>1. CASE place[w] = Len(Order[w])
    BY <1>0, <2>1, AtAnExport DEF Published, w
  <2>2. CASE place[w] # Len(Order[w])
    BY <1>0, <2>2, AtAnExport DEF Published, w
  <2> QED
    BY <2>1, <2>2
<1>2. place' \in [Workers -> Nat] /\ \A v \in Workers : place'[v] \in DOMAIN Order[v]
  <2>1. place \in [Workers -> Nat] /\ \A v \in Workers : place[v] \in DOMAIN Order[v]
    BY DEF ClaimsTypeOK
  <2>2. DOMAIN Order[w] = 1..Len(Order[w]) /\ Len(Order[w]) \in Nat
    BY <1>0, AtAnExport
  <2> QED
    BY <1>0, <1>1, <2>1, <2>2
<1>3. Does(w, "wait") \/ Does(w, "create")
  BY DEF Published, w
<1>4. doing' \in [Workers -> {"idle", "create", "compare", "reset", "wait",
                          "list", "get", "update", "failed"}]
  BY <1>0, <1>3 DEF Does, ClaimsTypeOK
<1> QED
  BY <1>2, <1>4 DEF Places

\* Moving without advancing: the place changes, the export does not.
LEMMA BecomeKeepsPlaces ==
  ASSUME ClaimsTypeOK, UNCHANGED place, NEW w \in Workers,
         NEW there \in {"idle", "create", "compare", "reset", "wait",
                        "list", "get", "update", "failed"},
         Does(w, there)
  PROVE  Places'
BY DEF Does, ClaimsTypeOK, Places

\* What a reconcile discovers are exports with identities, each the export's own.
LEMMA DiscoverSound ==
  ASSUME NEW view \in [Exports -> ExportStates]
  PROVE  /\ Discover(view) \subseteq Attributions
         /\ \A d \in Discover(view) : d[2] # 0 /\ d[2] = view[d[1]].identity
BY DEF Discover, ExportStates, Attributions

LEMMA ViewType ==
  ASSUME ClaimsTypeOK, NEW w \in Workers
  PROVE  View(w) \in [Exports -> ExportStates]
BY DEF ClaimsTypeOK, View

\* Giving an export the claims of what was discovered keeps the exports typed.
LEMMA RewriteType ==
  ASSUME ClaimsTypeOK, NEW p \in Exports, NEW c \in SUBSET Attributions, Rewrite(p, c)
  PROVE  /\ export' \in [Exports -> ExportStates]
         /\ \A e \in Exports : export'[e].identity = export[e].identity
         /\ \A e \in Exports : export'[e].claims = IF e = p THEN c ELSE export[e].claims
<1> DEFINE r == [exists |-> TRUE, identity |-> export[p].identity,
                  claims |-> c, version |-> export[p].version + 1]
<1>1. export \in [Exports -> ExportStates] /\ export[p] \in ExportStates
  BY DEF ClaimsTypeOK
<1>2. r \in ExportStates /\ r.identity = export[p].identity /\ r.claims = c
  BY <1>1 DEF ExportStates
<1>3. export' = [export EXCEPT ![p] = r]
  BY DEF Rewrite
<1> HIDE DEF r
<1> QED
  BY <1>1, <1>2, <1>3

-----------------------------------------------------------------------------

\* The claims a reconcile writes are among what it discovered.
LEMMA ClaimsForSound ==
  ASSUME NEW p, NEW d
  PROVE  ClaimsFor(p, d) \subseteq d
BY DEF ClaimsFor

\* A typed record for one export keeps the exports typed.
LEMMA ReplaceType ==
  ASSUME ClaimsTypeOK, NEW e \in Exports, NEW r \in ExportStates, export' = [export EXCEPT ![e] = r]
  PROVE  export' \in [Exports -> ExportStates]
BY DEF ClaimsTypeOK

LEMMA InitType == ClaimsInit => ClaimsTypeOK
<1> SUFFICES ASSUME ClaimsInit PROVE ClaimsTypeOK
  OBVIOUS
<1>1. export \in [Exports -> ExportStates]
  BY ClaimsAssumption DEF ClaimsInit, Unpublished, ExportStates
<1>2. \A w \in Workers : place[w] \in DOMAIN Order[w]
  <2> SUFFICES ASSUME NEW w \in Workers PROVE 1 \in DOMAIN Order[w]
    BY DEF ClaimsInit
  <2>1. Order[w] \in Seq(Exports) /\ Order[w] # <<>>
    BY ClaimsAssumption
  <2>2. Len(Order[w]) \in Nat /\ Len(Order[w]) # 0 /\ DOMAIN Order[w] = 1..Len(Order[w])
    BY <2>1, EmptySeq
  <2> QED
    BY <2>2
<1>3. place \in [Workers -> Nat] /\ readVersion \in [Workers -> Nat] /\ found \in [Workers -> SUBSET Attributions]
  BY DEF ClaimsInit
<1>4. issued \in Seq(Exports) /\ Len(issued) <= MaxIdentities
  BY ClaimsAssumption DEF ClaimsInit
<1>5. doing \in [Workers -> {"idle", "create", "compare", "reset", "wait",
                         "list", "get", "update", "failed"}]
  BY DEF ClaimsInit
<1>6. seen = export /\ woken \in BOOLEAN
  BY DEF ClaimsInit
<1>7. withdrawals \in 0..MaxWithdrawals /\ publishes \in 0..MaxPublishes /\ faults \in 0..MaxFaults
  BY ClaimsAssumption DEF ClaimsInit
<1> QED
  <2>1. seen \in [Exports -> ExportStates] /\ Len(issued) <= MaxIdentities
    BY <1>1, <1>4, <1>6
  <2> QED
    BY <1>1, <1>2, <1>3, <1>4, <1>5, <1>6, <1>7, <2>1 DEF ClaimsTypeOK

\* The server's own steps keep the types.
LEMMA ServerType ==
  ASSUME ClaimsTypeOK, NEW e \in Exports, Identify(e) \/ Install(e) \/ Withdraw(e)
  PROVE  ClaimsTypeOK'
<1>0. export[e] \in ExportStates
  BY DEF ClaimsTypeOK
<1>1. CASE Identify(e)
  <2>1. Len(issued) \in Nat /\ Append(issued, e) \in Seq(Exports)
        /\ Len(Append(issued, e)) = Len(issued) + 1
    BY AppendProperties DEF ClaimsTypeOK
  <2>2. [exists |-> TRUE, identity |-> Len(issued) + 1,
         claims |-> export[e].claims, version |-> export[e].version + 1] \in ExportStates
    BY <1>0, <1>1, <2>1, ClaimsAssumption DEF Identify, ExportStates
  <2>3. export' \in [Exports -> ExportStates]
    BY <1>1, <2>2, ReplaceType DEF Identify
  <2> QED
    BY <1>1, <2>1, <2>3, ClaimsAssumption DEF Identify, ClaimsTypeOK, workVars, boundVars
<1>2. CASE Install(e)
  <2>1. Created(e) \in ExportStates
    BY <1>0, ClaimsAssumption DEF Created, ExportStates
  <2>2. export' \in [Exports -> ExportStates]
    BY <1>2, <2>1, ReplaceType DEF Install
  <2> QED
    BY <1>2, <2>2 DEF Install, ClaimsTypeOK, workVars, boundVars
<1>3. CASE Withdraw(e)
  <2>1. Deleted(e) \in ExportStates
    BY <1>0, ClaimsAssumption DEF Deleted, ExportStates
  <2>2. export' \in [Exports -> ExportStates]
    BY <1>3, <2>1, ReplaceType DEF Withdraw
  <2>3. withdrawals' \in 0..MaxWithdrawals
    BY <1>3, ClaimsAssumption DEF Withdraw, ClaimsTypeOK
  <2> QED
    BY <1>3, <2>2, <2>3 DEF Withdraw, ClaimsTypeOK, workVars
<1> QED
  BY <1>1, <1>2, <1>3

\* So do the steps of ReconcileClaims, whoever runs it.
LEMMA ReconcileType ==
  ASSUME ClaimsTypeOK, NEW w \in Workers, Reconcile(w)
  PROVE  ClaimsTypeOK'
<1> DEFINE p == Order[w][place[w]]
<1>0. p \in Exports
  BY AtAnExport
<1>1. CASE DiscoverIn(w)
  <2>1. Discover(View(w)) \subseteq Attributions
    BY ViewType, DiscoverSound
  <2>2. found' \in [Workers -> SUBSET Attributions]
    BY <1>1, <2>1 DEF DiscoverIn, ClaimsTypeOK
  <2>3. Places'
    BY <1>1, BecomeKeepsPlaces DEF DiscoverIn
  <2> QED
    BY <1>1, <2>2, <2>3 DEF DiscoverIn, ClaimsTypeOK, Places, boundVars
<1>2. CASE GetClaims(w)
  <2>1. View(w)[p].version \in Nat
    BY <1>0, ViewType DEF ExportStates
  <2>2. Places' /\ found' \in [Workers -> SUBSET Attributions] /\ readVersion' \in [Workers -> Nat]
    <3>1. CASE GiveUp(w) /\ UNCHANGED readVersion
      BY <3>1, AbortKeepsPlaces DEF ClaimsTypeOK
    <3>2. CASE NextExport(w) /\ UNCHANGED readVersion
      BY <3>2, AdvanceKeepsPlaces DEF ClaimsTypeOK
    <3>3. CASE Does(w, "update") /\ readVersion' = [readVersion EXCEPT ![w] = View(w)[p].version]
               /\ UNCHANGED <<found, place>>
      BY <2>1, <3>3, BecomeKeepsPlaces DEF ClaimsTypeOK
    <3> QED
      BY <1>2, <3>1, <3>2, <3>3 DEF GetClaims
  <2> QED
    BY <1>2, <2>2 DEF GetClaims, ClaimsTypeOK, Places, boundVars
<1>3. CASE UpdateClaims(w)
  <2>1. ClaimsFor(p, found[w]) \in SUBSET Attributions
    BY ClaimsForSound DEF ClaimsTypeOK
  <2>2. export' \in [Exports -> ExportStates] /\ Places' /\ found' \in [Workers -> SUBSET Attributions]
    <3>1. CASE Rewrite(p, ClaimsFor(p, found[w])) /\ NextExport(w)
      BY <1>0, <2>1, <3>1, RewriteType, AdvanceKeepsPlaces
    <3>2. CASE GiveUp(w) /\ UNCHANGED export
      BY <3>2, AbortKeepsPlaces DEF ClaimsTypeOK
    <3> QED
      BY <1>3, <3>1, <3>2 DEF UpdateClaims
  <2>3. readVersion' \in [Workers -> Nat]
    BY <1>3 DEF UpdateClaims, ClaimsTypeOK
  <2> QED
    BY <1>3, <2>2, <2>3 DEF UpdateClaims, ClaimsTypeOK, Places, boundVars
<1> QED
  BY <1>1, <1>2, <1>3 DEF Reconcile

\* And the steps of Publish that come before.
LEMMA PublishType ==
  ASSUME ClaimsTypeOK, Publish \/ CreateExport \/ CompareExport \/ ResetExport \/ WaitForIdentities
  PROVE  ClaimsTypeOK'
<1> DEFINE w == "publisher"
           p == Order[w][place[w]]
<1>0. w \in Workers /\ p \in Exports /\ export[p] \in ExportStates
  BY AtAnExport DEF Workers, ClaimsTypeOK
<1>1. CASE Publish
  <2>1. Places'
    BY <1>0, <1>1, BecomeKeepsPlaces DEF Publish
  <2>2. publishes' \in 0..MaxPublishes
    BY <1>1, ClaimsAssumption DEF Publish, ClaimsTypeOK
  <2> QED
    BY <1>1, <2>1, <2>2 DEF Publish, ClaimsTypeOK, Places
<1>2. CASE CreateExport
  <2>1. Created(p) \in ExportStates
    BY <1>0, ClaimsAssumption DEF Created, ExportStates
  <2>2. export' \in [Exports -> ExportStates] /\ Places'
    <3>1. CASE export' = [export EXCEPT ![p] = Created(p)] /\ Published
      BY <1>0, <2>1, <3>1, ReplaceType, PublishedKeepsPlaces
    <3>2. CASE Does(w, "compare") /\ UNCHANGED <<export, place>>
      BY <1>0, <3>2, BecomeKeepsPlaces DEF ClaimsTypeOK
    <3> QED
      BY <1>2, <3>1, <3>2 DEF CreateExport
  <2> QED
    BY <1>2, <2>2 DEF CreateExport, ClaimsTypeOK, Places, boundVars
<1>3. CASE CompareExport
  <2>1. export[p].version \in Nat
    BY <1>0 DEF ExportStates
  <2>2. Places' /\ readVersion' \in [Workers -> Nat]
    <3>1. CASE Published /\ UNCHANGED readVersion
      BY <3>1, PublishedKeepsPlaces DEF ClaimsTypeOK
    <3>2. CASE Does(w, "reset") /\ readVersion' = [readVersion EXCEPT ![w] = export[p].version] /\ UNCHANGED place
      BY <1>0, <2>1, <3>2, BecomeKeepsPlaces DEF ClaimsTypeOK
    <3> QED
      BY <1>3, <3>1, <3>2 DEF CompareExport
  <2> QED
    BY <1>3, <2>2 DEF CompareExport, ClaimsTypeOK, Places, boundVars
<1>4. CASE ResetExport
  <2>1. export' \in [Exports -> ExportStates] /\ Places' /\ found' \in [Workers -> SUBSET Attributions]
    <3>1. CASE Rewrite(p, {}) /\ Published /\ UNCHANGED found
      BY <1>0, <3>1, RewriteType, PublishedKeepsPlaces DEF ClaimsTypeOK
    <3>2. CASE GiveUp(w) /\ UNCHANGED export
      BY <1>0, <3>2, AbortKeepsPlaces DEF ClaimsTypeOK
    <3> QED
      BY <1>4, <3>1, <3>2 DEF ResetExport
  <2>2. readVersion' \in [Workers -> Nat]
    BY <1>4 DEF ResetExport, ClaimsTypeOK
  <2> QED
    BY <1>4, <2>1, <2>2 DEF ResetExport, ClaimsTypeOK, Places, boundVars
<1>5. CASE WaitForIdentities
  <2>1. Places'
    BY <1>0, <1>5, BecomeKeepsPlaces DEF WaitForIdentities
  <2> QED
    BY <1>5, <2>1 DEF WaitForIdentities, ClaimsTypeOK, Places, boundVars
<1> QED
  BY <1>1, <1>2, <1>3, <1>4, <1>5

\* The watch, the controller's queue and failures.
LEMMA OtherType ==
  ASSUME ClaimsTypeOK, Observe \/ StartClaims \/ RequeueClaims \/ \E w \in Workers : FailClaims(w)
  PROVE  ClaimsTypeOK'
<1>0. "controller" \in Workers
  BY DEF Workers
<1>1. CASE Observe
  BY <1>1 DEF Observe, ClaimsTypeOK, workVars, boundVars
<1>2. CASE StartClaims
  <2>1. Places'
    BY <1>0, <1>2, BecomeKeepsPlaces DEF StartClaims
  <2> QED
    BY <1>2, <2>1 DEF StartClaims, ClaimsTypeOK, Places, boundVars
<1>3. CASE RequeueClaims
  <2>1. Places'
    BY <1>0, <1>3, BecomeKeepsPlaces DEF RequeueClaims
  <2> QED
    BY <1>3, <2>1 DEF RequeueClaims, ClaimsTypeOK, Places, boundVars
<1>4. ASSUME NEW w \in Workers, FailClaims(w) PROVE ClaimsTypeOK'
  <2>1. Places' /\ found' \in [Workers -> SUBSET Attributions]
    BY <1>4, AbortKeepsPlaces DEF FailClaims
  <2>2. readVersion' \in [Workers -> Nat] /\ faults' \in 0..MaxFaults
    BY <1>4, ClaimsAssumption DEF FailClaims, ClaimsTypeOK
  <2> QED
    BY <1>4, <2>1, <2>2 DEF FailClaims, ClaimsTypeOK, Places
<1> QED
  BY <1>1, <1>2, <1>3, <1>4

LEMMA TypeInductive == ClaimsTypeOK /\ [ClaimsNext]_claimsVars => ClaimsTypeOK'
<1> SUFFICES ASSUME ClaimsTypeOK, [ClaimsNext]_claimsVars PROVE ClaimsTypeOK'
  OBVIOUS
<1>1. CASE UNCHANGED claimsVars
  BY <1>1 DEF ClaimsTypeOK, claimsVars, workVars, boundVars
<1>2. CASE ClaimsNext
  <2>1. "controller" \in Workers /\ "publisher" \in Workers
    BY DEF Workers
  <2> QED
    BY <1>2, <2>1, ServerType, ReconcileType, PublishType, OtherType
    DEF ClaimsNext, Controller, Publisher
<1> QED
  BY <1>1, <1>2

\* Every state of Publish, of the claim controller and of the server around them
\* is well typed, and each worker stays within the exports it maintains
\* (capiexports.go:694-746, discovery.go:158-176).
THEOREM TypeCorrect == ClaimsSpec => []ClaimsTypeOK
<1>1. ClaimsInit => ClaimsTypeOK
  BY InitType
<1>2. ClaimsTypeOK /\ [ClaimsNext]_claimsVars => ClaimsTypeOK'
  BY TypeInductive
<1> QED
  BY <1>1, <1>2, PTL DEF ClaimsSpec

-----------------------------------------------------------------------------

\* Why a claim is never written without its identity: what an export carries,
\* what the cache has and what a reconcile has found were all given by the server,
\* and the server takes no identity back.
AttributedInv ==
  /\ \A e \in Exports : export[e].identity # 0 => <<e, export[e].identity>> \in Identified
  /\ \A e \in Exports : seen[e].identity # 0 => <<e, seen[e].identity>> \in Identified
  /\ \A w \in Workers : found[w] \subseteq Identified
  /\ \A e \in Exports : export[e].claims \subseteq Identified

LEMMA InitAttributed == ClaimsInit => AttributedInv
<1> SUFFICES ASSUME ClaimsInit PROVE AttributedInv
  OBVIOUS
<1>1. \A e \in Exports : export[e].identity = 0 /\ export[e].claims = {} /\ seen[e].identity = 0
  BY DEF ClaimsInit, Unpublished
<1>2. \A w \in Workers : found[w] = {}
  BY DEF ClaimsInit
<1> QED
  BY <1>1, <1>2 DEF AttributedInv

LEMMA IdentifyAttributed ==
  ASSUME ClaimsTypeOK, AttributedInv, NEW e \in Exports, Identify(e)
  PROVE  AttributedInv'
<1>1. /\ Len(issued) \in Nat /\ issued' \in Seq(Exports) /\ Len(issued') = Len(issued) + 1
      /\ issued'[Len(issued) + 1] = e
      /\ \A i \in 1..Len(issued) : issued'[i] = issued[i]
  BY AppendProperties DEF Identify, ClaimsTypeOK
<1>2. DOMAIN issued = 1..Len(issued) /\ DOMAIN issued' = 1..(Len(issued) + 1)
  BY <1>1 DEF ClaimsTypeOK
<1>3. Identified \subseteq Identified'
  BY <1>1, <1>2 DEF Identified
<1>4. <<e, Len(issued) + 1>> \in Identified'
  <2>1. Len(issued) + 1 \in DOMAIN issued'
    BY <1>1, <1>2
  <2> QED
    BY <1>1, <2>1 DEF Identified
<1> DEFINE r == [exists |-> TRUE, identity |-> Len(issued) + 1,
                  claims |-> export[e].claims, version |-> export[e].version + 1]
<1>5. export' = [export EXCEPT ![e] = r] /\ r.identity = Len(issued) + 1 /\ r.claims = export[e].claims
  BY DEF Identify
<1> HIDE DEF r
<1>6. \A x \in Exports : /\ export'[x].claims = export[x].claims
                         /\ export'[x].identity = IF x = e THEN Len(issued) + 1 ELSE export[x].identity
  BY <1>5 DEF ClaimsTypeOK
<1>7. UNCHANGED <<seen, found>>
  BY DEF Identify, workVars
<1> QED
  BY <1>3, <1>4, <1>6, <1>7 DEF AttributedInv

\* A step that gives out no identity and whose new values come from old ones.
LEMMA CarriedOver ==
  ASSUME AttributedInv, UNCHANGED issued,
         \A e \in Exports : export'[e].identity \in {0, export[e].identity},
         \A e \in Exports : export'[e].claims \subseteq Identified,
         \A e \in Exports : seen'[e].identity \in {seen[e].identity, export[e].identity},
         \A w \in Workers : found'[w] \subseteq Identified
  PROVE  AttributedInv'
<1>1. Identified' = Identified
  BY DEF Identified
<1> QED
  BY <1>1 DEF AttributedInv

LEMMA AbortAttributed ==
  ASSUME ClaimsTypeOK, AttributedInv, NEW w \in Workers, GiveUp(w)
  PROVE  \A v \in Workers : found'[v] \subseteq Identified
BY DEF GiveUp, ClaimsTypeOK, AttributedInv

LEMMA AdvanceAttributed ==
  ASSUME ClaimsTypeOK, AttributedInv, NEW w \in Workers, NextExport(w)
  PROVE  \A v \in Workers : found'[v] \subseteq Identified
BY DEF NextExport, ClaimsTypeOK, AttributedInv

\* What DiscoverIn finds in a view was given by the server.
LEMMA DiscoverAttributed ==
  ASSUME ClaimsTypeOK, AttributedInv, NEW w \in Workers
  PROVE  Discover(View(w)) \subseteq Identified
<1> SUFFICES ASSUME NEW d \in Discover(View(w)) PROVE d \in Identified
  OBVIOUS
<1>1. PICK e \in Exports : View(w)[e].identity # 0 /\ d = <<e, View(w)[e].identity>>
  BY DEF Discover
<1>2. View(w) = seen \/ View(w) = export
  BY DEF View
<1> QED
  BY <1>1, <1>2 DEF AttributedInv

LEMMA ReconcileAttributed ==
  ASSUME ClaimsTypeOK, AttributedInv, NEW w \in Workers, Reconcile(w)
  PROVE  AttributedInv'
<1> DEFINE p == Order[w][place[w]]
<1>0. p \in Exports
  BY AtAnExport
<1>1. CASE DiscoverIn(w)
  <2>1. \A v \in Workers : found'[v] \subseteq Identified
    BY <1>1, DiscoverAttributed DEF DiscoverIn, ClaimsTypeOK, AttributedInv
  <2> QED
    BY <1>1, <2>1, CarriedOver DEF DiscoverIn, AttributedInv
<1>2. CASE GetClaims(w)
  <2>1. \A v \in Workers : found'[v] \subseteq Identified
    BY <1>2, AbortAttributed, AdvanceAttributed DEF GetClaims, AttributedInv
  <2> QED
    BY <1>2, <2>1, CarriedOver DEF GetClaims, AttributedInv
<1>3. CASE UpdateClaims(w)
  <2>1. ClaimsFor(p, found[w]) \in SUBSET Attributions /\ ClaimsFor(p, found[w]) \subseteq Identified
    BY ClaimsForSound DEF ClaimsTypeOK, AttributedInv
  <2>2. \A v \in Workers : found'[v] \subseteq Identified
    BY <1>3, AbortAttributed, AdvanceAttributed DEF UpdateClaims
  <2>3. \A e \in Exports : export'[e].identity = export[e].identity /\ export'[e].claims \subseteq Identified
    <3>1. CASE Rewrite(p, ClaimsFor(p, found[w]))
      BY <1>0, <2>1, <3>1, RewriteType DEF AttributedInv
    <3>2. CASE UNCHANGED export
      BY <3>2 DEF AttributedInv
    <3> QED
      BY <1>3, <3>1, <3>2 DEF UpdateClaims
  <2> QED
    BY <1>3, <2>2, <2>3, CarriedOver DEF UpdateClaims
<1> QED
  BY <1>1, <1>2, <1>3 DEF Reconcile

LEMMA PublishAttributed ==
  ASSUME ClaimsTypeOK, AttributedInv,
         Publish \/ CreateExport \/ CompareExport \/ ResetExport \/ WaitForIdentities
  PROVE  AttributedInv'
<1> DEFINE w == "publisher"
           p == Order[w][place[w]]
<1>0. w \in Workers /\ p \in Exports
  BY AtAnExport DEF Workers
<1>1. CASE Publish \/ CompareExport \/ WaitForIdentities
  BY <1>1, CarriedOver DEF Publish, CompareExport, WaitForIdentities, AttributedInv
<1>2. CASE CreateExport
  <2>1. \A e \in Exports : export'[e].identity \in {0, export[e].identity} /\ export'[e].claims \subseteq Identified
    <3>1. CASE export' = [export EXCEPT ![p] = Created(p)]
      BY <1>0, <3>1 DEF Created, ClaimsTypeOK, AttributedInv
    <3>2. CASE UNCHANGED export
      BY <3>2 DEF AttributedInv
    <3> QED
      BY <1>2, <3>1, <3>2 DEF CreateExport
  <2> QED
    BY <1>2, <2>1, CarriedOver DEF CreateExport, AttributedInv
<1>3. CASE ResetExport
  <2>1. \A e \in Exports : export'[e].identity = export[e].identity /\ export'[e].claims \subseteq Identified
    <3>1. CASE Rewrite(p, {})
      BY <1>0, <3>1, RewriteType DEF AttributedInv
    <3>2. CASE UNCHANGED export
      BY <3>2 DEF AttributedInv
    <3> QED
      BY <1>3, <3>1, <3>2 DEF ResetExport
  <2>2. \A v \in Workers : found'[v] \subseteq Identified
    BY <1>0, <1>3, AbortAttributed DEF ResetExport, AttributedInv
  <2> QED
    BY <1>3, <2>1, <2>2, CarriedOver DEF ResetExport
<1> QED
  BY <1>1, <1>2, <1>3

LEMMA OtherAttributed ==
  ASSUME ClaimsTypeOK, AttributedInv,
         \/ \E e \in Exports : Install(e) \/ Withdraw(e)
         \/ Observe \/ StartClaims \/ RequeueClaims \/ \E w \in Workers : FailClaims(w)
  PROVE  AttributedInv'
<1>1. ASSUME NEW e \in Exports, Install(e) \/ Withdraw(e) PROVE AttributedInv'
  <2>1. \A x \in Exports : export'[x].identity \in {0, export[x].identity} /\ export'[x].claims \subseteq Identified
    <3>1. CASE export' = [export EXCEPT ![e] = Created(e)]
      BY <3>1 DEF Created, ClaimsTypeOK, AttributedInv
    <3>2. CASE export' = [export EXCEPT ![e] = Deleted(e)]
      BY <3>2 DEF Deleted, ClaimsTypeOK, AttributedInv
    <3> QED
      BY <1>1, <3>1, <3>2 DEF Install, Withdraw
  <2> QED
    BY <1>1, <2>1, CarriedOver DEF Install, Withdraw, workVars, AttributedInv
<1>2. CASE Observe
  BY <1>2, CarriedOver DEF Observe, workVars, AttributedInv
<1>3. CASE StartClaims \/ RequeueClaims
  BY <1>3, CarriedOver DEF StartClaims, RequeueClaims, AttributedInv
<1>4. ASSUME NEW w \in Workers, FailClaims(w) PROVE AttributedInv'
  <2>1. \A v \in Workers : found'[v] \subseteq Identified
    BY <1>4, AbortAttributed DEF FailClaims
  <2> QED
    BY <1>4, <2>1, CarriedOver DEF FailClaims, AttributedInv
<1> QED
  BY <1>1, <1>2, <1>3, <1>4

LEMMA AttributedInductive == ClaimsTypeOK /\ AttributedInv /\ [ClaimsNext]_claimsVars => AttributedInv'
<1> SUFFICES ASSUME ClaimsTypeOK, AttributedInv, [ClaimsNext]_claimsVars PROVE AttributedInv'
  OBVIOUS
<1>1. CASE UNCHANGED claimsVars
  BY <1>1, CarriedOver DEF claimsVars, workVars, AttributedInv
<1>2. CASE ClaimsNext
  <2>1. "controller" \in Workers /\ "publisher" \in Workers
    BY DEF Workers
  <2> QED
    BY <1>2, <2>1, IdentifyAttributed, ReconcileAttributed, PublishAttributed, OtherAttributed
    DEF ClaimsNext, Controller, Publisher
<1> QED
  BY <1>1, <1>2

LEMMA AttributedSuffices == ClaimsTypeOK /\ AttributedInv => ClaimsAreAttributed
<1> SUFFICES ASSUME AttributedInv, NEW w \in Workers, NEW i \in DOMAIN Order[w]
             PROVE  Order[w][i] \in Exports
  BY DEF ClaimsAreAttributed, AttributedInv, Maintained, MaintainedBy, Workers
<1> QED
  BY ClaimsAssumption, ElementOfSeq

\* No claim on an export's types is ever written without the identity the server
\* gave that export, whatever Publish, the controller and other installers do at
\* once and however old their views (capiexports.go:511-514, discovery.go:94-99).
THEOREM ClaimsCarryTheirIdentity == ClaimsSpec => []ClaimsAreAttributed
<1>1. ClaimsInit => ClaimsTypeOK /\ AttributedInv
  BY InitType, InitAttributed
<1>2. (ClaimsTypeOK /\ AttributedInv) /\ [ClaimsNext]_claimsVars => (ClaimsTypeOK /\ AttributedInv)'
  BY TypeInductive, AttributedInductive
<1>3. ClaimsTypeOK /\ AttributedInv => ClaimsAreAttributed
  BY AttributedSuffices
<1> QED
  BY <1>1, <1>2, <1>3, PTL DEF ClaimsSpec

=============================================================================
