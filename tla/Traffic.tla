------------------------------ MODULE Traffic ------------------------------
(***************************************************************************)
(* sweep.Counter: a transport that classifies every request a process      *)
(* makes and counts it, so that a sweep can say how many things the        *)
(* process watches, however often it asked for them.                       *)
(*                                                                         *)
(* A path is the sequence of its segments.  External: the clients above    *)
(* the transport.  An informer opens its stream with its initial state in  *)
(* it, and opens it again from a resource version when the shard closes    *)
(* it; the others read, write and discover.                                *)
(***************************************************************************)
EXTENDS Naturals, FiniteSets, SequencesExt

CONSTANTS
  Clusters,     \* logical clusters, "*" among them
  Kinds,        \* <<group, resource>>, the group "" for the core group
  MaxRequests   \* bound: requests in one behaviour

\* A logical cluster has a name; a kind is a group and a resource, no more.
ASSUME TrafficAssumption == "" \notin Clusters /\ \A k \in Kinds : k = <<k[1], k[2]>>

VARIABLES
  counts,  \* Counter.counts: how often each request was made
  mark,    \* a Snapshot taken by a sample
  since,   \* history: the requests made since that snapshot
  opened,  \* history: the informers <<cluster, group, resource>> there are
  requests \* history: how many requests were made

trafficVars == <<counts, mark, since, opened, requests>>

Nothing == [r \in {} |-> 0]

TrafficInit ==
  /\ counts = Nothing /\ mark = Nothing /\ since = Nothing
  /\ opened = {} /\ requests = 0

-----------------------------------------------------------------------------
(* Classify *)

Segment(path, name) == SelectInSeq(path, LAMBDA s : s = name)

HasCluster(path) == LET i == Segment(path, "clusters") IN i > 0 /\ i < Len(path)

ClusterOf(path) == IF HasCluster(path) THEN path[Segment(path, "clusters") + 1] ELSE ""

BelowCluster(path) ==
  IF HasCluster(path) THEN SubSeq(path, Segment(path, "clusters") + 2, Len(path)) ELSE path

PathGroup(rest) == IF rest[1] = "apis" THEN rest[2] ELSE ""

\* What follows the version, without the namespace.
ObjectTail(rest) ==
  LET below == SubSeq(rest, IF rest[1] = "apis" THEN 4 ELSE 3, Len(rest))
  IN IF Len(below) > 2 /\ below[1] = "namespaces" THEN SubSeq(below, 3, Len(below)) ELSE below

IsObjectPath(rest) ==
  /\ rest # <<>> /\ rest[1] \in {"api", "apis"}
  /\ Len(rest) >= (IF rest[1] = "apis" THEN 3 ELSE 2)
  /\ ObjectTail(rest) # <<>>

Writes == [POST |-> "create", PUT |-> "update", PATCH |-> "patch", DELETE |-> "delete"]

\* watch is "no", "plain", or "initial" with sendInitialEvents.
VerbOf(method, named, watch) ==
  CASE method \in DOMAIN Writes -> Writes[method]
    [] method \notin DOMAIN Writes /\ watch = "initial" -> "watch-list"
    [] method \notin DOMAIN Writes /\ watch = "plain" -> "watch"
    [] OTHER -> IF named THEN "get" ELSE "list"

Request(verb, cluster, group, resource) ==
  [verb |-> verb, cluster |-> cluster, group |-> group, resource |-> resource]

\* Discovery of a group keeps the group; neither it nor an unknown path has a resource.
Classify(method, path, watch) ==
  LET rest == BelowCluster(path)
      tail == ObjectTail(rest)
      surface == rest = <<>> \/ rest[1] \in {"api", "apis", "openapi", "version"}
  IN IF IsObjectPath(rest)
       THEN Request(VerbOf(method, Len(tail) > 1, watch), ClusterOf(path), PathGroup(rest), tail[1])
       ELSE Request(IF surface THEN "discovery" ELSE "other", ClusterOf(path),
                    IF Len(rest) >= 2 THEN PathGroup(rest) ELSE "", "")

-----------------------------------------------------------------------------
(* Counts *)

IsWatch(r) == r.verb \in {"watch", "watch-list"}
IsList(r) == r.verb = "list"
IsDiscovery(r) == r.verb = "discovery"
IsWildcard(r) == r.cluster = "*"
IsWorkspaceScoped(r) == r.cluster \notin {"", "*"}

\* Mutant: distinct requests, so that a reopened stream is another one.
DistinctStreamsByVerb(requested) == Cardinality(requested)

\* What is watched, not how it was asked for.
DistinctStreams(requested) ==
  Cardinality({<<r.cluster, r.group, r.resource>> : r \in requested})

TotalOf(c, requested) == FoldFunctionOnSet(+, 0, c, requested)

TrafficOf(c) ==
  LET watches == {r \in DOMAIN c : IsWatch(r)}
  IN [watchStreams |-> DistinctStreams(watches),
      wildcardWatchStreams |-> DistinctStreams({r \in watches : IsWildcard(r)}),
      scopedWatchStreams |-> DistinctStreams({r \in watches : IsWorkspaceScoped(r)}),
      lists |-> TotalOf(c, {r \in DOMAIN c : IsList(r)}),
      discovery |-> TotalOf(c, {r \in DOMAIN c : IsDiscovery(r)}),
      total |-> TotalOf(c, DOMAIN c)]

Seen(c, r) == IF r \in DOMAIN c THEN c[r] ELSE 0

\* What happened between other and c; what did not change is dropped.
Sub(c, other) ==
  LET changed == {r \in DOMAIN c : c[r] # Seen(other, r)}
  IN [r \in changed |-> c[r] - Seen(other, r)]

Observe(c, r) == [q \in DOMAIN c \cup {r} |-> IF q = r THEN Seen(c, r) + 1 ELSE c[q]]

\* Counted as it is sent, whatever becomes of it.
RoundTrip(method, path, watch) ==
  /\ requests < MaxRequests /\ requests' = requests + 1
  /\ counts' = Observe(counts, Classify(method, path, watch))
  /\ since' = Observe(since, Classify(method, path, watch))
  /\ UNCHANGED mark

\* Snapshot: a copy, so that what happens next does not change it.
SnapshotTaken ==
  /\ counts # mark
  /\ mark' = counts /\ since' = Nothing
  /\ UNCHANGED <<counts, opened, requests>>

-----------------------------------------------------------------------------
(* The clients. *)

\* Straight to the shard, or through a virtual workspace.
Endpoints == {<<>>, <<"services", "apiexport", "root", "core">>}

Root(cluster, kind) ==
  <<"clusters", cluster>> \o (IF kind[1] = "" THEN <<"api", "v1">> ELSE <<"apis", kind[1], "v1">>)

Collection(cluster, kind, namespace) ==
  Root(cluster, kind) \o (IF namespace THEN <<"namespaces", "default">> ELSE <<>>) \o <<kind[2]>>

Open(cluster, kind) ==
  /\ <<cluster, kind>> \notin opened
  /\ opened' = opened \cup {<<cluster, kind>>}
  /\ \E prefix \in Endpoints : RoundTrip("GET", prefix \o Collection(cluster, kind, FALSE), "initial")

Reopen(cluster, kind) ==
  /\ <<cluster, kind>> \in opened
  /\ \E prefix \in Endpoints : RoundTrip("GET", prefix \o Collection(cluster, kind, FALSE), "plain")
  /\ UNCHANGED opened

\* A read or a write of an object, in a namespace or not.
Call(cluster, kind, method) ==
  /\ \E namespace \in BOOLEAN, named \in BOOLEAN :
       RoundTrip(method, Collection(cluster, kind, namespace) \o (IF named THEN <<"x">> ELSE <<>>), "no")
  /\ UNCHANGED opened

\* The API surface: of a cluster, of a group, and a probe.
Discover(cluster, kind) ==
  /\ \E path \in {<<"clusters", cluster, "apis">>, Root(cluster, kind), <<"healthz">>} :
       RoundTrip("GET", path, "no")
  /\ UNCHANGED opened

TrafficNext ==
  \/ \E c \in Clusters, k \in Kinds :
       \/ Open(c, k) \/ Reopen(c, k) \/ Discover(c, k)
       \/ \E method \in {"GET", "POST"} : Call(c, k, method)
  \/ SnapshotTaken

TrafficSpec == TrafficInit /\ [][TrafficNext]_trafficVars

-----------------------------------------------------------------------------
(* Properties *)

\* "Re-establishing one does not increase it": the streams reported are the
\* informers there are, wildcard ones apart from those scoped to a workspace.
StreamsAreInformers ==
  LET t == TrafficOf(counts)
  IN /\ t.watchStreams = Cardinality(opened)
     /\ t.wildcardWatchStreams = Cardinality({o \in opened : o[1] = "*"})
     /\ t.scopedWatchStreams = t.watchStreams - t.wildcardWatchStreams
     /\ t.total = requests

\* The difference of two snapshots is what was asked for in between.
DeltaIsWhatHappened == Sub(counts, mark) = since

\* What a sweep reports of the traffic is what its clients did, in all and
\* between two samples (classify.go:283-305 and 345-358; report.go:56-75).
TrafficIsReal == StreamsAreInformers /\ DeltaIsWhatHappened
=============================================================================
