---------------------------- MODULE ShardCaches ----------------------------
(***************************************************************************)
(* shardCaches.newCluster of internal/providerwiring: the callback with    *)
(* which the APIExport provider builds each workspace's cluster.  Before   *)
(* it does, the callback puts the shard's wildcard cache in order: first   *)
(* the field indexes, once for a shard, and then the fleet-wide watches.   *)
(*                                                                         *)
(* One call is one workspace on one shard, named by the shard's host.  The *)
(* provider runs the calls of one shard one after the other, on the event  *)
(* handler of that shard's informer, and those of different shards at the  *)
(* same time.                                                              *)
(*                                                                         *)
(* External: the WildcardRegistry, which keeps the caches it has taken and *)
(* registers the declared watches on a new one, and IndexField of the      *)
(* cache.  A registry that fails for a shard fails for it every time.      *)
(***************************************************************************)
EXTENDS Integers, FiniteSets

CONSTANTS
  Calls,         \* bound: calls of newCluster in one behaviour
  Hosts,         \* the shards
  Nobody,
  Indexes,       \* how many indexes WithCacheIndexes declared
  BrokenHosts,   \* shards on which the registry fails
  MaxIndexErrors \* bound: IndexField calls that fail

ASSUME ShardAssumption ==
  /\ Nobody \notin Hosts
  /\ Indexes \in Nat /\ MaxIndexErrors \in Nat
  /\ BrokenHosts \subseteq Hosts

VARIABLES
  host,      \* the shard of each call, Nobody before it is made
  stepOf,    \* where each call is
  result,    \* "none", "cluster", or the error: "index", "detailed" or "brief" (the
             \* registry's, with its cause or without), "scoped" (the cluster's)
  indexed,   \* shardCaches.indexed
  reported,  \* shardCaches.reported
  fields,    \* how many indexes each shard's cache has
  watched,   \* the shards whose cache has the fleet-wide watches
  errors     \* IndexField calls that failed so far

shardVars == <<host, stepOf, result, indexed, reported, fields, watched, errors>>

ShardTypeOK ==
  /\ host \in [Calls -> Hosts \cup {Nobody}]
  /\ stepOf \in [Calls -> {"idle", "mark", "index", "watch", "returned"}]
  /\ result \in [Calls -> {"none", "cluster", "detailed", "brief", "index", "scoped"}]
  /\ indexed \subseteq Hosts /\ reported \subseteq Hosts /\ watched \subseteq Hosts
  /\ fields \in [Hosts -> 0..Indexes]
  /\ errors \in 0..MaxIndexErrors

ShardInit ==
  /\ host = [c \in Calls |-> Nobody]
  /\ stepOf = [c \in Calls |-> "idle"]
  /\ result = [c \in Calls |-> "none"]
  /\ indexed = {} /\ reported = {}
  /\ fields = [h \in Hosts |-> 0]
  /\ watched = {}
  /\ errors = 0

Return(c, r) ==
  /\ stepOf' = [stepOf EXCEPT ![c] = "returned"]
  /\ result' = [result EXCEPT ![c] = r]

Continue(c, there) ==
  /\ stepOf' = [stepOf EXCEPT ![c] = there]
  /\ UNCHANGED result

Under(h) == {c \in Calls : host[c] = h /\ stepOf[c] # "returned"}

NewCluster(c, h) ==
  /\ stepOf[c] = "idle" /\ Under(h) = {}
  /\ host' = [host EXCEPT ![c] = h]
  /\ Continue(c, "mark")
  /\ UNCHANGED <<indexed, reported, fields, watched, errors>>

-----------------------------------------------------------------------------
(* addIndexes *)

MarkIndexedSkips(c) ==
  /\ stepOf[c] = "mark"
  /\ Continue(c, IF Indexes = 0 \/ indexed # {} THEN "watch" ELSE "index")
  /\ indexed' = IF Indexes = 0 THEN indexed ELSE indexed \cup {host[c]}
  /\ UNCHANGED <<host, reported, fields, watched, errors>>

\* Under s.mu: the shard is marked as indexed before any index is.
MarkIndexed(c) ==
  /\ stepOf[c] = "mark"
  /\ Continue(c, IF Indexes = 0 \/ host[c] \in indexed THEN "watch" ELSE "index")
  /\ indexed' = IF Indexes = 0 THEN indexed ELSE indexed \cup {host[c]}
  /\ UNCHANGED <<host, reported, fields, watched, errors>>

\* IndexField, for each of the declared indexes in order; a field that has an
\* indexer already refuses another.
IndexField(c) ==
  /\ stepOf[c] = "index" /\ fields[host[c]] < Indexes
  /\ fields' = [fields EXCEPT ![host[c]] = @ + 1]
  /\ Continue(c, IF fields'[host[c]] = Indexes THEN "watch" ELSE "index")
  /\ UNCHANGED <<host, indexed, reported, watched, errors>>

IndexFails(c) ==
  /\ stepOf[c] = "index"
  /\ fields[host[c]] = Indexes \/ errors < MaxIndexErrors
  /\ errors' = IF fields[host[c]] = Indexes THEN errors ELSE errors + 1
  /\ Return(c, "index")
  /\ UNCHANGED <<host, indexed, reported, fields, watched>>

-----------------------------------------------------------------------------
(* registry.AddCache, and the cluster *)

\* The watches stay when NewScopedCluster then fails for this workspace.
AddCache(c) ==
  /\ stepOf[c] = "watch" /\ host[c] \notin BrokenHosts
  /\ watched' = watched \cup {host[c]}
  /\ Return(c, "cluster") \/ Return(c, "scoped")
  /\ UNCHANGED <<host, indexed, reported, fields, errors>>

AddCacheFails(c) ==
  /\ stepOf[c] = "watch" /\ host[c] \in BrokenHosts
  /\ reported' = reported \cup {host[c]}
  /\ Return(c, IF host[c] \in reported THEN "brief" ELSE "detailed")
  /\ UNCHANGED <<host, indexed, fields, watched, errors>>

ShardNext ==
  \E c \in Calls :
    \/ \E h \in Hosts : NewCluster(c, h)
    \/ MarkIndexed(c) \/ IndexField(c) \/ IndexFails(c)
    \/ AddCache(c) \/ AddCacheFails(c)

ShardSpec == ShardInit /\ [][ShardNext]_shardVars

-----------------------------------------------------------------------------
(* Properties *)

\* What shardcaches.go:137-148 and 216-218 say: indexes before watches, and watches
\* before the engagement, so that a workspace which got a cluster is served by
\* controllers that see it and whose selectors have every index.
EngagedIsWhole ==
  \A c \in Calls :
    result[c] = "cluster" => host[c] \in watched /\ fields[host[c]] = Indexes

\* An index that is missing on a shard with watches was told of: to one workspace
\* of that shard, which was refused for it, and to no second one
\* (shardcaches.go:233-252).
MissingIndexToldOnce ==
  /\ \A h \in watched :
       fields[h] < Indexes => \E c \in Calls : host[c] = h /\ result[c] = "index"
  /\ \A c, d \in Calls :
       result[c] = "index" /\ result[d] = "index" /\ host[c] = host[d] => c = d

\* A shard whose cache takes its indexes keeps taking workspaces: none of them
\* is refused because the shard has been indexed already (shardcaches.go:119).
NoneRefusedForIndexing ==
  errors = 0 => \A c \in Calls : result[c] # "index"

\* Only one workspace's failure carries the cause of a broken shard, and the
\* others say that it is broken (shardcaches.go:124-127).
CauseReportedOnce ==
  \A c, d \in Calls :
    /\ result[c] = "detailed" /\ result[d] = "detailed" /\ host[c] = host[d] => c = d
    /\ result[c] = "brief" => \E e \in Calls : host[e] = host[c] /\ result[e] = "detailed"

\* What the workspaces are told of their shards: a shard that works refuses none
\* for its indexes, and a missing index or a broken shard is explained once, and
\* is not passed over.
ShardVerdictsAreTrue == MissingIndexToldOnce /\ NoneRefusedForIndexing /\ CauseReportedOnce

=============================================================================
