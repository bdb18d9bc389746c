------------------------------ MODULE Sharding ------------------------------
(***************************************************************************)
(* The shard map and its router (pkg/sharding): NewMap takes the ranges of *)
(* logical shards of every physical cluster one after the other, NewRouter *)
(* dials each cluster into a map of pools keyed by the cluster's NAME, and *)
(* Pool finds a key's pool through both.  The hash that gives a key its    *)
(* logical shard is left out.                                              *)
(***************************************************************************)
EXTENDS Integers, Sequences

CONSTANTS
  NumLogicalShards,
  Configs   \* shard map files: sequences of [name, ranges], ranges a sequence of <<lo, hi>>

Shards == 0..(NumLogicalShards - 1)
Nowhere == 0

ASSUME ShardingAssumption ==
  /\ NumLogicalShards \in Nat
  /\ \A c \in Configs : c \in Seq([name : STRING, ranges : Seq(Int \X Int)])

VARIABLES
  config,
  stage,      \* "map", "dial", "ready", or "refused" when either constructor failed
  at,         \* the cluster, and the range of it, that is next
  byLogical,  \* the owner of each shard: a position in config
  pools,      \* of the router: the cluster dialled under each name
  open        \* clusters a pool is open to

shardVars == <<config, stage, at, byLogical, pools, open>>

Names == { config[i].name : i \in DOMAIN config }

ShardingTypeOK ==
  /\ stage \in {"map", "dial", "ready", "refused"}
  /\ at \in [cluster : 1..(Len(config) + 1), range : Nat \ {0}]
  /\ byLogical \in [Shards -> DOMAIN config \cup {Nowhere}]
  /\ pools \in [Names -> DOMAIN config \cup {Nowhere}] /\ open \subseteq DOMAIN config

ShardingInit ==
  /\ config \in Configs /\ stage = "map" /\ at = [cluster |-> 1, range |-> 1]
  /\ byLogical = [l \in Shards |-> Nowhere]
  /\ pools = [n \in Names |-> Nowhere] /\ open = {}

-----------------------------------------------------------------------------
Ranges(i) == config[i].ranges
Covered(r) == r[1]..r[2]
Proper(r) == r[1] <= r[2] /\ r[1] >= 0 /\ r[2] < NumLogicalShards

AlwaysFree(r) == TRUE   \* mutant: the last range wins
Free(r) == \A l \in Covered(r) : byLogical[l] = Nowhere

\* The next range: out of bounds, assigned twice, or its cluster's from now on.
TakeRange ==
  /\ stage = "map" /\ at.cluster <= Len(config) /\ at.range <= Len(Ranges(at.cluster))
  /\ LET r == Ranges(at.cluster)[at.range]
     IN IF Proper(r) /\ Free(r)
        THEN /\ byLogical' = [l \in Shards |-> IF l \in Covered(r) THEN at.cluster ELSE byLogical[l]]
             /\ at' = [at EXCEPT !.range = @ + 1] /\ stage' = stage
        ELSE stage' = "refused" /\ UNCHANGED <<byLogical, at>>
  /\ UNCHANGED <<config, pools, open>>

NextCluster ==
  /\ stage = "map" /\ at.cluster <= Len(config) /\ at.range > Len(Ranges(at.cluster))
  /\ at' = [cluster |-> at.cluster + 1, range |-> 1]
  /\ UNCHANGED <<config, stage, byLogical, pools, open>>

\* All ranges taken: is a shard unassigned?
Check ==
  /\ stage = "map" /\ at.cluster > Len(config)
  /\ stage' = IF \E l \in Shards : byLogical[l] = Nowhere THEN "refused" ELSE "dial"
  /\ at' = [cluster |-> 1, range |-> 1]
  /\ UNCHANGED <<config, byLogical, pools, open>>

\* NewRouter: connect and ping; the first failure closes what the map of pools holds.
Dial ==
  /\ stage = "dial" /\ at.cluster <= Len(config)
  /\ pools' = [pools EXCEPT ![config[at.cluster].name] = at.cluster]
  /\ open' = open \cup {at.cluster} /\ at' = [at EXCEPT !.cluster = @ + 1]
  /\ UNCHANGED <<config, stage, byLogical>>

DialFails ==
  /\ stage = "dial" /\ at.cluster <= Len(config) /\ stage' = "refused"
  /\ open' = open \ { pools[n] : n \in Names }
  /\ UNCHANGED <<config, at, byLogical, pools>>

Ready ==
  /\ stage = "dial" /\ at.cluster > Len(config) /\ stage' = "ready"
  /\ UNCHANGED <<config, at, byLogical, pools, open>>

ShardingNext == TakeRange \/ NextCluster \/ Check \/ Dial \/ DialFails \/ Ready

ShardingSpec == ShardingInit /\ [][ShardingNext]_shardVars

-----------------------------------------------------------------------------
\* Every shard lies in exactly one of all the clusters' ranges, and belongs to that cluster.
Partition ==
  \A l \in Shards : \E i \in DOMAIN config : \E k \in DOMAIN Ranges(i) :
    /\ l \in Covered(Ranges(i)[k]) /\ byLogical[l] = i
    /\ \A j \in DOMAIN config : \A m \in DOMAIN Ranges(j) :
         l \in Covered(Ranges(j)[m]) => j = i /\ m = k

DistinctNames == \A i, j \in DOMAIN config : config[i].name = config[j].name => i = j
PoolOf(l) == pools[config[byLogical[l]].name]

\* A shard map that is accepted, one range after the other, is a partition of the
\* shards.  If its clusters have names of their own, which nothing checks, each shard's
\* pool is the one dialled for its owner, and a router that fails leaves no pool open.
ShardsServed ==
  /\ stage \in {"dial", "ready"} => Partition
  /\ DistinctNames => /\ stage = "ready" => \A l \in Shards : PoolOf(l) = byLogical[l]
                      /\ stage = "refused" => open = {}
=============================================================================
