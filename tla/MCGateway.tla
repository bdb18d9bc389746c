------------------------------ MODULE MCGateway ------------------------------
(***************************************************************************)
(* Small instances of the parts that stand between clients and the domain, *)
(* and of the processes that run it.  They share no state: a behaviour     *)
(* picks one part and runs it, the others stay as they begin.              *)
(***************************************************************************)
EXTENDS Idempotency, RateLimiter, Loader, Accounts, Api, Sharding, WorkerRoles

VARIABLE part

idemVars == vars
gatewayVars ==
  <<part, idemVars, limiterVars, loaderVars, accountVars, apiVars, shardVars, roleVars>>

MCSubjects == { [at |-> "google", email |-> "x", verified |-> TRUE],
                [at |-> "yandex", email |-> "z", verified |-> FALSE] }

MCRanges == {<<0, 0>>, <<0, 1>>, <<1, 2>>, <<2, 2>>, <<2, 1>>, <<1, 3>>}
MCClusters(names) == [name : names, ranges : [1..1 -> MCRanges] \cup [1..2 -> MCRanges]]
MCConfigs == { <<c>> : c \in MCClusters({"A"}) }
             \cup { <<c, d>> : c \in MCClusters({"A"}), d \in MCClusters({"A", "B"}) }
FirstConfig == << [name |-> "A", ranges |-> <<(<<0, 1>>), (<<2, 2>>)>>] >>

MCRolesOf == [p \in Processes |-> IF p = "all" THEN knownRoles ELSE {"fanout"}]

\* What only varies in one part begins somewhere in the others.
GatewayInit ==
  /\ part \in {"idem", "limiter", "loader", "accounts", "api", "shards", "roles"}
  /\ part = "limiter" \/ offset = [p \in Pods |-> 0]
  /\ part = "api" \/ (operation = "Login" /\ token = [t \in Tries |-> "none"])
  /\ part = "shards" \/ config = FirstConfig
  /\ Init /\ LimiterInit /\ LoaderInit /\ AccountsInit /\ ApiInit /\ ShardingInit /\ RolesInit

IdemStep ==
  part = "idem" /\ Next
  /\ UNCHANGED <<part, limiterVars, loaderVars, accountVars, apiVars, shardVars, roleVars>>
LimiterStep ==
  part = "limiter" /\ LimiterNext
  /\ UNCHANGED <<part, idemVars, loaderVars, accountVars, apiVars, shardVars, roleVars>>
LoaderStep ==
  part = "loader" /\ LoaderNext
  /\ UNCHANGED <<part, idemVars, limiterVars, accountVars, apiVars, shardVars, roleVars>>
AccountsStep ==
  part = "accounts" /\ AccountsNext
  /\ UNCHANGED <<part, idemVars, limiterVars, loaderVars, apiVars, shardVars, roleVars>>
ApiStep ==
  part = "api" /\ ApiNext
  /\ UNCHANGED <<part, idemVars, limiterVars, loaderVars, accountVars, shardVars, roleVars>>
ShardsStep ==
  part = "shards" /\ ShardingNext
  /\ UNCHANGED <<part, idemVars, limiterVars, loaderVars, accountVars, apiVars, roleVars>>
RolesStep ==
  part = "roles" /\ RolesNext
  /\ UNCHANGED <<part, idemVars, limiterVars, loaderVars, accountVars, apiVars, shardVars>>

GatewayNext ==
  IdemStep \/ LimiterStep \/ LoaderStep \/ AccountsStep \/ ApiStep \/ ShardsStep \/ RolesStep

\* While their part runs, PostgreSQL comes back, and processes start.  This is weaker than
\* RolesFair.
GatewaySpec ==
  /\ GatewayInit /\ [][GatewayNext]_gatewayVars
  /\ WF_roleVars(part = "roles" /\ Recover)
  /\ WF_roleVars(part = "roles" /\ \E p \in Processes : Starting(p))
=============================================================================
