-------------------------------- MODULE Sharding --------------------------------
(***************************************************************************)
(* Which cluster an account and a server belong to.  starter.py writes the *)
(* shards and the servers of every cluster to config.json; the gateway and *)
(* the servers compute both again, each in its own way.  The sizes are     *)
(* parameters in starter.py and literals (1000 and 4) in the Go code.      *)
(***************************************************************************)
EXTENDS Integers

CONSTANTS Clusters, Replicas, ShardSize

ASSUME ShardingAssumption ==
    Clusters \in Nat \ {0} /\ Replicas \in Nat \ {0} /\ ShardSize \in Nat \ {0}

ClusterIds == 1..Clusters

\* create_config_and_run: the first and the last account of cluster c, and its servers.
ShardStart(c) == (c - 1) * ShardSize + 1
ShardEnd(c)   == c * ShardSize
ServersOf(c)  == ((c - 1) * Replicas + 1)..(c * Replicas)

\* InitiateBalances: the accounts a server of cluster c has a balance for.
ShardOf(c) == ShardStart(c)..ShardEnd(c)

\* The gateway's getClusterOfClient: where a payment of the account goes.
getClusterOfClient(a) == a \div ShardSize + 1

\* The leader of view v of cluster c: getViewLeader of a server.
getViewLeader(c, v) == (c - 1) * Replicas + ((v - 1) % Replicas) + 1

\* getViewLeader of the gateway, whose ViewMap has view 1 for every cluster.
leaderCalled(c) == (c - 1) * Replicas + ((1 - 1) % Replicas) + 1

\* LeaderMap of a server, for its calls of other clusters.
leaderKnown(c) == IF c = 1 THEN 1 ELSE IF c = 2 THEN 5 ELSE 9

-----------------------------------------------------------------------------

\* An account is routed to the cluster that has its balance, but for the last account
\* of every shard, which is routed to the next cluster (1000 to C2, where the payment
\* is refused since the account "is not in this shard").
RoutedHome ==
    \A c \in ClusterIds : \A a \in ShardOf(c) :
        getClusterOfClient(a) = IF a = ShardEnd(c) THEN c + 1 ELSE c

\* Every account is in one shard.
OneHome ==
    \A c, d \in ClusterIds : \A a \in ShardOf(c) \cap ShardOf(d) : c = d

\* The leader of every view is a server of the cluster, and every server of it leads
\* one of any Replicas views that follow each other.
LeadersRotate ==
    \A c \in ClusterIds, v \in Nat \ {0} :
        /\ getViewLeader(c, v) \in ServersOf(c)
        /\ \A n \in ServersOf(c) : \E w \in v..(v + Replicas - 1) : getViewLeader(c, w) = n

\* Servers and gateway take the same server for the leader of view 1, in up to three
\* clusters of four servers.
SameFirstLeader ==
    Replicas = 4 /\ Clusters <= 3 =>
        \A c \in ClusterIds : leaderKnown(c) = getViewLeader(c, 1) /\ leaderCalled(c) = leaderKnown(c)
=============================================================================
