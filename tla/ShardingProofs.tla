----------------------------- MODULE ShardingProofs -----------------------------
(* Proofs of what Sharding computes, for every number of clusters, servers *)
(* and accounts.                                                           *)
EXTENDS Sharding, TLAPS

\* A quotient is known by its remainder.
LEMMA Quotient ==
    ASSUME NEW d \in Nat \ {0}, NEW q \in Nat, NEW r \in 0..(d - 1)
    PROVE  (q * d + r) \div d = q
  BY Z3

\* getClusterOfClient finds the cluster whose InitiateBalances has the account, but for
\* the last account of every shard.
THEOREM RoutedHomeHolds == RoutedHome
  BY ShardingAssumption, Quotient DEF RoutedHome, ShardOf, ShardStart, ShardEnd, ClusterIds, getClusterOfClient

\* A shard ends where the next one starts, or before.
LEMMA ShardsOrdered ==
    ASSUME NEW c \in ClusterIds, NEW d \in ClusterIds, c < d
    PROVE  ShardEnd(c) < ShardStart(d)
  BY ShardingAssumption DEF ShardStart, ShardEnd, ClusterIds

\* InitiateBalances gives no account a balance in two clusters.
THEOREM OneHomeHolds == OneHome
  BY ShardingAssumption, ShardsOrdered DEF OneHome, ShardOf, ShardStart, ShardEnd, ClusterIds

\* What is added to a multiple is its remainder.
LEMMA Remainder ==
    ASSUME NEW d \in Nat \ {0}, NEW q \in Nat, NEW r \in 0..(d - 1)
    PROVE  (q * d + r) % d = r
  BY Z3

LEMMA Division ==
    ASSUME NEW d \in Nat \ {0}, NEW m \in Nat
    PROVE  \E q \in Nat, r \in 0..(d - 1) : m = q * d + r
<1>1. m = (m \div d) * d + (m % d) /\ m \div d \in Nat /\ m % d \in 0..(d - 1)
  BY Z3
<1> QED
  BY <1>1

\* getViewLeader: the leader of every view is a server of the cluster, and any Replicas
\* views that follow each other have every server of it as their leader once.
THEOREM LeadersRotateHolds == LeadersRotate
<1> SUFFICES ASSUME NEW c \in ClusterIds, NEW v \in Nat \ {0}
             PROVE  /\ getViewLeader(c, v) \in ServersOf(c)
                    /\ \A n \in ServersOf(c) :
                         \E w \in v..(v + Replicas - 1) : getViewLeader(c, w) = n
  BY DEF LeadersRotate
<1> DEFINE base == (c - 1) * Replicas
<1>1. Replicas \in Nat \ {0} /\ base \in Nat /\ c * Replicas = base + Replicas
  BY ShardingAssumption DEF ClusterIds
<1>2. \A w \in Nat \ {0} : getViewLeader(c, w) = base + ((w - 1) % Replicas) + 1
  BY DEF getViewLeader
<1>3. ServersOf(c) = (base + 1)..(base + Replicas)
  BY <1>1 DEF ServersOf
<1> HIDE DEF base
<1>4. PICK q \in Nat, r \in 0..(Replicas - 1) : v - 1 = q * Replicas + r
  <2>1. v - 1 \in Nat
    OBVIOUS
  <2> QED
    BY <1>1, <2>1, Division
<1>5. (v - 1) % Replicas = r
  BY <1>1, <1>4, Remainder
<1>6. getViewLeader(c, v) \in ServersOf(c)
  BY <1>1, <1>2, <1>3, <1>5
<1>7. ASSUME NEW n \in ServersOf(c)
      PROVE  \E w \in v..(v + Replicas - 1) : getViewLeader(c, w) = n
  <2> DEFINE k == n - base - 1
  <2>1. k \in 0..(Replicas - 1) /\ n = base + k + 1
    BY <1>1, <1>3
  <2> HIDE DEF k
  <2>2. CASE k >= r
    <3> DEFINE w == v + (k - r)
    <3>1. w \in v..(v + Replicas - 1) /\ w \in Nat \ {0}
      BY <1>1, <2>1, <2>2
    <3>2. w - 1 = q * Replicas + k /\ q \in Nat
      BY <1>1, <1>4, <2>1
    <3> HIDE DEF w
    <3>3. (w - 1) % Replicas = k
      <4>1. (q * Replicas + k) % Replicas = k
        BY <1>1, <2>1, <3>2, Remainder
      <4> QED
        BY <3>2, <4>1
    <3> QED
      BY <1>2, <2>1, <3>1, <3>3
  <2>3. CASE k < r
    <3> DEFINE w == v + (k - r) + Replicas
    <3>1. w \in v..(v + Replicas - 1) /\ w \in Nat \ {0}
      BY <1>1, <2>1, <2>3
    <3>2. w - 1 = (q + 1) * Replicas + k /\ (q + 1) \in Nat
      BY <1>1, <1>4, <2>1
    <3> HIDE DEF w
    <3>3. (w - 1) % Replicas = k
      <4>1. ((q + 1) * Replicas + k) % Replicas = k
        BY <1>1, <2>1, <3>2, Remainder
      <4> QED
        BY <3>2, <4>1
    <3> QED
      BY <1>2, <2>1, <3>1, <3>3
  <2> QED
    BY <1>1, <2>1, <2>2, <2>3
<1> QED
  BY <1>6, <1>7

\* The gateway's ViewMap, a server's literal LeaderMap and getViewLeader name the same
\* first leader of every cluster of config.json.
THEOREM SameFirstLeaderHolds == SameFirstLeader
  BY ShardingAssumption DEF SameFirstLeader, leaderKnown, leaderCalled, getViewLeader, ClusterIds
=============================================================================
