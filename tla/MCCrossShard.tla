----------------------------- MODULE MCCrossShard -----------------------------
(* Small instances of CrossShard for TLC: the clusters and accounts are    *)
(* those of Sharding.                                                      *)
EXTENDS CrossShard, Sharding, TLC

CONSTANTS t1, t2, t3, a1, a2, b1, b2

Pay(from, to, amount) == [from |-> from, to |-> to, amount |-> amount]

\* Where the balances are, and where the gateway sends the payments.
HomeOf  == [a \in Account |-> CHOOSE c \in ClusterIds : a \in ShardOf(c)]
RouteOf == [a \in Account |-> getClusterOfClient(a)]

\* Two payments of one payer, who can afford one of them, to the other shard.
SamePayer == t1 :> Pay(a1, b1, 6) @@ t2 :> Pay(a1, b2, 6)

\* The same and a payment between the two payees.
SamePayerAndThere == SamePayer @@ t3 :> Pay(b1, b2, 6)

\* One payment to the other shard.
OnePayment == t1 :> Pay(a1, b1, 3)

\* Two payments between two accounts, one in each direction.
Opposite == t1 :> Pay(a1, b1, 6) @@ t2 :> Pay(b1, a1, 6)

\* Every run may fail but the abort run of the coordinator, cluster 1.
Failing == ({1, 2} \X Status) \ {<<1, "A">>}
=============================================================================
