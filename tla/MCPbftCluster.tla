---------------------------- MODULE MCPbftCluster ----------------------------
(* Small instances of PbftCluster for TLC.                                  *)
EXTENDS PbftCluster, TLC

CONSTANTS s1, s2, s3, s4, t1, t2, a, b, c

Pay(from, to, amount, role) ==
    [from |-> from, to |-> to, amount |-> amount, role |-> role]

\* One payment inside the shard.
OneBody == t1 :> Pay(a, b, 6, "intra")

\* Two payments of the same payer, who can afford only one of them.
RivalBody == t1 :> Pay(a, b, 6, "intra") @@ t2 :> Pay(a, b, 6, "intra")

\* A payment to another shard, and a rival inside the shard.
CoordBody == t1 :> Pay(a, c, 6, "coord")
CoordRivalBody == t1 :> Pay(a, c, 6, "coord") @@ t2 :> Pay(a, b, 6, "intra")

\* A payment from another shard.
PartBody == t1 :> Pay(c, a, 6, "part")

\* The backups are interchangeable.
Backups == Permutations({s2, s3, s4})
Backups2 == Permutations({s2, s3})
=============================================================================
