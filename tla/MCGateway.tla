------------------------------- MODULE MCGateway -------------------------------
(* A small instance of Gateway for TLC.                                     *)
EXTENDS Gateway, TLC

CONSTANTS g, s1, s2

Processes == {g, s1, s2}
KeyFiles  == <<s1, s2, g>>
Servers   == {s1, s2}

\* One payment in each of two sets: the first one, over two clusters, is aborted by the other
\* cluster, and is called in vain while the second server is off and Byzantine; the second
\* one, inside the cluster, is carried out.
Input ==
    << [set |-> 1, live |-> {s1},     byz |-> {s2}, leader |-> s1, cross |-> TRUE,  fate |-> "aborted"],
       [set |-> 2, live |-> {s1, s2}, byz |-> {},   leader |-> s1, cross |-> FALSE, fate |-> "paid"] >>

\* Everyone is started once and reads the key files once.
Once == [p \in Processes |-> 1]
=============================================================================
