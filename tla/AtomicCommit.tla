------------------------------ MODULE AtomicCommit ------------------------------
(***************************************************************************)
(* What a payment over several clusters promises: every cluster that takes *)
(* part comes to the same outcome, a cluster commits only when all of them *)
(* are prepared, and gives a payment up only when none has committed it.   *)
(***************************************************************************)
EXTENDS FiniteSets

CONSTANTS Payment,
          Party,        \* the clusters
          Parties(_)    \* Parties(p): the clusters that take part in payment p

VARIABLE outcome   \* outcome[c][p]

acvars == <<outcome>>

ACInit == outcome = [c \in Party |-> [p \in Payment |-> "open"]]

ACPrepare(c, p) ==
    /\ outcome[c][p] = "open"
    /\ outcome' = [outcome EXCEPT ![c][p] = "prepared"]

ACCommit(c, p) ==
    /\ outcome[c][p] = "prepared"
    /\ \A d \in Parties(p) : outcome[d][p] \in {"prepared", "committed"}
    /\ outcome' = [outcome EXCEPT ![c][p] = "committed"]

ACAbort(c, p) ==
    /\ outcome[c][p] \in {"open", "prepared"}
    /\ \A d \in Parties(p) : outcome[d][p] # "committed"
    /\ outcome' = [outcome EXCEPT ![c][p] = "aborted"]

ACNext == \E c \in Party, p \in Payment : ACPrepare(c, p) \/ ACCommit(c, p) \/ ACAbort(c, p)

ACSpec == ACInit /\ [][ACNext]_acvars
=============================================================================
