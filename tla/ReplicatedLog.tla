----------------------------- MODULE ReplicatedLog -----------------------------
(***************************************************************************)
(* What a cluster promises for the requests it serves alone: one log, a    *)
(* request per slot and a slot per request, every server learns and        *)
(* applies that log in order, and the client is told "done" only when a    *)
(* sufficient number of servers have applied its request.                  *)
(***************************************************************************)
EXTENDS Integers, FiniteSets

CONSTANTS Server, Cmd, NoCmd, Slots, Enough

VARIABLES chosen,    \* chosen[s]: the request of slot s
          learned,   \* learned[n][s]: the request server n knows to be decided in s
          applied,   \* applied[n]: slots server n has applied
          answered   \* requests reported to their client

rlvars == <<chosen, learned, applied, answered>>

RLInit ==
    /\ chosen = [s \in Slots |-> NoCmd]
    /\ learned = [n \in Server |-> [s \in Slots |-> NoCmd]]
    /\ applied = [n \in Server |-> 0]
    /\ answered = {}

\* The next free slot is given to a request that has none.
Choose(s, c) ==
    /\ \A u \in Slots : chosen[u] = NoCmd <=> u >= s
    /\ \A u \in Slots : chosen[u] # c
    /\ chosen' = [chosen EXCEPT ![s] = c]
    /\ UNCHANGED <<learned, applied, answered>>

Learn(n, s) ==
    /\ chosen[s] # NoCmd
    /\ learned' = [learned EXCEPT ![n][s] = chosen[s]]
    /\ UNCHANGED <<chosen, applied, answered>>

AppliedBy(c) == {n \in Server : \E s \in 1..applied'[n] : learned[n][s] = c}

\* A server applies its next slot; the request may then be answered.
Apply(n) ==
    LET s == applied[n] + 1 IN
    /\ s \in Slots /\ learned[n][s] # NoCmd
    /\ applied' = [applied EXCEPT ![n] = s]
    /\ \/ UNCHANGED answered
       \/ /\ Cardinality(AppliedBy(learned[n][s])) >= Enough
          /\ answered' = answered \cup {learned[n][s]}
    /\ UNCHANGED <<chosen, learned>>

RLNext == \/ \E s \in Slots, c \in Cmd : Choose(s, c)
          \/ \E n \in Server : Apply(n) \/ \E s \in Slots : Learn(n, s)

RLSpec == RLInit /\ [][RLNext]_rlvars
=============================================================================
