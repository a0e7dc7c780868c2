------------------------------- MODULE Gateway -------------------------------
(***************************************************************************)
(* The gateway: it works through the sets of payments of its input, calls  *)
(* the leader for every payment from a goroutine of its own until F+1      *)
(* servers have replied, and counts the replies by the timestamp of the    *)
(* payment.  Main does not wait for the payments of a set.                 *)
(*                                                                         *)
(* What the servers do with a payment is in PbftCluster and CrossShard;    *)
(* here a leader that takes the call makes every live server that is not   *)
(* Byzantine decide the payment, execute it and reply, if these are enough *)
(* for a quorum.  A repeated call of a payment inside one cluster runs it  *)
(* in its old slot, which a server that has it does not execute again; a   *)
(* payment over two clusters is prepared and settled anew.  A call is      *)
(* taken, and a reply is read, only with the keys of KeyExchange.          *)
(***************************************************************************)
EXTENDS KeyExchange, FiniteSets, FiniteSetsExt

CONSTANTS
    Server,
    Client,      \* the gateway
    F,
    Quorum,      \* the servers without which a cluster decides nothing
    Last,        \* the number of rows of the input
    Row,         \* Row[i]: row i, which names a set, its live and its Byzantine servers,
                 \* or no set (0), and has a payment: the leader of the cluster it is
                 \* routed to, whether it is over two clusters, and what becomes of it
    MaxEarly     \* bound: timers that fire before the servers have replied

Payment == 1..Last

\* Carried out, aborted by the participant, or refused for lack of money.
Fate == {"paid", "aborted", "refused"}

ASSUME GatewayAssumption ==
    /\ Client \notin Server /\ Process = Server \cup {Client}
    /\ F \in Nat /\ Quorum \in Nat /\ Last \in Nat /\ MaxEarly \in Nat
    /\ Quorum > F
    /\ Row \in [Payment -> [set : Nat, live : SUBSET Server, byz : SUBSET Server,
                             leader : Server, cross : BOOLEAN, fate : Fate]]
    /\ \A i \in Payment : Row[i].fate = "aborted" => Row[i].cross
    /\ Last > 0 => Row[1].set # 0

LeaderFor(i) == Row[i].leader
Truth(i)     == Row[i].fate = "paid"

\* readCsv: a payment belongs to the highest set that has been named so far, and for
\* each set the last row that names it counts.
SetOf(i)  == Max({Row[j].set : j \in 1..i})
MaxSetNum == Max({0} \cup {Row[j].set : j \in Payment})
Sets      == 1..MaxSetNum
LastOf(k) == {j \in Payment : Row[j].set = k /\ \A i \in Payment : Row[i].set = k => i <= j}
LiveIn(k) == {n \in Server : \E j \in LastOf(k) : n \in Row[j].live}
ByzIn(k)  == {n \in Server : \E j \in LastOf(k) : n \in Row[j].byz}

VARIABLES
    set,       \* currentSet, 0 before the first
    phase,     \* what main does for it
    left,      \* servers that the phase has still to call
    live,      \* node.Live of the servers
    byz,       \* node.Byzantine of the servers
    highest,   \* highestSeq
    stamp,     \* stamp[i]: the timestamp of payment i, 0 before it is sent
    pc,        \* pc[i]: where sendTransaction of payment i is
    store,     \* store[i]: servers whose Datastore has payment i
    owed,      \* owed[i]: servers that have still to execute payment i and to reply
    waiting,   \* replies whose handlers wait for readReplies
    early,     \* timers so far that fired before the servers had replied (bound)
    count,     \* ResCountMap
    result     \* result[i]: the results that storeLatency was given for payment i

main     == <<set, phase, left>>
switches == <<live, byz>>
payments == <<highest, stamp, pc, store, owed, waiting, early, count, result>>
vars     == <<keys, main, switches, payments>>

Phase == {"menu", "dead", "alive", "good", "byz", "send"}
Stamp == 1..Last

\* A count is not kept beyond F+1.
Count == 0..(F + 1)

TypeOK ==
    /\ KeysTypeOK
    /\ set \in {0} \cup Sets
    /\ phase \in Phase
    /\ left \subseteq Server
    /\ live \in [Server -> BOOLEAN]
    /\ byz \in [Server -> BOOLEAN]
    /\ highest \in 0..Last
    /\ stamp \in [Payment -> 0..Last]
    /\ pc \in [Payment -> {"no", "clear", "call", "wait", "done"}]
    /\ store \in [Payment -> SUBSET Server]
    /\ owed \in [Payment -> SUBSET Server]
    /\ waiting \subseteq [stamp : Stamp, result : BOOLEAN, from : Server]
    /\ early \in 0..MaxEarly
    /\ count \in [Stamp -> [yes : Count, no : Count]]
    /\ result \in [Payment -> SUBSET BOOLEAN]

Init ==
    /\ KeysInit
    /\ set = 0 /\ phase = "menu" /\ left = {}
    /\ live = [n \in Server |-> TRUE]
    /\ byz = [n \in Server |-> FALSE]
    /\ highest = 0
    /\ stamp = [i \in Payment |-> 0]
    /\ pc = [i \in Payment |-> "no"]
    /\ store = [i \in Payment |-> {}]
    /\ owed = [i \in Payment |-> {}]
    /\ waiting = {}
    /\ early = 0
    /\ count = [ts \in Stamp |-> [yes |-> 0, no |-> 0]]
    /\ result = [i \in Payment |-> {}]

-----------------------------------------------------------------------------
(* Processes.                                                              *)

Up(p) == gen[p] > 0

\* A process starts, the gateway after the servers (README.MD).  A server that starts
\* again has a new Node: it is live and not Byzantine, and its Datastore is empty.
StartProcess(p) ==
    /\ Start(p)
    /\ p = Client => \A n \in Server : Up(n)
    /\ live' = [n \in Server |-> n = p \/ live[n]]
    /\ byz' = [n \in Server |-> n # p /\ byz[n]]
    /\ store' = [i \in Payment |-> store[i] \ {p}]
    /\ owed' = [i \in Payment |-> owed[i] \ {p}]
    /\ UNCHANGED <<main, highest, stamp, pc, waiting, early, count, result>>

ExchangeKeys(p) == KeyStep(p) /\ UNCHANGED <<main, switches, payments>>

-----------------------------------------------------------------------------
(* Main: the menu and a set.                                               *)

\* Menu item 1: the servers that are not live in the next set are called first.
NextSet ==
    /\ Ready(Client)
    /\ phase = "menu" /\ set + 1 \in Sets
    /\ set' = set + 1
    /\ phase' = "dead"
    /\ left' = Server \ LiveIn(set + 1)
    /\ UNCHANGED <<keys, switches, payments>>

\* SetStatus and SetByzantine at a server; one that does not run gets neither.
CallServer ==
    /\ phase # "send"
    /\ \E n \in left :
        /\ left' = left \ {n}
        /\ live' = [live EXCEPT ![n] = IF Up(n) /\ phase \in {"dead", "alive"} THEN phase = "alive" ELSE @]
        /\ byz' = [byz EXCEPT ![n] = IF Up(n) /\ phase \in {"good", "byz"} THEN phase = "byz" ELSE @]
    /\ UNCHANGED <<keys, set, phase, payments>>

\* setLiveServers and setByzantineServers go on with the next of their loops.
NextPhase ==
    /\ left = {}
    /\ \/ phase = "dead"  /\ phase' = "alive" /\ left' = LiveIn(set)
       \/ phase = "alive" /\ phase' = "good"  /\ left' = Server \ ByzIn(set)
       \/ phase = "good"  /\ phase' = "byz"   /\ left' = ByzIn(set)
       \/ phase = "byz"   /\ phase' = "send"  /\ left' = {}
    /\ UNCHANGED <<keys, set, switches, payments>>

\* Variant: the timestamps of two payments may be the same.
NextStampOnce == IF highest = 0 THEN 1 ELSE stamp[highest]

\* Variant: the clock of the payment after.
NextStampAhead == highest + 2

\* The clock, 50 ms after the last payment.
NextStamp == highest + 1

\* executeTransactions takes the next payment of the set.
SendNext ==
    LET i == highest + 1 IN
    /\ phase = "send"
    /\ i \in Payment /\ SetOf(i) = set
    /\ highest' = i
    /\ stamp' = [stamp EXCEPT ![i] = NextStamp]
    /\ pc' = [pc EXCEPT ![i] = "clear"]
    /\ UNCHANGED <<keys, main, switches, store, owed, waiting, early, count, result>>

\* It has no more, and main goes back to the menu.
SetDone ==
    /\ phase = "send"
    /\ ~(highest + 1 \in Payment /\ SetOf(highest + 1) = set)
    /\ phase' = "menu"
    /\ UNCHANGED <<keys, set, left, switches, payments>>

-----------------------------------------------------------------------------
(* sendTransaction of payment i.                                           *)

\* The top of its loop.
ClearCounts(i) ==
    /\ pc[i] = "clear"
    /\ count' = [count EXCEPT ![stamp[i]] = [yes |-> 0, no |-> 0]]
    /\ pc' = [pc EXCEPT ![i] = "call"]
    /\ UNCHANGED <<keys, main, switches, highest, stamp, store, owed, waiting, early, result>>

\* getSignedClientReq: the request that server n verifies is signed by the gateway.
SignedRequest(n) == Verifies(n, Client)

\* ExecuteTransaction goes ahead at the leader: it is live and verifies the request.
Takes(n) == Up(n) /\ live[n] /\ SignedRequest(n)

\* The servers that vote as they should.
Voters == {n \in Server : Up(n) /\ live[n] /\ ~byz[n]}

\* The servers that come to execute payment i by a call: all that decide it, but for
\* a payment inside one cluster those whose executor is at its slot or behind it.  A
\* payment that runPBFT refuses is decided by nobody.
Executing(i) ==
    IF ~Takes(LeaderFor(i)) \/ Row[i].fate = "refused" \/ Cardinality(Voters) < Quorum THEN {}
    ELSE {n \in Voters : Row[i].cross \/ n \notin store[i]}

\* Variant: the counts are cleared after the call.
CallThenClear(i) ==
    /\ pc[i] \in {"call", "wait"}
    /\ count' = [count EXCEPT ![stamp[i]] = [yes |-> 0, no |-> 0]]
    /\ store' = [store EXCEPT ![i] = IF pc[i] = "call" THEN @ \cup Executing(i) ELSE @]
    /\ owed' = [owed EXCEPT ![i] = IF pc[i] = "call" THEN @ \cup Executing(i) ELSE @]
    /\ pc' = [pc EXCEPT ![i] = "wait"]
    /\ UNCHANGED <<keys, main, switches, highest, stamp, waiting, early, result>>

\* The call of the leader that ViewMap names, which is that of view 1 for ever.
Call(i) ==
    /\ pc[i] = "call"
    /\ store' = [store EXCEPT ![i] = @ \cup Executing(i)]
    /\ owed' = [owed EXCEPT ![i] = @ \cup Executing(i)]
    /\ pc' = [pc EXCEPT ![i] = "wait"]
    /\ UNCHANGED <<keys, main, switches, highest, stamp, waiting, early, count, result>>

\* replyToClient: what server n says of payment i.
ReplyOf(n, i) == [stamp |-> stamp[i], result |-> Truth(i), from |-> n]

\* Server n has executed payment i and replies; Reply drops what it cannot verify.
Reply(n, i) ==
    /\ n \in owed[i]
    /\ owed' = [owed EXCEPT ![i] = @ \ {n}]
    /\ waiting' = IF Verifies(Client, n)
                  THEN waiting \cup {ReplyOf(n, i)}
                  ELSE waiting
    /\ UNCHANGED <<keys, main, switches, highest, stamp, pc, store, early, count, result>>

Counted(c, r) ==
    IF r THEN [c EXCEPT !.yes = Min({@ + 1, F + 1})] ELSE [c EXCEPT !.no = Min({@ + 1, F + 1})]

\* readReplies takes the reply of one handler.
readReplies == \E m \in waiting :
    /\ waiting' = waiting \ {m}
    /\ count' = [count EXCEPT ![m.stamp] = Counted(@, m.result)]
    /\ UNCHANGED <<keys, main, switches, highest, stamp, pc, store, owed, early, result>>

\* F+1 equal replies are counted, and success is looked at first.
Enough(i) == count[stamp[i]].yes > F \/ count[stamp[i]].no > F

\* storeLatency is given result r.
Stored(i, r) == [result EXCEPT ![i] = @ \cup {r}]

Finish(i) ==
    /\ pc[i] = "wait" /\ Enough(i)
    /\ result' = Stored(i, count[stamp[i]].yes > F)
    /\ pc' = [pc EXCEPT ![i] = "done"]
    /\ UNCHANGED <<keys, main, switches, highest, stamp, store, owed, waiting, early, count>>

\* The second is over: in general the servers have replied by then and that is read,
\* but now and then it is too short.
Timeout(i) ==
    /\ pc[i] = "wait" /\ ~Enough(i)
    /\ IF owed[i] = {} /\ \A m \in waiting : m.stamp # stamp[i]
       THEN UNCHANGED early
       ELSE early < MaxEarly /\ early' = early + 1
    /\ pc' = [pc EXCEPT ![i] = "clear"]
    /\ UNCHANGED <<keys, main, switches, highest, stamp, store, owed, waiting, count, result>>

sendTransaction(i) == ClearCounts(i) \/ Call(i) \/ Finish(i) \/ Timeout(i)

-----------------------------------------------------------------------------

Main == CallServer \/ NextPhase \/ SendNext \/ SetDone

Next ==
    \/ \E p \in Process : StartProcess(p) \/ ExchangeKeys(p)
    \/ NextSet \/ Main \/ readReplies
    \/ \E i \in Payment : sendTransaction(i) \/ \E n \in Server : Reply(n, i)

Spec == Init /\ [][Next]_vars

\* Goroutines run and a server that executes replies; the operator of the menu and
\* of the processes is free.
Fairness ==
    /\ WF_vars(Main) /\ WF_vars(readReplies)
    /\ \A p \in Process : WF_vars(ExchangeKeys(p))
    /\ \A i \in Payment : WF_vars(sendTransaction(i)) /\ \A n \in Server : WF_vars(Reply(n, i))

FairSpec == Spec /\ Fairness

-----------------------------------------------------------------------------
(* Properties.                                                             *)

\* The result that is stored for a payment is the one the servers came to, though
\* replies are counted by their timestamp alone and late ones count for a new call.
ResultIsTruth == \A i \in Payment : result[i] \subseteq {Truth(i)}

\* sendTransaction of payment i is under way.
Sending(i) == pc[i] \notin {"no", "done"}

\* The leader takes calls, a quorum votes, and the gateway can verify the replies of F+1
\* servers of it.
Served(i) ==
    /\ Takes(LeaderFor(i)) /\ Cardinality(Voters) >= Quorum
    /\ Cardinality({n \in Voters : Verifies(Client, n)}) > F

\* A payment that the servers do not refuse is answered in the end, if that is so as long
\* as it is under way and no timer fires too early: the replies to a call count, though
\* sendTransaction clears the counts and nobody executes a payment twice.
PaymentsAnswered ==
    \A i \in Payment :
        (Row[i].fate # "refused" /\ [](early = 0 /\ (Sending(i) => Served(i))))
            => (Sending(i) ~> pc[i] = "done")
=============================================================================
