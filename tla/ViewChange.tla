------------------------------- MODULE ViewChange -------------------------------
(***************************************************************************)
(* How a cluster leaves a view: the timer, the ViewChange and NewView      *)
(* messages, and what a change of view does to requests that are being     *)
(* ordered at the same time.                                               *)
(*                                                                         *)
(* The ordering of requests is the one of PbftCluster at a coarser grain:  *)
(* every request is run once, is named by the view and the slot it was     *)
(* ordered in, and no account is locked.  The timer of a server starts     *)
(* with the first request it sees and nothing that is executed stops it.   *)
(*                                                                         *)
(* NewView is sent by the leader of the view that is being left, and a     *)
(* server takes it only from the leader of the view it is still in.        *)
(***************************************************************************)
EXTENDS Integers, FiniteSets, FiniteSetsExt

CONSTANTS
    Node,       \* the servers of the cluster
    Member,     \* Member[i]: the i-th server of the cluster, i = 1..Cardinality(Node)
    F,          \* config.F
    Down,       \* servers that are not live at the start
    Flaky,      \* servers whose Live flag the operator may flip
    Byz,        \* Byzantine servers
    Patient,    \* bound: servers whose timer does not fire
    MaxView,    \* bound: views
    MaxSlot,    \* bound: sequence numbers
    MaxCalls,   \* bound: ExecuteTransaction calls of the gateway
    MaxFlips    \* bound: flag flips

View == 1..MaxView
Slot == 1..MaxSlot

ASSUME ViewAssumption ==
    /\ IsFiniteSet(Node)
    /\ Member \in [1..Cardinality(Node) -> Node]
    /\ Cardinality(Node) > 0
    /\ F \in Nat
    /\ Down \subseteq Node /\ Flaky \subseteq Node /\ Byz \subseteq Node /\ Patient \subseteq Node
    /\ MaxView \in Nat \ {0} /\ MaxSlot \in Nat
    /\ MaxCalls \in Nat /\ MaxFlips \in Nat

VARIABLES
    live,      \* node.Live
    flips,     \* flag flips so far (bound)
    calls,     \* ExecuteTransaction calls so far (bound)
    view,      \* node.View
    changing,  \* node.ViewChanging
    newNum,    \* node.NewViewNum
    timer,     \* "off", "on" (started), "spent" (started, its expiry taken)
    vcs,       \* ViewChangeCerts
    sent,      \* NewViewsSent
    seq,       \* node.Seq
    exec,      \* ExecutorSeq
    log,       \* TransactionLog and PrePrepares: view and state, view 0 if none
    store,     \* Datastore: the view whose request was decided in a slot, or 0
    ran,       \* how often a slot of the Datastore was executed (history)
    pc,        \* pc[v][s]: the run of the request of view v and slot s
    job,       \* job[n][v][s]: n's goroutine for that run
    net,       \* messages on their way
    todo       \* sendNewView goroutines that have been started and not yet run

flags    == <<live, flips, calls>>
change   == <<view, changing, newNum, timer, vcs, sent>>
ordering == <<seq, exec, log, store, ran, pc, job>>
vars     == <<flags, change, ordering, net, todo>>

PrePrepared == 1
Prepared    == 2
Committed   == 3

\* Variant: a state that is not in config.States.
ExecutedUnlisted == 4

Executed == 5

\* The votes of other servers that prepare a request, and the commits that decide
\* it: the leader sends a commit to itself.
PrepareQuorum == 2 * F
CommitQuorum  == 2 * F + 1

RunPc == {"none", "prepares", "commits", "decided", "notPrepared", "notCommitted"}
JobPc == {"none", "prepWait", "commWait", "end", "refused"}

\* A view-change certificate: who, to which view, the highest slot that was
\* prepared there (0 if none), and which of the sender's own for that view.
Cert == [from : Node, view : View, top : 0..MaxSlot, nth : Nat \ {0}]

Msg == [type : {"call"}, to : Node, call : 1..MaxCalls]
         \cup [type : {"preprepare"}, to : Node, view : View, slot : Slot]
         \cup [type : {"viewchange"}, to : Node, cert : Cert]
         \cup [type : {"newview"}, to : Node, from : Node, view : View, top : 0..MaxSlot]

\* A sendNewView that has been started, with what its certificates say.
Job == [node : Node, view : View, top : 0..MaxSlot]

TypeOK ==
    /\ live \in [Node -> BOOLEAN]
    /\ flips \in 0..MaxFlips
    /\ calls \in 0..MaxCalls
    /\ view \in [Node -> View]
    /\ changing \in [Node -> BOOLEAN]
    /\ newNum \in [Node -> 0..MaxView]
    /\ timer \in [Node -> {"off", "on", "spent"}]
    /\ vcs \in [Node -> SUBSET Cert]
    /\ sent \in [Node -> SUBSET View]
    /\ seq \in [Node -> 1..(MaxSlot + 1)]
    /\ exec \in [Node -> 1..(MaxSlot + 1)]
    /\ log \in [Node -> [Slot -> [view : 0..MaxView, state : {0, 1, 2, 3, 5}]]]
    /\ store \in [Node -> [Slot -> 0..MaxView]]
    /\ ran \in [Node -> [Slot -> Nat]]
    /\ pc \in [View -> [Slot -> RunPc]]
    /\ job \in [Node -> [View -> [Slot -> JobPc]]]
    /\ net \subseteq Msg
    /\ todo \subseteq Job

Init ==
    /\ live = [n \in Node |-> n \notin Down]
    /\ flips = 0
    /\ calls = 0
    /\ view = [n \in Node |-> 1]
    /\ changing = [n \in Node |-> FALSE]
    /\ newNum = [n \in Node |-> 0]
    /\ timer = [n \in Node |-> "off"]
    /\ vcs = [n \in Node |-> {}]
    /\ sent = [n \in Node |-> {}]
    /\ seq = [n \in Node |-> 1]
    /\ exec = [n \in Node |-> 1]
    /\ log = [n \in Node |-> [s \in Slot |-> [view |-> 0, state |-> 0]]]
    /\ store = [n \in Node |-> [s \in Slot |-> 0]]
    /\ ran = [n \in Node |-> [s \in Slot |-> 0]]
    /\ pc = [v \in View |-> [s \in Slot |-> "none"]]
    /\ job = [n \in Node |-> [v \in View |-> [s \in Slot |-> "none"]]]
    /\ net = {}
    /\ todo = {}

-----------------------------------------------------------------------------

\* node.getViewLeader
getViewLeader(v) == Member[((v - 1) % Cardinality(Node)) + 1]

LeaderOf(n) == getViewLeader(view[n])

Others(n) == Node \ {n}

\* Timer.StartIfNotRunning and Timer.Stop at server n.
StartIfNotRunning(n) == [timer EXCEPT ![n] = IF @ = "off" THEN "on" ELSE @]
Stopped(n) == [timer EXCEPT ![n] = "off"]

\* updateLog at server n: never lowered.
Raised(n, s, state) ==
    [log EXCEPT ![n][s].state = IF @ < state THEN state ELSE @]

\* The request of view v holds slot s in n's log.
Holds(n, v, s) == log[n][s].view = v

-----------------------------------------------------------------------------
(* Requests.                                                               *)

\* The ExecuteTransaction handler of server n with a new request.  A leader runs
\* it; another server forwards it with the context of the call, which ends when
\* the handler returns: the forwarded call may be lost (Lose).
Handle(n, k, rest) ==
    LET s == seq[n]
        v == view[n]
    IN
    IF ~live[n]
    THEN net' = rest /\ UNCHANGED <<timer, ordering>>
    ELSE /\ timer' = StartIfNotRunning(n)
         /\ IF changing[n]
            THEN net' = rest /\ UNCHANGED ordering
            ELSE IF LeaderOf(n) # n
            THEN net' = rest \cup {[type |-> "call", to |-> LeaderOf(n), call |-> k]} /\ UNCHANGED ordering
            ELSE /\ s \in Slot /\ pc[v][s] = "none"
                 /\ seq' = [seq EXCEPT ![n] = s + 1]
                 /\ log' = [log EXCEPT ![n][s] = [view |-> v, state |-> PrePrepared]]
                 /\ pc' = [pc EXCEPT ![v][s] = "prepares"]
                 /\ net' = rest \cup [type : {"preprepare"}, to : Others(n), view : {v}, slot : {s}]
                 /\ UNCHANGED <<exec, store, ran, job>>

\* The gateway keeps the leader of view 1 as the one to call: nothing ever
\* updates its ViewMap.
ExecuteTransaction ==
    /\ calls < MaxCalls
    /\ calls' = calls + 1
    /\ Handle(getViewLeader(1), calls + 1, net)
    /\ UNCHANGED <<live, flips, view, changing, newNum, vcs, sent, todo>>

\* A forwarded call arrives.
Forwarded(m) ==
    /\ m.type = "call"
    /\ Handle(m.to, m.call, net \ {m})
    /\ UNCHANGED <<flags, view, changing, newNum, vcs, sent, todo>>

\* A forwarded call is lost: the handler that forwarded it has returned.
Lose(m) ==
    /\ m.type = "call"
    /\ net' = net \ {m}
    /\ UNCHANGED <<flags, change, ordering, todo>>

\* The Prepare and Commit handlers of server l take votes.
Serves(l) == live[l] /\ ~changing[l]

\* What n's goroutine for the request of view v and slot s does next.
Goes(n, v, s, at) == job' = [job EXCEPT ![n][v][s] = at]

\* Variant: a server takes pre-prepares of any view.
AcceptsAnyView(n, v, s) == live[n] /\ (s = 1 \/ log[n][s - 1].view # 0)

\* What PrePrepare checks once the server is not changing view.
Accepts(n, v, s) ==
    /\ live[n]
    /\ view[n] = v
    /\ s = 1 \/ log[n][s - 1].view # 0

\* PrePrepare at a backup, and its Prepare call at the leader it knows: the vote
\* waits there for the certificates, or it is refused.  A Byzantine backup votes
\* for another digest, which no collector counts.
PrePrepare(m) ==
    LET n == m.to
        v == m.view
        s == m.slot
        l == getViewLeader(v)
    IN
    /\ m.type = "preprepare"
    /\ net' = net \ {m}
    /\ IF changing[n]
       THEN timer' = StartIfNotRunning(n) /\ UNCHANGED <<log, job>>
       ELSE IF ~Accepts(n, v, s)
       THEN UNCHANGED <<timer, log, job>>
       ELSE /\ timer' = StartIfNotRunning(n)
            /\ log' = [log EXCEPT ![n][s] = [view |-> v, state |-> PrePrepared]]
            /\ Goes(n, v, s, IF /\ {n, l} \cap Byz = {}
                                /\ Serves(l) /\ Holds(l, v, s) /\ pc[v][s] = "prepares"
                             THEN "prepWait" ELSE "refused")
    /\ UNCHANGED <<flags, view, changing, newNum, vcs, sent, seq, exec, store, ran, pc, todo>>

Voters(v, s, at) == {n \in Node : job[n][v][s] = at}

\* collectPrepares ends and validatePrepares decides; sendCommitToSelf calls Commit.
\* Nothing here looks at ViewChanging or View.
FinishPrepares(v, s) ==
    LET l == getViewLeader(v) IN
    /\ pc[v][s] = "prepares"
    /\ IF Holds(l, v, s) /\ Cardinality(Voters(v, s, "prepWait")) >= PrepareQuorum
       THEN /\ log' = IF l \in Byz THEN log ELSE Raised(l, s, Prepared)
            /\ pc' = [pc EXCEPT ![v][s] = "commits"]
            /\ Goes(l, v, s, IF Serves(l) THEN "commWait" ELSE "refused")
       ELSE /\ pc' = [pc EXCEPT ![v][s] = "notPrepared"]
            /\ UNCHANGED <<log, job>>
    /\ UNCHANGED <<flags, change, seq, exec, store, ran, net, todo>>

\* Prepare answers, with the certificates or without, and server n calls Commit at
\* the leader of the view it is in by now.
PrepareDone(n, v, s) ==
    LET l == LeaderOf(n) IN
    /\ job[n][v][s] = "prepWait"
    /\ pc[v][s] # "prepares"
    /\ IF pc[v][s] # "notPrepared" /\ Holds(n, v, s)
       THEN /\ log' = Raised(n, s, Prepared)
            /\ Goes(n, v, s, IF /\ l = getViewLeader(v) /\ Serves(l)
                                /\ Holds(l, v, s) /\ pc[v][s] = "commits"
                             THEN "commWait" ELSE "refused")
       ELSE Goes(n, v, s, "refused") /\ UNCHANGED log
    /\ UNCHANGED <<flags, change, seq, exec, store, ran, pc, net, todo>>

\* validateCommits at server n finds a full certificate.
SaveCommit(n, v, s) ==
    /\ log' = Raised(n, s, Committed)
    /\ store' = [store EXCEPT ![n][s] = v]

\* collectCommits ends and validateCommits decides at the leader.
FinishCommits(v, s) ==
    LET l == getViewLeader(v) IN
    /\ pc[v][s] = "commits"
    /\ IF /\ Holds(l, v, s) /\ log[l][s].state >= Prepared
          /\ Cardinality(Voters(v, s, "commWait")) >= CommitQuorum
       THEN SaveCommit(l, v, s) /\ pc' = [pc EXCEPT ![v][s] = "decided"]
       ELSE pc' = [pc EXCEPT ![v][s] = "notCommitted"] /\ UNCHANGED <<log, store>>
    /\ UNCHANGED <<flags, change, seq, exec, ran, job, net, todo>>

\* Commit answers, and server n records the decision.
CommitDone(n, v, s) ==
    /\ job[n][v][s] = "commWait"
    /\ pc[v][s] # "commits"
    /\ Goes(n, v, s, "end")
    /\ IF n # getViewLeader(v) /\ pc[v][s] = "decided" /\ Holds(n, v, s) /\ log[n][s].state >= Prepared
       THEN SaveCommit(n, v, s)
       ELSE UNCHANGED <<log, store>>
    /\ UNCHANGED <<flags, change, seq, exec, ran, pc, net, todo>>

\* The executor of server n takes the next slot of its Datastore.
Execute(n) ==
    LET s == exec[n] IN
    /\ s \in Slot /\ store[n][s] # 0
    /\ exec' = [exec EXCEPT ![n] = s + 1]
    /\ ran' = [ran EXCEPT ![n][s] = @ + 1]
    /\ log' = Raised(n, s, Executed)
    /\ UNCHANGED <<flags, change, seq, store, pc, job, net, todo>>

-----------------------------------------------------------------------------
(* Leaving a view.                                                         *)

CertsFor(certs, v) == {c \in certs : c.view = v}

\* The highest slot of server n's log that is at least prepared.
TopPrepared(n) == Max({0} \cup {s \in Slot : log[n][s].state >= Prepared})

OwnCert(n, v) ==
    [from |-> n, view |-> v, top |-> TopPrepared(n),
     nth |-> 1 + Cardinality({c \in CertsFor(vcs[n], v) : c.from = n})]

\* sendViewChange goes ahead: the server is live, the view is new and the server
\* has not asked for it, or for a later one, yet.
Asks(n, v) == live[n] /\ v > view[n] /\ ~(changing[n] /\ newNum[n] >= v)

\* sendViewChange(v) at server n, whose certificates are by now certs.
sendViewChange(n, v, certs, rest) ==
    IF Asks(n, v)
    THEN /\ timer' = Stopped(n)
         /\ changing' = [changing EXCEPT ![n] = TRUE]
         /\ newNum' = [newNum EXCEPT ![n] = v]
         /\ net' = rest \cup [type : {"viewchange"}, to : Others(n), cert : {OwnCert(n, v)}]
         /\ vcs' = [vcs EXCEPT ![n] = certs \cup {OwnCert(n, v)}]
    ELSE /\ net' = rest
         /\ vcs' = [vcs EXCEPT ![n] = certs]
         /\ UNCHANGED <<timer, changing, newNum>>

\* The timer of server n fires.  If sendViewChange does not go ahead the timer
\* stays started, and does not fire again until somebody stops it.
Expire(n) ==
    LET v == IF changing[n] THEN newNum[n] + 1 ELSE view[n] + 1 IN
    /\ timer[n] = "on" /\ n \notin Patient
    /\ v \in View
    /\ IF Asks(n, v)
       THEN sendViewChange(n, v, vcs[n], net)
       ELSE /\ timer' = [timer EXCEPT ![n] = "spent"]
            /\ UNCHANGED <<changing, newNum, net, vcs>>
    /\ UNCHANGED <<flags, view, sent, ordering, todo>>

\* Variant: a server waits for more than F+1 others.
JoinsLate(have) == Cardinality(have) = F + 2

\* The number of certificates that makes a server join, at their arrival only.
Joins(have) == Cardinality(have) = F + 1

\* Variant: a majority of votes changes the view.
ViewQuorumLess == F + 1

\* The certificates that make a new view.
ViewQuorum == 2 * F + 1

\* Variant: the slots that every certificate has.
TopOfAll(have) == Min({c.top : c \in have})

\* Where the next view goes on: after the highest prepared slot of a certificate.
TopOf(have) == Max({c.top : c \in have})

\* The ViewChange handler: no Live check.  The server joins when it has F+1
\* certificates, and the leader of its view starts sendNewView with what it had
\* before it joined.
ViewChange(m) ==
    LET n     == m.to
        v     == m.cert.view
        certs == vcs[n] \cup {m.cert}
        have  == CertsFor(certs, v)
        rest  == net \ {m}
    IN
    /\ m.type = "viewchange"
    /\ IF v > view[n] /\ Joins(have)
       THEN sendViewChange(n, v, certs, rest)
       ELSE /\ vcs' = [vcs EXCEPT ![n] = certs]
            /\ net' = rest
            /\ UNCHANGED <<timer, changing, newNum>>
    /\ todo' = IF v > view[n] /\ Cardinality(have) >= ViewQuorum /\ LeaderOf(n) = n
               THEN todo \cup {[node |-> n, view |-> v, top |-> TopOf(have)]}
               ELSE todo
    /\ UNCHANGED <<flags, view, sent, ordering>>

\* What a server does that enters view v after slot top: ordering goes on at the
\* next slot, and the executor starts again after the last stable checkpoint,
\* which is always 0.
Enter(n, v, top) ==
    /\ view' = [view EXCEPT ![n] = v]
    /\ changing' = [changing EXCEPT ![n] = FALSE]
    /\ timer' = Stopped(n)
    /\ seq' = [seq EXCEPT ![n] = top + 1]
    /\ exec' = [exec EXCEPT ![n] = 1]

\* sendNewView: once for a view, and without looking at the view the server has
\* come to meanwhile.
SendNewView(j) ==
    LET n == j.node IN
    /\ todo' = todo \ {j}
    /\ IF live[n] /\ n \notin Byz /\ j.view \notin sent[n]
       THEN /\ Enter(n, j.view, j.top)
            /\ sent' = [sent EXCEPT ![n] = @ \cup {j.view}]
            /\ net' = net \cup [type : {"newview"}, to : Others(n), from : {n},
                                view : {j.view}, top : {j.top}]
       ELSE UNCHANGED <<view, changing, timer, seq, exec, sent, net>>
    /\ UNCHANGED <<flags, newNum, vcs, log, store, ran, pc, job>>

\* The NewView handler: no Live check; the signature must be that of the leader of
\* the view the receiver is in.
NewView(m) ==
    LET n == m.to IN
    /\ m.type = "newview"
    /\ net' = net \ {m}
    /\ IF m.from = LeaderOf(n)
       THEN Enter(n, m.view, m.top)
       ELSE timer' = Stopped(n) /\ UNCHANGED <<view, changing, seq, exec>>
    /\ UNCHANGED <<flags, newNum, vcs, sent, log, store, ran, pc, job, todo>>

\* The operator's switch.
SetStatus(n) ==
    /\ n \in Flaky /\ flips < MaxFlips
    /\ flips' = flips + 1
    /\ live' = [live EXCEPT ![n] = ~@]
    /\ UNCHANGED <<calls, change, ordering, net, todo>>

-----------------------------------------------------------------------------

Receive(n) == \E m \in net :
    /\ m.to = n
    /\ Forwarded(m) \/ PrePrepare(m) \/ ViewChange(m) \/ NewView(m)

LoseForwarded == \E m \in net : Lose(m)

Work(n) == \E j \in todo : j.node = n /\ SendNewView(j)

Order == \E v \in View, s \in Slot :
    \/ FinishPrepares(v, s) \/ FinishCommits(v, s)
    \/ \E n \in Node : PrepareDone(n, v, s) \/ CommitDone(n, v, s)

Next ==
    \/ ExecuteTransaction \/ LoseForwarded \/ Order
    \/ \E n \in Node : Receive(n) \/ Work(n) \/ Execute(n) \/ Expire(n) \/ SetStatus(n)

Spec == Init /\ [][Next]_vars

\* Messages arrive, goroutines run and a started timer fires; the gateway may stop
\* calling and the operator is free.
Fairness == /\ WF_vars(Order)
            /\ \A n \in Node : WF_vars(Receive(n)) /\ WF_vars(Work(n)) /\ WF_vars(Expire(n))

FairSpec == Spec /\ Fairness

-----------------------------------------------------------------------------
(* Properties.                                                             *)

\* A server has entered the next view only if 2F+1 different servers asked for it.
\* ViewChange and validateViewChangeCerts count certificates, so this needs every
\* server to ask once: it holds for the first change of view.
ViewByQuorum ==
    \A n \in Node : view[n] > 1 =>
        Cardinality({m \in Node : \E c \in vcs[m] : c.from = m /\ c.view = view[n]}) > 2 * F

\* Servers that have decided a slot have decided the same request, views or not.
AgreementAcrossViews ==
    \A n, m \in Node, s \in Slot :
        (store[n][s] # 0 /\ store[m][s] # 0) => store[n][s] = store[m][s]

\* What the leader of a view had prepared when it asked for the next one keeps its
\* slot: whoever has entered that view goes on behind it.
PreparedSurvives ==
    \A n \in Node : \A c \in vcs[getViewLeader(view[n] - 1)] :
        (view[n] > 1 /\ c.view = view[n] /\ c.from = getViewLeader(view[n] - 1)) => seq[n] > c.top

\* A decided slot is known to 2F+1 servers, from its view or from a later one.
DecidedByQuorum ==
    \A n \in Node, s \in Slot : store[n][s] # 0 =>
        Cardinality({m \in Node : log[m][s].view >= store[n][s]}) > 2 * F

\* A server that has logged a slot for one view never takes it back for an older one.
SlotsMoveForward ==
    [][\A n \in Node, s \in Slot : log'[n][s].view >= log[n][s].view]_vars

\* A server has asked for view v or a later one, or has entered one.
Moved(n, v) == newNum[n] >= v \/ view[n] >= v

\* When F+1 servers have asked for a view, all servers that stay live follow:
\* ViewChange joins at exactly F+1 certificates, once.
JoinsFollow ==
    \A v \in View \ {1} :
        Cardinality({n \in Node : newNum[n] = v}) > F ~> \A n \in Node \ (Down \cup Flaky) : Moved(n, v)

\* A slot is executed once.
ExecutesOnce == \A n \in Node, s \in Slot : ran[n][s] <= 1
=============================================================================
