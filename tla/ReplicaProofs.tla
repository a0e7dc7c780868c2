----------------------------- MODULE ReplicaProofs -----------------------------
(***************************************************************************)
(* The servers of a cluster execute, in order, what they have stored of    *)
(* their leader's log.  For a cluster that serves requests of its own this *)
(* makes the replicated log of ReplicatedLog, the same balances wherever   *)
(* the same slots are executed, answers that stand for F + 1 executions,   *)
(* and locks that keep every account above zero.                           *)
(***************************************************************************)
EXTENDS OneSlotProofs, SumProofs

-----------------------------------------------------------------------------
(* A cluster that serves only requests of its own.                         *)

IntraCluster == \A t \in Tx : IsIntra(t)

\* Its runs, logs and stores know no prepare, commit or abort.
Plain ==
    /\ \A r \in Run : run[r].status = ""
    /\ \A n \in Node, s \in Slot : log[n][s].status = "" /\ store[n][s].status = ""

\* The servers that have executed the slot of t.
Doers(t) == {n \in Node : \E s \in Slot : s < exec[n] /\ store[n][s].tx = t}

\* No more successful replies than servers that executed the request.
Counted == \A t \in Tx : acks[t]["success"] <= Cardinality(Doers(t))

\* What the slot of u adds to account a.
Effect(u, a) == IF u = NoTx THEN 0 ELSE Net(u, a)

\* The balances of every server are those of the log, replayed up to its executor: h[k]
\* are the balances before slot k.
History(h) ==
    /\ h \in [1..(MaxSlot + 1) -> [Shard -> Int]]
    /\ h[1] = [a \in Shard |-> InitialBalance]
    /\ \A k \in Slot : k < seq =>
         \A a \in Shard : h[k + 1][a] = h[k][a] + Effect(log[Leader][k].tx, a)
    /\ \A n \in Node : bal[n] = h[exec[n]]

Replayed == \E h : History(h)

IntraInv == LogInv /\ OneRun /\ Logged /\ Plain /\ Counted /\ Replayed

\* A step that gives no slot and executes nothing; a request that is not answered yet
\* may be called again, which counts its replies anew.
Idles ==
    /\ UNCHANGED <<seq, exec, bal>>
    /\ \A t \in Tx :
         \/ acks'[t]["success"] = acks[t]["success"]
         \/ acks'[t]["success"] = 0 /\ acks[t]["success"] <= F
    /\ \A s \in Slot : log'[Leader][s].tx = log[Leader][s].tx

StoresSame == \A n \in Node, s \in Slot : store'[n][s].tx = store[n][s].tx

\* Server n stores the request of slot s.
Learns(n, s) ==
    /\ log[Leader][s].tx # NoTx
    /\ store'[n][s].tx = log[Leader][s].tx
    /\ \A m \in Node, u \in Slot : m # n \/ u # s => store'[m][u].tx = store[m][u].tx

\* Moving a run on leaves its status alone.
LEMMA MovedStatus ==
    ASSUME TypeOK, NEW r \in Run, NEW pc \in RunPc, run' = Moved(r, pc)
    PROVE  \A q \in Run : run'[q].status = run[q].status
<1>1. run[r] \in RunRec
  BY DEF TypeOK
<1> QED
  BY <1>1 DEF Moved, TypeOK, RunRec

\* Recording a decision stores, in one slot, what the log has there and the status of
\* the run.
LEMMA SaveCommitStores ==
    ASSUME TypeOK, NEW n \in Node, NEW s \in Slot, NEW t, NEW st, SaveCommit(n, s, t, st)
    PROVE  /\ \A m \in Node, u \in Slot : log'[m][u].status = log[m][u].status
           /\ \A m \in Node, u \in Slot :
                \/ store'[m][u] = store[m][u]
                \/ m = n /\ u = s /\ store'[m][u].tx = log[n][s].tx /\ store'[m][u].status = st
<1>1. CASE byz[n]
  BY <1>1 DEF SaveCommit
<1>2. CASE ~byz[n]
  <2>1. \A m \in Node, u \in Slot : log'[m][u].status = log[m][u].status
    BY <1>2, RaisedStatus DEF SaveCommit, Committed
  <2>2. store' = [store EXCEPT ![n][s] = [tx |-> log[n][s].tx, status |-> st]]
    BY <1>2 DEF SaveCommit
  <2> QED
    BY <2>1, <2>2 DEF TypeOK
<1> QED
  BY <1>1, <1>2

\* What a server has logged is the leader's: recording it is learning it.
LEMMA SaveCommitLearns ==
    ASSUME LogInv, NEW n \in Node, NEW s \in Slot, NEW t, NEW st, SaveCommit(n, s, t, st),
           log[n][s].tx # NoTx
    PROVE  StoresSame \/ Learns(n, s)
<1>1. log[Leader][s].tx = log[n][s].tx
  BY DEF LogInv, SlotInv, LeaderDecides
<1>2. \A m \in Node, u \in Slot :
         \/ store'[m][u] = store[m][u]
         \/ m = n /\ u = s /\ store'[m][u].tx = log[n][s].tx /\ store'[m][u].status = st
  BY SaveCommitStores DEF LogInv, SlotInv
<1>3. CASE store'[n][s].tx = log[n][s].tx
  BY <1>1, <1>2, <1>3 DEF Learns
<1>4. CASE store'[n][s].tx # log[n][s].tx
  BY <1>2, <1>4 DEF StoresSame
<1> QED
  BY <1>3, <1>4

\* A step that keeps the clients' counts and every log, executes nothing, and stores
\* at most one more request.
Serves ==
    /\ Idles
    /\ StoresSame \/ \E n \in Node, s \in Slot : Learns(n, s)

LEMMA QuietIdles ==
    ASSUME SlotInv, Quiet, UNCHANGED <<exec, bal, acks>>
    PROVE  Idles
  BY ClusterAssumption DEF Quiet, Idles

LEMMA FinishPreparesServes ==
    ASSUME LogInv, Plain, NEW r \in Run, FinishPrepares(r)
    PROVE  Plain' /\ Serves
<1>1. run[r].slot \in Slot /\ Leader \in Node /\ "failed" \in RunPc /\ "commits" \in RunPc
  BY RunFacts, ClusterAssumption DEF LogInv, SlotInv, FinishPrepares, RunPc
<1>2. \A n \in Node, s \in Slot : log'[n][s].status = log[n][s].status
  BY <1>1, RaisedStatus DEF LogInv, SlotInv, FinishPrepares, Prepared
<1>3. \A q \in Run : run'[q].status = run[q].status
  BY <1>1, MovedStatus DEF LogInv, SlotInv, FinishPrepares
<1>4. UNCHANGED <<store, exec, bal, acks>>
  BY DEF FinishPrepares, client
<1>5. Plain'
  BY <1>2, <1>3, <1>4 DEF Plain
<1>6. Idles /\ StoresSame
  BY <1>4, FinishPreparesQuiet, QuietIdles DEF LogInv, StoresSame
<1> QED
  BY <1>5, <1>6 DEF Serves

LEMMA FinishCommitsServes ==
    ASSUME LogInv, Plain, NEW r \in Run, FinishCommits(r)
    PROVE  Plain' /\ Serves
<1> DEFINE s == run[r].slot
<1>1. s \in Slot /\ Leader \in Node /\ {"failed", "ok"} \subseteq RunPc /\ run[r].tx \in Tx /\ NoTx \notin Tx
  BY RunFacts, ClusterAssumption DEF LogInv, SlotInv, FinishCommits, RunPc
<1>2. log[Leader][s].tx = run[r].tx
  BY <1>1 DEF LogInv, SlotInv, SlotsAssigned, Slot
<1>3. UNCHANGED <<log, store>> \/ SaveCommit(Leader, s, run[r].tx, run[r].status)
  BY DEF FinishCommits
<1>4. \A q \in Run : run'[q].status = run[q].status
  BY <1>1, MovedStatus DEF LogInv, SlotInv, FinishCommits
<1>5. Idles
  BY FinishCommitsQuiet, QuietIdles DEF LogInv, FinishCommits, client
<1> HIDE DEF s
<1>6. CASE UNCHANGED <<log, store>>
  BY <1>4, <1>5, <1>6 DEF Plain, Serves, StoresSame
<1>7. CASE SaveCommit(Leader, s, run[r].tx, run[r].status)
  <2>1. StoresSame \/ Learns(Leader, s)
    BY <1>1, <1>2, <1>7, SaveCommitLearns
  <2>2. run[r].status = ""
    BY <1>4 DEF Plain
  <2>3. ASSUME NEW m \in Node, NEW u \in Slot
        PROVE  log'[m][u].status = "" /\ store'[m][u].status = ""
    <3>1. log[m][u].status = "" /\ store[m][u].status = ""
      BY DEF Plain
    <3>2. /\ log'[m][u].status = log[m][u].status
          /\ \/ store'[m][u] = store[m][u]
             \/ store'[m][u].status = run[r].status
      BY <1>1, <1>7, SaveCommitStores DEF LogInv, SlotInv
    <3> QED
      BY <2>2, <3>1, <3>2
  <2>4. Plain'
    BY <1>4, <2>3 DEF Plain
  <2> QED
    BY <1>1, <1>5, <2>1, <2>4 DEF Serves
<1> QED
  BY <1>3, <1>6, <1>7

LEMMA CommitDoneServes ==
    ASSUME LogInv, Plain, NEW n \in Node, NEW r \in Run, CommitDone(n, r)
    PROVE  Plain' /\ Serves
<1> DEFINE s == run[r].slot
<1>1. s \in Slot /\ run[r].tx \in Tx /\ NoTx \notin Tx /\ Leader \in Node
  BY RunFacts, ClusterAssumption DEF LogInv, SlotInv, CommitDone
<1>2. log[n][s].tx = run[r].tx
  BY DEF LogInv, Voted, CommitDone, Early
<1>3. UNCHANGED <<log, store>> \/ SaveCommit(n, s, run[r].tx, PPStatus(r))
  BY DEF CommitDone
<1>4. run' = run /\ PPStatus(r) = ""
  BY <1>1 DEF CommitDone, PPStatus, Plain
<1>5. Idles
  BY CommitDoneQuiet, QuietIdles DEF LogInv, CommitDone, client
<1> HIDE DEF s
<1>6. CASE UNCHANGED <<log, store>>
  BY <1>4, <1>5, <1>6 DEF Plain, Serves, StoresSame
<1>7. CASE SaveCommit(n, s, run[r].tx, PPStatus(r))
  <2>1. StoresSame \/ Learns(n, s)
    BY <1>1, <1>2, <1>7, SaveCommitLearns
  <2>2. PPStatus(r) = ""
    BY <1>4 DEF Plain
  <2>3. ASSUME NEW m \in Node, NEW u \in Slot
        PROVE  log'[m][u].status = "" /\ store'[m][u].status = ""
    <3>1. log[m][u].status = "" /\ store[m][u].status = ""
      BY DEF Plain
    <3>2. /\ log'[m][u].status = log[m][u].status
          /\ \/ store'[m][u] = store[m][u]
             \/ store'[m][u].status = PPStatus(r)
      BY <1>1, <1>7, SaveCommitStores DEF LogInv, SlotInv
    <3> QED
      BY <2>2, <3>1, <3>2
  <2>4. Plain'
    BY <1>4, <2>3 DEF Plain
  <2> QED
    BY <1>1, <1>5, <2>1, <2>4 DEF Serves
<1> QED
  BY <1>3, <1>6, <1>7

LEMMA PrePrepareLockedServes ==
    ASSUME LogInv, Plain, NEW n \in Node, NEW r \in Run, PrePrepareLocked(n, r)
    PROVE  Plain' /\ Serves
<1> DEFINE s == run[r].slot
           e == [tx |-> run[r].tx, status |-> PPStatus(r), state |-> PrePrepared]
<1>1. s \in Slot /\ Leader \in Node
  BY RunFacts, ClusterAssumption DEF LogInv, SlotInv, PrePrepareLocked
<1>2. log[Leader][s].tx = run[r].tx /\ PPStatus(r) = ""
  <2>1. log[Leader][s].tx = run[r].tx
    BY <1>1 DEF LogInv, SlotInv, SlotsAssigned, Slot
  <2>2. PPStatus(r) = ""
    BY <1>1 DEF PPStatus, Plain
  <2> QED
    BY <2>1, <2>2
<1>3. /\ log'[n][s] = e
      /\ \A m \in Node, u \in Slot : m # n \/ u # s => log'[m][u] = log[m][u]
  BY <1>1 DEF LogInv, SlotInv, PrePrepareLocked, TypeOK
<1>4. UNCHANGED <<seq, run, store, exec, bal, acks>>
  BY DEF PrePrepareLocked, client
<1>5. e.tx = run[r].tx /\ e.status = PPStatus(r)
  OBVIOUS
<1> HIDE DEF s, e
<1>6. Plain'
  BY <1>2, <1>3, <1>4, <1>5 DEF Plain
<1>7. Idles /\ StoresSame
  BY <1>1, <1>2, <1>3, <1>4, <1>5 DEF Idles, StoresSame
<1> QED
  BY <1>6, <1>7 DEF Serves

\* A run that is given the status of the requests of one cluster.
LEMMA ExecuteTransactionServes ==
    ASSUME LogInv, Plain, IntraCluster, NEW t \in Tx, ExecuteTransaction(t)
    PROVE  Plain' /\ Serves
<1>1. \A q \in Run : run'[q].status = ""
  <2>1. CASE ~live[Leader]
    BY <2>1 DEF ExecuteTransaction, Plain
  <2>2. CASE live[Leader]
    <3>1. PICK q \in Run : run' = [run EXCEPT ![q] = NewRun(t, "", reqSeq[t])]
      BY <2>2 DEF ExecuteTransaction, IntraCluster, IsIntra
    <3>2. NewRun(t, "", reqSeq[t]).status = ""
      BY DEF NewRun, NoRun
    <3> QED
      BY <3>1, <3>2 DEF LogInv, SlotInv, TypeOK, Plain
  <2> QED
    BY <2>1, <2>2
<1>2. UNCHANGED <<log, store, seq, exec, bal>>
  BY DEF ExecuteTransaction, replica
<1>3. Plain'
  BY <1>1, <1>2 DEF Plain
<1>4. \A u \in Tx : \/ acks'[u]["success"] = acks[u]["success"]
                    \/ acks'[u]["success"] = 0 /\ acks[u]["success"] <= F
  <2>1. acks \in [Tx -> [Result -> Nat]] /\ "success" \in Result /\ F \in Nat
    BY ClusterAssumption DEF LogInv, SlotInv, TypeOK, Result
  <2>2. acks[t]["success"] <= F
    <3>1. ~ (acks[t]["success"] > F)
      BY <2>1 DEF ExecuteTransaction, Answered
    <3>2. acks[t]["success"] \in Nat
      BY <2>1
    <3> QED
      BY <2>1, <3>1, <3>2
  <2>3. acks' = [acks EXCEPT ![t] = [b \in Result |-> 0]]
    BY DEF ExecuteTransaction
  <2> QED
    BY <2>1, <2>2, <2>3
<1>5. Idles /\ StoresSame
  BY <1>2, <1>4 DEF Idles, StoresSame
<1> QED
  BY <1>3, <1>5 DEF Serves

\* The next slot goes to a request that has none.
Orders(t) ==
    /\ seq \in Slot /\ seq' = seq + 1
    /\ UNCHANGED <<store, exec, bal, acks>>
    /\ \A s \in Slot : log[Leader][s].tx # t
    /\ log'[Leader][seq].tx = t
    /\ \A s \in Slot : s # seq => log'[Leader][s].tx = log[Leader][s].tx

\* Server n executes its next slot, and its reply is counted.
Executes(n) ==
    LET t == store[n][exec[n]].tx IN
    /\ exec[n] \in Slot /\ t # NoTx
    /\ exec' = [exec EXCEPT ![n] = exec[n] + 1]
    /\ bal' = [bal EXCEPT ![n] = [a \in Shard |-> bal[n][a] + Net(t, a)]]
    /\ acks'[t]["success"] = acks[t]["success"] + 1
    /\ \A u \in Tx : u # t => acks'[u]["success"] = acks[u]["success"]
    /\ UNCHANGED <<store, seq>>
    /\ \A s \in Slot : log'[Leader][s].tx = log[Leader][s].tx

LEMMA PrePrepareRunKinds ==
    ASSUME LogInv, OneRun, Logged, Plain, IntraCluster, NEW r \in Run, PrePrepareRun(r)
    PROVE  Plain' /\ (Serves \/ \E t \in Tx : Orders(t))
<1> DEFINE t   == run[r].tx
           old == run[r].slot
           s   == IF old = 0 THEN seq ELSE old
           st  == IF old = 0 THEN run[r].status ELSE log[Leader][old].status
<1>1. t \in Tx /\ old \in 0..MaxSlot /\ s \in Slot /\ seq \in Nat /\ Leader \in Node /\ NoTx \notin Tx
  <2>1. TypeOK /\ RunsWellFormed /\ Leader \in Node /\ NoTx \notin Tx
    BY ClusterAssumption DEF LogInv, SlotInv
  <2>2. t \in Tx /\ old \in 0..MaxSlot
    BY <2>1, RunFacts DEF PrePrepareRun
  <2>3. seq \in Nat
    BY <2>1 DEF TypeOK
  <2>4. s \in Slot
    BY <2>1, <2>2, <2>3 DEF PrePrepareRun, Slot
  <2> QED
    BY <2>1, <2>2, <2>3, <2>4
<1>2. \A q \in Run : run'[q].status = ""
  <2>1. run' = [run EXCEPT ![r] = [run[r] EXCEPT !.slot = s, !.pc = "prepares"]]
    BY DEF PrePrepareRun
  <2>2. run \in [Run -> RunRec] /\ \A q \in Run : run[q].status = ""
    BY DEF LogInv, SlotInv, TypeOK, Plain
  <2>3. [run[r] EXCEPT !.slot = s, !.pc = "prepares"].status = ""
    BY <2>2 DEF RunRec
  <2> HIDE DEF t, old, s, st
  <2> QED
    BY <2>1, <2>2, <2>3
<1>3. /\ log'[Leader][s].tx = t /\ log'[Leader][s].status = st
      /\ \A n \in Node, u \in Slot : n # Leader \/ u # s => log'[n][u] = log[n][u]
  <2>1. /\ log' = [log EXCEPT ![Leader][s] = [tx |-> t, status |-> st, state |-> PrePrepared]]
        /\ log \in [Node -> [Slot -> Entry]]
    BY DEF LogInv, SlotInv, PrePrepareRun, TypeOK
  <2> HIDE DEF t, old, s, st
  <2> QED
    BY <1>1, <2>1
<1>4. st = ""
  <2>1. old # 0 => old \in Slot
    BY <1>1 DEF Slot
  <2> QED
    BY <1>1, <2>1 DEF Plain
<1>5. UNCHANGED <<store, exec, bal, acks>> /\ run[r].pc = "locks"
  BY DEF PrePrepareRun
<1>6. IsIntra(t)
  BY <1>1 DEF IntraCluster
<1>9. Plain'
  <2> HIDE DEF t, old, s, st
  <2>1. ASSUME NEW n \in Node, NEW u \in Slot
        PROVE  log'[n][u].status = ""
    <3>1. CASE n = Leader /\ u = s
      BY <1>3, <1>4, <3>1
    <3>2. CASE ~ (n = Leader /\ u = s)
      <4>1. log'[n][u] = log[n][u]
        BY <1>3, <3>2
      <4> QED
        BY <4>1 DEF Plain
    <3> QED
      BY <3>1, <3>2
  <2>2. UNCHANGED store
    BY <1>5
  <2> QED
    BY <1>2, <2>1, <2>2 DEF Plain
<1>7. CASE old = 0
  <2>1. s = seq /\ seq' = seq + 1
    BY <1>7 DEF PrePrepareRun, NextSeq
  <2>2. reqSeq[t] = 0
    BY <1>5, <1>6, <1>7 DEF OneRun
  <2>3. \A u \in Slot : log[Leader][u].tx # t
    BY <1>1, <1>6, <2>2 DEF Logged, Slot
  <2> HIDE DEF t, old, s, st
  <2>a. \A u \in Slot : u # s => log'[Leader][u] = log[Leader][u]
    BY <1>1, <1>3
  <2>4. /\ log'[Leader][seq].tx = t
        /\ \A u \in Slot : u # seq => log'[Leader][u].tx = log[Leader][u].tx
    BY <1>3, <2>1, <2>a
  <2>5. Orders(t)
    BY <1>1, <1>5, <2>1, <2>3, <2>4 DEF Orders
  <2> QED
    BY <1>1, <1>9, <2>5
<1>8. CASE old # 0
  <2>1. s = old /\ seq' = seq
    BY <1>8 DEF PrePrepareRun
  <2>2. log[Leader][s].tx = t
    BY <1>8, <2>1 DEF LogInv, SlotInv, SlotsAssigned
  <2> HIDE DEF t, old, s, st
  <2>a. \A u \in Slot : u # s => log'[Leader][u] = log[Leader][u]
    BY <1>1, <1>3
  <2>3. \A u \in Slot : log'[Leader][u].tx = log[Leader][u].tx
    BY <1>3, <2>2, <2>a
  <2>4. Idles /\ StoresSame
    BY <1>5, <2>1, <2>3 DEF Idles, StoresSame
  <2> QED
    BY <1>9, <2>4 DEF Serves
<1> QED
  BY <1>7, <1>8

LEMMA ExecuteKinds ==
    ASSUME LogInv, Plain, NEW n \in Node, Execute(n)
    PROVE  Plain' /\ Executes(n)
<1> DEFINE s == exec[n]
           t == store[n][s].tx
<1>1. s \in Slot /\ t \in Tx /\ NoTx \notin Tx /\ s \in Nat
  <2>1. s \in Slot /\ t # NoTx
    BY DEF Execute
  <2>2. store[n][s] \in DBUnit
    BY <2>1 DEF LogInv, SlotInv, TypeOK
  <2> QED
    BY <2>1, <2>2, ClusterAssumption DEF DBUnit, Slot
<1>2. store[n][s].status = ""
  BY <1>1 DEF Plain
<1>3. bal' = [bal EXCEPT ![n] = [a \in Shard |-> bal[n][a] + Times(n, t, "") * Net(t, a)]]
  BY <1>2 DEF Execute
<1>4. bal' = [bal EXCEPT ![n] = [a \in Shard |-> bal[n][a] + Net(t, a)]]
  <2>1. \A a \in Shard : Net(t, a) \in Int
    <3>1. Body[t].amount \in Nat
      BY <1>1, ClusterAssumption
    <3> QED
      BY <3>1 DEF Net
  <2>2. \A a \in Shard : Times(n, t, "") * Net(t, a) = Net(t, a)
    BY <2>1 DEF Times
  <2> QED
    BY <1>3, <2>2
<1>5. /\ acks' = [acks EXCEPT ![t]["success"] = @ + 1]
      /\ log' = Raised(n, s, Executed)
  BY <1>2 DEF Execute, Final
<1>6. /\ acks'[t]["success"] = acks[t]["success"] + 1
      /\ \A u \in Tx : u # t => acks'[u]["success"] = acks[u]["success"]
  BY <1>1, <1>5 DEF LogInv, SlotInv, TypeOK, Result
<1>7. /\ exec' = [exec EXCEPT ![n] = s + 1]
      /\ UNCHANGED <<store, seq, run>>
  BY DEF Execute
<1>8. \A m \in Node, u \in Slot : log'[m][u].status = log[m][u].status /\ log'[m][u].tx = log[m][u].tx
  BY <1>1, <1>5, RaisedStatus, RaisedTx DEF LogInv, SlotInv, Executed
<1>9. Plain'
  BY <1>7, <1>8 DEF Plain
<1>10. Executes(n)
  BY <1>1, <1>4, <1>6, <1>7, <1>8, ClusterAssumption DEF Executes
<1> QED
  BY <1>9, <1>10

\* Steps that leave every variable but the goroutines, the runs' votes and the switches.
LEMMA CalmServes ==
    ASSUME SlotInv, Plain, UNCHANGED <<seq, log, store, exec, bal, acks>>,
           \A q \in Run : run'[q].status = run[q].status
    PROVE  Plain' /\ Serves
  BY DEF Plain, Serves, Idles, StoresSame

\* The kinds of steps of a cluster that serves requests of its own.
LEMMA NextKinds ==
    ASSUME LogInv, OneRun, Logged, Plain, IntraCluster, [Next]_vars
    PROVE  /\ Plain'
           /\ Serves \/ (\E t \in Tx : Orders(t)) \/ (\E n \in Node : Executes(n))
<1> DEFINE Goal == /\ Plain'
                   /\ Serves \/ (\E t \in Tx : Orders(t)) \/ (\E n \in Node : Executes(n))
<1> SUFFICES Goal
  OBVIOUS
<1>a. SlotInv /\ TypeOK
  BY DEF LogInv, SlotInv
<1>b. (UNCHANGED <<seq, log, store, exec, bal, acks>> /\ \A q \in Run : run'[q].status = run[q].status)
      => Goal
  BY <1>a, CalmServes
<1>c. \A r \in Run : run[r].pc # "none" => IsIntra(run[r].tx)
  BY <1>a DEF SlotInv, RunsWellFormed, IntraCluster
<1>d. Plain' /\ Serves => Goal
  OBVIOUS
<1> HIDE DEF Goal
<1>1. ASSUME NEW r \in Run, BalanceTooLow(r) PROVE Goal
  <2>1. \A q \in Run : run'[q].status = run[q].status
    BY <1>1, <1>a, MovedStatus DEF BalanceTooLow, RunPc
  <2> QED
    BY <1>1, <1>b, <2>1 DEF BalanceTooLow, client, replica
<1>2. ASSUME NEW r \in Run, FinishPrepares(r) \/ FinishCommits(r) PROVE Goal
  BY <1>2, <1>d, FinishPreparesServes, FinishCommitsServes
<1>3. ASSUME NEW r \in Run, PrePrepareRun(r) PROVE Goal
  BY <1>3, PrePrepareRunKinds DEF Goal
<1>4. ASSUME NEW r \in Run, PCPrepareReply(r) \/ CommitRemote(r) \/ PCCommit(r) \/ WaitForPCCommit(r)
      PROVE  Goal
  <2>1. run[r].pc # "none" /\ Body[run[r].tx].role \in {"coord", "part"}
    BY <1>4 DEF PCPrepareReply, CommitRemote, PCCommit, WaitForPCCommit
  <2> QED
    BY <1>c, <2>1 DEF IsIntra
<1>5. ASSUME NEW n \in Node, Execute(n) PROVE Goal
  BY <1>5, ExecuteKinds DEF Goal
<1>6. ASSUME NEW n \in Node, SetStatus(n) \/ SetByzantine(n) PROVE Goal
  BY <1>6, <1>b DEF SetStatus, SetByzantine, client, replica
<1>7. ASSUME NEW n \in Node, NEW r \in Run, PrePrepare(n, r) \/ Prepare(n, r) \/ PrepareTimeout(n, r)
      PROVE  Goal
  BY <1>7, <1>b DEF PrePrepare, Prepare, PrepareTimeout, client, replica
<1>8. ASSUME NEW n \in Node, NEW r \in Run, PrePrepareLocked(n, r) PROVE Goal
  BY <1>8, <1>d, PrePrepareLockedServes
<1>9. ASSUME NEW n \in Node, NEW r \in Run, PrepareDone(n, r) PROVE Goal
  <2>1. run[r].slot \in Slot /\ run' = run /\ UNCHANGED <<store, exec, bal, acks>>
    BY <1>9, <1>a, RunFacts DEF SlotInv, PrepareDone, client
  <2>2. \A m \in Node, s \in Slot : log'[m][s].status = log[m][s].status
    BY <1>9, <1>a, <2>1, RaisedStatus DEF PrepareDone, Prepared
  <2>3. Plain'
    BY <2>1, <2>2 DEF Plain
  <2>4. Idles /\ StoresSame
    BY <1>9, <1>a, <2>1, PrepareDoneQuiet, QuietIdles DEF StoresSame
  <2> QED
    BY <1>d, <2>3, <2>4 DEF Serves
<1>10. ASSUME NEW n \in Node, NEW r \in Run,
              SendPrepare(n, r) \/ SendCommit(n, r) \/ Commit(n, r) \/ CommitTimeout(n, r)
       PROVE  Goal
  BY <1>10, <1>b DEF SendPrepare, SendCommit, Commit, CommitTimeout, client, replica
<1>11. ASSUME NEW n \in Node, NEW r \in Run, CommitDone(n, r) PROVE Goal
  BY <1>11, <1>d, CommitDoneServes
<1>12. ASSUME NEW n \in Node, NEW r \in Run, NEW q \in Run, CollectPrepare(n, r, q) \/ CollectCommit(n, r, q)
       PROVE  Goal
  <2>1. run[q] \in RunRec
    BY <1>a DEF TypeOK
  <2>2. \A u \in Run : run'[u].status = run[u].status
    <3>1. CASE CollectPrepare(n, r, q)
      BY <1>a, <2>1, <3>1 DEF CollectPrepare, TypeOK, RunRec
    <3>2. CASE CollectCommit(n, r, q)
      BY <1>a, <2>1, <3>2 DEF CollectCommit, TypeOK, RunRec
    <3> QED
      BY <1>12, <3>1, <3>2
  <2> QED
    BY <1>12, <1>b, <2>2 DEF CollectPrepare, CollectCommit, client, replica
<1>13. ASSUME NEW t \in Tx, ExecuteTransaction(t) PROVE Goal
  BY <1>13, <1>d, ExecuteTransactionServes
<1>14. ASSUME NEW t \in Tx, PCPrepare(t) PROVE Goal
  BY <1>14 DEF PCPrepare, IntraCluster, IsIntra
<1>15. CASE UNCHANGED vars
  BY <1>15, <1>b DEF vars, client, replica
<1> QED
  BY <1>1, <1>2, <1>3, <1>4, <1>5, <1>6, <1>7, <1>8, <1>9, <1>10, <1>11, <1>12, <1>13, <1>14, <1>15
     DEF Next, LeaderStep, ServerStep, ClientStep, OperatorStep

-----------------------------------------------------------------------------
(* Replies and balances.                                                   *)

\* Who has executed a request stays so, and its slot keeps its request.
LEMMA DoersKept ==
    ASSUME LogInv, NEW t, StoresSame \/ (\E n \in Node, s \in Slot : Learns(n, s)),
           \A n \in Node, s \in Slot : s < exec[n] => s < exec'[n]
    PROVE  /\ Doers(t) \subseteq Doers(t)'
           /\ IsFiniteSet(Doers(t)) /\ IsFiniteSet(Doers(t)')
           /\ Cardinality(Doers(t)) \in Nat /\ Cardinality(Doers(t)') \in Nat
           /\ Cardinality(Doers(t)) <= Cardinality(Doers(t)')
<1>1. \A n \in Node, s \in Slot : store[n][s].tx # NoTx => store'[n][s].tx = store[n][s].tx
  BY DEF StoresSame, Learns, LogInv, SlotInv, LeaderDecides
<1>2. Doers(t) \subseteq Doers(t)'
  BY <1>1 DEF Doers, LogInv, Reported
<1>3. Doers(t) \subseteq Node /\ Doers(t)' \subseteq Node /\ IsFiniteSet(Node)
  BY ClusterAssumption DEF Doers
<1>4. IsFiniteSet(Doers(t)) /\ IsFiniteSet(Doers(t)')
  BY <1>3, FS_Subset
<1> QED
  BY <1>2, <1>4, FS_Subset, FS_CardinalityType

\* The server that executes a slot has not executed the request before: it has no other.
LEMMA DoersGrow ==
    ASSUME LogInv, Logged, IntraCluster, NEW n \in Node, Executes(n),
           NEW t \in Tx, t = store[n][exec[n]].tx
    PROVE  /\ n \notin Doers(t)
           /\ Doers(t)' = Doers(t) \cup {n}
           /\ Cardinality(Doers(t)') = Cardinality(Doers(t)) + 1
<1>1. exec[n] \in Slot /\ t # NoTx
  BY DEF Executes
<1>2. \A s \in Slot : store[n][s].tx = t => s = exec[n]
  <2> SUFFICES ASSUME NEW s \in Slot, store[n][s].tx = t PROVE s = exec[n]
    OBVIOUS
  <2>1. log[Leader][s].tx = t /\ log[Leader][exec[n]].tx = t
    BY <1>1 DEF LogInv, SlotInv, LeaderDecides
  <2>2. IsIntra(t)
    BY <1>1 DEF IntraCluster
  <2> QED
    BY <1>1, <2>1, <2>2 DEF Logged
<1>3. n \notin Doers(t)
  BY <1>1, <1>2 DEF Doers, Slot
<1>4. /\ exec'[n] = exec[n] + 1
      /\ \A m \in Node : m # n => exec'[m] = exec[m]
      /\ store' = store
  BY DEF Executes, LogInv, SlotInv, TypeOK
<1>5. Doers(t)' = Doers(t) \cup {n}
  <2>1. n \in Doers(t)'
    BY <1>1, <1>4 DEF Doers, Slot
  <2>2. \A m \in Node : m # n => (m \in Doers(t) <=> m \in Doers(t)')
    BY <1>4 DEF Doers
  <2> QED
    BY <2>1, <2>2 DEF Doers
<1>6. IsFiniteSet(Doers(t))
  <2>1. Doers(t) \subseteq Node /\ IsFiniteSet(Node)
    BY ClusterAssumption DEF Doers
  <2> QED
    BY <2>1, FS_Subset
<1>7. Cardinality(Doers(t) \cup {n}) = Cardinality(Doers(t)) + 1
  BY <1>3, <1>6, FS_AddElement
<1> QED
  BY <1>3, <1>5, <1>7

\* A server executes requests.
LEMMA ExecutesTx ==
    ASSUME LogInv, NEW n \in Node, Executes(n)
    PROVE  store[n][exec[n]].tx \in Tx
  BY DEF Executes, LogInv, SlotInv, TypeOK, DBUnit

\* What every kind of step does to the servers that executed a request.
LEMMA NextCounted ==
    ASSUME LogInv, Logged, IntraCluster, Counted,
           Serves \/ (\E t \in Tx : Orders(t)) \/ (\E n \in Node : Executes(n))
    PROVE  Counted'
<1>1. acks \in [Tx -> [Result -> Nat]] /\ "success" \in Result
  BY DEF LogInv, SlotInv, TypeOK, Result
<1>2. CASE Serves \/ \E t \in Tx : Orders(t)
  <2>1. StoresSame \/ \E n \in Node, s \in Slot : Learns(n, s)
    BY <1>2 DEF Serves, Orders, StoresSame
  <2>2. exec' = exec /\ \A u \in Tx : acks'[u]["success"] \in {0, acks[u]["success"]}
    BY <1>2 DEF Serves, Idles, Orders
  <2> SUFFICES ASSUME NEW u \in Tx PROVE acks'[u]["success"] <= Cardinality(Doers(u)')
    BY DEF Counted
  <2>3. /\ Cardinality(Doers(u)) \in Nat /\ Cardinality(Doers(u)') \in Nat
        /\ Cardinality(Doers(u)) <= Cardinality(Doers(u)')
    BY <2>1, <2>2, DoersKept
  <2>4. acks[u]["success"] \in Nat /\ acks[u]["success"] <= Cardinality(Doers(u))
    BY <1>1 DEF Counted
  <2> QED
    BY <2>2, <2>3, <2>4
<1>3. ASSUME NEW n \in Node, Executes(n) PROVE Counted'
  <2>0. PICK t \in Tx : t = store[n][exec[n]].tx
    BY <1>3, ExecutesTx
  <2>1. /\ acks'[t]["success"] = acks[t]["success"] + 1
        /\ \A u \in Tx : u # t => acks'[u]["success"] = acks[u]["success"]
        /\ store' = store
    BY <1>3, <2>0 DEF Executes
  <2>2. Cardinality(Doers(t)') = Cardinality(Doers(t)) + 1
    BY <1>3, <2>0, DoersGrow
  <2>3. \A m \in Node, s \in Slot : s < exec[m] => s < exec'[m]
    <3>1. exec \in [Node -> 1..(MaxSlot + 1)] /\ exec' = [exec EXCEPT ![n] = exec[n] + 1]
      BY <1>3 DEF Executes, LogInv, SlotInv, TypeOK
    <3>2. \A m \in Node : exec[m] \in Int /\ exec'[m] \in {exec[m], exec[m] + 1}
      BY <3>1
    <3> QED
      BY <3>2 DEF Slot
  <2> SUFFICES ASSUME NEW u \in Tx PROVE acks'[u]["success"] <= Cardinality(Doers(u)')
    BY DEF Counted
  <2>4. /\ Cardinality(Doers(u)) \in Nat /\ Cardinality(Doers(u)') \in Nat
        /\ Cardinality(Doers(u)) <= Cardinality(Doers(u)')
    BY <2>1, <2>3, DoersKept DEF StoresSame
  <2>5. acks[u]["success"] \in Nat /\ acks[u]["success"] <= Cardinality(Doers(u))
    BY <1>1 DEF Counted
  <2> QED
    BY <2>1, <2>2, <2>4, <2>5
<1> QED
  BY <1>2, <1>3

\* An executor never passes the slots that were given out.
LEMMA ExecWithin ==
    ASSUME LogInv, NEW n \in Node
    PROVE  exec[n] \in 1..(MaxSlot + 1) /\ seq \in 1..(MaxSlot + 1) /\ exec[n] <= seq
<1>1. exec[n] \in 1..(MaxSlot + 1) /\ seq \in 1..(MaxSlot + 1) /\ MaxSlot \in Nat
  BY ClusterAssumption DEF LogInv, SlotInv, TypeOK
<1>2. ASSUME exec[n] > seq PROVE FALSE
  <2>1. seq \in Slot /\ seq < exec[n]
    BY <1>1, <1>2 DEF Slot
  <2>2. store[n][seq].tx # NoTx /\ log[Leader][seq].tx = NoTx
    BY <1>1, <2>1 DEF LogInv, SlotInv, SlotsAssigned, Reported, Slot
  <2> QED
    BY <2>1, <2>2 DEF LogInv, SlotInv, LeaderDecides
<1> QED
  BY <1>1, <1>2

\* The history after a step: it goes on from the history so far.
Continues(h) == \E g : History(g)' /\ \A k \in 1..(MaxSlot + 1) : k <= seq => g[k] = h[k]

\* Every kind of step continues the history of the balances.
LEMMA NextHistory ==
    ASSUME LogInv, NEW h, History(h),
           Serves \/ (\E t \in Tx : Orders(t)) \/ (\E n \in Node : Executes(n))
    PROVE  Continues(h)
<1>1. History(h)
  OBVIOUS
<1>2. \A n \in Node : exec[n] \in 1..(MaxSlot + 1) /\ seq \in 1..(MaxSlot + 1) /\ exec[n] <= seq
  BY ExecWithin
<1>3. seq \in 1..(MaxSlot + 1) /\ MaxSlot \in Nat /\ InitialBalance \in Nat
  BY ClusterAssumption DEF LogInv, SlotInv, TypeOK
<1>4. CASE Serves
  <2>1. UNCHANGED <<seq, exec, bal>> /\ \A s \in Slot : log'[Leader][s].tx = log[Leader][s].tx
    BY <1>4 DEF Serves, Idles
  <2>2. History(h)'
    BY <1>1, <2>1 DEF History
  <2> QED
    BY <2>2 DEF Continues
<1>5. ASSUME NEW t \in Tx, Orders(t) PROVE Continues(h)
  <2> DEFINE new == [a \in Shard |-> h[seq][a] + Net(t, a)]
  <2>1. seq \in Slot /\ seq' = seq + 1 /\ UNCHANGED <<exec, bal>>
    BY <1>5 DEF Orders
  <2>2. new \in [Shard -> Int]
    <3>1. \A a \in Shard : Net(t, a) \in Int
      <4>1. Body[t].amount \in Nat
        BY ClusterAssumption
      <4> QED
        BY <4>1 DEF Net
    <3>2. h[seq] \in [Shard -> Int]
      BY <1>1, <1>3 DEF History
    <3> QED
      BY <3>1, <3>2
  <2>3. \A a \in Shard : new[a] = h[seq][a] + Net(t, a)
    OBVIOUS
  <2> HIDE DEF new
  <2>4. PICK g \in [1..(MaxSlot + 1) -> [Shard -> Int]] :
          /\ g[seq + 1] = new
          /\ \A k \in 1..(MaxSlot + 1) : k # seq + 1 => g[k] = h[k]
    <3> DEFINE e == [h EXCEPT ![seq + 1] = new]
    <3>1. /\ e \in [1..(MaxSlot + 1) -> [Shard -> Int]]
          /\ e[seq + 1] = new
          /\ \A k \in 1..(MaxSlot + 1) : k # seq + 1 => e[k] = h[k]
      BY <1>1, <2>1, <2>2, <1>3 DEF History, Slot
    <3> QED
      BY <3>1
  <2>5. g[1] = [a \in Shard |-> InitialBalance]
    BY <1>1, <1>3, <2>4 DEF History
  <2>6. ASSUME NEW k \in Slot, k < seq', NEW a \in Shard
        PROVE  g[k + 1][a] = g[k][a] + Effect(log'[Leader][k].tx, a)
    <3>1. CASE k = seq
      <4>1. log'[Leader][k].tx = t /\ t # NoTx
        BY <1>5, <3>1, ClusterAssumption DEF Orders
      <4> QED
        BY <1>3, <2>3, <2>4, <3>1, <4>1 DEF Effect
    <3>2. CASE k # seq
      <4>1. k < seq /\ k \in Nat /\ k + 1 \in 1..(MaxSlot + 1)
        BY <1>3, <2>1, <2>6, <3>2 DEF Slot
      <4>2. g[k] = h[k] /\ g[k + 1] = h[k + 1]
        <5>1. k \in 1..(MaxSlot + 1) /\ k # seq + 1 /\ k + 1 # seq + 1
          BY <1>3, <2>6, <4>1 DEF Slot
        <5> QED
          BY <2>4, <4>1, <5>1
      <4>3. log'[Leader][k].tx = log[Leader][k].tx
        BY <1>5, <3>2 DEF Orders
      <4> QED
        BY <1>1, <4>1, <4>2, <4>3 DEF History
    <3> QED
      BY <3>1, <3>2
  <2>7. \A n \in Node : bal'[n] = g[exec'[n]]
    <3> SUFFICES ASSUME NEW n \in Node PROVE bal'[n] = g[exec'[n]]
      OBVIOUS
    <3>1. exec[n] \in 1..(MaxSlot + 1) /\ exec[n] # seq + 1
      BY <1>2
    <3>2. g[exec[n]] = h[exec[n]]
      BY <2>4, <3>1
    <3>3. bal[n] = h[exec[n]]
      BY <1>1 DEF History
    <3>4. bal' = bal /\ exec' = exec
      BY <2>1
    <3> QED
      BY <3>2, <3>3, <3>4
  <2>8. History(g)'
    BY <2>4, <2>5, <2>6, <2>7 DEF History
  <2> QED
    BY <1>3, <2>4, <2>8 DEF Continues
<1>6. ASSUME NEW n \in Node, Executes(n) PROVE Continues(h)
  <2>1. PICK t \in Tx : t = store[n][exec[n]].tx
    BY <1>6, ExecutesTx
  <2>2. /\ exec[n] \in Slot /\ t # NoTx /\ seq' = seq
        /\ exec' = [exec EXCEPT ![n] = exec[n] + 1]
        /\ bal' = [bal EXCEPT ![n] = [a \in Shard |-> bal[n][a] + Net(t, a)]]
        /\ \A u \in Slot : log'[Leader][u].tx = log[Leader][u].tx
    BY <1>6, <2>1 DEF Executes
  <2>3. log[Leader][exec[n]].tx = t
    BY <2>1, <2>2 DEF LogInv, SlotInv, LeaderDecides
  <2>4. exec[n] < seq
    <3>1. exec[n] # seq
      BY <1>3, <2>2, <2>3 DEF LogInv, SlotInv, SlotsAssigned, Slot
    <3> QED
      BY <1>2, <1>3, <3>1
  <2>5. bal'[n] = h[exec[n] + 1]
    <3>1. bal'[n] = [a \in Shard |-> bal[n][a] + Net(t, a)]
      BY <2>2 DEF LogInv, SlotInv, TypeOK
    <3>2. bal[n] = h[exec[n]]
      BY <1>1 DEF History
    <3>3. \A a \in Shard : h[exec[n] + 1][a] = h[exec[n]][a] + Net(t, a)
      BY <1>1, <2>2, <2>3, <2>4 DEF History, Effect
    <3>4. h[exec[n] + 1] \in [Shard -> Int]
      BY <1>1, <2>2, <1>3 DEF History, Slot
    <3> QED
      BY <3>1, <3>2, <3>3, <3>4
  <2>6. \A m \in Node : bal'[m] = h[exec'[m]]
    <3> SUFFICES ASSUME NEW m \in Node PROVE bal'[m] = h[exec'[m]]
      OBVIOUS
    <3>1. CASE m = n
      BY <2>2, <2>5, <3>1 DEF LogInv, SlotInv, TypeOK
    <3>2. CASE m # n
      BY <1>1, <2>2, <3>2 DEF LogInv, SlotInv, TypeOK, History
    <3> QED
      BY <3>1, <3>2
  <2>7. History(h)'
    BY <1>1, <2>2, <2>6 DEF History
  <2> QED
    BY <2>7 DEF Continues
<1> QED
  BY <1>4, <1>5, <1>6

LEMMA NextReplayed ==
    ASSUME LogInv, Replayed,
           Serves \/ (\E t \in Tx : Orders(t)) \/ (\E n \in Node : Executes(n))
    PROVE  Replayed'
<1>1. PICK h : History(h)
  BY DEF Replayed
<1> QED
  BY <1>1, NextHistory DEF Continues, Replayed

\* The invariant of a cluster that serves only requests of its own.
LEMMA InitIntra == IntraCluster /\ Init => OneRun /\ Logged /\ Plain /\ Counted /\ Replayed
<1> SUFFICES ASSUME Init PROVE OneRun /\ Logged /\ Plain /\ Counted /\ Replayed
  OBVIOUS
<1>1. OneRun
  <2>1. \A r \in Run : run[r].pc = "none"
    BY DEF Init, NoRun
  <2> QED
    BY <2>1 DEF OneRun, Running
<1>2. Logged
  <2>1. \A s \in Slot : log[Leader][s].tx = NoTx
    BY ClusterAssumption DEF Init, NoEntry
  <2> QED
    BY <2>1 DEF Logged
<1>3. Plain
  BY DEF Init, NoRun, NoEntry, NoUnit, Plain
<1>4. Counted
  <2> SUFFICES ASSUME NEW t \in Tx PROVE acks[t]["success"] <= Cardinality(Doers(t))
    BY DEF Counted
  <2>1. Doers(t) \subseteq Node /\ IsFiniteSet(Node)
    BY ClusterAssumption DEF Doers
  <2>2. Cardinality(Doers(t)) \in Nat
    BY <2>1, FS_Subset, FS_CardinalityType
  <2>3. acks[t]["success"] = 0
    BY DEF Init, Result
  <2> QED
    BY <2>2, <2>3
<1>5. Replayed
  <2> DEFINE h == [k \in 1..(MaxSlot + 1) |-> [a \in Shard |-> InitialBalance]]
  <2>1. /\ seq = 1 /\ MaxSlot \in Nat /\ InitialBalance \in Int
        /\ \A n \in Node : exec[n] = 1 /\ bal[n] = [a \in Shard |-> InitialBalance]
    BY ClusterAssumption DEF Init
  <2>2. h \in [1..(MaxSlot + 1) -> [Shard -> Int]] /\ h[1] = [a \in Shard |-> InitialBalance]
    BY <2>1
  <2>3. \A k \in Slot : ~ (k < seq)
    BY <2>1 DEF Slot
  <2> HIDE DEF h
  <2>4. History(h)
    BY <2>1, <2>2, <2>3 DEF History
  <2> QED
    BY <2>4 DEF Replayed
<1> QED
  BY <1>1, <1>2, <1>3, <1>4, <1>5

\* For every cluster that serves only requests of its own, whatever is repeated, times
\* out or fails: one slot and one run at a time per request, no more successful replies
\* than executions, and balances that are the log, replayed.
THEOREM IntraInvariant == IntraCluster /\ Spec => []IntraInv
<1>1. IntraCluster /\ Init => OneRun /\ Logged /\ Plain /\ Counted /\ Replayed
  BY InitIntra
<1>2. IntraCluster /\ LogInv /\ OneRun /\ Logged /\ Plain /\ Counted /\ Replayed /\ [Next]_vars
      => OneRun' /\ Logged' /\ Plain' /\ Counted' /\ Replayed'
  <2> SUFFICES ASSUME IntraCluster, LogInv, OneRun, Logged, Plain, Counted, Replayed, [Next]_vars
               PROVE  OneRun' /\ Logged' /\ Plain' /\ Counted' /\ Replayed'
    OBVIOUS
  <2>1. OneRun' /\ Logged'
    BY NextOne DEF LogInv, OneSlotInv
  <2>2. Plain' /\ (Serves \/ (\E t \in Tx : Orders(t)) \/ (\E n \in Node : Executes(n)))
    BY NextKinds
  <2> QED
    BY <2>1, <2>2, NextCounted, NextReplayed
<1>3. LogInv /\ OneRun /\ Logged /\ Plain /\ Counted /\ Replayed => IntraInv
  BY DEF IntraInv
<1>4. SUFFICES ASSUME IntraCluster PROVE Spec => []IntraInv
  OBVIOUS
<1> QED
  BY <1>1, <1>2, <1>3, <1>4, LogInvariant, PTL DEF Spec

\* Servers of such a cluster that have executed the same slots have the same balances:
\* both are the log of the leader, replayed up to there.
THEOREM ReplicaConsistencyHolds == IntraCluster /\ Spec => []ReplicaConsistency
<1>1. IntraInv => ReplicaConsistency
  BY DEF IntraInv, Replayed, History, ReplicaConsistency
<1> QED
  BY <1>1, IntraInvariant, PTL

\* The servers that AnswerMeansExecuted counts.
Performers(t) == {n \in Node : Did(n, t, "") \/ Did(n, t, "C")}

\* F + 1 successful replies come from F + 1 servers that executed the request, although
\* the gateway does not look at who sent them: a server executes one slot once, and a
\* request has one slot.
THEOREM AnswerMeansExecutedHolds == IntraCluster /\ Spec => []AnswerMeansExecuted
<1>1. ASSUME IntraInv PROVE AnswerMeansExecuted
  <2> SUFFICES ASSUME NEW t \in Tx, acks[t]["success"] > F
               PROVE  Cardinality(Performers(t)) > F
    BY DEF AnswerMeansExecuted, Performers
  <2>1. Doers(t) \subseteq Performers(t)
    <3> SUFFICES ASSUME NEW n \in Node, NEW s \in Slot, s < exec[n], store[n][s].tx = t
                 PROVE  store[n][s] = [tx |-> t, status |-> ""]
      BY DEF Doers, Did, Performers
    <3>1. store[n][s] \in DBUnit
      <4>1. store \in [Node -> [Slot -> DBUnit]]
        BY <1>1 DEF IntraInv, LogInv, SlotInv, TypeOK
      <4> QED
        BY <4>1
    <3>2. store[n][s].status = ""
      BY <1>1 DEF IntraInv, Plain
    <3> QED
      BY <3>1, <3>2 DEF DBUnit
  <2>2. Performers(t) \subseteq Node /\ IsFiniteSet(Node) /\ F \in Nat
    BY ClusterAssumption DEF Performers
  <2>3. IsFiniteSet(Performers(t)) /\ Cardinality(Performers(t)) \in Nat
    BY <2>2, FS_Subset, FS_CardinalityType
  <2>4. Cardinality(Doers(t)) \in Nat /\ Cardinality(Doers(t)) <= Cardinality(Performers(t))
    BY <2>1, <2>3, FS_Subset, FS_CardinalityType
  <2>5. acks[t]["success"] \in Nat /\ acks[t]["success"] <= Cardinality(Doers(t))
    BY <1>1 DEF IntraInv, LogInv, SlotInv, TypeOK, Result, Counted
  <2> QED
    BY <2>2, <2>3, <2>4, <2>5
<1> QED
  BY <1>1, IntraInvariant, PTL

\* What is executed stays stored as it is.
LEMMA ExecutedStays ==
    ASSUME IntraCluster, IntraInv, IntraInv', [Next]_vars
    PROVE  \A n \in Node, s \in Slot : s < exec[n] => store'[n][s] = store[n][s]
<1> SUFFICES ASSUME NEW n \in Node, NEW s \in Slot, s < exec[n]
             PROVE  store'[n][s] = store[n][s]
  OBVIOUS
<1>1. Serves \/ (\E t \in Tx : Orders(t)) \/ (\E m \in Node : Executes(m))
  BY NextKinds DEF IntraInv
<1>2. store[n][s].tx # NoTx /\ store[n][s].tx \in {NoTx, log[Leader][s].tx}
  BY DEF IntraInv, LogInv, Reported, SlotInv, LeaderDecides
<1>3. store'[n][s].tx = store[n][s].tx
  BY <1>1, <1>2 DEF Serves, StoresSame, Learns, Orders, Executes
<1>4. store[n][s] \in DBUnit /\ store'[n][s] \in DBUnit
  BY DEF IntraInv, LogInv, SlotInv, TypeOK
<1>5. store[n][s].status = "" /\ store'[n][s].status = ""
  BY DEF IntraInv, Plain
<1>6. /\ store[n][s] = [tx |-> store[n][s].tx, status |-> ""]
      /\ store'[n][s] = [tx |-> store'[n][s].tx, status |-> ""]
  BY <1>4, <1>5 DEF DBUnit
<1> QED
  BY <1>3, <1>6

\* What a server of such a cluster has executed is never rewritten with something else,
\* however often its slot is run again.
THEOREM ExecutedIsFinalHolds == IntraCluster /\ Spec => ExecutedIsFinal
<1>1. SUFFICES ASSUME IntraCluster PROVE Spec => ExecutedIsFinal
  OBVIOUS
<1> QED
  BY <1>1, ExecutedStays, IntraInvariant, PTL DEF Spec, ExecutedIsFinal

-----------------------------------------------------------------------------
(* The locks and the money at the leader.                                  *)

\* Request t holds its accounts at the leader, and its payer can pay.
Reserved(t) ==
    /\ \A x \in Accts(t) : lock[Leader][x] = t
    /\ Body[t].from \in Shard => bal[Leader][Body[t].from] >= Body[t].amount

\* The leader collects votes for t, or has decided t and not yet executed it.
Collects(r) == run[r].pc \in {"prepares", "commits"}
Polled(t)   == \E r \in Run : Collects(r) /\ run[r].tx = t
Due(t)      == \E s \in Slot : s >= exec[Leader] /\ store[Leader][s].tx = t

\* Until its execution or its failure a request keeps what it reserved; it is not voted
\* on once more while its execution is due, and the leader never owes money.
Solvent ==
    /\ \A t \in Tx : Polled(t) \/ Due(t) => Reserved(t)
    /\ \A t \in Tx : ~ (Polled(t) /\ Due(t))
    /\ \A a \in Shard : bal[Leader][a] >= 0

\* A step after which no other request is voted on or due.
NoNewDuty == \A t \in Tx : (Polled(t)' => Polled(t)) /\ (Due(t)' => Due(t))

LEMMA AccountsOf ==
    ASSUME NEW t \in Tx
    PROVE  Accts(t) \subseteq Account /\ Body[t].from \in Accts(t) /\ Body[t].amount \in Nat
  BY ClusterAssumption DEF Accts

\* Two requests that both have reserved their accounts touch different ones.
LEMMA ReservedApart ==
    ASSUME NEW t \in Tx, NEW u \in Tx, t # u, Reserved(t), Reserved(u)
    PROVE  Accts(t) \cap Accts(u) = {}
  BY DEF Reserved

\* What a request has reserved stays so while locks and balance of its accounts do.
LEMMA ReservedKept ==
    ASSUME NEW t \in Tx, Reserved(t),
           \A x \in Accts(t) : lock'[Leader][x] = lock[Leader][x],
           \A x \in Accts(t) : x \in Shard => bal'[Leader][x] = bal[Leader][x]
    PROVE  Reserved(t)'
  BY AccountsOf DEF Reserved

\* Giving accounts to a holder, at the leader.
LEMMA LeaderLocks ==
    ASSUME TypeOK, NEW t \in Tx, NEW holder, lock' = SetLocks(Leader, t, holder)
    PROVE  \A x \in Account : lock'[Leader][x] = IF x \in Accts(t) THEN holder ELSE lock[Leader][x]
  BY ClusterAssumption DEF TypeOK, SetLocks

\* Steps that leave the leader's locks and balances alone.
LEMMA IdleSolvent ==
    ASSUME Solvent, NoNewDuty, lock'[Leader] = lock[Leader], bal'[Leader] = bal[Leader]
    PROVE  Solvent'
<1>1. \A t \in Tx : Polled(t)' \/ Due(t)' => Reserved(t)'
  BY ReservedKept DEF Solvent, NoNewDuty
<1> QED
  BY <1>1 DEF Solvent, NoNewDuty

\* A request whose votes are not enough, or that is executed, frees its accounts.
LEMMA ReleaseSolvent ==
    ASSUME TypeOK, Solvent, NoNewDuty, NEW t \in Tx, Reserved(t), ~Polled(t)', ~Due(t)',
           lock' = Released(Leader, t),
           \A x \in Shard : x \notin Accts(t) => bal'[Leader][x] = bal[Leader][x],
           \A a \in Shard : bal'[Leader][a] >= 0
    PROVE  Solvent'
<1>1. ASSUME NEW u \in Tx, Polled(u)' \/ Due(u)' PROVE Reserved(u)'
  <2>1. u # t /\ Reserved(u)
    BY <1>1 DEF NoNewDuty, Solvent
  <2>2. Accts(u) \cap Accts(t) = {} /\ Accts(u) \subseteq Account
    BY <2>1, ReservedApart, AccountsOf
  <2>3. \A x \in Accts(u) : lock'[Leader][x] = lock[Leader][x]
    BY <2>2, LeaderLocks DEF Released
  <2> QED
    BY <2>1, <2>2, <2>3, ReservedKept
<1> QED
  BY <1>1 DEF Solvent, NoNewDuty

\* A step that moves run r on takes no other run into the votes.
LEMMA MovedVotes ==
    ASSUME TypeOK, OneRun, IntraCluster, NEW r \in Run, NEW pc \in RunPc, Collects(r),
           NEW t \in Tx, t = run[r].tx, run' = Moved(r, pc)
    PROVE  /\ \A u \in Tx : Polled(u)' => Polled(u)
           /\ pc \notin {"prepares", "commits"} => ~Polled(t)'
<1>1. run'[r].tx = run[r].tx /\ run'[r].pc = pc /\ \A q \in Run \ {r} : run'[q] = run[q]
  BY MovedRun
<1>2. \A q \in Run : q # r /\ run[q].tx = run[r].tx => ~Collects(q)
  BY DEF OneRun, Running, Collects, IntraCluster
<1> QED
  BY <1>1, <1>2 DEF Polled, Collects

LEMMA FinishPreparesSolvent ==
    ASSUME LogInv, OneRun, IntraCluster, Solvent, NEW r \in Run, FinishPrepares(r),
           NEW t \in Tx, t = run[r].tx
    PROVE  Solvent'
<1>1. TypeOK /\ Collects(r) /\ {"failed", "commits"} \subseteq RunPc
  BY RunFacts DEF LogInv, SlotInv, FinishPrepares, Collects, RunPc
<1>2. Reserved(t) /\ ~Due(t)
  BY <1>1 DEF Solvent, Polled
<1>3. UNCHANGED <<store, exec, bal>>
  BY DEF FinishPrepares
<1>4. \A u \in Tx : Due(u)' => Due(u)
  BY <1>3 DEF Due
<1>5. \A u \in Tx : Polled(u)' => Polled(u)
  BY <1>1, MovedVotes DEF FinishPrepares
<1>6. NoNewDuty
  BY <1>4, <1>5 DEF NoNewDuty
<1>7. CASE lock' = lock
  BY <1>3, <1>6, <1>7, IdleSolvent
<1>8. CASE lock' = Released(Leader, t) /\ run' = Moved(r, "failed")
  <2>1. ~Polled(t)' /\ ~Due(t)'
    BY <1>1, <1>2, <1>4, <1>8, MovedVotes
  <2>2. \A a \in Shard : bal'[Leader][a] >= 0
    BY <1>3 DEF Solvent
  <2> QED
    BY <1>1, <1>2, <1>3, <1>6, <1>8, <2>1, <2>2, ReleaseSolvent
<1> QED
  BY <1>7, <1>8 DEF FinishPrepares

LEMMA FinishCommitsSolvent ==
    ASSUME LogInv, OneRun, Logged, IntraCluster, Solvent, NEW r \in Run, FinishCommits(r),
           NEW t \in Tx, t = run[r].tx
    PROVE  Solvent'
<1> DEFINE s == run[r].slot
<1>1. TypeOK /\ Collects(r) /\ {"failed", "ok"} \subseteq RunPc /\ s \in Slot /\ Leader \in Node
  BY RunFacts, ClusterAssumption DEF LogInv, SlotInv, FinishCommits, Collects, RunPc
<1>2. Reserved(t) /\ ~Due(t) /\ Polled(t)
  BY <1>1 DEF Solvent, Polled
<1>3. UNCHANGED <<exec, bal>>
  BY DEF FinishCommits
<1>4. ~Polled(t)' /\ \A u \in Tx : Polled(u)' => Polled(u)
  BY <1>1, MovedVotes DEF FinishCommits
<1>5. CASE lock' = Released(Leader, t) /\ store' = store
  <2>1. NoNewDuty /\ ~Due(t)'
    BY <1>2, <1>3, <1>4, <1>5 DEF NoNewDuty, Due
  <2>2. \A a \in Shard : bal'[Leader][a] >= 0
    BY <1>3 DEF Solvent
  <2> QED
    BY <1>1, <1>2, <1>3, <1>4, <1>5, <2>1, <2>2, ReleaseSolvent
<1>6. CASE lock' = lock /\ SaveCommit(Leader, s, t, run[r].status)
  <2>1. log[Leader][s].tx = t
    BY <1>1 DEF LogInv, SlotInv, SlotsAssigned, Slot
  <2>2. \A u \in Slot : store'[Leader][u].tx \in {store[Leader][u].tx, t}
    <3> HIDE DEF s
    <3>1. \A u \in Slot : store'[Leader][u] = store[Leader][u] \/ (u = s /\ store'[Leader][u].tx = t)
      BY <1>1, <1>6, <2>1, SaveCommitStores
    <3> QED
      BY <3>1
  <2>3. \A u \in Tx : Due(u)' => Due(u) \/ u = t
    <3> QED
      BY <1>3, <2>2 DEF Due
  <2>4. \A u \in Tx : Reserved(u)' <=> Reserved(u)
    BY <1>3, <1>6 DEF Reserved
  <2> QED
    BY <1>2, <1>3, <1>4, <2>3, <2>4 DEF Solvent
<1> QED
  BY <1>5, <1>6 DEF FinishCommits

LEMMA PrePrepareRunSolvent ==
    ASSUME LogInv, Plain, IntraCluster, Solvent, NEW r \in Run, PrePrepareRun(r),
           NEW t \in Tx, t = run[r].tx
    PROVE  Solvent'
<1>1. TypeOK /\ Leader \in Node /\ NoTx \notin Tx
  BY RunFacts, ClusterAssumption DEF LogInv, SlotInv, PrePrepareRun
<1>2. NeedsLocks(run[r].status) /\ Body[t].role # "part"
  BY <1>1 DEF Plain, NeedsLocks, IntraCluster, IsIntra
<1>3. Free(Leader, t) /\ bal[Leader][Body[t].from] >= Body[t].amount /\ lock' = Locked(Leader, t)
  BY <1>2 DEF PrePrepareRun
<1>4. UNCHANGED <<store, exec, bal>>
  BY DEF PrePrepareRun
<1>5. PICK old, s : run' = [run EXCEPT ![r] = [run[r] EXCEPT !.slot = s, !.pc = "prepares"]]
  BY DEF PrePrepareRun
<1>6. run'[r].tx = t /\ \A q \in Run \ {r} : run'[q] = run[q]
  BY <1>1, <1>5 DEF TypeOK, RunRec
<1>7. \A x \in Account : lock'[Leader][x] = IF x \in Accts(t) THEN t ELSE lock[Leader][x]
  BY <1>1, <1>3, LeaderLocks DEF Locked
<1>8. \A u \in Tx : Polled(u)' => Polled(u) \/ u = t
  BY <1>6 DEF Polled, Collects
<1>9. \A u \in Tx : Due(u)' <=> Due(u)
  BY <1>4 DEF Due
<1>10. Reserved(t)'
  BY <1>1, <1>3, <1>4, <1>7, AccountsOf DEF Reserved
<1>11. ASSUME NEW u \in Tx, Reserved(u) PROVE u # t /\ Reserved(u)'
  <2>1. Accts(t) \cap Accts(u) = {} /\ Body[u].from \in Accts(u) /\ Accts(u) \subseteq Account
    BY <1>1, <1>3, <1>11, AccountsOf DEF Free, Reserved
  <2>2. \A x \in Accts(u) : lock'[Leader][x] = lock[Leader][x]
    BY <1>7, <2>1
  <2>3. Reserved(u)'
    BY <1>4, <1>11, <2>2, ReservedKept
  <2> QED
    BY <2>1, <2>3
<1>12. ~Due(t)
  BY <1>1, <1>11 DEF Solvent
<1>13. \A a \in Shard : bal'[Leader][a] >= 0
  BY <1>4 DEF Solvent
<1> QED
  BY <1>8, <1>9, <1>10, <1>11, <1>12, <1>13 DEF Solvent

\* Executing a payment leaves the other accounts alone, and the payer can pay.
LEMMA PaidSolvent ==
    ASSUME TypeOK, Solvent, NEW t \in Tx, Reserved(t), NEW x \in Shard
    PROVE  /\ bal[Leader][x] + Net(t, x) >= 0
           /\ x \notin Accts(t) => bal[Leader][x] + Net(t, x) = bal[Leader][x]
<1>1. bal[Leader][x] \in Int /\ bal[Leader][x] >= 0 /\ Body[t].amount \in Nat
  BY AccountsOf, ClusterAssumption DEF TypeOK, Solvent
<1>2. x = Body[t].from => bal[Leader][x] >= Body[t].amount
  BY DEF Reserved
<1> QED
  BY <1>1, <1>2 DEF Net, Accts

LEMMA ExecuteSolvent ==
    ASSUME LogInv, OneRun, Logged, Plain, IntraCluster, Solvent, NEW n \in Node, Execute(n)
    PROVE  Solvent'
<1>1. TypeOK /\ Leader \in Node /\ Executes(n) /\ run' = run
  BY ExecuteKinds, ClusterAssumption DEF LogInv, SlotInv, Execute
<1>2. PICK t \in Tx : t = store[n][exec[n]].tx
  BY <1>1, ExecutesTx
<1>3. /\ exec[n] \in Slot /\ exec' = [exec EXCEPT ![n] = exec[n] + 1] /\ store' = store
      /\ bal' = [bal EXCEPT ![n] = [x \in Shard |-> bal[n][x] + Net(t, x)]]
  BY <1>1, <1>2 DEF Executes
<1>4. lock' = Released(n, t)
  BY <1>1, <1>2, <1>3 DEF Execute, Final, Plain
<1>5. \A u \in Tx : Polled(u)' <=> Polled(u)
  BY <1>1 DEF Polled, Collects
<1>6. exec[Leader] \in Int /\ exec'[Leader] = IF n = Leader THEN exec[Leader] + 1 ELSE exec[Leader]
  BY <1>1, <1>3 DEF TypeOK
<1>7. \A u \in Tx : Due(u)' => Due(u)
  BY <1>3, <1>6 DEF Due, Slot
<1>8. NoNewDuty
  BY <1>5, <1>7 DEF NoNewDuty
<1>9. CASE n # Leader
  <2>1. lock'[Leader] = lock[Leader] /\ bal'[Leader] = bal[Leader]
    BY <1>1, <1>3, <1>4, <1>9 DEF TypeOK, Released, SetLocks
  <2> QED
    BY <1>8, <2>1, IdleSolvent
<1>10. CASE n = Leader
  <2>1. Due(t)
    BY <1>2, <1>3, <1>6, <1>10 DEF Due
  <2>2. Reserved(t) /\ ~Polled(t)'
    BY <1>5, <2>1 DEF Solvent
  <2>3. ~Due(t)'
    <3> SUFFICES ASSUME NEW s \in Slot, s >= exec'[Leader], store[Leader][s].tx = t PROVE FALSE
      BY <1>3 DEF Due
    <3>1. NoTx \notin Tx
      BY ClusterAssumption
    <3>2. log[Leader][s].tx = t /\ log[Leader][exec[n]].tx = t
      BY <1>1, <1>2, <1>3, <1>10, <3>1 DEF LogInv, Reported
    <3>3. s = exec[Leader]
      BY <1>3, <1>10, <3>1, <3>2 DEF Logged, IntraCluster
    <3> QED
      BY <1>6, <1>10, <3>3
  <2>4. bal'[Leader] = [x \in Shard |-> bal[Leader][x] + Net(t, x)]
    BY <1>1, <1>3, <1>10 DEF TypeOK
  <2>5. /\ \A x \in Shard : x \notin Accts(t) => bal'[Leader][x] = bal[Leader][x]
        /\ \A x \in Shard : bal'[Leader][x] >= 0
    BY <1>1, <2>2, <2>4, PaidSolvent
  <2> QED
    BY <1>1, <1>4, <1>8, <1>10, <2>2, <2>3, <2>5, ReleaseSolvent
<1> QED
  BY <1>9, <1>10

\* A step that moves no run into the votes, stores nothing and executes nothing at the
\* leader, and leaves its locks.
LEMMA CalmSolvent ==
    ASSUME Solvent, lock'[Leader] = lock[Leader], UNCHANGED <<exec, bal>>,
           \A s \in Slot : store'[Leader][s] = store[Leader][s],
           \A r \in Run : Collects(r)' => Collects(r) /\ run'[r].tx = run[r].tx
    PROVE  Solvent'
<1>1. NoNewDuty
  BY DEF NoNewDuty, Polled, Due
<1> QED
  BY <1>1, IdleSolvent

LEMMA NextSolvent ==
    ASSUME LogInv, LeaderJob, OneRun, Logged, Plain, IntraCluster, Solvent, [Next]_vars
    PROVE  Solvent'
<1>a. TypeOK /\ Leader \in Node /\ RunsWellFormed
  BY ClusterAssumption DEF LogInv, SlotInv
<1>b. \A r \in Run : run[r].pc # "none" => Body[run[r].tx].role = "intra"
  BY <1>a DEF RunsWellFormed, IntraCluster, IsIntra
<1>1. ASSUME NEW r \in Run, BalanceTooLow(r) PROVE Solvent'
  <2>1. run'[r].pc = "failed" /\ \A q \in Run \ {r} : run'[q] = run[q]
    BY <1>1, <1>a, MovedRun DEF BalanceTooLow, RunPc
  <2>2. \A q \in Run : Collects(q)' => Collects(q) /\ run'[q].tx = run[q].tx
    BY <2>1 DEF Collects
  <2> QED
    BY <1>1, <2>2, CalmSolvent DEF BalanceTooLow, replica
<1>2. ASSUME NEW r \in Run, PrePrepareRun(r) \/ FinishPrepares(r) \/ FinishCommits(r) PROVE Solvent'
  <2>1. PICK t \in Tx : t = run[r].tx
    BY <1>2, <1>a DEF PrePrepareRun, FinishPrepares, FinishCommits, RunsWellFormed
  <2> QED
    BY <1>2, <2>1, PrePrepareRunSolvent, FinishPreparesSolvent, FinishCommitsSolvent
<1>3. ASSUME NEW r \in Run, PCPrepareReply(r) \/ CommitRemote(r) \/ PCCommit(r) \/ WaitForPCCommit(r)
      PROVE  Solvent'
  <2>1. run[r].pc # "none" /\ Body[run[r].tx].role \in {"coord", "part"}
    BY <1>3 DEF PCPrepareReply, CommitRemote, PCCommit, WaitForPCCommit
  <2> QED
    BY <1>b, <2>1
<1>4. ASSUME NEW n \in Node, Execute(n) PROVE Solvent'
  BY <1>4, ExecuteSolvent
<1>5. ASSUME NEW n \in Node, SetStatus(n) \/ SetByzantine(n) PROVE Solvent'
  BY <1>5, CalmSolvent DEF SetStatus, SetByzantine, replica, Collects
<1>6. ASSUME NEW n \in Node, NEW r \in Run,
             PrePrepare(n, r) \/ SendPrepare(n, r) \/ PrepareDone(n, r) \/ SendCommit(n, r)
               \/ Commit(n, r) \/ CommitTimeout(n, r)
      PROVE  Solvent'
  BY <1>6, CalmSolvent DEF PrePrepare, SendPrepare, PrepareDone, SendCommit, Commit, CommitTimeout,
                                replica, Collects
<1>7. ASSUME NEW n \in Node, NEW r \in Run, PrePrepareLocked(n, r) \/ Prepare(n, r) \/ PrepareTimeout(n, r)
      PROVE  Solvent'
  <2>1. n # Leader
    BY <1>7, <1>a DEF LeaderJob, PrePrepareLocked, Prepare, PrepareTimeout
  <2>2. lock'[Leader] = lock[Leader]
    BY <1>7, <1>a, <2>1 DEF PrePrepareLocked, Prepare, PrepareTimeout, Locked, Released, SetLocks, TypeOK
  <2> QED
    BY <1>7, <2>2, CalmSolvent DEF PrePrepareLocked, Prepare, PrepareTimeout, Collects
<1>8. ASSUME NEW n \in Node, NEW r \in Run, CommitDone(n, r) PROVE Solvent'
  <2>1. n # Leader /\ run[r].slot \in Slot
    BY <1>8, <1>a, RunFacts DEF LeaderJob, CommitDone
  <2>2. store' = store \/ SaveCommit(n, run[r].slot, run[r].tx, PPStatus(r))
    BY <1>8 DEF CommitDone
  <2>3. \A s \in Slot : store'[Leader][s] = store[Leader][s]
    BY <1>a, <2>1, <2>2, SaveCommitStores
  <2> QED
    BY <1>8, <2>3, CalmSolvent DEF CommitDone, Collects
<1>9. ASSUME NEW n \in Node, NEW r \in Run, NEW q \in Run, CollectPrepare(n, r, q) \/ CollectCommit(n, r, q)
      PROVE  Solvent'
  <2>1. run[q] \in RunRec
    BY <1>a DEF TypeOK
  <2>2. \A u \in Run : run'[u].pc = run[u].pc /\ run'[u].tx = run[u].tx
    <3>1. CASE CollectPrepare(n, r, q)
      BY <1>a, <2>1, <3>1 DEF CollectPrepare, TypeOK, RunRec
    <3>2. CASE CollectCommit(n, r, q)
      BY <1>a, <2>1, <3>2 DEF CollectCommit, TypeOK, RunRec
    <3> QED
      BY <1>9, <3>1, <3>2
  <2>3. \A u \in Run : Collects(u)' => Collects(u) /\ run'[u].tx = run[u].tx
    BY <2>2 DEF Collects
  <2> QED
    BY <1>9, <2>3, CalmSolvent DEF CollectPrepare, CollectCommit, replica
<1>10. ASSUME NEW t \in Tx, ExecuteTransaction(t) PROVE Solvent'
  <2> DEFINE Same == \A u \in Run : Collects(u)' => Collects(u) /\ run'[u].tx = run[u].tx
  <2>1. ASSUME live[Leader] PROVE Same
    <3>1. PICK q \in Run : run' = [run EXCEPT ![q] = NewRun(t, "", reqSeq[t])]
      BY <1>10, <2>1 DEF ExecuteTransaction, IntraCluster, IsIntra
    <3>2. NewRun(t, "", reqSeq[t]).pc = "locks"
      BY DEF NewRun, NoRun
    <3>3. run'[q].pc = "locks" /\ \A u \in Run \ {q} : run'[u] = run[u]
      BY <1>a, <3>1, <3>2 DEF TypeOK
    <3> QED
      BY <3>3 DEF Collects
  <2>2. ASSUME ~live[Leader] PROVE Same
    BY <1>10, <2>2 DEF ExecuteTransaction, Collects
  <2>3. Same
    BY <2>1, <2>2
  <2> QED
    BY <1>10, <2>3, CalmSolvent DEF ExecuteTransaction, replica
<1>11. ASSUME NEW t \in Tx, PCPrepare(t) PROVE Solvent'
  BY <1>11 DEF PCPrepare, IntraCluster, IsIntra
<1>12. CASE UNCHANGED vars
  BY <1>12, CalmSolvent DEF vars, replica, Collects
<1> QED
  BY <1>1, <1>2, <1>3, <1>4, <1>5, <1>6, <1>7, <1>8, <1>9, <1>10, <1>11, <1>12
     DEF Next, LeaderStep, ServerStep, ClientStep, OperatorStep

-----------------------------------------------------------------------------
(* Every server's money: nothing is decided before the leader decides it.  *)

\* The leader follows the protocol: the operator never makes it Byzantine.
HonestLeader == Leader \notin FlakyByz

\* A slot in the second round is prepared at the leader, and what the leader has
\* certified, or any server stored, the leader stored first.
LeaderFirst ==
    /\ ~byz[Leader]
    /\ \A q \in Run : run[q].pc = "commits" => log[Leader][run[q].slot].state >= Prepared
    /\ \A s \in Slot : Cardinality(commCerts[s]) >= CommitQuorum => store[Leader][s].tx # NoTx
    /\ \A n \in Node, s \in Slot : store[n][s].tx # NoTx => store[Leader][s].tx # NoTx

\* Raising an entry never lowers its state.
LEMMA RaisedState ==
    ASSUME TypeOK, NEW n \in Node, NEW s \in Slot, NEW k \in 0..5, log' = Raised(n, s, k)
    PROVE  /\ log'[n][s].state >= k
           /\ \A m \in Node, u \in Slot : log'[m][u].state >= log[m][u].state
<1>1. log[n][s] \in Entry
  BY DEF TypeOK
<1>2. RaisedEntry(n, s, k).state = IF log[n][s].state < k THEN k ELSE log[n][s].state
  BY <1>1 DEF RaisedEntry, Entry
<1>3. \A m \in Node, u \in Slot : log'[m][u] = IF m = n /\ u = s THEN RaisedEntry(n, s, k) ELSE log[m][u]
  BY DEF Raised, TypeOK
<1>4. \A m \in Node, u \in Slot : log[m][u].state \in 0..5
  BY DEF TypeOK, Entry
<1> HIDE DEF TypeOK
<1>5. log'[n][s].state >= k /\ log'[n][s].state >= log[n][s].state
  BY <1>2, <1>3, <1>4
<1> QED
  BY <1>3, <1>4, <1>5

LEMMA SaveCommitState ==
    ASSUME TypeOK, NEW n \in Node, NEW s \in Slot, NEW t, NEW st, SaveCommit(n, s, t, st)
    PROVE  \A m \in Node, u \in Slot : log'[m][u].state >= log[m][u].state
<1>1. \A m \in Node, u \in Slot : log[m][u].state \in 0..5
  BY DEF TypeOK, Entry
<1>2. CASE byz[n]
  BY <1>1, <1>2 DEF SaveCommit
<1>3. CASE ~byz[n]
  BY <1>3, RaisedState DEF SaveCommit, Committed
<1> QED
  BY <1>2, <1>3

\* The leader's entries keep their state, but for the slot of a run it starts, and no
\* other step but a round of prepares that ends takes a run into the commits.
LEMMA StateKinds ==
    ASSUME SlotInv, LeaderJob, [Next]_vars
    PROVE  \/ \E r \in Run : PrePrepareRun(r) \/ FinishPrepares(r)
           \/ /\ \A s \in Slot : log'[Leader][s].state >= log[Leader][s].state
              /\ \A q \in Run : run'[q].pc = "commits" => run[q].pc = "commits" /\ run'[q].slot = run[q].slot
<1> DEFINE Up   == \A s \in Slot : log'[Leader][s].state >= log[Leader][s].state
           Down2 == \A q \in Run : run'[q].pc = "commits" => run[q].pc = "commits" /\ run'[q].slot = run[q].slot
           Kind == (\E r \in Run : PrePrepareRun(r) \/ FinishPrepares(r)) \/ (Up /\ Down2)
<1> SUFFICES Kind
  OBVIOUS
<1>0. /\ Up /\ Down2 => Kind
      /\ \A r \in Run : PrePrepareRun(r) \/ FinishPrepares(r) => Kind
  OBVIOUS
<1> HIDE DEF Kind
<1>a. TypeOK /\ Leader \in Node
  BY ClusterAssumption DEF SlotInv
<1>b. \A s \in Slot : log[Leader][s].state \in 0..5
  BY <1>a DEF TypeOK, Entry
<1>c. log' = log => Up
  BY <1>b
<1>d. run' = run => Down2
  OBVIOUS
<1>e. ASSUME NEW n \in Node, NEW s \in Slot, NEW k \in 0..5, log' = log \/ log' = Raised(n, s, k)
      PROVE  Up
  BY <1>a, <1>c, <1>e, RaisedState
<1>f. ASSUME NEW r \in Run, NEW pc \in RunPc, run' = Moved(r, pc), pc # "commits"
      PROVE  Down2
  BY <1>a, <1>f, MovedRun
<1>g. ASSUME NEW r \in Run, NEW pc \in RunPc, run' = Moved(r, pc), pc # "commits", log' = log
      PROVE  Up /\ Down2
  BY <1>c, <1>f, <1>g
<1> HIDE DEF Up
<1>1. ASSUME NEW r \in Run, BalanceTooLow(r) \/ CommitRemote(r)
      PROVE  Up /\ Down2
  BY <1>1, <1>g DEF BalanceTooLow, CommitRemote, RunPc, replica
<1>2. ASSUME NEW r \in Run, PCPrepareReply(r) \/ PCCommit(r) \/ WaitForPCCommit(r)
      PROVE  Up /\ Down2
  <2>1. (\E q \in Run, t \in Tx : Starts(q, t)) \/ run' = Moved(r, "end")
    BY <1>2, FollowedKinds DEF PCPrepareReply, PCCommit, WaitForPCCommit, Quiet
  <2>2. log' = log
    BY <1>2 DEF PCPrepareReply, PCCommit, WaitForPCCommit, replica
  <2>3. (\E q \in Run, t \in Tx : Starts(q, t)) => Down2
    BY DEF Starts
  <2> QED
    BY <1>c, <1>g, <2>1, <2>2, <2>3 DEF RunPc
<1>3. ASSUME NEW r \in Run, FinishCommits(r) PROVE Up /\ Down2
  <2>1. run[r].slot \in Slot
    BY <1>3, <1>a, RunFacts DEF SlotInv, FinishCommits
  <2>2. log' = log \/ SaveCommit(Leader, run[r].slot, run[r].tx, run[r].status)
    BY <1>3 DEF FinishCommits
  <2>3. Up
    BY <1>a, <1>c, <2>1, <2>2, SaveCommitState DEF Up
  <2>4. Down2
    BY <1>3, <1>f DEF FinishCommits, RunPc
  <2> QED
    BY <2>3, <2>4
<1>4. ASSUME NEW n \in Node, Execute(n) PROVE Up /\ Down2
  BY <1>4, <1>d, <1>e DEF Execute, Executed
<1>5. ASSUME NEW n \in Node, SetStatus(n) \/ SetByzantine(n) PROVE Up /\ Down2
  BY <1>5, <1>c, <1>d DEF SetStatus, SetByzantine, replica
<1>6. ASSUME NEW n \in Node, NEW r \in Run,
             PrePrepare(n, r) \/ Prepare(n, r) \/ PrepareTimeout(n, r)
               \/ SendPrepare(n, r) \/ SendCommit(n, r) \/ Commit(n, r) \/ CommitTimeout(n, r)
      PROVE  Up /\ Down2
  BY <1>6, <1>c, <1>d DEF PrePrepare, Prepare, PrepareTimeout, SendPrepare, SendCommit, Commit,
                          CommitTimeout, replica
<1>7. ASSUME NEW n \in Node, NEW r \in Run, PrePrepareLocked(n, r) PROVE Up /\ Down2
  <2>1. n # Leader
    BY <1>7, <1>a DEF LeaderJob, PrePrepareLocked
  <2>2. log'[Leader] = log[Leader]
    BY <1>7, <1>a, <2>1 DEF PrePrepareLocked, TypeOK
  <2> QED
    BY <1>7, <1>b, <1>d, <2>2 DEF PrePrepareLocked, Up
<1>8. ASSUME NEW n \in Node, NEW r \in Run, PrepareDone(n, r) \/ CommitDone(n, r) PROVE Up /\ Down2
  <2>1. run[r].slot \in Slot /\ run' = run
    BY <1>8, <1>a, RunFacts DEF SlotInv, PrepareDone, CommitDone
  <2>2. CASE PrepareDone(n, r)
    BY <1>d, <1>e, <2>1, <2>2 DEF PrepareDone, Prepared
  <2>3. CASE CommitDone(n, r)
    <3>1. log' = log \/ SaveCommit(n, run[r].slot, run[r].tx, PPStatus(r))
      BY <2>3 DEF CommitDone
    <3> QED
      BY <1>a, <1>c, <1>d, <2>1, <3>1, SaveCommitState DEF Up
  <2> QED
    BY <1>8, <2>2, <2>3
<1>9. ASSUME NEW n \in Node, NEW r \in Run, NEW q \in Run, CollectPrepare(n, r, q) \/ CollectCommit(n, r, q)
      PROVE  Up /\ Down2
  <2>1. run[q] \in RunRec
    BY <1>a DEF TypeOK
  <2>2. \A u \in Run : run'[u].pc = run[u].pc /\ run'[u].slot = run[u].slot
    <3>1. CASE CollectPrepare(n, r, q)
      BY <1>a, <2>1, <3>1 DEF CollectPrepare, TypeOK, RunRec
    <3>2. CASE CollectCommit(n, r, q)
      BY <1>a, <2>1, <3>2 DEF CollectCommit, TypeOK, RunRec
    <3> QED
      BY <1>9, <3>1, <3>2
  <2> QED
    BY <1>9, <1>c, <2>2 DEF CollectPrepare, CollectCommit, replica
<1>10. ASSUME NEW t \in Tx, ExecuteTransaction(t) \/ PCPrepare(t) PROVE Up /\ Down2
  <2>1. (\E q \in Run : Starts(q, t)) \/ run' = run
    BY <1>10, ExecuteTransactionStarts, PCPrepareStarts DEF ExecuteTransaction, Quiet
  <2>2. (\E q \in Run : Starts(q, t)) => Down2
    BY DEF Starts
  <2>3. log' = log
    BY <1>10 DEF ExecuteTransaction, PCPrepare, replica
  <2>4. Down2
    <3> HIDE DEF Down2
    <3> QED
      BY <1>d, <2>1, <2>2
  <2> QED
    BY <1>c, <2>3, <2>4
<1>11. CASE UNCHANGED vars
  BY <1>0, <1>11, <1>c, <1>d DEF vars, replica
<1> HIDE DEF Down2
<1> QED
  BY <1>0, <1>1, <1>2, <1>3, <1>4, <1>5, <1>6, <1>7, <1>8, <1>9, <1>10, <1>11
     DEF Next, LeaderStep, ServerStep, ClientStep, OperatorStep

\* The operator makes no leader Byzantine that is not among his choices.
LEMMA NextHonest ==
    ASSUME HonestLeader, TypeOK, ~byz[Leader], [Next]_vars
    PROVE  ~byz'[Leader]
<1>1. ASSUME NEW n \in Node, SetByzantine(n) PROVE ~byz'[Leader]
  <2>1. n # Leader /\ byz' = [byz EXCEPT ![n] = ~byz[n]]
    BY <1>1 DEF SetByzantine, HonestLeader
  <2> QED
    BY <2>1, ClusterAssumption DEF TypeOK
<1>2. ASSUME NEW r \in Run,
             BalanceTooLow(r) \/ PrePrepareRun(r) \/ FinishPrepares(r) \/ FinishCommits(r)
               \/ PCPrepareReply(r) \/ CommitRemote(r) \/ PCCommit(r) \/ WaitForPCCommit(r)
      PROVE  byz' = byz
  BY <1>2 DEF BalanceTooLow, PrePrepareRun, FinishPrepares, FinishCommits, PCPrepareReply, CommitRemote,
              PCCommit, WaitForPCCommit, flags
<1>3. ASSUME NEW n \in Node, ServerStep(n) PROVE byz' = byz
  BY <1>3 DEF ServerStep, Execute, PrePrepare, PrePrepareLocked, Prepare, PrepareDone, PrepareTimeout,
              SendPrepare, SendCommit, Commit, CommitDone, CommitTimeout,
              CollectPrepare, CollectCommit, flags
<1>4. CASE ClientStep \/ UNCHANGED vars
  <2>1. byz' = byz
    BY <1>4 DEF ClientStep, ExecuteTransaction, PCPrepare, vars, flags
  <2> QED
    BY <2>1
<1>5. ASSUME NEW n \in Node, SetStatus(n) PROVE byz' = byz
  BY <1>5 DEF SetStatus
<1> QED
  BY <1>1, <1>2, <1>3, <1>4, <1>5 DEF Next, LeaderStep, OperatorStep

\* Two runs under way in one slot are one run.
LEMMA OneRunPerSlot ==
    ASSUME LogInv, OneRun, IntraCluster, NEW q \in Run, NEW r \in Run, Running(q), Running(r),
           run[q].slot = run[r].slot, run[q].slot # 0
    PROVE  q = r
<1>1. run[q].tx = run[r].tx /\ run[r].tx \in Tx
  BY DEF LogInv, SlotInv, SlotsAssigned, RunsWellFormed, Running
<1> QED
  BY <1>1 DEF OneRun, IntraCluster

\* A run in the second round stays prepared at the leader.
LEMMA NextCommitsPrepared ==
    ASSUME LogInv, LeaderJob, OneRun, IntraCluster, LeaderFirst, [Next]_vars,
           NEW q \in Run, run'[q].pc = "commits"
    PROVE  log'[Leader][run'[q].slot].state >= Prepared
<1>a. TypeOK /\ Leader \in Node /\ RunsWellFormed
  BY ClusterAssumption DEF LogInv, SlotInv
<1>b. \A s \in Slot : log[Leader][s].state \in 0..5
  BY <1>a DEF TypeOK, Entry
<1>c. ASSUME run[q].pc = "commits"
      PROVE  run[q].slot \in Slot /\ log[Leader][run[q].slot].state >= Prepared /\ Running(q)
  BY <1>a, <1>c DEF RunsWellFormed, LeaderFirst, Running
<1>1. CASE /\ \A s \in Slot : log'[Leader][s].state >= log[Leader][s].state
           /\ \A u \in Run : run'[u].pc = "commits" => run[u].pc = "commits" /\ run'[u].slot = run[u].slot
  <2>1. run[q].pc = "commits" /\ run'[q].slot = run[q].slot
    BY <1>1
  <2>2. TypeOK'
    BY NextType DEF LogInv
  <2>3. log'[Leader][run[q].slot].state \in 0..5
    BY <1>a, <1>c, <2>1, <2>2 DEF TypeOK, Entry
  <2> QED
    BY <1>1, <1>b, <1>c, <2>1, <2>3 DEF Prepared
<1>2. ASSUME NEW r \in Run, FinishPrepares(r)
      PROVE  log'[Leader][run'[q].slot].state >= Prepared
  <2>1. run[r].slot \in Slot /\ {"failed", "commits"} \subseteq RunPc /\ Prepared \in 0..5
    BY <1>2, <1>a, RunFacts DEF FinishPrepares, RunPc, Prepared
  <2>2. CASE log' = Raised(Leader, run[r].slot, Prepared) /\ run' = Moved(r, "commits")
    <3>1. /\ log'[Leader][run[r].slot].state >= Prepared
          /\ \A u \in Slot : log'[Leader][u].state >= log[Leader][u].state
      BY <1>a, <2>1, <2>2, RaisedState
    <3>2. run'[r].slot = run[r].slot /\ \A u \in Run \ {r} : run'[u] = run[u]
      BY <1>a, <2>1, <2>2, MovedRun
    <3>3. CASE q = r
      BY <3>1, <3>2, <3>3
    <3>4. CASE q # r
      <4>1. run'[q] = run[q] /\ run[q].pc = "commits"
        BY <3>2, <3>4
      <4>2. TypeOK'
        BY NextType DEF LogInv
      <4>3. log'[Leader][run[q].slot].state \in 0..5
        BY <1>a, <1>c, <4>1, <4>2 DEF TypeOK, Entry
      <4> QED
        BY <1>b, <1>c, <3>1, <4>1, <4>3 DEF Prepared
    <3> QED
      BY <3>3, <3>4
  <2>3. CASE log' = log /\ run' = Moved(r, "failed")
    <3>1. run'[r].pc = "failed" /\ \A u \in Run \ {r} : run'[u] = run[u]
      BY <1>a, <2>1, <2>3, MovedRun
    <3>2. q # r /\ run'[q] = run[q]
      BY <3>1
    <3> QED
      BY <1>c, <2>3, <3>2
  <2> QED
    BY <1>2, <2>2, <2>3 DEF FinishPrepares, LeaderFirst
<1>3. ASSUME NEW r \in Run, PrePrepareRun(r)
      PROVE  log'[Leader][run'[q].slot].state >= Prepared
  <2> DEFINE s == IF run[r].slot = 0 THEN seq ELSE run[r].slot
  <2>1. s \in Slot /\ run[r].pc = "locks" /\ run' = [run EXCEPT ![r] = [run[r] EXCEPT !.slot = s, !.pc = "prepares"]]
    BY <1>3 DEF PrePrepareRun
  <2>2. \A u \in Slot : u # s => log'[Leader][u] = log[Leader][u]
    BY <1>3, <1>a, <2>1 DEF PrePrepareRun, TypeOK
  <2>3. run[q].slot = s /\ run[q].pc = "commits" => run[r].slot = s
    BY <1>a, <1>c DEF LogInv, SlotInv, SlotsAssigned, TypeOK, Slot
  <2> HIDE DEF s
  <2>4. q # r /\ run'[q] = run[q]
    BY <1>a, <2>1 DEF TypeOK, RunRec
  <2>5. run[q].slot # s
    BY <1>c, <2>1, <2>3, <2>4, OneRunPerSlot DEF Running, Slot
  <2> QED
    BY <1>c, <2>2, <2>4, <2>5
<1> QED
  BY <1>1, <1>2, <1>3, StateKinds DEF LogInv

\* Only two steps store anything.
LEMMA StoredKinds ==
    ASSUME [Next]_vars
    PROVE  \/ UNCHANGED <<store, commCerts>>
           \/ \E q \in Run : FinishCommits(q)
           \/ \E n \in Node, r \in Run : CommitDone(n, r)
<1> DEFINE Same == UNCHANGED <<store, commCerts>>
<1>1. ASSUME NEW r \in Run, BalanceTooLow(r) \/ PrePrepareRun(r) \/ FinishPrepares(r)
                            \/ PCPrepareReply(r) \/ CommitRemote(r) \/ PCCommit(r) \/ WaitForPCCommit(r)
      PROVE  Same
  BY <1>1 DEF BalanceTooLow, PrePrepareRun, FinishPrepares, PCPrepareReply, CommitRemote, PCCommit,
              WaitForPCCommit, certs, replica
<1>2. ASSUME NEW n \in Node, ServerStep(n), \A r \in Run : ~CommitDone(n, r) PROVE Same
  BY <1>2 DEF ServerStep, Execute, PrePrepare, PrePrepareLocked, Prepare, PrepareDone, PrepareTimeout,
              SendPrepare, SendCommit, Commit, CommitTimeout, CollectPrepare, CollectCommit, certs, replica
<1>3. CASE ClientStep \/ OperatorStep \/ UNCHANGED vars
  BY <1>3 DEF ClientStep, OperatorStep, ExecuteTransaction, PCPrepare, SetStatus, SetByzantine,
              vars, certs, replica
<1> QED
  BY <1>1, <1>2, <1>3 DEF Next, LeaderStep

\* Every vote a leader has collected for a prepared slot is valid for it.
LEMMA AllVotesValid ==
    ASSUME LogInv, Cast, LeaderFirst, NEW q \in Run, run[q].pc = "commits"
    PROVE  ValidCommits(Leader, run[q].slot, run[q].commits) = run[q].commits
<1>1. run[q].slot \in Slot /\ log[Leader][run[q].slot].state >= Prepared
  BY DEF LogInv, SlotInv, RunsWellFormed, LeaderFirst
<1>2. ~ (log[Leader][run[q].slot].state < Prepared)
  <2>1. log[Leader][run[q].slot].state \in 0..5
    BY <1>1, ClusterAssumption DEF LogInv, SlotInv, TypeOK, Entry
  <2> QED
    BY <1>1, <2>1 DEF Prepared
<1>3. \A v \in run[q].commits : log[Leader][run[q].slot].tx = run[v[2]].tx
  BY <1>1 DEF Cast, Ballot, Cert, LogInv, SlotInv, SlotsAssigned, Slot
<1> QED
  BY <1>2, <1>3 DEF ValidCommits, ValidCerts

LEMMA NextLeaderFirst ==
    ASSUME LogInv, LeaderJob, Cast, OneRun, IntraCluster, HonestLeader, LeaderFirst, [Next]_vars
    PROVE  LeaderFirst'
<1> DEFINE Full(s) == Cardinality(commCerts[s]) >= CommitQuorum
           First == /\ \A s \in Slot : Full(s)' => store'[Leader][s].tx # NoTx
                    /\ \A n \in Node, s \in Slot : store'[n][s].tx # NoTx => store'[Leader][s].tx # NoTx
<1>a. TypeOK /\ Leader \in Node /\ ~byz[Leader] /\ NoTx \notin Tx
  BY ClusterAssumption DEF LogInv, SlotInv, LeaderFirst
<1>b. /\ \A s \in Slot : Full(s) => store[Leader][s].tx # NoTx
      /\ \A n \in Node, s \in Slot : store[n][s].tx # NoTx => store[Leader][s].tx # NoTx
  BY DEF LeaderFirst
<1>1. ASSUME UNCHANGED <<store, commCerts>> PROVE First
  BY <1>1, <1>b
<1>2. ASSUME NEW q \in Run, FinishCommits(q) PROVE First
  <2> DEFINE s == run[q].slot
  <2>1. s \in Slot /\ run[q].tx \in Tx /\ run[q].pc = "commits" /\ log[Leader][s].tx = run[q].tx
    BY <1>2, <1>a, RunFacts DEF LogInv, SlotInv, FinishCommits, SlotsAssigned, Slot
  <2>2. commCerts' = [commCerts EXCEPT ![s] = run[q].commits]
    BY <1>2 DEF FinishCommits
  <2>3. ValidCommits(Leader, s, run[q].commits) = run[q].commits
    BY <2>1, AllVotesValid
  <2>4. CASE Cardinality(run[q].commits) >= CommitQuorum
    <3>1. SaveCommit(Leader, s, run[q].tx, run[q].status)
      BY <1>2, <2>3, <2>4 DEF FinishCommits
    <3>2. \A m \in Node, u \in Slot : m # Leader \/ u # s => store'[m][u] = store[m][u]
      BY <1>a, <2>1, <3>1, SaveCommitElsewhere
    <3>3. store'[Leader][s].tx # NoTx
      BY <1>a, <2>1, <3>1 DEF SaveCommit, TypeOK
    <3>4. \A u \in Slot : u # s => commCerts'[u] = commCerts[u]
      BY <1>a, <2>2 DEF TypeOK
    <3> HIDE DEF s
    <3> QED
      BY <1>a, <1>b, <3>2, <3>3, <3>4
  <2>5. CASE ~ (Cardinality(run[q].commits) >= CommitQuorum)
    <3>1. store' = store
      BY <1>2, <2>3, <2>5 DEF FinishCommits
    <3>2. commCerts'[s] = run[q].commits /\ \A u \in Slot : u # s => commCerts'[u] = commCerts[u]
      BY <1>a, <2>1, <2>2 DEF TypeOK
    <3>3. \A u \in Slot : Full(u)' => u # s /\ Full(u)
      BY <2>5, <3>2 DEF CommitQuorum
    <3> HIDE DEF s, Full
    <3> QED
      BY <1>b, <3>1, <3>3
  <2> QED
    BY <2>4, <2>5
<1>3. ASSUME NEW n \in Node, NEW r \in Run, CommitDone(n, r) PROVE First
  <2> DEFINE s == run[r].slot
  <2>1. s \in Slot /\ n # Leader /\ Full(s) /\ commCerts' = commCerts
    BY <1>3, <1>a, RunFacts DEF LogInv, SlotInv, LeaderJob, CommitDone, certs
  <2>2. store' = store \/ SaveCommit(n, s, run[r].tx, PPStatus(r))
    BY <1>3 DEF CommitDone
  <2>3. \A m \in Node, u \in Slot : m # n \/ u # s => store'[m][u] = store[m][u]
    BY <1>a, <2>1, <2>2, SaveCommitElsewhere
  <2> HIDE DEF s
  <2>4. \A u \in Slot : store'[Leader][u] = store[Leader][u]
    BY <1>a, <2>1, <2>3
  <2>5. \A u \in Slot : Full(u)' => Full(u)
    BY <2>1
  <2> HIDE DEF Full
  <2> QED
    BY <1>b, <2>1, <2>3, <2>4, <2>5
<1>4. First
  BY <1>1, <1>2, <1>3, StoredKinds
<1>5. ~byz'[Leader]
  BY <1>a, NextHonest
<1> HIDE DEF Full
<1> QED
  BY <1>4, <1>5, NextCommitsPrepared DEF LeaderFirst, Full, CommitQuorum

\* The balances were never below zero as far as the leader has executed.
Funded == \E h : /\ History(h)
                 /\ \A k \in 1..(MaxSlot + 1) : k <= exec[Leader] => \A a \in Shard : h[k][a] >= 0

LEMMA NextFunded ==
    ASSUME LogInv, Funded, Solvent',
           Serves \/ (\E t \in Tx : Orders(t)) \/ (\E n \in Node : Executes(n))
    PROVE  Funded'
<1>a. TypeOK /\ Leader \in Node
  BY ClusterAssumption DEF LogInv, SlotInv
<1>1. PICK h : /\ History(h)
               /\ \A k \in 1..(MaxSlot + 1) : k <= exec[Leader] => \A a \in Shard : h[k][a] >= 0
  BY DEF Funded
<1>2. PICK g : History(g)' /\ \A k \in 1..(MaxSlot + 1) : k <= seq => g[k] = h[k]
  BY <1>1, NextHistory DEF Continues
<1>3. /\ exec[Leader] \in Int /\ seq \in Int /\ exec[Leader] <= seq
      /\ exec'[Leader] \in {exec[Leader], exec[Leader] + 1}
  <2>1. exec[Leader] \in Int /\ seq \in Int /\ exec[Leader] <= seq
    BY <1>a, ExecWithin
  <2>2. exec'[Leader] \in {exec[Leader], exec[Leader] + 1}
    BY <1>a DEF Serves, Idles, Orders, Executes, TypeOK
  <2> QED
    BY <2>1, <2>2
<1>4. ASSUME NEW k \in 1..(MaxSlot + 1), k <= exec'[Leader], NEW a \in Shard
      PROVE  g[k][a] >= 0
  <2>1. CASE k <= exec[Leader]
    BY <1>1, <1>2, <1>3, <2>1, <1>4
  <2>2. CASE ~ (k <= exec[Leader])
    <3>1. k = exec'[Leader]
      BY <1>3, <1>4, <2>2
    <3>2. bal'[Leader] = g[k]
      BY <1>2, <1>a, <3>1 DEF History
    <3> QED
      BY <3>2 DEF Solvent
  <2> QED
    BY <2>1, <2>2
<1> QED
  BY <1>2, <1>4 DEF Funded

\* A slot that some server has executed and the leader has not is due at the leader.
LEMMA AheadDue ==
    ASSUME LogInv, LeaderFirst, NEW n \in Node, NEW k \in Slot, k >= exec[Leader], k < exec[n]
    PROVE  /\ log[Leader][k].tx \in Tx /\ Due(log[Leader][k].tx)
           /\ k < seq
<1>a. TypeOK /\ Leader \in Node /\ NoTx \notin Tx
  BY ClusterAssumption DEF LogInv, SlotInv
<1>1. store[n][k].tx # NoTx
  BY DEF LogInv, Reported
<1>2. store[Leader][k].tx # NoTx
  BY <1>1 DEF LeaderFirst
<1>3. log[Leader][k].tx = store[Leader][k].tx
  BY <1>2, <1>a DEF LogInv, Reported
<1>4. store[Leader][k].tx \in Tx
  BY <1>2, <1>a DEF TypeOK, DBUnit
<1>5. ~ (k >= seq)
  BY <1>2, <1>3 DEF LogInv, SlotInv, SlotsAssigned
<1> QED
  BY <1>3, <1>4, <1>5, <1>a DEF Due, TypeOK, Slot

\* The requests that are due in two slots pay from different accounts, and neither is
\* paid from the other's account.
LEMMA DueApart ==
    ASSUME LogInv, Logged, IntraCluster, Solvent, NEW t \in Tx, NEW u \in Tx, Due(t), Due(u), t # u
    PROVE  Body[u].from \notin Accts(t)
  BY ReservedApart, AccountsOf DEF Solvent

\* Nor were they below zero in what other servers execute ahead of the leader: each of
\* those slots pays from an account of its own, which the leader has checked.
LEMMA AheadFunded ==
    ASSUME LogInv, Logged, IntraCluster, Solvent, LeaderFirst, NEW h, History(h),
           NEW n \in Node, exec[n] >= exec[Leader], NEW a \in Shard
    PROVE  bal[n][a] >= 0
<1> DEFINE e == exec[Leader]
           Spent(k, x) == \E j \in Slot : j >= e /\ j < k /\ Body[log[Leader][j].tx].from = x
           Good(k) == \A x \in Shard : h[k][x] >= 0 /\ (Spent(k, x) \/ h[k][x] >= bal[Leader][x])
           Bad == {k \in Nat : k >= e /\ k <= exec[n] /\ ~Good(k)}
<1>a. TypeOK /\ Leader \in Node /\ MaxSlot \in Nat /\ e \in 1..(MaxSlot + 1) /\ exec[n] \in 1..(MaxSlot + 1)
  BY ClusterAssumption DEF LogInv, SlotInv, TypeOK
<1>b. h \in [1..(MaxSlot + 1) -> [Shard -> Int]] /\ h[e] = bal[Leader] /\ bal[n] = h[exec[n]]
  BY <1>a DEF History
<1>c. \A x \in Shard : bal[Leader][x] \in Int /\ bal[Leader][x] >= 0
  BY <1>a DEF TypeOK, Solvent
<1>1. Good(e)
  BY <1>b, <1>c
<1>2. ASSUME NEW m \in Nat, m > e, m <= exec[n], Good(m - 1)
      PROVE  Good(m)
  <2> DEFINE k == m - 1
  <2>1. k \in Slot /\ k >= e /\ k < exec[n] /\ k + 1 = m /\ k \in 1..(MaxSlot + 1) /\ m \in 1..(MaxSlot + 1)
    BY <1>2, <1>a DEF Slot
  <2>2. PICK t \in Tx : t = log[Leader][k].tx
    BY <2>1, AheadDue
  <2>3. Due(t) /\ k < seq
    BY <2>1, <2>2, AheadDue
  <2>4. Reserved(t) /\ Body[t].amount \in Nat /\ NoTx \notin Tx
    BY <2>3, AccountsOf, ClusterAssumption DEF Solvent
  <2>5. \A x \in Shard : h[m][x] = h[k][x] + Net(t, x)
    BY <2>1, <2>2, <2>3, <2>4 DEF History, Effect
  <2>6. ASSUME NEW x \in Shard, x = Body[t].from PROVE ~Spent(k, x) /\ Spent(m, x)
    <3>1. ASSUME NEW j \in Slot, j >= e, j < k PROVE Body[log[Leader][j].tx].from # x
      <4>1. PICK u \in Tx : u = log[Leader][j].tx
        BY <2>1, <3>1, <1>a, AheadDue DEF Slot
      <4>2. Due(u)
        BY <2>1, <3>1, <4>1, <1>a, AheadDue DEF Slot
      <4>3. u # t
        BY <2>1, <2>2, <2>4, <3>1, <4>1 DEF Logged, IntraCluster, Slot
      <4> QED
        BY <2>3, <2>6, <4>1, <4>2, <4>3, DueApart, AccountsOf
    <3>2. Spent(m, x)
      BY <2>1, <2>2, <2>6
    <3> QED
      BY <3>1, <3>2
  <2>7. Good(k)
    BY <1>2
  <2> SUFFICES ASSUME NEW x \in Shard PROVE h[m][x] >= 0 /\ (Spent(m, x) \/ h[m][x] >= bal[Leader][x])
    OBVIOUS
  <2>8. h[k][x] \in Int /\ h[k][x] >= 0 /\ (Spent(k, x) \/ h[k][x] >= bal[Leader][x])
    BY <1>b, <2>1, <2>7
  <2>9. Spent(k, x) => Spent(m, x)
    BY <2>1 DEF Slot
  <2> HIDE DEF Spent, Good, k
  <2>10. CASE x = Body[t].from
    <3>1. h[k][x] >= bal[Leader][x] /\ bal[Leader][x] >= Body[t].amount
      BY <2>4, <2>6, <2>8, <2>10 DEF Reserved
    <3> QED
      BY <1>c, <2>4, <2>5, <2>6, <2>8, <2>10, <3>1 DEF Net
  <2>11. CASE x # Body[t].from
    <3>1. Net(t, x) \in Nat
      BY <2>4, <2>11 DEF Net
    <3> QED
      BY <1>c, <2>5, <2>8, <2>9, <3>1
  <2> QED
    BY <2>10, <2>11
<1>3. Bad = {}
  <2> SUFFICES ASSUME Bad # {} PROVE FALSE
    OBVIOUS
  <2>1. PICK m \in Bad : \A k \in Bad : m <= k
    BY SmallestOf
  <2>2. m \in Nat /\ m >= e /\ m <= exec[n] /\ ~Good(m)
    BY <2>1
  <2> HIDE DEF Good
  <2>3. m > e
    BY <1>1, <2>2, <1>a
  <2>4. Good(m - 1)
    BY <2>1, <2>2, <2>3, <1>a
  <2> QED
    BY <1>2, <2>2, <2>3, <2>4
<1>4. Good(exec[n])
  <2> HIDE DEF Good
  <2> QED
    BY <1>3, <1>a
<1> QED
  BY <1>4, <1>b

-----------------------------------------------------------------------------
(* Locks and balances in every behaviour.                                  *)

\* In a cluster that serves requests of its own, whatever is retried, times out or
\* fails, and whoever is Byzantine: a request that is voted on or waits for its execution
\* has its accounts locked and its money set aside at the leader.
THEOREM SolventInvariant == IntraCluster /\ Spec => []Solvent
<1>1. Init => Solvent
  <2> SUFFICES ASSUME Init PROVE Solvent
    OBVIOUS
  <2>1. Leader \in Node /\ NoTx \notin Tx /\ InitialBalance \in Nat
    BY ClusterAssumption
  <2>2. /\ \A r \in Run : run[r].pc = "none"
        /\ \A s \in Slot : store[Leader][s].tx = NoTx
        /\ \A a \in Shard : bal[Leader][a] = InitialBalance
    BY <2>1 DEF Init, NoRun, NoUnit
  <2> QED
    BY <2>1, <2>2 DEF Solvent, Polled, Collects, Due
<1>2. IntraCluster /\ VoteInv /\ IntraInv /\ Solvent /\ [Next]_vars => Solvent'
  BY NextSolvent DEF VoteInv, IntraInv
<1>3. SUFFICES ASSUME IntraCluster PROVE Spec => []Solvent
  OBVIOUS
<1> QED
  BY <1>1, <1>2, <1>3, VoteInvariant, IntraInvariant, PTL DEF Spec

\* What such a leader has decided and not yet executed keeps its accounts locked there.
THEOREM DecidedStaysLockedHolds == IntraCluster /\ Spec => []DecidedStaysLocked
<1>1. ASSUME LogInv, Solvent PROVE DecidedStaysLocked
  <2> SUFFICES ASSUME NEW s \in Slot, s >= exec[Leader], store[Leader][s].tx # NoTx
               PROVE  \A a \in Accts(store[Leader][s].tx) : lock[Leader][a] = store[Leader][s].tx
    BY DEF DecidedStaysLocked
  <2>1. store[Leader][s] \in DBUnit
    BY <1>1, ClusterAssumption DEF LogInv, SlotInv, TypeOK
  <2>2. PICK t \in Tx : t = store[Leader][s].tx
    BY <2>1 DEF DBUnit
  <2>3. Reserved(t)
    BY <1>1, <2>2 DEF Solvent, Due
  <2> QED
    BY <2>2, <2>3 DEF Reserved
<1> QED
  BY <1>1, LogInvariant, SolventInvariant, PTL

\* Nothing is stored anywhere before an honest leader has stored it.
LEMMA LeaderFirstInvariant == IntraCluster /\ HonestLeader /\ Spec => []LeaderFirst
<1>1. Init => LeaderFirst
  <2> SUFFICES ASSUME Init PROVE LeaderFirst
    OBVIOUS
  <2>1. Leader \in Node /\ F \in Nat
    BY ClusterAssumption
  <2>2. /\ ~byz[Leader]
        /\ \A q \in Run : run[q].pc = "none"
        /\ \A s \in Slot : commCerts[s] = {}
        /\ \A n \in Node, s \in Slot : store[n][s].tx = NoTx
    BY <2>1 DEF Init, NoRun, NoUnit
  <2>3. \A s \in Slot : ~ (Cardinality(commCerts[s]) >= CommitQuorum)
    <3>1. Cardinality({}) = 0 /\ ~ (0 >= CommitQuorum)
      BY <2>1, FS_EmptySet DEF CommitQuorum
    <3> QED
      BY <2>2, <3>1
  <2> QED
    BY <2>2, <2>3 DEF LeaderFirst
<1>2. IntraCluster /\ HonestLeader /\ VoteInv /\ IntraInv /\ LeaderFirst /\ [Next]_vars => LeaderFirst'
  BY NextLeaderFirst DEF VoteInv, IntraInv
<1>3. SUFFICES ASSUME IntraCluster, HonestLeader PROVE Spec => []LeaderFirst
  OBVIOUS
<1> QED
  BY <1>1, <1>2, <1>3, VoteInvariant, IntraInvariant, PTL DEF Spec

LEMMA FundedInvariant == IntraCluster /\ Spec => []Funded
<1>1. Init /\ IntraInv /\ Solvent => Funded
  <2> SUFFICES ASSUME Init, IntraInv, Solvent PROVE Funded
    OBVIOUS
  <2>1. PICK h : History(h)
    BY DEF IntraInv, Replayed
  <2>2. Leader \in Node /\ exec[Leader] = 1
    BY ClusterAssumption DEF Init
  <2>3. h[1] = bal[Leader]
    BY <2>1, <2>2 DEF History
  <2>4. \A k \in 1..(MaxSlot + 1) : k <= exec[Leader] => k = 1
    BY <2>2
  <2>5. \A k \in 1..(MaxSlot + 1) : k <= exec[Leader] => \A a \in Shard : h[k][a] >= 0
    BY <2>3, <2>4 DEF Solvent
  <2> QED
    BY <2>1, <2>5 DEF Funded
<1>2. IntraCluster /\ IntraInv /\ Funded /\ Solvent' /\ [Next]_vars => Funded'
  BY NextKinds, NextFunded DEF IntraInv
<1>3. SUFFICES ASSUME IntraCluster PROVE Spec => []Funded
  OBVIOUS
<1> QED
  BY <1>1, <1>2, <1>3, IntraInvariant, SolventInvariant, PTL DEF Spec

\* Under an honest leader no executor of such a cluster takes an account below zero, those
\* that are ahead of the leader's included, although only the leader checks the balances,
\* and long before the executions.
THEOREM NoOverdraftHolds == IntraCluster /\ HonestLeader /\ Spec => []NoOverdraft
<1>1. ASSUME IntraCluster, IntraInv, Solvent, LeaderFirst, Funded
      PROVE  NoOverdraft
  <2> SUFFICES ASSUME NEW n \in Node, NEW a \in Shard PROVE bal[n][a] >= 0
    BY DEF NoOverdraft
  <2>1. PICK h : /\ History(h)
                 /\ \A k \in 1..(MaxSlot + 1) : k <= exec[Leader] => \A x \in Shard : h[k][x] >= 0
    BY <1>1 DEF Funded
  <2>2. exec[n] \in 1..(MaxSlot + 1) /\ exec[Leader] \in 1..(MaxSlot + 1) /\ bal[n] = h[exec[n]]
    BY <1>1, <2>1, ClusterAssumption DEF IntraInv, LogInv, SlotInv, TypeOK, History
  <2>3. CASE exec[n] <= exec[Leader]
    BY <2>1, <2>2, <2>3
  <2>4. CASE exec[n] >= exec[Leader]
    BY <1>1, <2>1, <2>4, AheadFunded DEF IntraInv
  <2> QED
    BY <2>2, <2>3, <2>4
<1>2. SUFFICES ASSUME IntraCluster, HonestLeader PROVE Spec => []NoOverdraft
  OBVIOUS
<1> QED
  BY <1>1, <1>2, IntraInvariant, SolventInvariant, LeaderFirstInvariant, FundedInvariant, PTL

-----------------------------------------------------------------------------
(* The replicated log.                                                     *)

LEMMA InitRefines == Init => RL!RLInit
<1> SUFFICES ASSUME Init PROVE RL!RLInit
  OBVIOUS
<1>1. [s \in Slot |-> log[Leader][s].tx] = [s \in Slot |-> NoTx]
  BY ClusterAssumption DEF Init, NoEntry
<1>2. [n \in Node |-> [s \in Slot |-> store[n][s].tx]] = [n \in Node |-> [s \in Slot |-> NoTx]]
  BY DEF Init, NoUnit
<1>3. [n \in Node |-> exec[n] - 1] = [n \in Node |-> 0]
  BY DEF Init
<1>4. {t \in Tx : acks[t]["success"] > F} = {}
  <2>1. \A t \in Tx : acks[t]["success"] = 0
    BY DEF Init, Result
  <2> QED
    BY <2>1, ClusterAssumption
<1> QED
  BY <1>1, <1>2, <1>3, <1>4 DEF RL!RLInit

\* A step that neither gives a slot nor executes anything answers nobody.
LEMMA SameAnswers ==
    ASSUME LogInv, \A t \in Tx : \/ acks'[t]["success"] = acks[t]["success"]
                                 \/ acks'[t]["success"] = 0 /\ acks[t]["success"] <= F
    PROVE  {t \in Tx : acks'[t]["success"] > F} = {t \in Tx : acks[t]["success"] > F}
<1>1. \A t \in Tx : acks[t]["success"] \in Nat /\ F \in Nat
  BY ClusterAssumption DEF LogInv, SlotInv, TypeOK, Result
<1> QED
  BY <1>1

LEMMA ServesRefines == ASSUME LogInv, Serves PROVE [RL!RLNext]_(RL!rlvars)
<1>1. [s \in Slot |-> log'[Leader][s].tx] = [s \in Slot |-> log[Leader][s].tx]
  BY DEF Serves, Idles
<1>2. [n \in Node |-> exec'[n] - 1] = [n \in Node |-> exec[n] - 1]
  BY DEF Serves, Idles
<1>3. {t \in Tx : acks'[t]["success"] > F} = {t \in Tx : acks[t]["success"] > F}
  BY SameAnswers DEF Serves, Idles
<1>4. CASE StoresSame
  <2>1. [n \in Node |-> [s \in Slot |-> store'[n][s].tx]] = [n \in Node |-> [s \in Slot |-> store[n][s].tx]]
    BY <1>4 DEF StoresSame
  <2> QED
    BY <1>1, <1>2, <1>3, <2>1 DEF RL!rlvars
<1>5. ASSUME NEW n \in Node, NEW s \in Slot, Learns(n, s)
      PROVE  [RL!RLNext]_(RL!rlvars)
  <2>1. [m \in Node |-> [u \in Slot |-> store'[m][u].tx]]
          = [[m \in Node |-> [u \in Slot |-> store[m][u].tx]] EXCEPT ![n][s] = log[Leader][s].tx]
    <3>1. \A m \in Node, u \in Slot :
             store'[m][u].tx = IF m = n /\ u = s THEN log[Leader][s].tx ELSE store[m][u].tx
      BY <1>5 DEF Learns
    <3>2. \A m \in Node : m # n =>
             [u \in Slot |-> store'[m][u].tx] = [u \in Slot |-> store[m][u].tx]
      BY <3>1
    <3>3. [u \in Slot |-> store'[n][u].tx] = [[u \in Slot |-> store[n][u].tx] EXCEPT ![s] = log[Leader][s].tx]
      BY <3>1
    <3> QED
      BY <3>2, <3>3
  <2>2. [u \in Slot |-> log[Leader][u].tx][s] = log[Leader][s].tx /\ log[Leader][s].tx # NoTx
    BY <1>5 DEF Learns
  <2>3. RL!Learn(n, s)
    BY <1>1, <1>2, <1>3, <2>1, <2>2 DEF RL!Learn
  <2> QED
    BY <2>3 DEF RL!RLNext
<1> QED
  BY <1>4, <1>5 DEF Serves

LEMMA OrdersRefines ==
    ASSUME LogInv, NEW t \in Tx, Orders(t)
    PROVE  [RL!RLNext]_(RL!rlvars)
<1>1. seq \in Slot /\ seq \in Nat /\ NoTx \notin Tx
  BY ClusterAssumption DEF Orders, Slot
<1>2. \A u \in Slot : log[Leader][u].tx = NoTx <=> u >= seq
  BY <1>1 DEF LogInv, SlotInv, SlotsAssigned, Filled, Slot
<1>3. \A u \in Slot : log[Leader][u].tx # t
  BY DEF Orders
<1>4. [s \in Slot |-> log'[Leader][s].tx] = [[s \in Slot |-> log[Leader][s].tx] EXCEPT ![seq] = t]
  BY DEF Orders
<1>5. UNCHANGED <<store, exec, acks>>
  BY DEF Orders
<1>6. RL!Choose(seq, t)
  BY <1>1, <1>2, <1>3, <1>4, <1>5 DEF RL!Choose
<1> QED
  BY <1>1, <1>6 DEF RL!RLNext

\* The cardinality that the replicated log counts with is the one of this module.
LEMMA CardinalityOfLog == \A S : RL!Cardinality(S) = Cardinality(S)
BY DEF RL!Cardinality, Cardinality

\* The reply that makes a request answered is the one of its F + 1st server.
LEMMA ExecutesRefines ==
    ASSUME IntraInv, IntraInv', IntraCluster, NEW n \in Node, Executes(n)
    PROVE  [RL!RLNext]_(RL!rlvars)
<1> DEFINE answered == {t \in Tx : acks[t]["success"] > F}
           applied  == [m \in Node |-> exec[m] - 1]
           learned  == [m \in Node |-> [s \in Slot |-> store[m][s].tx]]
<1>a. LogInv
  BY DEF IntraInv
<1>1. PICK t \in Tx : t = store[n][exec[n]].tx
  BY <1>a, ExecutesTx
<1>2. /\ exec[n] \in Slot /\ t # NoTx /\ store' = store
      /\ exec' = [exec EXCEPT ![n] = exec[n] + 1]
      /\ acks'[t]["success"] = acks[t]["success"] + 1
      /\ \A u \in Tx : u # t => acks'[u]["success"] = acks[u]["success"]
      /\ \A s \in Slot : log'[Leader][s].tx = log[Leader][s].tx
  BY <1>1 DEF Executes
<1>3. exec \in [Node -> Int] /\ exec[n] \in Int /\ F \in Nat
      /\ \A u \in Tx : acks[u]["success"] \in Nat
  <2>1. exec \in [Node -> 1..(MaxSlot + 1)] /\ MaxSlot + 1 \in Int
    BY ClusterAssumption DEF IntraInv, LogInv, SlotInv, TypeOK
  <2>2. acks \in [Tx -> [Result -> Nat]] /\ "success" \in Result
    BY DEF IntraInv, LogInv, SlotInv, TypeOK, Result
  <2> QED
    BY <2>1, <2>2, ClusterAssumption
<1>4. applied[n] + 1 = exec[n] /\ applied' = [applied EXCEPT ![n] = exec[n]]
  <2>1. applied[n] = exec[n] - 1 /\ applied[n] + 1 = exec[n]
    BY <1>3
  <2>2. \A m \in Node : exec'[m] - 1 = IF m = n THEN exec[n] ELSE exec[m] - 1
    BY <1>2, <1>3
  <2> QED
    BY <2>1, <2>2
<1>5. [s \in Slot |-> log'[Leader][s].tx] = [s \in Slot |-> log[Leader][s].tx] /\ learned' = learned
  BY <1>2
<1>6. learned[n][exec[n]] = t
  BY <1>1, <1>2
<1>7. answered' = answered \/ (/\ answered' = answered \cup {t} /\ acks'[t]["success"] > F)
  BY <1>2, <1>3
<1>8. acks'[t]["success"] > F => Cardinality(RL!AppliedBy(t)) >= F + 1
  <2>1. RL!AppliedBy(t) = Doers(t)'
    <3>1. \A m \in Node : exec'[m] \in 1..(MaxSlot + 1)
      BY DEF IntraInv, LogInv, SlotInv, TypeOK
    <3>2. \A m \in Node, s \in Slot : s < exec'[m] <=> s \in 1..(exec'[m] - 1)
      BY <3>1 DEF Slot
    <3>3. \A m \in Node : 1..(exec'[m] - 1) \subseteq Slot
      BY <3>1, ClusterAssumption DEF Slot
    <3> QED
      BY <1>2, <3>2, <3>3 DEF Doers, RL!AppliedBy
  <2>2. acks'[t]["success"] <= Cardinality(Doers(t)')
    BY DEF IntraInv, Counted
  <2>3. Doers(t)' \subseteq Node /\ IsFiniteSet(Node)
    BY ClusterAssumption DEF Doers
  <2>4. Cardinality(Doers(t)') \in Nat
    BY <2>3, FS_Subset, FS_CardinalityType
  <2>5. acks'[t]["success"] \in Nat
    BY <1>2, <1>3
  <2> QED
    BY <1>3, <2>1, <2>2, <2>4, <2>5
<1>9. RL!Apply(n)
  <2>1. /\ applied[n] + 1 \in Slot /\ learned[n][applied[n] + 1] # NoTx
        /\ applied' = [applied EXCEPT ![n] = applied[n] + 1]
    BY <1>2, <1>4, <1>6
  <2>2. \/ answered' = answered
        \/ /\ Cardinality(RL!AppliedBy(learned[n][applied[n] + 1])) >= F + 1
           /\ answered' = answered \cup {learned[n][applied[n] + 1]}
    <3>1. learned[n][applied[n] + 1] = t
      BY <1>4, <1>6
    <3>2. RL!AppliedBy(learned[n][applied[n] + 1]) = RL!AppliedBy(t)
      BY <3>1 DEF RL!AppliedBy
    <3> HIDE DEF answered, applied, learned
    <3> QED
      BY <1>7, <1>8, <3>1, <3>2
  <2>3. CASE answered' = answered
    BY <1>5, <2>1, <2>3 DEF RL!Apply
  <2>4. CASE /\ Cardinality(RL!AppliedBy(learned[n][applied[n] + 1])) >= F + 1
             /\ answered' = answered \cup {learned[n][applied[n] + 1]}
    <3>1. RL!Cardinality(RL!AppliedBy(learned[n][applied[n] + 1])) >= F + 1
      BY <2>4, CardinalityOfLog, Zenon
    <3>2. RL!Cardinality({m \in Node : \E s \in 1..applied'[m] :
              learned[m][s] = learned[n][applied[n] + 1]}) >= F + 1
      BY <3>1, Zenon DEF RL!AppliedBy
    <3>3. /\ learned' = learned
          /\ UNCHANGED [s \in Slot |-> log[Leader][s].tx]
      BY <1>5
    <3> QED
      BY <2>1, <2>4, <3>2, <3>3, Zenon DEF RL!Apply, RL!AppliedBy
  <2> QED
    BY <2>2, <2>3, <2>4
<1> QED
  BY <1>9 DEF RL!RLNext

\* A cluster that serves only requests of its own implements the replicated log: a slot
\* is given to a request that has none, a server learns what the slot was given to and
\* applies its slots in order, and a request is reported as done only when F + 1 servers
\* have applied it; retries, timeouts, lost calls and Byzantine votes change nothing.
THEOREM ImplementsReplicatedLogHolds == IntraCluster /\ Spec => ImplementsReplicatedLog
<1>1. Init => RL!RLInit
  BY InitRefines
<1>2. ASSUME IntraCluster, IntraInv, IntraInv', [Next]_vars
      PROVE  [RL!RLNext]_(RL!rlvars)
  <2>1. Serves \/ (\E t \in Tx : Orders(t)) \/ (\E n \in Node : Executes(n))
    BY <1>2, NextKinds DEF IntraInv
  <2> QED
    BY <1>2, <2>1, ServesRefines, OrdersRefines, ExecutesRefines DEF IntraInv
<1>3. SUFFICES ASSUME IntraCluster PROVE Spec => ImplementsReplicatedLog
  OBVIOUS
<1> QED
  BY <1>1, <1>2, <1>3, IntraInvariant, PTL DEF Spec, ImplementsReplicatedLog, RL!RLSpec

-----------------------------------------------------------------------------
(* Balances are sums over what was executed.                               *)

\* What the requests of S change in account a, and each of them.
Paid(S, a) == MapThenSumSet(LAMBDA t : Net(t, a), S)
NetOf(a) == [t \in Tx |-> Net(t, a)]

LEMMA NetOfType == ASSUME NEW a PROVE NetOf(a) \in [Tx -> Int] /\ \A t \in Tx : NetOf(a)[t] = Net(t, a)
<1>1. \A t \in Tx : Body[t].amount \in Nat
  BY ClusterAssumption
<1> QED
  BY <1>1 DEF NetOf, Net

LEMMA PaidSums ==
    ASSUME NEW S \in SUBSET Tx, IsFiniteSet(S), NEW a, NEW g, Sums(NetOf(a), S, g)
    PROVE  Paid(S, a) = g[S]
<1> DEFINE All(k) == [s \in SUBSET S |-> IF s = {} THEN 0
                                         ELSE Net(Taken(s), a) + k[s \ {Taken(s)}]]
           h == CHOOSE k : k = All(k)
<1>1. Adds(NetOf(a), S, g) /\ g \in [SUBSET S -> Int]
  BY DEF Sums
<1>2. \A s \in SUBSET S : s # {} => NetOf(a)[Taken(s)] = Net(Taken(s), a)
  BY TakenIn DEF NetOf
<1>3. g = All(g)
  BY <1>1, <1>2 DEF Adds
<1>4. h = All(h)
  <2> HIDE DEF All
  <2> QED
    BY <1>3
<1>5. Paid(S, a) = h[S]
  BY DEF Paid, MapThenSumSet, MapThenFoldSet, Taken
<1> HIDE DEF h
<1>6. Adds(NetOf(a), S, h)
  BY <1>2, <1>4 DEF Adds
<1>7. h[S] = g[S]
  BY <1>1, <1>6, SumsAgree
<1> QED
  BY <1>5, <1>7

\* A payment more adds what it changes.
LEMMA PaidGrows ==
    ASSUME NEW S \in SUBSET Tx, IsFiniteSet(S), NEW t \in Tx, t \notin S,
           NEW T, T = S \cup {t}, NEW a
    PROVE  /\ Paid(S, a) \in Int /\ Net(t, a) \in Int
           /\ Paid(T, a) = Paid(S, a) + Net(t, a)
<1>1. IsFiniteSet(T) /\ T \in SUBSET Tx
  BY FS_AddElement
<1>2. PICK f \in [Tx -> Int] : f = NetOf(a) /\ f[t] = Net(t, a)
  BY NetOfType
<1>3. (\A x \in S : f[x] \in Int) /\ (\A x \in T : f[x] \in Int)
  BY <1>1
<1>4. PICK g : Sums(f, T, g)
  BY <1>1, <1>3, SumsExist
<1>5. PICK h : Sums(f, S, h)
  BY <1>3, SumsExist
<1>6. g[T] = f[t] + g[S] /\ f[t] \in Int /\ g[S] \in Int
  BY <1>4, SumsGrow
<1>7. h[S] = g[S]
  <2>1. Adds(f, S, h) /\ Adds(f, T, g) /\ S \in SUBSET S /\ S \in SUBSET T
    BY <1>4, <1>5 DEF Sums
  <2> QED
    BY <2>1, SumsAgree
<1>8. Paid(T, a) = g[T] /\ Paid(S, a) = h[S]
  BY <1>1, <1>2, <1>4, <1>5, PaidSums
<1> QED
  BY <1>2, <1>6, <1>7, <1>8

LEMMA PaidNothing == ASSUME NEW a PROVE Paid({}, a) = 0
<1>1. {} \in SUBSET Tx /\ IsFiniteSet({})
  BY FS_EmptySet
<1>2. PICK g : Sums(NetOf(a), {}, g)
  BY <1>1, SumsExist
<1>3. g[{}] = 0
  BY <1>2 DEF Sums, Adds
<1> QED
  BY <1>1, <1>2, <1>3, PaidSums

\* The requests that server n has executed and not taken back.
Paying(n) == {t \in Tx : (Did(n, t, "") \/ Did(n, t, "P")) /\ ~Did(n, t, "A")}

AllPaid == \A n \in Node, a \in Shard : bal[n][a] = InitialBalance + Paid(Paying(n), a)

LEMMA BalancesArePaid == BalancesMatchOutcomes <=> AllPaid
  BY DEF BalancesMatchOutcomes, AllPaid, Paying, Paid

LEMMA PayingFinite ==
    ASSUME TypeOK, NEW n \in Node
    PROVE  Paying(n) \in SUBSET Tx /\ IsFiniteSet(Paying(n))
<1> DEFINE Image == {store[n][s].tx : s \in Slot}
<1>1. IsFiniteSet(Slot)
  BY ClusterAssumption, FS_Interval DEF Slot
<1>2. IsFiniteSet(Image)
  <2>1. PICK f \in [Slot -> Image] : \A s \in Slot : f[s] = store[n][s].tx
    <3>1. [s \in Slot |-> store[n][s].tx] \in [Slot -> Image]
      OBVIOUS
    <3> QED
      BY <3>1
  <2>2. f \in Surjection(Slot, Image)
    BY <2>1 DEF Surjection
  <2> QED
    BY <1>1, <2>2, FS_Surjection
<1>3. Paying(n) \subseteq Image
  <2>1. \A u, st : [tx |-> u, status |-> st].tx = u
    OBVIOUS
  <2> SUFFICES ASSUME NEW u \in Paying(n) PROVE u \in Image
    OBVIOUS
  <2>2. PICK s \in Slot, st \in Status : store[n][s] = [tx |-> u, status |-> st]
    BY DEF Paying, Did, Status
  <2> QED
    BY <2>1, <2>2
<1> QED
  BY <1>2, <1>3, FS_Subset DEF Paying

\* Server n passes slot s only.
LEMMA DidNext ==
    ASSUME NEW n \in Node, NEW u \in Tx, NEW st,
           exec[n] \in Slot, exec'[n] = exec[n] + 1, \A s \in Slot : store'[n][s] = store[n][s]
    PROVE  Did(n, u, st)' <=> Did(n, u, st) \/ store[n][exec[n]] = [tx |-> u, status |-> st]
  BY DEF Did, Slot

\* Steps that execute nothing and rewrite nothing that is executed.
LEMMA IdleBalances ==
    ASSUME BalancesMatchOutcomes, bal' = bal, exec' = exec,
           \A n \in Node, s \in Slot : s < exec[n] => store'[n][s] = store[n][s]
    PROVE  BalancesMatchOutcomes'
<1>1. ASSUME NEW n \in Node PROVE Paying(n)' = Paying(n)
  <2>1. \A t \in Tx, st \in Status : Did(n, t, st)' <=> Did(n, t, st)
    BY DEF Did
  <2> QED
    BY <2>1 DEF Paying, Status
<1>2. \A n \in Node, a \in Shard : bal'[n][a] = InitialBalance + Paid(Paying(n)', a)
  BY <1>1, BalancesArePaid DEF AllPaid
<1>3. (BalancesMatchOutcomes <=> AllPaid)'
  BY BalancesArePaid, PTL
<1> QED
  BY <1>2, <1>3 DEF AllPaid

\* An execution changes the balances by what it adds to, or takes from, the payments.
LEMMA ExecuteBalances ==
    ASSUME TypeOK, TypeOK', BalancesMatchOutcomes, NEW n \in Node, NEW t \in Tx, NEW k \in Int,
           store' = store, exec[n] \in Slot, exec' = [exec EXCEPT ![n] = exec[n] + 1],
           bal' = [bal EXCEPT ![n] = [a \in Shard |-> bal[n][a] + k * Net(t, a)]],
           \/ k = 0 /\ Paying(n)' = Paying(n)
           \/ k = 1 /\ t \notin Paying(n) /\ Paying(n)' = Paying(n) \cup {t}
           \/ k = 0 - 1 /\ t \notin Paying(n)' /\ Paying(n) = Paying(n)' \cup {t}
    PROVE  BalancesMatchOutcomes'
<1>1. ASSUME NEW m \in Node, m # n PROVE Paying(m)' = Paying(m) /\ bal'[m] = bal[m]
  <2>1. exec'[m] = exec[m] /\ bal'[m] = bal[m]
    BY <1>1 DEF TypeOK
  <2>2. \A u \in Tx, st \in Status : Did(m, u, st)' <=> Did(m, u, st)
    BY <2>1 DEF Did
  <2> QED
    BY <2>1, <2>2 DEF Paying, Status
<1>2. ASSUME NEW a \in Shard PROVE bal'[n][a] = InitialBalance + Paid(Paying(n)', a)
  <2>1. PICK S \in SUBSET Tx, T \in SUBSET Tx : S = Paying(n) /\ T = Paying(n)' /\ IsFiniteSet(S) /\ IsFiniteSet(T)
    <3>1. Paying(n) \in SUBSET Tx /\ IsFiniteSet(Paying(n))
      BY PayingFinite
    <3>2. (Paying(n) \in SUBSET Tx /\ IsFiniteSet(Paying(n)))'
      BY PayingFinite, PTL
    <3> QED
      BY <3>1, <3>2
  <2>2. bal[n][a] \in Int /\ bal[n][a] = InitialBalance + Paid(S, a) /\ InitialBalance \in Nat
    BY <2>1, BalancesArePaid, ClusterAssumption DEF AllPaid, TypeOK
  <2>3. bal'[n][a] = bal[n][a] + k * Net(t, a)
    <3> DEFINE row == [b \in Shard |-> bal[n][b] + k * Net(t, b)]
    <3>1. bal \in [Node -> [Shard -> Int]]
      BY DEF TypeOK
    <3>2. row[a] = bal[n][a] + k * Net(t, a) /\ bal' = [bal EXCEPT ![n] = row]
      OBVIOUS
    <3> HIDE DEF row
    <3>3. bal'[n] = row
      BY <3>1, <3>2
    <3> QED
      BY <3>2, <3>3
  <2>4. Net(t, a) \in Int
    BY NetOfType
  <2>5. CASE k = 0 /\ T = S
    <3>1. k * Net(t, a) = 0
      BY <2>4, <2>5
    <3> QED
      BY <2>1, <2>2, <2>3, <2>5, <3>1
  <2>6. CASE k = 1 /\ t \notin S /\ T = S \cup {t}
    <3>1. Paid(S, a) \in Int /\ Paid(T, a) = Paid(S, a) + Net(t, a)
      BY <2>1, <2>6, PaidGrows
    <3>2. k * Net(t, a) = Net(t, a)
      BY <2>4, <2>6
    <3> QED
      BY <2>1, <2>2, <2>3, <2>4, <3>1, <3>2
  <2>7. CASE k = 0 - 1 /\ t \notin T /\ S = T \cup {t}
    <3>1. Paid(T, a) \in Int /\ Paid(S, a) = Paid(T, a) + Net(t, a)
      BY <2>1, <2>7, PaidGrows
    <3>2. k * Net(t, a) = 0 - Net(t, a)
      BY <2>4, <2>7
    <3> QED
      BY <2>1, <2>2, <2>3, <2>4, <3>1, <3>2
  <2> QED
    BY <2>1, <2>5, <2>6, <2>7
<1>3. \A m \in Node, a \in Shard : bal'[m][a] = InitialBalance + Paid(Paying(m)', a)
  BY <1>1, <1>2, BalancesArePaid DEF AllPaid
<1>4. (BalancesMatchOutcomes <=> AllPaid)'
  BY BalancesArePaid, PTL
<1> QED
  BY <1>3, <1>4 DEF AllPaid

LEMMA InitBalances == Init => BalancesMatchOutcomes
<1> SUFFICES ASSUME Init PROVE BalancesMatchOutcomes
  OBVIOUS
<1>1. ASSUME NEW n \in Node PROVE Paying(n) = {}
  <2>1. exec[n] = 1 /\ \A s \in Slot : ~ (s < 1)
    BY DEF Init, Slot
  <2> QED
    BY <2>1 DEF Paying, Did
<1>2. \A n \in Node, a \in Shard : bal[n][a] = InitialBalance + 0 /\ InitialBalance \in Nat
  BY ClusterAssumption DEF Init
<1> QED
  BY <1>1, <1>2, PaidNothing, BalancesArePaid DEF AllPaid

\* In a cluster that serves requests of its own, every executed request counts once in
\* the balances, however often it was run.
THEOREM BalancesMatchOutcomesHolds == IntraCluster /\ Spec => []BalancesMatchOutcomes
<1>1. ASSUME IntraCluster, IntraInv, IntraInv', BalancesMatchOutcomes, [Next]_vars
      PROVE  BalancesMatchOutcomes'
  <2>0. TypeOK
    BY <1>1 DEF IntraInv, LogInv, SlotInv
  <2>a. TypeOK'
    BY <1>1 DEF IntraInv, LogInv, SlotInv
  <2>1. CASE Serves \/ \E t \in Tx : Orders(t)
    <3>1. bal' = bal /\ exec' = exec
      BY <2>1 DEF Serves, Idles, Orders
    <3>2. \A n \in Node, s \in Slot : s < exec[n] => store'[n][s] = store[n][s]
      BY <1>1, ExecutedStays
    <3> QED
      BY <1>1, <3>1, <3>2, IdleBalances
  <2>2. ASSUME NEW n \in Node, Executes(n) PROVE BalancesMatchOutcomes'
    <3>1. PICK t \in Tx : t = store[n][exec[n]].tx
      BY <1>1, <2>2, ExecutesTx DEF IntraInv, LogInv, SlotInv
    <3>2. /\ exec[n] \in Slot /\ exec' = [exec EXCEPT ![n] = exec[n] + 1] /\ store' = store
          /\ bal' = [bal EXCEPT ![n] = [a \in Shard |-> bal[n][a] + Net(t, a)]]
      BY <2>2, <3>1 DEF Executes
    <3>3. exec'[n] = exec[n] + 1
      <4>1. exec \in [Node -> 1..(MaxSlot + 1)]
        BY <2>0 DEF TypeOK
      <4> QED
        BY <3>2, <4>1
    <3>4. \A s \in Slot : store[n][s].status = ""
      <4>1. Plain
        BY <1>1 DEF IntraInv
      <4> QED
        BY <4>1 DEF Plain
    <3>5. Paying(n)' = {u \in Tx : Did(n, u, "")'} /\ Paying(n) = {u \in Tx : Did(n, u, "")}
      <4>1. \A u, st : [tx |-> u, status |-> st].status = st
        OBVIOUS
      <4>2. \A u \in Tx, st \in {"P", "A"} : ~Did(n, u, st) /\ ~Did(n, u, st)'
        BY <3>2, <3>4, <4>1 DEF Did
      <4> QED
        BY <4>2 DEF Paying
    <3>6. store[n][exec[n]] = [tx |-> t, status |-> ""]
      <4>1. store \in [Node -> [Slot -> DBUnit]]
        BY <2>0 DEF TypeOK
      <4>2. store[n][exec[n]] \in DBUnit
        BY <3>2, <4>1
      <4>3. store[n][exec[n]].status = ""
        BY <3>2, <3>4
      <4> QED
        BY <3>1, <4>2, <4>3 DEF DBUnit
    <3>7. \A u \in Tx : Did(n, u, "")' <=> Did(n, u, "") \/ u = t
      <4>1. \A u : [tx |-> t, status |-> ""] = [tx |-> u, status |-> ""] <=> u = t
        OBVIOUS
      <4>2. \A s \in Slot : store'[n][s] = store[n][s]
        BY <3>2
      <4>3. ASSUME NEW u \in Tx
            PROVE  Did(n, u, "")' <=> Did(n, u, "") \/ store[n][exec[n]] = [tx |-> u, status |-> ""]
        <5>1. exec[n] \in Slot
          BY <3>2
        <5>2. PICK st : st = ""
          OBVIOUS
        <5>3. Did(n, u, st)' <=> Did(n, u, st) \/ store[n][exec[n]] = [tx |-> u, status |-> st]
          BY <3>3, <4>2, <5>1, DidNext
        <5> QED
          BY <5>2, <5>3
      <4> QED
        BY <3>6, <4>1, <4>3
    <3>8. t \notin Paying(n)
      <4>0. [tx |-> t, status |-> ""].tx = t
        OBVIOUS
      <4> SUFFICES ASSUME NEW s \in Slot, s < exec[n], store[n][s].tx = t PROVE FALSE
        BY <3>5, <4>0 DEF Did
      <4>1. NoTx \notin Tx
        BY ClusterAssumption
      <4>2. log[Leader][s].tx = t /\ log[Leader][exec[n]].tx = t
        BY <1>1, <3>1, <3>2, <4>1 DEF IntraInv, LogInv, SlotInv, LeaderDecides
      <4>3. s = exec[n]
        BY <1>1, <3>2, <4>1, <4>2 DEF IntraInv, Logged, IntraCluster
      <4> QED
        BY <4>3 DEF Slot
    <3>9. Paying(n)' = Paying(n) \cup {t}
      BY <3>5, <3>7
    <3>10. PICK k \in Int : k = 1
      OBVIOUS
    <3>11. bal' = [bal EXCEPT ![n] = [a \in Shard |-> bal[n][a] + k * Net(t, a)]]
      <4>1. \A a \in Shard : Net(t, a) \in Int
        BY NetOfType
      <4>2. \A a \in Shard : k * Net(t, a) = Net(t, a)
        BY <3>10, <4>1
      <4> QED
        BY <3>2, <4>2
    <3> QED
      BY <1>1, <2>0, <2>a, <3>2, <3>8, <3>9, <3>10, <3>11, ExecuteBalances
  <2> QED
    BY <1>1, <2>1, <2>2, NextKinds DEF IntraInv
<1>2. SUFFICES ASSUME IntraCluster PROVE Spec => []BalancesMatchOutcomes
  OBVIOUS
<1> QED
  BY <1>1, <1>2, InitBalances, IntraInvariant, PTL DEF Spec

-----------------------------------------------------------------------------
(* The balances of a cluster with cross-shard requests, if none is called   *)
(* twice.                                                                  *)

\* Who executes what a run stored has executed, of the other runs of the request, only
\* those that precede it.
LEMMA ExecuteOnce ==
    ASSUME VoteInv, VoteInv', OwnSlots, Slotted, Phases, WalMatches, BalancesMatchOutcomes,
           NEW n \in Node, Execute(n)
    PROVE  BalancesMatchOutcomes'
<1>a. TypeOK /\ store \in [Node -> [Slot -> DBUnit]] /\ exec \in [Node -> 1..(MaxSlot + 1)] /\ NoTx \notin Tx
  <2>1. TypeOK
    BY DEF VoteInv, LogInv, SlotInv
  <2> QED
    BY <2>1, ClusterAssumption DEF TypeOK
<1>b. TypeOK'
  BY DEF VoteInv, LogInv, SlotInv
<1>c. PICK s \in Slot : s = exec[n]
  BY DEF Execute
<1>d. PICK t \in Tx, st \in Status : t = store[n][s].tx /\ st = store[n][s].status
  <2>1. store[n][s] \in DBUnit
    BY <1>a
  <2>2. store[n][s].tx # NoTx
    BY <1>c DEF Execute
  <2> QED
    BY <2>1, <2>2 DEF DBUnit
<1>e. /\ store[n][s].tx # NoTx /\ store' = store
      /\ exec' = [exec EXCEPT ![n] = exec[n] + 1]
      /\ bal' = [bal EXCEPT ![n] = [a \in Shard |-> bal[n][a] + Times(n, t, st) * Net(t, a)]]
  BY <1>c, <1>d DEF Execute
<1>f. store[n][s] = [tx |-> t, status |-> st]
  <2>1. store[n][s] \in DBUnit
    BY <1>a
  <2> QED
    BY <1>d, <2>1 DEF DBUnit
<1>1. PICK r \in Run : Started(r) /\ run[r].slot = s /\ run[r].tx = t /\ run[r].status = st
  <2>1. PICK r \in Run : /\ Started(r) /\ run[r].slot = s
                         /\ store[n][s] = [tx |-> run[r].tx, status |-> run[r].status]
    BY <1>e, StoreRun
  <2> QED
    BY <1>d, <2>1
<1>2. ASSUME NEW u \in Slot, NEW v, store[n][u] = [tx |-> t, status |-> v]
      PROVE  \E q \in Run : Started(q) /\ run[q].slot = u /\ run[q].tx = t /\ run[q].status = v
  <2>1. store[n][u].tx = t /\ store[n][u].status = v
    BY <1>2
  <2>2. store[n][u].tx # NoTx
    BY <1>a, <2>1
  <2>3. PICK q \in Run : /\ Started(q) /\ run[q].slot = u
                         /\ store[n][u] = [tx |-> run[q].tx, status |-> run[q].status]
    BY <2>2, StoreRun
  <2> QED
    BY <2>1, <2>3
<1>3. \A v : Did(n, t, v) => \E q \in Run : /\ Started(q) /\ run[q].slot < s /\ run[q].slot \in Slot
                                            /\ run[q].tx = t /\ run[q].status = v
  BY <1>2, <1>c DEF Did
<1>4. ASSUME NEW u \in Tx, NEW v \in Status
      PROVE  Did(n, u, v)' <=> Did(n, u, v) \/ (u = t /\ v = st)
  <2>1. exec'[n] = exec[n] + 1 /\ exec[n] \in Slot /\ \A w \in Slot : store'[n][w] = store[n][w]
    BY <1>a, <1>c, <1>e
  <2>2. Did(n, u, v)' <=> Did(n, u, v) \/ store[n][exec[n]] = [tx |-> u, status |-> v]
    BY <2>1, DidNext
  <2>3. store[n][exec[n]] = [tx |-> u, status |-> v] <=> u = t /\ v = st
    BY <1>c, <1>f
  <2> QED
    BY <2>2, <2>3
<1>5. /\ Paying(n) = {u \in Tx : (Did(n, u, "") \/ Did(n, u, "P")) /\ ~Did(n, u, "A")}
      /\ Paying(n)' = {u \in Tx : (Did(n, u, "") \/ Did(n, u, "P"))' /\ ~Did(n, u, "A")'}
      /\ {"", "P", "C", "A"} = Status
  BY DEF Paying, Status
<1>6. ASSUME NEW k \in Int, Times(n, t, st) = k,
             \/ k = 0 /\ Paying(n)' = Paying(n)
             \/ k = 1 /\ t \notin Paying(n) /\ Paying(n)' = Paying(n) \cup {t}
             \/ k = 0 - 1 /\ t \notin Paying(n)' /\ Paying(n) = Paying(n)' \cup {t}
      PROVE  BalancesMatchOutcomes'
  <2>1. bal' = [bal EXCEPT ![n] = [a \in Shard |-> bal[n][a] + k * Net(t, a)]]
    BY <1>e, <1>6
  <2>2. exec[n] \in Slot /\ store' = store /\ exec' = [exec EXCEPT ![n] = exec[n] + 1]
    BY <1>c, <1>e
  <2> QED
    BY <1>a, <1>b, <1>6, <2>1, <2>2, ExecuteBalances
<1>g. s \in Nat /\ ~ (s < s)
  BY DEF Slot
\* The payment, or its prepare: the first run of the request.
<1>7. CASE st \in {"", "P"}
  <2>1. Opening(r)
    BY <1>1, <1>7 DEF Opening
  <2>2. \A q \in Run : Opening(q) /\ run[q].tx = t => q = r
    BY <1>1, <2>1 DEF Phases, OneFirst
  <2>3. ~Did(n, t, "") /\ ~Did(n, t, "P")
    <3> SUFFICES ASSUME NEW v \in {"", "P"}, Did(n, t, v) PROVE FALSE
      OBVIOUS
    <3>1. PICK q \in Run : Started(q) /\ run[q].slot < s /\ run[q].tx = t /\ run[q].status = v
      BY <1>3
    <3>2. Opening(q)
      BY <3>1 DEF Opening
    <3>3. q = r
      BY <2>2, <3>1, <3>2
    <3>4. run[r].slot = s
      BY <1>1
    <3>5. run[r].slot < s
      BY <3>1, <3>3
    <3> QED
      BY <1>g, <3>4, <3>5
  <2>4. ~Did(n, t, "A")
    <3> SUFFICES ASSUME NEW q \in Run, Started(q), run[q].slot < s, run[q].slot \in Slot, run[q].tx = t,
                        run[q].status = "A"
                 PROVE  FALSE
      BY <1>3
    <3>1. Closing(q) /\ run[q].slot # 0
      BY DEF Closing, Slot
    <3>2. PICK f \in Run : run[f].pc = "end" /\ run[f].status = "P" /\ run[f].tx = t /\ run[f].slot < run[q].slot
      BY <3>1 DEF Phases, Follows
    <3>3. f = r
      BY <2>2, <3>2 DEF Opening, Started
    <3>4. run[q].slot \in Nat
      BY DEF Slot
    <3> QED
      BY <1>1, <1>g, <3>2, <3>3, <3>4
  <2>5. t \notin Paying(n)
    BY <1>5, <2>3
  <2>6. Did(n, t, st)' /\ ~Did(n, t, "A")' /\ st # "A"
    BY <1>4, <1>5, <1>7, <2>4
  <2>7. \A u \in Tx \ {t} : u \in Paying(n)' <=> u \in Paying(n)
    BY <1>4, <1>5
  <2>8. t \in Paying(n)'
    BY <1>5, <1>7, <2>6
  <2>9. Paying(n)' = Paying(n) \cup {t}
    <3>1. Paying(n) \subseteq Tx /\ Paying(n)' \subseteq Tx
      BY <1>5
    <3> QED
      BY <2>7, <2>8, <3>1
  <2>10. PICK k \in Int : k = 1
    OBVIOUS
  <2>11. Times(n, t, st) = k
    BY <1>7, <2>10 DEF Times
  <2> QED
    BY <1>6, <2>5, <2>9, <2>10, <2>11
\* Its commit.
<1>8. CASE st = "C"
  <2>1. \A u \in Tx : u \in Paying(n)' <=> u \in Paying(n)
    BY <1>4, <1>5, <1>8
  <2>2. Paying(n)' = Paying(n)
    <3>1. Paying(n) \subseteq Tx /\ Paying(n)' \subseteq Tx
      BY <1>5
    <3> QED
      BY <2>1, <3>1
  <2>3. PICK k \in Int : k = 0
    OBVIOUS
  <2>4. Times(n, t, st) = k
    BY <1>8, <2>3 DEF Times
  <2> QED
    BY <1>6, <2>2, <2>3, <2>4
\* Its abort: what the wal counts was executed before.
<1>9. CASE st = "A"
  <2>1. Closing(r) /\ run[r].slot # 0
    BY <1>1, <1>9 DEF Closing, Slot
  <2>2. PICK f \in Run : run[f].pc = "end" /\ run[f].status = "P" /\ run[f].tx = t /\ run[f].slot < s
    BY <1>1, <2>1 DEF Phases, Follows
  <2>3. \A q \in Run : Opening(q) /\ run[q].tx = t => q = f
    BY <2>2 DEF Phases, OneFirst, Opening, Started
  <2>4. \A q \in Run : Closing(q) /\ run[q].tx = t => q = r
    BY <1>1, <1>9, <2>1 DEF Phases, OneAbort
  <2>5. ~CommitRun(t)
    BY <1>1, <1>9, <2>4 DEF CommitRun
  <2>6. wal[n][t] = IF Saved(n, t) THEN 1 ELSE 0
    BY <2>5 DEF WalMatches
  <2>7. ~Did(n, t, "") /\ ~Did(n, t, "A")
    <3>1. ~Did(n, t, "")
      BY <1>3, <2>2, <2>3 DEF Opening
    <3>2. ~Did(n, t, "A")
      BY <1>1, <1>3, <1>g, <2>4 DEF Closing
    <3> QED
      BY <3>1, <3>2
  <2>8. Saved(n, t) <=> Did(n, t, "P")
    <3>1. ASSUME NEW u \in Slot, store[n][u] = [tx |-> t, status |-> "P"] PROVE u < s
      <4>1. PICK q \in Run : Started(q) /\ run[q].slot = u /\ run[q].tx = t /\ run[q].status = "P"
        BY <1>2, <3>1
      <4>2. q = f
        BY <2>3, <4>1 DEF Opening
      <4> QED
        BY <2>2, <4>1, <4>2
    <3> QED
      BY <1>c, <3>1 DEF Saved, Did
  <2>9. Did(n, t, "A")'
    BY <1>4, <1>5, <1>9
  <2>10. \A u \in Tx \ {t} : u \in Paying(n)' <=> u \in Paying(n)
    BY <1>4, <1>5
  <2>11. t \notin Paying(n)' /\ (t \in Paying(n) <=> Saved(n, t))
    BY <1>5, <2>7, <2>8, <2>9
  <2>12. Paying(n) \subseteq Tx /\ Paying(n)' \subseteq Tx
    BY <1>5
  <2>13. CASE Saved(n, t)
    <3>1. Paying(n) = Paying(n)' \cup {t}
      BY <2>10, <2>11, <2>12, <2>13
    <3>2. PICK k \in Int : k = 0 - 1
      OBVIOUS
    <3>3. Times(n, t, st) = k
      <4>1. wal[n][t] = 1
        BY <2>6, <2>13
      <4>2. Times(n, t, st) = 0 - wal[n][t]
        BY <1>9 DEF Times
      <4> QED
        BY <3>2, <4>1, <4>2
    <3> QED
      BY <1>6, <2>11, <3>1, <3>2, <3>3
  <2>14. CASE ~Saved(n, t)
    <3>1. Paying(n)' = Paying(n)
      BY <2>10, <2>11, <2>12, <2>14
    <3>2. PICK k \in Int : k = 0
      OBVIOUS
    <3>3. Times(n, t, st) = k
      <4>1. wal[n][t] = 0
        BY <2>6, <2>14
      <4>2. Times(n, t, st) = 0 - wal[n][t]
        BY <1>9 DEF Times
      <4> QED
        BY <3>2, <4>1, <4>2
    <3> QED
      BY <1>6, <3>1, <3>2, <3>3
  <2> QED
    BY <2>13, <2>14
<1> QED
  BY <1>5, <1>7, <1>8, <1>9

\* What makes BalancesMatchOutcomes inductive: one slot and one save for every run, one
\* first run for every request, and a wal that counts its saves.
OnceInv == Slotted /\ Phases /\ Finished /\ WalMatches /\ BalancesMatchOutcomes

LEMMA InitOnce == Init => OnceInv
<1> SUFFICES ASSUME Init PROVE OnceInv
  OBVIOUS
<1>1. \A r \in Run : run[r].pc = "none" /\ run[r].slot = 0
  BY DEF Init, NoRun
<1>2. Slotted
  <2>1. seq = 1 /\ \A s \in Slot : ~ (s < 1)
    BY DEF Init, Slot
  <2> QED
    BY <2>1 DEF Slotted
<1>3. Phases
  BY <1>1 DEF Phases, OneFirst, Follows, OneAbort, Opening, Closing, Started
<1>4. Finished
  BY <1>1 DEF Finished, Slot
<1>5. WalMatches
  <2>1. \A t, v : [tx |-> t, status |-> v].tx = t
    OBVIOUS
  <2>2. \A n \in Node, s \in Slot : store[n][s].tx = NoTx
    BY DEF Init, NoUnit
  <2>3. \A n \in Node, t \in Tx : ~Saved(n, t) /\ wal[n][t] = 0
    BY <2>1, <2>2, ClusterAssumption DEF Saved, Init
  <2> QED
    BY <2>3 DEF WalMatches
<1> QED
  BY <1>2, <1>3, <1>4, <1>5, InitBalances DEF OnceInv

LEMMA NextOnce ==
    ASSUME CalledOnce, VoteInv, VoteInv', OwnSlots, OwnSlots', OnceInv, [Next]_vars
    PROVE  OnceInv'
<1>a. SlotInv /\ Traced
  BY DEF VoteInv, LogInv
<1>1. Slotted'
  BY <1>a, NextSlotted DEF OnceInv
<1>2. Phases'
  BY <1>a, NextPhases DEF OnceInv
<1>3. Finished'
  BY NextFinished DEF OnceInv
<1>4. WalMatches'
  BY NextWal DEF OnceInv, Phases
<1>5. BalancesMatchOutcomes'
  <2>1. ASSUME NEW n \in Node, Execute(n) PROVE BalancesMatchOutcomes'
    BY <2>1, ExecuteOnce DEF OnceInv
  <2>2. CASE exec' = exec /\ bal' = bal
    <3>1. \A n \in Node, s \in Slot : s < exec[n] => Alone(s) /\ store[n][s].tx # NoTx
      BY DEF OwnSlots, Alone, Slot, VoteInv, LogInv, Reported
    <3>2. \A n \in Node, s \in Slot : s < exec[n] => store'[n][s] = store[n][s]
      BY <3>1, StoredIsFinal
    <3> QED
      BY <2>2, <3>2, IdleBalances DEF OnceInv
  <2> QED
    BY <2>1, <2>2, NextSaves DEF Saves
<1> QED
  BY <1>1, <1>2, <1>3, <1>4, <1>5 DEF OnceInv

\* Whatever the timeouts and votes, a request that is called once keeps to that.
THEOREM OnceInvariant == CalledOnce /\ Spec => []OnceInv
<1>1. SUFFICES ASSUME CalledOnce PROVE Spec => []OnceInv
  OBVIOUS
<1>2. CalledOnce /\ Spec => []OwnSlots
  BY OwnSlotsInvariant
<1>3. VoteInv /\ VoteInv' /\ OwnSlots /\ OwnSlots' /\ OnceInv /\ [Next]_vars => OnceInv'
  BY <1>1, NextOnce
<1> QED
  BY <1>1, <1>2, <1>3, InitOnce, VoteInvariant, PTL DEF Spec

\* Cross-shard payments too count exactly once, and not at all once their abort is
\* executed, in every server's balances, as long as no client repeats a call.
THEOREM BalancesMatchOutcomesOnce == CalledOnce /\ Spec => []BalancesMatchOutcomes
<1>1. OnceInv => BalancesMatchOutcomes
  BY DEF OnceInv
<1> QED
  BY <1>1, OnceInvariant, PTL

\* So the servers that executed the same slots have the same balances.
THEOREM ReplicaConsistencyOnce == CalledOnce /\ Spec => []ReplicaConsistency
<1>1. ASSUME VoteInv, OwnSlots, BalancesMatchOutcomes PROVE ReplicaConsistency
  <2> SUFFICES ASSUME NEW n \in Node, NEW m \in Node, exec[n] = exec[m] PROVE bal[n] = bal[m]
    BY DEF ReplicaConsistency
  <2>0. TypeOK /\ bal \in [Node -> [Shard -> Int]]
    <3>1. TypeOK
      BY <1>1 DEF VoteInv, LogInv, SlotInv
    <3> QED
      BY <3>1 DEF TypeOK
  <2>1. \A s \in Slot : s < exec[n] => store[n][s] = store[m][s]
    <3> SUFFICES ASSUME NEW s \in Slot, s < exec[n] PROVE store[n][s] = store[m][s]
      OBVIOUS
    <3>1. store[n][s].tx # NoTx /\ store[m][s].tx # NoTx
      BY <1>1 DEF VoteInv, LogInv, Reported
    <3>2. Alone(s)
      BY <1>1 DEF OwnSlots, Alone, Slot
    <3>3. store[n][s].status = store[m][s].status
      BY <1>1, <3>1, <3>2 DEF VoteInv, Labelled
    <3>4. store[n][s].tx = store[m][s].tx
      BY <1>1, <3>1 DEF VoteInv, LogInv, SlotInv, LeaderDecides
    <3>5. store \in [Node -> [Slot -> DBUnit]]
      BY <2>0 DEF TypeOK
    <3>6. store[n][s] \in DBUnit /\ store[m][s] \in DBUnit
      BY <3>5
    <3> QED
      BY <3>3, <3>4, <3>6 DEF DBUnit
  <2>2. \A t \in Tx, v \in {"", "P", "A"} : Did(n, t, v) <=> Did(m, t, v)
    BY <2>1 DEF Did
  <2>3. Paying(n) = Paying(m)
    BY <2>2 DEF Paying
  <2>4. \A a \in Shard : bal[n][a] = bal[m][a]
    BY <1>1, <2>3, BalancesArePaid DEF AllPaid
  <2> QED
    BY <2>0, <2>4
<1>2. CalledOnce /\ Spec => []OwnSlots
  BY OwnSlotsInvariant
<1> QED
  BY <1>1, <1>2, BalancesMatchOutcomesOnce, VoteInvariant, PTL
=============================================================================
