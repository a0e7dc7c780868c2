--------------------------- MODULE PbftClusterProofs ---------------------------
(* Proofs about PbftCluster, for every cluster and every set of requests.  *)
EXTENDS PbftCluster, TLAPS

-----------------------------------------------------------------------------
(* What the helpers of the model build.                                    *)

\* Setting the locks of one request keeps the lock table a lock table.
LEMMA SetLocksType ==
    ASSUME lock \in [Node -> [Account -> Tx \cup {NoTx}]],
           NEW n \in Node, NEW t, NEW h \in Tx \cup {NoTx}
    PROVE  SetLocks(n, t, h) \in [Node -> [Account -> Tx \cup {NoTx}]]
BY DEF SetLocks

\* Raising the state of an entry keeps the log a log.
LEMMA RaisedType ==
    ASSUME log \in [Node -> [Slot -> Entry]],
           NEW n \in Node, NEW s \in Slot, NEW k \in 0..5
    PROVE  Raised(n, s, k) \in [Node -> [Slot -> Entry]]
<1>1. log[n][s] \in Entry
  OBVIOUS
<1>2. RaisedEntry(n, s, k) \in Entry
  BY <1>1 DEF RaisedEntry, Entry
<1> QED
  BY <1>2 DEF Raised

\* Moving a run on keeps the run table a run table.
LEMMA MovedType ==
    ASSUME run \in [Run -> RunRec], NEW r \in Run, NEW pc \in RunPc
    PROVE  Moved(r, pc) \in [Run -> RunRec]
<1>1. run[r] \in RunRec
  OBVIOUS
<1>2. [run[r] EXCEPT !.pc = pc, !.prepares = {}, !.commits = {}] \in RunRec
  BY <1>1 DEF RunRec
<1> QED
  BY <1>2 DEF Moved

\* Giving one goroutine a new stage keeps the job table a job table.
LEMMA JobType ==
    ASSUME job \in [Node -> [Run -> JobPc]], NEW n \in Node, NEW r \in Run, NEW pc \in JobPc
    PROVE  [job EXCEPT ![n][r] = pc] \in [Node -> [Run -> JobPc]]
OBVIOUS

\* A new call of runPBFT is a well-typed run.
LEMMA NewRunType ==
    ASSUME NEW t \in Tx \cup {NoTx}, NEW st \in Status, NEW s \in 0..MaxSlot
    PROVE  NewRun(t, st, s) \in RunRec
BY DEF NewRun, NoRun, RunRec, RunPc

\* The run that the caller starts after another one is well typed.
LEMMA FollowedType ==
    ASSUME run \in [Run -> RunRec], NEW r \in Run, NEW q \in Run, NEW st \in Status
    PROVE  Followed(r, q, st) \in [Run -> RunRec]
<1>1. Moved(r, "end") \in [Run -> RunRec]
  BY MovedType DEF RunPc
<1>2. 0 \in 0..MaxSlot
  BY ClusterAssumption
<1>3. run[r].tx \in Tx \cup {NoTx}
  BY DEF RunRec
<1>4. NewRun(run[r].tx, st, 0) \in RunRec
  BY <1>2, <1>3, NewRunType
<1> QED
  BY <1>1, <1>4 DEF Followed

\* Recording a decision keeps the log, the Datastore and the wal well typed.
LEMMA SaveCommitType ==
    ASSUME TypeOK, NEW n \in Node, NEW s \in Slot, NEW t \in Tx,
           NEW st \in Status, SaveCommit(n, s, t, st)
    PROVE  /\ log' \in [Node -> [Slot -> Entry]]
           /\ store' \in [Node -> [Slot -> DBUnit]]
           /\ wal' \in [Node -> [Tx -> Nat]]
<1>1. CASE byz[n]
  BY <1>1 DEF SaveCommit, TypeOK
<1>2. CASE ~byz[n]
  <2> DEFINE unit == [tx |-> log[n][s].tx, status |-> st]
  <2>1. /\ log' = Raised(n, s, Committed)
        /\ store' = [store EXCEPT ![n][s] = unit]
        /\ wal' = IF st = "P" THEN [wal EXCEPT ![n][t] = @ + 1] ELSE wal
    BY <1>2 DEF SaveCommit
  <2>2. log' \in [Node -> [Slot -> Entry]]
    BY <2>1, RaisedType DEF TypeOK, Committed
  <2>3. unit \in DBUnit
    BY DEF TypeOK, Entry, DBUnit
  <2>4. store' \in [Node -> [Slot -> DBUnit]]
    <3> HIDE DEF unit
    <3> QED
      BY <2>1, <2>3 DEF TypeOK
  <2>5. wal' \in [Node -> [Tx -> Nat]]
    BY <2>1 DEF TypeOK
  <2> QED
    BY <2>2, <2>4, <2>5
<1> QED
  BY <1>1, <1>2

-----------------------------------------------------------------------------
(* Type correctness.                                                       *)

\* The empty log entry, Datastore entry and run are well typed.
LEMMA NoneTypes == NoEntry \in Entry /\ NoUnit \in DBUnit /\ NoRun \in RunRec
<1>1. NoEntry \in Entry
  BY DEF NoEntry, Entry, Status
<1>2. NoUnit \in DBUnit
  BY DEF NoUnit, DBUnit, Status
<1>3. NoRun \in RunRec
  BY ClusterAssumption DEF NoRun, RunRec, Status, RunPc
<1> QED
  BY <1>1, <1>2, <1>3

\* The state NewNode builds is well typed.
LEMMA InitType == Init => TypeOK
<1> SUFFICES ASSUME Init PROVE TypeOK
  OBVIOUS
<1>1. /\ live \in [Node -> BOOLEAN] /\ byz \in [Node -> BOOLEAN] /\ flips \in 0..MaxFlips
      /\ seq \in 1..(MaxSlot + 1) /\ reqSeq \in [Tx -> 0..MaxSlot]
      /\ attempts \in [Tx -> 0..MaxAttempts] /\ acks \in [Tx -> [Result -> Nat]]
      /\ pcCommits \in SUBSET Tx
  BY ClusterAssumption DEF Init
<1>2. /\ run \in [Run -> RunRec] /\ job \in [Node -> [Run -> JobPc]]
      /\ log \in [Node -> [Slot -> Entry]] /\ store \in [Node -> [Slot -> DBUnit]]
  BY NoneTypes DEF Init, JobPc
<1>3. /\ prepCerts \in [Slot -> SUBSET Cert] /\ commCerts \in [Slot -> SUBSET Cert]
      /\ exec \in [Node -> 1..(MaxSlot + 1)]
      /\ lock \in [Node -> [Account -> Tx \cup {NoTx}]]
      /\ bal \in [Node -> [Shard -> Int]] /\ wal \in [Node -> [Tx -> Nat]]
  BY ClusterAssumption DEF Init
<1> QED
  BY <1>1, <1>2, <1>3 DEF TypeOK

\* The request and the slot of a run that does something.
LEMMA RunFacts ==
    ASSUME TypeOK, RunsWellFormed, NEW r \in Run
    PROVE  /\ run[r] \in RunRec
           /\ run[r].slot \in 0..MaxSlot /\ run[r].status \in Status
           /\ run[r].tx \in Tx \cup {NoTx}
           /\ run[r].pc # "none" => run[r].tx \in Tx
           /\ run[r].pc \in {"prepares", "commits"} => run[r].slot \in Slot
           /\ \A n \in Node : job[n][r] # "none" => run[r].tx \in Tx /\ run[r].slot \in Slot
BY DEF TypeOK, RunsWellFormed, RunRec

\* One more attempt stays within the bound.
LEMMA AttemptType ==
    ASSUME attempts \in [Tx -> 0..MaxAttempts], NEW t \in Tx, attempts[t] < MaxAttempts
    PROVE  [attempts EXCEPT ![t] = @ + 1] \in [Tx -> 0..MaxAttempts]
<1>1. attempts[t] + 1 \in 0..MaxAttempts
  BY ClusterAssumption
<1> QED
  BY <1>1

\* ExecuteTransaction keeps every variable well typed.
LEMMA ExecuteTransactionType ==
    ASSUME TypeOK, NEW t \in Tx, ExecuteTransaction(t)
    PROVE  TypeOK'
<1>1. attempts' \in [Tx -> 0..MaxAttempts]
  BY AttemptType DEF ExecuteTransaction, TypeOK
<1>2. acks' \in [Tx -> [Result -> Nat]]
  BY DEF ExecuteTransaction, TypeOK
<1>3. run' \in [Run -> RunRec]
  <2>1. CASE ~live[Leader]
    BY <2>1 DEF ExecuteTransaction, TypeOK
  <2>2. CASE live[Leader]
    <3>1. PICK r \in Run : run' = [run EXCEPT ![r] = NewRun(t,
                              IF Body[t].role = "intra" THEN "" ELSE "P", reqSeq[t])]
      BY <2>2 DEF ExecuteTransaction
    <3>2. NewRun(t, IF Body[t].role = "intra" THEN "" ELSE "P", reqSeq[t]) \in RunRec
      BY NewRunType DEF TypeOK, Status
    <3> QED
      BY <3>1, <3>2 DEF TypeOK
  <2> QED
    BY <2>1, <2>2
<1> QED
  BY <1>1, <1>2, <1>3 DEF ExecuteTransaction, TypeOK, replica, certs, flags

\* BalanceTooLow keeps every variable well typed.
LEMMA BalanceTooLowType ==
    ASSUME TypeOK, NEW r \in Run, BalanceTooLow(r)
    PROVE  TypeOK'
<1>1. run' \in [Run -> RunRec]
  BY MovedType DEF BalanceTooLow, TypeOK, RunPc
<1> QED
  BY <1>1 DEF BalanceTooLow, TypeOK, client, replica, certs, flags

\* PrePrepareRun keeps every variable well typed.
LEMMA PrePrepareRunType ==
    ASSUME TypeOK, RunsWellFormed, NEW r \in Run, PrePrepareRun(r)
    PROVE  TypeOK'
<1> DEFINE t   == run[r].tx
           old == run[r].slot
           s   == IF old = 0 THEN seq ELSE old
           st  == IF old = 0 THEN run[r].status ELSE log[Leader][old].status
<1>1. t \in Tx /\ old \in 0..MaxSlot /\ run[r].status \in Status /\ s \in Slot /\ Leader \in Node
  BY RunFacts, ClusterAssumption DEF PrePrepareRun
<1>2. lock' \in [Node -> [Account -> Tx \cup {NoTx}]]
  BY <1>1, SetLocksType DEF PrePrepareRun, TypeOK, Locked
<1>3. seq' \in 1..(MaxSlot + 1)
  <2>1. seq \in 1..(MaxSlot + 1)
    BY DEF TypeOK
  <2>2. seq' = seq \/ (old = 0 /\ seq' = NextSeq)
    BY DEF PrePrepareRun
  <2>3. old = 0 => NextSeq \in 1..(MaxSlot + 1)
    BY <1>1, <2>1, ClusterAssumption DEF Slot, NextSeq
  <2> QED
    BY <2>1, <2>2, <2>3
<1>4. reqSeq' \in [Tx -> 0..MaxSlot]
  BY <1>1, ClusterAssumption DEF PrePrepareRun, TypeOK, Slot
<1>5. log' \in [Node -> [Slot -> Entry]]
  <2>1. st \in Status
    <3>1. CASE old = 0
      BY <1>1, <3>1
    <3>2. CASE old # 0
      <4>1. old \in Slot
        BY <1>1, <3>2 DEF Slot
      <4>2. log[Leader][old] \in Entry
        BY <1>1, <4>1 DEF TypeOK
      <4> QED
        BY <3>2, <4>2 DEF Entry
    <3> QED
      BY <3>1, <3>2
  <2>2. [tx |-> t, status |-> st, state |-> PrePrepared] \in Entry
    BY <1>1, <2>1 DEF Entry, PrePrepared
  <2> QED
    BY <1>1, <2>2 DEF PrePrepareRun, TypeOK
<1>6. run' \in [Run -> RunRec]
  <2>1. run[r] \in RunRec
    BY DEF TypeOK
  <2>2. [run[r] EXCEPT !.slot = s, !.pc = "prepares"] \in RunRec
    <3>1. s \in 0..MaxSlot
      BY <1>1 DEF Slot
    <3> HIDE DEF s
    <3> QED
      BY <2>1, <3>1 DEF RunRec, RunPc
  <2> QED
    BY <2>2 DEF PrePrepareRun, TypeOK
<1>7. job' \in [Node -> [Run -> JobPc]]
  BY DEF PrePrepareRun, TypeOK, JobPc
<1> QED
  BY <1>2, <1>3, <1>4, <1>5, <1>6, <1>7 DEF PrePrepareRun, TypeOK, certs, flags

\* FinishPrepares keeps every variable well typed.
LEMMA FinishPreparesType ==
    ASSUME TypeOK, RunsWellFormed, NEW r \in Run, FinishPrepares(r)
    PROVE  TypeOK'
<1> DEFINE s == run[r].slot
           enough == Cardinality(ValidCerts(Leader, s, run[r].prepares)) >= PrepareQuorum
<1>1. s \in Slot /\ Leader \in Node /\ run[r].prepares \in SUBSET Cert
  BY RunFacts, ClusterAssumption DEF FinishPrepares, RunRec
<1>2. prepCerts' \in [Slot -> SUBSET Cert]
  BY <1>1 DEF FinishPrepares, TypeOK
<1>3. run' \in [Run -> RunRec]
  BY MovedType DEF FinishPrepares, TypeOK, RunPc
<1>4. log' \in [Node -> [Slot -> Entry]]
  BY <1>1, RaisedType DEF FinishPrepares, TypeOK, Prepared
<1>5. job' \in [Node -> [Run -> JobPc]]
  <2>1. job' = job \/ job' = [job EXCEPT ![Leader][r] = "commSent"]
    BY DEF FinishPrepares
  <2> QED
    <3>1. [job EXCEPT ![Leader][r] = "commSent"] \in [Node -> [Run -> JobPc]]
      <4>1. "commSent" \in JobPc
        BY DEF JobPc
      <4>2. job \in [Node -> [Run -> JobPc]]
        BY DEF TypeOK
      <4> QED
        BY <1>1, <4>1, <4>2, JobType
    <3> QED
      BY <2>1, <3>1 DEF TypeOK
<1>6. lock' \in [Node -> [Account -> Tx \cup {NoTx}]]
  BY <1>1, SetLocksType DEF FinishPrepares, TypeOK, Released
<1> QED
  BY <1>2, <1>3, <1>4, <1>5, <1>6 DEF FinishPrepares, TypeOK, client, flags

\* FinishCommits keeps every variable well typed.
LEMMA FinishCommitsType ==
    ASSUME TypeOK, RunsWellFormed, NEW r \in Run, FinishCommits(r)
    PROVE  TypeOK'
<1> DEFINE s == run[r].slot
<1>1. /\ s \in Slot /\ Leader \in Node /\ run[r].commits \in SUBSET Cert
      /\ run[r].tx \in Tx /\ run[r].status \in Status
  BY RunFacts, ClusterAssumption DEF FinishCommits, RunRec
<1>2. commCerts' \in [Slot -> SUBSET Cert]
  BY <1>1 DEF FinishCommits, TypeOK
<1>3. run' \in [Run -> RunRec]
  BY MovedType DEF FinishCommits, TypeOK, RunPc
<1>4. /\ log' \in [Node -> [Slot -> Entry]]
      /\ store' \in [Node -> [Slot -> DBUnit]]
      /\ wal' \in [Node -> [Tx -> Nat]]
  <2>1. CASE SaveCommit(Leader, s, run[r].tx, run[r].status)
    BY <1>1, <2>1, SaveCommitType
  <2>2. CASE UNCHANGED <<log, store, wal>>
    BY <2>2 DEF TypeOK
  <2> QED
    BY <2>1, <2>2 DEF FinishCommits
<1>5. lock' \in [Node -> [Account -> Tx \cup {NoTx}]]
  BY <1>1, SetLocksType DEF FinishCommits, TypeOK, Released
<1> QED
  BY <1>2, <1>3, <1>4, <1>5 DEF FinishCommits, TypeOK, client, flags

\* PrePrepare keeps every variable well typed.
LEMMA PrePrepareType ==
    ASSUME TypeOK, NEW n \in Node, NEW r \in Run, PrePrepare(n, r)
    PROVE  TypeOK'
<1>1. job' \in [Node -> [Run -> JobPc]]
  BY DEF PrePrepare, TypeOK, JobPc
<1> QED
  BY <1>1 DEF PrePrepare, TypeOK, client, replica, certs, flags

\* PrePrepareLocked keeps every variable well typed.
LEMMA PrePrepareLockedType ==
    ASSUME TypeOK, RunsWellFormed, NEW n \in Node, NEW r \in Run, PrePrepareLocked(n, r)
    PROVE  TypeOK'
<1>1. run[r].slot \in Slot /\ run[r].tx \in Tx /\ Leader \in Node
  BY RunFacts, ClusterAssumption DEF PrePrepareLocked
<1>2. lock' \in [Node -> [Account -> Tx \cup {NoTx}]]
  BY <1>1, SetLocksType DEF PrePrepareLocked, TypeOK, Locked
<1>3. log' \in [Node -> [Slot -> Entry]]
  <2>1. PPStatus(r) \in Status
    BY <1>1 DEF PPStatus, TypeOK, Entry
  <2>2. [tx |-> run[r].tx, status |-> PPStatus(r), state |-> PrePrepared] \in Entry
    BY <1>1, <2>1 DEF Entry, PrePrepared
  <2> QED
    BY <1>1, <2>2 DEF PrePrepareLocked, TypeOK
<1>4. job' \in [Node -> [Run -> JobPc]]
  BY DEF PrePrepareLocked, TypeOK, JobPc
<1> QED
  BY <1>2, <1>3, <1>4 DEF PrePrepareLocked, TypeOK, client, certs, flags

\* Prepare keeps every variable well typed.
LEMMA PrepareType ==
    ASSUME TypeOK, NEW n \in Node, NEW r \in Run, Prepare(n, r)
    PROVE  TypeOK'
<1>1. job' \in [Node -> [Run -> JobPc]]
  <2>1. \E pc \in JobPc : job' = [job EXCEPT ![n][r] = pc]
    BY DEF Prepare, JobPc
  <2> QED
    BY <2>1, JobType DEF TypeOK
<1>2. lock' \in [Node -> [Account -> Tx \cup {NoTx}]]
  BY SetLocksType DEF Prepare, TypeOK, Released
<1> QED
  BY <1>1, <1>2 DEF Prepare, TypeOK, client, certs, flags

\* CollectPrepare keeps every variable well typed.
LEMMA CollectPrepareType ==
    ASSUME TypeOK, NEW n \in Node, NEW r \in Run, NEW q \in Run, CollectPrepare(n, r, q)
    PROVE  TypeOK'
<1>1. run' \in [Run -> RunRec]
  <2>1. run[q] \in RunRec /\ <<n, r>> \in Cert
    BY DEF TypeOK, Cert
  <2>2. [run[q] EXCEPT !.prepares = @ \cup {<<n, r>>}] \in RunRec
    BY <2>1 DEF RunRec
  <2> QED
    BY <2>2 DEF CollectPrepare, TypeOK
<1>2. job' \in [Node -> [Run -> JobPc]]
  BY DEF CollectPrepare, TypeOK, JobPc
<1> QED
  BY <1>1, <1>2 DEF CollectPrepare, TypeOK, client, replica, certs, flags

\* PrepareDone keeps every variable well typed.
LEMMA PrepareDoneType ==
    ASSUME TypeOK, RunsWellFormed, NEW n \in Node, NEW r \in Run, PrepareDone(n, r)
    PROVE  TypeOK'
<1>1. run[r].slot \in Slot
  BY RunFacts DEF PrepareDone
<1>2. log' \in [Node -> [Slot -> Entry]]
  BY <1>1, RaisedType DEF PrepareDone, TypeOK, Prepared
<1>3. job' \in [Node -> [Run -> JobPc]]
  <2>1. \E pc \in JobPc : job' = [job EXCEPT ![n][r] = pc]
    BY DEF PrepareDone, JobPc
  <2> QED
    BY <2>1, JobType DEF TypeOK
<1> QED
  BY <1>2, <1>3 DEF PrepareDone, TypeOK, client, certs, flags

\* PrepareTimeout keeps every variable well typed.
LEMMA PrepareTimeoutType ==
    ASSUME TypeOK, NEW n \in Node, NEW r \in Run, PrepareTimeout(n, r)
    PROVE  TypeOK'
<1>1. job' \in [Node -> [Run -> JobPc]]
  BY DEF PrepareTimeout, TypeOK, JobPc
<1>2. lock' \in [Node -> [Account -> Tx \cup {NoTx}]]
  BY SetLocksType DEF PrepareTimeout, TypeOK, Released
<1> QED
  BY <1>1, <1>2 DEF PrepareTimeout, TypeOK, client, certs, flags

\* Commit keeps every variable well typed.
LEMMA CommitType ==
    ASSUME TypeOK, NEW n \in Node, NEW r \in Run, Commit(n, r)
    PROVE  TypeOK'
<1>1. job' \in [Node -> [Run -> JobPc]]
  BY DEF Commit, TypeOK, JobPc
<1> QED
  BY <1>1 DEF Commit, TypeOK, client, replica, certs, flags

\* SendPrepare and SendCommit keep every variable well typed.
LEMMA SendType ==
    ASSUME TypeOK, NEW n \in Node, NEW r \in Run, SendPrepare(n, r) \/ SendCommit(n, r)
    PROVE  TypeOK'
<1>1. job' \in [Node -> [Run -> JobPc]]
  <2>1. \E pc \in JobPc : job' = [job EXCEPT ![n][r] = pc]
    BY DEF SendPrepare, SendCommit, JobPc
  <2> QED
    BY <2>1, JobType DEF TypeOK
<1> QED
  BY <1>1 DEF SendPrepare, SendCommit, TypeOK, client, replica, certs, flags

\* CollectCommit keeps every variable well typed.
LEMMA CollectCommitType ==
    ASSUME TypeOK, NEW n \in Node, NEW r \in Run, NEW q \in Run, CollectCommit(n, r, q)
    PROVE  TypeOK'
<1>1. run' \in [Run -> RunRec]
  <2>1. run[q] \in RunRec /\ <<n, r>> \in Cert
    BY DEF TypeOK, Cert
  <2>2. [run[q] EXCEPT !.commits = @ \cup {<<n, r>>}] \in RunRec
    BY <2>1 DEF RunRec
  <2> QED
    BY <2>2 DEF CollectCommit, TypeOK
<1>2. job' \in [Node -> [Run -> JobPc]]
  BY DEF CollectCommit, TypeOK, JobPc
<1> QED
  BY <1>1, <1>2 DEF CollectCommit, TypeOK, client, replica, certs, flags

\* CommitDone keeps every variable well typed.
LEMMA CommitDoneType ==
    ASSUME TypeOK, RunsWellFormed, NEW n \in Node, NEW r \in Run, CommitDone(n, r)
    PROVE  TypeOK'
<1>1. run[r].slot \in Slot /\ run[r].tx \in Tx /\ Leader \in Node
  BY RunFacts, ClusterAssumption DEF CommitDone
<1>2. PPStatus(r) \in Status
  BY <1>1 DEF PPStatus, TypeOK, Entry
<1>3. job' \in [Node -> [Run -> JobPc]]
  BY DEF CommitDone, TypeOK, JobPc
<1>4. /\ log' \in [Node -> [Slot -> Entry]]
      /\ store' \in [Node -> [Slot -> DBUnit]]
      /\ wal' \in [Node -> [Tx -> Nat]]
  <2>1. CASE SaveCommit(n, run[r].slot, run[r].tx, PPStatus(r))
    BY <1>1, <1>2, <2>1, SaveCommitType
  <2>2. CASE UNCHANGED <<log, store, wal>>
    BY <2>2 DEF TypeOK
  <2> QED
    BY <2>1, <2>2 DEF CommitDone
<1> QED
  BY <1>3, <1>4 DEF CommitDone, TypeOK, client, certs, flags

\* CommitTimeout keeps every variable well typed.
LEMMA CommitTimeoutType ==
    ASSUME TypeOK, NEW n \in Node, NEW r \in Run, CommitTimeout(n, r)
    PROVE  TypeOK'
<1>1. job' \in [Node -> [Run -> JobPc]]
  BY DEF CommitTimeout, TypeOK, JobPc
<1> QED
  BY <1>1 DEF CommitTimeout, TypeOK, client, replica, certs, flags

\* Execute keeps every variable well typed.
LEMMA ExecuteType ==
    ASSUME TypeOK, NEW n \in Node, Execute(n)
    PROVE  TypeOK'
<1> DEFINE s == exec[n]
           t == store[n][s].tx
           status == store[n][s].status
<1>1. s \in Slot /\ t \in Tx /\ status \in Status
  <2>1. s \in Slot /\ t # NoTx
    BY DEF Execute
  <2>2. store[n][s] \in DBUnit
    BY <2>1 DEF TypeOK
  <2> QED
    BY <2>1, <2>2 DEF DBUnit
<1>2. /\ exec' = [exec EXCEPT ![n] = s + 1]
      /\ bal' = [bal EXCEPT ![n] = [a \in Shard |-> bal[n][a] + Times(n, t, status) * Net(t, a)]]
      /\ \/ UNCHANGED <<lock, acks, log>>
         \/ /\ lock' = SetLocks(n, t, NoTx)
            /\ \E b \in Result : acks' = [acks EXCEPT ![t][b] = @ + 1]
            /\ log' = Raised(n, s, Executed)
  BY DEF Execute, Released, Result
<1> HIDE DEF s, t, status
<1>3. exec' \in [Node -> 1..(MaxSlot + 1)]
  <2>1. s + 1 \in 1..(MaxSlot + 1)
    BY <1>1, ClusterAssumption DEF Slot
  <2> QED
    BY <1>2, <2>1 DEF TypeOK
<1>4. bal' \in [Node -> [Shard -> Int]]
  <2>1. Times(n, t, status) \in Int
    <3>1. wal[n][t] \in Nat
      BY <1>1 DEF TypeOK
    <3>2. Times(n, t, status) \in {1, 0 - wal[n][t], 0}
      BY DEF Times
    <3> QED
      BY <3>1, <3>2
  <2>2. \A a \in Shard : Net(t, a) \in Int
    BY <1>1, ClusterAssumption DEF Net
  <2>3. \A a \in Shard : Times(n, t, status) * Net(t, a) \in Int
    BY <2>1, <2>2
  <2>4. \A a \in Shard : bal[n][a] + Times(n, t, status) * Net(t, a) \in Int
    BY <2>3 DEF TypeOK
  <2> QED
    BY <1>2, <2>4 DEF TypeOK
<1>5. lock' \in [Node -> [Account -> Tx \cup {NoTx}]]
  BY <1>2, SetLocksType DEF TypeOK
<1>6. acks' \in [Tx -> [Result -> Nat]]
  <2>1. CASE acks' = acks
    BY <2>1 DEF TypeOK
  <2>2. CASE \E b \in Result : acks' = [acks EXCEPT ![t][b] = @ + 1]
    <3>1. PICK b \in Result : acks' = [acks EXCEPT ![t][b] = @ + 1]
      BY <2>2
    <3> QED
      BY <1>1, <3>1 DEF TypeOK
  <2> QED
    BY <1>2, <2>1, <2>2
<1>7. log' \in [Node -> [Slot -> Entry]]
  BY <1>1, <1>2, RaisedType DEF TypeOK, Executed
<1> QED
  BY <1>3, <1>4, <1>5, <1>6, <1>7 DEF Execute, TypeOK, certs, flags

\* PCPrepareReply keeps every variable well typed.
LEMMA PCPrepareReplyType ==
    ASSUME TypeOK, NEW r \in Run, PCPrepareReply(r)
    PROVE  TypeOK'
<1>1. run' \in [Run -> RunRec]
  <2>1. PICK q \in Run, status \in {"C", "A"} : run' = Followed(r, q, status)
    BY DEF PCPrepareReply
  <2>2. status \in Status
    BY DEF Status
  <2> QED
    BY <2>1, <2>2, FollowedType DEF TypeOK
<1> QED
  BY <1>1 DEF PCPrepareReply, TypeOK, client, replica, certs, flags

\* CommitRemote keeps every variable well typed.
LEMMA CommitRemoteType ==
    ASSUME TypeOK, RunsWellFormed, NEW r \in Run, CommitRemote(r)
    PROVE  TypeOK'
<1>1. run[r].tx \in Tx /\ Leader \in Node
  BY RunFacts, ClusterAssumption DEF CommitRemote
<1>2. run' \in [Run -> RunRec]
  BY MovedType DEF CommitRemote, TypeOK, RunPc
<1>3. acks' \in [Tx -> [Result -> Nat]]
  BY <1>1 DEF CommitRemote, TypeOK, Result
<1>4. wal' \in [Node -> [Tx -> Nat]]
  BY <1>1 DEF CommitRemote, TypeOK
<1> QED
  BY <1>2, <1>3, <1>4 DEF CommitRemote, TypeOK, certs, flags

\* PCPrepare keeps every variable well typed.
LEMMA PCPrepareType ==
    ASSUME TypeOK, NEW t \in Tx, PCPrepare(t)
    PROVE  TypeOK'
<1>1. attempts' \in [Tx -> 0..MaxAttempts]
  BY AttemptType DEF PCPrepare, TypeOK
<1>2. run' \in [Run -> RunRec]
  <2>1. NewRun(t, "P", 0) \in RunRec
    <3>1. 0 \in 0..MaxSlot /\ "P" \in Status
      BY ClusterAssumption DEF Status
    <3> QED
      BY <3>1, NewRunType
  <2>2. ASSUME NEW q \in Run
        PROVE  [run[q] EXCEPT !.pc = "end"] \in RunRec
    <3>1. run[q] \in RunRec
      BY DEF TypeOK
    <3> QED
      BY <3>1 DEF RunRec, RunPc
  <2> QED
    BY <2>1, <2>2 DEF PCPrepare, TypeOK
<1> QED
  BY <1>1, <1>2 DEF PCPrepare, TypeOK, replica, certs, flags

\* PCCommit keeps every variable well typed.
LEMMA PCCommitType ==
    ASSUME TypeOK, RunsWellFormed, NEW r \in Run, PCCommit(r)
    PROVE  TypeOK'
<1>1. run[r].tx \in Tx
  BY RunFacts DEF PCCommit
<1>2. run' \in [Run -> RunRec]
  <2>1. PICK q \in Run : run' = Followed(r, q, "C")
    BY DEF PCCommit
  <2>2. "C" \in Status
    BY DEF Status
  <2> QED
    BY <2>1, <2>2, FollowedType DEF TypeOK
<1> QED
  BY <1>1, <1>2 DEF PCCommit, TypeOK, replica, certs, flags

\* WaitForPCCommit keeps every variable well typed.
LEMMA WaitForPCCommitType ==
    ASSUME TypeOK, NEW r \in Run, WaitForPCCommit(r)
    PROVE  TypeOK'
<1>1. run' \in [Run -> RunRec]
  <2>1. run' = Moved(r, "end") \/ \E q \in Run : run' = Followed(r, q, "A")
    BY DEF WaitForPCCommit
  <2>2. "A" \in Status /\ "end" \in RunPc
    BY DEF Status, RunPc
  <2> QED
    BY <2>1, <2>2, MovedType, FollowedType DEF TypeOK
<1> QED
  BY <1>1 DEF WaitForPCCommit, TypeOK, client, replica, certs, flags

\* A flag flip keeps every variable well typed.
LEMMA SwitchType ==
    ASSUME TypeOK, NEW n \in Node, SetStatus(n) \/ SetByzantine(n)
    PROVE  TypeOK'
<1>1. flips' \in 0..MaxFlips
  BY ClusterAssumption DEF SetStatus, SetByzantine, TypeOK
<1>2. live' \in [Node -> BOOLEAN] /\ byz' \in [Node -> BOOLEAN]
  BY DEF SetStatus, SetByzantine, TypeOK
<1> QED
  BY <1>1, <1>2 DEF SetStatus, SetByzantine, TypeOK, client, replica, certs

-----------------------------------------------------------------------------
(* Slot agreement.                                                         *)

\* A step that gives no slot and starts no run: it may move runs and goroutines on,
\* raise log entries, and store what the log of the same server has.
Quiet ==
    /\ seq' = seq /\ reqSeq' = reqSeq
    /\ \A r \in Run :
         /\ run'[r].tx = run[r].tx /\ run'[r].slot = run[r].slot
         /\ run'[r].pc = "none" <=> run[r].pc = "none"
         /\ run'[r].pc \in {"prepares", "commits"} => run[r].slot \in Slot
    /\ \A n \in Node, r \in Run :
         job'[n][r] # "none" => job[n][r] # "none" \/ (run[r].pc # "none" /\ run[r].slot \in Slot)
    /\ \A n \in Node, s \in Slot :
         /\ log'[n][s].tx = log[n][s].tx
         /\ store'[n][s].tx \in {store[n][s].tx, log[n][s].tx}

\* Such a step keeps the leader the authority on every slot.
LEMMA QuietStep ==
    ASSUME SlotInv, Quiet
    PROVE  RunsWellFormed' /\ SlotsAssigned' /\ LeaderDecides'
<1>1. RunsWellFormed'
  BY DEF SlotInv, Quiet, RunsWellFormed
<1>2. SlotsAssigned'
  <2>1. ASSUME NEW r \in Run, run'[r].slot # 0
        PROVE  run'[r].slot < seq' /\ log'[Leader][run'[r].slot].tx = run'[r].tx
    <3>1. run[r].slot \in Slot
      BY <2>1 DEF SlotInv, TypeOK, RunRec, Quiet, Slot
    <3> QED
      BY <2>1, <3>1, ClusterAssumption DEF SlotInv, Quiet, SlotsAssigned
  <2>2. ASSUME NEW t \in Tx, reqSeq'[t] # 0
        PROVE  reqSeq'[t] < seq' /\ log'[Leader][reqSeq'[t]].tx = t
    <3>1. reqSeq[t] \in Slot
      BY <2>2 DEF SlotInv, TypeOK, Quiet, Slot
    <3> QED
      BY <2>2, <3>1, ClusterAssumption DEF SlotInv, Quiet, SlotsAssigned
  <2>3. \A s \in Slot : s >= seq' => log'[Leader][s].tx = NoTx
    BY ClusterAssumption DEF SlotInv, Quiet, SlotsAssigned
  <2> QED
    BY <2>1, <2>2, <2>3 DEF SlotsAssigned
<1>3. LeaderDecides'
  BY ClusterAssumption DEF SlotInv, Quiet, LeaderDecides
<1> QED
  BY <1>1, <1>2, <1>3

\* A step that starts run q of request t, with no slot or with the one RequestLog has.
Starts(q, t) ==
    /\ run[q].pc = "none"
    /\ run'[q].tx = t /\ run'[q].pc = "locks" /\ run'[q].slot \in {0, reqSeq[t]}
    /\ \A r \in Run \ {q} :
         /\ run'[r].tx = run[r].tx /\ run'[r].slot = run[r].slot
         /\ run'[r].pc = run[r].pc \/ (run'[r].pc = "end" /\ run[r].pc # "none")
    /\ UNCHANGED <<seq, reqSeq, job, log, store>>

\* Starting a run keeps the leader the authority on every slot.
LEMMA StartStep ==
    ASSUME SlotInv, NEW q \in Run, NEW t \in Tx, Starts(q, t)
    PROVE  RunsWellFormed' /\ SlotsAssigned' /\ LeaderDecides'
<1>1. RunsWellFormed'
  BY DEF SlotInv, Starts, RunsWellFormed
<1>2. SlotsAssigned'
  BY DEF SlotInv, Starts, SlotsAssigned
<1>3. LeaderDecides'
  BY DEF SlotInv, Starts, LeaderDecides
<1> QED
  BY <1>1, <1>2, <1>3

\* Raising an entry, moving a run and recording a decision are quiet.
LEMMA RaisedTx ==
    ASSUME TypeOK, NEW n \in Node, NEW s \in Slot, NEW k \in 0..5, log' = Raised(n, s, k)
    PROVE  \A m \in Node, u \in Slot : log'[m][u].tx = log[m][u].tx
<1>1. log[n][s] \in Entry
  BY DEF TypeOK
<1>2. RaisedEntry(n, s, k).tx = log[n][s].tx
  BY <1>1 DEF RaisedEntry, Entry
<1> QED
  BY <1>2 DEF Raised, TypeOK

\* Recording a decision stores the request the log of the same server has.
LEMMA SaveCommitTx ==
    ASSUME TypeOK, NEW n \in Node, NEW s \in Slot, NEW t, NEW st, SaveCommit(n, s, t, st)
    PROVE  \A m \in Node, u \in Slot :
              /\ log'[m][u].tx = log[m][u].tx
              /\ store'[m][u].tx \in {store[m][u].tx, log[m][u].tx}
<1>1. CASE byz[n]
  BY <1>1 DEF SaveCommit
<1>2. CASE ~byz[n]
  <2>1. \A m \in Node, u \in Slot : log'[m][u].tx = log[m][u].tx
    BY <1>2, RaisedTx DEF SaveCommit, Committed
  <2>2. store' = [store EXCEPT ![n][s] = [tx |-> log[n][s].tx, status |-> st]]
    BY <1>2 DEF SaveCommit
  <2> QED
    BY <2>1, <2>2 DEF TypeOK
<1> QED
  BY <1>1, <1>2

\* Moving a run on changes neither its request nor its slot.
LEMMA MovedFields ==
    ASSUME TypeOK, NEW r \in Run, NEW pc \in RunPc
    PROVE  /\ Moved(r, pc)[r].tx = run[r].tx /\ Moved(r, pc)[r].slot = run[r].slot
           /\ Moved(r, pc)[r].pc = pc
           /\ \A q \in Run \ {r} : Moved(r, pc)[q] = run[q]
<1>1. run[r] \in RunRec
  BY DEF TypeOK
<1> QED
  BY <1>1 DEF Moved, TypeOK, RunRec

\* The same, for a step that moves a run on.
LEMMA MovedRun ==
    ASSUME TypeOK, NEW r \in Run, NEW pc \in RunPc, run' = Moved(r, pc)
    PROVE  /\ run'[r].tx = run[r].tx /\ run'[r].slot = run[r].slot /\ run'[r].pc = pc
           /\ \A q \in Run \ {r} : run'[q] = run[q]
<1>1. run[r] \in RunRec
  BY DEF TypeOK
<1> QED
  BY <1>1 DEF Moved, TypeOK, RunRec

\* BalanceTooLow gives no slot and starts no run.
LEMMA BalanceTooLowQuiet ==
    ASSUME SlotInv, NEW r \in Run, BalanceTooLow(r)
    PROVE  Quiet
<1>1. "failed" \in RunPc
  BY DEF RunPc
<1> QED
  BY <1>1, MovedRun DEF SlotInv, BalanceTooLow, Quiet, RunsWellFormed, client, replica

\* FinishPrepares gives no slot and starts no run.
LEMMA FinishPreparesQuiet ==
    ASSUME SlotInv, NEW r \in Run, FinishPrepares(r)
    PROVE  Quiet
<1>1. run[r].slot \in Slot /\ Leader \in Node /\ "failed" \in RunPc /\ "commits" \in RunPc
  BY RunFacts, ClusterAssumption DEF SlotInv, FinishPrepares, RunPc
<1>2. \A n \in Node, s \in Slot : log'[n][s].tx = log[n][s].tx
  BY <1>1, RaisedTx DEF SlotInv, FinishPrepares, Prepared
<1>3. /\ run'[r].tx = run[r].tx /\ run'[r].slot = run[r].slot
      /\ run'[r].pc \in {"commits", "failed"}
      /\ \A q \in Run \ {r} : run'[q] = run[q]
  BY <1>1, MovedRun DEF SlotInv, FinishPrepares
<1>4. \A n \in Node, q \in Run : job'[n][q] # "none" => job[n][q] # "none" \/ q = r
  <2>1. job' = job \/ job' = [job EXCEPT ![Leader][r] = "commSent"]
    BY DEF FinishPrepares
  <2>2. CASE job' = job
    BY <2>2
  <2>3. CASE job' = [job EXCEPT ![Leader][r] = "commSent"]
    BY <1>1, <2>3 DEF SlotInv, TypeOK
  <2> QED
    BY <2>1, <2>2, <2>3
<1> QED
  BY <1>1, <1>2, <1>3, <1>4 DEF SlotInv, FinishPrepares, Quiet, RunsWellFormed, client

\* FinishCommits gives no slot and starts no run.
LEMMA FinishCommitsQuiet ==
    ASSUME SlotInv, NEW r \in Run, FinishCommits(r)
    PROVE  Quiet
<1>1. run[r].slot \in Slot /\ Leader \in Node /\ "failed" \in RunPc /\ "ok" \in RunPc
  BY RunFacts, ClusterAssumption DEF SlotInv, FinishCommits, RunPc
<1>2. \A n \in Node, s \in Slot :
         log'[n][s].tx = log[n][s].tx /\ store'[n][s].tx \in {store[n][s].tx, log[n][s].tx}
  BY <1>1, SaveCommitTx DEF SlotInv, FinishCommits
<1>3. /\ run'[r].tx = run[r].tx /\ run'[r].slot = run[r].slot
      /\ run'[r].pc \in {"ok", "failed"}
      /\ \A q \in Run \ {r} : run'[q] = run[q]
  BY <1>1, MovedRun DEF SlotInv, FinishCommits
<1> QED
  BY <1>1, <1>2, <1>3 DEF SlotInv, FinishCommits, Quiet, RunsWellFormed, client

\* PrePrepare gives no slot and starts no run.
LEMMA PrePrepareQuiet ==
    ASSUME SlotInv, NEW n \in Node, NEW r \in Run, PrePrepare(n, r)
    PROVE  Quiet
<1>1. \A m \in Node, q \in Run : job'[m][q] # "none" => job[m][q] # "none"
  BY DEF SlotInv, TypeOK, PrePrepare
<1> QED
  BY <1>1 DEF SlotInv, PrePrepare, Quiet, RunsWellFormed, client, replica

\* Prepare gives no slot and starts no run.
LEMMA PrepareQuiet ==
    ASSUME SlotInv, NEW n \in Node, NEW r \in Run, Prepare(n, r)
    PROVE  Quiet
<1>1. \A m \in Node, q \in Run : job'[m][q] # "none" => job[m][q] # "none"
  <2>1. PICK pc \in JobPc : job' = [job EXCEPT ![n][r] = pc]
    BY DEF Prepare, JobPc
  <2>2. job[n][r] # "none"
    BY DEF Prepare
  <2> QED
    BY <2>1, <2>2 DEF SlotInv, TypeOK
<1> QED
  BY <1>1 DEF SlotInv, Prepare, Quiet, RunsWellFormed, client, replica

\* PrepareTimeout gives no slot and starts no run.
LEMMA PrepareTimeoutQuiet ==
    ASSUME SlotInv, NEW n \in Node, NEW r \in Run, PrepareTimeout(n, r)
    PROVE  Quiet
<1>1. \A m \in Node, q \in Run : job'[m][q] # "none" => job[m][q] # "none"
  BY DEF SlotInv, TypeOK, PrepareTimeout
<1> QED
  BY <1>1 DEF SlotInv, PrepareTimeout, Quiet, RunsWellFormed, client, replica

\* Commit gives no slot and starts no run.
LEMMA CommitQuiet ==
    ASSUME SlotInv, NEW n \in Node, NEW r \in Run, Commit(n, r)
    PROVE  Quiet
<1>1. \A m \in Node, q \in Run : job'[m][q] # "none" => job[m][q] # "none"
  BY DEF SlotInv, TypeOK, Commit
<1> QED
  BY <1>1 DEF SlotInv, Commit, Quiet, RunsWellFormed, client, replica

\* SendPrepare and SendCommit give no slot and start no run.
LEMMA SendQuiet ==
    ASSUME SlotInv, NEW n \in Node, NEW r \in Run, SendPrepare(n, r) \/ SendCommit(n, r)
    PROVE  Quiet
<1>1. \A m \in Node, q \in Run : job'[m][q] # "none" => job[m][q] # "none"
  <2>1. PICK pc \in JobPc : job' = [job EXCEPT ![n][r] = pc]
    BY DEF SendPrepare, SendCommit, JobPc
  <2>2. job[n][r] # "none"
    BY DEF SendPrepare, SendCommit
  <2> QED
    BY <2>1, <2>2 DEF SlotInv, TypeOK
<1> QED
  BY <1>1 DEF SlotInv, SendPrepare, SendCommit, Quiet, RunsWellFormed, client, replica

\* CommitTimeout gives no slot and starts no run.
LEMMA CommitTimeoutQuiet ==
    ASSUME SlotInv, NEW n \in Node, NEW r \in Run, CommitTimeout(n, r)
    PROVE  Quiet
<1>1. \A m \in Node, q \in Run : job'[m][q] # "none" => job[m][q] # "none"
  BY DEF SlotInv, TypeOK, CommitTimeout
<1> QED
  BY <1>1 DEF SlotInv, CommitTimeout, Quiet, RunsWellFormed, client, replica

\* CollectPrepare gives no slot and starts no run.
LEMMA CollectPrepareQuiet ==
    ASSUME SlotInv, NEW n \in Node, NEW r \in Run, NEW q \in Run, CollectPrepare(n, r, q)
    PROVE  Quiet
<1>1. \A m \in Node, u \in Run : job'[m][u] # "none" => job[m][u] # "none"
  BY DEF SlotInv, TypeOK, CollectPrepare
<1>2. \A u \in Run : run'[u].tx = run[u].tx /\ run'[u].slot = run[u].slot /\ run'[u].pc = run[u].pc
  <2>1. run[q] \in RunRec
    BY DEF SlotInv, TypeOK
  <2> QED
    BY <2>1 DEF SlotInv, TypeOK, RunRec, CollectPrepare
<1> QED
  BY <1>1, <1>2 DEF SlotInv, CollectPrepare, Quiet, RunsWellFormed, client, replica

\* CollectCommit gives no slot and starts no run.
LEMMA CollectCommitQuiet ==
    ASSUME SlotInv, NEW n \in Node, NEW r \in Run, NEW q \in Run, CollectCommit(n, r, q)
    PROVE  Quiet
<1>1. \A m \in Node, u \in Run : job'[m][u] # "none" => job[m][u] # "none"
  BY DEF SlotInv, TypeOK, CollectCommit
<1>2. \A u \in Run : run'[u].tx = run[u].tx /\ run'[u].slot = run[u].slot /\ run'[u].pc = run[u].pc
  <2>1. run[q] \in RunRec
    BY DEF SlotInv, TypeOK
  <2> QED
    BY <2>1 DEF SlotInv, TypeOK, RunRec, CollectCommit
<1> QED
  BY <1>1, <1>2 DEF SlotInv, CollectCommit, Quiet, RunsWellFormed, client, replica

\* PrepareDone gives no slot and starts no run.
LEMMA PrepareDoneQuiet ==
    ASSUME SlotInv, NEW n \in Node, NEW r \in Run, PrepareDone(n, r)
    PROVE  Quiet
<1>1. run[r].slot \in Slot
  BY RunFacts DEF SlotInv, PrepareDone
<1>2. \A m \in Node, s \in Slot : log'[m][s].tx = log[m][s].tx
  BY <1>1, RaisedTx DEF SlotInv, PrepareDone, Prepared
<1>3. \A m \in Node, q \in Run : job'[m][q] # "none" => job[m][q] # "none"
  <2>1. PICK pc \in JobPc : job' = [job EXCEPT ![n][r] = pc]
    BY DEF PrepareDone, JobPc
  <2>2. job[n][r] # "none"
    BY DEF PrepareDone
  <2> QED
    BY <2>1, <2>2 DEF SlotInv, TypeOK
<1> QED
  BY <1>2, <1>3 DEF SlotInv, PrepareDone, Quiet, RunsWellFormed, client

\* CommitDone gives no slot and starts no run.
LEMMA CommitDoneQuiet ==
    ASSUME SlotInv, NEW n \in Node, NEW r \in Run, CommitDone(n, r)
    PROVE  Quiet
<1>1. run[r].slot \in Slot
  BY RunFacts DEF SlotInv, CommitDone
<1>2. \A m \in Node, s \in Slot :
         log'[m][s].tx = log[m][s].tx /\ store'[m][s].tx \in {store[m][s].tx, log[m][s].tx}
  BY <1>1, SaveCommitTx DEF SlotInv, CommitDone
<1>3. \A m \in Node, q \in Run : job'[m][q] # "none" => job[m][q] # "none"
  BY DEF SlotInv, TypeOK, CommitDone
<1> QED
  BY <1>2, <1>3 DEF SlotInv, CommitDone, Quiet, RunsWellFormed, client

\* Execute gives no slot and starts no run.
LEMMA ExecuteQuiet ==
    ASSUME SlotInv, NEW n \in Node, Execute(n)
    PROVE  Quiet
<1>1. \A m \in Node, s \in Slot : log'[m][s].tx = log[m][s].tx
  <2>1. exec[n] \in Slot
    BY DEF Execute
  <2> QED
    BY <2>1, RaisedTx DEF SlotInv, Execute, Executed
<1> QED
  BY <1>1 DEF SlotInv, Execute, Quiet, RunsWellFormed

\* CommitRemote gives no slot and starts no run.
LEMMA CommitRemoteQuiet ==
    ASSUME SlotInv, NEW r \in Run, CommitRemote(r)
    PROVE  Quiet
<1>1. "end" \in RunPc
  BY DEF RunPc
<1> QED
  BY <1>1, MovedRun DEF SlotInv, CommitRemote, Quiet, RunsWellFormed

\* A flag flip gives no slot and starts no run.
LEMMA SwitchQuiet ==
    ASSUME SlotInv, NEW n \in Node, SetStatus(n) \/ SetByzantine(n)
    PROVE  Quiet
BY DEF SlotInv, SetStatus, SetByzantine, Quiet, RunsWellFormed, client, replica

\* A stuttering step gives no slot and starts no run.
LEMMA StutterQuiet == ASSUME SlotInv, UNCHANGED vars PROVE Quiet
BY DEF SlotInv, Quiet, RunsWellFormed, vars, client, replica

\* The four callers of runPBFT start a run of their request.
LEMMA NewRunFields ==
    ASSUME NEW t, NEW st, NEW s
    PROVE  NewRun(t, st, s).tx = t /\ NewRun(t, st, s).pc = "locks" /\ NewRun(t, st, s).slot = s
BY DEF NewRun, NoRun

\* A caller that goes on to its next runPBFT call starts a run without a slot.
LEMMA FollowedStarts ==
    ASSUME SlotInv, NEW r \in Run, NEW q \in Run, NEW st, run[r].pc # "none", FreshRun(q),
           run' = Followed(r, q, st), UNCHANGED <<seq, reqSeq, job, log, store>>
    PROVE  run[r].tx \in Tx /\ Starts(q, run[r].tx)
<1>1. run[r].tx \in Tx /\ run[q].pc = "none" /\ q # r
  BY DEF SlotInv, RunsWellFormed, FreshRun
<1>2. run[r] \in RunRec
  BY DEF SlotInv, TypeOK
<1>3. run'[q] = NewRun(run[r].tx, st, 0)
  BY DEF Followed, Moved, SlotInv, TypeOK
<1>4. \A u \in Run \ {q} : run'[u] = Moved(r, "end")[u]
  BY DEF Followed, Moved, SlotInv, TypeOK
<1>5. \A u \in Run \ {q} :
         /\ run'[u].tx = run[u].tx /\ run'[u].slot = run[u].slot
         /\ run'[u].pc = run[u].pc \/ (run'[u].pc = "end" /\ run[u].pc # "none")
  <2>1. "end" \in RunPc
    BY DEF RunPc
  <2> QED
    BY <1>1, <1>4, <2>1, MovedFields DEF SlotInv
<1> QED
  BY <1>1, <1>3, <1>5, NewRunFields DEF Starts

\* ExecuteTransaction, which may start runs, keeps the leader the authority on every slot.
LEMMA ExecuteTransactionSlots ==
    ASSUME SlotInv, NEW t \in Tx, ExecuteTransaction(t)
    PROVE  RunsWellFormed' /\ SlotsAssigned' /\ LeaderDecides'
<1>1. CASE ~live[Leader]
  <2>1. Quiet
    BY <1>1 DEF SlotInv, ExecuteTransaction, Quiet, RunsWellFormed, replica
  <2> QED
    BY <2>1, QuietStep
<1>2. CASE live[Leader]
  <2> DEFINE st == IF Body[t].role = "intra" THEN "" ELSE "P"
  <2>1. PICK q \in Run : FreshRun(q) /\ run' = [run EXCEPT ![q] = NewRun(t, st, reqSeq[t])]
    BY <1>2 DEF ExecuteTransaction
  <2> HIDE DEF st
  <2>2. Starts(q, t)
    <3>1. run'[q].tx = t /\ run'[q].pc = "locks" /\ run'[q].slot = reqSeq[t]
      BY <2>1, NewRunFields DEF SlotInv, TypeOK
    <3>2. \A r \in Run \ {q} : run'[r] = run[r]
      BY <2>1 DEF SlotInv, TypeOK
    <3> QED
      BY <2>1, <3>1, <3>2 DEF ExecuteTransaction, Starts, FreshRun, replica
  <2> QED
    BY <2>2, StartStep
<1> QED
  BY <1>1, <1>2

\* PCPrepareReply, which may start runs, keeps the leader the authority on every slot.
LEMMA PCPrepareReplySlots ==
    ASSUME SlotInv, NEW r \in Run, PCPrepareReply(r)
    PROVE  RunsWellFormed' /\ SlotsAssigned' /\ LeaderDecides'
<1>1. PICK q \in Run, st \in {"C", "A"} : FreshRun(q) /\ run' = Followed(r, q, st)
  BY DEF PCPrepareReply
<1>2. run[r].tx \in Tx /\ Starts(q, run[r].tx)
  BY <1>1, FollowedStarts DEF PCPrepareReply, client, replica
<1> QED
  BY <1>2, StartStep

\* PCCommit, which may start runs, keeps the leader the authority on every slot.
LEMMA PCCommitSlots ==
    ASSUME SlotInv, NEW r \in Run, PCCommit(r)
    PROVE  RunsWellFormed' /\ SlotsAssigned' /\ LeaderDecides'
<1>1. PICK q \in Run : FreshRun(q) /\ run' = Followed(r, q, "C")
  BY DEF PCCommit
<1>2. run[r].tx \in Tx /\ Starts(q, run[r].tx)
  BY <1>1, FollowedStarts DEF PCCommit, replica
<1> QED
  BY <1>2, StartStep

\* WaitForPCCommit, which may start runs, keeps the leader the authority on every slot.
LEMMA WaitForPCCommitSlots ==
    ASSUME SlotInv, NEW r \in Run, WaitForPCCommit(r)
    PROVE  RunsWellFormed' /\ SlotsAssigned' /\ LeaderDecides'
<1>1. CASE run' = Moved(r, "end")
  <2>1. "end" \in RunPc
    BY DEF RunPc
  <2>2. Quiet
    BY <1>1, <2>1, MovedRun DEF SlotInv, WaitForPCCommit, Quiet, RunsWellFormed, client, replica
  <2> QED
    BY <2>2, QuietStep
<1>2. CASE \E q \in Run : FreshRun(q) /\ run' = Followed(r, q, "A")
  <2>1. PICK q \in Run : FreshRun(q) /\ run' = Followed(r, q, "A")
    BY <1>2
  <2>2. run[r].tx \in Tx /\ Starts(q, run[r].tx)
    BY <2>1, FollowedStarts DEF WaitForPCCommit, client, replica
  <2> QED
    BY <2>2, StartStep
<1> QED
  BY <1>1, <1>2 DEF WaitForPCCommit

\* PCPrepare, which may start runs, keeps the leader the authority on every slot.
LEMMA PCPrepareSlots ==
    ASSUME SlotInv, NEW t \in Tx, PCPrepare(t)
    PROVE  RunsWellFormed' /\ SlotsAssigned' /\ LeaderDecides'
<1>1. PICK q \in Run :
         /\ FreshRun(q)
         /\ run' = [u \in Run |->
                      IF u = q THEN NewRun(t, "P", 0)
                      ELSE IF run[u].tx = t /\ run[u].pc = "ok" THEN [run[u] EXCEPT !.pc = "end"]
                      ELSE run[u]]
  BY DEF PCPrepare
<1>2. run'[q].tx = t /\ run'[q].pc = "locks" /\ run'[q].slot = 0
  BY <1>1, NewRunFields
<1>3. \A u \in Run \ {q} :
         /\ run'[u].tx = run[u].tx /\ run'[u].slot = run[u].slot
         /\ run'[u].pc = run[u].pc \/ (run'[u].pc = "end" /\ run[u].pc # "none")
  <2>1. \A u \in Run : run[u] \in RunRec
    BY DEF SlotInv, TypeOK
  <2> QED
    BY <1>1, <2>1 DEF RunRec
<1>4. Starts(q, t)
  BY <1>1, <1>2, <1>3 DEF PCPrepare, Starts, FreshRun, replica
<1> QED
  BY <1>4, StartStep

-----------------------------------------------------------------------------

\* Init satisfies the inductive invariant.
LEMMA InitSlots == Init => SlotInv
<1> SUFFICES ASSUME Init PROVE SlotInv
  OBVIOUS
<1>1. TypeOK
  BY InitType
<1>2. RunsWellFormed /\ SlotsAssigned
  BY ClusterAssumption DEF Init, RunsWellFormed, SlotsAssigned, NoRun, NoEntry
<1>3. LeaderDecides
  BY ClusterAssumption DEF Init, LeaderDecides, NoEntry, NoUnit
<1> QED
  BY <1>1, <1>2, <1>3 DEF SlotInv

\* The leader gives the next slot to a request, or runs it in the slot it has.
LEMMA PrePrepareRunSlots ==
    ASSUME SlotInv, NEW r \in Run, PrePrepareRun(r)
    PROVE  RunsWellFormed' /\ SlotsAssigned' /\ LeaderDecides'
<1> DEFINE t   == run[r].tx
           old == run[r].slot
           s   == IF old = 0 THEN seq ELSE old
<1>1. t \in Tx /\ old \in 0..MaxSlot /\ s \in Slot /\ seq \in Nat /\ Leader \in Node
  BY RunFacts, ClusterAssumption DEF SlotInv, PrePrepareRun, TypeOK
<1>2. /\ run'[r].tx = t /\ run'[r].slot = s /\ run'[r].pc = "prepares"
      /\ \A q \in Run \ {r} : run'[q] = run[q]
  BY DEF SlotInv, PrePrepareRun, TypeOK, RunRec
<1>3. /\ log'[Leader][s].tx = t
      /\ \A n \in Node, u \in Slot : n # Leader \/ u # s => log'[n][u] = log[n][u]
  BY <1>1 DEF SlotInv, PrePrepareRun, TypeOK
<1>4. \/ old = 0 /\ s = seq /\ seq' = seq + 1
      \/ old \in Slot /\ s = old /\ old < seq /\ seq' = seq /\ log[Leader][s].tx = t
  BY <1>1 DEF SlotInv, PrePrepareRun, SlotsAssigned, Slot, NextSeq
<1>5. reqSeq' = [reqSeq EXCEPT ![t] = s] /\ store' = store
  BY DEF PrePrepareRun
<1>6. /\ s < seq' /\ seq <= seq'
      /\ log[Leader][s].tx \in {NoTx, t}
      /\ \A u \in Slot : u < seq /\ u = s => log[Leader][u].tx = t
  <2>1. CASE s = seq /\ seq' = seq + 1
    BY <1>1, <2>1 DEF SlotInv, SlotsAssigned, Slot
  <2>2. CASE s < seq /\ seq' = seq /\ log[Leader][s].tx = t
    BY <1>1, <2>2
  <2> QED
    BY <1>4, <2>1, <2>2
<1>7. \A q \in Run, n \in Node : job'[n][q] # "none" => job[n][q] # "none" \/ q = r
  BY DEF SlotInv, PrePrepareRun, TypeOK
<1> HIDE DEF t, old, s
<1>8. RunsWellFormed'
  BY <1>1, <1>2, <1>7 DEF SlotInv, RunsWellFormed
<1>9. SlotsAssigned'
  <2>1. \A u \in Slot : u < seq => log'[Leader][u].tx = log[Leader][u].tx
    BY <1>1, <1>3, <1>6
  <2>2. ASSUME NEW q \in Run, run'[q].slot # 0
        PROVE  run'[q].slot < seq' /\ log'[Leader][run'[q].slot].tx = run'[q].tx
    <3>1. CASE q = r
      BY <1>2, <1>3, <1>6, <3>1
    <3>2. CASE q # r
      <4>1. run[q].slot \in Slot /\ run[q].slot < seq
        BY <1>2, <2>2, <3>2 DEF SlotInv, SlotsAssigned, TypeOK, RunRec, Slot
      <4> QED
        BY <1>1, <1>2, <1>4, <2>1, <2>2, <3>2, <4>1 DEF SlotInv, SlotsAssigned, Slot
    <3> QED
      BY <3>1, <3>2
  <2>3. ASSUME NEW v \in Tx, reqSeq'[v] # 0
        PROVE  reqSeq'[v] < seq' /\ log'[Leader][reqSeq'[v]].tx = v
    <3>1. CASE v = t
      BY <1>1, <1>3, <1>5, <1>6, <3>1 DEF SlotInv, TypeOK
    <3>2. CASE v # t
      <4>1. reqSeq'[v] = reqSeq[v]
        BY <1>5, <3>2 DEF SlotInv, TypeOK
      <4>2. reqSeq[v] \in Slot /\ reqSeq[v] < seq /\ log[Leader][reqSeq[v]].tx = v
        BY <2>3, <4>1 DEF SlotInv, SlotsAssigned, TypeOK, Slot
      <4> QED
        BY <1>1, <1>4, <2>1, <4>1, <4>2 DEF Slot
    <3> QED
      BY <3>1, <3>2
  <2>4. ASSUME NEW u \in Slot, u >= seq'
        PROVE  log'[Leader][u].tx = NoTx
    <3>1. u # s /\ u >= seq
      BY <1>1, <1>4, <1>6, <2>4 DEF Slot
    <3> QED
      BY <1>1, <1>3, <3>1 DEF SlotInv, SlotsAssigned
  <2> QED
    BY <2>2, <2>3, <2>4 DEF SlotsAssigned
<1>10. LeaderDecides'
  <2>1. \A n \in Node, u \in Slot : u = s =>
           log[n][u].tx \in {NoTx, t} /\ store[n][u].tx \in {NoTx, t}
    BY <1>1, <1>6 DEF SlotInv, LeaderDecides
  <2> QED
    BY <1>1, <1>3, <1>5, <2>1 DEF SlotInv, LeaderDecides
<1> QED
  BY <1>8, <1>9, <1>10

\* A backup writes the entry the leader has: the slot of a run is the leader's.
LEMMA PrePrepareLockedSlots ==
    ASSUME SlotInv, NEW n \in Node, NEW r \in Run, PrePrepareLocked(n, r)
    PROVE  RunsWellFormed' /\ SlotsAssigned' /\ LeaderDecides'
<1> DEFINE t == run[r].tx
           s == run[r].slot
<1>1. t \in Tx /\ s \in Slot /\ Leader \in Node
  BY RunFacts, ClusterAssumption DEF SlotInv, PrePrepareLocked
<1>2. log[Leader][s].tx = t
  BY <1>1, ClusterAssumption DEF SlotInv, SlotsAssigned, Slot
<1>3. /\ log'[n][s].tx = t
      /\ \A m \in Node, u \in Slot : m # n \/ u # s => log'[m][u] = log[m][u]
  BY <1>1 DEF SlotInv, PrePrepareLocked, TypeOK
<1>4. \A u \in Slot : log'[Leader][u].tx = log[Leader][u].tx
  BY <1>1, <1>2, <1>3
<1>5. run' = run /\ store' = store /\ seq' = seq /\ reqSeq' = reqSeq
  BY DEF PrePrepareLocked, client
<1> HIDE DEF t, s
<1>6. RunsWellFormed'
  <2>1. \A m \in Node, q \in Run : job'[m][q] # "none" => job[m][q] # "none"
    <3>1. PICK pc \in JobPc : job' = [job EXCEPT ![n][r] = pc]
      BY DEF PrePrepareLocked, JobPc
    <3>2. job[n][r] # "none"
      BY DEF PrePrepareLocked
    <3> QED
      BY <3>1, <3>2 DEF SlotInv, TypeOK
  <2> QED
    BY <1>5, <2>1 DEF SlotInv, RunsWellFormed
<1>7. SlotsAssigned'
  <2>1. \A q \in Run : run[q].slot # 0 => run[q].slot \in Slot
    BY DEF SlotInv, TypeOK, RunRec, Slot
  <2>2. \A v \in Tx : reqSeq[v] # 0 => reqSeq[v] \in Slot
    BY DEF SlotInv, TypeOK, Slot
  <2> QED
    BY <1>4, <1>5, <2>1, <2>2 DEF SlotInv, SlotsAssigned
<1>8. LeaderDecides'
  BY <1>1, <1>2, <1>3, <1>4, <1>5 DEF SlotInv, LeaderDecides
<1> QED
  BY <1>6, <1>7, <1>8

-----------------------------------------------------------------------------

\* Every step keeps the inductive invariant.
LEMMA NextType == ASSUME SlotInv, [Next]_vars PROVE TypeOK'
<1>1. ASSUME NEW r \in Run, BalanceTooLow(r) \/ PrePrepareRun(r) \/ FinishPrepares(r) \/ FinishCommits(r)
      PROVE  TypeOK'
  BY <1>1, BalanceTooLowType, PrePrepareRunType, FinishPreparesType, FinishCommitsType DEF SlotInv
<1>2. ASSUME NEW r \in Run, PCPrepareReply(r) \/ CommitRemote(r) \/ PCCommit(r) \/ WaitForPCCommit(r)
      PROVE  TypeOK'
  BY <1>2, PCPrepareReplyType, CommitRemoteType, PCCommitType, WaitForPCCommitType DEF SlotInv
<1>3. ASSUME NEW n \in Node, Execute(n)
      PROVE  TypeOK'
  BY <1>3, ExecuteType DEF SlotInv
<1>4. ASSUME NEW n \in Node, NEW r \in Run,
             \/ PrePrepare(n, r) \/ PrePrepareLocked(n, r)
             \/ Prepare(n, r) \/ PrepareDone(n, r) \/ PrepareTimeout(n, r)
      PROVE  TypeOK'
  BY <1>4, PrePrepareType, PrePrepareLockedType, PrepareType, PrepareDoneType, PrepareTimeoutType
     DEF SlotInv
<1>5. ASSUME NEW n \in Node, NEW r \in Run,
             \/ SendPrepare(n, r) \/ SendCommit(n, r)
             \/ Commit(n, r) \/ CommitDone(n, r) \/ CommitTimeout(n, r)
      PROVE  TypeOK'
  BY <1>5, SendType, CommitType, CommitDoneType, CommitTimeoutType DEF SlotInv
<1>6. ASSUME NEW n \in Node, NEW r \in Run, NEW q \in Run, CollectPrepare(n, r, q) \/ CollectCommit(n, r, q)
      PROVE  TypeOK'
  BY <1>6, CollectPrepareType, CollectCommitType DEF SlotInv
<1>7. ASSUME NEW t \in Tx, ExecuteTransaction(t) \/ PCPrepare(t)
      PROVE  TypeOK'
  BY <1>7, ExecuteTransactionType, PCPrepareType DEF SlotInv
<1>8. ASSUME NEW n \in Node, SetStatus(n) \/ SetByzantine(n)
      PROVE  TypeOK'
  BY <1>8, SwitchType DEF SlotInv
<1>9. CASE UNCHANGED vars
  BY <1>9 DEF SlotInv, TypeOK, vars, client, replica, certs, flags
<1> QED
  BY <1>1, <1>2, <1>3, <1>4, <1>5, <1>6, <1>7, <1>8, <1>9
     DEF Next, LeaderStep, ServerStep, ClientStep, OperatorStep

\* Next, which may start runs, keeps the leader the authority on every slot.
LEMMA NextSlots ==
    ASSUME SlotInv, [Next]_vars
    PROVE  RunsWellFormed' /\ SlotsAssigned' /\ LeaderDecides'
<1> DEFINE Kept == RunsWellFormed' /\ SlotsAssigned' /\ LeaderDecides'
<1> SUFFICES Kept
  OBVIOUS
<1>0. Quiet => Kept
  BY QuietStep
<1> HIDE DEF Kept
<1>1. ASSUME NEW r \in Run, BalanceTooLow(r) \/ FinishPrepares(r) \/ FinishCommits(r) \/ CommitRemote(r)
      PROVE  Kept
  BY <1>0, <1>1, BalanceTooLowQuiet, FinishPreparesQuiet, FinishCommitsQuiet, CommitRemoteQuiet
<1>2. ASSUME NEW r \in Run, PrePrepareRun(r) \/ PCPrepareReply(r) \/ PCCommit(r) \/ WaitForPCCommit(r)
      PROVE  Kept
  BY <1>2, PrePrepareRunSlots, PCPrepareReplySlots, PCCommitSlots, WaitForPCCommitSlots DEF Kept
<1>3. ASSUME NEW n \in Node, Execute(n) \/ SetStatus(n) \/ SetByzantine(n)
      PROVE  Kept
  BY <1>0, <1>3, ExecuteQuiet, SwitchQuiet
<1>4. ASSUME NEW n \in Node, NEW r \in Run,
             PrePrepare(n, r) \/ Prepare(n, r) \/ PrepareDone(n, r) \/ PrepareTimeout(n, r)
      PROVE  Kept
  BY <1>0, <1>4, PrePrepareQuiet, PrepareQuiet, PrepareDoneQuiet, PrepareTimeoutQuiet
<1>5. ASSUME NEW n \in Node, NEW r \in Run, PrePrepareLocked(n, r)
      PROVE  Kept
  BY <1>5, PrePrepareLockedSlots DEF Kept
<1>6. ASSUME NEW n \in Node, NEW r \in Run,
             \/ SendPrepare(n, r) \/ SendCommit(n, r)
             \/ Commit(n, r) \/ CommitDone(n, r) \/ CommitTimeout(n, r)
      PROVE  Kept
  BY <1>0, <1>6, SendQuiet, CommitQuiet, CommitDoneQuiet, CommitTimeoutQuiet
<1>7. ASSUME NEW n \in Node, NEW r \in Run, NEW q \in Run, CollectPrepare(n, r, q) \/ CollectCommit(n, r, q)
      PROVE  Kept
  BY <1>0, <1>7, CollectPrepareQuiet, CollectCommitQuiet
<1>8. ASSUME NEW t \in Tx, ExecuteTransaction(t) \/ PCPrepare(t)
      PROVE  Kept
  BY <1>8, ExecuteTransactionSlots, PCPrepareSlots DEF Kept
<1>9. CASE UNCHANGED vars
  BY <1>0, <1>9, StutterQuiet
<1> QED
  BY <1>1, <1>2, <1>3, <1>4, <1>5, <1>6, <1>7, <1>8, <1>9
     DEF Next, LeaderStep, ServerStep, ClientStep, OperatorStep

\* In every reachable state the leader's log and RequestLog are the authority on
\* which request a slot belongs to, and runs and goroutines agree with them.
THEOREM SlotInvariant == Spec => []SlotInv
<1>1. Init => SlotInv
  BY InitSlots
<1>2. SlotInv /\ [Next]_vars => SlotInv'
  <2> SUFFICES ASSUME SlotInv, [Next]_vars PROVE SlotInv'
    OBVIOUS
  <2> QED
    BY NextType, NextSlots DEF SlotInv
<1> QED
  BY <1>1, <1>2, PTL DEF Spec

\* Whatever the client retries, the timers and the switches do, every variable of a
\* server keeps the type the code gives it.
THEOREM TypeCorrect == Spec => []TypeOK
<1>1. SlotInv => TypeOK
  BY DEF SlotInv
<1> QED
  BY <1>1, SlotInvariant, PTL

\* Servers never disagree on the request of a slot, for any number of servers,
\* requests, retries, timeouts and switches: the PrePrepare digest check and the
\* reuse of the old slot by runPBFT are enough, no quorum is needed for it while
\* the leader is fixed.
THEOREM SlotAgreementHolds == Spec => []SlotAgreement
<1>1. SlotInv => SlotAgreement
  BY ClusterAssumption DEF SlotInv, LeaderDecides, SlotAgreement
<1> QED
  BY <1>1, SlotInvariant, PTL
=============================================================================
