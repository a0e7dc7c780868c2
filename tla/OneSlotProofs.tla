----------------------------- MODULE OneSlotProofs -----------------------------
(***************************************************************************)
(* The slots of a cluster, for every cluster and every set of requests.    *)
(* A request of one cluster has one slot: the gateway calls again only     *)
(* when its call has returned, and runPBFT then takes the slot RequestLog  *)
(* has for the request.  A server votes for and stores what it has logged. *)
(* A slot that was run once has the votes of a quorum of servers.          *)
(***************************************************************************)
EXTENDS PbftClusterProofs, FiniteSetTheorems

IsIntra(t) == Body[t].role = "intra"

\* A request of one cluster has at most one run under way; until that run has written
\* its log, its slot is the one in RequestLog, and the leader's log has no other.
OneRun ==
    /\ \A r \in Run : run[r].pc = "locks" /\ IsIntra(run[r].tx) => run[r].slot = reqSeq[run[r].tx]
    /\ \A q, r \in Run :
         Running(q) /\ Running(r) /\ run[q].tx = run[r].tx /\ IsIntra(run[r].tx) => q = r

Logged ==
    \A s \in Slot :
        log[Leader][s].tx # NoTx /\ IsIntra(log[Leader][s].tx) => reqSeq[log[Leader][s].tx] = s

OneSlotInv == SlotInv /\ OneRun /\ Logged

\* A step that starts no run and leaves the leader's slots alone.
Rests ==
    /\ reqSeq' = reqSeq
    /\ \A r \in Run :
         /\ run'[r].tx = run[r].tx /\ run'[r].slot = run[r].slot
         /\ run'[r].pc = "none" <=> run[r].pc = "none"
         /\ run'[r].pc = "locks" => run[r].pc = "locks"
         /\ run'[r].pc \in {"locks", "prepares", "commits"} => Running(r)
    /\ \A s \in Slot : log'[Leader][s].tx = log[Leader][s].tx

LEMMA RestStep ==
    ASSUME OneSlotInv, Rests
    PROVE  OneRun' /\ Logged'
<1>1. OneRun'
  BY DEF OneSlotInv, OneRun, Rests, Running
<1>2. Logged'
  BY DEF OneSlotInv, Logged, Rests
<1> QED
  BY <1>1, <1>2

\* Steps that leave the runs alone.
LEMMA RunsKept ==
    ASSUME Quiet, run' = run
    PROVE  Rests
  BY ClusterAssumption DEF Quiet, Rests, Running

\* Steps that move one run on, but not back to its locks.
LEMMA RunMoved ==
    ASSUME SlotInv, Quiet, NEW r \in Run, NEW pc \in RunPc, run' = Moved(r, pc),
           pc # "locks", pc = "commits" => Running(r), pc # "prepares"
    PROVE  Rests
<1>1. run'[r].pc = pc /\ \A q \in Run \ {r} : run'[q] = run[q]
  BY MovedRun DEF SlotInv
<1> QED
  BY <1>1, ClusterAssumption DEF Quiet, Rests, Running

\* Steps in which a collector takes a vote.
LEMMA RunCollects ==
    ASSUME SlotInv, Quiet, NEW n \in Node, NEW r \in Run, NEW q \in Run,
           CollectPrepare(n, r, q) \/ CollectCommit(n, r, q)
    PROVE  Rests
<1>1. run[q] \in RunRec
  BY DEF SlotInv, TypeOK
<1>2. \A u \in Run : run'[u].pc = run[u].pc
  <2>1. CASE CollectPrepare(n, r, q)
    BY <1>1, <2>1 DEF CollectPrepare, SlotInv, TypeOK, RunRec
  <2>2. CASE CollectCommit(n, r, q)
    BY <1>1, <2>2 DEF CollectCommit, SlotInv, TypeOK, RunRec
  <2> QED
    BY <2>1, <2>2
<1> QED
  BY <1>2, ClusterAssumption DEF Quiet, Rests, Running

-----------------------------------------------------------------------------
(* Steps that start a run.                                                 *)

\* A cross-shard request may have as many runs as it likes.
LEMMA StartsCross ==
    ASSUME OneSlotInv, NEW q \in Run, NEW t \in Tx, Starts(q, t), ~IsIntra(t)
    PROVE  OneRun' /\ Logged'
<1>1. OneRun'
  BY DEF OneSlotInv, OneRun, Starts, Running
<1>2. Logged'
  BY DEF OneSlotInv, Logged, Starts
<1> QED
  BY <1>1, <1>2

\* A run of any request, in its slot, while it has no other.
LEMMA StartsOnly ==
    ASSUME OneSlotInv, NEW q \in Run, NEW t \in Tx, Starts(q, t),
           run'[q].slot = reqSeq[t], \A r \in Run : run[r].tx = t => ~Running(r)
    PROVE  OneRun' /\ Logged'
<1>1. OneRun'
  BY DEF OneSlotInv, OneRun, Starts, Running
<1>2. Logged'
  BY DEF OneSlotInv, Logged, Starts
<1> QED
  BY <1>1, <1>2

\* ExecuteTransaction at the leader: the gateway's last call has returned.
LEMMA ExecuteTransactionOne ==
    ASSUME OneSlotInv, NEW t \in Tx, ExecuteTransaction(t)
    PROVE  OneRun' /\ Logged'
<1>1. CASE ~live[Leader]
  <2>1. Rests
    BY <1>1 DEF ExecuteTransaction, Rests, replica, Running
  <2> QED
    BY <2>1, RestStep
<1>2. CASE live[Leader]
  <2> DEFINE st == IF Body[t].role = "intra" THEN "" ELSE "P"
  <2>1. PICK q \in Run : FreshRun(q) /\ run' = [run EXCEPT ![q] = NewRun(t, st, reqSeq[t])]
    BY <1>2 DEF ExecuteTransaction
  <2> HIDE DEF st
  <2>2. run'[q].tx = t /\ run'[q].pc = "locks" /\ run'[q].slot = reqSeq[t]
    BY <2>1, NewRunFields DEF OneSlotInv, SlotInv, TypeOK
  <2>3. \A r \in Run \ {q} : run'[r] = run[r]
    BY <2>1 DEF OneSlotInv, SlotInv, TypeOK
  <2>4. Starts(q, t)
    BY <2>1, <2>2, <2>3 DEF ExecuteTransaction, Starts, FreshRun, replica
  <2>5. \A r \in Run : run[r].tx = t => ~Running(r)
    BY DEF ExecuteTransaction, Busy
  <2> QED
    BY <2>2, <2>4, <2>5, StartsOnly
<1> QED
  BY <1>1, <1>2

\* The runs that follow a run of a cross-shard request.
LEMMA FollowedOne ==
    ASSUME OneSlotInv, NEW r \in Run,
           PCPrepareReply(r) \/ PCCommit(r) \/ WaitForPCCommit(r)
    PROVE  OneRun' /\ Logged'
<1>1. CASE run' = Moved(r, "end")
  <2>1. "end" \in RunPc
    BY DEF RunPc
  <2>2. run'[r].tx = run[r].tx /\ run'[r].slot = run[r].slot /\ run'[r].pc = "end"
        /\ \A q \in Run \ {r} : run'[q] = run[q]
    BY <1>1, <2>1, MovedRun DEF OneSlotInv, SlotInv
  <2>3. run[r].pc # "none"
    BY DEF PCPrepareReply, PCCommit, WaitForPCCommit
  <2>4. Rests
    BY <2>2, <2>3 DEF PCPrepareReply, PCCommit, WaitForPCCommit, Rests, client, replica, Running
  <2> QED
    BY <2>4, RestStep
<1>2. CASE \E q \in Run, st \in {"C", "A"} : FreshRun(q) /\ run' = Followed(r, q, st)
  <2>1. PICK q \in Run, st \in {"C", "A"} : FreshRun(q) /\ run' = Followed(r, q, st)
    BY <1>2
  <2>2. run[r].pc # "none" /\ UNCHANGED <<seq, reqSeq, job, log, store>>
    BY DEF PCPrepareReply, PCCommit, WaitForPCCommit, client, replica
  <2>3. run[r].tx \in Tx /\ Starts(q, run[r].tx)
    BY <2>1, <2>2, FollowedStarts DEF OneSlotInv
  <2>4. ~IsIntra(run[r].tx)
    BY DEF PCPrepareReply, PCCommit, WaitForPCCommit, IsIntra
  <2> QED
    BY <2>3, <2>4, StartsCross
<1> QED
  BY <1>1, <1>2 DEF PCPrepareReply, PCCommit, WaitForPCCommit

\* PCPrepare at the participant's leader.
LEMMA PCPrepareOne ==
    ASSUME OneSlotInv, NEW t \in Tx, PCPrepare(t)
    PROVE  OneRun' /\ Logged'
<1>1. PICK q \in Run :
         /\ FreshRun(q)
         /\ run' = [u \in Run |->
                      IF u = q THEN NewRun(t, "P", 0)
                      ELSE IF run[u].tx = t /\ run[u].pc = "ok" THEN [run[u] EXCEPT !.pc = "end"]
                      ELSE run[u]]
  BY DEF PCPrepare
<1>2. run'[q].tx = t /\ run'[q].pc = "locks" /\ run'[q].slot = 0
  BY <1>1, NewRunFields
<1>3. \A u \in Run \ {q} :
         /\ run'[u].tx = run[u].tx /\ run'[u].slot = run[u].slot
         /\ run'[u].pc = run[u].pc \/ (run'[u].pc = "end" /\ run[u].pc # "none")
  <2>1. \A u \in Run : run[u] \in RunRec
    BY DEF OneSlotInv, SlotInv, TypeOK
  <2> QED
    BY <1>1, <2>1 DEF RunRec
<1>4. Starts(q, t) /\ ~IsIntra(t)
  BY <1>1, <1>2, <1>3 DEF PCPrepare, Starts, FreshRun, replica, IsIntra
<1> QED
  BY <1>4, StartsCross

-----------------------------------------------------------------------------
(* Steps that write logs.                                                  *)

\* A backup logs the request that the leader has in the slot.
LEMMA PrePrepareLockedRests ==
    ASSUME SlotInv, NEW n \in Node, NEW r \in Run, PrePrepareLocked(n, r)
    PROVE  Rests
<1> DEFINE t == run[r].tx
           s == run[r].slot
<1>1. t \in Tx /\ s \in Slot /\ Leader \in Node
  BY RunFacts, ClusterAssumption DEF SlotInv, PrePrepareLocked
<1>2. log[Leader][s].tx = t
  BY <1>1, ClusterAssumption DEF SlotInv, SlotsAssigned, Slot
<1>3. /\ log'[n][s].tx = t
      /\ \A m \in Node, u \in Slot : m # n \/ u # s => log'[m][u] = log[m][u]
  BY <1>1 DEF SlotInv, PrePrepareLocked, TypeOK
<1>4. \A u \in Slot : log'[Leader][u].tx = log[Leader][u].tx
  BY <1>1, <1>2, <1>3
<1>5. run' = run /\ reqSeq' = reqSeq
  BY DEF PrePrepareLocked, client
<1> QED
  BY <1>4, <1>5 DEF Rests, Running

\* The leader writes its log and RequestLog: the slot RequestLog had, or one that no
\* request has when it had none.
LEMMA PrePrepareRunOne ==
    ASSUME OneSlotInv, NEW r \in Run, PrePrepareRun(r)
    PROVE  OneRun' /\ Logged'
<1> DEFINE t   == run[r].tx
           old == run[r].slot
           s   == IF old = 0 THEN seq ELSE old
<1>1. t \in Tx /\ s \in Slot /\ Leader \in Node /\ run[r].pc = "locks" /\ Running(r)
  BY RunFacts, ClusterAssumption DEF OneSlotInv, SlotInv, PrePrepareRun, Running
<1>2. /\ run'[r].tx = t /\ run'[r].slot = s /\ run'[r].pc = "prepares"
      /\ \A q \in Run \ {r} : run'[q] = run[q]
  BY DEF OneSlotInv, SlotInv, PrePrepareRun, TypeOK, RunRec
<1>3. /\ log'[Leader][s].tx = t
      /\ \A u \in Slot : u # s => log'[Leader][u] = log[Leader][u]
  BY <1>1 DEF OneSlotInv, SlotInv, PrePrepareRun, TypeOK
<1>4. /\ reqSeq'[t] = s
      /\ \A v \in Tx : v # t => reqSeq'[v] = reqSeq[v]
  BY <1>1 DEF OneSlotInv, SlotInv, TypeOK, PrePrepareRun
<1>5. \/ old = 0 /\ (IsIntra(t) => reqSeq[t] = 0)
      \/ old = s /\ (IsIntra(t) => reqSeq[t] = s)
  BY <1>1 DEF OneSlotInv, OneRun
<1>6. \A q \in Run : Running(q) => run[q].tx \in Tx
  BY DEF OneSlotInv, SlotInv, RunsWellFormed, Running
<1>7. \A u \in Slot : log[Leader][u].tx \in Tx \cup {NoTx}
  BY <1>1 DEF OneSlotInv, SlotInv, TypeOK, Entry
<1> HIDE DEF t, old, s
<1>8. OneRun'
  <2>1. ASSUME NEW q \in Run, run'[q].pc = "locks", IsIntra(run'[q].tx)
        PROVE  run'[q].slot = reqSeq'[run'[q].tx]
    <3>1. q # r /\ run'[q] = run[q]
      BY <1>2, <2>1
    <3>2. run[q].tx \in Tx /\ run[q].tx # t
      BY <1>1, <1>6, <2>1, <3>1 DEF OneSlotInv, OneRun, Running, t
    <3> QED
      BY <1>4, <2>1, <3>1, <3>2 DEF OneSlotInv, OneRun
  <2>2. \A q \in Run : run'[q].tx = run[q].tx
    BY <1>2 DEF t
  <2>3. \A q \in Run : run'[q].pc \in {"locks", "prepares", "commits"} => Running(q)
    BY <1>1, <1>2 DEF Running
  <2>4. \A p, q \in Run :
           Running(p)' /\ Running(q)' /\ run'[p].tx = run'[q].tx /\ IsIntra(run'[q].tx) => p = q
    BY <2>2, <2>3 DEF OneSlotInv, OneRun, Running
  <2> QED
    BY <2>1, <2>4 DEF OneRun
<1>9. Logged'
  <2>1. ASSUME NEW u \in Slot, log'[Leader][u].tx # NoTx, IsIntra(log'[Leader][u].tx)
        PROVE  reqSeq'[log'[Leader][u].tx] = u
    <3>1. CASE u = s
      BY <1>3, <1>4, <3>1
    <3>2. CASE u # s
      <4> DEFINE v == log[Leader][u].tx
      <4>1. v \in Tx /\ log'[Leader][u].tx = v /\ reqSeq[v] = u
        BY <1>3, <1>7, <2>1, <3>2 DEF OneSlotInv, Logged
      <4>2. v # t
        BY <1>5, <2>1, <3>2, <4>1 DEF Slot
      <4> QED
        BY <1>4, <4>1, <4>2
    <3> QED
      BY <3>1, <3>2
  <2> QED
    BY <2>1 DEF Logged
<1> QED
  BY <1>8, <1>9

-----------------------------------------------------------------------------

\* Every other step starts no run and leaves the leader's slots alone.
LEMMA RestKinds ==
    ASSUME SlotInv, [Next]_vars
    PROVE  \/ Rests
           \/ \E r \in Run : PrePrepareRun(r) \/ PCPrepareReply(r) \/ PCCommit(r) \/ WaitForPCCommit(r)
           \/ \E t \in Tx : ExecuteTransaction(t) \/ PCPrepare(t)
<1> DEFINE Other == \/ \E r \in Run : PrePrepareRun(r) \/ PCPrepareReply(r) \/ PCCommit(r)
                                       \/ WaitForPCCommit(r)
                    \/ \E t \in Tx : ExecuteTransaction(t) \/ PCPrepare(t)
<1> SUFFICES ASSUME ~Other PROVE Rests
  OBVIOUS
<1>1. ASSUME NEW r \in Run, BalanceTooLow(r) PROVE Rests
  <2>1. Quiet /\ run' = Moved(r, "failed") /\ "failed" \in RunPc
    BY <1>1, BalanceTooLowQuiet DEF BalanceTooLow, RunPc
  <2> QED
    BY <2>1, RunMoved
<1>2. ASSUME NEW r \in Run, FinishPrepares(r) PROVE Rests
  <2>1. Quiet /\ Running(r) /\ {"failed", "commits"} \subseteq RunPc
    BY <1>2, FinishPreparesQuiet DEF FinishPrepares, Running, RunPc
  <2>2. run' = Moved(r, "commits") \/ run' = Moved(r, "failed")
    BY <1>2 DEF FinishPrepares
  <2> QED
    BY <2>1, <2>2, RunMoved
<1>3. ASSUME NEW r \in Run, FinishCommits(r) PROVE Rests
  <2>1. Quiet /\ {"failed", "ok"} \subseteq RunPc
    BY <1>3, FinishCommitsQuiet DEF RunPc
  <2>2. run' = Moved(r, "ok") \/ run' = Moved(r, "failed")
    BY <1>3 DEF FinishCommits
  <2> QED
    BY <2>1, <2>2, RunMoved
<1>4. ASSUME NEW r \in Run, CommitRemote(r) PROVE Rests
  <2>1. Quiet /\ run' = Moved(r, "end") /\ "end" \in RunPc
    BY <1>4, CommitRemoteQuiet DEF CommitRemote, RunPc
  <2> QED
    BY <2>1, RunMoved
<1>5. ASSUME NEW n \in Node, Execute(n) \/ SetStatus(n) \/ SetByzantine(n)
      PROVE  Rests
  <2>1. Quiet /\ run' = run
    BY <1>5, ExecuteQuiet, SwitchQuiet DEF Execute, SetStatus, SetByzantine
  <2> QED
    BY <2>1, RunsKept
<1>6. ASSUME NEW n \in Node, NEW r \in Run,
             PrePrepare(n, r) \/ Prepare(n, r) \/ PrepareDone(n, r) \/ PrepareTimeout(n, r)
      PROVE  Rests
  <2>1. Quiet
    BY <1>6, PrePrepareQuiet, PrepareQuiet, PrepareDoneQuiet, PrepareTimeoutQuiet
  <2>2. run' = run
    BY <1>6 DEF PrePrepare, Prepare, PrepareDone, PrepareTimeout
  <2> QED
    BY <2>1, <2>2, RunsKept
<1>7. ASSUME NEW n \in Node, NEW r \in Run, PrePrepareLocked(n, r)
      PROVE  Rests
  BY <1>7, PrePrepareLockedRests
<1>8. ASSUME NEW n \in Node, NEW r \in Run,
             \/ SendPrepare(n, r) \/ SendCommit(n, r)
             \/ Commit(n, r) \/ CommitDone(n, r) \/ CommitTimeout(n, r)
      PROVE  Rests
  <2>1. Quiet
    BY <1>8, SendQuiet, CommitQuiet, CommitDoneQuiet, CommitTimeoutQuiet
  <2>2. run' = run
    BY <1>8 DEF SendPrepare, SendCommit, Commit, CommitDone, CommitTimeout
  <2> QED
    BY <2>1, <2>2, RunsKept
<1>9. ASSUME NEW n \in Node, NEW r \in Run, NEW q \in Run, CollectPrepare(n, r, q) \/ CollectCommit(n, r, q)
       PROVE  Rests
  BY <1>9, RunCollects, CollectPrepareQuiet, CollectCommitQuiet
<1>10. CASE UNCHANGED vars
  <2>1. Quiet /\ run' = run
    BY <1>10, StutterQuiet DEF vars
  <2> QED
    BY <2>1, RunsKept
<1> QED
  BY <1>1, <1>2, <1>3, <1>4, <1>5, <1>6, <1>7, <1>8, <1>9, <1>10
     DEF Next, LeaderStep, ServerStep, ClientStep, OperatorStep

LEMMA NextOne == ASSUME OneSlotInv, [Next]_vars PROVE OneRun' /\ Logged'
  BY RestKinds, RestStep, PrePrepareRunOne, FollowedOne, ExecuteTransactionOne, PCPrepareOne
     DEF OneSlotInv

\* A request of one cluster never gets a second slot, whatever is repeated, times out
\* or fails: RequestLog is written with the log, and the gateway's call returns before
\* it calls again.
THEOREM OneSlotPerRequestHolds == Spec => []OneSlotPerRequest
<1>1. Init => OneRun /\ Logged
  <2> SUFFICES ASSUME Init PROVE OneRun /\ Logged
    OBVIOUS
  <2>1. \A r \in Run : run[r].pc = "none"
    BY DEF Init, NoRun
  <2>2. \A s \in Slot : log[Leader][s].tx = NoTx
    BY ClusterAssumption DEF Init, NoEntry
  <2> QED
    BY <2>1, <2>2 DEF OneRun, Logged, Running
<1>2. OneRun /\ Logged /\ SlotInv /\ SlotInv' /\ [Next]_vars => OneRun' /\ Logged'
  BY NextOne DEF OneSlotInv
<1>3. Logged => OneSlotPerRequest
  BY DEF Logged, OneSlotPerRequest, IsIntra
<1> QED
  BY <1>1, <1>2, <1>3, SlotInvariant, PTL DEF Spec
-----------------------------------------------------------------------------
(* What servers vote for, store and execute.                               *)

\* A goroutine that has not logged its request, or has no more to do with it.
Early == {"none", "sent", "locking", "end"}

\* A server votes, and waits for certificates, only for what it has logged.
Voted ==
    \A n \in Node, r \in Run :
        job[n][r] \notin Early => log[n][run[r].slot].tx = run[r].tx

\* The leader has given out its slots one after the other.
Filled == \A s \in Slot : s < seq => log[Leader][s].tx # NoTx

\* A server stores what it has logged, and executes what it has stored.
Reported ==
    \A n \in Node, s \in Slot :
        /\ store[n][s].tx # NoTx => log[n][s].tx = store[n][s].tx
        /\ s < exec[n] => store[n][s].tx # NoTx

LogInv == SlotInv /\ Voted /\ Filled /\ Reported

\* A quiet step that starts votes only where the request is logged, and executes only
\* what is stored.
LEMMA QuietLog ==
    ASSUME LogInv, Quiet,
           \A n \in Node, r \in Run :
               job'[n][r] \notin Early =>
                   job[n][r] \notin Early
                   \/ (run[r].slot \in Slot /\ log[n][run[r].slot].tx = run[r].tx),
           \A n \in Node, s \in Slot : s < exec'[n] => s < exec[n] \/ store[n][s].tx # NoTx
    PROVE  Voted' /\ Filled' /\ Reported'
<1>1. Voted'
  <2> SUFFICES ASSUME NEW n \in Node, NEW r \in Run, job'[n][r] \notin Early
               PROVE  log'[n][run'[r].slot].tx = run'[r].tx
    BY DEF Voted
  <2>1. run'[r].tx = run[r].tx /\ run'[r].slot = run[r].slot
    BY DEF Quiet
  <2>2. run[r].slot \in Slot /\ log[n][run[r].slot].tx = run[r].tx
    BY DEF LogInv, SlotInv, RunsWellFormed, Voted, Early
  <2> QED
    BY <2>1, <2>2 DEF Quiet
<1>2. Filled'
  BY ClusterAssumption DEF LogInv, Filled, Quiet
<1>3. Reported'
  BY DEF LogInv, Reported, Quiet
<1> QED
  BY <1>1, <1>2, <1>3

\* A step that starts a run leaves the votes alone.
LEMMA StartsLog ==
    ASSUME LogInv, NEW q \in Run, NEW t \in Tx, Starts(q, t), exec' = exec
    PROVE  Voted' /\ Filled' /\ Reported'
<1>1. Voted'
  <2>1. \A n \in Node : job[n][q] = "none"
    BY DEF LogInv, SlotInv, RunsWellFormed, Starts
  <2> QED
    BY <2>1 DEF LogInv, Voted, Starts, Early
<1>2. Filled' /\ Reported'
  BY DEF LogInv, Filled, Reported, Starts
<1> QED
  BY <1>1, <1>2

\* A step of a server's goroutine changes its progress with one run.
LEMMA JobStep ==
    ASSUME SlotInv, NEW n \in Node, NEW r \in Run, NEW pc, job[n][r] \notin Early \/ pc \in Early,
           job' = [job EXCEPT ![n][r] = pc]
    PROVE  \A m \in Node, u \in Run : job'[m][u] \notin Early => job[m][u] \notin Early
  BY DEF SlotInv, TypeOK

LEMMA PrePrepareRunLog ==
    ASSUME LogInv, NEW r \in Run, PrePrepareRun(r)
    PROVE  Voted' /\ Filled' /\ Reported'
<1> DEFINE t   == run[r].tx
           old == run[r].slot
           s   == IF old = 0 THEN seq ELSE old
<1>1. t \in Tx /\ old \in 0..MaxSlot /\ s \in Slot /\ seq \in Nat /\ Leader \in Node /\ NoTx \notin Tx
  BY RunFacts, ClusterAssumption DEF LogInv, SlotInv, PrePrepareRun, TypeOK
<1>2. /\ run'[r].tx = t /\ run'[r].slot = s
      /\ \A q \in Run \ {r} : run'[q] = run[q]
  BY DEF LogInv, SlotInv, PrePrepareRun, TypeOK, RunRec
<1>3. /\ log'[Leader][s].tx = t
      /\ \A n \in Node, u \in Slot : n # Leader \/ u # s => log'[n][u] = log[n][u]
  BY <1>1 DEF LogInv, SlotInv, PrePrepareRun, TypeOK
<1>4. \/ old = 0 /\ s = seq /\ seq' = seq + 1 /\ log[Leader][s].tx = NoTx
      \/ old # 0 /\ s = old /\ seq' = seq /\ log[Leader][s].tx = t
  BY <1>1 DEF LogInv, SlotInv, PrePrepareRun, SlotsAssigned, Slot, NextSeq
<1>5. store' = store /\ exec' = exec
  BY DEF PrePrepareRun
<1>6. \A n \in Node, q \in Run : job'[n][q] \notin Early => job[n][q] \notin Early
  BY DEF LogInv, SlotInv, PrePrepareRun, TypeOK, Early
<1>7. \A n \in Node : job[n][r] # "none" => old # 0
  BY DEF LogInv, SlotInv, RunsWellFormed, Slot
<1>8. \A n \in Node, q \in Run : job[n][q] # "none" => run[q].slot \in Slot
  BY DEF LogInv, SlotInv, RunsWellFormed
<1>9. \A u \in Slot : log[Leader][u].tx # NoTx => log'[Leader][u].tx = log[Leader][u].tx
  BY <1>1, <1>3, <1>4
<1>10. \A q \in Run : run[q].slot \in Slot => log[Leader][run[q].slot].tx = run[q].tx
  BY DEF LogInv, SlotInv, SlotsAssigned, Slot
<1> HIDE DEF t, old, s
<1>11. Voted'
  <2> SUFFICES ASSUME NEW n \in Node, NEW q \in Run, job'[n][q] \notin Early
               PROVE  log'[n][run'[q].slot].tx = run'[q].tx
    BY DEF Voted
  <2>1. job[n][q] \notin Early /\ job[n][q] # "none" /\ run[q].slot \in Slot
    BY <1>6, <1>8 DEF Early
  <2>2. run'[q].slot = run[q].slot /\ run'[q].tx = run[q].tx
    BY <1>2, <1>4, <1>7, <2>1 DEF t, old
  <2>3. log[n][run[q].slot].tx = run[q].tx
    BY <2>1 DEF LogInv, Voted
  <2>4. run[q].tx \in Tx
    BY <2>1 DEF LogInv, SlotInv, RunsWellFormed
  <2>5. CASE n = Leader
    BY <1>1, <1>9, <2>1, <2>2, <2>3, <2>4, <2>5
  <2>6. CASE n # Leader
    BY <1>3, <2>1, <2>2, <2>3, <2>6
  <2> QED
    BY <2>5, <2>6
<1>12. Filled'
  <2> SUFFICES ASSUME NEW u \in Slot, u < seq' PROVE log'[Leader][u].tx # NoTx
    BY DEF Filled
  <2>1. u < seq \/ u = s
    BY <1>1, <1>4 DEF Slot
  <2> QED
    BY <1>1, <1>3, <1>9, <2>1 DEF LogInv, Filled
<1>13. Reported'
  <2>1. ASSUME NEW n \in Node, NEW u \in Slot, store[n][u].tx # NoTx
        PROVE  log'[n][u].tx = store[n][u].tx
    <3>1. log[n][u].tx = store[n][u].tx
      BY <2>1 DEF LogInv, Reported
    <3> QED
      BY <1>3, <1>9, <2>1, <3>1
  <2> QED
    BY <1>5, <2>1 DEF LogInv, Reported
<1> QED
  BY <1>11, <1>12, <1>13

LEMMA PrePrepareLockedLog ==
    ASSUME LogInv, NEW n \in Node, NEW r \in Run, PrePrepareLocked(n, r)
    PROVE  Voted' /\ Filled' /\ Reported'
<1> DEFINE t == run[r].tx
           s == run[r].slot
<1>1. t \in Tx /\ s \in Slot /\ Leader \in Node /\ NoTx \notin Tx
  BY RunFacts, ClusterAssumption DEF LogInv, SlotInv, PrePrepareLocked
<1>2. log[Leader][s].tx = t
  BY <1>1, ClusterAssumption DEF LogInv, SlotInv, SlotsAssigned, Slot
<1>3. /\ log'[n][s].tx = t
      /\ \A m \in Node, u \in Slot : m # n \/ u # s => log'[m][u] = log[m][u]
  BY <1>1 DEF LogInv, SlotInv, PrePrepareLocked, TypeOK
<1>4. log[n][s].tx \in {NoTx, t} /\ store[n][s].tx \in {NoTx, t}
  BY <1>1, <1>2 DEF LogInv, SlotInv, LeaderDecides
<1>5. run' = run /\ store' = store /\ seq' = seq /\ exec' = exec
  BY DEF PrePrepareLocked
<1>6. \A m \in Node, u \in Slot : log[m][u].tx # NoTx => log'[m][u].tx = log[m][u].tx
  BY <1>3, <1>4
<1>7. \A m \in Node, q \in Run : job'[m][q] \notin Early => job[m][q] \notin Early \/ (m = n /\ q = r)
  <2>1. PICK pc \in JobPc : job' = [job EXCEPT ![n][r] = pc]
    BY DEF PrePrepareLocked, JobPc
  <2> QED
    BY <2>1 DEF LogInv, SlotInv, TypeOK
<1> HIDE DEF t, s
<1>8. Voted'
  <2> SUFFICES ASSUME NEW m \in Node, NEW q \in Run, job'[m][q] \notin Early
               PROVE  log'[m][run[q].slot].tx = run[q].tx
    BY <1>5 DEF Voted
  <2>1. CASE m = n /\ q = r
    BY <1>3, <2>1 DEF t, s
  <2>2. CASE job[m][q] \notin Early
    <3>1. run[q].slot \in Slot /\ run[q].tx \in Tx
      BY <2>2 DEF LogInv, SlotInv, RunsWellFormed, Early
    <3>2. log[m][run[q].slot].tx = run[q].tx
      BY <2>2 DEF LogInv, Voted
    <3> QED
      BY <1>1, <1>6, <3>1, <3>2
  <2> QED
    BY <1>7, <2>1, <2>2
<1>9. Filled'
  BY <1>1, <1>5, <1>6 DEF LogInv, Filled
<1>10. Reported'
  BY <1>5, <1>6 DEF LogInv, Reported
<1> QED
  BY <1>8, <1>9, <1>10

\* ExecuteTransaction starts a run, or nothing when the leader is not live.
LEMMA ExecuteTransactionStarts ==
    ASSUME SlotInv, NEW t \in Tx, ExecuteTransaction(t)
    PROVE  (Quiet /\ run' = run) \/ \E q \in Run : Starts(q, t) /\ run'[q].slot = reqSeq[t]
<1>1. CASE ~live[Leader]
  BY <1>1 DEF SlotInv, ExecuteTransaction, Quiet, RunsWellFormed, replica
<1>2. CASE live[Leader]
  <2> DEFINE st == IF Body[t].role = "intra" THEN "" ELSE "P"
  <2>1. PICK q \in Run : FreshRun(q) /\ run' = [run EXCEPT ![q] = NewRun(t, st, reqSeq[t])]
    BY <1>2 DEF ExecuteTransaction
  <2> HIDE DEF st
  <2>2. run'[q].tx = t /\ run'[q].pc = "locks" /\ run'[q].slot = reqSeq[t]
    BY <2>1, NewRunFields DEF SlotInv, TypeOK
  <2>3. \A r \in Run \ {q} : run'[r] = run[r]
    BY <2>1 DEF SlotInv, TypeOK
  <2>4. Starts(q, t)
    BY <2>1, <2>2, <2>3 DEF ExecuteTransaction, Starts, FreshRun, replica
  <2> QED
    BY <2>2, <2>4
<1> QED
  BY <1>1, <1>2

\* PCPrepare starts a run.
LEMMA PCPrepareStarts ==
    ASSUME SlotInv, NEW t \in Tx, PCPrepare(t)
    PROVE  \E q \in Run : Starts(q, t) /\ run'[q].slot = 0
<1>1. PICK q \in Run :
         /\ FreshRun(q)
         /\ run' = [u \in Run |->
                      IF u = q THEN NewRun(t, "P", 0)
                      ELSE IF run[u].tx = t /\ run[u].pc = "ok" THEN [run[u] EXCEPT !.pc = "end"]
                      ELSE run[u]]
  BY DEF PCPrepare
<1>2. run'[q].tx = t /\ run'[q].pc = "locks" /\ run'[q].slot = 0
  BY <1>1, NewRunFields
<1>3. \A u \in Run \ {q} :
         /\ run'[u].tx = run[u].tx /\ run'[u].slot = run[u].slot
         /\ run'[u].pc = run[u].pc \/ (run'[u].pc = "end" /\ run[u].pc # "none")
  <2>1. \A u \in Run : run[u] \in RunRec
    BY DEF SlotInv, TypeOK
  <2> QED
    BY <1>1, <2>1 DEF RunRec
<1> QED
  BY <1>1, <1>2, <1>3 DEF PCPrepare, Starts, FreshRun, replica

\* So do the steps that follow a run of a cross-shard request, unless the caller is done.
LEMMA FollowedKinds ==
    ASSUME SlotInv, NEW r \in Run, PCPrepareReply(r) \/ PCCommit(r) \/ WaitForPCCommit(r)
    PROVE  /\ job' = job /\ run[r].tx \in Tx
           /\ (Quiet /\ run' = Moved(r, "end")) \/ \E q \in Run : Starts(q, run[r].tx) /\ run'[q].slot = 0
<1>1. run[r].pc # "none" /\ UNCHANGED <<seq, reqSeq, job, log, store>>
  BY DEF PCPrepareReply, PCCommit, WaitForPCCommit, client, replica
<1>2. run[r].tx \in Tx
  BY <1>1 DEF SlotInv, RunsWellFormed
<1>3. CASE run' = Moved(r, "end")
  <2>1. "end" \in RunPc
    BY DEF RunPc
  <2>2. Quiet
    BY <1>1, <1>3, <2>1, MovedRun DEF SlotInv, Quiet, RunsWellFormed
  <2> QED
    BY <1>1, <1>2, <1>3, <2>2
<1>4. CASE \E q \in Run, st \in {"C", "A"} : FreshRun(q) /\ run' = Followed(r, q, st)
  <2>1. PICK q \in Run, st \in {"C", "A"} : FreshRun(q) /\ run' = Followed(r, q, st)
    BY <1>4
  <2>2. Starts(q, run[r].tx)
    BY <1>1, <2>1, FollowedStarts
  <2>3. run'[q] = NewRun(run[r].tx, st, 0)
    BY <2>1 DEF Followed, Moved, SlotInv, TypeOK
  <2> QED
    BY <1>1, <1>2, <2>2, <2>3, NewRunFields
<1> QED
  BY <1>3, <1>4 DEF PCPrepareReply, PCCommit, WaitForPCCommit

\* Every step keeps the votes, the stores and the executors within the logs.
LEMMA NextLog == ASSUME LogInv, [Next]_vars PROVE Voted' /\ Filled' /\ Reported'
<1> DEFINE Kept == Voted' /\ Filled' /\ Reported'
<1> DEFINE Votes == \A n \in Node, r \in Run :
               job'[n][r] \notin Early =>
                   job[n][r] \notin Early
                   \/ (run[r].slot \in Slot /\ log[n][run[r].slot].tx = run[r].tx)
<1> SUFFICES Kept
  OBVIOUS
<1>a. SlotInv
  BY DEF LogInv
<1>b. Quiet /\ Votes /\ exec' = exec => Kept
  BY QuietLog
<1>c. (\E q \in Run, t \in Tx : Starts(q, t)) /\ exec' = exec => Kept
  BY StartsLog
<1>d. (\A m \in Node, u \in Run : job'[m][u] \notin Early => job[m][u] \notin Early) => Votes
  OBVIOUS
<1>e. job' = job => Votes
  OBVIOUS
<1> HIDE DEF Kept, Votes
<1>1. ASSUME NEW r \in Run, BalanceTooLow(r) \/ CommitRemote(r) PROVE Kept
  BY <1>1, <1>a, <1>b, <1>e, BalanceTooLowQuiet, CommitRemoteQuiet
     DEF BalanceTooLow, CommitRemote, replica
<1>2. ASSUME NEW r \in Run, FinishPrepares(r) PROVE Kept
  <2>1. run[r].slot \in Slot /\ log[Leader][run[r].slot].tx = run[r].tx /\ Leader \in Node
    BY <1>2, <1>a, ClusterAssumption DEF SlotInv, FinishPrepares, RunsWellFormed, SlotsAssigned, Slot
  <2>2. job' = job \/ job' = [job EXCEPT ![Leader][r] = "commSent"]
    BY <1>2 DEF FinishPrepares
  <2>3. \A n \in Node, u \in Run : job'[n][u] = job[n][u] \/ (n = Leader /\ u = r)
    BY <1>a, <2>1, <2>2 DEF SlotInv, TypeOK
  <2>4. Votes
    BY <2>1, <2>3 DEF Votes
  <2> QED
    BY <1>2, <1>a, <1>b, <2>4, FinishPreparesQuiet DEF FinishPrepares
<1>3. ASSUME NEW r \in Run, FinishCommits(r) PROVE Kept
  BY <1>3, <1>a, <1>b, <1>e, FinishCommitsQuiet DEF FinishCommits
<1>4. ASSUME NEW r \in Run, PrePrepareRun(r) PROVE Kept
  BY <1>4, PrePrepareRunLog DEF Kept
<1>5. ASSUME NEW r \in Run, PCPrepareReply(r) \/ PCCommit(r) \/ WaitForPCCommit(r) PROVE Kept
  <2>1. exec' = exec
    BY <1>5 DEF PCPrepareReply, PCCommit, WaitForPCCommit, replica
  <2> QED
    BY <1>5, <1>a, <1>b, <1>c, <1>e, <2>1, FollowedKinds
<1>6. ASSUME NEW n \in Node, Execute(n) PROVE Kept
  <2>1. \A m \in Node, s \in Slot : s < exec'[m] => s < exec[m] \/ store[m][s].tx # NoTx
    BY <1>6, <1>a DEF Execute, SlotInv, TypeOK, Slot
  <2>2. Votes
    BY <1>6, <1>e DEF Execute
  <2> QED
    BY <1>6, <1>a, <2>1, <2>2, ExecuteQuiet, QuietLog DEF Kept, Votes
<1>7. ASSUME NEW n \in Node, SetStatus(n) \/ SetByzantine(n) PROVE Kept
  BY <1>7, <1>a, <1>b, <1>e, SwitchQuiet DEF SetStatus, SetByzantine, replica
<1>8. ASSUME NEW n \in Node, NEW r \in Run,
             PrePrepare(n, r) \/ Prepare(n, r) \/ PrepareDone(n, r) \/ PrepareTimeout(n, r)
      PROVE  Kept
  <2>1. Quiet /\ exec' = exec
    BY <1>8, <1>a, PrePrepareQuiet, PrepareQuiet, PrepareDoneQuiet, PrepareTimeoutQuiet
       DEF PrePrepare, Prepare, PrepareDone, PrepareTimeout, replica
  <2>2. \E pc \in JobPc : job' = [job EXCEPT ![n][r] = pc] /\ (job[n][r] \notin Early \/ pc \in Early)
    BY <1>8 DEF PrePrepare, Prepare, PrepareDone, PrepareTimeout, JobPc, Early
  <2>3. Votes
    BY <1>a, <1>d, <2>2, JobStep
  <2> QED
    BY <1>b, <2>1, <2>3
<1>9. ASSUME NEW n \in Node, NEW r \in Run, PrePrepareLocked(n, r) PROVE Kept
  BY <1>9, PrePrepareLockedLog DEF Kept
<1>10. ASSUME NEW n \in Node, NEW r \in Run,
             \/ SendPrepare(n, r) \/ SendCommit(n, r)
             \/ Commit(n, r) \/ CommitDone(n, r) \/ CommitTimeout(n, r)
      PROVE  Kept
  <2>1. Quiet /\ exec' = exec
    BY <1>10, <1>a, SendQuiet, CommitQuiet, CommitDoneQuiet, CommitTimeoutQuiet
       DEF SendPrepare, SendCommit, Commit, CommitDone, CommitTimeout, replica
  <2>2. \E pc \in JobPc : job' = [job EXCEPT ![n][r] = pc] /\ job[n][r] \notin Early
    BY <1>10 DEF SendPrepare, SendCommit, Commit, CommitDone, CommitTimeout, JobPc, Early
  <2>3. Votes
    BY <1>a, <1>d, <2>2, JobStep
  <2> QED
    BY <1>b, <2>1, <2>3
<1>11. ASSUME NEW n \in Node, NEW r \in Run, NEW q \in Run,
              CollectPrepare(n, r, q) \/ CollectCommit(n, r, q)
       PROVE  Kept
  <2>1. Quiet /\ exec' = exec
    BY <1>11, <1>a, CollectPrepareQuiet, CollectCommitQuiet DEF CollectPrepare, CollectCommit, replica
  <2>2. \E pc \in JobPc : job' = [job EXCEPT ![n][r] = pc] /\ job[n][r] \notin Early
    BY <1>11 DEF CollectPrepare, CollectCommit, JobPc, Early
  <2>3. Votes
    BY <1>a, <1>d, <2>2, JobStep
  <2> QED
    BY <1>b, <2>1, <2>3
<1>12. ASSUME NEW t \in Tx, ExecuteTransaction(t) \/ PCPrepare(t) PROVE Kept
  <2>1. exec' = exec /\ job' = job
    BY <1>12 DEF ExecuteTransaction, PCPrepare, replica
  <2> QED
    BY <1>12, <1>a, <1>b, <1>c, <1>e, <2>1, ExecuteTransactionStarts, PCPrepareStarts
<1>13. CASE UNCHANGED vars
  BY <1>13, <1>a, <1>b, <1>e, StutterQuiet DEF vars, replica
<1> QED
  BY <1>1, <1>2, <1>3, <1>4, <1>5, <1>6, <1>7, <1>8, <1>9, <1>10, <1>11, <1>12, <1>13
     DEF Next, LeaderStep, ServerStep, ClientStep, OperatorStep

\* The servers' logs, stores and executors, in every cluster.
THEOREM LogInvariant == Spec => []LogInv
<1>1. Init => Voted /\ Filled /\ Reported
  <2> SUFFICES ASSUME Init PROVE Voted /\ Filled /\ Reported
    OBVIOUS
  <2>1. Voted
    BY DEF Init, Voted, Early
  <2>2. \A s \in Slot : ~ (s < 1)
    BY DEF Slot
  <2>3. Filled
    <3>1. seq = 1
      BY DEF Init
    <3> QED
      BY <2>2, <3>1 DEF Filled
  <2>4. Reported
    <3>1. /\ \A n \in Node : exec[n] = 1
          /\ \A n \in Node, s \in Slot : store[n][s].tx = NoTx
      BY DEF Init, NoUnit
    <3> QED
      BY <2>2, <3>1 DEF Reported
  <2> QED
    BY <2>1, <2>3, <2>4
<1>2. SlotInv /\ SlotInv' /\ Voted /\ Filled /\ Reported /\ [Next]_vars => Voted' /\ Filled' /\ Reported'
  BY NextLog DEF LogInv
<1>3. SlotInv /\ Voted /\ Filled /\ Reported => LogInv
  BY DEF LogInv
<1> QED
  BY <1>1, <1>2, <1>3, SlotInvariant, PTL DEF Spec

-----------------------------------------------------------------------------
(* Slots that were run once.                                               *)

\* Slot s belongs to one run at most: its request was not called again.
Alone(s) == \A q, r \in Run : run[q].slot = s /\ run[r].slot = s => q = r

\* 2F + 1 servers have logged a request in slot s.
Quorate(s) == Cardinality({m \in Node : log[m][s].tx # NoTx}) > 2 * F

\* The leader sends itself no pre-prepare, and votes in the second round only.
LeaderJob == \A r \in Run : job[Leader][r] \in {"none", "commSent", "commChan", "end"}

\* A vote in slot s: cast for a run of the slot, by a server that logged it.
Ballot(s, v) == v \in Cert /\ s \in Slot /\ run[v[2]].slot = s /\ log[v[1]][s].tx # NoTx

Cast ==
    /\ \A q \in Run : \A v \in run[q].prepares \cup run[q].commits : Ballot(run[q].slot, v)
    /\ \A q \in Run : \A v \in run[q].prepares : v[1] # Leader
    /\ \A s \in Slot : \A v \in commCerts[s] : Ballot(s, v)

\* What is prepared at the leader, or decided anywhere, was logged by a quorum.
Backed ==
    \A s \in Slot :
        /\ Alone(s)
        /\ log[Leader][s].state >= Prepared \/ \E n \in Node : store[n][s].tx # NoTx
        => Quorate(s)

\* The status of a slot's run is the one the leader logged and every server stores.
Labelled ==
    /\ \A r \in Run : run[r].slot \in Slot /\ Alone(run[r].slot) =>
                          log[Leader][run[r].slot].status = run[r].status
    /\ \A n \in Node, s \in Slot : Alone(s) /\ store[n][s].tx # NoTx =>
                          store[n][s].status = log[Leader][s].status

\* A slot in RequestLog is the slot of a run.
Traced ==
    /\ \A t \in Tx : reqSeq[t] # 0 => \E r \in Run : run[r].slot = reqSeq[t] /\ run[r].pc # "none"
    /\ \A r \in Run : run[r].pc = "none" => run[r].slot = 0

\* Runs keep the slot they got, and logs what they have.
Keeps ==
    /\ \A r \in Run : run'[r].slot = run[r].slot \/ run[r].slot = 0
    /\ \A n \in Node, s \in Slot : log[n][s].tx # NoTx => log'[n][s].tx # NoTx

\* A step starts a run, gives a run its slot, logs a slot at a server, or is quiet.
LEMMA StepKinds ==
    ASSUME SlotInv, [Next]_vars
    PROVE  \/ Quiet
           \/ \E q \in Run, t \in Tx : Starts(q, t)
           \/ \E r \in Run : PrePrepareRun(r)
           \/ \E n \in Node, r \in Run : PrePrepareLocked(n, r)
<1> DEFINE Kind == \/ Quiet
                   \/ \E q \in Run, t \in Tx : Starts(q, t)
                   \/ \E r \in Run : PrePrepareRun(r)
                   \/ \E n \in Node, r \in Run : PrePrepareLocked(n, r)
<1> SUFFICES Kind
  OBVIOUS
<1>0. /\ Quiet => Kind
      /\ \A q \in Run, t \in Tx : Starts(q, t) => Kind
      /\ \A r \in Run : PrePrepareRun(r) => Kind
      /\ \A n \in Node, r \in Run : PrePrepareLocked(n, r) => Kind
  OBVIOUS
<1> HIDE DEF Kind
<1>1. ASSUME NEW r \in Run, BalanceTooLow(r) \/ FinishPrepares(r) \/ FinishCommits(r) \/ CommitRemote(r)
      PROVE  Kind
  BY <1>0, <1>1, BalanceTooLowQuiet, FinishPreparesQuiet, FinishCommitsQuiet, CommitRemoteQuiet
<1>2. ASSUME NEW r \in Run, PCPrepareReply(r) \/ PCCommit(r) \/ WaitForPCCommit(r)
      PROVE  Kind
  BY <1>0, <1>2, FollowedKinds
<1>3. ASSUME NEW n \in Node, Execute(n) \/ SetStatus(n) \/ SetByzantine(n)
      PROVE  Kind
  BY <1>0, <1>3, ExecuteQuiet, SwitchQuiet
<1>4. ASSUME NEW n \in Node, NEW r \in Run,
             PrePrepare(n, r) \/ Prepare(n, r) \/ PrepareDone(n, r) \/ PrepareTimeout(n, r)
      PROVE  Kind
  BY <1>0, <1>4, PrePrepareQuiet, PrepareQuiet, PrepareDoneQuiet, PrepareTimeoutQuiet
<1>5. ASSUME NEW n \in Node, NEW r \in Run,
             \/ SendPrepare(n, r) \/ SendCommit(n, r)
             \/ Commit(n, r) \/ CommitDone(n, r) \/ CommitTimeout(n, r)
      PROVE  Kind
  BY <1>0, <1>5, SendQuiet, CommitQuiet, CommitDoneQuiet, CommitTimeoutQuiet
<1>6. ASSUME NEW n \in Node, NEW r \in Run, NEW q \in Run, CollectPrepare(n, r, q) \/ CollectCommit(n, r, q)
      PROVE  Kind
  BY <1>0, <1>6, CollectPrepareQuiet, CollectCommitQuiet
<1>7. ASSUME NEW t \in Tx, ExecuteTransaction(t) \/ PCPrepare(t)
      PROVE  Kind
  BY <1>0, <1>7, ExecuteTransactionStarts, PCPrepareStarts
<1>8. CASE UNCHANGED vars
  BY <1>0, <1>8, StutterQuiet
<1> QED
  BY <1>0, <1>1, <1>2, <1>3, <1>4, <1>5, <1>6, <1>7, <1>8
     DEF Next, LeaderStep, ServerStep, ClientStep, OperatorStep

LEMMA NextKeeps == ASSUME SlotInv, Traced, [Next]_vars PROVE Keeps
<1>1. CASE Quiet
  BY <1>1 DEF Quiet, Keeps
<1>2. CASE \E q \in Run, t \in Tx : Starts(q, t)
  BY <1>2 DEF Starts, Keeps, Traced
<1>3. ASSUME NEW r \in Run, PrePrepareRun(r) PROVE Keeps
  <2> DEFINE s == IF run[r].slot = 0 THEN seq ELSE run[r].slot
  <2>1. run[r].tx \in Tx /\ s \in Slot /\ Leader \in Node /\ NoTx \notin Tx
    BY <1>3, RunFacts, ClusterAssumption DEF SlotInv, PrePrepareRun
  <2>2. run'[r].slot = s /\ \A q \in Run \ {r} : run'[q] = run[q]
    BY <1>3 DEF SlotInv, PrePrepareRun, TypeOK, RunRec
  <2>3. log'[Leader][s].tx = run[r].tx
        /\ \A n \in Node, u \in Slot : n # Leader \/ u # s => log'[n][u] = log[n][u]
    BY <1>3, <2>1 DEF SlotInv, PrePrepareRun, TypeOK
  <2> QED
    BY <2>1, <2>2, <2>3 DEF Keeps
<1>4. ASSUME NEW n \in Node, NEW r \in Run, PrePrepareLocked(n, r) PROVE Keeps
  <2>1. run[r].tx \in Tx /\ run[r].slot \in Slot /\ NoTx \notin Tx
    BY <1>4, RunFacts, ClusterAssumption DEF SlotInv, PrePrepareLocked
  <2>2. run' = run /\ log'[n][run[r].slot].tx = run[r].tx
        /\ \A m \in Node, u \in Slot : m # n \/ u # run[r].slot => log'[m][u] = log[m][u]
    BY <1>4, <2>1 DEF SlotInv, PrePrepareLocked, TypeOK
  <2> QED
    BY <2>1, <2>2 DEF Keeps
<1> QED
  BY <1>1, <1>2, <1>3, <1>4, StepKinds

LEMMA NextLeaderJob == ASSUME SlotInv, LeaderJob, [Next]_vars PROVE LeaderJob'
<1> DEFINE Pcs == {"none", "commSent", "commChan", "end"}
<1>a. job \in [Node -> [Run -> JobPc]] /\ Leader \in Node
  BY ClusterAssumption DEF SlotInv, TypeOK
<1>b. \A r \in Run : job[Leader][r] \in Pcs
  BY DEF LeaderJob
<1>0. (\A r \in Run : job'[Leader][r] \in Pcs) => LeaderJob'
  BY DEF LeaderJob
<1>c. job' = job => LeaderJob'
  BY <1>b, <1>0
<1>d. ASSUME NEW n \in Node, NEW r \in Run, NEW pc, job' = [job EXCEPT ![n][r] = pc],
             n = Leader => pc \in Pcs
      PROVE  LeaderJob'
  BY <1>a, <1>b, <1>0, <1>d
<1>1. ASSUME NEW r \in Run, BalanceTooLow(r) \/ FinishCommits(r) \/ CommitRemote(r)
                              \/ PCPrepareReply(r) \/ PCCommit(r) \/ WaitForPCCommit(r)
      PROVE  LeaderJob'
  <2>1. job' = job
    BY <1>1 DEF BalanceTooLow, FinishCommits, CommitRemote, PCPrepareReply, PCCommit, WaitForPCCommit
  <2> QED
    BY <1>c, <2>1
<1>2. ASSUME NEW r \in Run, PrePrepareRun(r) PROVE LeaderJob'
  BY <1>2, <1>a, <1>b, <1>0 DEF PrePrepareRun
<1>3. ASSUME NEW r \in Run, FinishPrepares(r) PROVE LeaderJob'
  <2>1. job' = job \/ job' = [job EXCEPT ![Leader][r] = "commSent"]
    BY <1>3 DEF FinishPrepares
  <2> QED
    BY <1>a, <1>c, <1>d, <2>1
<1>4. ASSUME NEW n \in Node, Execute(n) \/ SetStatus(n) \/ SetByzantine(n) PROVE LeaderJob'
  BY <1>4, <1>c DEF Execute, SetStatus, SetByzantine
<1>5. ASSUME NEW n \in Node, NEW r \in Run,
             PrePrepare(n, r) \/ PrePrepareLocked(n, r) \/ Prepare(n, r) \/ PrepareDone(n, r)
               \/ PrepareTimeout(n, r) \/ SendPrepare(n, r) \/ SendCommit(n, r)
      PROVE  LeaderJob'
  <2>1. \E pc \in JobPc : job' = [job EXCEPT ![n][r] = pc]
    BY <1>5 DEF PrePrepare, PrePrepareLocked, Prepare, PrepareDone, PrepareTimeout,
                SendPrepare, SendCommit, JobPc
  <2>2. job[n][r] \notin Pcs
    BY <1>5 DEF PrePrepare, PrePrepareLocked, Prepare, PrepareDone, PrepareTimeout,
                SendPrepare, SendCommit
  <2> QED
    BY <1>b, <1>d, <2>1, <2>2
<1>6. ASSUME NEW n \in Node, NEW r \in Run, Commit(n, r) PROVE LeaderJob'
  <2>1. \E pc \in JobPc : job' = [job EXCEPT ![n][r] = pc] /\ (job[n][r] = "commSent" => pc \in Pcs)
                          /\ job[n][r] \in {"commSent", "commBad"}
    BY <1>6 DEF Commit, JobPc
  <2> QED
    BY <1>b, <1>d, <2>1
<1>7. ASSUME NEW n \in Node, NEW r \in Run, CommitDone(n, r) \/ CommitTimeout(n, r) PROVE LeaderJob'
  BY <1>7, <1>d DEF CommitDone, CommitTimeout
<1>8. ASSUME NEW n \in Node, NEW r \in Run, NEW q \in Run, CollectPrepare(n, r, q) \/ CollectCommit(n, r, q)
      PROVE  LeaderJob'
  <2>1. CASE CollectPrepare(n, r, q)
    BY <1>b, <1>d, <2>1 DEF CollectPrepare
  <2>2. CASE CollectCommit(n, r, q)
    BY <1>d, <2>2 DEF CollectCommit
  <2> QED
    BY <1>8, <2>1, <2>2
<1>9. ASSUME NEW t \in Tx, ExecuteTransaction(t) \/ PCPrepare(t) PROVE LeaderJob'
  BY <1>9, <1>c DEF ExecuteTransaction, PCPrepare
<1>10. CASE UNCHANGED vars
  BY <1>10, <1>c DEF vars
<1> QED
  BY <1>1, <1>2, <1>3, <1>4, <1>5, <1>6, <1>7, <1>8, <1>9, <1>10
     DEF Next, LeaderStep, ServerStep, ClientStep, OperatorStep

LEMMA NextTraced == ASSUME SlotInv, Traced, [Next]_vars PROVE Traced'
<1>1. CASE Quiet
  BY <1>1 DEF Quiet, Traced
<1>2. CASE \E q \in Run, t \in Tx : Starts(q, t)
  <2>1. PICK q \in Run, t \in Tx : Starts(q, t)
    BY <1>2
  <2>2. \A r \in Run : r # q => run'[r].slot = run[r].slot /\ (run'[r].pc = "none" <=> run[r].pc = "none")
    BY <2>1 DEF Starts
  <2>3. run[q].pc = "none" /\ run'[q].pc # "none" /\ reqSeq' = reqSeq
    BY <2>1 DEF Starts
  <2> QED
    BY <2>2, <2>3 DEF Traced
<1>3. ASSUME NEW r \in Run, PrePrepareRun(r) PROVE Traced'
  <2> DEFINE s == IF run[r].slot = 0 THEN seq ELSE run[r].slot
  <2>1. run[r].tx \in Tx /\ s \in Slot /\ run[r].pc = "locks"
    BY <1>3, RunFacts DEF SlotInv, PrePrepareRun
  <2>2. run'[r].slot = s /\ run'[r].pc = "prepares" /\ \A q \in Run \ {r} : run'[q] = run[q]
    BY <1>3 DEF SlotInv, PrePrepareRun, TypeOK, RunRec
  <2>3. reqSeq'[run[r].tx] = s /\ \A t \in Tx : t # run[r].tx => reqSeq'[t] = reqSeq[t]
    BY <1>3, <2>1 DEF SlotInv, PrePrepareRun, TypeOK
  <2>4. \A q \in Run : run'[q].slot = run[q].slot \/ (q = r /\ run[q].slot = 0)
    BY <2>2
  <2>5. \A q \in Run : run'[q].pc = "none" => run[q].pc = "none" /\ q # r
    BY <2>2
  <2>6. \A q \in Run : run[q].pc # "none" => run'[q].pc # "none"
    BY <2>2
  <2> HIDE DEF s
  <2>7. ASSUME NEW t \in Tx, reqSeq'[t] # 0
        PROVE  \E q \in Run : run'[q].slot = reqSeq'[t] /\ run'[q].pc # "none"
    <3>1. CASE t = run[r].tx
      BY <2>2, <2>3, <3>1
    <3>2. CASE t # run[r].tx
      BY <2>3, <2>4, <2>6, <2>7, <3>2 DEF Traced
    <3> QED
      BY <3>1, <3>2
  <2> QED
    BY <2>4, <2>5, <2>7 DEF Traced
<1>4. ASSUME NEW n \in Node, NEW r \in Run, PrePrepareLocked(n, r) PROVE Traced'
  BY <1>4 DEF PrePrepareLocked, client, Traced
<1> QED
  BY <1>1, <1>2, <1>3, <1>4, StepKinds

\* A step in which no collector takes a vote; what a run is for does not change.
Fewer ==
    \A q \in Run :
        /\ run'[q].prepares \subseteq run[q].prepares /\ run'[q].commits \subseteq run[q].commits
        /\ run[q].pc # "none" => run'[q].status = run[q].status

LEMMA NewRunVotes ==
    ASSUME NEW t, NEW st, NEW s
    PROVE  /\ NewRun(t, st, s).prepares = {} /\ NewRun(t, st, s).commits = {}
           /\ NewRun(t, st, s).status = st
BY DEF NewRun, NoRun

LEMMA MovedFewer ==
    ASSUME TypeOK, NEW r \in Run, NEW pc, run' = Moved(r, pc)
    PROVE  Fewer
<1>1. run[r] \in RunRec
  BY DEF TypeOK
<1> QED
  BY <1>1 DEF Moved, Fewer, TypeOK, RunRec

LEMMA FollowedFewer ==
    ASSUME TypeOK, NEW r \in Run, NEW q \in Run, NEW st, FreshRun(q), run' = Followed(r, q, st)
    PROVE  Fewer
<1>1. /\ run' = [Moved(r, "end") EXCEPT ![q] = NewRun(run[r].tx, st, 0)]
      /\ run[q].pc = "none"
  BY DEF Followed, FreshRun
<1>2. run'[q] = NewRun(run[r].tx, st, 0) /\ \A u \in Run \ {q} : run'[u] = Moved(r, "end")[u]
  BY <1>1 DEF Moved, TypeOK
<1>3. run'[q].prepares = {} /\ run'[q].commits = {}
  BY <1>2, NewRunVotes
<1>4. run[r] \in RunRec
  BY DEF TypeOK
<1>5. \A u \in Run : /\ Moved(r, "end")[u].prepares \subseteq run[u].prepares
                     /\ Moved(r, "end")[u].commits \subseteq run[u].commits
                     /\ Moved(r, "end")[u].status = run[u].status
  BY <1>4 DEF Moved, TypeOK, RunRec
<1> QED
  BY <1>1, <1>2, <1>3, <1>5 DEF Fewer

LEMMA ClientFewer ==
    ASSUME TypeOK, NEW t \in Tx, ExecuteTransaction(t) \/ PCPrepare(t)
    PROVE  Fewer
<1>1. CASE ExecuteTransaction(t)
  <2>1. CASE run' = run
    BY <2>1 DEF Fewer
  <2>2. CASE \E r \in Run, st \in Status : FreshRun(r) /\ run' = [run EXCEPT ![r] = NewRun(t, st, reqSeq[t])]
    <3>1. PICK r \in Run, st \in Status : FreshRun(r) /\ run' = [run EXCEPT ![r] = NewRun(t, st, reqSeq[t])]
      BY <2>2
    <3>2. run'[r] = NewRun(t, st, reqSeq[t]) /\ \A q \in Run \ {r} : run'[q] = run[q]
      BY <3>1 DEF TypeOK
    <3>3. run'[r].prepares = {} /\ run'[r].commits = {} /\ run[r].pc = "none"
      BY <3>1, <3>2, NewRunVotes DEF FreshRun
    <3> QED
      BY <3>2, <3>3 DEF Fewer
  <2> QED
    BY <1>1, <2>1, <2>2 DEF ExecuteTransaction, Status
<1>2. CASE PCPrepare(t)
  <2>1. PICK q \in Run :
           /\ FreshRun(q)
           /\ run' = [u \in Run |->
                        IF u = q THEN NewRun(t, "P", 0)
                        ELSE IF run[u].tx = t /\ run[u].pc = "ok" THEN [run[u] EXCEPT !.pc = "end"]
                        ELSE run[u]]
    BY <1>2 DEF PCPrepare
  <2>2. run'[q].prepares = {} /\ run'[q].commits = {} /\ run[q].pc = "none"
    BY <2>1, NewRunVotes DEF FreshRun
  <2>3. \A u \in Run \ {q} : run'[u].prepares = run[u].prepares /\ run'[u].commits = run[u].commits
                             /\ run'[u].status = run[u].status
    <3>1. \A u \in Run : run[u] \in RunRec
      BY DEF TypeOK
    <3> QED
      BY <2>1, <3>1 DEF RunRec
  <2> QED
    BY <2>2, <2>3 DEF Fewer
<1> QED
  BY <1>1, <1>2

\* The votes that the collectors hold change only when one of them takes a vote.
LEMMA VoteKinds ==
    ASSUME TypeOK, [Next]_vars
    PROVE  \/ Fewer
           \/ \E n \in Node, r \in Run, q \in Run : CollectPrepare(n, r, q) \/ CollectCommit(n, r, q)
<1> DEFINE Taken == \E n \in Node, r \in Run, q \in Run : CollectPrepare(n, r, q) \/ CollectCommit(n, r, q)
<1> SUFFICES ASSUME ~Taken PROVE Fewer
  OBVIOUS
<1>0. run' = run => Fewer
  BY DEF Fewer
<1>1. ASSUME NEW r \in Run, BalanceTooLow(r) \/ FinishPrepares(r) \/ FinishCommits(r) \/ CommitRemote(r)
      PROVE  Fewer
  <2>1. \E pc \in RunPc : run' = Moved(r, pc)
    BY <1>1 DEF BalanceTooLow, FinishPrepares, FinishCommits, CommitRemote, RunPc
  <2> QED
    BY <2>1, MovedFewer
<1>2. ASSUME NEW r \in Run, PCPrepareReply(r) \/ PCCommit(r) \/ WaitForPCCommit(r)
      PROVE  Fewer
  <2>1. run' = Moved(r, "end") \/ \E q \in Run, st \in {"C", "A"} : FreshRun(q) /\ run' = Followed(r, q, st)
    BY <1>2 DEF PCPrepareReply, PCCommit, WaitForPCCommit
  <2> QED
    BY <2>1, MovedFewer, FollowedFewer
<1>3. ASSUME NEW r \in Run, PrePrepareRun(r) PROVE Fewer
  <2>1. run[r] \in RunRec
    BY DEF TypeOK
  <2> QED
    BY <1>3, <2>1 DEF PrePrepareRun, Fewer, TypeOK, RunRec
<1>4. ASSUME NEW n \in Node, ServerStep(n) PROVE Fewer
  <2>1. run' = run
    BY <1>4 DEF ServerStep, Execute, PrePrepare, PrePrepareLocked, Prepare, PrepareDone,
                PrepareTimeout, SendPrepare, SendCommit, Commit, CommitDone, CommitTimeout
  <2> QED
    BY <1>0, <2>1
<1>5. CASE ClientStep
  BY <1>5, ClientFewer DEF ClientStep
<1>6. CASE OperatorStep \/ UNCHANGED vars
  BY <1>0, <1>6 DEF OperatorStep, SetStatus, SetByzantine, vars
<1> QED
  BY <1>1, <1>2, <1>3, <1>4, <1>5, <1>6 DEF Next, LeaderStep

\* A vote stays a vote for its slot.
LEMMA BallotKept ==
    ASSUME Keeps, NEW s, NEW v, Ballot(s, v)
    PROVE  Ballot(s, v)'
  BY DEF Keeps, Ballot, Cert, Slot

LEMMA CommCertsKinds ==
    ASSUME [Next]_vars
    PROVE  commCerts' = commCerts \/ \E q \in Run : FinishCommits(q)
<1>1. ASSUME NEW r \in Run, BalanceTooLow(r) \/ PrePrepareRun(r) \/ FinishPrepares(r)
                            \/ PCPrepareReply(r) \/ CommitRemote(r) \/ PCCommit(r) \/ WaitForPCCommit(r)
      PROVE  commCerts' = commCerts
  BY <1>1 DEF BalanceTooLow, PrePrepareRun, FinishPrepares, PCPrepareReply, CommitRemote, PCCommit,
              WaitForPCCommit, certs
<1>2. ASSUME NEW n \in Node, ServerStep(n) PROVE commCerts' = commCerts
  BY <1>2 DEF ServerStep, Execute, PrePrepare, PrePrepareLocked, Prepare, PrepareDone, PrepareTimeout,
              SendPrepare, SendCommit, Commit, CommitDone, CommitTimeout,
              CollectPrepare, CollectCommit, certs
<1>3. CASE ClientStep \/ OperatorStep \/ UNCHANGED vars
  BY <1>3 DEF ClientStep, OperatorStep, ExecuteTransaction, PCPrepare, SetStatus, SetByzantine,
              vars, certs
<1> QED
  BY <1>1, <1>2, <1>3 DEF Next, LeaderStep

\* Every vote that is counted is a vote for the slot, by a server that logged it.
LEMMA NextCast ==
    ASSUME LogInv, LeaderJob, Traced, Cast, [Next]_vars
    PROVE  Cast'
<1>a. SlotInv /\ TypeOK
  BY DEF LogInv, SlotInv
<1>b. Keeps
  BY <1>a, NextKeeps
<1>1. ASSUME NEW q \in Run, NEW v \in run'[q].prepares
      PROVE  v[1] # Leader /\ Ballot(run[q].slot, v)
  <2>1. CASE v \in run[q].prepares
    BY <2>1 DEF Cast
  <2>2. CASE v \notin run[q].prepares
    <3>1. PICK n \in Node, r \in Run, u \in Run : CollectPrepare(n, r, u) \/ CollectCommit(n, r, u)
      BY <1>1, <1>a, <2>2, VoteKinds DEF Fewer
    <3>2. run[u] \in RunRec
      BY <1>a DEF TypeOK
    <3>3. CollectPrepare(n, r, u) /\ u = q /\ v = <<n, r>>
      <4>1. CASE CollectPrepare(n, r, u)
        <5>1. run'[u].prepares = run[u].prepares \cup {<<n, r>>} /\ run'[u].commits = run[u].commits
              /\ \A w \in Run \ {u} : run'[w] = run[w]
          BY <1>a, <3>2, <4>1 DEF CollectPrepare, TypeOK, RunRec
        <5> QED
          BY <1>1, <2>2, <4>1, <5>1
      <4>2. CASE CollectCommit(n, r, u)
        <5>1. run'[u].commits = run[u].commits \cup {<<n, r>>} /\ run'[u].prepares = run[u].prepares
              /\ \A w \in Run \ {u} : run'[w] = run[w]
          BY <1>a, <3>2, <4>2 DEF CollectCommit, TypeOK, RunRec
        <5> QED
          BY <1>1, <2>2, <4>2, <5>1
      <4> QED
        BY <3>1, <4>1, <4>2
    <3>4. job[n][r] = "prepChan" /\ run[q].slot = run[r].slot /\ n # Leader
      BY <3>3 DEF CollectPrepare, LeaderJob
    <3>5. run[r].slot \in Slot /\ log[n][run[r].slot].tx = run[r].tx /\ run[r].tx \in Tx
      BY <3>4 DEF LogInv, SlotInv, RunsWellFormed, Voted, Early
    <3> QED
      BY <3>3, <3>4, <3>5, ClusterAssumption DEF Ballot, Cert
  <2> QED
    BY <2>1, <2>2
<1>2. ASSUME NEW q \in Run, NEW v \in run'[q].commits
      PROVE  Ballot(run[q].slot, v)
  <2>1. CASE v \in run[q].commits
    BY <2>1 DEF Cast
  <2>2. CASE v \notin run[q].commits
    <3>1. PICK n \in Node, r \in Run, u \in Run : CollectPrepare(n, r, u) \/ CollectCommit(n, r, u)
      BY <1>2, <1>a, <2>2, VoteKinds DEF Fewer
    <3>2. run[u] \in RunRec
      BY <1>a DEF TypeOK
    <3>3. CollectCommit(n, r, u) /\ u = q /\ v = <<n, r>>
      <4>1. CASE CollectPrepare(n, r, u)
        <5>1. run'[u].prepares = run[u].prepares \cup {<<n, r>>} /\ run'[u].commits = run[u].commits
              /\ \A w \in Run \ {u} : run'[w] = run[w]
          BY <1>a, <3>2, <4>1 DEF CollectPrepare, TypeOK, RunRec
        <5> QED
          BY <1>2, <2>2, <4>1, <5>1
      <4>2. CASE CollectCommit(n, r, u)
        <5>1. run'[u].commits = run[u].commits \cup {<<n, r>>} /\ run'[u].prepares = run[u].prepares
              /\ \A w \in Run \ {u} : run'[w] = run[w]
          BY <1>a, <3>2, <4>2 DEF CollectCommit, TypeOK, RunRec
        <5> QED
          BY <1>2, <2>2, <4>2, <5>1
      <4> QED
        BY <3>1, <4>1, <4>2
    <3>4. job[n][r] = "commChan" /\ run[q].slot = run[r].slot
      BY <3>3 DEF CollectCommit
    <3>5. run[r].slot \in Slot /\ log[n][run[r].slot].tx = run[r].tx /\ run[r].tx \in Tx
      BY <3>4 DEF LogInv, SlotInv, RunsWellFormed, Voted, Early
    <3> QED
      BY <3>3, <3>4, <3>5, ClusterAssumption DEF Ballot, Cert
  <2> QED
    BY <2>1, <2>2
<1>3. ASSUME NEW s \in Slot, NEW v \in commCerts'[s]
      PROVE  Ballot(s, v)
  <2>1. CASE commCerts' = commCerts
    BY <1>3, <2>1 DEF Cast
  <2>2. CASE \E q \in Run : FinishCommits(q)
    BY <1>3, <1>a, <2>2 DEF Cast, FinishCommits, TypeOK
  <2> QED
    BY <1>a, <2>1, <2>2, CommCertsKinds
<1>4. ASSUME NEW q \in Run, NEW v, Ballot(run[q].slot, v)
      PROVE  Ballot(run[q].slot, v)'
  <2>1. PICK s \in Slot : s = run[q].slot
    BY <1>4 DEF Ballot
  <2>2. run'[q].slot = s
    BY <1>b, <2>1 DEF Keeps, Slot
  <2>3. Ballot(s, v)'
    BY <1>4, <1>b, <2>1, BallotKept
  <2> QED
    BY <2>2, <2>3 DEF Ballot
<1>5. \A q \in Run : \A v \in run'[q].prepares \cup run'[q].commits : Ballot(run[q].slot, v)'
  BY <1>1, <1>2, <1>4
<1>6. \A s \in Slot : \A v \in commCerts'[s] : Ballot(s, v)'
  BY <1>3, <1>b, BallotKept
<1> QED
  BY <1>1, <1>5, <1>6 DEF Cast

\* Votes of different servers are as many as their servers at most.
LEMMA VotersCounted ==
    ASSUME NEW S, IsFiniteSet(S), NEW V,
           \A v \in V : v[1] \in S, \A v, w \in V : v[1] = w[1] => v = w
    PROVE  IsFiniteSet(V) /\ Cardinality(V) <= Cardinality(S)
<1> DEFINE f == [v \in V |-> v[1]]
<1>1. f \in Injection(V, S)
  BY DEF Injection, IsInjective
<1> QED
  BY <1>1, FS_Injection

\* A quorum of votes in a slot that was run once was cast by a quorum of servers.
LEMMA VotesQuorate ==
    ASSUME LogInv, NEW s \in Slot, NEW V, Alone(s), \A v \in V : Ballot(s, v),
           \/ Cardinality(V) >= CommitQuorum
           \/ Cardinality(V) >= PrepareQuorum /\ log[Leader][s].tx # NoTx /\ \A v \in V : v[1] # Leader
    PROVE  Quorate(s)
<1> DEFINE L == {m \in Node : log[m][s].tx # NoTx}
<1>1. IsFiniteSet(L) /\ Cardinality(L) \in Nat /\ F \in Nat
  BY ClusterAssumption, FS_Subset, FS_CardinalityType
<1>2. \A v \in V : v[1] \in L /\ v[2] \in Run /\ run[v[2]].slot = s /\ v = <<v[1], v[2]>>
  BY DEF Ballot, Cert
<1>3. \A v, w \in V : v[1] = w[1] => v = w
  BY <1>2 DEF Alone
<1>4. CASE Cardinality(V) >= CommitQuorum
  <2>1. IsFiniteSet(V) /\ Cardinality(V) <= Cardinality(L)
    BY <1>1, <1>2, <1>3, VotersCounted
  <2>2. Cardinality(V) \in Nat
    BY <2>1, FS_CardinalityType
  <2> QED
    BY <1>1, <1>4, <2>1, <2>2 DEF Quorate, CommitQuorum
<1>5. CASE Cardinality(V) >= PrepareQuorum /\ log[Leader][s].tx # NoTx /\ \A v \in V : v[1] # Leader
  <2> DEFINE M == L \ {Leader}
  <2>1. Leader \in L /\ IsFiniteSet(M) /\ Cardinality(M) = Cardinality(L) - 1
    BY <1>1, <1>5, ClusterAssumption, FS_RemoveElement
  <2>2. \A v \in V : v[1] \in M
    BY <1>2, <1>5
  <2> HIDE DEF L, M
  <2>3. IsFiniteSet(V) /\ Cardinality(V) <= Cardinality(M)
    BY <1>3, <2>1, <2>2, VotersCounted
  <2>4. Cardinality(V) \in Nat
    BY <2>3, FS_CardinalityType
  <2>5. Cardinality(L) > 2 * F
    BY <1>1, <1>5, <2>1, <2>3, <2>4 DEF PrepareQuorum
  <2> QED
    BY <2>5 DEF L, Quorate
<1> QED
  BY <1>4, <1>5

\* Raising an entry touches no other.
LEMMA RaisedElsewhere ==
    ASSUME TypeOK, NEW n \in Node, NEW s \in Slot, NEW k, log' = Raised(n, s, k)
    PROVE  \A m \in Node, u \in Slot : m # n \/ u # s => log'[m][u] = log[m][u]
  BY DEF Raised, TypeOK

LEMMA SaveCommitElsewhere ==
    ASSUME TypeOK, NEW n \in Node, NEW s \in Slot, NEW t, NEW st, SaveCommit(n, s, t, st)
    PROVE  \A m \in Node, u \in Slot : m # n \/ u # s =>
               log'[m][u] = log[m][u] /\ store'[m][u] = store[m][u]
<1>1. CASE byz[n]
  BY <1>1 DEF SaveCommit
<1>2. CASE ~byz[n]
  <2>1. log' = Raised(n, s, Committed)
        /\ store' = [store EXCEPT ![n][s] = [tx |-> log[n][s].tx, status |-> st]]
    BY <1>2 DEF SaveCommit
  <2>2. \A m \in Node, u \in Slot : m # n \/ u # s => store'[m][u] = store[m][u]
    BY <2>1 DEF TypeOK
  <2> QED
    BY <2>1, <2>2, RaisedElsewhere
<1> QED
  BY <1>1, <1>2

\* Slot s is prepared at the leader, or decided somewhere.
Sealed(s) == log[Leader][s].state >= Prepared \/ \E n \in Node : store[n][s].tx # NoTx

\* Who seals a slot has counted a quorum.
LEMMA SealKinds ==
    ASSUME SlotInv, LeaderJob, [Next]_vars, NEW s \in Slot, Sealed(s)', ~Sealed(s)
    PROVE  \/ \E q \in Run : /\ FinishPrepares(q) /\ run[q].slot = s
                             /\ Cardinality(ValidCerts(Leader, s, run[q].prepares)) >= PrepareQuorum
           \/ \E n \in Node : Cardinality(ValidCommits(n, s, commCerts[s])) >= CommitQuorum
           \/ \E q \in Run : /\ FinishCommits(q) /\ run[q].slot = s
                             /\ Cardinality(ValidCommits(Leader, s, run[q].commits)) >= CommitQuorum
<1>a. TypeOK /\ Leader \in Node
  BY ClusterAssumption DEF SlotInv
<1>b. log[Leader][s].state \in 0..5 /\ ~(log[Leader][s].state >= Prepared)
      /\ \A n \in Node : store[n][s].tx = NoTx
  BY <1>a DEF Sealed, TypeOK, Entry
<1>c. log'[Leader][s].state >= Prepared \/ \E n \in Node : store'[n][s].tx # NoTx
  BY DEF Sealed
<1>d. ~ ((\A n \in Node : log'[n][s] = log[n][s]) /\ store' = store)
  BY <1>a, <1>b, <1>c
<1>1. ASSUME NEW r \in Run, BalanceTooLow(r) \/ PCPrepareReply(r) \/ CommitRemote(r) \/ PCCommit(r)
                            \/ WaitForPCCommit(r)
      PROVE  FALSE
  BY <1>1, <1>d DEF BalanceTooLow, PCPrepareReply, CommitRemote, PCCommit, WaitForPCCommit, replica
<1>2. ASSUME NEW r \in Run, PrePrepareRun(r) PROVE FALSE
  <2> DEFINE u == IF run[r].slot = 0 THEN seq ELSE run[r].slot
  <2>1. u \in Slot /\ store' = store
    BY <1>2 DEF PrePrepareRun
  <2>2. log'[Leader][u].state = 1 /\ \A v \in Slot : v # u => log'[Leader][v] = log[Leader][v]
    BY <1>2, <1>a, <2>1 DEF PrePrepareRun, TypeOK, PrePrepared
  <2> HIDE DEF u
  <2> QED
    BY <1>b, <1>c, <2>1, <2>2 DEF Prepared
<1>3. ASSUME NEW q \in Run, FinishPrepares(q)
      PROVE  run[q].slot = s /\ Cardinality(ValidCerts(Leader, s, run[q].prepares)) >= PrepareQuorum
  <2>1. run[q].slot \in Slot /\ store' = store
    BY <1>3, <1>a, RunFacts DEF SlotInv, FinishPrepares
  <2>2. CASE Cardinality(ValidCerts(Leader, run[q].slot, run[q].prepares)) >= PrepareQuorum
    <3>1. log' = log \/ log' = Raised(Leader, run[q].slot, Prepared)
      BY <1>3, <2>2 DEF FinishPrepares
    <3>2. run[q].slot = s
      BY <1>a, <1>b, <1>c, <2>1, <3>1, RaisedElsewhere
    <3> QED
      BY <2>2, <3>2
  <2>3. CASE ~(Cardinality(ValidCerts(Leader, run[q].slot, run[q].prepares)) >= PrepareQuorum)
    BY <1>3, <1>d, <2>1, <2>3 DEF FinishPrepares
  <2> QED
    BY <2>2, <2>3
<1>4. ASSUME NEW q \in Run, FinishCommits(q)
      PROVE  run[q].slot = s /\ Cardinality(ValidCommits(Leader, s, run[q].commits)) >= CommitQuorum
  <2>1. run[q].slot \in Slot
    BY <1>4, <1>a, RunFacts DEF SlotInv, FinishCommits
  <2>2. CASE Cardinality(ValidCommits(Leader, run[q].slot, run[q].commits)) >= CommitQuorum
    <3>1. SaveCommit(Leader, run[q].slot, run[q].tx, run[q].status)
      BY <1>4, <2>2 DEF FinishCommits
    <3>2. run[q].slot = s
      BY <1>a, <1>b, <1>c, <2>1, <3>1, SaveCommitElsewhere
    <3> QED
      BY <2>2, <3>2
  <2>3. CASE ~(Cardinality(ValidCommits(Leader, run[q].slot, run[q].commits)) >= CommitQuorum)
    BY <1>4, <1>d, <2>3 DEF FinishCommits
  <2> QED
    BY <2>2, <2>3
<1>5. ASSUME NEW n \in Node, Execute(n) PROVE FALSE
  <2>1. exec[n] \in Slot /\ store[n][exec[n]].tx # NoTx /\ store' = store
        /\ (log' = log \/ log' = Raised(n, exec[n], Executed))
    BY <1>5 DEF Execute
  <2>2. exec[n] # s
    BY <1>b, <2>1
  <2> QED
    BY <1>a, <1>d, <2>1, <2>2, RaisedElsewhere
<1>6. ASSUME NEW n \in Node, NEW r \in Run, PrePrepareLocked(n, r) PROVE FALSE
  <2>1. n # Leader /\ store' = store
    BY <1>6 DEF PrePrepareLocked, LeaderJob
  <2>2. log'[Leader] = log[Leader]
    BY <1>6, <1>a, <2>1 DEF PrePrepareLocked, TypeOK
  <2> QED
    BY <1>b, <1>c, <2>1, <2>2
<1>7. ASSUME NEW n \in Node, NEW r \in Run, PrepareDone(n, r) PROVE FALSE
  <2>1. n # Leader /\ store' = store /\ run[r].slot \in Slot
    BY <1>7, RunFacts DEF PrepareDone, LeaderJob, SlotInv
  <2>2. log' = log \/ log' = Raised(n, run[r].slot, Prepared)
    BY <1>7 DEF PrepareDone
  <2>3. log'[Leader][s] = log[Leader][s]
    BY <1>a, <2>1, <2>2, RaisedElsewhere
  <2> QED
    BY <1>b, <1>c, <2>1, <2>3
<1>8. ASSUME NEW n \in Node, NEW r \in Run, CommitDone(n, r)
      PROVE  Cardinality(ValidCommits(n, s, commCerts[s])) >= CommitQuorum
  <2>1. run[r].slot \in Slot
    BY <1>8, RunFacts DEF CommitDone, SlotInv
  <2>2. CASE Cardinality(ValidCommits(n, run[r].slot, commCerts[run[r].slot])) >= CommitQuorum
    <3>1. SaveCommit(n, run[r].slot, run[r].tx, PPStatus(r))
      BY <1>8, <2>2 DEF CommitDone
    <3>2. run[r].slot = s
      BY <1>a, <1>b, <1>c, <2>1, <3>1, SaveCommitElsewhere
    <3> QED
      BY <2>2, <3>2
  <2>3. CASE ~(Cardinality(ValidCommits(n, run[r].slot, commCerts[run[r].slot])) >= CommitQuorum)
    BY <1>8, <1>d, <2>3 DEF CommitDone
  <2> QED
    BY <2>2, <2>3
<1>9. ASSUME NEW n \in Node, NEW r \in Run,
             PrePrepare(n, r) \/ Prepare(n, r) \/ PrepareTimeout(n, r)
               \/ SendPrepare(n, r) \/ SendCommit(n, r) \/ Commit(n, r) \/ CommitTimeout(n, r)
      PROVE  FALSE
  BY <1>9, <1>d DEF PrePrepare, Prepare, PrepareTimeout, SendPrepare, SendCommit, Commit, CommitTimeout,
                    replica
<1>10. ASSUME NEW n \in Node, NEW r \in Run, NEW q \in Run, CollectPrepare(n, r, q) \/ CollectCommit(n, r, q)
       PROVE  FALSE
  BY <1>10, <1>d DEF CollectPrepare, CollectCommit, replica
<1>11. CASE ClientStep \/ OperatorStep \/ UNCHANGED vars
  BY <1>11, <1>d DEF ClientStep, ExecuteTransaction, PCPrepare, OperatorStep, SetStatus, SetByzantine,
                     vars, replica
<1> QED
  BY <1>1, <1>2, <1>3, <1>4, <1>5, <1>6, <1>7, <1>8, <1>9, <1>10, <1>11
     DEF Next, LeaderStep, ServerStep

\* Raising an entry leaves its status alone.
LEMMA RaisedStatus ==
    ASSUME TypeOK, NEW n \in Node, NEW s \in Slot, NEW k \in 0..5, log' = Raised(n, s, k)
    PROVE  \A m \in Node, u \in Slot : log'[m][u].status = log[m][u].status
<1>1. log[n][s] \in Entry
  BY DEF TypeOK
<1>2. RaisedEntry(n, s, k).status = log[n][s].status
  BY <1>1 DEF RaisedEntry, Entry
<1> QED
  BY <1>2 DEF Raised, TypeOK

\* Every slot that was run once and is prepared or decided was logged by a quorum.
LEMMA NextBacked ==
    ASSUME LogInv, LeaderJob, Traced, Cast, Backed, [Next]_vars
    PROVE  Backed'
<1> SUFFICES ASSUME NEW s \in Slot, Alone(s)', Sealed(s)' PROVE Quorate(s)'
  BY DEF Backed, Sealed
<1>a. SlotInv /\ Keeps
  BY NextKeeps DEF LogInv
<1>1. Alone(s)
  BY <1>a DEF Alone, Keeps, Slot
<1>2. Quorate(s) => Quorate(s)'
  <2> DEFINE L == {m \in Node : log[m][s].tx # NoTx}
             M == {m \in Node : log'[m][s].tx # NoTx}
  <2>1. L \subseteq M /\ M \subseteq Node
    BY <1>a DEF Keeps
  <2> HIDE DEF L, M
  <2>2. IsFiniteSet(M) /\ IsFiniteSet(L) /\ Cardinality(L) <= Cardinality(M)
    BY <2>1, ClusterAssumption, FS_Subset
  <2>3. Cardinality(L) \in Nat /\ Cardinality(M) \in Nat /\ F \in Nat
    BY <2>2, ClusterAssumption, FS_CardinalityType
  <2>4. Cardinality(L) > 2 * F => Cardinality(M) > 2 * F
    BY <2>2, <2>3
  <2> QED
    BY <2>4 DEF L, M, Quorate
<1>3. CASE Sealed(s)
  BY <1>1, <1>2, <1>3 DEF Backed, Sealed
<1>4. CASE ~Sealed(s)
  <2>1. ASSUME NEW q \in Run, FinishPrepares(q), run[q].slot = s,
               Cardinality(ValidCerts(Leader, s, run[q].prepares)) >= PrepareQuorum
        PROVE  Quorate(s)
    <3>1. \A v \in ValidCerts(Leader, s, run[q].prepares) : Ballot(s, v) /\ v[1] # Leader
      BY <2>1 DEF Cast, ValidCerts
    <3>2. log[Leader][s].tx # NoTx
      BY <2>1, <1>a, RunFacts, ClusterAssumption DEF SlotInv, SlotsAssigned, FinishPrepares, Slot
    <3> QED
      BY <1>1, <2>1, <3>1, <3>2, VotesQuorate
  <2>2. ASSUME NEW n \in Node, Cardinality(ValidCommits(n, s, commCerts[s])) >= CommitQuorum
        PROVE  Quorate(s)
    <3>1. \A v \in ValidCommits(n, s, commCerts[s]) : Ballot(s, v)
      BY DEF Cast, ValidCommits, ValidCerts
    <3> QED
      BY <1>1, <2>2, <3>1, VotesQuorate
  <2>3. ASSUME NEW q \in Run, run[q].slot = s,
               Cardinality(ValidCommits(Leader, s, run[q].commits)) >= CommitQuorum
        PROVE  Quorate(s)
    <3>1. \A v \in ValidCommits(Leader, s, run[q].commits) : Ballot(s, v)
      BY <2>3 DEF Cast, ValidCommits, ValidCerts
    <3> QED
      BY <1>1, <2>3, <3>1, VotesQuorate
  <2> QED
    BY <1>a, <1>2, <1>4, <2>1, <2>2, <2>3, SealKinds
<1> QED
  BY <1>3, <1>4

\* Runs that are under way keep their status.
LEMMA StatusKept ==
    ASSUME TypeOK, [Next]_vars, NEW q \in Run, run[q].pc # "none"
    PROVE  run'[q].status = run[q].status
<1>1. CASE Fewer
  BY <1>1 DEF Fewer
<1>2. ASSUME NEW n \in Node, NEW r \in Run, NEW u \in Run, CollectPrepare(n, r, u) \/ CollectCommit(n, r, u)
      PROVE  run'[q].status = run[q].status
  <2>1. run[u] \in RunRec
    BY DEF TypeOK
  <2>2. CASE CollectPrepare(n, r, u)
    BY <2>1, <2>2 DEF CollectPrepare, TypeOK, RunRec
  <2>3. CASE CollectCommit(n, r, u)
    BY <2>1, <2>3 DEF CollectCommit, TypeOK, RunRec
  <2> QED
    BY <1>2, <2>2, <2>3
<1> QED
  BY <1>1, <1>2, VoteKinds

\* The leader's log changes the status of a slot only when the slot is given out.
LEMMA LabelKept ==
    ASSUME SlotInv, [Next]_vars, NEW s \in Slot, s < seq
    PROVE  log'[Leader][s].status = log[Leader][s].status
<1> DEFINE Same == log'[Leader][s].status = log[Leader][s].status
<1> SUFFICES Same
  OBVIOUS
<1>a. TypeOK /\ Leader \in Node
  BY ClusterAssumption DEF SlotInv
<1>b. log' = log => Same
  OBVIOUS
<1>c. ASSUME NEW n \in Node, NEW u \in Slot, NEW k \in 0..5, log' = Raised(n, u, k) PROVE Same
  BY <1>a, <1>c, RaisedStatus
<1>d. ASSUME NEW n \in Node, NEW u \in Slot, NEW t, NEW st, SaveCommit(n, u, t, st) PROVE Same
  BY <1>b, <1>c, <1>d DEF SaveCommit, Committed
<1> HIDE DEF Same
<1>1. ASSUME NEW r \in Run, BalanceTooLow(r) \/ PCPrepareReply(r) \/ CommitRemote(r) \/ PCCommit(r)
                            \/ WaitForPCCommit(r)
      PROVE  Same
  BY <1>1, <1>b DEF BalanceTooLow, PCPrepareReply, CommitRemote, PCCommit, WaitForPCCommit, replica
<1>2. ASSUME NEW r \in Run, PrePrepareRun(r) PROVE Same
  <2> DEFINE old == run[r].slot
             u   == IF old = 0 THEN seq ELSE old
             st  == IF old = 0 THEN run[r].status ELSE log[Leader][old].status
  <2>1. u \in Slot /\ log' = [log EXCEPT ![Leader][u] = [tx |-> run[r].tx, status |-> st, state |-> PrePrepared]]
    BY <1>2 DEF PrePrepareRun
  <2>2. u = s => st = log[Leader][s].status
    BY DEF Slot
  <2> HIDE DEF old, u, st
  <2> QED
    BY <1>a, <2>1, <2>2 DEF Same, TypeOK
<1>3. ASSUME NEW q \in Run, FinishPrepares(q) PROVE Same
  BY <1>3, <1>a, <1>b, <1>c, RunFacts DEF SlotInv, FinishPrepares, Prepared
<1>4. ASSUME NEW q \in Run, FinishCommits(q) PROVE Same
  BY <1>4, <1>a, <1>b, <1>d, RunFacts DEF SlotInv, FinishCommits
<1>5. ASSUME NEW n \in Node, Execute(n) PROVE Same
  BY <1>5, <1>b, <1>c DEF Execute, Executed
<1>6. ASSUME NEW n \in Node, NEW r \in Run, PrePrepareLocked(n, r) PROVE Same
  <2>1. run[r].slot \in Slot
    BY <1>6, RunFacts DEF SlotInv, PrePrepareLocked
  <2> QED
    BY <1>6, <1>a, <2>1 DEF PrePrepareLocked, PPStatus, Same, TypeOK
<1>7. ASSUME NEW n \in Node, NEW r \in Run, PrepareDone(n, r) PROVE Same
  BY <1>7, <1>b, <1>c, RunFacts DEF SlotInv, PrepareDone, Prepared
<1>8. ASSUME NEW n \in Node, NEW r \in Run, CommitDone(n, r) PROVE Same
  BY <1>8, <1>b, <1>d, RunFacts DEF SlotInv, CommitDone
<1>9. ASSUME NEW n \in Node, NEW r \in Run,
             PrePrepare(n, r) \/ Prepare(n, r) \/ PrepareTimeout(n, r)
               \/ SendPrepare(n, r) \/ SendCommit(n, r) \/ Commit(n, r) \/ CommitTimeout(n, r)
      PROVE  Same
  BY <1>9, <1>b DEF PrePrepare, Prepare, PrepareTimeout, SendPrepare, SendCommit, Commit, CommitTimeout,
                    replica
<1>10. ASSUME NEW n \in Node, NEW r \in Run, NEW q \in Run, CollectPrepare(n, r, q) \/ CollectCommit(n, r, q)
       PROVE  Same
  BY <1>10, <1>b DEF CollectPrepare, CollectCommit, replica
<1>11. CASE ClientStep \/ OperatorStep \/ UNCHANGED vars
  BY <1>11, <1>b DEF ClientStep, ExecuteTransaction, PCPrepare, OperatorStep, SetStatus, SetByzantine,
                     vars, replica
<1> QED
  BY <1>1, <1>2, <1>3, <1>4, <1>5, <1>6, <1>7, <1>8, <1>9, <1>10, <1>11
     DEF Next, LeaderStep, ServerStep

\* A server stores, for a slot, what it and the leader have logged there; the leader
\* itself stores the status of its run.
LEMMA StoreKinds ==
    ASSUME SlotInv, [Next]_vars, NEW n \in Node, NEW s \in Slot
    PROVE  \/ store'[n][s] = store[n][s]
           \/ store'[n][s] = [tx |-> log[n][s].tx, status |-> log[Leader][s].status]
           \/ \E q \in Run : run[q].pc = "commits" /\ run[q].slot = s
                             /\ store'[n][s] = [tx |-> log[n][s].tx, status |-> run[q].status]
<1> DEFINE Known ==
       \/ store'[n][s] = store[n][s]
       \/ store'[n][s] = [tx |-> log[n][s].tx, status |-> log[Leader][s].status]
       \/ \E q \in Run : run[q].pc = "commits" /\ run[q].slot = s
                         /\ store'[n][s] = [tx |-> log[n][s].tx, status |-> run[q].status]
<1> SUFFICES Known
  OBVIOUS
<1>a. TypeOK /\ Leader \in Node
  BY ClusterAssumption DEF SlotInv
<1>b. store' = store => Known
  OBVIOUS
<1>c. ASSUME NEW m \in Node, NEW u \in Slot, NEW t, NEW st, SaveCommit(m, u, t, st)
      PROVE  store'[n][s] = store[n][s]
             \/ (m = n /\ u = s /\ store'[n][s] = [tx |-> log[n][s].tx, status |-> st])
  <2> DEFINE unit == [tx |-> log[m][u].tx, status |-> st]
  <2>1. store' = store \/ store' = [store EXCEPT ![m][u] = unit]
    BY <1>c DEF SaveCommit
  <2> HIDE DEF unit
  <2>2. store \in [Node -> [Slot -> DBUnit]]
    BY <1>a DEF TypeOK
  <2>3. ASSUME store' = [store EXCEPT ![m][u] = unit]
        PROVE  store'[n][s] = store[n][s] \/ (m = n /\ u = s /\ store'[n][s] = unit)
    <3>1. store'[n] = IF n = m THEN [store[m] EXCEPT ![u] = unit] ELSE store[n]
      BY <2>2, <2>3
    <3> QED
      BY <2>2, <3>1
  <2> QED
    BY <2>1, <2>3 DEF unit
<1>1. ASSUME NEW r \in Run, BalanceTooLow(r) \/ PrePrepareRun(r) \/ FinishPrepares(r) \/ PCPrepareReply(r)
                            \/ CommitRemote(r) \/ PCCommit(r) \/ WaitForPCCommit(r)
      PROVE  Known
  <2>1. store' = store
    BY <1>1 DEF BalanceTooLow, PrePrepareRun, FinishPrepares, PCPrepareReply, CommitRemote, PCCommit,
                WaitForPCCommit, replica
  <2> QED
    BY <1>b, <2>1
<1>2. ASSUME NEW q \in Run, FinishCommits(q) PROVE Known
  <2>1. run[q].slot \in Slot /\ run[q].pc = "commits"
    BY <1>2, <1>a, RunFacts DEF SlotInv, FinishCommits
  <2>2. store' = store \/ SaveCommit(Leader, run[q].slot, run[q].tx, run[q].status)
    BY <1>2 DEF FinishCommits
  <2> QED
    BY <1>a, <1>b, <1>c, <2>1, <2>2
<1>3. ASSUME NEW m \in Node, NEW r \in Run, CommitDone(m, r) PROVE Known
  <2>1. run[r].slot \in Slot
    BY <1>3, RunFacts DEF SlotInv, CommitDone
  <2>2. store' = store \/ SaveCommit(m, run[r].slot, run[r].tx, log[Leader][run[r].slot].status)
    BY <1>3 DEF CommitDone, PPStatus
  <2> QED
    BY <1>b, <1>c, <2>1, <2>2
<1>4. ASSUME NEW m \in Node, Execute(m) PROVE Known
  BY <1>4, <1>b DEF Execute
<1>5. ASSUME NEW m \in Node, NEW r \in Run,
             PrePrepare(m, r) \/ PrePrepareLocked(m, r) \/ Prepare(m, r) \/ PrepareDone(m, r)
               \/ PrepareTimeout(m, r)
               \/ SendPrepare(m, r) \/ SendCommit(m, r) \/ Commit(m, r) \/ CommitTimeout(m, r)
      PROVE  Known
  <2>1. store' = store
    BY <1>5 DEF PrePrepare, PrePrepareLocked, Prepare, PrepareDone, PrepareTimeout, SendPrepare,
                SendCommit, Commit, CommitTimeout, replica
  <2> QED
    BY <1>b, <2>1
<1>6. ASSUME NEW m \in Node, NEW r \in Run, NEW q \in Run, CollectPrepare(m, r, q) \/ CollectCommit(m, r, q)
      PROVE  Known
  BY <1>6, <1>b DEF CollectPrepare, CollectCommit, replica
<1>7. CASE ClientStep \/ OperatorStep \/ UNCHANGED vars
  BY <1>7, <1>b DEF ClientStep, ExecuteTransaction, PCPrepare, OperatorStep, SetStatus, SetByzantine,
                    vars, replica
<1> QED
  BY <1>1, <1>2, <1>3, <1>4, <1>5, <1>6, <1>7
     DEF Next, LeaderStep, ServerStep

\* The status of a slot that was run once is the same for run, log and stores.
LEMMA NextLabelled ==
    ASSUME SlotInv, Traced, Labelled, [Next]_vars
    PROVE  Labelled'
<1>a. Keeps /\ TypeOK
  BY NextKeeps DEF SlotInv
<1>b. \A s \in Slot : Alone(s)' => Alone(s)
  BY <1>a DEF Alone, Keeps, Slot
<1>1. ASSUME NEW r \in Run, NEW s \in Slot, run'[r].slot = s, Alone(s)'
      PROVE  log'[Leader][s].status = run'[r].status
  <2>1. CASE run[r].slot = s
    <3>1. run[r].pc # "none" /\ s < seq
      BY <2>1 DEF Traced, SlotInv, SlotsAssigned, Slot
    <3>2. log[Leader][s].status = run[r].status
      BY <1>1, <1>b, <2>1 DEF Labelled
    <3> QED
      BY <1>a, <3>1, <3>2, StatusKept, LabelKept
  <2>2. CASE run[r].slot # s
    <3>1. run[r].slot = 0
      BY <1>1, <1>a, <2>2 DEF Keeps
    <3>2. CASE Quiet
      BY <1>1, <2>2, <3>2 DEF Quiet
    <3>3. ASSUME NEW q \in Run, NEW t \in Tx, Starts(q, t) PROVE FALSE
      <4>1. r = q /\ s = reqSeq[t] /\ s # 0
        BY <1>1, <2>2, <3>3 DEF Starts, Slot
      <4>2. PICK u \in Run : run[u].slot = s /\ run[u].pc # "none"
        BY <4>1 DEF Traced
      <4>3. u # q /\ run'[u].slot = s
        BY <3>3, <4>2 DEF Starts
      <4> QED
        BY <1>1, <4>1, <4>3 DEF Alone
    <3>4. ASSUME NEW q \in Run, PrePrepareRun(q) PROVE log'[Leader][s].status = run'[r].status
      <4>1. r = q /\ s = seq
        BY <1>1, <1>a, <2>2, <3>1, <3>4 DEF PrePrepareRun, TypeOK, RunRec
      <4>2. log' = [log EXCEPT ![Leader][s] = [tx |-> run[r].tx, status |-> run[r].status, state |-> PrePrepared]]
        BY <3>1, <3>4, <4>1 DEF PrePrepareRun
      <4>3. log'[Leader][s].status = run[r].status
        BY <1>a, <4>2, ClusterAssumption DEF TypeOK
      <4>4. run[r].pc # "none"
        BY <3>4, <4>1 DEF PrePrepareRun
      <4> QED
        BY <1>a, <4>3, <4>4, StatusKept
    <3>5. ASSUME NEW n \in Node, NEW q \in Run, PrePrepareLocked(n, q) PROVE FALSE
      BY <1>1, <2>2, <3>5 DEF PrePrepareLocked
    <3> QED
      BY <3>2, <3>3, <3>4, <3>5, StepKinds
  <2> QED
    BY <2>1, <2>2
<1>2. ASSUME NEW n \in Node, NEW s \in Slot, Alone(s)', store'[n][s].tx # NoTx
      PROVE  store'[n][s].status = log'[Leader][s].status
  <2>1. store'[n][s].status = log[Leader][s].status /\ log[Leader][s].tx # NoTx
    <3>1. Alone(s)
      BY <1>2, <1>b
    <3>2. CASE store'[n][s] = store[n][s]
      BY <1>2, <3>1, <3>2 DEF Labelled, SlotInv, LeaderDecides
    <3>3. CASE store'[n][s] = [tx |-> log[n][s].tx, status |-> log[Leader][s].status]
      BY <1>2, <3>3 DEF SlotInv, LeaderDecides
    <3>4. ASSUME NEW q \in Run, run[q].slot = s,
                 store'[n][s] = [tx |-> log[n][s].tx, status |-> run[q].status]
          PROVE  store'[n][s].status = log[Leader][s].status /\ log[Leader][s].tx # NoTx
      BY <1>2, <3>1, <3>4 DEF Labelled, SlotInv, LeaderDecides
    <3> QED
      BY <3>2, <3>3, <3>4, StoreKinds
  <2>2. s < seq
    BY <1>a, <2>1 DEF SlotInv, SlotsAssigned, TypeOK, Slot
  <2> QED
    BY <2>1, <2>2, LabelKept
<1>3. \A r \in Run : run'[r].slot \in Slot /\ Alone(run[r].slot)' => log'[Leader][run'[r].slot].status = run'[r].status
  <2> SUFFICES ASSUME NEW r \in Run, run'[r].slot \in Slot, Alone(run[r].slot)'
               PROVE  log'[Leader][run'[r].slot].status = run'[r].status
    OBVIOUS
  <2>1. PICK s \in Slot : s = run'[r].slot
    OBVIOUS
  <2>2. Alone(s)'
    BY <2>1 DEF Alone
  <2> QED
    BY <1>1, <2>1, <2>2
<1> QED
  BY <1>2, <1>3 DEF Labelled

VoteInv == LogInv /\ LeaderJob /\ Traced /\ Cast /\ Backed /\ Labelled

\* In every cluster the votes of a slot come from servers that logged it, and what was
\* run once is prepared and decided by a quorum, with one status.
THEOREM VoteInvariant == Spec => []VoteInv
<1> DEFINE Rest == LeaderJob /\ Traced /\ Cast /\ Backed /\ Labelled
<1>1. Init => Rest
  <2> SUFFICES ASSUME Init PROVE Rest
    OBVIOUS
  <2>1. \A r \in Run : /\ run[r].pc = "none" /\ run[r].slot = 0 /\ run[r].prepares = {} /\ run[r].commits = {}
                       /\ \A n \in Node : job[n][r] = "none"
    BY DEF Init, NoRun
  <2>2. \A n \in Node, s \in Slot : log[n][s].state = 0 /\ store[n][s].tx = NoTx /\ commCerts[s] = {}
    BY DEF Init, NoEntry, NoUnit
  <2>3. \A t \in Tx : reqSeq[t] = 0
    BY DEF Init
  <2>4. Leader \in Node /\ 0 \notin Slot
    BY ClusterAssumption DEF Slot
  <2>5. LeaderJob /\ Traced
    BY <2>1, <2>3, <2>4 DEF LeaderJob, Traced
  <2>6. Cast
    BY <2>1, <2>2, <2>4 DEF Cast
  <2>7. Backed /\ Labelled
    BY <2>1, <2>2, <2>4 DEF Backed, Labelled, Prepared
  <2> QED
    BY <2>5, <2>6, <2>7
<1>2. LogInv /\ Rest /\ [Next]_vars => Rest'
  BY NextLeaderJob, NextTraced, NextCast, NextBacked, NextLabelled DEF LogInv
<1>3. LogInv /\ Rest => VoteInv
  BY DEF VoteInv
<1> HIDE DEF Rest
<1> QED
  BY <1>1, <1>2, <1>3, LogInvariant, PTL DEF Spec

-----------------------------------------------------------------------------
(* A cluster whose clients never repeat a call.                            *)

CalledOnce == MaxAttempts <= 1

\* Each run is given a slot of its own.
OwnSlots ==
    /\ \A r \in Run : run[r].pc = "locks" => run[r].slot = 0
    /\ \A q, r \in Run : run[q].slot = run[r].slot /\ run[r].slot # 0 => q = r
    /\ \A r \in Run : run[r].pc # "none" => attempts[run[r].tx] # 0
    /\ \A t \in Tx : reqSeq[t] # 0 => attempts[t] # 0

LEMMA AttemptsGrow ==
    ASSUME TypeOK, [Next]_vars, NEW t \in Tx
    PROVE  /\ attempts[t] # 0 => attempts'[t] # 0
           /\ ExecuteTransaction(t) \/ PCPrepare(t) => attempts'[t] # 0 /\ attempts[t] < MaxAttempts
<1>a. attempts \in [Tx -> 0..MaxAttempts]
  BY DEF TypeOK
<1>1. ASSUME NEW u \in Tx, ExecuteTransaction(u) \/ PCPrepare(u)
      PROVE  /\ attempts'[u] # 0 /\ attempts[u] < MaxAttempts
             /\ \A v \in Tx : v # u => attempts'[v] = attempts[v]
  <2>1. attempts' = [attempts EXCEPT ![u] = attempts[u] + 1] /\ attempts[u] < MaxAttempts
    BY <1>1 DEF ExecuteTransaction, PCPrepare
  <2> QED
    BY <1>a, <2>1
<1>2. CASE attempts' = attempts
  BY <1>1, <1>2
<1>3. attempts' = attempts \/ \E u \in Tx : ExecuteTransaction(u) \/ PCPrepare(u)
  <2>1. ASSUME NEW r \in Run, BalanceTooLow(r) \/ PrePrepareRun(r) \/ FinishPrepares(r) \/ FinishCommits(r)
                              \/ PCPrepareReply(r) \/ CommitRemote(r) \/ PCCommit(r) \/ WaitForPCCommit(r)
        PROVE  attempts' = attempts
    BY <2>1 DEF BalanceTooLow, PrePrepareRun, FinishPrepares, FinishCommits, PCPrepareReply, CommitRemote,
                PCCommit, WaitForPCCommit, client
  <2>2. ASSUME NEW n \in Node, ServerStep(n) PROVE attempts' = attempts
    BY <2>2 DEF ServerStep, Execute, PrePrepare, PrePrepareLocked, Prepare, PrepareDone, PrepareTimeout,
                SendPrepare, SendCommit, Commit, CommitDone, CommitTimeout,
                CollectPrepare, CollectCommit, client
  <2>3. CASE OperatorStep \/ UNCHANGED vars
    BY <2>3 DEF OperatorStep, SetStatus, SetByzantine, vars, client
  <2> QED
    BY <2>1, <2>2, <2>3 DEF Next, LeaderStep, ClientStep
<1> QED
  BY <1>1, <1>2, <1>3

\* Starting a run without a slot, for a request that was called.
LEMMA StartsOwn ==
    ASSUME SlotInv, OwnSlots, NEW q \in Run, NEW t \in Tx, Starts(q, t), run'[q].slot = 0,
           \A u \in Tx : attempts[u] # 0 => attempts'[u] # 0, attempts'[t] # 0
    PROVE  OwnSlots'
<1>1. \A r \in Run : r # q => run'[r].tx = run[r].tx /\ run'[r].slot = run[r].slot
                             /\ (run'[r].pc = run[r].pc \/ (run'[r].pc = "end" /\ run[r].pc # "none"))
  BY DEF Starts
<1>2. run'[q].tx = t /\ reqSeq' = reqSeq
  BY DEF Starts
<1>3. \A r \in Run : run[r].pc # "none" => run[r].tx \in Tx
  BY DEF SlotInv, RunsWellFormed
<1>4. \A r \in Run : run'[r].pc # "none" => attempts'[run'[r].tx] # 0
  BY <1>1, <1>2, <1>3 DEF OwnSlots
<1> QED
  BY <1>1, <1>2, <1>4 DEF OwnSlots

LEMMA NextOwnSlots ==
    ASSUME CalledOnce, SlotInv, OwnSlots, [Next]_vars
    PROVE  OwnSlots'
<1>a. TypeOK /\ attempts \in [Tx -> 0..MaxAttempts] /\ MaxAttempts \in Nat
  BY ClusterAssumption DEF SlotInv, TypeOK
<1>b. \A t \in Tx : attempts[t] # 0 => attempts'[t] # 0
  BY <1>a, AttemptsGrow
<1>c. \A r \in Run : run[r].pc # "none" => run[r].tx \in Tx
  BY DEF SlotInv, RunsWellFormed
<1>d. ASSUME NEW r \in Run, run'[r].pc # "none", run[r].pc # "none", run'[r].tx = run[r].tx
      PROVE  attempts'[run'[r].tx] # 0
  BY <1>b, <1>c, <1>d DEF OwnSlots
<1>1. CASE Rests
  <2>1. \A r \in Run : run'[r].pc # "none" => attempts'[run'[r].tx] # 0
    BY <1>1, <1>d DEF Rests
  <2> QED
    BY <1>1, <1>b, <2>1 DEF Rests, OwnSlots
<1>2. ASSUME NEW r \in Run, PrePrepareRun(r) PROVE OwnSlots'
  <2>1. run[r].slot = 0 /\ run[r].tx \in Tx /\ seq \in Slot
    BY <1>2, <1>c DEF OwnSlots, PrePrepareRun
  <2>2. run'[r].slot = seq /\ run'[r].pc = "prepares" /\ run'[r].tx = run[r].tx
        /\ \A q \in Run \ {r} : run'[q] = run[q]
    BY <1>2, <1>a, <2>1 DEF PrePrepareRun, TypeOK, RunRec
  <2>3. reqSeq'[run[r].tx] = seq /\ \A t \in Tx : t # run[r].tx => reqSeq'[t] = reqSeq[t]
    BY <1>2, <1>a, <2>1 DEF PrePrepareRun, TypeOK
  <2>4. \A q \in Run : run[q].slot # seq
    <3>1. \A q \in Run : run[q].slot # 0 => run[q].slot < seq
      BY DEF SlotInv, SlotsAssigned
    <3>2. seq \in Nat /\ seq # 0
      BY <2>1 DEF Slot
    <3> QED
      BY <3>1, <3>2
  <2>5. \A q \in Run : run'[q].pc # "none" => attempts'[run'[q].tx] # 0
    BY <1>2, <1>d, <2>2 DEF PrePrepareRun
  <2>6. \A q \in Run : run'[q].pc = "locks" => run'[q].slot = 0
    BY <2>2 DEF OwnSlots
  <2>7. \A p, q \in Run : run'[p].slot = run'[q].slot /\ run'[q].slot # 0 => p = q
    BY <2>2, <2>4 DEF OwnSlots
  <2>8. attempts'[run[r].tx] # 0
    BY <1>2, <1>b, <2>1 DEF OwnSlots, PrePrepareRun
  <2>9. \A t \in Tx : reqSeq'[t] # 0 => attempts'[t] # 0
    BY <1>b, <2>3, <2>8 DEF OwnSlots
  <2> QED
    BY <2>5, <2>6, <2>7, <2>9 DEF OwnSlots
<1>3. ASSUME NEW r \in Run, PCPrepareReply(r) \/ PCCommit(r) \/ WaitForPCCommit(r) PROVE OwnSlots'
  <2>1. run[r].pc # "none" /\ run[r].tx \in Tx /\ attempts'[run[r].tx] # 0
    BY <1>3, <1>b, <1>c DEF PCPrepareReply, PCCommit, WaitForPCCommit, OwnSlots
  <2>2. CASE \E q \in Run : Starts(q, run[r].tx) /\ run'[q].slot = 0
    BY <1>b, <2>1, <2>2, StartsOwn
  <2>3. CASE Quiet /\ run' = Moved(r, "end")
    <3>1. \A q \in Run : run'[q].slot = run[q].slot /\ run'[q].tx = run[q].tx
                         /\ (run'[q].pc = "none" <=> run[q].pc = "none")
      BY <2>3 DEF Quiet
    <3>2. \A q \in Run : run'[q].pc = "locks" => run[q].pc = "locks"
      BY <1>a, <2>3, MovedRun DEF RunPc
    <3>3. reqSeq' = reqSeq
      BY <2>3 DEF Quiet
    <3>4. \A q \in Run : run'[q].pc # "none" => attempts'[run'[q].tx] # 0
      BY <1>d, <3>1
    <3> QED
      BY <1>b, <3>1, <3>2, <3>3, <3>4 DEF OwnSlots
  <2> QED
    BY <1>3, <2>2, <2>3, FollowedKinds
<1>4. ASSUME NEW t \in Tx, ExecuteTransaction(t) \/ PCPrepare(t) PROVE OwnSlots'
  <2>1. attempts'[t] # 0 /\ attempts[t] = 0
    BY <1>4, <1>a, AttemptsGrow DEF CalledOnce
  <2>2. reqSeq[t] = 0
    BY <2>1 DEF OwnSlots
  <2>3. CASE \E q \in Run : Starts(q, t) /\ run'[q].slot = 0
    BY <1>b, <2>1, <2>3, StartsOwn
  <2>4. CASE Quiet /\ run' = run
    BY <1>b, <1>c, <2>4 DEF Quiet, OwnSlots
  <2> QED
    BY <1>4, <2>2, <2>3, <2>4, ExecuteTransactionStarts, PCPrepareStarts
<1> QED
  BY <1>1, <1>2, <1>3, <1>4, RestKinds

LEMMA OwnSlotsInvariant == CalledOnce /\ Spec => []OwnSlots
<1>1. Init => OwnSlots
  <2> SUFFICES ASSUME Init PROVE OwnSlots
    OBVIOUS
  <2>1. \A r \in Run : run[r].pc = "none" /\ run[r].slot = 0
    BY DEF Init, NoRun
  <2>2. \A t \in Tx : reqSeq[t] = 0
    BY DEF Init
  <2> QED
    BY <2>1, <2>2 DEF OwnSlots
<1>2. CalledOnce /\ SlotInv /\ OwnSlots /\ [Next]_vars => OwnSlots'
  BY NextOwnSlots
<1>3. SUFFICES ASSUME CalledOnce PROVE Spec => []OwnSlots
  OBVIOUS
<1> QED
  BY <1>1, <1>2, <1>3, SlotInvariant, PTL DEF Spec

\* When clients do not repeat their calls, what the leader takes for prepared was logged
\* by 2F + 1 different servers: collectPrepares counts one vote of each.
THEOREM PreparedByQuorumHolds == CalledOnce /\ Spec => []PreparedByQuorum
<1>1. OwnSlots /\ VoteInv => PreparedByQuorum
  <2> SUFFICES ASSUME OwnSlots, VoteInv, NEW s \in Slot, log[Leader][s].state >= Prepared
               PROVE  Cardinality({m \in Node : log[m][s].tx # NoTx}) > 2 * F
    BY DEF PreparedByQuorum
  <2>1. Alone(s)
    BY DEF OwnSlots, Alone, Slot
  <2> QED
    BY <2>1 DEF VoteInv, Backed, Quorate
<1> QED
  BY <1>1, OwnSlotsInvariant, VoteInvariant, PTL

\* What any server has decided then was logged by 2F + 1 different servers too.
THEOREM DecidedByQuorumHolds == CalledOnce /\ Spec => []DecidedByQuorum
<1>1. OwnSlots /\ VoteInv => DecidedByQuorum
  <2> SUFFICES ASSUME OwnSlots, VoteInv, NEW n \in Node, NEW s \in Slot, store[n][s].tx # NoTx
               PROVE  Cardinality({m \in Node : log[m][s].tx # NoTx}) > 2 * F
    BY DEF DecidedByQuorum
  <2>1. Alone(s)
    BY DEF OwnSlots, Alone, Slot
  <2> QED
    BY <2>1 DEF VoteInv, Backed, Quorate
<1> QED
  BY <1>1, OwnSlotsInvariant, VoteInvariant, PTL

\* Servers that decided the same slot decided the same status, prepare, commit or
\* abort, although the votes are about the request alone.
THEOREM StatusAgreementHolds == CalledOnce /\ Spec => []StatusAgreement
<1>1. OwnSlots /\ VoteInv => StatusAgreement
  <2> SUFFICES ASSUME OwnSlots, VoteInv, NEW n \in Node, NEW m \in Node, NEW s \in Slot,
                      store[n][s].tx # NoTx, store[m][s].tx # NoTx
               PROVE  store[n][s] = store[m][s]
    BY DEF StatusAgreement
  <2>1. Alone(s)
    BY DEF OwnSlots, Alone, Slot
  <2>2. store[n][s].status = store[m][s].status
    BY <2>1 DEF VoteInv, Labelled
  <2>3. store[n][s].tx = store[m][s].tx
    BY DEF VoteInv, LogInv, SlotInv, LeaderDecides
  <2>4. store[n][s] \in DBUnit /\ store[m][s] \in DBUnit
    BY DEF VoteInv, LogInv, SlotInv, TypeOK
  <2> QED
    BY <2>2, <2>3, <2>4 DEF DBUnit
<1> QED
  BY <1>1, OwnSlotsInvariant, VoteInvariant, PTL

\* A slot that was run once is stored once and for all, in every cluster.
LEMMA StoredIsFinal ==
    ASSUME VoteInv, [Next]_vars, NEW n \in Node, NEW s \in Slot, Alone(s), store[n][s].tx # NoTx
    PROVE  store'[n][s] = store[n][s]
<1>0. SlotInv
  BY DEF VoteInv, LogInv
<1>1. /\ store[n][s].tx = log[n][s].tx
      /\ store[n][s].status = log[Leader][s].status
  BY DEF VoteInv, LogInv, Reported, Labelled
<1>2. store[n][s] \in DBUnit
  BY <1>0 DEF SlotInv, TypeOK
<1>3. store[n][s] = [tx |-> log[n][s].tx, status |-> log[Leader][s].status]
  BY <1>1, <1>2 DEF DBUnit
<1>4. ASSUME NEW q \in Run, run[q].pc = "commits", run[q].slot = s
      PROVE  run[q].status = log[Leader][s].status
  BY <1>4 DEF VoteInv, Labelled
<1>5. CASE \E q \in Run : run[q].pc = "commits" /\ run[q].slot = s
                          /\ store'[n][s] = [tx |-> log[n][s].tx, status |-> run[q].status]
  BY <1>3, <1>4, <1>5
<1> QED
  BY <1>0, <1>3, <1>5, StoreKinds

\* When clients do not repeat their calls, what an executor has passed is never
\* rewritten, in clusters with cross-shard requests too.
THEOREM ExecutedIsFinalOnce == CalledOnce /\ Spec => ExecutedIsFinal
<1>1. OwnSlots /\ VoteInv /\ [Next]_vars => [\A n \in Node, s \in Slot : s < exec[n] => store'[n][s] = store[n][s]]_vars
  <2> SUFFICES ASSUME OwnSlots, VoteInv, [Next]_vars, NEW n \in Node, NEW s \in Slot, s < exec[n]
               PROVE  store'[n][s] = store[n][s]
    OBVIOUS
  <2>1. Alone(s) /\ store[n][s].tx # NoTx
    BY DEF OwnSlots, Alone, Slot, VoteInv, LogInv, Reported
  <2> QED
    BY <2>1, StoredIsFinal
<1> QED
  BY <1>1, OwnSlotsInvariant, VoteInvariant, PTL DEF Spec, ExecutedIsFinal

-----------------------------------------------------------------------------
(* The runs of a request that is called once, and what servers store of     *)
(* them.                                                                   *)

\* What runPBFT was called for does not change, and a call that has returned stays so.
Over == {"ok", "failed", "end"}
RunsGoOn ==
    \A q \in Run : run[q].pc # "none" =>
        /\ run'[q].tx = run[q].tx /\ run'[q].status = run[q].status /\ run'[q].pc # "none"
        /\ run[q].pc \in Over => run'[q].pc \in Over
        /\ run[q].pc = "end" => run'[q].pc = "end" /\ run'[q].slot = run[q].slot
        /\ run'[q].slot = run[q].slot \/ (run[q].slot = 0 /\ run'[q].slot = seq)

NoNewRun == \A q \in Run : run'[q].pc # "none" => run[q].pc # "none"

\* Run q starts: the first of its request, or the one that follows run r of it.
FirstRun(q, t) ==
    run'[q].status \in {"", "P"} /\ (ExecuteTransaction(t) \/ PCPrepare(t))
NextRun(q, t) ==
    /\ run'[q].status \in {"C", "A"}
    /\ \E r \in Run :
         /\ r # q /\ run[r].tx = t /\ run[r].pc \in {"ok", "failed"} /\ run'[r].pc = "end"
         /\ run[r].status = "P" \/ (run[r].status = "C" /\ run'[q].status = "C")
NewRunFor(q, t) ==
    /\ run[q].pc = "none" /\ run'[q].pc = "locks" /\ run'[q].tx = t
    /\ \A r \in Run : r # q => (run'[r].pc # "none" => run[r].pc # "none")
    /\ FirstRun(q, t) \/ NextRun(q, t)

LEMMA NewRunIs ==
    ASSUME TypeOK, NEW q \in Run, NEW t, NEW st, NEW s, run' = [run EXCEPT ![q] = NewRun(t, st, s)]
    PROVE  /\ run'[q].tx = t /\ run'[q].pc = "locks" /\ run'[q].status = st
           /\ \A r \in Run : r # q => run'[r] = run[r]
<1>1. run'[q] = NewRun(t, st, s)
  BY DEF TypeOK
<1> QED
  BY <1>1, NewRunFields, NewRunVotes DEF TypeOK

LEMMA CallStarts ==
    ASSUME SlotInv, NEW t \in Tx, ExecuteTransaction(t) \/ PCPrepare(t)
    PROVE  RunsGoOn /\ (NoNewRun \/ \E q \in Run : NewRunFor(q, t))
<1>a. TypeOK /\ \A r \in Run : run[r] \in RunRec
  BY DEF SlotInv, TypeOK
<1>1. CASE run' = run
  BY <1>1 DEF Over, RunsGoOn, NoNewRun
<1>2. ASSUME NEW q \in Run, NEW st \in {"", "P"}, ExecuteTransaction(t),
             FreshRun(q), run' = [run EXCEPT ![q] = NewRun(t, st, reqSeq[t])]
      PROVE  RunsGoOn /\ \E u \in Run : NewRunFor(u, t)
  <2>1. /\ run'[q].tx = t /\ run'[q].pc = "locks" /\ run'[q].status = st
        /\ \A r \in Run : r # q => run'[r] = run[r]
    BY <1>2, <1>a, NewRunIs
  <2>2. run[q].pc = "none"
    BY <1>2 DEF FreshRun
  <2>3. RunsGoOn
    BY <2>1, <2>2 DEF Over, RunsGoOn
  <2>4. NewRunFor(q, t)
    BY <1>2, <2>1, <2>2 DEF NewRunFor, FirstRun
  <2> QED
    BY <2>3, <2>4
<1>3. CASE PCPrepare(t)
  <2>1. PICK q \in Run :
           /\ FreshRun(q)
           /\ run' = [u \in Run |->
                        IF u = q THEN NewRun(t, "P", 0)
                        ELSE IF run[u].tx = t /\ run[u].pc = "ok" THEN [run[u] EXCEPT !.pc = "end"]
                        ELSE run[u]]
    BY <1>3 DEF PCPrepare
  <2>2. run'[q].tx = t /\ run'[q].pc = "locks" /\ run'[q].status = "P" /\ run[q].pc = "none"
    BY <2>1, NewRunFields, NewRunVotes DEF FreshRun
  <2>3. \A u \in Run : u # q =>
           /\ run'[u].tx = run[u].tx /\ run'[u].status = run[u].status /\ run'[u].slot = run[u].slot
           /\ run'[u].pc = run[u].pc \/ (run'[u].pc = "end" /\ run[u].pc = "ok")
    BY <1>a, <2>1 DEF RunRec
  <2>4. RunsGoOn
    BY <2>2, <2>3 DEF Over, RunsGoOn
  <2>5. NewRunFor(q, t)
    BY <1>3, <2>2, <2>3 DEF NewRunFor, FirstRun
  <2> QED
    BY <2>4, <2>5
<1>4. ASSUME ExecuteTransaction(t), run' # run
      PROVE  \E q \in Run, st \in {"", "P"} : FreshRun(q) /\ run' = [run EXCEPT ![q] = NewRun(t, st, reqSeq[t])]
  <2> DEFINE st == IF Body[t].role = "intra" THEN "" ELSE "P"
  <2>1. \E q \in Run : FreshRun(q) /\ run' = [run EXCEPT ![q] = NewRun(t, st, reqSeq[t])]
    BY <1>4 DEF ExecuteTransaction
  <2>2. st \in {"", "P"}
    OBVIOUS
  <2> HIDE DEF st
  <2> QED
    BY <2>1, <2>2
<1> QED
  BY <1>1, <1>2, <1>3, <1>4

LEMMA FollowStarts ==
    ASSUME SlotInv, NEW r \in Run, PCPrepareReply(r) \/ PCCommit(r) \/ WaitForPCCommit(r)
    PROVE  RunsGoOn /\ (NoNewRun \/ \E q \in Run, t \in Tx : NewRunFor(q, t))
<1>a. TypeOK /\ run[r] \in RunRec /\ "end" \in RunPc
  BY DEF SlotInv, TypeOK, RunPc
<1>b. run[r].pc \in {"ok", "failed"}
  BY DEF PCPrepareReply, PCCommit, WaitForPCCommit
<1>c. run[r].tx \in Tx
  BY <1>b DEF SlotInv, RunsWellFormed
<1>d. \A u \in Run : /\ Moved(r, "end")[u].tx = run[u].tx /\ Moved(r, "end")[u].status = run[u].status
                     /\ Moved(r, "end")[u].slot = run[u].slot
                     /\ Moved(r, "end")[u].pc = IF u = r THEN "end" ELSE run[u].pc
  BY <1>a DEF Moved, TypeOK, RunRec
<1>1. CASE run' = Moved(r, "end")
  BY <1>b, <1>d, <1>1 DEF Over, RunsGoOn, NoNewRun
<1>2. ASSUME NEW q \in Run, NEW st \in {"C", "A"}, FreshRun(q), run' = Followed(r, q, st),
             run[r].status = "P" \/ (run[r].status = "C" /\ st = "C")
      PROVE  RunsGoOn /\ NewRunFor(q, run[r].tx)
  <2>1. run' = [Moved(r, "end") EXCEPT ![q] = NewRun(run[r].tx, st, 0)] /\ run[q].pc = "none" /\ q # r
    BY <1>2, <1>b DEF Followed, FreshRun
  <2>2. run'[q] = NewRun(run[r].tx, st, 0) /\ \A u \in Run \ {q} : run'[u] = Moved(r, "end")[u]
    BY <1>a, <2>1 DEF Moved, TypeOK
  <2>3. run'[q].tx = run[r].tx /\ run'[q].pc = "locks" /\ run'[q].status = st
    BY <2>2, NewRunFields, NewRunVotes
  <2>4. RunsGoOn
    BY <1>b, <1>d, <2>1, <2>2 DEF Over, RunsGoOn
  <2>5. run'[r].pc = "end" /\ \A u \in Run : u # q => (run'[u].pc # "none" => run[u].pc # "none")
    BY <1>b, <1>d, <2>1, <2>2
  <2>6. NextRun(q, run[r].tx)
    BY <1>2, <1>b, <2>1, <2>3, <2>5 DEF NextRun
  <2>7. NewRunFor(q, run[r].tx)
    BY <2>1, <2>3, <2>5, <2>6 DEF NewRunFor
  <2> QED
    BY <2>4, <2>7
<1>3. CASE PCPrepareReply(r)
  BY <1>2, <1>3, <1>c DEF PCPrepareReply
<1>4. CASE PCCommit(r)
  BY <1>2, <1>4, <1>c DEF PCCommit
<1>5. CASE WaitForPCCommit(r)
  BY <1>1, <1>2, <1>5, <1>c DEF WaitForPCCommit
<1> QED
  BY <1>3, <1>4, <1>5

LEMMA NextRuns ==
    ASSUME SlotInv, [Next]_vars
    PROVE  RunsGoOn /\ (NoNewRun \/ \E q \in Run, t \in Tx : NewRunFor(q, t))
<1>a. TypeOK /\ \A r \in Run : run[r] \in RunRec
  BY DEF SlotInv, TypeOK
<1>b. run' = run => RunsGoOn /\ NoNewRun
  BY DEF Over, RunsGoOn, NoNewRun
<1>1. ASSUME NEW r \in Run, BalanceTooLow(r) \/ FinishPrepares(r) \/ FinishCommits(r) \/ CommitRemote(r)
      PROVE  RunsGoOn /\ NoNewRun
  <2>1. PICK pc \in RunPc : run' = Moved(r, pc) /\ pc # "none" /\ run[r].pc \notin {"none", "end"}
                               /\ (run[r].pc \in Over => pc = "end")
    BY <1>1 DEF Over, BalanceTooLow, FinishPrepares, FinishCommits, CommitRemote, RunPc
  <2>2. \A u \in Run : /\ run'[u].tx = run[u].tx /\ run'[u].status = run[u].status
                       /\ run'[u].slot = run[u].slot
                       /\ run'[u].pc = IF u = r THEN pc ELSE run[u].pc
    BY <1>a, <2>1 DEF Moved, TypeOK, RunRec
  <2> QED
    BY <2>1, <2>2 DEF Over, RunsGoOn, NoNewRun
<1>2. ASSUME NEW r \in Run, PrePrepareRun(r) PROVE RunsGoOn /\ NoNewRun
  <2> DEFINE s == IF run[r].slot = 0 THEN seq ELSE run[r].slot
  <2>1. run' = [run EXCEPT ![r] = [run[r] EXCEPT !.slot = s, !.pc = "prepares"]] /\ run[r].pc = "locks"
    BY <1>2 DEF PrePrepareRun
  <2>2. \A u \in Run : /\ run'[u].tx = run[u].tx /\ run'[u].status = run[u].status
                       /\ run'[u].slot = IF u = r THEN s ELSE run[u].slot
                       /\ run'[u].pc = IF u = r THEN "prepares" ELSE run[u].pc
    <3> HIDE DEF s
    <3> QED
      BY <1>a, <2>1 DEF TypeOK, RunRec
  <2> QED
    BY <2>1, <2>2 DEF Over, RunsGoOn, NoNewRun
<1>3. ASSUME NEW n \in Node, NEW r \in Run, NEW q \in Run, CollectPrepare(n, r, q) \/ CollectCommit(n, r, q)
      PROVE  RunsGoOn /\ NoNewRun
  <2>1. \A u \in Run : /\ run'[u].tx = run[u].tx /\ run'[u].status = run[u].status
                       /\ run'[u].slot = run[u].slot /\ run'[u].pc = run[u].pc
    <3>1. CASE CollectPrepare(n, r, q)
      BY <1>a, <3>1 DEF CollectPrepare, TypeOK, RunRec
    <3>2. CASE CollectCommit(n, r, q)
      BY <1>a, <3>2 DEF CollectCommit, TypeOK, RunRec
    <3> QED
      BY <1>3, <3>1, <3>2
  <2> QED
    BY <2>1 DEF Over, RunsGoOn, NoNewRun
<1>4. ASSUME NEW n \in Node, ServerStep(n),
             ~ \E r \in Run, q \in Run : CollectPrepare(n, r, q) \/ CollectCommit(n, r, q)
      PROVE  RunsGoOn /\ NoNewRun
  <2>1. run' = run
    BY <1>4 DEF ServerStep, Execute, PrePrepare, PrePrepareLocked, Prepare, PrepareDone,
                PrepareTimeout, SendPrepare, SendCommit, Commit, CommitDone, CommitTimeout
  <2> QED
    BY <1>b, <2>1
<1>5. CASE OperatorStep \/ UNCHANGED vars
  BY <1>b, <1>5 DEF OperatorStep, SetStatus, SetByzantine, vars
<1> QED
  BY <1>1, <1>2, <1>3, <1>4, <1>5, CallStarts, FollowStarts DEF Next, LeaderStep, ClientStep

\* The runs of a request: one first run; after it, when it is over, any number of commit
\* runs or one abort run, in later slots.
Started(r) == run[r].pc # "none"
Opening(r) == Started(r) /\ run[r].status \in {"", "P"}
Closing(r) == Started(r) /\ run[r].status \in {"C", "A"}
OneFirst == \A q, r \in Run : Opening(q) /\ Opening(r) /\ run[q].tx = run[r].tx => q = r
Follows ==
    \A q \in Run : Closing(q) =>
        \E r \in Run : /\ run[r].pc = "end" /\ run[r].status = "P" /\ run[r].tx = run[q].tx
                       /\ run[q].slot # 0 => run[r].slot < run[q].slot
OneAbort ==
    \A q, r \in Run : Closing(q) /\ Closing(r) /\ run[q].tx = run[r].tx /\ run[q].status = "A" => q = r
Phases == OneFirst /\ Follows /\ OneAbort

\* Every slot that was given out is the slot of a run.
Slotted == \A s \in Slot : s < seq => \E r \in Run : run[r].slot = s

LEMMA NextSlotted ==
    ASSUME SlotInv, Traced, Slotted, [Next]_vars
    PROVE  Slotted'
<1>a. Keeps /\ seq \in Nat /\ 0 \notin Slot
  BY NextKeeps DEF SlotInv, TypeOK, Slot
<1>1. ASSUME seq' = seq PROVE Slotted'
  BY <1>a, <1>1 DEF Slotted, Keeps
<1>2. ASSUME NEW r \in Run, PrePrepareRun(r), seq' # seq PROVE Slotted'
  <2>1. seq' = seq + 1 /\ run[r].slot = 0
    BY <1>2 DEF PrePrepareRun, NextSeq
  <2>2. run'[r].slot = seq
    BY <1>2, <2>1 DEF PrePrepareRun, SlotInv, TypeOK, RunRec
  <2>3. \A s \in Slot : s < seq' => s = seq \/ s < seq
    BY <1>a, <2>1 DEF Slot
  <2>4. \A s \in Slot : s < seq => \E q \in Run : run'[q].slot = s
    BY <1>a DEF Slotted, Keeps
  <2> QED
    BY <2>2, <2>3, <2>4 DEF Slotted
<1> QED
  BY <1>1, <1>2, StepKinds DEF Quiet, Starts, PrePrepareLocked

LEMMA NextPhases ==
    ASSUME CalledOnce, SlotInv, OwnSlots, OwnSlots', Phases, [Next]_vars
    PROVE  Phases'
<1>a. TypeOK /\ MaxAttempts \in Nat /\ attempts \in [Tx -> 0..MaxAttempts]
  BY ClusterAssumption DEF SlotInv, TypeOK
<1>b. RunsGoOn /\ (NoNewRun \/ \E q \in Run, t \in Tx : NewRunFor(q, t))
  BY NextRuns
<1>c. \A r \in Run : run[r].slot \in Nat /\ (run[r].slot # 0 => run[r].slot < seq)
  BY <1>a DEF SlotInv, SlotsAssigned, TypeOK, RunRec
<1>d. seq \in Nat /\ seq # 0
  BY <1>a DEF TypeOK
\* A run that was there before is what it was.
<1>e. ASSUME NEW r \in Run, Started(r)
      PROVE  /\ run'[r].tx = run[r].tx /\ run'[r].status = run[r].status
             /\ Opening(r)' => Opening(r)
             /\ Closing(r)' => Closing(r)
  BY <1>b, <1>e DEF RunsGoOn, Started, Opening, Closing
\* What precedes a run goes on preceding it.
<1>1. ASSUME NEW q \in Run, Closing(q)
      PROVE  \E r \in Run : /\ run'[r].pc = "end" /\ run'[r].status = "P" /\ run'[r].tx = run'[q].tx
                            /\ run'[q].slot # 0 => run'[r].slot < run'[q].slot
  <2>1. PICK r \in Run : /\ run[r].pc = "end" /\ run[r].status = "P" /\ run[r].tx = run[q].tx
                         /\ run[q].slot # 0 => run[r].slot < run[q].slot
    BY <1>1 DEF Phases, Follows
  <2>2. /\ run'[r].pc = "end" /\ run'[r].status = "P" /\ run'[r].tx = run[r].tx
        /\ run'[r].slot = run[r].slot /\ run'[q].tx = run[q].tx
        /\ run'[q].slot = run[q].slot \/ (run[q].slot = 0 /\ run'[q].slot = seq)
    BY <1>1, <1>b, <2>1 DEF RunsGoOn, Started, Closing
  <2>3. run[r].slot < seq
    BY <1>c, <1>d
  <2> QED
    BY <1>c, <2>1, <2>2, <2>3
<1>2. CASE NoNewRun
  <2>1. \A q \in Run : Started(q)' => Started(q)
    BY <1>2 DEF NoNewRun, Started
  <2>2. OneFirst'
    <3> SUFFICES ASSUME NEW q \in Run, NEW r \in Run, Opening(q)', Opening(r)', run'[q].tx = run'[r].tx
                 PROVE  q = r
      BY DEF OneFirst
    <3>1. Started(q) /\ Started(r)
      BY <2>1 DEF Opening
    <3> QED
      BY <1>e, <3>1 DEF Phases, OneFirst
  <2>3. OneAbort'
    <3> SUFFICES ASSUME NEW q \in Run, NEW r \in Run, Closing(q)', Closing(r)', run'[q].tx = run'[r].tx,
                        run'[q].status = "A"
                 PROVE  q = r
      BY DEF OneAbort
    <3>1. Started(q) /\ Started(r)
      BY <2>1 DEF Closing
    <3> QED
      BY <1>e, <3>1 DEF Phases, OneAbort
  <2>4. \A q \in Run : Closing(q)' => Closing(q)
    BY <1>e, <2>1 DEF Closing
  <2>5. Follows'
    BY <1>1, <2>4 DEF Follows
  <2> QED
    BY <2>2, <2>3, <2>5 DEF Phases
<1>3. ASSUME NEW q \in Run, NEW t \in Tx, NewRunFor(q, t) PROVE Phases'
  <2>1. \A r \in Run : r # q /\ Started(r)' => Started(r)
    BY <1>3 DEF NewRunFor, Started
  <2>2. run'[q].tx = t /\ run'[q].slot = 0
    BY <1>3 DEF NewRunFor, OwnSlots
  <2>3. \A r \in Run : r # q /\ Closing(r)' => Closing(r)
    BY <1>e, <2>1 DEF Closing
  <2>4. CASE FirstRun(q, t)
    <3>1. attempts[t] = 0
      <4>1. attempts[t] < MaxAttempts
        BY <1>a, <2>4, AttemptsGrow DEF FirstRun
      <4>2. attempts[t] \in Nat /\ MaxAttempts <= 1
        BY <1>a DEF CalledOnce
      <4> QED
        BY <1>a, <4>1, <4>2
    <3>2. \A r \in Run : Started(r) => run[r].tx # t
      BY <3>1 DEF OwnSlots, Started
    <3>3. \A r \in Run : r # q /\ Started(r)' => run'[r].tx # t
      BY <1>e, <2>1, <3>2
    <3>4. ~ Closing(q)'
      BY <2>4 DEF FirstRun, Closing
    <3>5. OneFirst'
      <4> SUFFICES ASSUME NEW u \in Run, NEW r \in Run, Opening(u)', Opening(r)', run'[u].tx = run'[r].tx,
                          u # r
                   PROVE  FALSE
        BY DEF OneFirst
      <4>1. u # q /\ r # q
        BY <2>2, <3>3 DEF Opening
      <4>2. Started(u) /\ Started(r)
        BY <2>1, <4>1 DEF Opening
      <4> QED
        BY <1>e, <4>2 DEF Phases, OneFirst
    <3>6. OneAbort'
      <4> SUFFICES ASSUME NEW u \in Run, NEW r \in Run, Closing(u)', Closing(r)', run'[u].tx = run'[r].tx,
                          run'[u].status = "A"
                   PROVE  u = r
        BY DEF OneAbort
      <4>1. Started(u) /\ Started(r)
        BY <2>1, <3>4 DEF Closing
      <4> QED
        BY <1>e, <4>1 DEF Phases, OneAbort
    <3>7. \A r \in Run : Closing(r)' => Closing(r)
      BY <2>3, <3>4
    <3>8. Follows'
      BY <1>1, <3>7 DEF Follows
    <3> QED
      BY <3>5, <3>6, <3>8 DEF Phases
  <2>5. CASE NextRun(q, t)
    <3>1. Closing(q)' /\ ~ Opening(q)'
      BY <1>3, <2>5 DEF NextRun, NewRunFor, Opening, Closing, Started
    <3>2. PICK r \in Run : /\ r # q /\ run[r].tx = t /\ run[r].pc \in {"ok", "failed"} /\ run'[r].pc = "end"
                           /\ run[r].status = "P" \/ (run[r].status = "C" /\ run'[q].status = "C")
      BY <2>5 DEF NextRun
    <3>3. Started(r) /\ run'[r].tx = t /\ run'[r].status = run[r].status
      BY <1>b, <3>2 DEF Started, RunsGoOn
    <3>4. ASSUME NEW u \in Run, u # q, Closing(u)', run'[u].tx = t
          PROVE  run[r].status = "C" /\ run'[u].status = "C"
      <4>1. Closing(u) /\ run[u].tx = t /\ run'[u].status = run[u].status
        BY <1>e, <2>3, <3>4 DEF Closing
      <4>2. run[r].status = "C"
        <5> SUFFICES ASSUME run[r].status = "P" PROVE FALSE
          BY <3>2
        <5>1. PICK v \in Run : run[v].pc = "end" /\ run[v].status = "P" /\ run[v].tx = t
          BY <4>1 DEF Phases, Follows
        <5>2. Opening(v) /\ Opening(r)
          BY <3>3, <5>1 DEF Opening, Started
        <5>3. v = r
          BY <3>2, <5>1, <5>2 DEF Phases, OneFirst
        <5> QED
          BY <3>2, <5>1, <5>3
      <4>3. Closing(r)
        BY <3>3, <4>2 DEF Closing
      <4>4. run[u].status # "A"
        BY <3>2, <4>1, <4>2, <4>3 DEF Phases, OneAbort
      <4> QED
        BY <4>1, <4>2, <4>4 DEF Closing
    <3>5. OneFirst'
      <4> SUFFICES ASSUME NEW u \in Run, NEW v \in Run, Opening(u)', Opening(v)', run'[u].tx = run'[v].tx
                   PROVE  u = v
        BY DEF OneFirst
      <4>1. Started(u) /\ Started(v)
        BY <2>1, <3>1 DEF Opening
      <4> QED
        BY <1>e, <4>1 DEF Phases, OneFirst
    <3>6. OneAbort'
      <4> SUFFICES ASSUME NEW u \in Run, NEW v \in Run, Closing(u)', Closing(v)', run'[u].tx = run'[v].tx,
                          run'[u].status = "A", u # v
                   PROVE  FALSE
        BY DEF OneAbort
      <4>1. CASE u = q
        BY <2>2, <3>2, <3>4, <4>1
      <4>2. CASE v = q
        BY <2>2, <3>4, <4>2
      <4>3. CASE u # q /\ v # q
        <5>1. Closing(u) /\ Closing(v)
          BY <2>3, <4>3
        <5> QED
          BY <1>e, <5>1 DEF Phases, OneAbort, Closing
      <4> QED
        BY <4>1, <4>2, <4>3
    <3>7. \E u \in Run : run'[u].pc = "end" /\ run'[u].status = "P" /\ run'[u].tx = t
      <4>1. CASE run[r].status = "P"
        BY <3>2, <3>3, <4>1
      <4>2. CASE run[r].status = "C"
        <5>1. Closing(r)
          BY <3>3, <4>2 DEF Closing
        <5> QED
          BY <1>1, <3>3, <5>1
      <4> QED
        BY <3>2, <4>1, <4>2
    <3>8. Follows'
      <4> SUFFICES ASSUME NEW u \in Run, Closing(u)'
                   PROVE  \E v \in Run : /\ run'[v].pc = "end" /\ run'[v].status = "P" /\ run'[v].tx = run'[u].tx
                                         /\ run'[u].slot # 0 => run'[v].slot < run'[u].slot
        BY DEF Follows
      <4>1. CASE u = q
        BY <2>2, <3>7, <4>1
      <4>2. CASE u # q
        BY <1>1, <2>3, <4>2
      <4> QED
        BY <4>1, <4>2
    <3> QED
      BY <3>5, <3>6, <3>8 DEF Phases
  <2> QED
    BY <1>3, <2>4, <2>5 DEF NewRunFor
<1> QED
  BY <1>b, <1>2, <1>3

\* Server n is through with run r.
Done(n, r) == IF n = Leader THEN run[r].pc \in Over ELSE job[n][r] = "end"

\* What is stored for a run was stored by a server that is through with it.
Finished ==
    \A n \in Node, r \in Run :
        run[r].slot \in Slot /\ store[n][run[r].slot].tx # NoTx => Done(n, r)

\* Server n stores the outcome of run r, and writes its wal.
Saves(n, r) ==
    /\ ~Done(n, r) /\ Done(n, r)'
    /\ Started(r) /\ run[r].slot \in Slot
    /\ store' = [store EXCEPT ![n][run[r].slot] = [tx |-> run[r].tx, status |-> run[r].status]]
    /\ wal' = IF run[r].status = "P" THEN [wal EXCEPT ![n][run[r].tx] = @ + 1] ELSE wal
    /\ exec' = exec /\ bal' = bal

\* A goroutine that is through with a run does nothing more for it.
LEMMA JobsEnd ==
    ASSUME SlotInv, OwnSlots, [Next]_vars, NEW n \in Node, NEW r \in Run, n # Leader, job[n][r] = "end"
    PROVE  job'[n][r] = "end"
<1>a. job \in [Node -> [Run -> JobPc]] /\ Leader \in Node
  BY ClusterAssumption DEF SlotInv, TypeOK
<1>b. ASSUME NEW m \in Node, NEW q \in Run, NEW pc, job' = [job EXCEPT ![m][q] = pc],
             m = Leader \/ job[m][q] # "end"
      PROVE  job'[n][r] = "end"
  BY <1>a, <1>b
<1>1. CASE job' = job
  BY <1>1
<1>2. ASSUME NEW q \in Run, PrePrepareRun(q) PROVE job'[n][r] = "end"
  <2>1. job[n][q] = "none"
    BY <1>2 DEF PrePrepareRun, OwnSlots, SlotInv, RunsWellFormed, Slot
  <2>2. job'[n] = [job[n] EXCEPT ![q] = "sent"]
    BY <1>2 DEF PrePrepareRun
  <2> QED
    BY <1>a, <2>1, <2>2
<1>3. ASSUME NEW q \in Run, FinishPrepares(q) PROVE job'[n][r] = "end"
  <2>1. job' = [job EXCEPT ![Leader][q] = "commSent"] \/ job' = job
    BY <1>3 DEF FinishPrepares
  <2> QED
    BY <1>a, <1>1, <1>b, <2>1
<1>4. ASSUME NEW m \in Node, NEW q \in Run,
             PrePrepare(m, q) \/ PrePrepareLocked(m, q) \/ Prepare(m, q) \/ PrepareDone(m, q)
               \/ PrepareTimeout(m, q)
               \/ SendPrepare(m, q) \/ SendCommit(m, q) \/ Commit(m, q) \/ CommitDone(m, q) \/ CommitTimeout(m, q)
      PROVE  job'[n][r] = "end"
  <2>1. job[m][q] # "end"
    BY <1>4 DEF PrePrepare, PrePrepareLocked, Prepare, PrepareDone, PrepareTimeout, SendPrepare,
                SendCommit, Commit, CommitDone, CommitTimeout
  <2>2. \E pc : job' = [job EXCEPT ![m][q] = pc]
    BY <1>4 DEF PrePrepare, PrePrepareLocked, Prepare, PrepareDone, PrepareTimeout, SendPrepare,
                SendCommit, Commit, CommitDone, CommitTimeout
  <2> QED
    BY <1>b, <2>1, <2>2
<1>5. ASSUME NEW m \in Node, NEW q \in Run, NEW u \in Run, CollectPrepare(m, q, u) \/ CollectCommit(m, q, u)
      PROVE  job'[n][r] = "end"
  <2>1. job[m][q] # "end"
    BY <1>5 DEF CollectPrepare, CollectCommit
  <2>2. \E pc : job' = [job EXCEPT ![m][q] = pc]
    BY <1>5 DEF CollectPrepare, CollectCommit
  <2> QED
    BY <1>b, <2>1, <2>2
<1>6. ASSUME NEW q \in Run, BalanceTooLow(q) \/ FinishCommits(q) \/ PCPrepareReply(q)
                            \/ CommitRemote(q) \/ PCCommit(q) \/ WaitForPCCommit(q)
      PROVE  job'[n][r] = "end"
  <2>1. job' = job
    BY <1>6 DEF BalanceTooLow, FinishCommits, PCPrepareReply, CommitRemote, PCCommit, WaitForPCCommit
  <2> QED
    BY <1>1, <2>1
<1>7. ASSUME NEW m \in Node, Execute(m) PROVE job'[n][r] = "end"
  BY <1>7, <1>1 DEF Execute
<1>8. CASE ClientStep \/ OperatorStep \/ UNCHANGED vars
  <2>1. job' = job
    BY <1>8 DEF ClientStep, ExecuteTransaction, PCPrepare, OperatorStep, SetStatus, SetByzantine, vars
  <2> QED
    BY <1>1, <2>1
<1> QED
  BY <1>2, <1>3, <1>4, <1>5, <1>6, <1>7, <1>8 DEF Next, LeaderStep, ServerStep

LEMMA DoneStays ==
    ASSUME SlotInv, OwnSlots, [Next]_vars, NEW n \in Node, NEW r \in Run, Done(n, r)
    PROVE  Done(n, r)'
<1>1. CASE n = Leader
  <2>1. run[r].pc \in Over
    BY <1>1 DEF Done
  <2>2. run[r].pc # "none"
    BY <2>1 DEF Over
  <2>3. run'[r].pc \in Over
    BY <2>1, <2>2, NextRuns DEF RunsGoOn
  <2> QED
    BY <1>1, <2>3 DEF Done, Over
<1>2. CASE n # Leader
  BY <1>2, JobsEnd DEF Done
<1> QED
  BY <1>1, <1>2

\* What a save is told of its run.
LEMMA SaveKnows ==
    ASSUME VoteInv, OwnSlots, NEW r \in Run, run[r].slot \in Slot, NEW n \in Node, NEW t, NEW st,
           SaveCommit(n, run[r].slot, t, st), ~byz[n], t = run[r].tx, st = run[r].status,
           log[n][run[r].slot].tx = run[r].tx
    PROVE  /\ store' = [store EXCEPT ![n][run[r].slot] = [tx |-> run[r].tx, status |-> run[r].status]]
           /\ wal' = IF run[r].status = "P" THEN [wal EXCEPT ![n][run[r].tx] = @ + 1] ELSE wal
  BY DEF SaveCommit

\* What a step does to the stores and the wals.
LEMMA NextSaves ==
    ASSUME VoteInv, OwnSlots, [Next]_vars
    PROVE  \/ \E n \in Node, r \in Run : Saves(n, r)
           \/ store' = store /\ (\/ wal' = wal /\ exec' = exec /\ bal' = bal
                                 \/ wal' = wal /\ \E n \in Node : Execute(n)
                                 \/ exec' = exec /\ bal' = bal /\ \E r \in Run : CommitRemote(r))
<1> DEFINE Kind == \/ \E n \in Node, r \in Run : Saves(n, r)
                   \/ store' = store /\ (\/ wal' = wal /\ exec' = exec /\ bal' = bal
                                         \/ wal' = wal /\ \E n \in Node : Execute(n)
                                         \/ exec' = exec /\ bal' = bal /\ \E r \in Run : CommitRemote(r))
<1> SUFFICES Kind
  OBVIOUS
<1>0. /\ store' = store /\ wal' = wal /\ exec' = exec /\ bal' = bal => Kind
      /\ \A n \in Node, r \in Run : Saves(n, r) => Kind
  OBVIOUS
<1>a. SlotInv /\ TypeOK /\ Leader \in Node
  BY ClusterAssumption DEF VoteInv, LogInv, SlotInv
<1>b. \A r \in Run : run[r].slot \in Slot => log[Leader][run[r].slot].status = run[r].status
  BY DEF VoteInv, Labelled, OwnSlots, Alone, Slot
<1>1. ASSUME NEW n \in Node, Execute(n) PROVE Kind
  BY <1>1 DEF Execute
<1>2. ASSUME NEW r \in Run, CommitRemote(r) PROVE Kind
  BY <1>2 DEF CommitRemote
<1> HIDE DEF Kind
<1>3. ASSUME NEW r \in Run, FinishCommits(r) PROVE Kind
  <2>1. CASE SaveCommit(Leader, run[r].slot, run[r].tx, run[r].status) /\ run' = Moved(r, "ok")
    <3>1. run[r].slot \in Slot /\ run[r].pc = "commits" /\ Started(r) /\ exec' = exec /\ bal' = bal
      <4>1. run[r].pc = "commits" /\ exec' = exec /\ bal' = bal
        BY <1>3 DEF FinishCommits
      <4> QED
        BY <1>a, <4>1 DEF SlotInv, RunsWellFormed, Started
    <3>2. ~Done(Leader, r)
      BY <3>1 DEF Done, Over
    <3>3. run'[r].pc = "ok"
      BY <1>a, <2>1 DEF Moved, TypeOK, RunRec
    <3>4. Done(Leader, r)'
      BY <3>3 DEF Done, Over
    <3>5. log[Leader][run[r].slot].tx = run[r].tx
      BY <1>a, <3>1 DEF SlotInv, SlotsAssigned, Slot
    <3>6. CASE ~byz[Leader]
      <4>1. Saves(Leader, r)
        BY <1>a, <2>1, <3>1, <3>2, <3>4, <3>5, <3>6, SaveKnows DEF Saves
      <4> QED
        BY <1>0, <1>a, <4>1
    <3>7. CASE byz[Leader]
      BY <1>0, <2>1, <3>1, <3>7 DEF SaveCommit
    <3> QED
      BY <3>6, <3>7
  <2>2. CASE store' = store /\ wal' = wal
    BY <1>0, <1>3, <2>2 DEF FinishCommits
  <2> QED
    BY <1>3, <2>1, <2>2 DEF FinishCommits
<1>4. ASSUME NEW n \in Node, NEW r \in Run, CommitDone(n, r) PROVE Kind
  <2>1. CASE SaveCommit(n, run[r].slot, run[r].tx, PPStatus(r))
    <3>1. run[r].slot \in Slot /\ job[n][r] = "commWait" /\ Started(r) /\ exec' = exec /\ bal' = bal
      BY <1>4, <1>a, RunFacts DEF SlotInv, RunsWellFormed, CommitDone, Started
    <3>2. n # Leader
      BY <3>1 DEF VoteInv, LeaderJob
    <3>3. job'[n][r] = "end"
      BY <1>4, <1>a DEF CommitDone, TypeOK
    <3>4. ~Done(n, r) /\ Done(n, r)'
      BY <3>1, <3>2, <3>3 DEF Done
    <3>5. log[n][run[r].slot].tx = run[r].tx
      BY <3>1 DEF VoteInv, LogInv, Voted, Early
    <3>6. PPStatus(r) = run[r].status
      BY <1>b, <3>1 DEF PPStatus
    <3>7. CASE ~byz[n]
      <4>1. Saves(n, r)
        BY <2>1, <3>1, <3>4, <3>5, <3>6, <3>7, SaveKnows DEF Saves
      <4> QED
        BY <1>0, <4>1
    <3>8. CASE byz[n]
      BY <1>0, <2>1, <3>1, <3>8 DEF SaveCommit
    <3> QED
      BY <3>7, <3>8
  <2>2. CASE store' = store /\ wal' = wal
    BY <1>0, <1>4, <2>2 DEF CommitDone
  <2> QED
    BY <1>4, <2>1, <2>2 DEF CommitDone
<1>5. ASSUME NEW r \in Run, BalanceTooLow(r) \/ PrePrepareRun(r) \/ FinishPrepares(r) \/ PCPrepareReply(r)
                            \/ PCCommit(r) \/ WaitForPCCommit(r)
      PROVE  Kind
  <2>1. store' = store /\ wal' = wal /\ exec' = exec /\ bal' = bal
    BY <1>5 DEF BalanceTooLow, PrePrepareRun, FinishPrepares, PCPrepareReply, PCCommit,
                WaitForPCCommit, replica
  <2> QED
    BY <1>0, <2>1
<1>6. ASSUME NEW m \in Node, NEW r \in Run,
             PrePrepare(m, r) \/ PrePrepareLocked(m, r) \/ Prepare(m, r) \/ PrepareDone(m, r)
               \/ PrepareTimeout(m, r)
               \/ SendPrepare(m, r) \/ SendCommit(m, r) \/ Commit(m, r) \/ CommitTimeout(m, r)
      PROVE  Kind
  <2>1. store' = store /\ wal' = wal /\ exec' = exec /\ bal' = bal
    BY <1>6 DEF PrePrepare, PrePrepareLocked, Prepare, PrepareDone, PrepareTimeout, SendPrepare,
                SendCommit, Commit, CommitTimeout, replica
  <2> QED
    BY <1>0, <2>1
<1>7. ASSUME NEW m \in Node, NEW r \in Run, NEW q \in Run, CollectPrepare(m, r, q) \/ CollectCommit(m, r, q)
      PROVE  Kind
  BY <1>7, <1>0 DEF CollectPrepare, CollectCommit, replica
<1>8. CASE ClientStep \/ OperatorStep \/ UNCHANGED vars
  BY <1>8, <1>0 DEF ClientStep, ExecuteTransaction, PCPrepare, OperatorStep, SetStatus, SetByzantine,
                    vars, replica
<1> QED
  BY <1>1, <1>2, <1>3, <1>4, <1>5, <1>6, <1>7, <1>8
     DEF Next, LeaderStep, ServerStep


\* What a server stores is the request and the status of a run of its slot.
LEMMA StoreRun ==
    ASSUME VoteInv, OwnSlots, Slotted, NEW n \in Node, NEW s \in Slot, store[n][s].tx # NoTx
    PROVE  \E r \in Run : /\ Started(r) /\ run[r].slot = s
                          /\ store[n][s] = [tx |-> run[r].tx, status |-> run[r].status]
<1>a. SlotInv /\ store[n][s] \in DBUnit /\ s # 0
  <2>1. SlotInv
    BY DEF VoteInv, LogInv
  <2>2. store \in [Node -> [Slot -> DBUnit]]
    BY <2>1 DEF SlotInv, TypeOK
  <2>3. store[n][s] \in DBUnit
    BY <2>2
  <2>4. s # 0
    BY DEF Slot
  <2> QED
    BY <2>1, <2>3, <2>4
<1>1. log[Leader][s].tx = store[n][s].tx
  BY <1>a DEF SlotInv, LeaderDecides
<1>2. s < seq
  BY <1>a, <1>1 DEF SlotInv, SlotsAssigned, TypeOK, Slot
<1>3. PICK r \in Run : run[r].slot = s
  BY <1>2 DEF Slotted
<1>4. Started(r)
  BY <1>a, <1>3 DEF VoteInv, Traced, Started
<1>5. run[r].tx = store[n][s].tx
  BY <1>a, <1>1, <1>3 DEF SlotInv, SlotsAssigned
<1>6. Alone(s)
  BY <1>a DEF OwnSlots, Alone
<1>7. run[r].status = store[n][s].status
  BY <1>3, <1>6 DEF VoteInv, Labelled
<1> QED
  BY <1>a, <1>3, <1>4, <1>5, <1>7 DEF DBUnit

LEMMA NextFinished ==
    ASSUME VoteInv, VoteInv', OwnSlots, OwnSlots', Finished, [Next]_vars
    PROVE  Finished'
<1> SUFFICES ASSUME NEW n \in Node, NEW r \in Run, run'[r].slot \in Slot, store'[n][run'[r].slot].tx # NoTx
             PROVE  Done(n, r)'
  BY DEF Finished, Done
<1>a. SlotInv /\ TypeOK /\ store \in [Node -> [Slot -> DBUnit]] /\ 0 \notin Slot /\ seq \in Nat
  BY DEF VoteInv, LogInv, SlotInv, TypeOK, Slot
<1>b. PICK s \in Slot : s = run'[r].slot
  OBVIOUS
<1>1. ASSUME NEW m \in Node, NEW q \in Run, Saves(m, q) PROVE Done(n, r)' \/ store'[n][s] = store[n][s]
  <2>1. Done(m, q)'
    BY <1>1 DEF Saves
  <2>2. CASE m = n /\ run[q].slot = s
    <3>1. run'[q].slot = s
      BY <1>1, <1>a, <2>2, NextRuns DEF Saves, RunsGoOn, Started
    <3>2. q = r
      BY <1>a, <1>b, <3>1 DEF OwnSlots
    <3> QED
      BY <2>1, <2>2, <3>2
  <2>3. CASE ~ (m = n /\ run[q].slot = s)
    <3> DEFINE unit == [tx |-> run[q].tx, status |-> run[q].status]
    <3>1. store' = [store EXCEPT ![m][run[q].slot] = unit]
      BY <1>1 DEF Saves
    <3> HIDE DEF unit
    <3> QED
      BY <1>a, <2>3, <3>1
  <2> QED
    BY <2>2, <2>3
<1>2. Done(n, r)' \/ store'[n][s] = store[n][s]
  BY <1>1, NextSaves
<1>3. CASE run[r].slot = s /\ store'[n][s] = store[n][s]
  <2>1. Done(n, r)
    BY <1>3, <1>b DEF Finished
  <2> QED
    BY <1>a, <2>1, DoneStays
<1>4. CASE run[r].slot # s
  <2>1. run[r].slot = 0
    BY <1>a, <1>b, <1>4, NextKeeps DEF VoteInv, Keeps
  <2>2. Started(r)
    <3> SUFFICES ASSUME ~Started(r) PROVE FALSE
      OBVIOUS
    <3>1. run'[r].pc # "none"
      BY <1>a, <1>b DEF VoteInv, Traced
    <3>2. run'[r].pc = "locks"
      BY <1>a, <3>1, NextRuns DEF Started, NoNewRun, NewRunFor
    <3> QED
      BY <1>a, <1>b, <3>2 DEF OwnSlots
  <2>3. s = seq
    BY <1>a, <1>b, <1>4, <2>2, NextRuns DEF RunsGoOn, Started
  <2>4. store[n][s].tx = NoTx
    BY <1>a, <2>3 DEF SlotInv, SlotsAssigned, LeaderDecides
  <2> QED
    BY <1>2, <1>b, <2>4
<1> QED
  BY <1>2, <1>3, <1>4

\* The wal of a server counts the payments it has stored, until they are committed.
Saved(n, t) == \E s \in Slot : store[n][s] = [tx |-> t, status |-> "P"]
CommitRun(t) == \E r \in Run : Closing(r) /\ run[r].tx = t /\ run[r].status = "C"
WalMatches ==
    \A n \in Node, t \in Tx : CommitRun(t) \/ wal[n][t] = IF Saved(n, t) THEN 1 ELSE 0

LEMMA CommitRunStays ==
    ASSUME SlotInv, [Next]_vars, NEW t \in Tx, CommitRun(t)
    PROVE  CommitRun(t)'
<1>1. PICK r \in Run : Closing(r) /\ run[r].tx = t /\ run[r].status = "C"
  BY DEF CommitRun
<1>2. Closing(r)' /\ run'[r].tx = t /\ run'[r].status = "C"
  BY <1>1, NextRuns DEF RunsGoOn, Closing, Started
<1> QED
  BY <1>2 DEF CommitRun

LEMMA NextWal ==
    ASSUME VoteInv, OwnSlots, Slotted, OneFirst, Finished, WalMatches, [Next]_vars
    PROVE  WalMatches'
<1>a. SlotInv /\ wal \in [Node -> [Tx -> Nat]] /\ store \in [Node -> [Slot -> DBUnit]] /\ NoTx \notin Tx
  BY ClusterAssumption DEF VoteInv, LogInv, SlotInv, TypeOK
<1> SUFFICES ASSUME NEW n \in Node, NEW t \in Tx, ~CommitRun(t)'
             PROVE  wal'[n][t] = IF Saved(n, t)' THEN 1 ELSE 0
  BY DEF WalMatches
<1>1. ~CommitRun(t) /\ wal[n][t] = IF Saved(n, t) THEN 1 ELSE 0
  BY <1>a, CommitRunStays DEF WalMatches
<1>2. CASE wal' = wal /\ store' = store
  BY <1>1, <1>2 DEF Saved
<1>3. ASSUME NEW r \in Run, CommitRemote(r), store' = store
      PROVE  wal'[n][t] = IF Saved(n, t)' THEN 1 ELSE 0
  <2>1. Closing(r) /\ run[r].status = "C"
    BY <1>3 DEF CommitRemote, Closing, Started
  <2>2. run[r].tx # t
    BY <1>1, <2>1 DEF CommitRun
  <2>3. wal' = [wal EXCEPT ![Leader][run[r].tx] = 0]
    BY <1>3 DEF CommitRemote
  <2>4. wal'[n][t] = wal[n][t]
    BY <1>a, <2>2, <2>3
  <2> QED
    BY <1>1, <1>3, <2>4 DEF Saved
<1>4. ASSUME NEW m \in Node, NEW r \in Run, Saves(m, r)
      PROVE  wal'[n][t] = IF Saved(n, t)' THEN 1 ELSE 0
  <2> DEFINE unit == [tx |-> run[r].tx, status |-> run[r].status]
  <2>1. /\ Started(r) /\ run[r].slot \in Slot
        /\ store' = [store EXCEPT ![m][run[r].slot] = unit]
        /\ wal' = IF run[r].status = "P" THEN [wal EXCEPT ![m][run[r].tx] = @ + 1] ELSE wal
    BY <1>4 DEF Saves
  <2>2. store[m][run[r].slot].tx = NoTx
    BY <1>4 DEF Saves, Finished
  <2>3. PICK u : u = unit
    OBVIOUS
  <2>4. /\ \A s \in Slot : n # m \/ s # run[r].slot => store'[n][s] = store[n][s]
        /\ store'[m][run[r].slot] = u
    <3> HIDE DEF unit
    <3> QED
      BY <1>a, <2>1, <2>3
  <2>5. \A v : [tx |-> t, status |-> v].tx = t
    OBVIOUS
  <2>6. store[m][run[r].slot] # [tx |-> t, status |-> "P"]
    BY <1>a, <2>2, <2>5
  <2>7. u = [tx |-> t, status |-> "P"] <=> run[r].tx = t /\ run[r].status = "P"
    BY <2>3
  <2>8. CASE n = m /\ run[r].tx = t /\ run[r].status = "P"
    <3>1. Saved(n, t)'
      BY <2>1, <2>4, <2>7, <2>8 DEF Saved
    <3>2. ~Saved(n, t)
      <4> SUFFICES ASSUME NEW s \in Slot, store[n][s] = [tx |-> t, status |-> "P"] PROVE FALSE
        BY DEF Saved
      <4>1. store[n][s].tx = t
        OBVIOUS
      <4>2. PICK q \in Run : Started(q) /\ run[q].slot = s
                             /\ store[n][s] = [tx |-> run[q].tx, status |-> run[q].status]
        BY <1>a, <4>1, StoreRun
      <4>3. run[q].tx = t /\ run[q].status = "P"
        BY <4>2
      <4>4. q = r
        BY <2>1, <2>8, <4>2, <4>3 DEF OneFirst, Opening
      <4> QED
        BY <2>6, <2>8, <4>2, <4>4
    <3>3. wal'[n][t] = wal[n][t] + 1
      BY <1>a, <2>1, <2>8
    <3> QED
      BY <1>1, <3>1, <3>2, <3>3
  <2>9. CASE ~ (n = m /\ run[r].tx = t /\ run[r].status = "P")
    <3>1. wal'[n][t] = wal[n][t]
      BY <1>a, <2>1, <2>9
    <3>2. Saved(n, t)' <=> Saved(n, t)
      BY <2>4, <2>6, <2>7, <2>9 DEF Saved
    <3> QED
      BY <1>1, <3>1, <3>2
  <2> QED
    BY <2>8, <2>9
<1> QED
  BY <1>2, <1>3, <1>4, NextSaves
=============================================================================
