------------------------------ MODULE PbftCluster ------------------------------
(***************************************************************************)
(* One cluster of PBFT servers, in its first view: the leader's runPBFT,   *)
(* the backups' PrePrepare -> Prepare -> Commit conversation with it, the  *)
(* account locks, the executor and the write-ahead log.                    *)
(*                                                                         *)
(* The leader may run the same request several times: a client retry runs  *)
(* it again in its old slot (RequestLog), and a cross-shard request is run *)
(* once to prepare it ("P") and once more, in a slot of its own, to commit *)
(* ("C") or to abort ("A") it.  Every call of runPBFT is a "run" here.     *)
(* The other cluster of a cross-shard request is the environment: it may   *)
(* answer, refuse or call at any time its own code could.                  *)
(***************************************************************************)
EXTENDS Integers, FiniteSets, FiniteSetsExt

CONSTANTS
    Node,            \* the servers of the cluster
    Leader,          \* getViewLeader() of view 1
    F,               \* config.F, the number of faulty servers tolerated
    Tx,              \* client requests, named by their timestamp / ClientSeq
    NoTx,            \* "no request"
    Account,         \* the accounts the requests touch
    Shard,           \* the accounts whose balance this cluster keeps
    Body,            \* Body[t]: from, to, amount of t and the role of this
                     \* cluster: "intra", "coord"(inator) or "part"(icipant)
    InitialBalance,  \* config.InitialBalance
    MaxRun,          \* bound: calls of runPBFT
    MaxSlot,         \* bound: sequence numbers
    MaxAttempts,     \* bound: calls of ExecuteTransaction or PCPrepare per request
    Down,            \* servers the operator has set not live at the start
    FlakyLive,       \* servers whose Live flag the operator may flip
    FlakyByz,        \* servers whose Byzantine flag the operator may flip
    MaxFlips,        \* bound: flag flips
    Timely           \* TRUE: no timer fires before what it waits for is lost

Run    == 1..MaxRun
Slot   == 1..MaxSlot
Status == {"", "P", "C", "A"}
Role   == {"intra", "coord", "part"}
Result == {"success", "failure"}

\* The vote of a backup (or of the leader) in a run: two runs of the same slot
\* ask for two votes, and the code tells them apart only as two messages.
Cert == Node \X Run

ASSUME ClusterAssumption ==
    /\ Leader \in Node
    /\ IsFiniteSet(Node)
    /\ F \in Nat
    /\ NoTx \notin Tx
    /\ Shard \subseteq Account
    /\ Body \in [Tx -> [from : Account, to : Account, amount : Nat, role : Role]]
    /\ MaxRun \in Nat /\ MaxSlot \in Nat /\ MaxAttempts \in Nat /\ MaxFlips \in Nat
    /\ InitialBalance \in Nat
    /\ Timely \in BOOLEAN
    /\ Down \subseteq Node /\ FlakyLive \subseteq Node /\ FlakyByz \subseteq Node

\* config.States
PrePrepared == 1
Prepared    == 2
Committed   == 3
\* Variant, for checking TypeOK: a state config.States does not list.
ExecutedUnlisted == 6
Executed    == 5

VARIABLES
    live, byz,   \* node.Live, node.Byzantine
    flips,       \* flag flips so far (bound)
    seq,         \* node.Seq of the leader: next sequence number
    reqSeq,      \* RequestLog of the leader: last slot of a request, 0 if none
    attempts,    \* calls made for a request (bound)
    acks,        \* ResCountMap of the gateway: replies since the last attempt
    run,         \* calls of runPBFT at the leader
    job,         \* job[n][r]: progress of n's goroutine for run r
    log,         \* TransactionLog and PrePrepares, which are written together
    prepCerts,   \* PrepareCerts of the leader
    commCerts,   \* CommitCerts of the leader
    store,       \* Datastore
    exec,        \* ExecutorSeq
    lock,        \* locks bucket; the code stores "true", the holder is history
    bal,         \* balances bucket
    wal,         \* wal bucket: number of entries of a request
    pcCommits    \* PCCommitsMap of the leader

client   == <<reqSeq, attempts, acks, pcCommits>>
replica  == <<log, store, exec, lock, bal, wal>>
certs    == <<prepCerts, commCerts>>
flags    == <<live, byz, flips>>
vars     == <<client, replica, certs, flags, seq, run, job>>

NoEntry == [tx |-> NoTx, status |-> "", state |-> 0]
NoUnit  == [tx |-> NoTx, status |-> ""]
NoRun   == [tx |-> NoTx, status |-> "", slot |-> 0, pc |-> "none",
            prepares |-> {}, commits |-> {}]

RunPc == {"none", "locks", "prepares", "commits", "ok", "failed", "end"}
JobPc == {"none", "sent", "locking", "logged", "prepSent", "prepBad", "prepChan", "prepWait",
          "prepared", "commSent", "commBad", "commChan", "commWait", "end"}

\* A TransactionLog entry with the status of its pre-prepare, a Datastore entry,
\* and a call of runPBFT with the votes its collectors have taken so far.
Entry  == [tx : Tx \cup {NoTx}, status : Status, state : 0..5]
DBUnit == [tx : Tx \cup {NoTx}, status : Status]
RunRec == [tx : Tx \cup {NoTx}, status : Status, slot : 0..MaxSlot, pc : RunPc,
           prepares : SUBSET Cert, commits : SUBSET Cert]

TypeOK ==
    /\ live \in [Node -> BOOLEAN]
    /\ byz \in [Node -> BOOLEAN]
    /\ flips \in 0..MaxFlips
    /\ seq \in 1..(MaxSlot + 1)
    /\ reqSeq \in [Tx -> 0..MaxSlot]
    /\ attempts \in [Tx -> 0..MaxAttempts]
    /\ acks \in [Tx -> [Result -> Nat]]
    /\ run \in [Run -> RunRec]
    /\ job \in [Node -> [Run -> JobPc]]
    /\ log \in [Node -> [Slot -> Entry]]
    /\ prepCerts \in [Slot -> SUBSET Cert]
    /\ commCerts \in [Slot -> SUBSET Cert]
    /\ store \in [Node -> [Slot -> DBUnit]]
    /\ exec \in [Node -> 1..(MaxSlot + 1)]
    /\ lock \in [Node -> [Account -> Tx \cup {NoTx}]]
    /\ bal \in [Node -> [Shard -> Int]]
    /\ wal \in [Node -> [Tx -> Nat]]
    /\ pcCommits \in SUBSET Tx

Init ==
    /\ live = [n \in Node |-> n \notin Down]
    /\ byz = [n \in Node |-> FALSE]
    /\ flips = 0
    /\ seq = 1
    /\ reqSeq = [t \in Tx |-> 0]
    /\ attempts = [t \in Tx |-> 0]
    /\ acks = [t \in Tx |-> [b \in Result |-> 0]]
    /\ run = [r \in Run |-> NoRun]
    /\ job = [n \in Node |-> [r \in Run |-> "none"]]
    /\ log = [n \in Node |-> [s \in Slot |-> NoEntry]]
    /\ prepCerts = [s \in Slot |-> {}]
    /\ commCerts = [s \in Slot |-> {}]
    /\ store = [n \in Node |-> [s \in Slot |-> NoUnit]]
    /\ exec = [n \in Node |-> 1]
    /\ lock = [n \in Node |-> [a \in Account |-> NoTx]]
    /\ bal = [n \in Node |-> [a \in Shard |-> InitialBalance]]
    /\ wal = [n \in Node |-> [t \in Tx |-> 0]]
    /\ pcCommits = {}

-----------------------------------------------------------------------------
(* Locks, logs and balances of a server.                                   *)

Accts(t) == {Body[t].from, Body[t].to}

\* Variant: only payments inside the shard lock.
NeedsLocksIfIntra(status) == status = ""

\* Only the runs that move money lock the accounts.
NeedsLocks(status) == status \in {"", "P"}

\* Variant: a request does not mind locks that it holds itself.
FreeOrOwn(n, t) == \A a \in Accts(t) : lock[n][a] \in {NoTx, t}

\* db.CheckLocksDB
Free(n, t) == \A a \in Accts(t) : lock[n][a] = NoTx

\* db.GetLocksDB and db.ReleaseLocksDB: the release does not look at the holder.
SetLocks(n, t, holder) ==
    [lock EXCEPT ![n] = [a \in Account |-> IF a \in Accts(t) THEN holder ELSE lock[n][a]]]

\* Variants: only the payer's account.
LockedPayer(n, t)   == [lock EXCEPT ![n][Body[t].from] = t]
ReleasedPayer(n, t) == [lock EXCEPT ![n][Body[t].from] = NoTx]

Locked(n, t)   == SetLocks(n, t, t)
Released(n, t) == SetLocks(n, t, NoTx)

\* node.updateLog: the state of an entry is raised, never lowered.
RaisedEntry(n, s, state) ==
    [log[n][s] EXCEPT !.state = IF log[n][s].state < state THEN state ELSE log[n][s].state]
Raised(n, s, state) == [log EXCEPT ![n][s] = RaisedEntry(n, s, state)]

\* Change of account a by t (UpdateBalances touches the accounts of the shard).
Net(t, a) == (IF a = Body[t].to THEN Body[t].amount ELSE 0)
           - (IF a = Body[t].from THEN Body[t].amount ELSE 0)

\* Variant: the commit of a cross-shard payment moves the money once more.
TimesWithCommit(n, t, status) == IF status = "A" THEN 0 - wal[n][t] ELSE 1

\* executeDatastoreLog: how often the entry adds the payment to the balances; an
\* abort takes back what the wal has for the request.
Times(n, t, status) ==
    IF status \in {"", "P"} THEN 1 ELSE IF status = "A" THEN 0 - wal[n][t] ELSE 0

\* Variants: one vote less, one vote more.
PrepareQuorumLess == 2 * F - 1
PrepareQuorumMore == 2 * F + 1

\* Votes that collectPrepares and collectCommits wait for; the leader votes in the
\* second round only.
PrepareQuorum == 2 * F
CommitQuorum  == 2 * F + 1

\* getValidPrepareCerts: the votes n accepts for slot s; the digest is that of
\* the client request alone, so the status of the run does not matter.
ValidCerts(n, s, votes) == {c \in votes : log[n][s].tx = run[c[2]].tx}

\* getValidCommitCerts: none before the slot is prepared.
ValidCommits(n, s, votes) ==
    IF log[n][s].state < Prepared THEN {} ELSE ValidCerts(n, s, votes)

\* Status of the pre-prepare message of run r: a rerun of an old slot sends the
\* pre-prepare saved there, whatever status the leader itself runs it with.
PPStatus(r) == log[Leader][run[r].slot].status

\* Variant: only the leader writes the wal.
SaveCommitLeaderWal(n, s, t, status) ==
    IF byz[n] THEN UNCHANGED <<log, store, wal>>
    ELSE /\ log' = Raised(n, s, Committed)
         /\ store' = [store EXCEPT ![n][s] = [tx |-> log[n][s].tx, status |-> status]]
         /\ wal' = IF status = "P" /\ n = Leader THEN [wal EXCEPT ![n][t] = @ + 1] ELSE wal

\* validateCommits, once the quorum is there: server n records slot s as decided.
SaveCommit(n, s, t, status) ==
    IF byz[n] THEN UNCHANGED <<log, store, wal>>
    ELSE /\ log' = Raised(n, s, Committed)
         /\ store' = [store EXCEPT ![n][s] = [tx |-> log[n][s].tx, status |-> status]]
         /\ wal' = IF status = "P" THEN [wal EXCEPT ![n][t] = @ + 1] ELSE wal

-----------------------------------------------------------------------------
(* Calls of runPBFT.                                                       *)

FreshRun(r) == run[r].pc = "none" /\ \A q \in Run : q < r => run[q].pc # "none"

\* Variant: a retry does not look its old slot up.
NewRunNewSlot(t, status, slot) == [NoRun EXCEPT !.tx = t, !.status = status, !.pc = "locks"]

\* Variant: a retry in an old slot prepares first.
NewRunPreparesAgain(t, status, slot) ==
    [NoRun EXCEPT !.tx = t, !.status = IF slot = 0 THEN status ELSE "P", !.slot = slot,
                  !.pc = "locks"]

NewRun(t, status, slot) == [NoRun EXCEPT !.tx = t, !.status = status, !.slot = slot,
                                         !.pc = "locks"]

\* Run r goes on to pc; the votes its collector held become the certificate.
Moved(r, pc) ==
    [run EXCEPT ![r] = [run[r] EXCEPT !.pc = pc, !.prepares = {}, !.commits = {}]]

\* Variant: the commit or abort run takes the slot of the prepare run.
FollowedSameSlot(r, q, status) ==
    [Moved(r, "end") EXCEPT ![q] = NewRun(run[r].tx, status, run[r].slot)]

\* Run r is over and its caller calls runPBFT again, in run q.
Followed(r, q, status) ==
    [Moved(r, "end") EXCEPT ![q] = NewRun(run[r].tx, status, 0)]

Running(r) == run[r].pc \in {"locks", "prepares", "commits"}

\* The ExecuteTransaction call of t has not returned: a run is going on, or
\* runCrossShard waits for the participant.
Busy(t) == \E r \in Run :
    /\ run[r].tx = t
    /\ Running(r) \/ (run[r].pc = "ok" /\ run[r].status \in {"P", "C"})

\* sendTransaction has counted F+1 equal replies and stops.
Answered(t) == \E b \in Result : acks[t][b] > F

\* gateway.sendTransaction and ExecuteTransaction at the leader.  The flag that
\* would mark an answered request (RequestLog.Executed) is never set, so every
\* call runs the request, in the slot RequestLog has for it.
ExecuteTransaction(t) ==
    /\ Body[t].role # "part"
    /\ attempts[t] < MaxAttempts
    /\ ~Busy(t) /\ ~Answered(t)
    /\ attempts' = [attempts EXCEPT ![t] = @ + 1]
    /\ acks' = [acks EXCEPT ![t] = [b \in Result |-> 0]]
    /\ IF live[Leader]
       THEN \E r \in Run :
              /\ FreshRun(r)
              /\ run' = [run EXCEPT ![r] = NewRun(t,
                            IF Body[t].role = "intra" THEN "" ELSE "P", reqSeq[t])]
       ELSE UNCHANGED run
    /\ UNCHANGED <<reqSeq, pcCommits, replica, certs, flags, seq, job>>

\* runPBFT gives up: the leader has the locks and the payer has too little.
BalanceTooLow(r) ==
    LET t == run[r].tx IN
    /\ run[r].pc = "locks"
    /\ NeedsLocks(run[r].status) /\ Free(Leader, t)
    /\ Body[t].role # "part" /\ bal[Leader][Body[t].from] < Body[t].amount
    /\ run' = Moved(r, "failed")
    /\ UNCHANGED <<client, replica, certs, flags, seq, job>>

\* Variant: the increment is lost.
NextSeqLost == seq

\* The sequence number after a slot is given out, under SeqLock.
NextSeq == seq + 1

\* runPBFT up to the broadcast: locks, balance, slot, log, pre-prepares.
PrePrepareRun(r) ==
    LET t   == run[r].tx
        old == run[r].slot
        s   == IF old = 0 THEN seq ELSE old
    IN
    /\ run[r].pc = "locks"
    /\ s \in Slot
    /\ NeedsLocks(run[r].status) =>
         /\ Free(Leader, t)
         /\ Body[t].role # "part" => bal[Leader][Body[t].from] >= Body[t].amount
    /\ lock' = IF NeedsLocks(run[r].status) THEN Locked(Leader, t) ELSE lock
    /\ seq' = IF old = 0 THEN NextSeq ELSE seq
    /\ reqSeq' = [reqSeq EXCEPT ![t] = s]
    /\ log' = [log EXCEPT ![Leader][s] =
                  [tx     |-> t,
                   status |-> IF old = 0 THEN run[r].status ELSE log[Leader][old].status,
                   state  |-> PrePrepared]]
    /\ run' = [run EXCEPT ![r] = [run[r] EXCEPT !.slot = s, !.pc = "prepares"]]
    /\ job' = [n \in Node |-> IF n = Leader THEN job[n] ELSE [job[n] EXCEPT ![r] = "sent"]]
    /\ UNCHANGED <<attempts, acks, pcCommits, store, exec, bal, wal, certs, flags>>

\* A vote of a server that the leader still can get for run q.
Coming(n, q, pcs) == \E r \in Run : run[r].slot = run[q].slot /\ job[n][r] \in pcs

\* A backup that has not called Prepare yet, or whose vote waits for a collector.
Voting == {"sent", "locking", "logged", "prepSent", "prepBad", "prepChan"}

\* The same for Commit.
Committing == {"prepWait", "prepared", "commSent", "commBad", "commChan"}

\* collectPrepares ends (its timer, or 50 ms after the 2F-th prepare) and
\* validatePrepares decides; sendCommitToSelf is started.
FinishPrepares(q) ==
    LET s  == run[q].slot
        t  == run[q].tx
    IN
    /\ run[q].pc = "prepares"
    /\ Timely => \A n \in Node : ~Coming(n, q, Voting)
    /\ prepCerts' = [prepCerts EXCEPT ![s] = run[q].prepares]
    /\ IF Cardinality(ValidCerts(Leader, s, run[q].prepares)) >= PrepareQuorum
       THEN /\ log' = IF byz[Leader] THEN log ELSE Raised(Leader, s, Prepared)
            /\ run' = Moved(q, "commits")
            /\ job' = [job EXCEPT ![Leader][q] = "commSent"]
            /\ UNCHANGED lock
       ELSE /\ lock' = Released(Leader, t)
            /\ run' = Moved(q, "failed")
            /\ UNCHANGED <<log, job>>
    /\ UNCHANGED <<client, store, exec, bal, wal, commCerts, flags, seq>>

\* collectCommits ends and validateCommits decides at the leader.
FinishCommits(q) ==
    LET s == run[q].slot
        t == run[q].tx
    IN
    /\ run[q].pc = "commits"
    /\ Timely => \A n \in Node : ~Coming(n, q, Committing)
    /\ commCerts' = [commCerts EXCEPT ![s] = run[q].commits]
    /\ IF Cardinality(ValidCommits(Leader, s, run[q].commits)) >= CommitQuorum
       THEN /\ SaveCommit(Leader, s, t, run[q].status)
            /\ run' = Moved(q, "ok")
            /\ UNCHANGED lock
       ELSE /\ lock' = Released(Leader, t)
            /\ run' = Moved(q, "failed")
            /\ UNCHANGED <<log, store, wal>>
    /\ UNCHANGED <<client, exec, bal, prepCerts, flags, seq, job>>

-----------------------------------------------------------------------------
(* The other servers' side of a run, and the leader's answers to them.     *)

\* What PrePrepare checks before it enters the lock loop.
Accepts(n, r) ==
    LET s == run[r].slot IN
    /\ live[n]
    /\ s = 1 \/ log[n][s - 1].tx # NoTx
    /\ log[n][s].tx \in {NoTx, run[r].tx}

\* A PrePrepare call reaches server n: refused for ever, or in the lock loop.
PrePrepare(n, r) ==
    /\ job[n][r] = "sent"
    /\ job' = [job EXCEPT ![n][r] = IF Accepts(n, r) THEN "locking" ELSE "end"]
    /\ UNCHANGED <<client, replica, certs, flags, seq, run>>

\* PrePrepare leaves the lock loop, writes the log (back to pre-prepared if the
\* slot was further) and starts sendPrepareReq.  A Byzantine server takes no lock.
PrePrepareLocked(n, r) ==
    LET t == run[r].tx
        s == run[r].slot
    IN
    /\ job[n][r] = "locking"
    /\ NeedsLocks(PPStatus(r)) => Free(n, t)
    /\ lock' = IF NeedsLocks(PPStatus(r)) /\ ~byz[n] THEN Locked(n, t) ELSE lock
    /\ log' = [log EXCEPT ![n][s] = [tx |-> t, status |-> PPStatus(r), state |-> PrePrepared]]
    /\ job' = [job EXCEPT ![n][r] = "logged"]
    /\ UNCHANGED <<client, store, exec, bal, wal, certs, flags, seq, run>>

\* sendPrepareReq, in a goroutine of its own: a server that is Byzantine by then
\* votes for the empty digest, whether it has taken its locks or not.
SendPrepare(n, r) ==
    /\ job[n][r] = "logged"
    /\ job' = [job EXCEPT ![n][r] = IF byz[n] THEN "prepBad" ELSE "prepSent"]
    /\ UNCHANGED <<client, replica, certs, flags, seq, run>>

\* Prepare at the leader: refused (the caller then releases its locks), or the
\* vote waits for a collector, or a bad vote only waits for the answer.
Prepare(n, r) ==
    /\ job[n][r] \in {"prepSent", "prepBad"}
    /\ IF ~live[Leader] \/ byz[Leader]
       THEN /\ job' = [job EXCEPT ![n][r] = "end"]
            /\ lock' = Released(n, run[r].tx)
       ELSE /\ job' = [job EXCEPT ![n][r] =
                          IF job[n][r] = "prepSent" THEN "prepChan" ELSE "prepWait"]
            /\ UNCHANGED lock
    /\ UNCHANGED <<client, log, store, exec, bal, wal, certs, flags, seq, run>>

\* The unbuffered channel of a slot: whichever run of the slot is collecting
\* takes the vote.
CollectPrepare(n, r, q) ==
    /\ job[n][r] = "prepChan"
    /\ run[q].pc = "prepares" /\ run[q].slot = run[r].slot
    /\ run' = [run EXCEPT ![q] = [run[q] EXCEPT !.prepares = @ \cup {<<n, r>>}]]
    /\ job' = [job EXCEPT ![n][r] = "prepWait"]
    /\ UNCHANGED <<client, replica, certs, flags, seq>>

\* Prepare answers with the certificate, and validatePrepares of server n counts it.
PrepareDone(n, r) ==
    LET s == run[r].slot IN
    /\ job[n][r] = "prepWait"
    /\ Cardinality(prepCerts[s]) >= PrepareQuorum
    /\ IF Cardinality(ValidCerts(n, s, prepCerts[s])) >= PrepareQuorum
       THEN /\ log' = IF byz[n] THEN log ELSE Raised(n, s, Prepared)
            /\ job' = [job EXCEPT ![n][r] = "prepared"]
       ELSE /\ job' = [job EXCEPT ![n][r] = "end"]
            /\ UNCHANGED log
    /\ UNCHANGED <<client, store, exec, lock, bal, wal, certs, flags, seq, run>>

\* sendCommitReq: a server that is Byzantine by then votes for the empty digest,
\* and one that is not any more votes though it has not recorded the slot as prepared.
SendCommit(n, r) ==
    /\ job[n][r] = "prepared"
    /\ job' = [job EXCEPT ![n][r] = IF byz[n] THEN "commBad" ELSE "commSent"]
    /\ UNCHANGED <<client, replica, certs, flags, seq, run>>

\* Prepare gives up after 250 ms: "not prepared", and server n releases.
PrepareTimeout(n, r) ==
    LET s == run[r].slot IN
    /\ job[n][r] = "prepWait"
    /\ Cardinality(prepCerts[s]) < PrepareQuorum
    /\ Timely => \A q \in Run : ~(run[q].slot = s /\ run[q].pc = "prepares")
    /\ job' = [job EXCEPT ![n][r] = "end"]
    /\ lock' = Released(n, run[r].tx)
    /\ UNCHANGED <<client, log, store, exec, bal, wal, certs, flags, seq, run>>

\* Commit at the leader; on a refusal the caller keeps its locks.
Commit(n, r) ==
    /\ job[n][r] \in {"commSent", "commBad"}
    /\ job' = [job EXCEPT ![n][r] =
                  IF ~live[Leader] THEN "end"
                  ELSE IF job[n][r] = "commSent" THEN "commChan" ELSE "commWait"]
    /\ UNCHANGED <<client, replica, certs, flags, seq, run>>

CollectCommit(n, r, q) ==
    /\ job[n][r] = "commChan"
    /\ run[q].pc = "commits" /\ run[q].slot = run[r].slot
    /\ run' = [run EXCEPT ![q] = [run[q] EXCEPT !.commits = @ \cup {<<n, r>>}]]
    /\ job' = [job EXCEPT ![n][r] = IF n = Leader THEN "end" ELSE "commWait"]
    /\ UNCHANGED <<client, replica, certs, flags, seq>>

\* Commit answers with the certificate, and server n records the decision.
CommitDone(n, r) ==
    LET s == run[r].slot IN
    /\ job[n][r] = "commWait"
    /\ Cardinality(commCerts[s]) >= CommitQuorum
    /\ job' = [job EXCEPT ![n][r] = "end"]
    /\ IF Cardinality(ValidCommits(n, s, commCerts[s])) >= CommitQuorum
       THEN SaveCommit(n, s, run[r].tx, PPStatus(r))
       ELSE UNCHANGED <<log, store, wal>>
    /\ UNCHANGED <<client, exec, lock, bal, certs, flags, seq, run>>

\* Commit gives up after 400 ms; server n keeps its locks.
CommitTimeout(n, r) ==
    LET s == run[r].slot IN
    /\ job[n][r] = "commWait"
    /\ Cardinality(commCerts[s]) < CommitQuorum
    /\ Timely => \A q \in Run : ~(run[q].slot = s /\ run[q].pc = "commits")
    /\ job' = [job EXCEPT ![n][r] = "end"]
    /\ UNCHANGED <<client, replica, certs, flags, seq, run>>

\* The entries that settle a request: its locks are freed, its client is told.
Final(status) == status # "P"

\* The executor of server n takes the next slot of its Datastore.
Execute(n) ==
    LET s      == exec[n]
        t      == store[n][s].tx
        status == store[n][s].status
    IN
    /\ s \in Slot /\ t # NoTx
    /\ exec' = [exec EXCEPT ![n] = s + 1]
    /\ bal' = [bal EXCEPT ![n] = [a \in Shard |-> bal[n][a] + Times(n, t, status) * Net(t, a)]]
    /\ IF ~Final(status)
       THEN UNCHANGED <<lock, acks, log>>
       ELSE /\ lock' = Released(n, t)
            /\ acks' = [acks EXCEPT ![t][IF status = "A" THEN "failure" ELSE "success"] = @ + 1]
            /\ log' = Raised(n, s, Executed)
    /\ UNCHANGED <<reqSeq, attempts, pcCommits, store, wal, certs, flags, seq, run, job>>

-----------------------------------------------------------------------------
(* The callers of runPBFT for a cross-shard request.                       *)

\* runCrossShard after its prepare run: the participant's leader answers the
\* PCPrepare call (commit) or refuses it (abort).
PCPrepareReply(r) == \E q \in Run, status \in {"C", "A"} :
    /\ run[r].pc = "ok" /\ run[r].status = "P" /\ Body[run[r].tx].role = "coord"
    /\ FreshRun(q)
    /\ run' = Followed(r, q, status)
    /\ UNCHANGED <<client, replica, certs, flags, seq, job>>

\* runCrossShard after its commit run: reply, EraseWal, and PCCommit calls until
\* the participant takes one.
CommitRemote(r) ==
    LET t == run[r].tx IN
    /\ run[r].pc = "ok" /\ run[r].status = "C" /\ Body[t].role = "coord"
    /\ run' = Moved(r, "end")
    /\ acks' = [acks EXCEPT ![t]["success"] = @ + 1]
    /\ wal' = [wal EXCEPT ![Leader][t] = 0]
    /\ UNCHANGED <<reqSeq, attempts, pcCommits, log, store, exec, lock, bal,
                   certs, flags, seq, job>>

\* PCPrepare at the participant's leader.  The coordinator calls again only after
\* a client retry, so after the earlier call has returned.
PCPrepare(t) ==
    /\ Body[t].role = "part"
    /\ attempts[t] < MaxAttempts
    /\ \A q \in Run : run[q].tx = t => ~Running(q)
    /\ attempts' = [attempts EXCEPT ![t] = @ + 1]
    /\ \E r \in Run :
         /\ FreshRun(r)
         /\ run' = [q \in Run |->
                      IF q = r THEN NewRun(t, "P", 0)
                      ELSE IF run[q].tx = t /\ run[q].pc = "ok" THEN [run[q] EXCEPT !.pc = "end"]
                      ELSE run[q]]
    /\ UNCHANGED <<reqSeq, acks, pcCommits, replica, certs, flags, seq, job>>

\* PCCommit at the participant's leader, called after a successful PCPrepare and
\* again after every error: the commit run has failed, or it has decided and its
\* answer is lost.
PCCommit(r) == \E q \in Run :
    /\ \/ run[r].status = "P" /\ run[r].pc = "ok"
       \/ run[r].status = "C" /\ run[r].pc \in {"failed", "ok"}
    /\ Body[run[r].tx].role = "part"
    /\ FreshRun(q)
    /\ pcCommits' = pcCommits \cup {run[r].tx}
    /\ run' = Followed(r, q, "C")
    /\ UNCHANGED <<reqSeq, attempts, acks, replica, certs, flags, seq, job>>

\* waitForPCCommit, a second after a failed PCPrepare.
WaitForPCCommit(r) ==
    LET t == run[r].tx IN
    /\ run[r].status = "P" /\ run[r].pc = "failed" /\ Body[t].role = "part"
    /\ IF t \in pcCommits
       THEN run' = Moved(r, "end")
       ELSE \E q \in Run :
              /\ FreshRun(q)
              /\ run' = Followed(r, q, "A")
    /\ UNCHANGED <<client, replica, certs, flags, seq, job>>

-----------------------------------------------------------------------------
(* The operator's switches.                                                *)

SetStatus(n) ==
    /\ n \in FlakyLive /\ flips < MaxFlips
    /\ flips' = flips + 1
    /\ live' = [live EXCEPT ![n] = ~@]
    /\ UNCHANGED <<byz, client, replica, certs, seq, run, job>>

SetByzantine(n) ==
    /\ n \in FlakyByz /\ flips < MaxFlips
    /\ flips' = flips + 1
    /\ byz' = [byz EXCEPT ![n] = ~@]
    /\ UNCHANGED <<live, client, replica, certs, seq, run, job>>

-----------------------------------------------------------------------------

LeaderStep ==
    \/ \E r \in Run : \/ BalanceTooLow(r) \/ PrePrepareRun(r)
                      \/ FinishPrepares(r) \/ FinishCommits(r)
                      \/ PCPrepareReply(r) \/ CommitRemote(r)
                      \/ PCCommit(r) \/ WaitForPCCommit(r)

ServerStep(n) ==
    \/ Execute(n)
    \/ \E r \in Run : \/ PrePrepare(n, r) \/ PrePrepareLocked(n, r)
                      \/ SendPrepare(n, r) \/ Prepare(n, r)
                      \/ PrepareDone(n, r) \/ PrepareTimeout(n, r)
                      \/ SendCommit(n, r) \/ Commit(n, r) \/ CommitDone(n, r) \/ CommitTimeout(n, r)
                      \/ \E q \in Run : CollectPrepare(n, r, q) \/ CollectCommit(n, r, q)

ClientStep == \E t \in Tx : ExecuteTransaction(t) \/ PCPrepare(t)

OperatorStep == \E n \in Node : SetStatus(n) \/ SetByzantine(n)

Next == LeaderStep \/ (\E n \in Node : ServerStep(n)) \/ ClientStep \/ OperatorStep

Spec == Init /\ [][Next]_vars

\* The goroutines of a server and of the gateway are scheduled; the operator is
\* free never to touch a switch.
Fairness == /\ WF_vars(LeaderStep)
            /\ \A n \in Node : WF_vars(ServerStep(n))
            /\ \A t \in Tx : WF_vars(ExecuteTransaction(t))

FairSpec == Spec /\ Fairness

-----------------------------------------------------------------------------
(* Properties.                                                             *)

\* Server n has executed t with the given status.
Did(n, t, status) ==
    \E s \in Slot : s < exec[n] /\ store[n][s] = [tx |-> t, status |-> status]

\* Two servers never hold different requests in one slot, in the log or in the
\* Datastore, whatever retries, timeouts and Byzantine votes happened: runPBFT
\* reuses a slot only for its own request, and PrePrepare refuses a second digest.
SlotAgreement ==
    \A n, m \in Node, s \in Slot :
        \A x \in {log[n][s].tx, store[n][s].tx}, y \in {log[m][s].tx, store[m][s].tx} :
            x = NoTx \/ y = NoTx \/ x = y

\* What makes SlotAgreement inductive.  Every call of runPBFT is for a request; a
\* server works for a run only once it has a slot; the leader's log and its
\* RequestLog are the authority on which request a slot belongs to.
RunsWellFormed ==
    \A r \in Run :
        /\ run[r].pc # "none" => run[r].tx \in Tx
        /\ run[r].pc \in {"prepares", "commits"} => run[r].slot \in Slot
        /\ \A n \in Node : job[n][r] # "none" => run[r].pc # "none" /\ run[r].slot \in Slot

SlotsAssigned ==
    /\ \A r \in Run :
         run[r].slot # 0 => run[r].slot < seq /\ log[Leader][run[r].slot].tx = run[r].tx
    /\ \A t \in Tx :
         reqSeq[t] # 0 => reqSeq[t] < seq /\ log[Leader][reqSeq[t]].tx = t
    /\ \A s \in Slot : s >= seq => log[Leader][s].tx = NoTx

LeaderDecides ==
    \A n \in Node, s \in Slot :
        /\ log[n][s].tx \in {NoTx, log[Leader][s].tx}
        /\ store[n][s].tx \in {NoTx, log[Leader][s].tx}

SlotInv == TypeOK /\ RunsWellFormed /\ SlotsAssigned /\ LeaderDecides

\* Two servers whose executors have executed the same slots have the same
\* balances (executor and undoWAL).
ReplicaConsistency ==
    \A n, m \in Node : exec[n] = exec[m] => bal[n] = bal[m]

\* The balance check of runPBFT is made long before the execution, on the leader
\* only: no server's executor ever takes an account below zero all the same.
NoOverdraft == \A n \in Node, a \in Shard : bal[n][a] >= 0

\* A payment counts exactly once in every server's balances, however often its
\* slot was run, and not at all once its abort is executed.
BalancesMatchOutcomes ==
    \A n \in Node, a \in Shard :
        LET paid == {t \in Tx : (Did(n, t, "") \/ Did(n, t, "P")) /\ ~Did(n, t, "A")}
        IN  bal[n][a] = InitialBalance + MapThenSumSet(LAMBDA t : Net(t, a), paid)

\* What the leader has decided and not yet executed keeps its accounts locked
\* there: no other payment is admitted on a balance that is about to change.
DecidedStaysLocked ==
    \A s \in Slot :
        LET e == store[Leader][s] IN
        (s >= exec[Leader] /\ e.tx # NoTx /\ NeedsLocks(e.status)) =>
            \A a \in Accts(e.tx) : lock[Leader][a] = e.tx

\* F+1 successful replies stand for F+1 servers that executed the request: the
\* gateway only counts replies, it does not look at who sent them.
AnswerMeansExecuted ==
    \A t \in Tx :
        acks[t]["success"] > F =>
            Cardinality({n \in Node : Did(n, t, "") \/ Did(n, t, "C")}) > F

\* A decided slot was pre-prepared by a quorum of 2F+1 different servers, though
\* collectPrepares and collectCommits count messages: a vote left of an earlier run of the
\* slot does not count for a second server, where the Byzantine switches are left alone.
DecidedByQuorum ==
    \A n \in Node, s \in Slot :
        store[n][s].tx # NoTx =>
            Cardinality({m \in Node : log[m][s].tx # NoTx}) > 2 * F

\* So was every slot that the leader takes for prepared.
PreparedByQuorum ==
    \A s \in Slot :
        log[Leader][s].state >= Prepared =>
            Cardinality({m \in Node : log[m][s].tx # NoTx}) > 2 * F

\* All servers that decided a slot decided the same status for it: the status is
\* not part of the digest the votes are about.
StatusAgreement ==
    \A n, m \in Node, s \in Slot :
        (store[n][s].tx # NoTx /\ store[m][s].tx # NoTx) => store[n][s] = store[m][s]

\* A request of one cluster has one slot, whatever retries there were.
OneSlotPerRequest ==
    \A s, u \in Slot :
        LET t == log[Leader][s].tx IN
        (t # NoTx /\ t = log[Leader][u].tx /\ Body[t].role = "intra") => s = u

\* What an executor has passed is never rewritten by a later run of the slot.
ExecutedIsFinal ==
    [][\A n \in Node, s \in Slot : s < exec[n] => store'[n][s] = store[n][s]]_vars

\* A cluster that serves only its own requests implements the replicated log.
RL == INSTANCE ReplicatedLog WITH
        Server   <- Node, Cmd <- Tx, NoCmd <- NoTx, Slots <- Slot, Enough <- F + 1,
        chosen   <- [s \in Slot |-> log[Leader][s].tx],
        learned  <- [n \in Node |-> [s \in Slot |-> store[n][s].tx]],
        applied  <- [n \in Node |-> exec[n] - 1],
        answered <- {t \in Tx : acks[t]["success"] > F}
ImplementsReplicatedLog == RL!RLSpec

\* With timers that only fire for what is lost, every request is executed by
\* every live server, or refused for lack of money.
EveryRequestDecided ==
    \A t \in Tx : <>( \/ \E r \in Run : run[r].tx = t /\ run[r].pc = "failed" /\ run[r].slot = 0
                     \/ \A n \in Node \ Down : Did(n, t, "") \/ Did(n, t, "C") \/ Did(n, t, "A"))

\* ... and no account stays locked.
LocksFreed == <>[](\A n \in Node, a \in Account : lock[n][a] = NoTx)
=============================================================================
