------------------------------- MODULE CrossShard -------------------------------
(***************************************************************************)
(* The payments of a gateway over several clusters.  A cluster is what its *)
(* leader sees of it: the locks, the slots, the Datastore, the balances    *)
(* and the write-ahead log.  A call of runPBFT is two steps: it starts     *)
(* with the locks, the balance check and a slot, and it ends with a        *)
(* decision or without one.                                                *)
(*                                                                         *)
(* The coordinator of a payment is the cluster its payer is routed to, the *)
(* participant the one of its payee; a payment inside one cluster has a    *)
(* coordinator only.  Between the clusters there are the calls PCPrepare   *)
(* and PCCommit and nothing else: an abort is told to nobody.              *)
(***************************************************************************)
EXTENDS Integers, FiniteSets, FiniteSetsExt

CONSTANTS
    Tx, NoTx,
    Cluster,
    Account,
    Home,           \* Home[a]: the cluster whose shard holds account a
    Route,          \* Route[a]: getClusterOfClient, where the gateway looks for it
    Body,           \* Body[t]: payer, payee and amount
    InitialBalance,
    MayFail,        \* <<cluster, status>> of the PBFT runs that may fail
    MaxSlot,        \* bound: sequence numbers of a cluster
    MaxCalls,       \* bound: calls of the gateway per payment
    MaxFails,       \* bound: failed PBFT runs
    MaxLost,        \* bound: calls of PCPrepare that fail on their way
    MaxUnheard      \* bound: answers of PCCommit that are lost

Slot == 1..MaxSlot

Status == {"", "P", "C", "A"}

ASSUME CrossShardAssumption ==
    /\ NoTx \notin Tx
    /\ Home \in [Account -> Cluster] /\ Route \in [Account -> Cluster]
    /\ Body \in [Tx -> [from : Account, to : Account, amount : Nat]]
    /\ InitialBalance \in Nat
    /\ MayFail \subseteq (Cluster \X Status)
    /\ MaxSlot \in Nat /\ MaxCalls \in Nat
    /\ MaxFails \in Nat /\ MaxLost \in Nat /\ MaxUnheard \in Nat

ASSUME CrossShardFinite == IsFiniteSet(Tx) /\ IsFiniteSet(Cluster) /\ IsFiniteSet(Account)

VARIABLES
    calls,     \* attempts of sendTransaction so far (bound)
    fails,     \* failed PBFT runs so far (bound)
    lost,      \* calls of PCPrepare that failed on their way so far (bound)
    unheard,   \* answers of PCCommit that were lost so far (bound)
    results,   \* results the gateway has F+1 replies for, since its last attempt
    coord,     \* coord[t]: where runIntrashard or runCrossShard of t is
    part,      \* part[t]: where the participant's leader is with t
    answer,    \* answer[t]: the answer of PCPrepare, "none" while it is not there
    told,      \* PCCommitsMap of the participant
    seq,       \* node.Seq of the leader of a cluster
    slot,      \* slot[c][t]: the slot of t's last run, which RequestLog keeps
    store,     \* Datastore
    exec,      \* ExecutorSeq
    lock,      \* lock[c][a]: the payment that locked a, or NoTx
    bal,       \* balances
    wal        \* entries of the write-ahead log

client  == <<calls, results>>
faults  == <<fails, lost, unheard>>
ledger  == <<store, wal>>
applied == <<exec, bal>>
vars    == <<client, faults, coord, part, answer, told, seq, slot, ledger, applied, lock>>

Coord(t) == Route[Body[t].from]
Part(t)  == Route[Body[t].to]
Intra(t) == Coord(t) = Part(t)

CoordPc == {"idle", "locks", "prepare", "ask", "wait", "commit", "tell", "telling", "abort"}
PartPc  == {"idle", "locks", "prepare", "prepared", "failed", "commit", "abort", "end"}

NoEntry == [tx |-> NoTx, status |-> ""]

TypeOK ==
    /\ calls \in [Tx -> 0..MaxCalls]
    /\ fails \in 0..MaxFails
    /\ lost \in 0..MaxLost
    /\ unheard \in 0..MaxUnheard
    /\ results \in [Tx -> SUBSET BOOLEAN]
    /\ coord \in [Tx -> CoordPc]
    /\ part \in [Tx -> PartPc]
    /\ answer \in [Tx -> {"none", "ok", "error"}]
    /\ told \subseteq Tx
    /\ seq \in [Cluster -> 1..(MaxSlot + 1)]
    /\ slot \in [Cluster -> [Tx -> 0..MaxSlot]]
    /\ store \in [Cluster -> [Slot -> [tx : Tx \cup {NoTx}, status : Status]]]
    /\ exec \in [Cluster -> 1..(MaxSlot + 1)]
    /\ lock \in [Cluster -> [Account -> Tx \cup {NoTx}]]
    /\ bal \in [Cluster -> [Account -> Int]]
    /\ wal \in [Cluster -> [Tx -> Nat]]

Init ==
    /\ calls = [t \in Tx |-> 0]
    /\ fails = 0
    /\ lost = 0
    /\ unheard = 0
    /\ results = [t \in Tx |-> {}]
    /\ coord = [t \in Tx |-> "idle"]
    /\ part = [t \in Tx |-> "idle"]
    /\ answer = [t \in Tx |-> "none"]
    /\ told = {}
    /\ seq = [c \in Cluster |-> 1]
    /\ slot = [c \in Cluster |-> [t \in Tx |-> 0]]
    /\ store = [c \in Cluster |-> [s \in Slot |-> NoEntry]]
    /\ exec = [c \in Cluster |-> 1]
    /\ lock = [c \in Cluster |-> [a \in Account |-> NoTx]]
    /\ bal = [c \in Cluster |-> [a \in Account |-> IF Home[a] = c THEN InitialBalance ELSE 0]]
    /\ wal = [c \in Cluster |-> [t \in Tx |-> 0]]

-----------------------------------------------------------------------------
(* A call of runPBFT at the leader of cluster c.                           *)

Accts(t) == {Body[t].from, Body[t].to}

\* Variant: only the payee's account is looked at.
FreePayee(c, t) == lock[c][Body[t].to] = NoTx

\* db.CheckLocksDB
Free(c, t) == \A a \in Accts(t) : lock[c][a] = NoTx

SetLocks(c, t, holder) ==
    [lock EXCEPT ![c] = [a \in Account |-> IF a \in Accts(t) THEN holder ELSE lock[c][a]]]

\* Variant: only the payer's account is released.
ReleasedPayer(c, t) == [lock EXCEPT ![c][Body[t].from] = NoTx]

Locked(c, t)   == SetLocks(c, t, t)
Released(c, t) == SetLocks(c, t, NoTx)

\* The payer's balance is looked up, and it is enough, where the payer is routed to.
CanPay(c, t) ==
    c = Coord(t) => Home[Body[t].from] = c /\ bal[c][Body[t].from] >= Body[t].amount

\* RequestLog keeps slot s for t.
logClientRequest(c, t, s) == [slot EXCEPT ![c][t] = s]

\* The run takes slot old, or the next one if old is 0.
TakeSlot(c, t, old) ==
    LET s == IF old = 0 THEN seq[c] ELSE old IN
    /\ s \in Slot
    /\ seq' = IF old = 0 THEN [seq EXCEPT ![c] = s + 1] ELSE seq
    /\ slot' = logClientRequest(c, t, s)

\* A run that moves money starts: locks, balance, slot.
StartMoving(c, t, old) ==
    /\ Free(c, t) /\ CanPay(c, t)
    /\ lock' = Locked(c, t)
    /\ TakeSlot(c, t, old)

\* A commit or an abort starts: in a slot of its own and without a look at the locks.
StartOutcome(c, t) == TakeSlot(c, t, 0) /\ UNCHANGED lock

\* db.AppendToWALEntry and db.EraseWal
AppendToWALEntry(c, t) == [wal EXCEPT ![c][t] = @ + 1]
EraseWal(c, t)         == [wal EXCEPT ![c][t] = 0]

\* Variant: the entry has a status that the executor does not know.
DecideUnlisted(c, t, status) ==
    /\ store' = [store EXCEPT ![c][slot[c][t]] = [tx |-> t, status |-> "D"]]
    /\ UNCHANGED wal

\* The run decides: Datastore, and for a prepare the write-ahead log.
Decide(c, t, status) ==
    /\ store' = [store EXCEPT ![c][slot[c][t]] = [tx |-> t, status |-> status]]
    /\ wal' = IF status = "P" THEN AppendToWALEntry(c, t) ELSE wal

\* The run fails: the locks of its accounts are released, whoever holds them.
Fail(c, t, status) ==
    /\ <<c, status>> \in MayFail /\ fails < MaxFails
    /\ fails' = fails + 1
    /\ lock' = Released(c, t)

\* The executors of cluster c find the next slot in Datastore.
CanExecute(c) == exec[c] \in Slot /\ store[c][exec[c]].tx # NoTx

-----------------------------------------------------------------------------
(* The gateway and the coordinator.                                        *)

\* sendTransaction: the counts are cleared and the leader is called; it repeats the
\* call, a second after the earlier one has returned, until F+1 equal replies are
\* there, whatever the executors have still to do.
ExecuteTransaction(t) ==
    /\ coord[t] = "idle" /\ calls[t] < MaxCalls /\ results[t] = {}
    /\ calls' = [calls EXCEPT ![t] = @ + 1]
    /\ coord' = [coord EXCEPT ![t] = "locks"]
    /\ UNCHANGED <<results, faults, part, answer, told, seq, slot, ledger, applied, lock>>

\* The payer has too little, or is not in this shard: runPBFT gives the locks back.
Refuse(t) ==
    LET c == Coord(t) IN
    /\ coord[t] = "locks"
    /\ Free(c, t) /\ ~CanPay(c, t)
    /\ coord' = [coord EXCEPT ![t] = "idle"]
    /\ UNCHANGED <<client, faults, part, answer, told, seq, slot, ledger, applied, lock>>

Prepare(t) ==
    /\ coord[t] = "locks"
    /\ StartMoving(Coord(t), t, slot[Coord(t)][t])
    /\ coord' = [coord EXCEPT ![t] = "prepare"]
    /\ UNCHANGED <<client, faults, part, answer, told, ledger, applied>>

\* The run that is under way.
RunOf(t) ==
    CASE coord[t] = "prepare" -> IF Intra(t) THEN "" ELSE "P"
      [] coord[t] = "commit"  -> "C"
      [] OTHER                -> "A"

\* The first run of a payment is decided; runCrossShard goes on to the participant.
PrepareDone(t) ==
    /\ coord[t] = "prepare"
    /\ Decide(Coord(t), t, RunOf(t))
    /\ coord' = [coord EXCEPT ![t] = IF Intra(t) THEN "idle" ELSE "ask"]
    /\ UNCHANGED <<client, faults, part, answer, told, seq, slot, applied, lock>>

\* Variant: the participant is asked although the run has failed.
RunFailedAsk(t) ==
    /\ coord[t] \in {"prepare", "commit", "abort"}
    /\ Fail(Coord(t), t, RunOf(t))
    /\ coord' = [coord EXCEPT ![t] = "ask"]
    /\ UNCHANGED <<client, lost, unheard, part, answer, told, seq, slot, ledger, applied>>

\* A run fails, and only a new call of the gateway starts another one: for a commit
\* or an abort that is not the end of what the payment began.
RunFailed(t) ==
    /\ coord[t] \in {"prepare", "commit", "abort"}
    /\ Fail(Coord(t), t, RunOf(t))
    /\ coord' = [coord EXCEPT ![t] = "idle"]
    /\ UNCHANGED <<client, lost, unheard, part, answer, told, seq, slot, ledger, applied>>

\* Variant: any answer of PCPrepare will do.
StartCommitAnswered(t) ==
    /\ coord[t] = "wait" /\ answer[t] # "none"
    /\ StartOutcome(Coord(t), t)
    /\ coord' = [coord EXCEPT ![t] = "commit"]
    /\ UNCHANGED <<client, faults, part, answer, told, ledger, applied>>

\* PCPrepare is answered with success: the commit run starts.
StartCommit(t) ==
    /\ coord[t] = "wait" /\ answer[t] = "ok"
    /\ StartOutcome(Coord(t), t)
    /\ coord' = [coord EXCEPT ![t] = "commit"]
    /\ UNCHANGED <<client, faults, part, answer, told, ledger, applied>>

\* PCPrepare returns an error: the abort run starts.
StartAbort(t) ==
    /\ coord[t] = "wait" /\ answer[t] = "error"
    /\ StartOutcome(Coord(t), t)
    /\ coord' = [coord EXCEPT ![t] = "abort"]
    /\ UNCHANGED <<client, faults, part, answer, told, ledger, applied>>

\* The same when the call itself fails: its certificate is refused, or the connection
\* breaks before it arrives or before it is answered.
PCPrepareLost(t) ==
    /\ coord[t] \in {"ask", "wait"} /\ lost < MaxLost
    /\ lost' = lost + 1
    /\ StartOutcome(Coord(t), t)
    /\ coord' = [coord EXCEPT ![t] = "abort"]
    /\ UNCHANGED <<client, fails, unheard, part, answer, told, ledger, applied>>

\* Variant: the abort is recorded as a commit.
CommitDoneEarly(t) ==
    /\ coord[t] \in {"commit", "abort"}
    /\ store' = [store EXCEPT ![Coord(t)][slot[Coord(t)][t]] = [tx |-> t, status |-> "C"]]
    /\ wal' = EraseWal(Coord(t), t)
    /\ coord' = [coord EXCEPT ![t] = "tell"]
    /\ UNCHANGED <<client, faults, part, answer, told, seq, slot, applied, lock>>

\* The commit is decided: EraseWal, and PCCommit is called.
CommitDone(t) ==
    /\ coord[t] = "commit"
    /\ store' = [store EXCEPT ![Coord(t)][slot[Coord(t)][t]] = [tx |-> t, status |-> "C"]]
    /\ wal' = EraseWal(Coord(t), t)
    /\ coord' = [coord EXCEPT ![t] = "tell"]
    /\ UNCHANGED <<client, faults, part, answer, told, seq, slot, applied, lock>>

\* Variant: the participant is told as after a commit.
AbortDoneTells(t) ==
    /\ coord[t] = "abort"
    /\ Decide(Coord(t), t, "A")
    /\ coord' = [coord EXCEPT ![t] = "tell"]
    /\ UNCHANGED <<client, faults, part, answer, told, seq, slot, applied, lock>>

AbortDone(t) ==
    /\ coord[t] = "abort"
    /\ Decide(Coord(t), t, "A")
    /\ coord' = [coord EXCEPT ![t] = "idle"]
    /\ UNCHANGED <<client, faults, part, answer, told, seq, slot, applied, lock>>

-----------------------------------------------------------------------------
(* The participant.                                                        *)

\* The PCPrepare call arrives: its commit certificate is that of the coordinator's
\* prepare.  A second call comes only when the first one has been dealt with.
PCPrepare(t) ==
    /\ coord[t] = "ask"
    /\ part[t] \in {"idle", "prepared", "end"}
    /\ coord' = [coord EXCEPT ![t] = "wait"]
    /\ part' = [part EXCEPT ![t] = "locks"]
    /\ answer' = [answer EXCEPT ![t] = "none"]
    /\ UNCHANGED <<client, faults, told, seq, slot, ledger, applied, lock>>

PartPrepare(t) ==
    /\ part[t] = "locks"
    /\ StartMoving(Part(t), t, 0)
    /\ part' = [part EXCEPT ![t] = "prepare"]
    /\ UNCHANGED <<client, faults, coord, answer, told, ledger, applied>>

PartPrepareDone(t) ==
    /\ part[t] = "prepare"
    /\ Decide(Part(t), t, "P")
    /\ part' = [part EXCEPT ![t] = "prepared"]
    /\ answer' = [answer EXCEPT ![t] = "ok"]
    /\ UNCHANGED <<client, faults, coord, told, seq, slot, applied, lock>>

PartPrepareFailed(t) ==
    /\ part[t] = "prepare"
    /\ Fail(Part(t), t, "P")
    /\ part' = [part EXCEPT ![t] = "failed"]
    /\ answer' = [answer EXCEPT ![t] = "error"]
    /\ UNCHANGED <<client, lost, unheard, coord, told, seq, slot, ledger, applied>>

\* waitForPCCommit, a second after the failure.
WaitForPCCommit(t) ==
    /\ part[t] = "failed"
    /\ IF t \in told
       THEN part' = [part EXCEPT ![t] = "end"] /\ UNCHANGED <<seq, slot, lock>>
       ELSE part' = [part EXCEPT ![t] = "abort"] /\ StartOutcome(Part(t), t)
    /\ UNCHANGED <<client, faults, coord, answer, told, ledger, applied>>

PartAbortDone(t) ==
    /\ part[t] = "abort"
    /\ Decide(Part(t), t, "A")
    /\ part' = [part EXCEPT ![t] = "end"]
    /\ UNCHANGED <<client, faults, coord, answer, told, seq, slot, applied, lock>>

PartAbortFailed(t) ==
    /\ part[t] = "abort"
    /\ Fail(Part(t), t, "A")
    /\ part' = [part EXCEPT ![t] = "end"]
    /\ UNCHANGED <<client, lost, unheard, coord, answer, told, seq, slot, ledger, applied>>

\* PCCommit arrives: a commit run in a slot of its own.
PCCommit(t) ==
    /\ coord[t] = "tell"
    /\ coord' = [coord EXCEPT ![t] = "telling"]
    /\ part' = [part EXCEPT ![t] = "commit"]
    /\ told' = told \cup {t}
    /\ StartOutcome(Part(t), t)
    /\ UNCHANGED <<client, faults, answer, ledger, applied>>

PCCommitDone(t) ==
    /\ part[t] = "commit"
    /\ Decide(Part(t), t, "C")
    /\ part' = [part EXCEPT ![t] = "end"]
    /\ coord' = [coord EXCEPT ![t] = "idle"]
    /\ UNCHANGED <<client, faults, answer, told, seq, slot, applied, lock>>

\* The commit run decides, but the call returns an error: the coordinator calls again,
\* and the participant commits once more in another slot.
PCCommitUnheard(t) ==
    /\ part[t] = "commit" /\ unheard < MaxUnheard
    /\ unheard' = unheard + 1
    /\ Decide(Part(t), t, "C")
    /\ part' = [part EXCEPT ![t] = "end"]
    /\ coord' = [coord EXCEPT ![t] = "tell"]
    /\ UNCHANGED <<client, fails, lost, answer, told, seq, slot, applied, lock>>

\* The commit run fails: its locks are released and the coordinator calls again.
PCCommitFailed(t) ==
    /\ part[t] = "commit"
    /\ Fail(Part(t), t, "C")
    /\ part' = [part EXCEPT ![t] = "prepared"]
    /\ coord' = [coord EXCEPT ![t] = "tell"]
    /\ UNCHANGED <<client, lost, unheard, answer, told, seq, slot, ledger, applied>>

-----------------------------------------------------------------------------
(* The executor.                                                           *)

\* What t adds to account a; UpdateBalances touches accounts of the shard only.
Net(c, t, a) ==
    IF Home[a] # c THEN 0
    ELSE (IF a = Body[t].to THEN Body[t].amount ELSE 0)
       - (IF a = Body[t].from THEN Body[t].amount ELSE 0)

\* Variant: an abort takes nothing back.
TimesNoUndo(c, t, status) == IF status \in {"", "P"} THEN 1 ELSE 0

\* executeDatastoreLog: an abort takes back what the write-ahead log has.
Times(c, t, status) ==
    IF status \in {"", "P"} THEN 1 ELSE IF status = "A" THEN 0 - wal[c][t] ELSE 0

\* The servers of cluster c execute the next slot and, but for a prepare, release
\* the locks and reply.
Execute(c) ==
    LET s == exec[c]
        e == store[c][s]
    IN
    /\ CanExecute(c)
    /\ exec' = [exec EXCEPT ![c] = s + 1]
    /\ bal' = [bal EXCEPT ![c] =
                 [a \in Account |-> bal[c][a] + Times(c, e.tx, e.status) * Net(c, e.tx, a)]]
    /\ IF e.status = "P"
       THEN UNCHANGED <<lock, results>>
       ELSE /\ lock' = Released(c, e.tx)
            /\ results' = [results EXCEPT ![e.tx] = @ \cup {e.status # "A"}]
    /\ UNCHANGED <<calls, faults, coord, part, answer, told, seq, slot, ledger>>

-----------------------------------------------------------------------------

CoordinatorStep(t) ==
    \/ Refuse(t) \/ Prepare(t) \/ PrepareDone(t)
    \/ StartCommit(t) \/ StartAbort(t) \/ CommitDone(t) \/ AbortDone(t)

ParticipantStep(t) ==
    \/ PCPrepare(t) \/ PartPrepare(t) \/ PartPrepareDone(t)
    \/ WaitForPCCommit(t) \/ PartAbortDone(t)
    \/ PCCommit(t) \/ PCCommitDone(t)

Fault(t) ==
    \/ RunFailed(t) \/ PCPrepareLost(t)
    \/ PartPrepareFailed(t) \/ PartAbortFailed(t)
    \/ PCCommitFailed(t) \/ PCCommitUnheard(t)

Next ==
    \/ \E t \in Tx : ExecuteTransaction(t) \/ CoordinatorStep(t) \/ ParticipantStep(t) \/ Fault(t)
    \/ \E c \in Cluster : Execute(c)

Spec == Init /\ [][Next]_vars

\* Goroutines run, and the gateway repeats what is not answered; no fault has to happen.
Fairness ==
    /\ \A t \in Tx : /\ WF_vars(ExecuteTransaction(t))
                     /\ WF_vars(CoordinatorStep(t)) /\ WF_vars(ParticipantStep(t))
    /\ \A c \in Cluster : WF_vars(Execute(c))

FairSpec == Spec /\ Fairness

-----------------------------------------------------------------------------
(* Properties.                                                             *)

Decided(c, t, status) == \E s \in Slot : store[c][s] = [tx |-> t, status |-> status]

Involved(t) == {Coord(t), Part(t)}

\* The two clusters of a payment implement atomic commit.
Outcome(c, t) ==
    IF Decided(c, t, "C") THEN "committed"
    ELSE IF Decided(c, t, "A") THEN "aborted"
    ELSE IF Decided(c, t, "P") \/ Decided(c, t, "") THEN "prepared"
    ELSE "open"

AC == INSTANCE AtomicCommit WITH
        Payment <- Tx, Party <- Cluster, Parties <- Involved,
        outcome <- [c \in Cluster |-> [t \in Tx |-> Outcome(c, t)]]
ImplementsAtomicCommit == AC!ACSpec

Total == MapThenSumSet(LAMBDA c : MapThenSumSet(LAMBDA a : bal[c][a], Account), Cluster)

\* Nothing is under way: all calls have returned and all that is decided is executed.
Quiet ==
    /\ \A t \in Tx : coord[t] = "idle" /\ part[t] \in {"idle", "prepared", "end"}
    /\ \A c \in Cluster, s \in Slot : store[c][s].tx # NoTx => s < exec[c]

\* When nothing is under way and no call of PCPrepare was lost, all the money is
\* there: what a payer was charged was credited to the payee, or given back.
MoneyConserved == Quiet /\ lost = 0 => Total = InitialBalance * Cardinality(Account)

\* A payee's cluster prepares, and so credits, only what the payer's cluster has prepared.
CreditOnlyIfDebited ==
    \A t \in Tx : Decided(Part(t), t, "P") => Decided(Coord(t), t, "P")

\* A payment is committed, by either of its clusters, only when both have prepared it.
CommitOnlyIfPrepared ==
    \A t \in Tx : \A c, d \in Involved(t) :
        ~Intra(t) /\ Decided(c, t, "C") => Decided(d, t, "P")

\* A client is never told both that its payment succeeded and that it failed.
OneAnswer == \A t \in Tx : Cardinality(results[t]) <= 1

\* No account goes below zero as long as no PCCommit is repeated that has committed, though
\* locks are released whoever holds them.
NoOverdraft == unheard = 0 => \A c \in Cluster, a \in Account : bal[c][a] >= 0

\* While no PBFT run and no call fails, every payment is settled or refused in the end and no
\* account stays locked.
PaymentsSettle ==
    [](fails = 0 /\ lost = 0) => /\ \A t \in Tx : <>[](coord[t] = "idle")
                                  /\ <>[](\A c \in Cluster, a \in Account : lock[c][a] = NoTx)
=============================================================================
