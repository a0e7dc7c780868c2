---------------------------- MODULE CrossShardProofs ----------------------------
(***************************************************************************)
(* Proofs about CrossShard, for any clusters, accounts, payments, faults   *)
(* and bounds: typing; that a cluster prepares and commits a payment over  *)
(* two clusters only after the other one has prepared it; and, as long as  *)
(* no call of such a payment is repeated, that the clusters come to one    *)
(* outcome, clients hear one answer and no money is made or lost, however  *)
(* often PCCommit is repeated.  If PCCommit is not repeated either after   *)
(* it has committed, and no payment is called twice, no account is         *)
(* overdrawn.                                                              *)
(*                                                                         *)
(* The slots of a cluster carry the argument: a run of a payment has a     *)
(* slot that no other payment uses, and an outcome gets a slot that is     *)
(* still empty, so a recorded prepare is never written over.  The money    *)
(* follows from what each cluster has executed of what it has stored, and  *)
(* the overdrafts from where its executors can still come to.              *)
(***************************************************************************)
EXTENDS CrossShard, SumProofs

Entry == [tx : Tx \cup {NoTx}, status : Status]

\* The part of TypeOK that the slots need.
SlotType ==
    /\ seq \in [Cluster -> 1..(MaxSlot + 1)]
    /\ slot \in [Cluster -> [Tx -> 0..MaxSlot]]
    /\ store \in [Cluster -> [Slot -> Entry]]

\* Slots that are not taken are empty, and a payment's slot is no other one's, nor
\* does it hold anybody else's entry.
SlotsApart ==
    /\ \A c \in Cluster, s \in Slot : s >= seq[c] => store[c][s].tx = NoTx
    /\ \A c \in Cluster, t \in Tx : slot[c][t] < seq[c]
    /\ \A c \in Cluster : \A t, u \in Tx : t # u => slot[c][t] = 0 \/ slot[c][t] # slot[c][u]
    /\ \A c \in Cluster, s \in Slot : \A t \in Tx :
         slot[c][t] = s => store[c][s].tx \in {NoTx, t}

\* The kinds of steps there are for the slots.
Same            == UNCHANGED <<seq, slot, store>>
SlotTaken(c, t) == (TakeSlot(c, t, 0) \/ TakeSlot(c, t, slot[c][t])) /\ UNCHANGED store
Written(c, t, e) ==
    slot[c][t] \in Slot /\ store' = [store EXCEPT ![c][slot[c][t]] = e] /\ UNCHANGED <<seq, slot>>

LEMMA SlotsTaken ==
    ASSUME SlotType, SlotsApart, NEW c \in Cluster, NEW t \in Tx, SlotTaken(c, t)
    PROVE  /\ SlotType' /\ SlotsApart'
           /\ slot'[c][t] \in Slot
           /\ \A d \in Cluster : \A u \in Tx : d # c \/ u # t => slot'[d][u] = slot[d][u]
           /\ TakeSlot(c, t, 0) => store[c][slot'[c][t]].tx = NoTx
<1> USE CrossShardAssumption
<1>1. CASE TakeSlot(c, t, 0)
  <2>1. seq[c] \in Slot /\ seq' = [seq EXCEPT ![c] = seq[c] + 1]
    BY <1>1 DEF TakeSlot, logClientRequest
  <2>2. slot' = [slot EXCEPT ![c][t] = seq[c]] /\ store' = store
    BY <1>1, <2>1 DEF TakeSlot, logClientRequest, SlotTaken
  <2>3. SlotType'
    <3>1. seq[c] + 1 \in 1..(MaxSlot + 1)
      BY <2>1 DEF Slot
    <3>2. seq' \in [Cluster -> 1..(MaxSlot + 1)]
      BY <2>1, <3>1 DEF SlotType
    <3>3. slot' \in [Cluster -> [Tx -> 0..MaxSlot]]
      BY <2>1, <2>2 DEF SlotType, Slot
    <3> QED
      BY <2>2, <3>2, <3>3 DEF SlotType
  <2>4. /\ slot'[c][t] = seq[c]
        /\ \A d \in Cluster : \A u \in Tx : d # c \/ u # t => slot'[d][u] = slot[d][u]
    BY <2>2 DEF SlotType
  <2>5. seq'[c] = seq[c] + 1 /\ \A d \in Cluster : d # c => seq'[d] = seq[d]
    BY <2>1 DEF SlotType
  <2>6. SlotsApart'
    <3> SUFFICES ASSUME NEW d \in Cluster
                 PROVE  /\ \A s \in Slot : s >= seq'[d] => store'[d][s].tx = NoTx
                        /\ \A u \in Tx : slot'[d][u] < seq'[d]
                        /\ \A u, w \in Tx : u # w => slot'[d][u] = 0 \/ slot'[d][u] # slot'[d][w]
                        /\ \A s \in Slot : \A u \in Tx :
                             slot'[d][u] = s => store'[d][s].tx \in {NoTx, u}
      BY DEF SlotsApart
    <3>1. /\ seq[d] \in Nat /\ Slot \subseteq Nat
          /\ \A u \in Tx : slot[d][u] \in Nat /\ slot[d][u] < seq[d]
          /\ \A s \in Slot : s >= seq[d] => store[d][s].tx = NoTx
          /\ \A u, w \in Tx : u # w => slot[d][u] = 0 \/ slot[d][u] # slot[d][w]
          /\ \A s \in Slot : \A u \in Tx : slot[d][u] = s => store[d][s].tx \in {NoTx, u}
      <4>1. seq[d] \in Nat /\ Slot \subseteq Nat /\ \A u \in Tx : slot[d][u] \in Nat
        BY DEF SlotType, Slot
      <4> QED
        BY <4>1 DEF SlotsApart
    <3>2. CASE d # c
      BY <2>2, <2>4, <2>5, <3>1, <3>2
    <3>3. CASE d = c
      <4>1. \A s \in Slot : s >= seq'[d] => store'[d][s].tx = NoTx
        BY <2>2, <2>5, <3>1, <3>3
      <4>2. \A u \in Tx : slot'[d][u] < seq'[d]
        BY <2>4, <2>5, <3>1, <3>3
      <4>3. \A u, w \in Tx : u # w => slot'[d][u] = 0 \/ slot'[d][u] # slot'[d][w]
        BY <2>4, <3>1, <3>3
      <4>4. \A s \in Slot : \A u \in Tx : slot'[d][u] = s => store'[d][s].tx \in {NoTx, u}
        BY <2>2, <2>4, <3>1, <3>3
      <4> QED
        BY <4>1, <4>2, <4>3, <4>4
    <3> QED
      BY <3>2, <3>3
  <2>7. store[c][slot'[c][t]].tx = NoTx
    BY <2>1, <2>4 DEF SlotsApart, SlotType, Slot
  <2> QED
    BY <2>1, <2>3, <2>4, <2>6, <2>7
<1>2. CASE slot[c][t] # 0 /\ TakeSlot(c, t, slot[c][t]) /\ ~TakeSlot(c, t, 0)
  <2>1. slot[c][t] \in Slot /\ slot' = [slot EXCEPT ![c][t] = slot[c][t]] /\ seq' = seq
    BY <1>2 DEF TakeSlot, logClientRequest
  <2>2. slot' = slot
    BY <2>1 DEF SlotType
  <2> QED
    BY <1>2, <2>1, <2>2 DEF SlotType, SlotsApart, SlotTaken
<1> QED
  BY <1>1, <1>2 DEF SlotTaken

LEMMA SlotsWritten ==
    ASSUME SlotType, SlotsApart, NEW c \in Cluster, NEW t \in Tx, NEW status \in Status,
           Written(c, t, [tx |-> t, status |-> status])
    PROVE  SlotType' /\ SlotsApart'
<1> DEFINE e == [tx |-> t, status |-> status]
<1> DEFINE w == slot[c][t]
<1>1. e \in Entry /\ e.tx = t
  BY DEF Entry
<1>2. w \in Slot /\ store' = [store EXCEPT ![c][w] = e] /\ seq' = seq /\ slot' = slot
  BY DEF Written
<1> HIDE DEF e
<1>3. SlotType'
  BY <1>1, <1>2 DEF SlotType
<1>4. /\ store'[c][w] = e
      /\ \A d \in Cluster : \A s \in Slot : d # c \/ s # w => store'[d][s] = store[d][s]
  BY <1>2 DEF SlotType
<1>5. SlotsApart'
  <2>1. \A d \in Cluster, s \in Slot : s >= seq'[d] => store'[d][s].tx = NoTx
    BY <1>2, <1>4, CrossShardAssumption DEF SlotsApart, SlotType, Slot
  <2>2. \A d \in Cluster, s \in Slot : \A u \in Tx :
          slot'[d][u] = s => store'[d][s].tx \in {NoTx, u}
    <3> SUFFICES ASSUME NEW d \in Cluster, NEW s \in Slot, NEW u \in Tx, slot'[d][u] = s
                 PROVE  store'[d][s].tx \in {NoTx, u}
      OBVIOUS
    <3>1. CASE d = c /\ s = w
      <4>1. u = t
        BY <1>2, <3>1, CrossShardAssumption DEF SlotsApart, Slot
      <4> QED
        BY <1>1, <1>4, <3>1, <4>1
    <3>2. CASE d # c \/ s # w
      BY <1>2, <1>4, <3>2 DEF SlotsApart
    <3> QED
      BY <3>1, <3>2
  <2> QED
    BY <1>2, <2>1, <2>2 DEF SlotsApart
<1> QED
  BY <1>3, <1>5

LEMMA SlotsSame == SlotType /\ SlotsApart /\ Same => SlotType' /\ SlotsApart'
  BY DEF Same, SlotType, SlotsApart

-----------------------------------------------------------------------------
(* Runs have slots.                                                        *)

Running == {"prepare", "commit", "abort"}

\* A run that is under way has its slot.
RunsHaveSlots ==
    \A t \in Tx :
        /\ coord[t] \in Running => slot[Coord(t)][t] \in Slot
        /\ part[t] \in Running => slot[Part(t)][t] \in Slot

PcType ==
    /\ coord \in [Tx -> CoordPc]
    /\ part \in [Tx -> PartPc]
    /\ answer \in [Tx -> {"none", "ok", "error"}]
    /\ told \subseteq Tx

SlotsInv == SlotType /\ SlotsApart /\ PcType /\ RunsHaveSlots

\* A step of payment t leaves the other payments where they are.
Others(t) ==
    \A u \in Tx \ {t} : coord'[u] = coord[u] /\ part'[u] = part[u] /\ answer'[u] = answer[u]

LEMMA Clusters ==
    ASSUME NEW t \in Tx
    PROVE  Coord(t) \in Cluster /\ Part(t) \in Cluster /\ Body[t].from \in Account
           /\ Body[t].to \in Account /\ Body[t].amount \in Nat
  BY CrossShardAssumption DEF Coord, Part

LEMMA RunsAfter ==
    ASSUME SlotsInv, NEW t \in Tx, Others(t), PcType',
           \/ Same
           \/ \E c \in Cluster : SlotTaken(c, t)
           \/ \E c \in Cluster, st \in Status : Written(c, t, [tx |-> t, status |-> st]),
           coord'[t] \in Running /\ coord[t] \notin Running => slot'[Coord(t)][t] \in Slot,
           part'[t] \in Running /\ part[t] \notin Running => slot'[Part(t)][t] \in Slot
    PROVE  SlotsInv'
<1>1. SlotType' /\ SlotsApart'
  BY SlotsSame, SlotsTaken, SlotsWritten DEF SlotsInv
<1>2. \A c \in Cluster : \A u \in Tx : slot[c][u] \in Slot => slot'[c][u] \in Slot
  <2>1. CASE Same \/ \E c \in Cluster, st \in Status : Written(c, t, [tx |-> t, status |-> st])
    BY <2>1 DEF Same, Written
  <2>2. ASSUME NEW c \in Cluster, SlotTaken(c, t)
        PROVE  \A d \in Cluster : \A u \in Tx : slot[d][u] \in Slot => slot'[d][u] \in Slot
    <3>1. /\ slot'[c][t] \in Slot
          /\ \A d \in Cluster : \A u \in Tx : d # c \/ u # t => slot'[d][u] = slot[d][u]
      BY <2>2, SlotsTaken DEF SlotsInv
    <3> QED
      BY <3>1
  <2> QED
    BY <2>1, <2>2
<1>3. RunsHaveSlots'
  <2> SUFFICES ASSUME NEW u \in Tx
               PROVE  /\ coord'[u] \in Running => slot'[Coord(u)][u] \in Slot
                      /\ part'[u] \in Running => slot'[Part(u)][u] \in Slot
    BY DEF RunsHaveSlots, Coord, Part
  <2>1. Coord(u) \in Cluster /\ Part(u) \in Cluster
    BY Clusters
  <2>2. /\ coord[u] \in Running => slot[Coord(u)][u] \in Slot
        /\ part[u] \in Running => slot[Part(u)][u] \in Slot
    BY DEF SlotsInv, RunsHaveSlots
  <2>3. CASE u # t
    BY <1>2, <2>1, <2>2, <2>3 DEF Others
  <2>4. CASE u = t
    BY <1>2, <2>1, <2>2, <2>4
  <2> QED
    BY <2>3, <2>4
<1> QED
  BY <1>1, <1>3 DEF SlotsInv

-----------------------------------------------------------------------------
(* Prepares are kept.                                                      *)

\* What t's prepares at its two clusters are known by.
Prepares(t) ==
    /\ coord[t] \in {"commit", "abort"} => store[Coord(t)][slot[Coord(t)][t]].tx = NoTx
    /\ part[t] \in {"commit", "abort"} => store[Part(t)][slot[Part(t)][t]].tx = NoTx
    /\ \/ coord[t] \in {"ask", "wait", "commit", "abort", "tell", "telling"}
       \/ part[t] # "idle"
       \/ Decided(Part(t), t, "P")
       => Decided(Coord(t), t, "P")
    /\ \/ answer[t] = "ok"
       \/ coord[t] \in {"commit", "tell", "telling"}
       \/ part[t] = "commit"
       \/ Decided(Coord(t), t, "C") \/ Decided(Part(t), t, "C")
       => Decided(Part(t), t, "P")

PreparesInv == \A t \in Tx : ~Intra(t) => Prepares(t)

LEMMA DecidedSame ==
    ASSUME store' = store, NEW c, NEW t, NEW status
    PROVE  Decided(c, t, status)' = Decided(c, t, status)
  BY DEF Decided

LEMMA DecidedWritten ==
    ASSUME SlotsInv, NEW c \in Cluster, NEW t \in Tx, NEW st \in Status,
           Written(c, t, [tx |-> t, status |-> st]),
           NEW d \in Cluster, NEW u \in Tx, NEW status \in Status
    PROVE  /\ Decided(d, u, status)' =>
                Decided(d, u, status) \/ (d = c /\ u = t /\ status = st)
           /\ Decided(c, t, st)'
           /\ /\ Decided(d, u, status)
              /\ d # c \/ u # t \/ status = st \/ store[c][slot[c][t]].tx = NoTx
              => Decided(d, u, status)'
<1> DEFINE w == slot[c][t]
<1> DEFINE e == [tx |-> t, status |-> st]
<1>1. w \in Slot /\ e \in Entry /\ store' = [store EXCEPT ![c][w] = e]
  BY DEF Written, Entry
<1>2. /\ store'[c][w] = e
      /\ \A b \in Cluster : \A s \in Slot : b # c \/ s # w => store'[b][s] = store[b][s]
  BY <1>1 DEF SlotsInv, SlotType
<1>3. store[c][w].tx \in {NoTx, t} /\ NoTx \notin Tx
  BY <1>1, CrossShardAssumption DEF SlotsInv, SlotsApart
<1>4. Decided(d, u, status)' => Decided(d, u, status) \/ (d = c /\ u = t /\ status = st)
  <2> SUFFICES ASSUME NEW s \in Slot, store'[d][s] = [tx |-> u, status |-> status]
               PROVE  Decided(d, u, status) \/ (d = c /\ u = t /\ status = st)
    BY DEF Decided
  <2>1. CASE d = c /\ s = w
    BY <1>2, <2>1
  <2>2. CASE d # c \/ s # w
    BY <1>2, <2>2 DEF Decided
  <2> QED
    BY <2>1, <2>2
<1>5. Decided(c, t, st)'
  BY <1>1, <1>2 DEF Decided
<1>6. ASSUME Decided(d, u, status),
             d # c \/ u # t \/ status = st \/ store[c][slot[c][t]].tx = NoTx
      PROVE  Decided(d, u, status)'
  <2>1. PICK s \in Slot : store[d][s] = [tx |-> u, status |-> status]
    BY <1>6 DEF Decided
  <2>2. CASE d # c \/ s # w
    BY <1>2, <2>1, <2>2 DEF Decided
  <2>3. CASE d = c /\ s = w
    <3>1. u = t /\ status = st
      BY <1>3, <1>6, <2>1, <2>3
    <3> QED
      BY <1>5, <2>3, <3>1
  <2> QED
    BY <2>2, <2>3
<1> QED
  BY <1>4, <1>5, <1>6

\* The steps of one payment leave the prepares of the others.
LEMMA PreparesOthers ==
    ASSUME SlotsInv, NEW t \in Tx, Others(t), NEW u \in Tx, u # t, ~Intra(u), Prepares(u),
           \/ Same
           \/ \E c \in Cluster : SlotTaken(c, t)
           \/ \E c \in Cluster, st \in Status : Written(c, t, [tx |-> t, status |-> st])
    PROVE  Prepares(u)'
<1>1. Coord(u) \in Cluster /\ Part(u) \in Cluster /\ "P" \in Status /\ "C" \in Status
  BY Clusters DEF Status
<1>2. coord'[u] = coord[u] /\ part'[u] = part[u] /\ answer'[u] = answer[u]
  BY DEF Others
<1>3. \A d \in Cluster : slot'[d][u] = slot[d][u]
  <2>1. ASSUME NEW c \in Cluster, SlotTaken(c, t)
        PROVE  \A d \in Cluster : slot'[d][u] = slot[d][u]
    BY <2>1, SlotsTaken DEF SlotsInv
  <2> QED
    BY <2>1 DEF Same, Written
<1>4. \A d \in Cluster, x \in {"P", "C"} : Decided(d, u, x)' = Decided(d, u, x)
  <2>1. CASE store' = store
    BY <2>1, DecidedSame
  <2>2. ASSUME NEW c \in Cluster, NEW st \in Status, Written(c, t, [tx |-> t, status |-> st])
        PROVE  \A d \in Cluster, x \in {"P", "C"} : Decided(d, u, x)' <=> Decided(d, u, x)
    BY <1>1, <2>2, DecidedWritten
  <2>3. \A d \in Cluster, x \in {"P", "C"} : Decided(d, u, x)' \in BOOLEAN /\ Decided(d, u, x) \in BOOLEAN
    BY DEF Decided
  <2> QED
    BY <2>1, <2>2, <2>3 DEF Same, SlotTaken
<1>5. \A d \in Cluster : slot[d][u] \in Slot /\ store[d][slot[d][u]].tx = NoTx
                            => store'[d][slot'[d][u]].tx = NoTx
  <2>1. CASE store' = store
    BY <1>3, <2>1
  <2>2. ASSUME NEW c \in Cluster, NEW st \in Status, Written(c, t, [tx |-> t, status |-> st]),
               NEW d \in Cluster, slot[d][u] \in Slot, store[d][slot[d][u]].tx = NoTx
        PROVE  store'[d][slot'[d][u]].tx = NoTx
    <3>1. d # c \/ slot[d][u] # slot[c][t]
      BY <2>2 DEF SlotsInv, SlotsApart, Slot
    <3>2. store'[d][slot[d][u]] = store[d][slot[d][u]]
      BY <2>2, <3>1 DEF Written, SlotsInv, SlotType
    <3> QED
      BY <1>3, <2>2, <3>2
  <2> QED
    BY <2>1, <2>2 DEF Same, SlotTaken
<1>6. /\ coord[u] \in Running => slot[Coord(u)][u] \in Slot
      /\ part[u] \in Running => slot[Part(u)][u] \in Slot
  BY DEF SlotsInv, RunsHaveSlots
<1> QED
  BY <1>1, <1>2, <1>4, <1>5, <1>6 DEF Prepares, Running, Coord, Part

-----------------------------------------------------------------------------
(* The steps.                                                              *)

PreparedInv == SlotsInv /\ PreparesInv

Kind(t) ==
    \/ Same
    \/ \E c \in Cluster : SlotTaken(c, t)
    \/ \E c \in Cluster, st \in Status : Written(c, t, [tx |-> t, status |-> st])

\* A step of payment t that brings it to program counters c and p and answer a.
Moves(t, c, p, a) ==
    /\ PcType' /\ Others(t)
    /\ coord'[t] = c /\ part'[t] = p /\ answer'[t] = a

LEMMA MovesBy ==
    ASSUME PcType, NEW t \in Tx, told' \subseteq Tx,
           NEW c \in CoordPc, NEW p \in PartPc, NEW a \in {"none", "ok", "error"},
           (coord' = coord /\ coord[t] = c) \/ coord' = [coord EXCEPT ![t] = c],
           (part' = part /\ part[t] = p) \/ part' = [part EXCEPT ![t] = p],
           (answer' = answer /\ answer[t] = a) \/ answer' = [answer EXCEPT ![t] = a]
    PROVE  Moves(t, c, p, a)
<1>1. coord' \in [Tx -> CoordPc] /\ coord'[t] = c /\ \A u \in Tx \ {t} : coord'[u] = coord[u]
  BY DEF PcType
<1>2. part' \in [Tx -> PartPc] /\ part'[t] = p /\ \A u \in Tx \ {t} : part'[u] = part[u]
  BY DEF PcType
<1>3. /\ answer' \in [Tx -> {"none", "ok", "error"}] /\ answer'[t] = a
      /\ \A u \in Tx \ {t} : answer'[u] = answer[u]
  BY DEF PcType
<1> QED
  BY <1>1, <1>2, <1>3 DEF Moves, PcType, Others

LEMMA StepPrepared ==
    ASSUME PreparedInv, NEW t \in Tx, NEW c, NEW p, NEW a, Moves(t, c, p, a), Kind(t),
           c \in Running /\ coord[t] \notin Running => slot'[Coord(t)][t] \in Slot,
           p \in Running /\ part[t] \notin Running => slot'[Part(t)][t] \in Slot,
           ~Intra(t) => Prepares(t)'
    PROVE  PreparedInv'
<1>1. SlotsInv'
  BY RunsAfter DEF PreparedInv, Moves, Kind
<1>2. ASSUME NEW u \in Tx, ~Intra(u), u # t PROVE Prepares(u)'
  BY <1>2, PreparesOthers DEF PreparedInv, PreparesInv, Moves, Kind
<1>3. PreparesInv'
  BY <1>2 DEF PreparesInv, Intra, Coord, Part
<1> QED
  BY <1>1, <1>3 DEF PreparedInv

\* What is known of a payment over two clusters when the step leaves the store.
LEMMA PreparesStoreSame ==
    ASSUME PreparedInv, NEW t \in Tx, ~Intra(t), store' = store, NEW c, NEW p, NEW a, Moves(t, c, p, a),
           c \in {"commit", "abort"} => store[Coord(t)][slot'[Coord(t)][t]].tx = NoTx,
           p \in {"commit", "abort"} => store[Part(t)][slot'[Part(t)][t]].tx = NoTx,
           c \in {"ask", "wait", "commit", "abort", "tell", "telling"} \/ p # "idle"
               => Decided(Coord(t), t, "P"),
           a = "ok" \/ c \in {"commit", "tell", "telling"} \/ p = "commit" => Decided(Part(t), t, "P")
    PROVE  Prepares(t)'
<1>1. Prepares(t)
  BY DEF PreparedInv, PreparesInv
<1>2. \A d \in Cluster, x \in {"P", "C"} : Decided(d, t, x)' = Decided(d, t, x)
  BY DecidedSame
<1>3. Coord(t) \in Cluster /\ Part(t) \in Cluster
  BY Clusters
<1> QED
  BY <1>1, <1>2, <1>3 DEF Prepares, Moves, Coord, Part

LEMMA ExecuteTransactionPrepared ==
    ASSUME PreparedInv, NEW t \in Tx, ExecuteTransaction(t)
    PROVE  PreparedInv'
<1>1. Moves(t, "locks", part[t], answer[t]) /\ Same
  <2>1. PcType
    BY DEF PreparedInv, SlotsInv
  <2>2. coord[t] \in CoordPc /\ part[t] \in PartPc /\ answer[t] \in {"none", "ok", "error"}
    BY <2>1 DEF PcType
  <2> QED
    BY <2>1, <2>2, MovesBy DEF ExecuteTransaction, Same, PcType, CoordPc, PartPc, client, faults, ledger
<1>2. ~Intra(t) => Prepares(t)
  BY DEF PreparedInv, PreparesInv
<1>3. ~Intra(t) => Prepares(t)'
  BY <1>1, <1>2, PreparesStoreSame DEF ExecuteTransaction, Same, Prepares
<1> QED
  BY <1>1, <1>3, StepPrepared DEF Kind, Running, ExecuteTransaction

LEMMA RefusePrepared ==
    ASSUME PreparedInv, NEW t \in Tx, Refuse(t)
    PROVE  PreparedInv'
<1>1. Moves(t, "idle", part[t], answer[t]) /\ Same
  <2>1. PcType
    BY DEF PreparedInv, SlotsInv
  <2>2. coord[t] \in CoordPc /\ part[t] \in PartPc /\ answer[t] \in {"none", "ok", "error"}
    BY <2>1 DEF PcType
  <2> QED
    BY <2>1, <2>2, MovesBy DEF Refuse, Same, PcType, CoordPc, PartPc, client, faults, ledger
<1>2. ~Intra(t) => Prepares(t)
  BY DEF PreparedInv, PreparesInv
<1>3. ~Intra(t) => Prepares(t)'
  BY <1>1, <1>2, PreparesStoreSame DEF Refuse, Same, Prepares
<1> QED
  BY <1>1, <1>3, StepPrepared DEF Kind, Running, Refuse

LEMMA RunFailedPrepared ==
    ASSUME PreparedInv, NEW t \in Tx, RunFailed(t)
    PROVE  PreparedInv'
<1>1. Moves(t, "idle", part[t], answer[t]) /\ Same
  <2>1. PcType
    BY DEF PreparedInv, SlotsInv
  <2>2. coord[t] \in CoordPc /\ part[t] \in PartPc /\ answer[t] \in {"none", "ok", "error"}
    BY <2>1 DEF PcType
  <2> QED
    BY <2>1, <2>2, MovesBy DEF RunFailed, Same, PcType, CoordPc, PartPc, client, faults, ledger
<1>2. ~Intra(t) => Prepares(t)
  BY DEF PreparedInv, PreparesInv
<1>3. ~Intra(t) => Prepares(t)'
  BY <1>1, <1>2, PreparesStoreSame DEF RunFailed, Same, Prepares
<1> QED
  BY <1>1, <1>3, StepPrepared DEF Kind, Running, RunFailed

LEMMA PCPreparePrepared ==
    ASSUME PreparedInv, NEW t \in Tx, PCPrepare(t)
    PROVE  PreparedInv'
<1>1. Moves(t, "wait", "locks", "none") /\ Same
  <2>1. PcType
    BY DEF PreparedInv, SlotsInv
  <2>2. coord[t] \in CoordPc /\ part[t] \in PartPc /\ answer[t] \in {"none", "ok", "error"}
    BY <2>1 DEF PcType
  <2> QED
    BY <2>1, <2>2, MovesBy DEF PCPrepare, Same, PcType, CoordPc, PartPc, client, faults, ledger
<1>2. ~Intra(t) => Prepares(t)
  BY DEF PreparedInv, PreparesInv
<1>3. ~Intra(t) => Prepares(t)'
  BY <1>1, <1>2, PreparesStoreSame DEF PCPrepare, Same, Prepares
<1> QED
  BY <1>1, <1>3, StepPrepared DEF Kind, Running, PCPrepare

LEMMA PartPrepareFailedPrepared ==
    ASSUME PreparedInv, NEW t \in Tx, PartPrepareFailed(t)
    PROVE  PreparedInv'
<1>1. Moves(t, coord[t], "failed", "error") /\ Same
  <2>1. PcType
    BY DEF PreparedInv, SlotsInv
  <2>2. coord[t] \in CoordPc /\ part[t] \in PartPc /\ answer[t] \in {"none", "ok", "error"}
    BY <2>1 DEF PcType
  <2> QED
    BY <2>1, <2>2, MovesBy DEF PartPrepareFailed, Same, PcType, CoordPc, PartPc, client, faults, ledger
<1>2. ~Intra(t) => Prepares(t)
  BY DEF PreparedInv, PreparesInv
<1>3. ~Intra(t) => Prepares(t)'
  BY <1>1, <1>2, PreparesStoreSame DEF PartPrepareFailed, Same, Prepares
<1> QED
  BY <1>1, <1>3, StepPrepared DEF Kind, Running, PartPrepareFailed

LEMMA PartAbortFailedPrepared ==
    ASSUME PreparedInv, NEW t \in Tx, PartAbortFailed(t)
    PROVE  PreparedInv'
<1>1. Moves(t, coord[t], "end", answer[t]) /\ Same
  <2>1. PcType
    BY DEF PreparedInv, SlotsInv
  <2>2. coord[t] \in CoordPc /\ part[t] \in PartPc /\ answer[t] \in {"none", "ok", "error"}
    BY <2>1 DEF PcType
  <2> QED
    BY <2>1, <2>2, MovesBy DEF PartAbortFailed, Same, PcType, CoordPc, PartPc, client, faults, ledger
<1>2. ~Intra(t) => Prepares(t)
  BY DEF PreparedInv, PreparesInv
<1>3. ~Intra(t) => Prepares(t)'
  BY <1>1, <1>2, PreparesStoreSame DEF PartAbortFailed, Same, Prepares
<1> QED
  BY <1>1, <1>3, StepPrepared DEF Kind, Running, PartAbortFailed

LEMMA PCCommitFailedPrepared ==
    ASSUME PreparedInv, NEW t \in Tx, PCCommitFailed(t)
    PROVE  PreparedInv'
<1>1. Moves(t, "tell", "prepared", answer[t]) /\ Same
  <2>1. PcType
    BY DEF PreparedInv, SlotsInv
  <2>2. coord[t] \in CoordPc /\ part[t] \in PartPc /\ answer[t] \in {"none", "ok", "error"}
    BY <2>1 DEF PcType
  <2> QED
    BY <2>1, <2>2, MovesBy DEF PCCommitFailed, Same, PcType, CoordPc, PartPc, client, faults, ledger
<1>2. ~Intra(t) => Prepares(t)
  BY DEF PreparedInv, PreparesInv
<1>3. ~Intra(t) => Prepares(t)'
  BY <1>1, <1>2, PreparesStoreSame DEF PCCommitFailed, Same, Prepares
<1> QED
  BY <1>1, <1>3, StepPrepared DEF Kind, Running, PCCommitFailed

LEMMA PreparePrepared ==
    ASSUME PreparedInv, NEW t \in Tx, Prepare(t)
    PROVE  PreparedInv'
<1>1. Moves(t, "prepare", part[t], answer[t])
  <2>1. PcType
    BY DEF PreparedInv, SlotsInv
  <2>2. coord[t] \in CoordPc /\ part[t] \in PartPc /\ answer[t] \in {"none", "ok", "error"}
    BY <2>1 DEF PcType
  <2> QED
    BY <2>1, <2>2, MovesBy DEF Prepare, PcType, CoordPc, PartPc
<1>2. TakeSlot(Coord(t), t, slot[Coord(t)][t]) /\ store' = store
  BY DEF Prepare, StartMoving, ledger
<1>3. Coord(t) \in Cluster /\ Part(t) \in Cluster
  BY Clusters
<1>4. SlotTaken(Coord(t), t)
  BY <1>2 DEF SlotTaken
<1>5. /\ slot'[Coord(t)][t] \in Slot
      /\ \A d \in Cluster : d # Coord(t) => slot'[d][t] = slot[d][t]
  BY <1>2, <1>3, <1>4, SlotsTaken DEF PreparedInv, SlotsInv
<1>6. ~Intra(t) => Prepares(t) /\ Coord(t) # Part(t)
  BY DEF PreparedInv, PreparesInv, Intra
<1>7. ~Intra(t) => Prepares(t)'
  BY <1>1, <1>2, <1>3, <1>5, <1>6, PreparesStoreSame DEF Prepare, Prepares
<1> QED
  BY <1>1, <1>3, <1>4, <1>5, <1>7, StepPrepared DEF Kind, Running, Prepare

LEMMA StartCommitPrepared ==
    ASSUME PreparedInv, NEW t \in Tx, StartCommit(t)
    PROVE  PreparedInv'
<1>1. Moves(t, "commit", part[t], answer[t])
  <2>1. PcType
    BY DEF PreparedInv, SlotsInv
  <2>2. coord[t] \in CoordPc /\ part[t] \in PartPc /\ answer[t] \in {"none", "ok", "error"}
    BY <2>1 DEF PcType
  <2> QED
    BY <2>1, <2>2, MovesBy DEF StartCommit, PcType, CoordPc, PartPc
<1>2. TakeSlot(Coord(t), t, 0) /\ store' = store
  BY DEF StartCommit, StartOutcome, ledger
<1>3. Coord(t) \in Cluster /\ Part(t) \in Cluster
  BY Clusters
<1>4. SlotTaken(Coord(t), t)
  BY <1>2 DEF SlotTaken
<1>5. /\ slot'[Coord(t)][t] \in Slot
      /\ \A d \in Cluster : d # Coord(t) => slot'[d][t] = slot[d][t]
      /\ store[Coord(t)][slot'[Coord(t)][t]].tx = NoTx
  BY <1>2, <1>3, <1>4, SlotsTaken DEF PreparedInv, SlotsInv
<1>6. ~Intra(t) => Prepares(t) /\ Coord(t) # Part(t)
  BY DEF PreparedInv, PreparesInv, Intra
<1>7. ~Intra(t) => Prepares(t)'
  BY <1>1, <1>2, <1>3, <1>5, <1>6, PreparesStoreSame DEF StartCommit, Prepares
<1> QED
  BY <1>1, <1>3, <1>4, <1>5, <1>7, StepPrepared DEF Kind, Running, StartCommit

LEMMA StartAbortPrepared ==
    ASSUME PreparedInv, NEW t \in Tx, StartAbort(t)
    PROVE  PreparedInv'
<1>1. Moves(t, "abort", part[t], answer[t])
  <2>1. PcType
    BY DEF PreparedInv, SlotsInv
  <2>2. coord[t] \in CoordPc /\ part[t] \in PartPc /\ answer[t] \in {"none", "ok", "error"}
    BY <2>1 DEF PcType
  <2> QED
    BY <2>1, <2>2, MovesBy DEF StartAbort, PcType, CoordPc, PartPc
<1>2. TakeSlot(Coord(t), t, 0) /\ store' = store
  BY DEF StartAbort, StartOutcome, ledger
<1>3. Coord(t) \in Cluster /\ Part(t) \in Cluster
  BY Clusters
<1>4. SlotTaken(Coord(t), t)
  BY <1>2 DEF SlotTaken
<1>5. /\ slot'[Coord(t)][t] \in Slot
      /\ \A d \in Cluster : d # Coord(t) => slot'[d][t] = slot[d][t]
      /\ store[Coord(t)][slot'[Coord(t)][t]].tx = NoTx
  BY <1>2, <1>3, <1>4, SlotsTaken DEF PreparedInv, SlotsInv
<1>6. ~Intra(t) => Prepares(t) /\ Coord(t) # Part(t)
  BY DEF PreparedInv, PreparesInv, Intra
<1>7. ~Intra(t) => Prepares(t)'
  BY <1>1, <1>2, <1>3, <1>5, <1>6, PreparesStoreSame DEF StartAbort, Prepares
<1> QED
  BY <1>1, <1>3, <1>4, <1>5, <1>7, StepPrepared DEF Kind, Running, StartAbort

LEMMA PCPrepareLostPrepared ==
    ASSUME PreparedInv, NEW t \in Tx, PCPrepareLost(t)
    PROVE  PreparedInv'
<1>1. Moves(t, "abort", part[t], answer[t])
  <2>1. PcType
    BY DEF PreparedInv, SlotsInv
  <2>2. coord[t] \in CoordPc /\ part[t] \in PartPc /\ answer[t] \in {"none", "ok", "error"}
    BY <2>1 DEF PcType
  <2> QED
    BY <2>1, <2>2, MovesBy DEF PCPrepareLost, PcType, CoordPc, PartPc
<1>2. TakeSlot(Coord(t), t, 0) /\ store' = store
  BY DEF PCPrepareLost, StartOutcome, ledger
<1>3. Coord(t) \in Cluster /\ Part(t) \in Cluster
  BY Clusters
<1>4. SlotTaken(Coord(t), t)
  BY <1>2 DEF SlotTaken
<1>5. /\ slot'[Coord(t)][t] \in Slot
      /\ \A d \in Cluster : d # Coord(t) => slot'[d][t] = slot[d][t]
      /\ store[Coord(t)][slot'[Coord(t)][t]].tx = NoTx
  BY <1>2, <1>3, <1>4, SlotsTaken DEF PreparedInv, SlotsInv
<1>6. ~Intra(t) => Prepares(t) /\ Coord(t) # Part(t)
  BY DEF PreparedInv, PreparesInv, Intra
<1>7. ~Intra(t) => Prepares(t)'
  BY <1>1, <1>2, <1>3, <1>5, <1>6, PreparesStoreSame DEF PCPrepareLost, Prepares
<1> QED
  BY <1>1, <1>3, <1>4, <1>5, <1>7, StepPrepared DEF Kind, Running, PCPrepareLost

LEMMA PartPreparePrepared ==
    ASSUME PreparedInv, NEW t \in Tx, PartPrepare(t)
    PROVE  PreparedInv'
<1>1. Moves(t, coord[t], "prepare", answer[t])
  <2>1. PcType
    BY DEF PreparedInv, SlotsInv
  <2>2. coord[t] \in CoordPc /\ part[t] \in PartPc /\ answer[t] \in {"none", "ok", "error"}
    BY <2>1 DEF PcType
  <2> QED
    BY <2>1, <2>2, MovesBy DEF PartPrepare, PcType, CoordPc, PartPc
<1>2. TakeSlot(Part(t), t, 0) /\ store' = store
  BY DEF PartPrepare, StartMoving, ledger
<1>3. Coord(t) \in Cluster /\ Part(t) \in Cluster
  BY Clusters
<1>4. SlotTaken(Part(t), t)
  BY <1>2 DEF SlotTaken
<1>5. /\ slot'[Part(t)][t] \in Slot
      /\ \A d \in Cluster : d # Part(t) => slot'[d][t] = slot[d][t]
      /\ store[Part(t)][slot'[Part(t)][t]].tx = NoTx
  BY <1>2, <1>3, <1>4, SlotsTaken DEF PreparedInv, SlotsInv
<1>6. ~Intra(t) => Prepares(t) /\ Coord(t) # Part(t)
  BY DEF PreparedInv, PreparesInv, Intra
<1>7. ~Intra(t) => Prepares(t)'
  BY <1>1, <1>2, <1>3, <1>5, <1>6, PreparesStoreSame DEF PartPrepare, Prepares
<1> QED
  BY <1>1, <1>3, <1>4, <1>5, <1>7, StepPrepared DEF Kind, Running, PartPrepare

LEMMA PCCommitPrepared ==
    ASSUME PreparedInv, NEW t \in Tx, PCCommit(t)
    PROVE  PreparedInv'
<1>1. Moves(t, "telling", "commit", answer[t])
  <2>1. PcType
    BY DEF PreparedInv, SlotsInv
  <2>2. coord[t] \in CoordPc /\ part[t] \in PartPc /\ answer[t] \in {"none", "ok", "error"}
    BY <2>1 DEF PcType
  <2> QED
    BY <2>1, <2>2, MovesBy DEF PCCommit, PcType, CoordPc, PartPc
<1>2. TakeSlot(Part(t), t, 0) /\ store' = store
  BY DEF PCCommit, StartOutcome, ledger
<1>3. Coord(t) \in Cluster /\ Part(t) \in Cluster
  BY Clusters
<1>4. SlotTaken(Part(t), t)
  BY <1>2 DEF SlotTaken
<1>5. /\ slot'[Part(t)][t] \in Slot
      /\ \A d \in Cluster : d # Part(t) => slot'[d][t] = slot[d][t]
      /\ store[Part(t)][slot'[Part(t)][t]].tx = NoTx
  BY <1>2, <1>3, <1>4, SlotsTaken DEF PreparedInv, SlotsInv
<1>6. ~Intra(t) => Prepares(t) /\ Coord(t) # Part(t)
  BY DEF PreparedInv, PreparesInv, Intra
<1>7. ~Intra(t) => Prepares(t)'
  BY <1>1, <1>2, <1>3, <1>5, <1>6, PreparesStoreSame DEF PCCommit, Prepares
<1> QED
  BY <1>1, <1>3, <1>4, <1>5, <1>7, StepPrepared DEF Kind, Running, PCCommit

LEMMA PrepareDonePrepared ==
    ASSUME PreparedInv, NEW t \in Tx, PrepareDone(t)
    PROVE  PreparedInv'
<1>1. Moves(t, (IF Intra(t) THEN "idle" ELSE "ask"), part[t], answer[t])
  <2>1. PcType
    BY DEF PreparedInv, SlotsInv
  <2>2. coord[t] \in CoordPc /\ part[t] \in PartPc /\ answer[t] \in {"none", "ok", "error"}
    BY <2>1 DEF PcType
  <2> QED
    BY <2>1, <2>2, MovesBy DEF PrepareDone, PcType, CoordPc, PartPc
<1>2. Coord(t) \in Cluster /\ Part(t) \in Cluster /\ RunOf(t) \in Status
  BY Clusters DEF Status, RunOf
<1>3. slot[Coord(t)][t] \in Slot
  BY DEF PreparedInv, SlotsInv, RunsHaveSlots, Running, PrepareDone
<1>4. Written(Coord(t), t, [tx |-> t, status |-> RunOf(t)])
  BY <1>3 DEF Written, PrepareDone, Decide
<1>5. ~Intra(t) => Prepares(t)'
  <2> SUFFICES ASSUME ~Intra(t) PROVE Prepares(t)'
    OBVIOUS
  <2>1. Prepares(t) /\ Coord(t) # Part(t) /\ "P" \in Status /\ "C" \in Status
    BY DEF PreparedInv, PreparesInv, Intra, Status
  <2>2. RunOf(t) = "P" /\ Written(Coord(t), t, [tx |-> t, status |-> "P"])
    BY <1>4 DEF RunOf, PrepareDone
  <2>3. \A d \in Cluster, x \in {"P", "C"} :
          /\ Decided(d, t, x)' => Decided(d, t, x) \/ (d = Coord(t) /\ x = "P")
          /\ Decided(d, t, x) /\ (d # Coord(t) \/ x = "P" \/ store[Coord(t)][slot[Coord(t)][t]].tx = NoTx)
               => Decided(d, t, x)'
    BY <1>2, <2>2, <2>1, DecidedWritten DEF PreparedInv
  <2>4. Decided(Coord(t), t, "P")'
    BY <1>2, <2>2, <2>1, DecidedWritten DEF PreparedInv
  <2>5. \A d \in Cluster : d # Coord(t) => store'[d] = store[d] /\ slot'[d] = slot[d]
    BY <1>4 DEF Written, PreparedInv, SlotsInv, SlotType
  <2>6. coord[t] = "prepare" /\ coord'[t] = "ask" /\ part'[t] = part[t] /\ answer'[t] = answer[t]
    BY <1>1, <2>1 DEF Moves, PrepareDone, Intra
  <2>7. part[t] \in {"commit", "abort"} => store'[Part(t)][slot'[Part(t)][t]].tx = NoTx
    BY <1>2, <2>1, <2>5 DEF Prepares
  <2>8. /\ Decided(Part(t), t, "P")' => Decided(Part(t), t, "P")
        /\ Decided(Part(t), t, "P") => Decided(Part(t), t, "P")'
    <3>1. Part(t) \in Cluster /\ Part(t) # Coord(t) /\ "P" \in {"P", "C"}
      BY <1>2, <2>1
    <3> QED
      BY <2>3, <3>1, Zenon
  <2>9. Decided(Part(t), t, "C")' => Decided(Part(t), t, "C")
    BY <1>2, <2>1, <2>3
  <2>10. Decided(Coord(t), t, "C")' => Decided(Coord(t), t, "C")
    BY <1>2, <2>1, <2>3
  <2>11. \/ answer'[t] = "ok" \/ part'[t] = "commit"
         \/ Decided(Coord(t), t, "C")' \/ Decided(Part(t), t, "C")'
         => Decided(Part(t), t, "P")'
    BY <2>1, <2>6, <2>8, <2>9, <2>10 DEF Prepares
  <2>12. Coord(t)' = Coord(t) /\ Part(t)' = Part(t)
    BY DEF Coord, Part
  <2> QED
    BY <2>4, <2>6, <2>7, <2>11, <2>12 DEF Prepares
<1> QED
  BY <1>1, <1>2, <1>4, <1>5, StepPrepared DEF Kind, Running

LEMMA CommitDonePrepared ==
    ASSUME PreparedInv, NEW t \in Tx, CommitDone(t)
    PROVE  PreparedInv'
<1>1. Moves(t, "tell", part[t], answer[t])
  <2>1. PcType
    BY DEF PreparedInv, SlotsInv
  <2>2. coord[t] \in CoordPc /\ part[t] \in PartPc /\ answer[t] \in {"none", "ok", "error"}
    BY <2>1 DEF PcType
  <2> QED
    BY <2>1, <2>2, MovesBy DEF CommitDone, PcType, CoordPc, PartPc
<1>2. Coord(t) \in Cluster /\ Part(t) \in Cluster /\ "C" \in Status
  BY Clusters DEF Status
<1>3. slot[Coord(t)][t] \in Slot
  BY DEF PreparedInv, SlotsInv, RunsHaveSlots, Running, CommitDone
<1>4. Written(Coord(t), t, [tx |-> t, status |-> "C"])
  BY <1>3 DEF Written, CommitDone
<1>5. ~Intra(t) => Prepares(t)'
  <2> SUFFICES ASSUME ~Intra(t) PROVE Prepares(t)'
    OBVIOUS
  <2>1. Prepares(t) /\ Coord(t) # Part(t) /\ "P" \in Status /\ "C" \in Status
    BY DEF PreparedInv, PreparesInv, Intra, Status
  <2>2. \A d \in Cluster, x \in {"P", "C"} :
          /\ Decided(d, t, x)' => Decided(d, t, x) \/ (d = Coord(t) /\ x = "C")
          /\ Decided(d, t, x) /\ (d # Coord(t) \/ x = "C" \/ store[Coord(t)][slot[Coord(t)][t]].tx = NoTx)
               => Decided(d, t, x)'
    BY <1>2, <1>4, <2>1, DecidedWritten DEF PreparedInv
  <2>3. Decided(Coord(t), t, "C")'
    BY <1>2, <1>4, <2>1, DecidedWritten DEF PreparedInv
  <2>4. \A d \in Cluster : d # Coord(t) => store'[d] = store[d] /\ slot'[d] = slot[d]
    BY <1>4 DEF Written, PreparedInv, SlotsInv, SlotType
  <2> QED
    BY <1>1, <1>2, <2>1, <2>2, <2>3, <2>4 DEF Prepares, Moves, CommitDone, Coord, Part
<1> QED
  BY <1>1, <1>2, <1>4, <1>5, StepPrepared DEF Kind, Running

LEMMA AbortDonePrepared ==
    ASSUME PreparedInv, NEW t \in Tx, AbortDone(t)
    PROVE  PreparedInv'
<1>1. Moves(t, "idle", part[t], answer[t])
  <2>1. PcType
    BY DEF PreparedInv, SlotsInv
  <2>2. coord[t] \in CoordPc /\ part[t] \in PartPc /\ answer[t] \in {"none", "ok", "error"}
    BY <2>1 DEF PcType
  <2> QED
    BY <2>1, <2>2, MovesBy DEF AbortDone, PcType, CoordPc, PartPc
<1>2. Coord(t) \in Cluster /\ Part(t) \in Cluster /\ "A" \in Status
  BY Clusters DEF Status
<1>3. slot[Coord(t)][t] \in Slot
  BY DEF PreparedInv, SlotsInv, RunsHaveSlots, Running, AbortDone
<1>4. Written(Coord(t), t, [tx |-> t, status |-> "A"])
  BY <1>3 DEF Written, AbortDone, Decide
<1>5. ~Intra(t) => Prepares(t)'
  <2> SUFFICES ASSUME ~Intra(t) PROVE Prepares(t)'
    OBVIOUS
  <2>1. Prepares(t) /\ Coord(t) # Part(t) /\ "P" \in Status /\ "C" \in Status
    BY DEF PreparedInv, PreparesInv, Intra, Status
  <2>2. \A d \in Cluster, x \in {"P", "C"} :
          /\ Decided(d, t, x)' => Decided(d, t, x) \/ (d = Coord(t) /\ x = "A")
          /\ Decided(d, t, x) /\ (d # Coord(t) \/ x = "A" \/ store[Coord(t)][slot[Coord(t)][t]].tx = NoTx)
               => Decided(d, t, x)'
    BY <1>2, <1>4, <2>1, DecidedWritten DEF PreparedInv
  <2>3. Decided(Coord(t), t, "A")'
    BY <1>2, <1>4, <2>1, DecidedWritten DEF PreparedInv
  <2>4. \A d \in Cluster : d # Coord(t) => store'[d] = store[d] /\ slot'[d] = slot[d]
    BY <1>4 DEF Written, PreparedInv, SlotsInv, SlotType
  <2> QED
    BY <1>1, <1>2, <2>1, <2>2, <2>3, <2>4 DEF Prepares, Moves, AbortDone, Coord, Part
<1> QED
  BY <1>1, <1>2, <1>4, <1>5, StepPrepared DEF Kind, Running

LEMMA PartPrepareDonePrepared ==
    ASSUME PreparedInv, NEW t \in Tx, PartPrepareDone(t)
    PROVE  PreparedInv'
<1>1. Moves(t, coord[t], "prepared", "ok")
  <2>1. PcType
    BY DEF PreparedInv, SlotsInv
  <2>2. coord[t] \in CoordPc /\ part[t] \in PartPc /\ answer[t] \in {"none", "ok", "error"}
    BY <2>1 DEF PcType
  <2> QED
    BY <2>1, <2>2, MovesBy DEF PartPrepareDone, PcType, CoordPc, PartPc
<1>2. Coord(t) \in Cluster /\ Part(t) \in Cluster /\ "P" \in Status
  BY Clusters DEF Status
<1>3. slot[Part(t)][t] \in Slot
  BY DEF PreparedInv, SlotsInv, RunsHaveSlots, Running, PartPrepareDone
<1>4. Written(Part(t), t, [tx |-> t, status |-> "P"])
  BY <1>3 DEF Written, PartPrepareDone, Decide
<1>5. ~Intra(t) => Prepares(t)'
  <2> SUFFICES ASSUME ~Intra(t) PROVE Prepares(t)'
    OBVIOUS
  <2>1. Prepares(t) /\ Coord(t) # Part(t) /\ "P" \in Status /\ "C" \in Status
    BY DEF PreparedInv, PreparesInv, Intra, Status
  <2>2. \A d \in Cluster, x \in {"P", "C"} :
          /\ Decided(d, t, x)' => Decided(d, t, x) \/ (d = Part(t) /\ x = "P")
          /\ Decided(d, t, x) /\ (d # Part(t) \/ x = "P" \/ store[Part(t)][slot[Part(t)][t]].tx = NoTx)
               => Decided(d, t, x)'
    BY <1>2, <1>4, <2>1, DecidedWritten DEF PreparedInv
  <2>3. Decided(Part(t), t, "P")'
    BY <1>2, <1>4, <2>1, DecidedWritten DEF PreparedInv
  <2>4. \A d \in Cluster : d # Part(t) => store'[d] = store[d] /\ slot'[d] = slot[d]
    BY <1>4 DEF Written, PreparedInv, SlotsInv, SlotType
  <2> QED
    BY <1>1, <1>2, <2>1, <2>2, <2>3, <2>4 DEF Prepares, Moves, PartPrepareDone, Coord, Part
<1> QED
  BY <1>1, <1>2, <1>4, <1>5, StepPrepared DEF Kind, Running

LEMMA PartAbortDonePrepared ==
    ASSUME PreparedInv, NEW t \in Tx, PartAbortDone(t)
    PROVE  PreparedInv'
<1>1. Moves(t, coord[t], "end", answer[t])
  <2>1. PcType
    BY DEF PreparedInv, SlotsInv
  <2>2. coord[t] \in CoordPc /\ part[t] \in PartPc /\ answer[t] \in {"none", "ok", "error"}
    BY <2>1 DEF PcType
  <2> QED
    BY <2>1, <2>2, MovesBy DEF PartAbortDone, PcType, CoordPc, PartPc
<1>2. Coord(t) \in Cluster /\ Part(t) \in Cluster /\ "A" \in Status
  BY Clusters DEF Status
<1>3. slot[Part(t)][t] \in Slot
  BY DEF PreparedInv, SlotsInv, RunsHaveSlots, Running, PartAbortDone
<1>4. Written(Part(t), t, [tx |-> t, status |-> "A"])
  BY <1>3 DEF Written, PartAbortDone, Decide
<1>5. ~Intra(t) => Prepares(t)'
  <2> SUFFICES ASSUME ~Intra(t) PROVE Prepares(t)'
    OBVIOUS
  <2>1. Prepares(t) /\ Coord(t) # Part(t) /\ "P" \in Status /\ "C" \in Status
    BY DEF PreparedInv, PreparesInv, Intra, Status
  <2>2. \A d \in Cluster, x \in {"P", "C"} :
          /\ Decided(d, t, x)' => Decided(d, t, x) \/ (d = Part(t) /\ x = "A")
          /\ Decided(d, t, x) /\ (d # Part(t) \/ x = "A" \/ store[Part(t)][slot[Part(t)][t]].tx = NoTx)
               => Decided(d, t, x)'
    BY <1>2, <1>4, <2>1, DecidedWritten DEF PreparedInv
  <2>3. Decided(Part(t), t, "A")'
    BY <1>2, <1>4, <2>1, DecidedWritten DEF PreparedInv
  <2>4. \A d \in Cluster : d # Part(t) => store'[d] = store[d] /\ slot'[d] = slot[d]
    BY <1>4 DEF Written, PreparedInv, SlotsInv, SlotType
  <2> QED
    BY <1>1, <1>2, <2>1, <2>2, <2>3, <2>4 DEF Prepares, Moves, PartAbortDone, Coord, Part
<1> QED
  BY <1>1, <1>2, <1>4, <1>5, StepPrepared DEF Kind, Running

LEMMA PCCommitDonePrepared ==
    ASSUME PreparedInv, NEW t \in Tx, PCCommitDone(t)
    PROVE  PreparedInv'
<1>1. Moves(t, "idle", "end", answer[t])
  <2>1. PcType
    BY DEF PreparedInv, SlotsInv
  <2>2. coord[t] \in CoordPc /\ part[t] \in PartPc /\ answer[t] \in {"none", "ok", "error"}
    BY <2>1 DEF PcType
  <2> QED
    BY <2>1, <2>2, MovesBy DEF PCCommitDone, PcType, CoordPc, PartPc
<1>2. Coord(t) \in Cluster /\ Part(t) \in Cluster /\ "C" \in Status
  BY Clusters DEF Status
<1>3. slot[Part(t)][t] \in Slot
  BY DEF PreparedInv, SlotsInv, RunsHaveSlots, Running, PCCommitDone
<1>4. Written(Part(t), t, [tx |-> t, status |-> "C"])
  BY <1>3 DEF Written, PCCommitDone, Decide
<1>5. ~Intra(t) => Prepares(t)'
  <2> SUFFICES ASSUME ~Intra(t) PROVE Prepares(t)'
    OBVIOUS
  <2>1. Prepares(t) /\ Coord(t) # Part(t) /\ "P" \in Status /\ "C" \in Status
    BY DEF PreparedInv, PreparesInv, Intra, Status
  <2>2. \A d \in Cluster, x \in {"P", "C"} :
          /\ Decided(d, t, x)' => Decided(d, t, x) \/ (d = Part(t) /\ x = "C")
          /\ Decided(d, t, x) /\ (d # Part(t) \/ x = "C" \/ store[Part(t)][slot[Part(t)][t]].tx = NoTx)
               => Decided(d, t, x)'
    BY <1>2, <1>4, <2>1, DecidedWritten DEF PreparedInv
  <2>3. Decided(Part(t), t, "C")'
    BY <1>2, <1>4, <2>1, DecidedWritten DEF PreparedInv
  <2>4. \A d \in Cluster : d # Part(t) => store'[d] = store[d] /\ slot'[d] = slot[d]
    BY <1>4 DEF Written, PreparedInv, SlotsInv, SlotType
  <2> QED
    BY <1>1, <1>2, <2>1, <2>2, <2>3, <2>4 DEF Prepares, Moves, PCCommitDone, Coord, Part
<1> QED
  BY <1>1, <1>2, <1>4, <1>5, StepPrepared DEF Kind, Running

LEMMA PCCommitUnheardPrepared ==
    ASSUME PreparedInv, NEW t \in Tx, PCCommitUnheard(t)
    PROVE  PreparedInv'
<1>1. Moves(t, "tell", "end", answer[t])
  <2>1. PcType
    BY DEF PreparedInv, SlotsInv
  <2>2. coord[t] \in CoordPc /\ part[t] \in PartPc /\ answer[t] \in {"none", "ok", "error"}
    BY <2>1 DEF PcType
  <2> QED
    BY <2>1, <2>2, MovesBy DEF PCCommitUnheard, PcType, CoordPc, PartPc
<1>2. Coord(t) \in Cluster /\ Part(t) \in Cluster /\ "C" \in Status
  BY Clusters DEF Status
<1>3. slot[Part(t)][t] \in Slot
  BY DEF PreparedInv, SlotsInv, RunsHaveSlots, Running, PCCommitUnheard
<1>4. Written(Part(t), t, [tx |-> t, status |-> "C"])
  BY <1>3 DEF Written, PCCommitUnheard, Decide
<1>5. ~Intra(t) => Prepares(t)'
  <2> SUFFICES ASSUME ~Intra(t) PROVE Prepares(t)'
    OBVIOUS
  <2>1. Prepares(t) /\ Coord(t) # Part(t) /\ "P" \in Status /\ "C" \in Status
    BY DEF PreparedInv, PreparesInv, Intra, Status
  <2>2. \A d \in Cluster, x \in {"P", "C"} :
          /\ Decided(d, t, x)' => Decided(d, t, x) \/ (d = Part(t) /\ x = "C")
          /\ Decided(d, t, x) /\ (d # Part(t) \/ x = "C" \/ store[Part(t)][slot[Part(t)][t]].tx = NoTx)
               => Decided(d, t, x)'
    BY <1>2, <1>4, <2>1, DecidedWritten DEF PreparedInv
  <2>3. Decided(Part(t), t, "C")'
    BY <1>2, <1>4, <2>1, DecidedWritten DEF PreparedInv
  <2>4. \A d \in Cluster : d # Part(t) => store'[d] = store[d] /\ slot'[d] = slot[d]
    BY <1>4 DEF Written, PreparedInv, SlotsInv, SlotType
  <2> QED
    BY <1>1, <1>2, <2>1, <2>2, <2>3, <2>4 DEF Prepares, Moves, PCCommitUnheard, Coord, Part
<1> QED
  BY <1>1, <1>2, <1>4, <1>5, StepPrepared DEF Kind, Running

LEMMA WaitForPCCommitPrepared ==
    ASSUME PreparedInv, NEW t \in Tx, WaitForPCCommit(t)
    PROVE  PreparedInv'
<1>1. PcType /\ coord[t] \in CoordPc /\ answer[t] \in {"none", "ok", "error"}
  BY DEF PreparedInv, SlotsInv, PcType
<1>2. Coord(t) \in Cluster /\ Part(t) \in Cluster /\ store' = store
  BY Clusters DEF WaitForPCCommit, ledger
<1>3. ~Intra(t) => Prepares(t) /\ Coord(t) # Part(t)
  BY DEF PreparedInv, PreparesInv, Intra
<1>4. CASE t \in told
  <2>1. Moves(t, coord[t], "end", answer[t]) /\ Same
    BY <1>1, <1>2, <1>4, MovesBy DEF WaitForPCCommit, PcType, PartPc, Same
  <2>2. ~Intra(t) => Prepares(t)'
    BY <1>2, <1>3, <2>1, PreparesStoreSame DEF Same, Prepares, WaitForPCCommit
  <2> QED
    BY <2>1, <2>2, StepPrepared DEF Kind, Running
<1>5. CASE t \notin told
  <2>1. Moves(t, coord[t], "abort", answer[t])
    BY <1>1, <1>5, MovesBy DEF WaitForPCCommit, PcType, PartPc
  <2>2. TakeSlot(Part(t), t, 0) /\ SlotTaken(Part(t), t)
    BY <1>2, <1>5 DEF WaitForPCCommit, StartOutcome, SlotTaken
  <2>3. /\ slot'[Part(t)][t] \in Slot
        /\ \A d \in Cluster : d # Part(t) => slot'[d][t] = slot[d][t]
        /\ store[Part(t)][slot'[Part(t)][t]].tx = NoTx
    BY <1>2, <2>2, SlotsTaken DEF PreparedInv, SlotsInv
  <2>4. ~Intra(t) => Prepares(t)'
    BY <1>2, <1>3, <2>1, <2>3, PreparesStoreSame DEF WaitForPCCommit, Prepares
  <2> QED
    BY <1>2, <2>1, <2>2, <2>3, <2>4, StepPrepared DEF Kind, Running
<1> QED
  BY <1>4, <1>5

\* The executor and steps that change nothing.
LEMMA StillPrepared ==
    ASSUME PreparedInv, UNCHANGED <<coord, part, answer, told, seq, slot, store>>
    PROVE  PreparedInv'
<1>1. SlotsInv'
  BY DEF PreparedInv, SlotsInv, SlotType, SlotsApart, PcType, RunsHaveSlots, Coord, Part
<1>2. PreparesInv'
  <2> SUFFICES ASSUME NEW t \in Tx, ~Intra(t) PROVE Prepares(t)'
    BY DEF PreparesInv, Intra, Coord, Part
  <2>1. Prepares(t)
    BY DEF PreparedInv, PreparesInv
  <2>2. \A d, x : Decided(d, t, x)' = Decided(d, t, x)
    BY DecidedSame
  <2> QED
    BY <2>1, <2>2 DEF Prepares, Coord, Part
<1> QED
  BY <1>1, <1>2 DEF PreparedInv

-----------------------------------------------------------------------------
(* Typing of what the argument does not need.                              *)

LockType == [Cluster -> [Account -> Tx \cup {NoTx}]]

CountType ==
    /\ calls \in [Tx -> 0..MaxCalls]
    /\ fails \in 0..MaxFails
    /\ lost \in 0..MaxLost
    /\ unheard \in 0..MaxUnheard
    /\ results \in [Tx -> SUBSET BOOLEAN]

MoneyType ==
    /\ exec \in [Cluster -> 1..(MaxSlot + 1)]
    /\ lock \in LockType
    /\ bal \in [Cluster -> [Account -> Int]]
    /\ wal \in [Cluster -> [Tx -> Nat]]

LEMMA TypeParts == TypeOK <=> SlotType /\ PcType /\ CountType /\ MoneyType
  BY DEF TypeOK, SlotType, PcType, CountType, MoneyType, LockType, Entry

LEMMA SetLocksType ==
    ASSUME lock \in LockType, NEW c \in Cluster, NEW t \in Tx, NEW h \in Tx \cup {NoTx}
    PROVE  SetLocks(c, t, h) \in LockType
<1> DEFINE new == [a \in Account |-> IF a \in Accts(t) THEN h ELSE lock[c][a]]
<1>1. new \in [Account -> Tx \cup {NoTx}]
  BY DEF LockType
<1>2. SetLocks(c, t, h) = [lock EXCEPT ![c] = new]
  BY DEF SetLocks
<1> HIDE DEF new
<1> QED
  BY <1>1, <1>2 DEF LockType

LEMMA StartMovingType ==
    ASSUME lock \in LockType, NEW c \in Cluster, NEW t \in Tx, NEW old, StartMoving(c, t, old)
    PROVE  lock' \in LockType
  BY SetLocksType DEF StartMoving, Locked

LEMMA FailType ==
    ASSUME CountType, lock \in LockType, NEW c \in Cluster, NEW t \in Tx, NEW st, Fail(c, t, st)
    PROVE  lock' \in LockType /\ fails' \in 0..MaxFails
<1>1. lock' \in LockType
  BY SetLocksType DEF Fail, Released
<1>2. fails' \in 0..MaxFails
  BY CrossShardAssumption DEF Fail, CountType
<1> QED
  BY <1>1, <1>2

LEMMA DecideType ==
    ASSUME MoneyType, NEW c \in Cluster, NEW t \in Tx, NEW st, Decide(c, t, st)
    PROVE  wal' \in [Cluster -> [Tx -> Nat]]
<1>1. wal[c][t] + 1 \in Nat
  BY DEF MoneyType
<1>2. CASE st = "P"
  BY <1>1, <1>2 DEF Decide, AppendToWALEntry, MoneyType
<1>3. CASE st # "P"
  BY <1>3 DEF Decide, AppendToWALEntry, MoneyType
<1> QED
  BY <1>2, <1>3

LEMMA CoordinatorType ==
    ASSUME CountType, MoneyType, NEW t \in Tx, CoordinatorStep(t) \/ ExecuteTransaction(t)
    PROVE  CountType' /\ MoneyType'
<1> USE DEF client, faults, ledger, applied
<1>1. Coord(t) \in Cluster /\ lock \in LockType
  BY Clusters DEF MoneyType
<1>2. CASE ExecuteTransaction(t)
  <2>1. calls[t] + 1 \in 0..MaxCalls
    BY <1>2, CrossShardAssumption DEF ExecuteTransaction, CountType
  <2>2. calls' \in [Tx -> 0..MaxCalls]
    BY <1>2, <2>1 DEF ExecuteTransaction, CountType
  <2> QED
    BY <1>2, <2>2 DEF ExecuteTransaction, CountType, MoneyType
<1>3. CASE Refuse(t)
  BY <1>3 DEF Refuse, CountType, MoneyType
<1>4. CASE Prepare(t)
  BY <1>1, <1>4, StartMovingType DEF Prepare, CountType, MoneyType
<1>5. CASE PrepareDone(t)
  BY <1>1, <1>5, DecideType DEF PrepareDone, CountType, MoneyType
<1>6. CASE StartCommit(t) \/ StartAbort(t)
  BY <1>6 DEF StartCommit, StartAbort, StartOutcome, CountType, MoneyType
<1>7. CASE CommitDone(t)
  BY <1>1, <1>7 DEF CommitDone, EraseWal, CountType, MoneyType
<1>8. CASE AbortDone(t)
  BY <1>1, <1>8, DecideType DEF AbortDone, CountType, MoneyType
<1> QED
  BY <1>2, <1>3, <1>4, <1>5, <1>6, <1>7, <1>8 DEF CoordinatorStep

LEMMA ParticipantType ==
    ASSUME CountType, MoneyType, NEW t \in Tx, ParticipantStep(t)
    PROVE  CountType' /\ MoneyType'
<1> USE DEF client, faults, ledger, applied
<1>1. Part(t) \in Cluster /\ lock \in LockType
  BY Clusters DEF MoneyType
<1>2. CASE PCPrepare(t)
  BY <1>2 DEF PCPrepare, CountType, MoneyType
<1>3. CASE PartPrepare(t)
  BY <1>1, <1>3, StartMovingType DEF PartPrepare, CountType, MoneyType
<1>4. CASE PartPrepareDone(t)
  BY <1>1, <1>4, DecideType DEF PartPrepareDone, CountType, MoneyType
<1>5. CASE WaitForPCCommit(t)
  BY <1>5 DEF WaitForPCCommit, StartOutcome, CountType, MoneyType
<1>6. CASE PartAbortDone(t)
  BY <1>1, <1>6, DecideType DEF PartAbortDone, CountType, MoneyType
<1>7. CASE PCCommit(t)
  BY <1>7 DEF PCCommit, StartOutcome, CountType, MoneyType
<1>8. CASE PCCommitDone(t)
  BY <1>1, <1>8, DecideType DEF PCCommitDone, CountType, MoneyType
<1> QED
  BY <1>2, <1>3, <1>4, <1>5, <1>6, <1>7, <1>8 DEF ParticipantStep

LEMMA FaultType ==
    ASSUME CountType, MoneyType, NEW t \in Tx, Fault(t)
    PROVE  CountType' /\ MoneyType'
<1> USE DEF client, faults, ledger, applied
<1>1. Coord(t) \in Cluster /\ Part(t) \in Cluster /\ lock \in LockType
  BY Clusters DEF MoneyType
<1>2. CASE RunFailed(t)
  BY <1>1, <1>2, FailType DEF RunFailed, CountType, MoneyType
<1>3. CASE PCPrepareLost(t)
  <2>1. lost' \in 0..MaxLost
    BY <1>3, CrossShardAssumption DEF PCPrepareLost, CountType
  <2> QED
    BY <1>3, <2>1 DEF PCPrepareLost, StartOutcome, CountType, MoneyType
<1>4. CASE PartPrepareFailed(t)
  BY <1>1, <1>4, FailType DEF PartPrepareFailed, CountType, MoneyType
<1>5. CASE PartAbortFailed(t)
  BY <1>1, <1>5, FailType DEF PartAbortFailed, CountType, MoneyType
<1>6. CASE PCCommitFailed(t)
  BY <1>1, <1>6, FailType DEF PCCommitFailed, CountType, MoneyType
<1>7. CASE PCCommitUnheard(t)
  <2>1. unheard' \in 0..MaxUnheard
    BY <1>7, CrossShardAssumption DEF PCCommitUnheard, CountType
  <2> QED
    BY <1>1, <1>7, <2>1, DecideType DEF PCCommitUnheard, CountType, MoneyType
<1> QED
  BY <1>2, <1>3, <1>4, <1>5, <1>6, <1>7 DEF Fault

LEMMA NetInt ==
    ASSUME MoneyType, NEW c \in Cluster, NEW t \in Tx, NEW a \in Account, NEW st
    PROVE  Times(c, t, st) * Net(c, t, a) \in Int
<1>1. Times(c, t, st) \in Int
  <2>1. wal[c][t] \in Nat
    BY DEF MoneyType
  <2>2. 0 - wal[c][t] \in Int /\ 1 \in Int /\ 0 \in Int
    BY <2>1
  <2>3. Times(c, t, st) \in {1, 0 - wal[c][t], 0}
    BY Zenon DEF Times
  <2> QED
    BY <2>2, <2>3
<1>2. Net(c, t, a) \in Int
  BY Clusters DEF Net
<1> HIDE DEF Times, Net
<1> QED
  BY <1>1, <1>2

LEMMA ExecuteType ==
    ASSUME SlotType, CountType, MoneyType, NEW c \in Cluster, Execute(c)
    PROVE  CountType' /\ MoneyType'
<1> DEFINE s == exec[c]
<1> DEFINE e == store[c][s]
<1>1. s \in Slot /\ e.tx \in Tx
  BY DEF Execute, CanExecute, SlotType, Entry
<1>2. exec' \in [Cluster -> 1..(MaxSlot + 1)]
  <2>1. s + 1 \in 1..(MaxSlot + 1) /\ exec' = [exec EXCEPT ![c] = s + 1]
    BY <1>1, CrossShardAssumption DEF Execute, Slot
  <2> QED
    BY <2>1 DEF MoneyType
<1>3. bal' \in [Cluster -> [Account -> Int]]
  <2> DEFINE new == [a \in Account |-> bal[c][a] + Times(c, e.tx, e.status) * Net(c, e.tx, a)]
  <2>1. new \in [Account -> Int]
    <3>1. \A a \in Account : bal[c][a] \in Int /\ Times(c, e.tx, e.status) * Net(c, e.tx, a) \in Int
      BY <1>1, NetInt DEF MoneyType
    <3>2. \A a \in Account : bal[c][a] + Times(c, e.tx, e.status) * Net(c, e.tx, a) \in Int
      BY <3>1
    <3> QED
      BY <3>2
  <2>2. bal' = [bal EXCEPT ![c] = new]
    BY DEF Execute
  <2> HIDE DEF new
  <2> QED
    BY <2>1, <2>2 DEF MoneyType
<1>4. lock' \in LockType /\ results' \in [Tx -> SUBSET BOOLEAN]
  <2>1. CASE e.status = "P"
    BY <2>1 DEF Execute, MoneyType, CountType
  <2>2. CASE e.status # "P"
    <3>1. lock' \in LockType
      BY <1>1, <2>2, SetLocksType DEF Execute, Released, MoneyType
    <3>2. results' = [results EXCEPT ![e.tx] = @ \cup {e.status # "A"}]
      BY <2>2 DEF Execute
    <3>3. {e.status # "A"} \subseteq BOOLEAN
      OBVIOUS
    <3>4. results[e.tx] \cup {e.status # "A"} \in SUBSET BOOLEAN
      BY <1>1, <3>3 DEF CountType
    <3> QED
      BY <1>1, <3>1, <3>2, <3>4 DEF CountType
  <2> QED
    BY <2>1, <2>2
<1> QED
  BY <1>2, <1>3, <1>4 DEF Execute, CountType, MoneyType, faults, ledger

-----------------------------------------------------------------------------
(* The theorems.                                                           *)

CrossInv == TypeOK /\ PreparedInv

LEMMA InitCross == Init => CrossInv
<1> SUFFICES ASSUME Init PROVE CrossInv
  OBVIOUS
<1>1. SlotType
  <2>1. 1 \in 1..(MaxSlot + 1) /\ 0 \in 0..MaxSlot
    BY CrossShardAssumption
  <2>2. NoEntry \in Entry
    BY DEF NoEntry, Entry, Status
  <2>3. seq \in [Cluster -> 1..(MaxSlot + 1)] /\ slot \in [Cluster -> [Tx -> 0..MaxSlot]]
    BY <2>1 DEF Init
  <2>4. store \in [Cluster -> [Slot -> Entry]]
    BY <2>2 DEF Init
  <2> QED
    BY <2>3, <2>4 DEF SlotType
<1>2. PcType
  BY DEF Init, PcType, CoordPc, PartPc
<1>3. CountType
  BY CrossShardAssumption DEF Init, CountType
<1>4. MoneyType
  <2>1. 1 \in 1..(MaxSlot + 1)
    BY CrossShardAssumption
  <2>2. bal \in [Cluster -> [Account -> Int]]
    <3> DEFINE own(c) == [a \in Account |-> IF Home[a] = c THEN InitialBalance ELSE 0]
    <3>1. \A c \in Cluster : own(c) \in [Account -> Int]
      BY CrossShardAssumption
    <3>2. bal = [c \in Cluster |-> own(c)]
      BY DEF Init
    <3> HIDE DEF own
    <3> QED
      BY <3>1, <3>2
  <2> QED
    BY <2>1, <2>2 DEF Init, MoneyType, LockType
<1>5. SlotsApart
  <2>1. \A c \in Cluster, s \in Slot : store[c][s].tx = NoTx
    BY DEF Init, NoEntry
  <2>2. \A c \in Cluster : seq[c] = 1 /\ \A t \in Tx : slot[c][t] = 0
    BY DEF Init
  <2> QED
    BY <2>1, <2>2 DEF SlotsApart
<1>6. RunsHaveSlots
  BY DEF Init, RunsHaveSlots, Running
<1>7. PreparesInv
  <2> SUFFICES ASSUME NEW t \in Tx PROVE Prepares(t)
    BY DEF PreparesInv
  <2>1. \A d \in Cluster : \A x : ~Decided(d, t, x)
    BY CrossShardAssumption DEF Init, Decided, NoEntry
  <2> QED
    BY <2>1, Clusters DEF Init, Prepares
<1> QED
  BY <1>1, <1>2, <1>3, <1>4, <1>5, <1>6, <1>7, TypeParts DEF CrossInv, PreparedInv, SlotsInv

LEMMA StepCross == CrossInv /\ [Next]_vars => CrossInv'
<1> SUFFICES ASSUME CrossInv, [Next]_vars PROVE CrossInv'
  OBVIOUS
<1>1. PreparedInv /\ SlotType /\ CountType /\ MoneyType
  BY TypeParts DEF CrossInv
<1>2. PreparedInv' => SlotType' /\ PcType'
  BY DEF PreparedInv, SlotsInv
<1>3. PreparedInv' /\ CountType' /\ MoneyType' => CrossInv'
  BY <1>2, TypeParts DEF TypeOK, SlotType, PcType, CountType, MoneyType, LockType, Entry, CrossInv
<1>4. ASSUME NEW t \in Tx, ExecuteTransaction(t) \/ CoordinatorStep(t) PROVE CrossInv'
  <2>1. PreparedInv'
    BY <1>1, <1>4, ExecuteTransactionPrepared, RefusePrepared, PreparePrepared, PrepareDonePrepared,
       StartCommitPrepared, StartAbortPrepared, CommitDonePrepared, AbortDonePrepared DEF CoordinatorStep
  <2> QED
    BY <1>1, <1>3, <1>4, <2>1, CoordinatorType
<1>5. ASSUME NEW t \in Tx, ParticipantStep(t) PROVE CrossInv'
  <2>1. PreparedInv'
    BY <1>1, <1>5, PCPreparePrepared, PartPreparePrepared, PartPrepareDonePrepared,
       WaitForPCCommitPrepared, PartAbortDonePrepared, PCCommitPrepared, PCCommitDonePrepared
       DEF ParticipantStep
  <2> QED
    BY <1>1, <1>3, <1>5, <2>1, ParticipantType
<1>6. ASSUME NEW t \in Tx, Fault(t) PROVE CrossInv'
  <2>1. PreparedInv'
    BY <1>1, <1>6, RunFailedPrepared, PCPrepareLostPrepared, PartPrepareFailedPrepared,
       PartAbortFailedPrepared, PCCommitFailedPrepared, PCCommitUnheardPrepared DEF Fault
  <2> QED
    BY <1>1, <1>3, <1>6, <2>1, FaultType
<1>7. ASSUME NEW c \in Cluster, Execute(c) PROVE CrossInv'
  <2>1. UNCHANGED <<coord, part, answer, told, seq, slot, store>>
    BY <1>7 DEF Execute, ledger
  <2>2. PreparedInv'
    BY <1>1, <2>1, StillPrepared
  <2> QED
    BY <1>1, <1>3, <1>7, <2>2, ExecuteType
<1>8. CASE UNCHANGED vars
  <2>1. PreparedInv'
    BY <1>1, <1>8, StillPrepared DEF vars, ledger
  <2>2. CountType' /\ MoneyType'
    BY <1>1, <1>8 DEF vars, client, faults, ledger, applied, CountType, MoneyType
  <2> QED
    BY <1>3, <2>1, <2>2
<1> QED
  BY <1>4, <1>5, <1>6, <1>7, <1>8 DEF Next

\* Locks, slots, Datastore, balances and write-ahead log of any number of clusters, and
\* the progress of runCrossShard and PCPrepare, keep their types.
THEOREM TypeCorrect == Spec => []TypeOK
<1>1. CrossInv => TypeOK
  BY DEF CrossInv
<1> QED
  BY <1>1, InitCross, StepCross, PTL DEF Spec

\* PCPrepare credits no payee, not even for a while, unless the payer's cluster has prepared
\* the payment: whatever runs fail, calls are lost and payments rival.
THEOREM CreditOnlyIfDebitedHolds == Spec => []CreditOnlyIfDebited
<1>1. CrossInv => CreditOnlyIfDebited
  <2> SUFFICES ASSUME CrossInv, NEW t \in Tx, Decided(Part(t), t, "P")
               PROVE  Decided(Coord(t), t, "P")
    BY DEF CreditOnlyIfDebited
  <2>1. CASE Intra(t)
    BY <2>1 DEF Intra
  <2>2. CASE ~Intra(t)
    BY <2>2 DEF CrossInv, PreparedInv, PreparesInv, Prepares
  <2> QED
    BY <2>1, <2>2
<1> QED
  BY <1>1, InitCross, StepCross, PTL DEF Spec

\* Neither cluster commits a payment that the other one has not prepared: runCrossShard
\* and PCCommit run the commit only behind an answer of PCPrepare.
THEOREM CommitOnlyIfPreparedHolds == Spec => []CommitOnlyIfPrepared
<1>1. CrossInv => CommitOnlyIfPrepared
  <2> SUFFICES ASSUME CrossInv, NEW t \in Tx, NEW c \in Involved(t), NEW d \in Involved(t),
                      ~Intra(t), Decided(c, t, "C")
               PROVE  Decided(d, t, "P")
    BY DEF CommitOnlyIfPrepared
  <2>1. Prepares(t)
    BY DEF CrossInv, PreparedInv, PreparesInv
  <2>2. c \in {Coord(t), Part(t)} /\ d \in {Coord(t), Part(t)}
    BY DEF Involved
  <2> QED
    BY <2>1, <2>2 DEF Prepares
<1> QED
  BY <1>1, InitCross, StepCross, PTL DEF Spec

-----------------------------------------------------------------------------
(* Payments that the gateway calls once.                                   *)

\* What cluster c has decided about t.
Decisions(c, t) == {x \in Status : Decided(c, t, x)}

LEMMA DecisionsSame ==
    ASSUME store' = store, NEW d, NEW u
    PROVE  Decisions(d, u)' = Decisions(d, u)
  BY DecidedSame DEF Decisions

LEMMA DecisionsWritten ==
    ASSUME SlotsInv, NEW c \in Cluster, NEW t \in Tx, NEW st \in Status,
           Written(c, t, [tx |-> t, status |-> st])
    PROVE  /\ st \in Decisions(c, t)' /\ Decisions(c, t)' \subseteq Decisions(c, t) \cup {st}
           /\ store[c][slot[c][t]].tx = NoTx => Decisions(c, t)' = Decisions(c, t) \cup {st}
           /\ \A d \in Cluster, u \in Tx : d # c \/ u # t => Decisions(d, u)' = Decisions(d, u)
<1>1. \A d \in Cluster, u \in Tx, x \in Status :
        /\ Decided(d, u, x)' => Decided(d, u, x) \/ (d = c /\ u = t /\ x = st)
        /\ Decided(d, u, x) /\ (d # c \/ u # t \/ x = st \/ store[c][slot[c][t]].tx = NoTx)
             => Decided(d, u, x)'
  BY DecidedWritten
<1>2. Decided(c, t, st)'
  BY DecidedWritten
<1>3. \A d \in Cluster, u \in Tx : d # c \/ u # t => Decisions(d, u)' = Decisions(d, u)
  BY <1>1 DEF Decisions
<1>4. st \in Decisions(c, t)' /\ Decisions(c, t)' \subseteq Decisions(c, t) \cup {st}
  BY <1>1, <1>2 DEF Decisions
<1>5. store[c][slot[c][t]].tx = NoTx => Decisions(c, t) \cup {st} \subseteq Decisions(c, t)'
  BY <1>1, <1>2 DEF Decisions
<1> QED
  BY <1>3, <1>4, <1>5

\* The steps of payment t.
StepOf(t) == ExecuteTransaction(t) \/ CoordinatorStep(t) \/ ParticipantStep(t) \/ Fault(t)

\* They write an entry of t, at one of its clusters, or none.
LEMMA StepWrites ==
    ASSUME PreparedInv, NEW t \in Tx, StepOf(t)
    PROVE  \/ store' = store
           \/ \E c \in Involved(t), st \in Status : Written(c, t, [tx |-> t, status |-> st])
<1> USE DEF ledger
<1>1. Coord(t) \in Cluster /\ Part(t) \in Cluster /\ RunOf(t) \in Status /\ {"P", "C", "A"} \subseteq Status
  BY Clusters DEF Status, RunOf
<1>2. /\ coord[t] \in Running => slot[Coord(t)][t] \in Slot
      /\ part[t] \in Running => slot[Part(t)][t] \in Slot
  BY DEF PreparedInv, SlotsInv, RunsHaveSlots
<1>3. CASE PrepareDone(t)
  BY <1>1, <1>2, <1>3 DEF PrepareDone, Decide, Written, Running, Involved
<1>4. CASE CommitDone(t)
  BY <1>1, <1>2, <1>4 DEF CommitDone, Written, Running, Involved
<1>5. CASE AbortDone(t)
  BY <1>1, <1>2, <1>5 DEF AbortDone, Decide, Written, Running, Involved
<1>6. CASE PartPrepareDone(t)
  BY <1>1, <1>2, <1>6 DEF PartPrepareDone, Decide, Written, Running, Involved
<1>7. CASE PartAbortDone(t)
  BY <1>1, <1>2, <1>7 DEF PartAbortDone, Decide, Written, Running, Involved
<1>8. CASE PCCommitDone(t) \/ PCCommitUnheard(t)
  BY <1>1, <1>2, <1>8 DEF PCCommitDone, PCCommitUnheard, Decide, Written, Running, Involved
<1>9. CASE ExecuteTransaction(t) \/ Refuse(t) \/ Prepare(t) \/ StartCommit(t) \/ StartAbort(t)
  BY <1>9 DEF ExecuteTransaction, Refuse, Prepare, StartCommit, StartAbort
<1>10. CASE \/ PCPrepare(t) \/ PartPrepare(t) \/ WaitForPCCommit(t) \/ PCCommit(t) \/ RunFailed(t) \/ PCPrepareLost(t)
             \/ PartPrepareFailed(t) \/ PartAbortFailed(t) \/ PCCommitFailed(t)
  BY <1>10 DEF PCPrepare, PartPrepare, WaitForPCCommit, PCCommit, RunFailed, PCPrepareLost,
     PartPrepareFailed, PartAbortFailed, PCCommitFailed
<1> QED
  BY <1>3, <1>4, <1>5, <1>6, <1>7, <1>8, <1>9, <1>10 DEF StepOf, CoordinatorStep, ParticipantStep, Fault

\* The stages of a payment over two clusters that was called k times, at most once: where
\* runCrossShard is (pc), where the participant is (pp), its answer (a), and what coordinator
\* (cs) and participant (ps) have decided.
Stages(k, pc, pp, a, cs, ps) ==
    /\ cs \in {{}, {"P"}, {"P", "C"}, {"P", "A"}}
    /\ ps \in {{}, {"P"}, {"P", "C"}, {"A"}}
    /\ k = 0 => pc = "idle"
    /\ k = 0 \/ pc \in {"locks", "prepare"} => cs = {}
    /\ pc \in {"ask", "wait", "commit", "abort"} => cs = {"P"}
    /\ pc \in {"tell", "telling"} => cs = {"P", "C"}
    /\ cs = {} \/ pc = "ask" => pp = "idle"
    /\ pc = "commit" \/ "C" \in cs => a = "ok"
    /\ "C" \in ps \/ pp = "commit" => "C" \in cs
    /\ pp = "commit" => pc = "telling"
    /\ pp \in {"idle", "locks", "prepare"} => a = "none"
    /\ a = "none" => pp \in {"idle", "locks", "prepare"} /\ ps = {}
    /\ a = "ok" => pp \in {"prepared", "commit", "end"} /\ "P" \in ps
    /\ a = "error" => pp \in {"failed", "abort", "end"} /\ ps \subseteq {"A"}
    /\ pp \in {"failed", "abort"} => ps = {}

Single(t) ==
    Stages(calls[t], coord[t], part[t], answer[t], Decisions(Coord(t), t), Decisions(Part(t), t))

\* A payment inside one cluster, however often it is called.
Local(t) ==
    Decisions(Coord(t), t) \subseteq {""} /\ part[t] = "idle" /\ coord[t] \in {"idle", "locks", "prepare"}

\* A step of the payment that leaves the store.
LEMMA SingleStays ==
    ASSUME PreparedInv, NEW t \in Tx, store' = store,
           Stages(calls'[t], coord'[t], part'[t], answer'[t], Decisions(Coord(t), t), Decisions(Part(t), t))
    PROVE  Single(t)'
<1>1. PICK c, p : c = Coord(t) /\ p = Part(t)
  OBVIOUS
<1>2. Decisions(c, t)' = Decisions(c, t) /\ Decisions(p, t)' = Decisions(p, t)
  BY DecisionsSame
<1>3. Coord(t)' = c /\ Part(t)' = p
  BY <1>1 DEF Coord, Part
<1> QED
  BY <1>1, <1>2, <1>3 DEF Single

LEMMA CoordinatorStays ==
    ASSUME PreparedInv, CountType, NEW t \in Tx, ~Intra(t), calls'[t] <= 1, calls[t] <= 1 => Single(t),
           \/ ExecuteTransaction(t) \/ Refuse(t) \/ Prepare(t) \/ RunFailed(t)
           \/ StartCommit(t) \/ StartAbort(t) \/ PCPrepareLost(t)
    PROVE  Single(t)'
<1> DEFINE cs == Decisions(Coord(t), t)
           ps == Decisions(Part(t), t)
           S(k, pc, pp, a) == Stages(k, pc, pp, a, cs, ps)
<1>1. /\ coord \in [Tx -> CoordPc] /\ part \in [Tx -> PartPc]
      /\ answer \in [Tx -> {"none", "ok", "error"}] /\ calls \in [Tx -> 0..MaxCalls]
  BY DEF PreparedInv, SlotsInv, PcType, CountType
<1>2. calls[t] \in Nat /\ store' = store
  BY <1>1, CrossShardAssumption DEF ExecuteTransaction, Refuse, Prepare, RunFailed, StartCommit, StartAbort,
     PCPrepareLost, ledger
<1>3. Single(t) => S(calls[t], coord[t], part[t], answer[t])
  BY DEF Single
<1>4. SUFFICES S(calls'[t], coord'[t], part'[t], answer'[t])
  BY <1>2, SingleStays
<1> HIDE DEF cs, ps
<1>5. CASE ExecuteTransaction(t)
  <2>1. calls'[t] = calls[t] + 1 /\ coord[t] = "idle" /\ coord'[t] = "locks" /\ part' = part /\ answer' = answer
    BY <1>1, <1>5 DEF ExecuteTransaction
  <2>2. calls[t] = 0 /\ calls'[t] = 1
    BY <1>2, <2>1
  <2> QED
    BY <1>3, <2>1, <2>2 DEF Stages
<1>6. CASE Refuse(t)
  <2>1. calls' = calls /\ coord[t] = "locks" /\ coord'[t] = "idle" /\ part' = part /\ answer' = answer
    BY <1>1, <1>6 DEF Refuse, client
  <2> QED
    BY <1>3, <2>1 DEF Stages
<1>7. CASE Prepare(t)
  <2>1. calls' = calls /\ coord[t] = "locks" /\ coord'[t] = "prepare" /\ part' = part /\ answer' = answer
    BY <1>1, <1>7 DEF Prepare, client
  <2> QED
    BY <1>3, <2>1 DEF Stages
<1>8. CASE RunFailed(t)
  <2>1. /\ calls' = calls /\ coord[t] \in {"prepare", "commit", "abort"} /\ coord'[t] = "idle"
        /\ part' = part /\ answer' = answer
    BY <1>1, <1>8 DEF RunFailed, client
  <2> QED
    BY <1>3, <2>1 DEF Stages
<1>9. CASE StartCommit(t)
  <2>1. /\ calls' = calls /\ coord[t] = "wait" /\ coord'[t] = "commit" /\ answer[t] = "ok"
        /\ part' = part /\ answer' = answer
    BY <1>1, <1>9 DEF StartCommit, client
  <2> QED
    BY <1>3, <2>1 DEF Stages
<1>10. CASE StartAbort(t) \/ PCPrepareLost(t)
  <2>1. /\ calls' = calls /\ coord[t] \in {"ask", "wait"} /\ coord'[t] = "abort"
        /\ part' = part /\ answer' = answer
    BY <1>1, <1>10 DEF StartAbort, PCPrepareLost, client
  <2> QED
    BY <1>3, <2>1 DEF Stages
<1> QED
  BY <1>5, <1>6, <1>7, <1>8, <1>9, <1>10

LEMMA ParticipantStays ==
    ASSUME PreparedInv, CountType, NEW t \in Tx, ~Intra(t), calls'[t] <= 1, calls[t] <= 1 => Single(t),
           \/ PCPrepare(t) \/ PartPrepare(t) \/ PartPrepareFailed(t) \/ WaitForPCCommit(t)
           \/ PartAbortFailed(t) \/ PCCommit(t) \/ PCCommitFailed(t)
    PROVE  Single(t)'
<1> DEFINE cs == Decisions(Coord(t), t)
           ps == Decisions(Part(t), t)
           S(k, pc, pp, a) == Stages(k, pc, pp, a, cs, ps)
<1>1. /\ coord \in [Tx -> CoordPc] /\ part \in [Tx -> PartPc]
      /\ answer \in [Tx -> {"none", "ok", "error"}] /\ calls \in [Tx -> 0..MaxCalls]
  BY DEF PreparedInv, SlotsInv, PcType, CountType
<1>2. store' = store /\ calls' = calls
  BY DEF PCPrepare, PartPrepare, PartPrepareFailed, WaitForPCCommit, PartAbortFailed, PCCommit,
     PCCommitFailed, ledger, client
<1>3. S(calls[t], coord[t], part[t], answer[t])
  BY <1>2 DEF Single
<1>4. SUFFICES S(calls[t], coord'[t], part'[t], answer'[t])
  BY <1>2, SingleStays
<1> HIDE DEF cs, ps
<1>5. CASE PCPrepare(t)
  <2>1. coord[t] = "ask" /\ coord'[t] = "wait" /\ part'[t] = "locks" /\ answer'[t] = "none"
    BY <1>1, <1>5 DEF PCPrepare
  <2> QED
    BY <1>3, <2>1 DEF Stages
<1>6. CASE PartPrepare(t)
  <2>1. part[t] = "locks" /\ part'[t] = "prepare" /\ coord' = coord /\ answer' = answer
    BY <1>1, <1>6 DEF PartPrepare
  <2> QED
    BY <1>3, <2>1 DEF Stages
<1>7. CASE PartPrepareFailed(t)
  <2>1. part[t] = "prepare" /\ part'[t] = "failed" /\ answer'[t] = "error" /\ coord' = coord
    BY <1>1, <1>7 DEF PartPrepareFailed
  <2> QED
    BY <1>3, <2>1 DEF Stages
<1>8. CASE WaitForPCCommit(t)
  <2>1. part[t] = "failed" /\ part'[t] \in {"abort", "end"} /\ coord' = coord /\ answer' = answer
    BY <1>1, <1>8 DEF WaitForPCCommit
  <2> QED
    BY <1>3, <2>1 DEF Stages
<1>9. CASE PartAbortFailed(t)
  <2>1. part[t] = "abort" /\ part'[t] = "end" /\ coord' = coord /\ answer' = answer
    BY <1>1, <1>9 DEF PartAbortFailed
  <2> QED
    BY <1>3, <2>1 DEF Stages
<1>10. CASE PCCommit(t)
  <2>1. coord[t] = "tell" /\ coord'[t] = "telling" /\ part'[t] = "commit" /\ answer' = answer
    BY <1>1, <1>10 DEF PCCommit
  <2> QED
    BY <1>3, <2>1 DEF Stages
<1>11. CASE PCCommitFailed(t)
  <2>1. part[t] = "commit" /\ part'[t] = "prepared" /\ coord'[t] = "tell" /\ answer' = answer
    BY <1>1, <1>11 DEF PCCommitFailed
  <2> QED
    BY <1>3, <2>1 DEF Stages
<1> QED
  BY <1>5, <1>6, <1>7, <1>8, <1>9, <1>10, <1>11

\* A step that decides st at cluster c, where the slot of the run was empty or t has no decision yet.
LEMMA SingleWrites ==
    ASSUME PreparedInv, NEW t \in Tx, ~Intra(t), NEW c \in {Coord(t), Part(t)}, NEW st \in Status,
           Written(c, t, [tx |-> t, status |-> st]),
           Decisions(c, t) = {} \/ store[c][slot[c][t]].tx = NoTx,
           LET After(d) == IF d = c THEN Decisions(d, t) \cup {st} ELSE Decisions(d, t)
           IN  Stages(calls'[t], coord'[t], part'[t], answer'[t], After(Coord(t)), After(Part(t)))
    PROVE  Single(t)'
<1>1. PICK b \in Cluster, p \in Cluster : b = Coord(t) /\ p = Part(t) /\ b # p
  BY Clusters DEF Intra
<1>2. c \in Cluster /\ SlotsInv
  BY <1>1 DEF PreparedInv
<1>3. Decisions(c, t)' = Decisions(c, t) \cup {st}
  BY <1>2, DecisionsWritten
<1>4. \A d \in Cluster : d # c => Decisions(d, t)' = Decisions(d, t)
  BY <1>2, DecisionsWritten
<1>5. Coord(t)' = b /\ Part(t)' = p
  BY <1>1 DEF Coord, Part
<1>6. /\ Decisions(b, t)' = IF b = c THEN Decisions(b, t) \cup {st} ELSE Decisions(b, t)
      /\ Decisions(p, t)' = IF p = c THEN Decisions(p, t) \cup {st} ELSE Decisions(p, t)
  BY <1>1, <1>3, <1>4
<1> QED
  BY <1>1, <1>5, <1>6 DEF Single

LEMMA CoordinatorDecides ==
    ASSUME PreparedInv, NEW t \in Tx, ~Intra(t), Single(t),
           PrepareDone(t) \/ CommitDone(t) \/ AbortDone(t)
    PROVE  Single(t)'
<1>1. PICK c \in Cluster, p \in Cluster : c = Coord(t) /\ p = Part(t) /\ c # p
  BY Clusters DEF Intra
<1>2. /\ coord \in [Tx -> CoordPc] /\ part \in [Tx -> PartPc] /\ answer \in [Tx -> {"none", "ok", "error"}]
      /\ {"P", "C", "A"} \subseteq Status /\ slot[c][t] \in Slot
  BY <1>1 DEF PreparedInv, SlotsInv, PcType, RunsHaveSlots, Running, Status, PrepareDone, CommitDone, AbortDone
<1>3. PICK cs, ps : cs = Decisions(c, t) /\ ps = Decisions(p, t)
  OBVIOUS
<1>4. Stages(calls[t], coord[t], part[t], answer[t], cs, ps)
  BY <1>1, <1>3 DEF Single
<1>5. calls' = calls /\ part' = part /\ answer' = answer
  BY DEF PrepareDone, CommitDone, AbortDone, client
<1>6. coord[t] \in {"commit", "abort"} => store[c][slot[c][t]].tx = NoTx
  BY <1>1 DEF PreparedInv, PreparesInv, Prepares
<1>7. CASE PrepareDone(t)
  <2>1. coord[t] = "prepare" /\ coord'[t] = "ask" /\ RunOf(t) = "P"
    BY <1>2, <1>7 DEF PrepareDone, RunOf
  <2>2. Written(c, t, [tx |-> t, status |-> "P"])
    BY <1>1, <1>2, <1>7, <2>1 DEF PrepareDone, Decide, Written
  <2>3. cs = {} /\ Stages(calls[t], "ask", part[t], answer[t], {"P"}, ps)
    BY <1>4, <2>1 DEF Stages
  <2> QED
    BY <1>1, <1>2, <1>3, <1>5, <2>1, <2>2, <2>3, SingleWrites
<1>8. CASE CommitDone(t)
  <2>1. coord[t] = "commit" /\ coord'[t] = "tell"
    BY <1>2, <1>8 DEF CommitDone
  <2>2. Written(c, t, [tx |-> t, status |-> "C"])
    BY <1>1, <1>2, <1>8 DEF CommitDone, Written
  <2>3. cs = {"P"} /\ Stages(calls[t], "tell", part[t], answer[t], {"P", "C"}, ps)
    BY <1>4, <2>1 DEF Stages
  <2>4. cs \cup {"C"} = {"P", "C"}
    BY <2>3
  <2> QED
    BY <1>1, <1>2, <1>3, <1>5, <1>6, <2>1, <2>2, <2>3, <2>4, SingleWrites
<1>9. CASE AbortDone(t)
  <2>1. coord[t] = "abort" /\ coord'[t] = "idle"
    BY <1>2, <1>9 DEF AbortDone
  <2>2. Written(c, t, [tx |-> t, status |-> "A"])
    BY <1>1, <1>2, <1>9 DEF AbortDone, Decide, Written
  <2>3. cs = {"P"} /\ Stages(calls[t], "idle", part[t], answer[t], {"P", "A"}, ps)
    BY <1>4, <2>1 DEF Stages
  <2>4. cs \cup {"A"} = {"P", "A"}
    BY <2>3
  <2> QED
    BY <1>1, <1>2, <1>3, <1>5, <1>6, <2>1, <2>2, <2>3, <2>4, SingleWrites
<1> QED
  BY <1>7, <1>8, <1>9

LEMMA ParticipantDecides ==
    ASSUME PreparedInv, NEW t \in Tx, ~Intra(t), Single(t),
           PartPrepareDone(t) \/ PartAbortDone(t) \/ PCCommitDone(t) \/ PCCommitUnheard(t)
    PROVE  Single(t)'
<1>1. PICK c \in Cluster, p \in Cluster : c = Coord(t) /\ p = Part(t) /\ c # p
  BY Clusters DEF Intra
<1>2. /\ coord \in [Tx -> CoordPc] /\ part \in [Tx -> PartPc] /\ answer \in [Tx -> {"none", "ok", "error"}]
      /\ {"P", "C", "A"} \subseteq Status /\ slot[p][t] \in Slot
  BY <1>1 DEF PreparedInv, SlotsInv, PcType, RunsHaveSlots, Running, Status, PartPrepareDone, PartAbortDone,
     PCCommitDone, PCCommitUnheard
<1>3. PICK cs, ps : cs = Decisions(c, t) /\ ps = Decisions(p, t)
  OBVIOUS
<1>4. Stages(calls[t], coord[t], part[t], answer[t], cs, ps)
  BY <1>1, <1>3 DEF Single
<1>5. calls' = calls
  BY DEF PartPrepareDone, PartAbortDone, PCCommitDone, PCCommitUnheard, client
<1>6. part[t] \in {"commit", "abort"} => store[p][slot[p][t]].tx = NoTx
  BY <1>1 DEF PreparedInv, PreparesInv, Prepares
<1>7. CASE PartPrepareDone(t)
  <2>1. part[t] = "prepare" /\ part'[t] = "prepared" /\ answer'[t] = "ok" /\ coord' = coord
    BY <1>2, <1>7 DEF PartPrepareDone
  <2>2. Written(p, t, [tx |-> t, status |-> "P"])
    BY <1>1, <1>2, <1>7 DEF PartPrepareDone, Decide, Written
  <2>3. ps = {} /\ Stages(calls[t], coord[t], "prepared", "ok", cs, {"P"})
    BY <1>4, <2>1 DEF Stages
  <2> QED
    BY <1>1, <1>2, <1>3, <1>5, <2>1, <2>2, <2>3, SingleWrites
<1>8. CASE PartAbortDone(t)
  <2>1. part[t] = "abort" /\ part'[t] = "end" /\ answer' = answer /\ coord' = coord
    BY <1>2, <1>8 DEF PartAbortDone
  <2>2. Written(p, t, [tx |-> t, status |-> "A"])
    BY <1>1, <1>2, <1>8 DEF PartAbortDone, Decide, Written
  <2>3. ps = {} /\ Stages(calls[t], coord[t], "end", answer[t], cs, {"A"})
    BY <1>4, <2>1 DEF Stages
  <2> QED
    BY <1>1, <1>2, <1>3, <1>5, <2>1, <2>2, <2>3, SingleWrites
<1>9. CASE PCCommitDone(t) \/ PCCommitUnheard(t)
  <2>1. part[t] = "commit" /\ part'[t] = "end" /\ answer' = answer /\ coord'[t] \in {"idle", "tell"}
    BY <1>2, <1>9 DEF PCCommitDone, PCCommitUnheard
  <2>2. Written(p, t, [tx |-> t, status |-> "C"])
    BY <1>1, <1>2, <1>9 DEF PCCommitDone, PCCommitUnheard, Decide, Written
  <2>3. ps \cup {"C"} = {"P", "C"} /\ Stages(calls[t], coord'[t], "end", answer[t], cs, {"P", "C"})
    BY <1>4, <2>1 DEF Stages
  <2> QED
    BY <1>1, <1>2, <1>3, <1>5, <1>6, <2>1, <2>2, <2>3, SingleWrites
<1> QED
  BY <1>7, <1>8, <1>9

LEMMA OthersStay ==
    ASSUME PcType, CountType, NEW t \in Tx, StepOf(t)
    PROVE  Others(t) /\ \A u \in Tx \ {t} : calls'[u] = calls[u]
<1>1. \/ calls' = calls
      \/ calls' = [calls EXCEPT ![t] = calls[t] + 1]
  BY DEF StepOf, CoordinatorStep, ParticipantStep, Fault, ExecuteTransaction, Refuse, Prepare, PrepareDone,
     RunFailed, StartCommit, StartAbort, PCPrepareLost, CommitDone, AbortDone, PCPrepare, PartPrepare,
     PartPrepareDone, PartPrepareFailed, WaitForPCCommit, PartAbortDone, PartAbortFailed, PCCommit,
     PCCommitDone, PCCommitFailed, PCCommitUnheard, client
<1>2. \E x : coord' = [coord EXCEPT ![t] = x] \/ coord' = coord
  BY DEF StepOf, CoordinatorStep, ParticipantStep, Fault, ExecuteTransaction, Refuse, Prepare, PrepareDone,
     RunFailed, StartCommit, StartAbort, PCPrepareLost, CommitDone, AbortDone, PCPrepare, PartPrepare,
     PartPrepareDone, PartPrepareFailed, WaitForPCCommit, PartAbortDone, PartAbortFailed, PCCommit,
     PCCommitDone, PCCommitFailed, PCCommitUnheard
<1>3. \E x : part' = [part EXCEPT ![t] = x] \/ part' = part
  BY DEF StepOf, CoordinatorStep, ParticipantStep, Fault, ExecuteTransaction, Refuse, Prepare, PrepareDone,
     RunFailed, StartCommit, StartAbort, PCPrepareLost, CommitDone, AbortDone, PCPrepare, PartPrepare,
     PartPrepareDone, PartPrepareFailed, WaitForPCCommit, PartAbortDone, PartAbortFailed, PCCommit,
     PCCommitDone, PCCommitFailed, PCCommitUnheard
<1>4. \E x : answer' = [answer EXCEPT ![t] = x] \/ answer' = answer
  BY DEF StepOf, CoordinatorStep, ParticipantStep, Fault, ExecuteTransaction, Refuse, Prepare, PrepareDone,
     RunFailed, StartCommit, StartAbort, PCPrepareLost, CommitDone, AbortDone, PCPrepare, PartPrepare,
     PartPrepareDone, PartPrepareFailed, WaitForPCCommit, PartAbortDone, PartAbortFailed, PCCommit,
     PCCommitDone, PCCommitFailed, PCCommitUnheard
<1> QED
  BY <1>1, <1>2, <1>3, <1>4 DEF PcType, CountType, Others

LEMMA LocalStep ==
    ASSUME PreparedInv, NEW t \in Tx, Intra(t), Local(t), StepOf(t)
    PROVE  Local(t)'
<1>1. PICK c \in Cluster : c = Coord(t) /\ c = Part(t)
  BY Clusters DEF Intra
<1>2. Coord(t)' = c
  BY <1>1 DEF Coord
<1>3. /\ coord \in [Tx -> CoordPc] /\ part \in [Tx -> PartPc] /\ SlotsInv
      /\ coord[t] = "prepare" => slot[c][t] \in Slot
  BY <1>1 DEF PreparedInv, SlotsInv, PcType, RunsHaveSlots, Running
<1>4. Decisions(c, t) \subseteq {""} /\ part[t] = "idle" /\ coord[t] \in {"idle", "locks", "prepare"}
  BY <1>1 DEF Local
<1>5. CASE PrepareDone(t)
  <2>1. coord[t] = "prepare" /\ coord'[t] = "idle" /\ part' = part /\ RunOf(t) = "" /\ "" \in Status
    BY <1>3, <1>5 DEF PrepareDone, RunOf, Status
  <2>2. Written(c, t, [tx |-> t, status |-> ""])
    BY <1>1, <1>3, <1>5, <2>1 DEF PrepareDone, Decide, Written
  <2>3. Decisions(c, t)' \subseteq {""}
    BY <1>3, <1>4, <2>1, <2>2, DecisionsWritten
  <2> QED
    BY <1>2, <1>4, <2>1, <2>3 DEF Local
<1>6. CASE ExecuteTransaction(t) \/ Refuse(t) \/ Prepare(t) \/ RunFailed(t)
  <2>1. coord'[t] \in {"idle", "locks", "prepare"} /\ part' = part /\ store' = store
    BY <1>3, <1>6 DEF ExecuteTransaction, Refuse, Prepare, RunFailed, ledger
  <2>2. Decisions(c, t)' = Decisions(c, t)
    BY <2>1, DecisionsSame
  <2> QED
    BY <1>2, <1>4, <2>1, <2>2 DEF Local
<1> QED
  BY <1>4, <1>5, <1>6 DEF StepOf, CoordinatorStep, ParticipantStep, Fault, StartCommit, StartAbort, PCPrepareLost,
     CommitDone, AbortDone, PCPrepare, PartPrepare, PartPrepareDone, PartPrepareFailed, WaitForPCCommit,
     PartAbortDone, PartAbortFailed, PCCommit, PCCommitDone, PCCommitFailed, PCCommitUnheard

\* Payments inside one cluster, and payments over two that were called once.
OnceInv ==
    /\ \A t \in Tx : Intra(t) => Local(t)
    /\ \A t \in Tx : ~Intra(t) /\ calls[t] <= 1 => Single(t)

LEMMA OnceStep ==
    ASSUME PreparedInv, CountType, OnceInv, NEW t \in Tx, StepOf(t)
    PROVE  OnceInv'
<1>1. Others(t) /\ \A u \in Tx \ {t} : calls'[u] = calls[u]
  BY OthersStay DEF PreparedInv, SlotsInv
<1>2. \A d \in Cluster : \A u \in Tx \ {t} : Decisions(d, u)' = Decisions(d, u)
  <2>1. CASE store' = store
    BY <2>1, DecisionsSame
  <2>2. ASSUME NEW c \in Involved(t), NEW st \in Status, Written(c, t, [tx |-> t, status |-> st])
        PROVE  \A d \in Cluster : \A u \in Tx \ {t} : Decisions(d, u)' = Decisions(d, u)
    BY <2>2, Clusters, DecisionsWritten DEF PreparedInv, Involved
  <2> QED
    BY <2>1, <2>2, StepWrites
<1>3. ASSUME NEW u \in Tx, u # t
      PROVE  (Local(u) => Local(u)') /\ (Single(u) => Single(u)')
  <2>1. PICK c \in Cluster, p \in Cluster : c = Coord(u) /\ p = Part(u)
    BY Clusters
  <2>2. Coord(u)' = c /\ Part(u)' = p
    BY <2>1 DEF Coord, Part
  <2>3. Decisions(c, u)' = Decisions(c, u) /\ Decisions(p, u)' = Decisions(p, u)
    BY <1>2, <1>3
  <2>4. /\ coord'[u] = coord[u] /\ part'[u] = part[u] /\ answer'[u] = answer[u] /\ calls'[u] = calls[u]
    BY <1>1, <1>3 DEF Others
  <2> QED
    BY <2>1, <2>2, <2>3, <2>4 DEF Local, Single
<1>4. Intra(t) => Local(t)'
  BY LocalStep DEF OnceInv
<1>5. ASSUME ~Intra(t), calls'[t] <= 1 PROVE Single(t)'
  <2>1. calls[t] <= 1 => Single(t)
    BY <1>5 DEF OnceInv
  <2>3. CASE PrepareDone(t) \/ CommitDone(t) \/ AbortDone(t)
    <3>1. Single(t)
      BY <1>5, <2>1, <2>3 DEF PrepareDone, CommitDone, AbortDone, client
    <3> QED
      BY <1>5, <2>3, <3>1, CoordinatorDecides
  <2>4. CASE PartPrepareDone(t) \/ PartAbortDone(t) \/ PCCommitDone(t) \/ PCCommitUnheard(t)
    <3>1. Single(t)
      BY <1>5, <2>1, <2>4 DEF PartPrepareDone, PartAbortDone, PCCommitDone, PCCommitUnheard, client
    <3> QED
      BY <1>5, <2>4, <3>1, ParticipantDecides
  <2> QED
    BY <1>5, <2>1, <2>3, <2>4, CoordinatorStays, ParticipantStays DEF StepOf, CoordinatorStep, ParticipantStep, Fault
<1>6. \A u \in Tx : Intra(u)' = Intra(u)
  BY DEF Intra, Coord, Part
<1> QED
  BY <1>1, <1>3, <1>4, <1>5, <1>6 DEF OnceInv

\* A payment of OnceInv gets one decision more in a step, at one of its clusters, or none.
LEMMA StepDecides ==
    ASSUME PreparedInv, OnceInv, NEW t \in Tx, StepOf(t), Intra(t) \/ calls[t] <= 1
    PROVE  \/ \A d \in Cluster, u \in Tx : Decisions(d, u)' = Decisions(d, u)
           \/ \E c \in Involved(t), st \in Status :
                /\ Decisions(c, t)' = Decisions(c, t) \cup {st}
                /\ \A d \in Cluster, u \in Tx : d # c \/ u # t => Decisions(d, u)' = Decisions(d, u)
<1>1. CASE store' = store
  BY <1>1, DecisionsSame
<1>2. ASSUME NEW c \in Involved(t), NEW st \in Status, Written(c, t, [tx |-> t, status |-> st]), store' # store
      PROVE  Decisions(c, t)' = Decisions(c, t) \cup {st}
  <2>1. c \in Cluster /\ SlotsInv
    BY Clusters DEF Involved, PreparedInv
  <2>2. st \in Decisions(c, t)' /\ Decisions(c, t)' \subseteq Decisions(c, t) \cup {st}
    BY <1>2, <2>1, DecisionsWritten
  <2>3. CASE Intra(t)
    <3>1. c = Coord(t) /\ Coord(t)' = Coord(t)
      BY <2>3 DEF Involved, Intra, Coord
    <3>2. Decisions(c, t) \subseteq {""}
      BY <2>3, <3>1 DEF OnceInv, Local
    <3>3. Local(t)' /\ Local(t)
      BY <2>3, LocalStep DEF OnceInv
    <3>4. PICK b : b = c
      OBVIOUS
    <3>5. Decisions(b, t)' \subseteq {""}
      BY <3>1, <3>3, <3>4 DEF Local
    <3> QED
      BY <2>2, <3>2, <3>4, <3>5
  <2>4. CASE ~Intra(t)
    <3>1. Single(t) /\ Prepares(t)
      BY <2>4 DEF OnceInv, PreparedInv, PreparesInv
    <3>2. Decisions(c, t) = {} \/ store[c][slot[c][t]].tx = NoTx
      <4>1. CASE PrepareDone(t) \/ CommitDone(t) \/ AbortDone(t)
        <5>1. c = Coord(t)
          <6>1. PICK b \in Cluster : b = Coord(t)
            BY Clusters
          <6>2. store'[c] # store[c]
            BY <1>2, <2>1 DEF Written, SlotsInv, SlotType
          <6>3. \A d \in Cluster : d # b => store'[d] = store[d]
            BY <2>1, <4>1, <6>1 DEF PrepareDone, CommitDone, AbortDone, Decide, SlotsInv, SlotType
          <6> QED
            BY <2>1, <6>1, <6>2, <6>3
        <5>2. coord[t] \in {"prepare", "commit", "abort"}
          BY <4>1 DEF PrepareDone, CommitDone, AbortDone
        <5> QED
          BY <3>1, <5>1, <5>2 DEF Single, Stages, Prepares
      <4>2. CASE PartPrepareDone(t) \/ PartAbortDone(t) \/ PCCommitDone(t) \/ PCCommitUnheard(t)
        <5>1. c = Part(t)
          <6>1. PICK b \in Cluster : b = Part(t)
            BY Clusters
          <6>2. store'[c] # store[c]
            BY <1>2, <2>1 DEF Written, SlotsInv, SlotType
          <6>3. \A d \in Cluster : d # b => store'[d] = store[d]
            BY <2>1, <4>2, <6>1 DEF PartPrepareDone, PartAbortDone, PCCommitDone, PCCommitUnheard, Decide, SlotsInv, SlotType
          <6> QED
            BY <2>1, <6>1, <6>2, <6>3
        <5>2. part[t] \in {"prepare", "commit", "abort"}
          BY <4>2 DEF PartPrepareDone, PartAbortDone, PCCommitDone, PCCommitUnheard
        <5> QED
          BY <3>1, <5>1, <5>2 DEF Single, Stages, Prepares
      <4> QED
        BY <1>2, <4>1, <4>2 DEF StepOf, CoordinatorStep, ParticipantStep, Fault, ExecuteTransaction, Refuse, Prepare,
           RunFailed, StartCommit, StartAbort, PCPrepareLost, PCPrepare, PartPrepare,
           PartPrepareFailed, WaitForPCCommit, PartAbortFailed, PCCommit, PCCommitFailed, ledger
    <3> QED
      BY <1>2, <2>1, <3>2, <2>2, DecisionsWritten
  <2> QED
    BY <2>3, <2>4
<1>3. ASSUME NEW c \in Involved(t), NEW st \in Status, Written(c, t, [tx |-> t, status |-> st]), store' # store
      PROVE  \A d \in Cluster, u \in Tx : d # c \/ u # t => Decisions(d, u)' = Decisions(d, u)
  BY <1>3, Clusters, DecisionsWritten DEF Involved, PreparedInv
<1> QED
  BY <1>1, <1>2, <1>3, StepWrites

\* Only the clusters of a payment decide about it.
Strangers == \A t \in Tx : \A d \in Cluster \ Involved(t) : Decisions(d, t) = {}

\* An answer comes from a cluster that decided so.
Truthful ==
    \A t \in Tx : Intra(t) \/ calls[t] <= 1 =>
        /\ TRUE \in results[t] => \E d \in Cluster : Decisions(d, t) \cap {"", "C"} # {}
        /\ FALSE \in results[t] => \E d \in Cluster : "A" \in Decisions(d, t)

CallInv == CrossInv /\ OnceInv /\ Strangers /\ Truthful

LEMMA InitCalls == Init => CallInv
<1> SUFFICES ASSUME Init PROVE CallInv
  OBVIOUS
<1>1. \A d \in Cluster, t \in Tx : Decisions(d, t) = {}
  BY CrossShardAssumption DEF Init, Decisions, Decided, NoEntry
<1>2. \A t \in Tx : calls[t] = 0 /\ coord[t] = "idle" /\ part[t] = "idle" /\ answer[t] = "none" /\ results[t] = {}
  BY DEF Init
<1>3. ASSUME NEW t \in Tx PROVE Local(t) /\ Single(t)
  BY <1>1, <1>2, Clusters DEF Local, Single, Stages
<1>4. OnceInv
  BY <1>3 DEF OnceInv
<1>5. Strangers /\ Truthful
  BY <1>1, <1>2 DEF Strangers, Truthful
<1> QED
  BY <1>4, <1>5, InitCross DEF CallInv

LEMMA StepOfCalls ==
    ASSUME CallInv, NEW t \in Tx, StepOf(t)
    PROVE  OnceInv' /\ Strangers' /\ Truthful'
<1>1. PreparedInv /\ CountType
  BY TypeParts DEF CallInv, CrossInv
<1>2. OnceInv'
  BY <1>1, OnceStep DEF CallInv
<1>3. Strangers'
  <2> SUFFICES ASSUME NEW u \in Tx, NEW d \in Cluster, d \notin Involved(u)
               PROVE  Decisions(d, u)' = {}
    BY DEF Strangers, Involved, Coord, Part
  <2>1. Decisions(d, u) = {}
    BY DEF CallInv, Strangers
  <2>2. CASE store' = store
    BY <2>1, <2>2, DecisionsSame
  <2>3. ASSUME NEW c \in Involved(t), NEW st \in Status, Written(c, t, [tx |-> t, status |-> st])
        PROVE  Decisions(d, u)' = {}
    <3>1. c \in Cluster /\ SlotsInv /\ (d # c \/ u # t)
      BY <1>1, Clusters DEF Involved, PreparedInv
    <3> QED
      BY <2>1, <2>3, <3>1, DecisionsWritten
  <2> QED
    BY <1>1, <2>2, <2>3, StepWrites
<1>4. Truthful'
  <2> SUFFICES ASSUME NEW u \in Tx, Intra(u) \/ calls'[u] <= 1
               PROVE  /\ TRUE \in results'[u] => \E d \in Cluster : Decisions(d, u)' \cap {"", "C"} # {}
                      /\ FALSE \in results'[u] => \E d \in Cluster : "A" \in Decisions(d, u)'
    BY DEF Truthful, Intra, Coord, Part
  <2>1. results' = results
    BY DEF StepOf, CoordinatorStep, ParticipantStep, Fault, ExecuteTransaction, Refuse, Prepare, PrepareDone,
       RunFailed, StartCommit, StartAbort, PCPrepareLost, CommitDone, AbortDone, PCPrepare, PartPrepare,
       PartPrepareDone, PartPrepareFailed, WaitForPCCommit, PartAbortDone, PartAbortFailed, PCCommit,
       PCCommitDone, PCCommitFailed, PCCommitUnheard, client
  <2>2. Intra(u) \/ calls[u] <= 1
    <3>1. calls'[u] = calls[u] \/ calls'[u] = calls[u] + 1
      <4>1. calls \in [Tx -> 0..MaxCalls]
        BY <1>1 DEF CountType
      <4>2. calls' = calls \/ calls' = [calls EXCEPT ![t] = calls[t] + 1]
        BY DEF StepOf, CoordinatorStep, ParticipantStep, Fault, ExecuteTransaction, Refuse, Prepare, PrepareDone,
           RunFailed, StartCommit, StartAbort, PCPrepareLost, CommitDone, AbortDone, PCPrepare, PartPrepare,
           PartPrepareDone, PartPrepareFailed, WaitForPCCommit, PartAbortDone, PartAbortFailed, PCCommit,
           PCCommitDone, PCCommitFailed, PCCommitUnheard, client
      <4> QED
        BY <4>1, <4>2
    <3>2. calls[u] \in Nat
      BY <1>1, CrossShardAssumption DEF CountType
    <3> QED
      BY <3>1, <3>2
  <2>3. \A d \in Cluster : Decisions(d, u) \subseteq Decisions(d, u)'
    <3>1. CASE u = t
      BY <1>1, <2>2, <3>1, StepDecides DEF CallInv
    <3>2. CASE u # t
      <4>1. CASE store' = store
        BY <4>1, DecisionsSame
      <4>2. ASSUME NEW c \in Involved(t), NEW st \in Status, Written(c, t, [tx |-> t, status |-> st])
            PROVE  \A d \in Cluster : Decisions(d, u)' = Decisions(d, u)
        <5>1. c \in Cluster /\ SlotsInv
          BY <1>1, Clusters DEF Involved, PreparedInv
        <5> QED
          BY <3>2, <4>2, <5>1, DecisionsWritten
      <4> QED
        BY <1>1, <4>1, <4>2, StepWrites
    <3> QED
      BY <3>1, <3>2
  <2>4. /\ TRUE \in results[u] => \E d \in Cluster : Decisions(d, u) \cap {"", "C"} # {}
        /\ FALSE \in results[u] => \E d \in Cluster : "A" \in Decisions(d, u)
    BY <2>2 DEF CallInv, Truthful
  <2> QED
    BY <2>1, <2>3, <2>4
<1> QED
  BY <1>2, <1>3, <1>4

\* The executor and steps that change nothing decide nothing.
LEMMA StillDecided ==
    ASSUME OnceInv, Strangers, UNCHANGED <<calls, coord, part, answer, store>>
    PROVE  /\ OnceInv' /\ Strangers'
           /\ \A d \in Cluster, u \in Tx : Decisions(d, u)' = Decisions(d, u)
<1>1. \A d, u : Decisions(d, u)' = Decisions(d, u)
  BY DecisionsSame
<1>2. ASSUME NEW t \in Tx
      PROVE  (Local(t) => Local(t)') /\ (Single(t) => Single(t)') /\ Intra(t)' = Intra(t)
  <2>1. PICK c, p : c = Coord(t) /\ p = Part(t)
    OBVIOUS
  <2>2. Coord(t)' = c /\ Part(t)' = p
    BY <2>1 DEF Coord, Part
  <2> QED
    BY <1>1, <2>1, <2>2 DEF Local, Single, Intra
<1>3. OnceInv'
  BY <1>2 DEF OnceInv
<1>4. Strangers'
  BY <1>1 DEF Strangers, Involved, Coord, Part
<1> QED
  BY <1>1, <1>3, <1>4

LEMMA ExecuteCalls ==
    ASSUME CallInv, NEW c \in Cluster, Execute(c)
    PROVE  OnceInv' /\ Strangers' /\ Truthful'
<1>1. UNCHANGED <<calls, coord, part, answer, store>>
  BY DEF Execute, ledger
<1>2. OnceInv' /\ Strangers' /\ \A d \in Cluster, u \in Tx : Decisions(d, u)' = Decisions(d, u)
  BY <1>1, StillDecided DEF CallInv
<1>3. PICK e : e = store[c][exec[c]]
  OBVIOUS
<1>4. e \in Entry /\ e.tx \in Tx /\ e.status \in Decisions(c, e.tx) /\ results \in [Tx -> SUBSET BOOLEAN]
  <2>1. exec[c] \in Slot /\ e.tx # NoTx
    BY <1>3 DEF Execute, CanExecute
  <2>2. e \in Entry
    BY <1>3, <2>1, TypeParts DEF CallInv, CrossInv, SlotType
  <2>3. e = [tx |-> e.tx, status |-> e.status] /\ e.tx \in Tx /\ e.status \in Status
    BY <2>1, <2>2 DEF Entry
  <2>4. Decided(c, e.tx, e.status)
    BY <1>3, <2>1, <2>3 DEF Decided
  <2> QED
    BY <2>2, <2>3, <2>4, TypeParts DEF Decisions, CallInv, CrossInv, CountType
<1>5. Truthful'
  <2> SUFFICES ASSUME NEW u \in Tx, Intra(u) \/ calls[u] <= 1
               PROVE  /\ TRUE \in results'[u] => \E d \in Cluster : Decisions(d, u) \cap {"", "C"} # {}
                      /\ FALSE \in results'[u] => \E d \in Cluster : "A" \in Decisions(d, u)
    BY <1>1, <1>2 DEF Truthful, Intra, Coord, Part
  <2>1. /\ TRUE \in results[u] => \E d \in Cluster : Decisions(d, u) \cap {"", "C"} # {}
        /\ FALSE \in results[u] => \E d \in Cluster : "A" \in Decisions(d, u)
    BY DEF CallInv, Truthful
  <2>2. CASE results'[u] = results[u]
    BY <2>1, <2>2
  <2>3. CASE results'[u] # results[u]
    <3>1. e.status # "P" /\ u = e.tx /\ results'[u] = results[u] \cup {e.status # "A"}
      BY <1>3, <1>4, <2>3 DEF Execute
    <3>2. e.status \in {"", "C", "A"}
      BY <1>4, <3>1 DEF Entry, Status
    <3> QED
      BY <1>4, <2>1, <3>1, <3>2
  <2> QED
    BY <2>2, <2>3
<1> QED
  BY <1>2, <1>5

LEMMA StepCalls == CallInv /\ [Next]_vars => CallInv'
<1> SUFFICES ASSUME CallInv, [Next]_vars PROVE CallInv'
  OBVIOUS
<1>1. CrossInv'
  BY StepCross DEF CallInv
<1>2. ASSUME NEW t \in Tx, StepOf(t) PROVE OnceInv' /\ Strangers' /\ Truthful'
  BY <1>2, StepOfCalls
<1>3. ASSUME NEW c \in Cluster, Execute(c) PROVE OnceInv' /\ Strangers' /\ Truthful'
  BY <1>3, ExecuteCalls
<1>4. CASE UNCHANGED vars
  <2>1. UNCHANGED <<calls, coord, part, answer, store, results>>
    BY <1>4 DEF vars, client, ledger
  <2>2. OnceInv' /\ Strangers' /\ \A d \in Cluster, u \in Tx : Decisions(d, u)' = Decisions(d, u)
    BY <2>1, StillDecided DEF CallInv
  <2>3. Truthful'
    BY <2>1, <2>2 DEF CallInv, Truthful, Intra, Coord, Part
  <2> QED
    BY <1>1, <2>2, <2>3 DEF CallInv
<1> QED
  BY <1>1, <1>2, <1>3, <1>4 DEF CallInv, Next, StepOf

\* The gateway calls no payment over two clusters a second time.
CalledOnce == \A t \in Tx : Intra(t) \/ calls[t] <= 1

\* What runCrossShard and PCPrepare have decided and what executors have answered, of
\* every payment that is called once.
THEOREM CallInvariant == Spec => []CallInv
  BY InitCalls, StepCalls, PTL DEF Spec

\* As long as the gateway repeats no payment over two clusters, no client hears both outcomes
\* of its payment, whatever runs fail, calls of PCPrepare are lost and PCCommits repeated.
THEOREM OneAnswerHolds == Spec /\ []CalledOnce => []OneAnswer
<1>1. CallInv /\ CalledOnce => OneAnswer
  <2> SUFFICES ASSUME CallInv, CalledOnce, NEW t \in Tx PROVE Cardinality(results[t]) <= 1
    BY DEF OneAnswer
  <2>1. results[t] \in SUBSET BOOLEAN
    BY TypeParts DEF CallInv, CrossInv, CountType
  <2>2. ~ (TRUE \in results[t] /\ FALSE \in results[t])
    <3> SUFFICES ASSUME TRUE \in results[t], FALSE \in results[t] PROVE FALSE
      OBVIOUS
    <3>1. PICK c \in Cluster : Decisions(c, t) \cap {"", "C"} # {}
      BY DEF CalledOnce, CallInv, Truthful
    <3>2. PICK d \in Cluster : "A" \in Decisions(d, t)
      BY DEF CalledOnce, CallInv, Truthful
    <3>3. c \in Involved(t) /\ d \in Involved(t)
      BY <3>1, <3>2 DEF CallInv, Strangers
    <3>4. CASE Intra(t)
      <4>1. d = Coord(t)
        BY <3>3, <3>4 DEF Involved, Intra
      <4>2. Decisions(Coord(t), t) \subseteq {""}
        BY <3>4 DEF CallInv, OnceInv, Local
      <4> QED
        BY <3>2, <4>1, <4>2
    <3>5. CASE ~Intra(t)
      BY <3>1, <3>2, <3>3, <3>5 DEF CallInv, OnceInv, CalledOnce, Single, Stages, Involved
    <3> QED
      BY <3>4, <3>5
  <2>3. results[t] = {} \/ results[t] = {TRUE} \/ results[t] = {FALSE}
    BY <2>1, <2>2
  <2>4. Cardinality(results[t]) = 0 \/ Cardinality(results[t]) = 1
    BY <2>3, FS_EmptySet, FS_Singleton, Zenon
  <2> QED
    BY <2>4
<1> QED
  BY <1>1, CallInvariant, PTL

-----------------------------------------------------------------------------
(* Two-phase commit implements atomic commit.                              *)

\* Outcome in terms of the statuses decided.
ResultOf(ds) ==
    IF "C" \in ds THEN "committed"
    ELSE IF "A" \in ds THEN "aborted"
    ELSE IF "P" \in ds \/ "" \in ds THEN "prepared"
    ELSE "open"

OutcomeBar == [c \in Cluster |-> [t \in Tx |-> Outcome(c, t)]]

LEMMA OutcomeOf ==
    ASSUME NEW c, NEW t
    PROVE  /\ Outcome(c, t) = ResultOf(Decisions(c, t))
           /\ Outcome(c, t)' = ResultOf(Decisions(c, t)')
  BY DEF Outcome, ResultOf, Decisions, Status

\* A step that changes the outcome of t at c, or nothing, changes just that entry.
LEMMA BarChanges ==
    ASSUME NEW c \in Cluster, NEW t \in Tx,
           \A d \in Cluster, u \in Tx : d # c \/ u # t => Decisions(d, u)' = Decisions(d, u)
    PROVE  OutcomeBar' = [OutcomeBar EXCEPT ![c][t] = ResultOf(Decisions(c, t)')]
<1> DEFINE new == ResultOf(Decisions(c, t)')
<1>1. \A d \in Cluster, u \in Tx : d # c \/ u # t => Outcome(d, u)' = Outcome(d, u)
  BY OutcomeOf
<1>2. Outcome(c, t)' = new
  BY OutcomeOf
<1> HIDE DEF new
<1>3. OutcomeBar' = [d \in Cluster |-> [u \in Tx |-> Outcome(d, u)']]
  BY DEF OutcomeBar
<1>4. OutcomeBar' = [d \in Cluster |-> [u \in Tx |-> IF d = c /\ u = t THEN new ELSE Outcome(d, u)]]
  BY <1>1, <1>2, <1>3
<1>5. OutcomeBar' = [OutcomeBar EXCEPT ![c][t] = new]
  BY <1>4 DEF OutcomeBar
<1> QED
  BY <1>5 DEF new

LEMMA StepOfRefines ==
    ASSUME CallInv, CallInv', CalledOnce, CalledOnce', NEW t \in Tx, StepOf(t)
    PROVE  AC!ACNext \/ OutcomeBar' = OutcomeBar
<1>1. PreparedInv /\ OnceInv /\ OnceInv' /\ (Intra(t) \/ (calls[t] <= 1 /\ calls'[t] <= 1))
  BY TypeParts DEF CallInv, CrossInv, CalledOnce, Intra, Coord, Part
<1>2. CASE \A d \in Cluster, u \in Tx : Decisions(d, u)' = Decisions(d, u)
  BY <1>2, OutcomeOf DEF OutcomeBar
<1>3. ASSUME NEW c \in Involved(t), NEW st \in Status,
             Decisions(c, t)' = Decisions(c, t) \cup {st},
             \A d \in Cluster, u \in Tx : d # c \/ u # t => Decisions(d, u)' = Decisions(d, u)
      PROVE  AC!ACNext \/ OutcomeBar' = OutcomeBar
  <2>1. PICK b \in Cluster, p \in Cluster : b = Coord(t) /\ p = Part(t)
    BY Clusters
  <2>2. c \in Cluster /\ c \in {b, p} /\ Involved(t) = {b, p} /\ Coord(t)' = b /\ Part(t)' = p
    BY <2>1 DEF Involved, Coord, Part
  <2>3. PICK old, new : old = Decisions(c, t) /\ new = old \cup {st}
    OBVIOUS
  <2>4. OutcomeBar' = [OutcomeBar EXCEPT ![c][t] = ResultOf(new)]
    <3>1. Decisions(c, t)' = new
      BY <1>3, <2>3
    <3>2. OutcomeBar' = [OutcomeBar EXCEPT ![c][t] = ResultOf(Decisions(c, t)')]
      BY <1>3, <2>2, BarChanges
    <3> QED
      BY <3>1, <3>2
  <2>5. \A d \in Cluster : OutcomeBar[d][t] = ResultOf(Decisions(d, t))
    BY OutcomeOf DEF OutcomeBar
  <2>6. CASE ResultOf(new) = ResultOf(old)
    <3>1. OutcomeBar[c][t] = ResultOf(new)
      BY <2>2, <2>3, <2>5, <2>6
    <3>2. OutcomeBar \in [Cluster -> [Tx -> {Outcome(d, u) : d \in Cluster, u \in Tx}]]
      BY DEF OutcomeBar
    <3> QED
      BY <2>2, <2>4, <3>1, <3>2
  <2>7. CASE ResultOf(new) # ResultOf(old)
    <3>1. \/ ResultOf(old) = "open" /\ ResultOf(new) = "prepared"
          \/ /\ ResultOf(old) = "prepared" /\ ResultOf(new) = "committed"
             /\ \A d \in {b, p} : ResultOf(Decisions(d, t)) \in {"prepared", "committed"}
          \/ /\ ResultOf(old) \in {"open", "prepared"} /\ ResultOf(new) = "aborted"
             /\ \A d \in {b, p} : ResultOf(Decisions(d, t)) # "committed"
      <4>1. CASE Intra(t)
        <5>1. Local(t) /\ Local(t)' /\ c = b
          BY <1>1, <2>1, <2>2, <4>1 DEF OnceInv, Intra, Coord, Part
        <5>2. Decisions(c, t) \subseteq {""} /\ Decisions(c, t)' \subseteq {""}
          BY <2>1, <2>2, <5>1 DEF Local
        <5>3. old \subseteq {""} /\ new = {""}
          BY <1>3, <2>3, <5>2
        <5> QED
          BY <2>7, <5>3 DEF ResultOf
      <4>2. CASE ~Intra(t)
        <5>1. b # p /\ Single(t) /\ Single(t)'
          BY <1>1, <2>1, <4>2 DEF OnceInv, Intra, Coord, Part
        <5>2. PICK cs, ps, cs2, ps2 :
                /\ cs = Decisions(b, t) /\ ps = Decisions(p, t)
                /\ cs2 = Decisions(b, t)' /\ ps2 = Decisions(p, t)'
          OBVIOUS
        <5>3. /\ Stages(calls[t], coord[t], part[t], answer[t], cs, ps)
              /\ Stages(calls'[t], coord'[t], part'[t], answer'[t], cs2, ps2)
          BY <2>1, <2>2, <5>1, <5>2 DEF Single
        <5>4. CASE c = b
          <6>1. old = cs /\ new = cs2 /\ ps2 = ps
            BY <1>3, <2>3, <5>1, <5>2, <5>4
          <6>2. \/ cs = {} /\ cs2 = {"P"}
                \/ cs = {"P"} /\ cs2 = {"P", "C"} /\ ps \in {{"P"}, {"P", "C"}}
                \/ cs = {"P"} /\ cs2 = {"P", "A"} /\ "C" \notin ps
            BY <2>3, <2>7, <5>3, <6>1 DEF Stages
          <6> QED
            BY <5>2, <6>1, <6>2 DEF ResultOf
        <5>5. CASE c = p
          <6>1. old = ps /\ new = ps2 /\ cs2 = cs
            BY <1>3, <2>3, <5>1, <5>2, <5>5
          <6>2. \/ ps = {} /\ ps2 = {"P"}
                \/ ps = {"P"} /\ ps2 = {"P", "C"} /\ cs = {"P", "C"}
                \/ ps = {} /\ ps2 = {"A"} /\ "C" \notin cs
            BY <2>3, <2>7, <5>3, <6>1 DEF Stages
          <6> QED
            BY <5>2, <6>1, <6>2 DEF ResultOf
        <5> QED
          BY <2>2, <5>4, <5>5
      <4> QED
        BY <4>1, <4>2
    <3>2. /\ OutcomeBar[c][t] = ResultOf(old)
          /\ \A d \in {b, p} : OutcomeBar[d][t] = ResultOf(Decisions(d, t))
      BY <2>2, <2>3, <2>5
    <3>3. CASE ResultOf(old) = "open" /\ ResultOf(new) = "prepared"
      <4>1. AC!ACPrepare(c, t)
        BY <2>4, <3>2, <3>3 DEF AC!ACPrepare, OutcomeBar
      <4> QED
        BY <2>2, <4>1 DEF AC!ACNext
    <3>4. CASE /\ ResultOf(old) = "prepared" /\ ResultOf(new) = "committed"
               /\ \A d \in {b, p} : ResultOf(Decisions(d, t)) \in {"prepared", "committed"}
      <4>1. AC!ACCommit(c, t)
        BY <2>2, <2>4, <3>2, <3>4 DEF AC!ACCommit, OutcomeBar
      <4> QED
        BY <2>2, <4>1 DEF AC!ACNext
    <3>5. CASE /\ ResultOf(old) \in {"open", "prepared"} /\ ResultOf(new) = "aborted"
               /\ \A d \in {b, p} : ResultOf(Decisions(d, t)) # "committed"
      <4>1. AC!ACAbort(c, t)
        BY <2>2, <2>4, <3>2, <3>5 DEF AC!ACAbort, OutcomeBar
      <4> QED
        BY <2>2, <4>1 DEF AC!ACNext
    <3> QED
      BY <3>1, <3>3, <3>4, <3>5
  <2> QED
    BY <2>6, <2>7
<1> QED
  BY <1>1, <1>2, <1>3, StepDecides

LEMMA NextRefines == CallInv /\ CallInv' /\ CalledOnce /\ CalledOnce' /\ [Next]_vars => AC!ACNext \/ OutcomeBar' = OutcomeBar
<1> SUFFICES ASSUME CallInv, CallInv', CalledOnce, CalledOnce', [Next]_vars
             PROVE  AC!ACNext \/ OutcomeBar' = OutcomeBar
  OBVIOUS
<1>1. ASSUME NEW t \in Tx, StepOf(t) PROVE AC!ACNext \/ OutcomeBar' = OutcomeBar
  BY <1>1, StepOfRefines
<1>2. CASE UNCHANGED <<calls, coord, part, answer, store>>
  BY <1>2, DecisionsSame, OutcomeOf DEF OutcomeBar
<1>3. ASSUME NEW c \in Cluster, Execute(c) PROVE UNCHANGED <<calls, coord, part, answer, store>>
  BY <1>3 DEF Execute, ledger
<1>4. CASE UNCHANGED vars
  BY <1>2, <1>4 DEF vars, client, ledger
<1> QED
  BY <1>1, <1>2, <1>3, <1>4 DEF Next, StepOf

\* As long as the gateway repeats no payment over two clusters, the clusters implement
\* atomic commit: one outcome, a commit only when both are prepared, an abort only when
\* neither has committed, whatever runs fail, calls are lost and PCCommits repeated.
THEOREM ImplementsAtomicCommitHolds == Spec /\ []CalledOnce => ImplementsAtomicCommit
<1>1. Init => AC!ACInit
  <2> SUFFICES ASSUME Init PROVE AC!ACInit
    OBVIOUS
  <2>1. \A c \in Cluster, t \in Tx : ~Decided(c, t, "C") /\ ~Decided(c, t, "A") /\ ~Decided(c, t, "P") /\ ~Decided(c, t, "")
    BY CrossShardAssumption DEF Init, Decided, NoEntry
  <2>2. \A c \in Cluster, t \in Tx : Outcome(c, t) = "open"
    BY <2>1 DEF Outcome
  <2> QED
    BY <2>2 DEF AC!ACInit
<1>2. CallInv /\ CallInv' /\ CalledOnce /\ CalledOnce' /\ [Next]_vars => [AC!ACNext]_(AC!acvars)
  BY NextRefines DEF OutcomeBar, AC!acvars
<1> QED
  BY <1>1, <1>2, CallInvariant, PTL DEF Spec, ImplementsAtomicCommit, AC!ACSpec

-----------------------------------------------------------------------------
(* Money.                                                                  *)

\* A run decides st in a slot that is empty, and prepares and aborts at most once.
Fresh(c, t, st) ==
    /\ Written(c, t, [tx |-> t, status |-> st])
    /\ store[c][slot[c][t]].tx = NoTx
    /\ st \in {"P", "A"} => ~Intra(t) /\ st \notin Decisions(c, t)

\* What a decision does to the write-ahead log.
Logs(c, t, st) ==
    IF st = "P" THEN wal' = AppendToWALEntry(c, t)
    ELSE wal' = wal \/ (st = "C" /\ wal' = EraseWal(c, t))

\* A slot of a payment that has decided nothing is empty.
LEMMA NothingDecided ==
    ASSUME SlotsInv, NEW c \in Cluster, NEW t \in Tx, slot[c][t] \in Slot, Decisions(c, t) = {}
    PROVE  store[c][slot[c][t]].tx = NoTx
<1> DEFINE e == store[c][slot[c][t]]
<1>1. e.tx \in {NoTx, t} /\ e \in Entry
  BY DEF SlotsInv, SlotsApart, SlotType
<1>2. ASSUME e.tx = t PROVE FALSE
  <2>1. e = [tx |-> t, status |-> e.status] /\ e.status \in Status
    BY <1>1, <1>2 DEF Entry
  <2>2. e.status \in Decisions(c, t)
    BY <2>1 DEF Decisions, Decided
  <2> QED
    BY <2>2
<1> QED
  BY <1>1, <1>2

LEMMA CoordinatorRecords ==
    ASSUME CallInv, NEW t \in Tx, ~Intra(t), Single(t), NEW c \in Cluster, c = Coord(t),
           PrepareDone(t) \/ CommitDone(t) \/ AbortDone(t)
    PROVE  \E st \in Status : Fresh(c, t, st) /\ Logs(c, t, st)
<1>1. PreparedInv /\ SlotsInv /\ Prepares(t)
  BY DEF CallInv, CrossInv, PreparedInv, PreparesInv
<1>2. {"P", "C", "A"} \subseteq Status /\ slot[c][t] \in Slot
  BY <1>1 DEF SlotsInv, RunsHaveSlots, Running, Status, PrepareDone, CommitDone, AbortDone
<1>3. PICK cs : cs = Decisions(c, t)
  OBVIOUS
<1>4. /\ coord[t] = "prepare" => cs = {}
      /\ coord[t] \in {"commit", "abort"} => cs = {"P"} /\ store[c][slot[c][t]].tx = NoTx
  BY <1>1, <1>3 DEF Single, Stages, Prepares
<1>5. CASE PrepareDone(t)
  <2>1. coord[t] = "prepare" /\ RunOf(t) = "P"
    BY <1>5 DEF PrepareDone, RunOf
  <2>2. Written(c, t, [tx |-> t, status |-> "P"]) /\ Logs(c, t, "P")
    BY <1>2, <1>5, <2>1 DEF PrepareDone, Decide, Written, Logs
  <2>3. store[c][slot[c][t]].tx = NoTx
    BY <1>1, <1>2, <1>3, <1>4, <2>1, NothingDecided
  <2>4. Fresh(c, t, "P")
    BY <1>3, <1>4, <2>1, <2>2, <2>3 DEF Fresh
  <2> QED
    BY <1>2, <2>2, <2>4
<1>6. CASE CommitDone(t)
  <2>1. coord[t] = "commit"
    BY <1>6 DEF CommitDone
  <2>2. Written(c, t, [tx |-> t, status |-> "C"]) /\ Logs(c, t, "C")
    BY <1>2, <1>6 DEF CommitDone, Written, Logs
  <2>3. Fresh(c, t, "C")
    BY <1>4, <2>1, <2>2 DEF Fresh
  <2> QED
    BY <1>2, <2>2, <2>3
<1>7. CASE AbortDone(t)
  <2>1. coord[t] = "abort"
    BY <1>7 DEF AbortDone
  <2>2. Written(c, t, [tx |-> t, status |-> "A"]) /\ Logs(c, t, "A")
    BY <1>2, <1>7 DEF AbortDone, Decide, Written, Logs
  <2>3. Fresh(c, t, "A")
    BY <1>3, <1>4, <2>1, <2>2 DEF Fresh
  <2> QED
    BY <1>2, <2>2, <2>3
<1> QED
  BY <1>5, <1>6, <1>7

LEMMA ParticipantRecords ==
    ASSUME CallInv, NEW t \in Tx, ~Intra(t), Single(t), NEW c \in Cluster, c = Part(t),
           PartPrepareDone(t) \/ PartAbortDone(t) \/ PCCommitDone(t) \/ PCCommitUnheard(t)
    PROVE  \E st \in Status : Fresh(c, t, st) /\ Logs(c, t, st)
<1>1. PreparedInv /\ SlotsInv /\ Prepares(t)
  BY DEF CallInv, CrossInv, PreparedInv, PreparesInv
<1>2. {"P", "C", "A"} \subseteq Status /\ slot[c][t] \in Slot
  BY <1>1 DEF SlotsInv, RunsHaveSlots, Running, Status, PartPrepareDone, PartAbortDone, PCCommitDone, PCCommitUnheard
<1>3. PICK ps : ps = Decisions(c, t)
  OBVIOUS
<1>4. /\ part[t] \in {"prepare", "abort"} => ps = {}
      /\ part[t] \in {"commit", "abort"} => store[c][slot[c][t]].tx = NoTx
  BY <1>1, <1>3 DEF Single, Stages, Prepares
<1>5. CASE PartPrepareDone(t)
  <2>1. part[t] = "prepare"
    BY <1>5 DEF PartPrepareDone
  <2>2. Written(c, t, [tx |-> t, status |-> "P"]) /\ Logs(c, t, "P")
    BY <1>2, <1>5, <2>1 DEF PartPrepareDone, Decide, Written, Logs
  <2>3. store[c][slot[c][t]].tx = NoTx
    BY <1>1, <1>2, <1>3, <1>4, <2>1, NothingDecided
  <2>4. Fresh(c, t, "P")
    BY <1>3, <1>4, <2>1, <2>2, <2>3 DEF Fresh
  <2> QED
    BY <1>2, <2>2, <2>4
<1>6. CASE PCCommitDone(t) \/ PCCommitUnheard(t)
  <2>1. part[t] = "commit"
    BY <1>6 DEF PCCommitDone, PCCommitUnheard
  <2>2. Written(c, t, [tx |-> t, status |-> "C"]) /\ Logs(c, t, "C")
    BY <1>2, <1>6 DEF PCCommitDone, PCCommitUnheard, Decide, Written, Logs
  <2>3. Fresh(c, t, "C")
    BY <1>4, <2>1, <2>2 DEF Fresh
  <2> QED
    BY <1>2, <2>2, <2>3
<1>7. CASE PartAbortDone(t)
  <2>1. part[t] = "abort"
    BY <1>7 DEF PartAbortDone
  <2>2. Written(c, t, [tx |-> t, status |-> "A"]) /\ Logs(c, t, "A")
    BY <1>2, <1>7 DEF PartAbortDone, Decide, Written, Logs
  <2>3. Fresh(c, t, "A")
    BY <1>3, <1>4, <2>1, <2>2 DEF Fresh
  <2> QED
    BY <1>2, <2>2, <2>3
<1> QED
  BY <1>5, <1>6, <1>7

\* A payment inside one cluster is decided once, or anew with the same entry.
LEMMA LocalRecords ==
    ASSUME CallInv, NEW t \in Tx, Intra(t), NEW c \in Cluster, c = Coord(t), PrepareDone(t)
    PROVE  wal' = wal /\ (store' = store \/ Fresh(c, t, ""))
<1>1. SlotsInv /\ Decisions(c, t) \subseteq {""}
  BY DEF CallInv, CrossInv, PreparedInv, OnceInv, Local
<1>2. slot[c][t] \in Slot /\ RunOf(t) = ""
  BY <1>1 DEF SlotsInv, RunsHaveSlots, Running, PrepareDone, RunOf
<1>3. Written(c, t, [tx |-> t, status |-> ""]) /\ wal' = wal
  BY <1>2 DEF PrepareDone, Decide, Written
<1> DEFINE w == slot[c][t]
           e == store[c][w]
<1>4. e.tx \in {NoTx, t} /\ e \in Entry
  BY <1>1, <1>2 DEF SlotsInv, SlotsApart, SlotType
<1>5. CASE e.tx = NoTx
  BY <1>3, <1>5 DEF Fresh
<1>6. CASE e.tx = t
  <2>1. e = [tx |-> t, status |-> e.status] /\ e.status \in Status
    BY <1>4, <1>6 DEF Entry
  <2>2. e.status = ""
    <3>1. Decided(c, t, e.status)
      BY <1>2, <2>1 DEF Decided
    <3> QED
      BY <1>1, <2>1, <3>1 DEF Decisions
  <2>3. e = [tx |-> t, status |-> ""]
    BY <2>1, <2>2
  <2>4. store' = [store EXCEPT ![c][w] = e]
    BY <1>3, <2>3 DEF Written
  <2>5. store \in [Cluster -> [Slot -> Entry]]
    BY <1>1 DEF SlotsInv, SlotType
  <2>6. store' = store
    BY <1>2, <2>4, <2>5
  <2> QED
    BY <1>3, <2>6
<1> QED
  BY <1>3, <1>4, <1>5, <1>6

\* The decisions of one step and what they do to Datastore and write-ahead log.
LEMMA StepRecords ==
    ASSUME CallInv, CalledOnce, NEW t \in Tx, StepOf(t)
    PROVE  \/ store' = store /\ wal' = wal
           \/ \E c \in Involved(t), st \in Status : Fresh(c, t, st) /\ Logs(c, t, st)
<1>1. PICK c \in Cluster, p \in Cluster : c = Coord(t) /\ p = Part(t)
  BY Clusters
<1>2. c \in Involved(t) /\ p \in Involved(t) /\ "" \in Status
  BY <1>1 DEF Involved, Status
<1>3. CASE Intra(t)
  <2>1. Local(t)
    BY <1>3 DEF CallInv, OnceInv
  <2>2. CASE PrepareDone(t)
    <3>1. wal' = wal /\ (store' = store \/ Fresh(c, t, ""))
      BY <1>1, <1>3, <2>2, LocalRecords
    <3> QED
      BY <1>2, <3>1 DEF Logs
  <2>3. CASE ~PrepareDone(t)
    BY <2>1, <2>3 DEF Local, StepOf, CoordinatorStep, ParticipantStep, Fault, ExecuteTransaction, Refuse, Prepare,
       RunFailed, StartCommit, StartAbort, PCPrepareLost, CommitDone, AbortDone, PCPrepare, PartPrepare,
       PartPrepareDone, PartPrepareFailed, WaitForPCCommit, PartAbortDone, PartAbortFailed, PCCommit,
       PCCommitDone, PCCommitFailed, PCCommitUnheard, ledger
  <2> QED
    BY <2>2, <2>3
<1>4. CASE ~Intra(t)
  <2>1. Single(t)
    BY <1>4 DEF CallInv, OnceInv, CalledOnce
  <2>2. CASE PrepareDone(t) \/ CommitDone(t) \/ AbortDone(t)
    BY <1>1, <1>2, <1>4, <2>1, <2>2, CoordinatorRecords
  <2>3. CASE PartPrepareDone(t) \/ PartAbortDone(t) \/ PCCommitDone(t) \/ PCCommitUnheard(t)
    BY <1>1, <1>2, <1>4, <2>1, <2>3, ParticipantRecords
  <2> QED
    BY <2>2, <2>3 DEF StepOf, CoordinatorStep, ParticipantStep, Fault, ExecuteTransaction, Refuse, Prepare,
       RunFailed, StartCommit, StartAbort, PCPrepareLost, PCPrepare, PartPrepare,
       PartPrepareFailed, WaitForPCCommit, PartAbortFailed, PCCommit, PCCommitFailed, ledger
<1> QED
  BY <1>3, <1>4

\* What is executed was decided, prepares and aborts have one entry each, and the write-ahead
\* log has the prepares that are not committed.
Filled == \A c \in Cluster, s \in Slot : s < exec[c] => store[c][s].tx # NoTx

NoTwins ==
    \A c \in Cluster : \A t \in Tx, r, s \in Slot : \A st \in {"P", "A"} :
        store[c][r] = [tx |-> t, status |-> st] /\ store[c][s] = [tx |-> t, status |-> st] => r = s

Logged ==
    \A t \in Tx : ~Intra(t) => \A c \in Involved(t) :
        "C" \notin Decisions(c, t) => wal[c][t] = IF "P" \in Decisions(c, t) THEN 1 ELSE 0

LedgerInv == Filled /\ NoTwins /\ Logged

\* t's entry with status st is executed at cluster c.
Executed(c, t, st) == \E s \in Slot : s < exec[c] /\ store[c][s] = [tx |-> t, status |-> st]

LEMMA FreshStore ==
    ASSUME SlotType, NEW c \in Cluster, NEW t \in Tx, NEW st \in Status, Fresh(c, t, st)
    PROVE  \E w \in Slot : /\ store[c][w].tx = NoTx /\ store'[c][w] = [tx |-> t, status |-> st]
                           /\ \A d \in Cluster, s \in Slot : d # c \/ s # w => store'[d][s] = store[d][s]
<1> DEFINE w == slot[c][t]
           e == [tx |-> t, status |-> st]
<1>1. w \in Slot /\ store' = [store EXCEPT ![c][w] = e] /\ store[c][w].tx = NoTx
  BY DEF Fresh, Written
<1>2. e \in Entry
  BY DEF Entry
<1> HIDE DEF e
<1>3. /\ store'[c][w] = e
      /\ \A d \in Cluster, s \in Slot : d # c \/ s # w => store'[d][s] = store[d][s]
  BY <1>1 DEF SlotType
<1> QED
  BY <1>1, <1>3 DEF e

\* A decision changes nothing of what is executed.
LEMMA ExecutedStays ==
    ASSUME SlotType, Filled, exec' = exec, NEW t \in Tx,
           store' = store \/ \E c \in Involved(t), st \in Status : Fresh(c, t, st)
    PROVE  /\ Filled'
           /\ \A d \in Cluster : \A u, x : Executed(d, u, x)' <=> Executed(d, u, x)
<1>1. CASE store' = store
  BY <1>1 DEF Filled, Executed
<1>2. ASSUME NEW c \in Involved(t), NEW st \in Status, Fresh(c, t, st)
      PROVE  /\ Filled'
             /\ \A d \in Cluster : \A u, x : Executed(d, u, x)' <=> Executed(d, u, x)
  <2>1. c \in Cluster
    BY Clusters DEF Involved
  <2>2. PICK w \in Slot : /\ store[c][w].tx = NoTx /\ store'[c][w] = [tx |-> t, status |-> st]
                          /\ \A d \in Cluster, s \in Slot : d # c \/ s # w => store'[d][s] = store[d][s]
    BY <1>2, <2>1, FreshStore
  <2>3. \A d \in Cluster, s \in Slot : s < exec[d] => store'[d][s] = store[d][s]
    BY <2>2 DEF Filled
  <2> QED
    BY <2>3 DEF Filled, Executed
<1> QED
  BY <1>1, <1>2

LEMMA LedgerStep ==
    ASSUME CallInv, CalledOnce, LedgerInv, NEW t \in Tx, StepOf(t)
    PROVE  LedgerInv' /\ \A d \in Cluster : \A u, x : Executed(d, u, x)' <=> Executed(d, u, x)
<1>1. SlotsInv /\ SlotType /\ MoneyType
  BY TypeParts DEF CallInv, CrossInv, PreparedInv, SlotsInv
<1>2. exec' = exec
  BY DEF StepOf, CoordinatorStep, ParticipantStep, Fault, ExecuteTransaction, Refuse, Prepare, PrepareDone,
     RunFailed, StartCommit, StartAbort, PCPrepareLost, CommitDone, AbortDone, PCPrepare, PartPrepare,
     PartPrepareDone, PartPrepareFailed, WaitForPCCommit, PartAbortDone, PartAbortFailed, PCCommit,
     PCCommitDone, PCCommitFailed, PCCommitUnheard, applied
<1>3. Filled' /\ \A d \in Cluster : \A u, x : Executed(d, u, x)' <=> Executed(d, u, x)
  BY <1>1, <1>2, StepRecords, ExecutedStays DEF LedgerInv
<1>4. NoTwins' /\ Logged'
  <2>1. CASE store' = store /\ wal' = wal
    <3>1. NoTwins'
      BY <2>1 DEF LedgerInv, NoTwins
    <3>2. \A d, u : Decisions(d, u)' = Decisions(d, u)
      BY <2>1, DecisionsSame
    <3>3. Logged'
      BY <2>1, <3>2 DEF LedgerInv, Logged, Intra, Involved, Coord, Part
    <3> QED
      BY <3>1, <3>3
  <2>2. ASSUME NEW c \in Involved(t), NEW st \in Status, Fresh(c, t, st), Logs(c, t, st)
        PROVE  NoTwins' /\ Logged'
    <3>1. c \in Cluster /\ NoTx \notin Tx
      BY Clusters, CrossShardAssumption DEF Involved
    <3>2. PICK w \in Slot : /\ store[c][w].tx = NoTx /\ store'[c][w] = [tx |-> t, status |-> st]
                            /\ \A d \in Cluster, s \in Slot : d # c \/ s # w => store'[d][s] = store[d][s]
      BY <1>1, <2>2, <3>1, FreshStore
    <3>3. st \in {"P", "A"} => st \notin Decisions(c, t)
      BY <2>2 DEF Fresh
    <3>4. NoTwins'
      <4> SUFFICES ASSUME NEW d \in Cluster, NEW u \in Tx, NEW r \in Slot, NEW s \in Slot, NEW x \in {"P", "A"},
                          store'[d][r] = [tx |-> u, status |-> x], store'[d][s] = [tx |-> u, status |-> x]
                   PROVE  r = s
        BY DEF NoTwins
      <4>1. CASE d # c \/ (r # w /\ s # w)
        <5>1. store'[d][r] = store[d][r] /\ store'[d][s] = store[d][s]
          BY <3>2, <4>1
        <5>2. store[d][r] = [tx |-> u, status |-> x] /\ store[d][s] = [tx |-> u, status |-> x]
          BY <5>1
        <5> QED
          BY <5>2 DEF LedgerInv, NoTwins
      <4>2. ASSUME NEW v \in Slot, d = c, u = t, x = st, v # w, store'[c][v] = [tx |-> t, status |-> st]
            PROVE  FALSE
        <5>1. store[c][v] = [tx |-> t, status |-> st]
          BY <3>2, <4>2
        <5>2. st \in Decisions(c, t)
          BY <5>1 DEF Decisions, Decided
        <5> QED
          BY <3>3, <4>2, <5>2
      <4>3. CASE d = c /\ (r = w \/ s = w)
        <5>1. u = t /\ x = st
          BY <3>2, <4>3
        <5> QED
          BY <4>2, <4>3, <5>1
      <4> QED
        BY <4>1, <4>3
    <3>5. /\ Decisions(c, t)' = Decisions(c, t) \cup {st}
          /\ \A d \in Cluster, u \in Tx : d # c \/ u # t => Decisions(d, u)' = Decisions(d, u)
      BY <1>1, <2>2, <3>1, DecisionsWritten DEF Fresh
    <3>6. wal \in [Cluster -> [Tx -> Nat]]
      BY <1>1 DEF MoneyType
    <3>7. /\ \A d \in Cluster, u \in Tx : d # c \/ u # t => wal'[d][u] = wal[d][u]
          /\ st = "P" => wal'[c][t] = wal[c][t] + 1
          /\ st \notin {"P", "C"} => wal'[c][t] = wal[c][t]
      BY <2>2, <3>1, <3>6 DEF Logs, AppendToWALEntry, EraseWal
    <3>8. Logged'
      <4> SUFFICES ASSUME NEW u \in Tx, ~Intra(u), NEW d \in Involved(u), "C" \notin Decisions(d, u)'
                   PROVE  wal'[d][u] = IF "P" \in Decisions(d, u)' THEN 1 ELSE 0
        BY DEF Logged, Intra, Involved, Coord, Part
      <4>1. "C" \notin Decisions(d, u) => wal[d][u] = IF "P" \in Decisions(d, u) THEN 1 ELSE 0
        BY DEF LedgerInv, Logged
      <4>2. d \in Cluster
        BY Clusters DEF Involved
      <4>3. CASE d # c \/ u # t
        BY <3>5, <3>7, <4>1, <4>2, <4>3
      <4>4. CASE d = c /\ u = t
        <5>1. PICK old : old = Decisions(c, t)
          OBVIOUS
        <5>2. PICK new : new = Decisions(c, t)' /\ new = old \cup {st}
          BY <3>5, <5>1
        <5>3. "C" \notin old /\ st # "C" /\ wal[c][t] = IF "P" \in old THEN 1 ELSE 0
          BY <4>1, <4>4, <5>1, <5>2
        <5>4. wal'[c][t] = IF "P" \in new THEN 1 ELSE 0
          BY <3>3, <3>7, <5>1, <5>2, <5>3
        <5> QED
          BY <4>4, <5>2, <5>4
      <4> QED
        BY <4>3, <4>4
    <3> QED
      BY <3>4, <3>8
  <2> QED
    BY <2>1, <2>2, StepRecords
<1> QED
  BY <1>3, <1>4 DEF LedgerInv

LEMMA LedgerExecute ==
    ASSUME CallInv, LedgerInv, NEW c \in Cluster, Execute(c)
    PROVE  LedgerInv'
<1>1. UNCHANGED <<store, wal>> /\ exec' = [exec EXCEPT ![c] = exec[c] + 1] /\ store[c][exec[c]].tx # NoTx
  BY DEF Execute, CanExecute, ledger
<1>2. exec \in [Cluster -> 1..(MaxSlot + 1)]
  BY TypeParts DEF CallInv, CrossInv, MoneyType
<1>3. Filled'
  <2> SUFFICES ASSUME NEW d \in Cluster, NEW s \in Slot, s < exec'[d] PROVE store[d][s].tx # NoTx
    BY <1>1 DEF Filled
  <2>1. s < exec[d] => store[d][s].tx # NoTx
    BY DEF LedgerInv, Filled
  <2>2. s < exec[d] \/ (d = c /\ s = exec[c])
    BY <1>1, <1>2, CrossShardAssumption DEF Slot
  <2> QED
    BY <1>1, <2>1, <2>2
<1>4. NoTwins'
  BY <1>1 DEF LedgerInv, NoTwins
<1>5. \A d, u : Decisions(d, u)' = Decisions(d, u)
  BY <1>1, DecisionsSame
<1>6. Logged'
  BY <1>1, <1>5 DEF LedgerInv, Logged, Intra, Involved, Coord, Part
<1> QED
  BY <1>3, <1>4, <1>6 DEF LedgerInv

\* The sum of the balances b.
TotalOf(b) == Sum([c \in Cluster |-> Sum(b[c], Account)], Cluster)

\* The gateway looks for an account where it is.
SameHomes == \A a \in Account : Route[a] = Home[a]

LEMMA BalanceSums ==
    ASSUME NEW b \in [Cluster -> [Account -> Int]]
    PROVE  /\ \A c \in Cluster : Sum(b[c], Account) \in Int
           /\ [c \in Cluster |-> Sum(b[c], Account)] \in [Cluster -> Int]
<1>1. ASSUME NEW c \in Cluster PROVE Sum(b[c], Account) \in Int
  <2>1. PICK f \in [Account -> Int] : f = b[c]
    OBVIOUS
  <2>2. Sum(f, Account) \in Int
    BY CrossShardFinite, SumInt
  <2> QED
    BY <2>1, <2>2
<1> QED
  BY <1>1

LEMMA TotalIs == MoneyType => Total = TotalOf(bal)
<1> SUFFICES ASSUME MoneyType PROVE Total = TotalOf(bal)
  OBVIOUS
<1>1. PICK f \in [Cluster -> Int] : f = [c \in Cluster |-> Sum(bal[c], Account)]
  BY BalanceSums DEF MoneyType
<1>2. PICK g : Sums(f, Cluster, g)
  BY CrossShardFinite, SumsExist
<1>3. TotalOf(bal) = g[Cluster]
  <2>1. Sum(f, Cluster) = g[Cluster]
    BY <1>2, CrossShardFinite, SumIs
  <2> QED
    BY <1>1, <2>1 DEF TotalOf
<1> DEFINE All(k) == [s \in SUBSET Cluster |-> IF s = {} THEN 0
                                               ELSE Sum(bal[Taken(s)], Account) + k[s \ {Taken(s)}]]
           h == CHOOSE k : k = All(k)
<1>4. Adds(f, Cluster, g) /\ g \in [SUBSET Cluster -> Int]
  BY <1>2 DEF Sums
<1>5. \A s \in SUBSET Cluster : s # {} => f[Taken(s)] = Sum(bal[Taken(s)], Account)
  BY <1>1, TakenIn
<1>6. g = All(g)
  BY <1>4, <1>5 DEF Adds
<1>7. h = All(h)
  <2> HIDE DEF All
  <2> QED
    BY <1>6
<1>8. Total = h[Cluster]
  BY DEF Total, MapThenSumSet, MapThenFoldSet, Taken, Sum
<1> HIDE DEF h
<1>9. Adds(f, Cluster, h)
  BY <1>5, <1>7 DEF Adds
<1>10. h[Cluster] = g[Cluster]
  BY <1>4, <1>9, CrossShardFinite, SumsAgree
<1> QED
  BY <1>3, <1>8, <1>10

\* The total changes as the balances of the one cluster that changes.
LEMMA TotalMoves ==
    ASSUME NEW b \in [Cluster -> [Account -> Int]], NEW h \in [Cluster -> [Account -> Int]],
           NEW c \in Cluster, \A d \in Cluster : d # c => h[d] = b[d],
           NEW m \in Int, Sum(h[c], Account) = Sum(b[c], Account) + m
    PROVE  TotalOf(h) = TotalOf(b) + m /\ TotalOf(b) \in Int
<1>1. PICK f \in [Cluster -> Int] : f = [d \in Cluster |-> Sum(b[d], Account)]
  BY BalanceSums
<1>2. PICK g \in [Cluster -> Int] : g = [d \in Cluster |-> Sum(h[d], Account)]
  BY BalanceSums
<1>3. (\A d \in Cluster : d # c => g[d] = f[d]) /\ g[c] = f[c] + m
  BY <1>1, <1>2
<1>4. Sum(g, Cluster) = Sum(f, Cluster) + g[c] - f[c]
  BY <1>3, CrossShardFinite, SumAt
<1>5. Sum(f, Cluster) \in Int /\ f[c] \in Int
  BY CrossShardFinite, SumInt
<1>6. Sum(g, Cluster) = Sum(f, Cluster) + m
  BY <1>3, <1>4, <1>5
<1> QED
  BY <1>1, <1>2, <1>5, <1>6 DEF TotalOf

\* Amount m goes from the payer of t to the payee, as far as they are in the shard of c.
Shifted(c, t, m, f, h) ==
    \A a \in Account : h[a] = IF Home[a] # c THEN f[a]
                              ELSE f[a] + (IF a = Body[t].to THEN m ELSE 0)
                                        - (IF a = Body[t].from THEN m ELSE 0)

\* What t brings to one of its clusters.
LEMMA ShardMoves ==
    ASSUME SameHomes, NEW t \in Tx, NEW c \in Involved(t), NEW m \in Int,
           NEW f \in [Account -> Int], NEW h \in [Account -> Int], Shifted(c, t, m, f, h)
    PROVE  Sum(h, Account) = Sum(f, Account) + (IF Intra(t) THEN 0 ELSE IF c = Part(t) THEN m ELSE 0 - m)
<1>1. PICK p \in Account, q \in Account : p = Body[t].from /\ q = Body[t].to
  BY Clusters
<1>2. Home[p] = Coord(t) /\ Home[q] = Part(t)
  BY <1>1 DEF SameHomes, Coord, Part
<1>3. IsFiniteSet(Account) /\ Sum(f, Account) \in Int /\ f[p] \in Int /\ f[q] \in Int
  BY CrossShardFinite, SumInt
<1>4. \A a \in Account : /\ f[a] \in Int
                         /\ h[a] = IF Home[a] # c THEN f[a]
                                   ELSE f[a] + (IF a = q THEN m ELSE 0) - (IF a = p THEN m ELSE 0)
  BY <1>1 DEF Shifted
<1>5. CASE Intra(t) /\ p = q
  <2>1. \A a \in Account : h[a] = f[a] /\ f[a] \in Int
    BY <1>4, <1>5
  <2>2. Sum(h, Account) = Sum(f, Account)
    BY <1>3, <2>1, SumSame
  <2> QED
    BY <1>3, <1>5, <2>2
<1>6. CASE Intra(t) /\ p # q
  <2>1. Home[p] = c /\ Home[q] = c
    BY <1>2, <1>6 DEF Intra, Involved
  <2>2. PICK x \in [Account -> Int] : x = [f EXCEPT ![q] = f[q] + m]
    <3>1. f[q] + m \in Int
      BY <1>3
    <3>2. [f EXCEPT ![q] = f[q] + m] \in [Account -> Int]
      BY <3>1
    <3> QED
      BY <3>2
  <2>3. x[q] = f[q] + m /\ \A a \in Account : a # q => x[a] = f[a]
    BY <2>2
  <2>4. Sum(x, Account) = Sum(f, Account) + x[q] - f[q]
    BY <1>3, <2>3, SumAt
  <2>5. h[p] = x[p] - m
    BY <1>3, <1>4, <1>6, <2>1, <2>3
  <2>6. ASSUME NEW a \in Account, a # p PROVE h[a] = x[a]
    <3>1. f[a] \in Int /\ h[a] = IF Home[a] # c \/ a # q THEN f[a] ELSE f[a] + m
      BY <1>4, <2>6
    <3> QED
      BY <2>1, <2>3, <2>6, <3>1
  <2>7. x[p] \in Int /\ \A a \in Account : x[a] \in Int /\ h[a] \in Int
    OBVIOUS
  <2>8. Sum(h, Account) = Sum(x, Account) + h[p] - x[p]
    BY <1>3, <2>6, <2>7, SumAt
  <2> QED
    BY <1>3, <1>6, <2>3, <2>4, <2>5, <2>7, <2>8
<1>7. CASE ~Intra(t) /\ c = Part(t)
  <2>1. Home[p] # c /\ Home[q] = c
    BY <1>2, <1>7 DEF Intra
  <2>2. h[q] = f[q] + m /\ \A a \in Account : a # q => h[a] = f[a]
    BY <1>4, <2>1
  <2>3. Sum(h, Account) = Sum(f, Account) + h[q] - f[q]
    BY <1>3, <2>2, SumAt
  <2> QED
    BY <1>3, <1>7, <2>2, <2>3
<1>8. CASE ~Intra(t) /\ c # Part(t)
  <2>1. Home[p] = c /\ Home[q] # c
    BY <1>2, <1>8 DEF Involved
  <2>2. h[p] = f[p] - m /\ \A a \in Account : a # p => h[a] = f[a]
    BY <1>4, <2>1
  <2>3. Sum(h, Account) = Sum(f, Account) + h[p] - f[p]
    BY <1>3, <2>2, SumAt
  <2> QED
    BY <1>3, <1>8, <2>2, <2>3
<1> QED
  BY <1>5, <1>6, <1>7, <1>8

\* What of t the executors have moved at cluster c with entries of status st.
Moved(c, t, st) == IF Executed(c, t, st) THEN Body[t].amount ELSE 0

\* What the payee has been credited and the payer not charged for, or the other way round.
InTransit(t) ==
    IF Intra(t) THEN 0
    ELSE Moved(Part(t), t, "P") - Moved(Coord(t), t, "P") + Moved(Coord(t), t, "A")

Transit == Sum([t \in Tx |-> InTransit(t)], Tx)

\* The balances add up to the money there was and what is in transit.
MoneyInv == TotalOf(bal) = InitialBalance * Cardinality(Account) + Transit

LEMMA TransitType ==
    /\ \A t \in Tx : InTransit(t) \in Int
    /\ [t \in Tx |-> InTransit(t)] \in [Tx -> Int]
    /\ Transit \in Int
<1>1. \A t \in Tx : Body[t].amount \in Int
  BY CrossShardAssumption
<1>2. \A c, st : \A t \in Tx : Moved(c, t, st) \in Int
  BY <1>1 DEF Moved
<1>3. \A t \in Tx : InTransit(t) \in Int
  BY <1>2 DEF InTransit
<1>4. PICK f \in [Tx -> Int] : f = [t \in Tx |-> InTransit(t)]
  BY <1>3
<1>5. Sum(f, Tx) \in Int
  BY CrossShardFinite, SumInt
<1> QED
  BY <1>3, <1>4, <1>5 DEF Transit

\* The sum of what each cluster has at first of the accounts in s.
LEMMA StartOf ==
    ASSUME NEW I \in Nat, NEW own, own = [c \in Cluster |-> [a \in Account |-> IF Home[a] = c THEN I ELSE 0]]
    PROVE  Sum([c \in Cluster |-> Sum(own[c], Account)], Cluster) = I * Cardinality(Account)
<1> DEFINE F(s) == [c \in Cluster |-> Sum(own[c], s)]
           B == {s \in SUBSET Account : Sum(F(s), Cluster) = I * Cardinality(s)}
<1>0. IsFiniteSet(Account) /\ IsFiniteSet(Cluster)
  BY CrossShardFinite
<1>1. {} \in B
  <2>1. PICK f : f = F({})
    OBVIOUS
  <2>2. \A c \in Cluster : f[c] = 0
    BY <2>1, SumEmpty
  <2>3. Sum(f, Cluster) = 0
    BY <1>0, <2>2, SumZero
  <2>4. Cardinality({}) = 0
    BY FS_EmptySet
  <2> QED
    BY <2>1, <2>3, <2>4
<1>2. ASSUME NEW s \in SUBSET Account, NEW x \in Account \ s, s \in B PROVE s \cup {x} \in B
  <2>1. PICK u \in SUBSET Account : u = s \cup {x}
    OBVIOUS
  <2>2. IsFiniteSet(s) /\ IsFiniteSet(u) /\ x \in u /\ s = u \ {x}
    BY <1>0, <2>1, FS_Subset
  <2>3. Cardinality(s) \in Nat /\ Cardinality(u) = Cardinality(s) + 1
    BY <2>1, <2>2, FS_AddElement, FS_CardinalityType
  <2>4. ASSUME NEW c \in Cluster
        PROVE  /\ Sum(own[c], s) \in Int /\ Sum(own[c], u) \in Int
               /\ Sum(own[c], u) = Sum(own[c], s) + (IF Home[x] = c THEN I ELSE 0)
    <3>1. PICK f : f = own[c] /\ \A a \in Account : f[a] = IF Home[a] = c THEN I ELSE 0
      OBVIOUS
    <3>2. (\A a \in s : f[a] \in Int) /\ (\A a \in u : f[a] \in Int) /\ f[x] = IF Home[x] = c THEN I ELSE 0
      BY <3>1
    <3>3. Sum(f, s) \in Int /\ Sum(f, u) \in Int
      BY <2>2, <3>2, SumInt
    <3>4. Sum(f, u) = f[x] + Sum(f, s)
      BY <2>2, <3>2, SumSplit
    <3>5. Sum(f, u) = Sum(f, s) + (IF Home[x] = c THEN I ELSE 0)
      BY <3>2, <3>3, <3>4
    <3> QED
      BY <3>1, <3>3, <3>5
  <2>5. PICK f : f = F(s)
    OBVIOUS
  <2>6. PICK g : g = F(u)
    OBVIOUS
  <2>7. PICK k \in Cluster : k = Home[x]
    BY CrossShardAssumption
  <2>8. \A c \in Cluster : f[c] \in Int /\ g[c] \in Int /\ (c # k => g[c] = f[c])
    BY <2>4, <2>5, <2>6, <2>7
  <2>9. g[k] = f[k] + I
    BY <2>4, <2>5, <2>6, <2>7
  <2>10. Sum(g, Cluster) = Sum(f, Cluster) + g[k] - f[k]
    BY <1>0, <2>8, SumAt
  <2>11. Sum(f, Cluster) \in Int /\ f[k] \in Int
    BY <1>0, <2>8, SumInt
  <2>12. Sum(g, Cluster) = Sum(f, Cluster) + I
    BY <2>9, <2>10, <2>11
  <2>13. Sum(f, Cluster) = I * Cardinality(s)
    BY <1>2, <2>5
  <2>14. I * (Cardinality(s) + 1) = I * Cardinality(s) + I
    BY <2>3
  <2> QED
    BY <2>1, <2>3, <2>6, <2>12, <2>13, <2>14
<1> HIDE DEF B
<1>3. Account \in B
  BY <1>0, <1>1, <1>2, SubsetsGrow
<1> QED
  BY <1>3 DEF B

LEMMA InitMoney == Init => MoneyInv /\ LedgerInv
<1> SUFFICES ASSUME Init PROVE MoneyInv /\ LedgerInv
  OBVIOUS
<1>1. \A c \in Cluster : exec[c] = 1 /\ \A t \in Tx : wal[c][t] = 0
  BY DEF Init
<1>2. \A c \in Cluster, s \in Slot : store[c][s].tx = NoTx /\ s >= 1
  <2>1. \A c \in Cluster, s \in Slot : store[c][s].tx = NoTx
    BY DEF Init, NoEntry
  <2>2. \A s \in Slot : s >= 1
    BY DEF Slot
  <2> QED
    BY <2>1, <2>2
<1>3. \A c \in Cluster, t \in Tx : \A st : ~Executed(c, t, st)
  BY <1>1, <1>2, CrossShardAssumption DEF Executed, Slot
<1>4. \A c \in Cluster, t \in Tx : Decisions(c, t) = {}
  BY <1>2, CrossShardAssumption DEF Decisions, Decided
<1>5. LedgerInv
  <2>1. Filled
    BY <1>1, <1>2 DEF Filled, Slot
  <2>2. NoTwins
    BY <1>2, CrossShardAssumption DEF NoTwins
  <2>3. Logged
    BY <1>1, <1>4, Clusters DEF Logged, Involved
  <2> QED
    BY <2>1, <2>2, <2>3 DEF LedgerInv
<1>6. Transit = 0
  <2>1. PICK f : f = [t \in Tx |-> InTransit(t)]
    OBVIOUS
  <2>2. \A t \in Tx : f[t] = 0
    BY <1>3, <2>1, Clusters DEF InTransit, Moved
  <2>3. Sum(f, Tx) = 0
    BY <2>2, CrossShardFinite, SumZero
  <2> QED
    BY <2>1, <2>3 DEF Transit
<1>7. TotalOf(bal) = InitialBalance * Cardinality(Account)
  <2>1. bal = [c \in Cluster |-> [a \in Account |-> IF Home[a] = c THEN InitialBalance ELSE 0]]
    BY DEF Init
  <2>2. PICK own : own = bal
    OBVIOUS
  <2>3. PICK I \in Nat : I = InitialBalance
    BY CrossShardAssumption
  <2>4. Sum([c \in Cluster |-> Sum(own[c], Account)], Cluster) = I * Cardinality(Account)
    BY <2>1, <2>2, <2>3, StartOf
  <2> QED
    BY <2>2, <2>3, <2>4 DEF TotalOf
<1>8. Cardinality(Account) \in Nat /\ InitialBalance \in Nat
  BY CrossShardFinite, CrossShardAssumption, FS_CardinalityType
<1> QED
  BY <1>5, <1>6, <1>7, <1>8 DEF MoneyInv

\* The executor is at an entry of one of the payment's clusters, which decided it.
LEMMA NextEntry ==
    ASSUME CallInv, LedgerInv, NEW c \in Cluster, Execute(c)
    PROVE  \E t \in Tx, st \in Status :
             /\ store[c][exec[c]] = [tx |-> t, status |-> st]
             /\ c \in Involved(t) /\ st \in Decisions(c, t)
             /\ \A d \in Cluster : \A u \in Tx, x \in Status :
                  Executed(d, u, x)' <=> Executed(d, u, x) \/ (d = c /\ u = t /\ x = st)
             /\ st \in {"P", "A"} => ~Executed(c, t, st)
             /\ bal' \in [Cluster -> [Account -> Int]]
             /\ \A d \in Cluster : d # c => bal'[d] = bal[d]
             /\ \A a \in Account : bal'[c][a] = bal[c][a] + Times(c, t, st) * Net(c, t, a)
<1>1. exec[c] \in Slot /\ store[c][exec[c]].tx # NoTx /\ store' = store /\ exec' = [exec EXCEPT ![c] = exec[c] + 1]
  BY DEF Execute, CanExecute, ledger
<1>2. SlotType /\ CountType /\ MoneyType
  BY TypeParts DEF CallInv, CrossInv
<1>3. PICK t \in Tx, st \in Status : store[c][exec[c]] = [tx |-> t, status |-> st]
  <2>1. PICK e \in Entry : e = store[c][exec[c]]
    BY <1>1, <1>2 DEF SlotType
  <2>2. e.tx \in Tx /\ e.status \in Status /\ e = [tx |-> e.tx, status |-> e.status]
    BY <1>1, <2>1 DEF Entry
  <2> QED
    BY <2>1, <2>2
<1>4. st \in Decisions(c, t) /\ c \in Involved(t)
  <2>1. st \in Decisions(c, t)
    BY <1>1, <1>3 DEF Decisions, Decided
  <2> QED
    BY <2>1 DEF CallInv, Strangers
<1>5. exec \in [Cluster -> 1..(MaxSlot + 1)] /\ Slot \subseteq Nat /\ MaxSlot \in Nat
  BY <1>2, CrossShardAssumption DEF MoneyType, Slot
<1>6. ASSUME NEW d \in Cluster, NEW s \in Slot
      PROVE  s < exec'[d] <=> s < exec[d] \/ (d = c /\ s = exec[c])
  <2>1. CASE d = c
    BY <1>1, <1>5, <2>1
  <2>2. CASE d # c
    BY <1>1, <1>5, <2>2
  <2> QED
    BY <2>1, <2>2
<1>7. ASSUME NEW d \in Cluster, NEW u \in Tx, NEW x \in Status
      PROVE  Executed(d, u, x)' <=> Executed(d, u, x) \/ (d = c /\ u = t /\ x = st)
  <2>1. Executed(d, u, x)' <=> \E s \in Slot : s < exec'[d] /\ store[d][s] = [tx |-> u, status |-> x]
    BY <1>1 DEF Executed
  <2>2. (d = c /\ u = t /\ x = st) <=> d = c /\ store[c][exec[c]] = [tx |-> u, status |-> x]
    <3>1. [tx |-> u, status |-> x] = [tx |-> t, status |-> st] <=> u = t /\ x = st
      OBVIOUS
    <3> QED
      BY <1>3, <3>1
  <2> QED
    BY <1>1, <1>6, <2>1, <2>2 DEF Executed
<1>8. st \in {"P", "A"} => ~Executed(c, t, st)
  <2> SUFFICES ASSUME st \in {"P", "A"}, NEW s \in Slot, s < exec[c], store[c][s] = [tx |-> t, status |-> st]
               PROVE  FALSE
    BY DEF Executed
  <2>1. s = exec[c]
    BY <1>1, <1>3 DEF LedgerInv, NoTwins
  <2> QED
    BY <1>5, <2>1
<1>9. bal' \in [Cluster -> [Account -> Int]]
  BY <1>2, ExecuteType DEF MoneyType
<1>10. /\ \A d \in Cluster : d # c => bal'[d] = bal[d]
       /\ \A a \in Account : bal'[c][a] = bal[c][a] + Times(c, t, st) * Net(c, t, a)
  <2> DEFINE new == [a \in Account |-> bal[c][a] + Times(c, t, st) * Net(c, t, a)]
  <2>1. bal' = [bal EXCEPT ![c] = new]
    <3>1. PICK e : e = store[c][exec[c]]
      OBVIOUS
    <3>2. e.tx = t /\ e.status = st
      BY <1>3, <3>1
    <3>3. bal' = [bal EXCEPT ![c] = [a \in Account |-> bal[c][a] + Times(c, e.tx, e.status) * Net(c, e.tx, a)]]
      BY <3>1 DEF Execute
    <3> QED
      BY <3>2, <3>3
  <2>2. bal \in [Cluster -> [Account -> Int]]
    BY <1>2 DEF MoneyType
  <2> HIDE DEF new
  <2>3. bal'[c] = new /\ \A d \in Cluster : d # c => bal'[d] = bal[d]
    BY <2>1, <2>2
  <2> QED
    BY <2>3 DEF new
<1> QED
  BY <1>3, <1>4, <1>7, <1>8, <1>9, <1>10

\* The amount that executing an entry of t moves.
LEMMA AmountMoved ==
    ASSUME CallInv, LedgerInv, CalledOnce, NEW t \in Tx, NEW c \in Involved(t), NEW st \in Decisions(c, t)
    PROVE  \E k \in {1, 0, 0 - 1} :
             /\ Times(c, t, st) = k
             /\ ~Intra(t) => /\ st = "P" => k = 1
                             /\ st = "A" /\ c = Coord(t) => k = 0 - 1
                             /\ st = "A" /\ c # Coord(t) => k = 0
                             /\ st \notin {"P", "A"} => k = 0
<1>1. PICK ds : ds = Decisions(c, t)
  OBVIOUS
<1>2. CASE Intra(t)
  <2>1. c = Coord(t)
    BY <1>2 DEF Involved, Intra
  <2>2. st = ""
    BY <1>2, <2>1 DEF CallInv, OnceInv, Local
  <2>3. Times(c, t, st) = 1
    BY <2>2 DEF Times
  <2> QED
    BY <1>2, <2>3
<1>3. CASE ~Intra(t)
  <2>1. Single(t) /\ ("C" \notin ds => wal[c][t] = IF "P" \in ds THEN 1 ELSE 0)
    BY <1>1, <1>3 DEF CallInv, OnceInv, CalledOnce, LedgerInv, Logged
  <2>2. c = Coord(t) => ds \in {{}, {"P"}, {"P", "C"}, {"P", "A"}}
    BY <1>1, <2>1 DEF Single, Stages
  <2>3. c # Coord(t) => ds \in {{}, {"P"}, {"P", "C"}, {"A"}}
    BY <1>1, <2>1 DEF Single, Stages, Involved
  <2>4. CASE st = "P"
    <3>1. Times(c, t, st) = 1
      BY <2>4 DEF Times
    <3> QED
      BY <1>3, <2>4, <3>1
  <2>5. CASE st = "A"
    <3>1. Times(c, t, st) = 0 - wal[c][t]
      BY <2>5 DEF Times
    <3>2. CASE c = Coord(t)
      <4>1. wal[c][t] = 1
        BY <1>1, <2>1, <2>2, <2>5, <3>2
      <4>2. Times(c, t, st) = 0 - 1
        BY <3>1, <4>1
      <4> QED
        BY <1>3, <2>5, <3>2, <4>2
    <3>3. CASE c # Coord(t)
      <4>1. wal[c][t] = 0
        BY <1>1, <2>1, <2>3, <2>5, <3>3
      <4>2. Times(c, t, st) = 0
        BY <3>1, <4>1
      <4> QED
        BY <1>3, <2>5, <3>3, <4>2
    <3> QED
      BY <3>2, <3>3
  <2>6. CASE st \notin {"P", "A"}
    <3>1. st = "C"
      BY <1>1, <2>2, <2>3, <2>6
    <3>2. Times(c, t, st) = 0
      BY <3>1 DEF Times
    <3> QED
      BY <1>3, <2>6, <3>2
  <2> QED
    BY <2>4, <2>5, <2>6
<1> QED
  BY <1>2, <1>3

LEMMA ExecuteMoney ==
    ASSUME SameHomes, CallInv, LedgerInv, CalledOnce, MoneyInv, NEW c \in Cluster, Execute(c)
    PROVE  MoneyInv'
<1>1. PICK t \in Tx, st \in Status :
             /\ store[c][exec[c]] = [tx |-> t, status |-> st]
             /\ c \in Involved(t) /\ st \in Decisions(c, t)
             /\ \A d \in Cluster : \A u \in Tx, x \in Status :
                  Executed(d, u, x)' <=> Executed(d, u, x) \/ (d = c /\ u = t /\ x = st)
             /\ st \in {"P", "A"} => ~Executed(c, t, st)
             /\ bal' \in [Cluster -> [Account -> Int]]
             /\ \A d \in Cluster : d # c => bal'[d] = bal[d]
             /\ \A a \in Account : bal'[c][a] = bal[c][a] + Times(c, t, st) * Net(c, t, a)
  BY NextEntry
<1>2. PICK k \in {1, 0, 0 - 1} :
             /\ Times(c, t, st) = k
             /\ ~Intra(t) => /\ st = "P" => k = 1
                             /\ st = "A" /\ c = Coord(t) => k = 0 - 1
                             /\ st = "A" /\ c # Coord(t) => k = 0
                             /\ st \notin {"P", "A"} => k = 0
  BY <1>1, AmountMoved
<1>3. PICK n \in Nat : n = Body[t].amount
  BY Clusters
<1>4. PICK m \in Int : m = IF k = 1 THEN n ELSE IF k = 0 THEN 0 ELSE 0 - n
  BY <1>3
<1>5. PICK b \in [Cluster -> [Account -> Int]] : b = bal
  BY TypeParts DEF CallInv, CrossInv, MoneyType
<1>6. PICK h \in [Cluster -> [Account -> Int]] : h = bal'
  BY <1>1
<1>7. PICK w \in Int : w = IF Intra(t) THEN 0 ELSE IF c = Part(t) THEN m ELSE 0 - m
  <2>1. 0 - m \in Int
    OBVIOUS
  <2> QED
    BY <2>1
<1>8. TotalOf(h) = TotalOf(b) + w /\ TotalOf(b) \in Int
  <2>1. PICK f \in [Account -> Int], g \in [Account -> Int] : f = b[c] /\ g = h[c]
    OBVIOUS
  <2>2. ASSUME NEW a \in Account
        PROVE  g[a] = IF Home[a] # c THEN f[a]
                      ELSE f[a] + (IF a = Body[t].to THEN m ELSE 0) - (IF a = Body[t].from THEN m ELSE 0)
    <3>1. PICK x \in Int : x = f[a]
      BY <2>1
    <3>2. PICK z \in {n, 0, 0 - n} : z = Net(c, t, a)
      BY <1>3 DEF Net
    <3>3. g[a] = x + k * z
      BY <1>1, <1>2, <1>5, <1>6, <2>1, <3>1, <3>2
    <3>4. k * z = IF k = 1 THEN z ELSE IF k = 0 THEN 0 ELSE 0 - z
      BY <1>3
    <3>5. z = IF Home[a] # c THEN 0
              ELSE (IF a = Body[t].to THEN n ELSE 0) - (IF a = Body[t].from THEN n ELSE 0)
      BY <1>3, <3>2 DEF Net
    <3>6. g[a] = x + (IF k = 1 THEN z ELSE IF k = 0 THEN 0 ELSE 0 - z)
      BY <3>3, <3>4
    <3>7. CASE k = 1
      BY <1>3, <1>4, <3>1, <3>5, <3>6, <3>7
    <3>8. CASE k = 0
      BY <1>4, <3>1, <3>6, <3>8
    <3>9. CASE k = 0 - 1
      BY <1>3, <1>4, <3>1, <3>5, <3>6, <3>9
    <3> QED
      BY <1>2, <3>7, <3>8, <3>9
  <2>3. Sum(g, Account) = Sum(f, Account) + w
    <3>1. c \in Involved(t)
      BY <1>1
    <3>2. Shifted(c, t, m, f, g)
      BY <2>2 DEF Shifted
    <3>3. f \in [Account -> Int] /\ g \in [Account -> Int] /\ m \in Int
      BY <1>4, <2>1
    <3>4. Sum(g, Account) = Sum(f, Account) + (IF Intra(t) THEN 0 ELSE IF c = Part(t) THEN m ELSE 0 - m)
      BY <3>1, <3>2, <3>3, ShardMoves
    <3> QED
      BY <1>7, <3>4
  <2>4. \A d \in Cluster : d # c => h[d] = b[d]
    BY <1>1, <1>5, <1>6
  <2> QED
    BY <2>1, <2>3, <2>4, TotalMoves
<1>9. InTransit(t)' = InTransit(t) + w /\ InTransit(t) \in Int /\ InTransit(t)' \in Int
  <2>1. PICK p \in Cluster, q \in Cluster : p = Coord(t) /\ q = Part(t)
    BY Clusters
  <2>2. /\ InTransit(t) = IF Intra(t) THEN 0 ELSE Moved(q, t, "P") - Moved(p, t, "P") + Moved(p, t, "A")
        /\ InTransit(t)' = IF Intra(t) THEN 0 ELSE Moved(q, t, "P")' - Moved(p, t, "P")' + Moved(p, t, "A")'
    BY <2>1 DEF InTransit, Intra, Coord, Part
  <2>3. /\ \A d, x : Moved(d, t, x) = IF Executed(d, t, x) THEN n ELSE 0
        /\ \A d, x : Moved(d, t, x)' = IF Executed(d, t, x)' THEN n ELSE 0
    BY <1>3 DEF Moved
  <2>4. \A d, x : Moved(d, t, x) \in Int /\ Moved(d, t, x)' \in Int
    BY <2>3
  <2>5. ASSUME NEW d \in Cluster, NEW x \in {"P", "A"}
        PROVE  Moved(d, t, x)' = Moved(d, t, x) + (IF d = c /\ x = st THEN n ELSE 0)
    <3>1. Executed(d, t, x)' <=> Executed(d, t, x) \/ (d = c /\ x = st)
      BY <1>1 DEF Status
    <3>2. d = c /\ x = st => ~Executed(d, t, x)
      BY <1>1
    <3> QED
      BY <1>3, <2>3, <3>1, <3>2
  <2>6. CASE Intra(t)
    BY <1>7, <2>2, <2>6
  <2>7. CASE ~Intra(t)
    <3>1. p # q /\ (c = p \/ c = q)
      BY <1>1, <2>1, <2>7 DEF Intra, Involved
    <3>2. /\ Moved(q, t, "P")' = Moved(q, t, "P") + (IF q = c /\ st = "P" THEN n ELSE 0)
          /\ Moved(p, t, "P")' = Moved(p, t, "P") + (IF p = c /\ st = "P" THEN n ELSE 0)
          /\ Moved(p, t, "A")' = Moved(p, t, "A") + (IF p = c /\ st = "A" THEN n ELSE 0)
      BY <2>5
    <3>3. w = (IF q = c /\ st = "P" THEN n ELSE 0) - (IF p = c /\ st = "P" THEN n ELSE 0)
              + (IF p = c /\ st = "A" THEN n ELSE 0)
      BY <1>2, <1>3, <1>4, <1>7, <2>1, <2>7, <3>1
    <3>4. /\ InTransit(t) = Moved(q, t, "P") - Moved(p, t, "P") + Moved(p, t, "A")
          /\ InTransit(t)' = Moved(q, t, "P")' - Moved(p, t, "P")' + Moved(p, t, "A")'
      BY <2>2, <2>7
    <3>5. PICK x \in Int, y \in Int, z \in Int :
            x = Moved(q, t, "P") /\ y = Moved(p, t, "P") /\ z = Moved(p, t, "A")
      BY <2>4
    <3>6. PICK dx \in Int : dx = IF q = c /\ st = "P" THEN n ELSE 0
      BY <1>3
    <3>7. PICK dy \in Int : dy = IF p = c /\ st = "P" THEN n ELSE 0
      BY <1>3
    <3>8. PICK dz \in Int : dz = IF p = c /\ st = "A" THEN n ELSE 0
      BY <1>3
    <3>9. w = dx - dy + dz
      BY <3>3, <3>6, <3>7, <3>8
    <3>10. InTransit(t) = x - y + z
      BY <3>4, <3>5
    <3>11. InTransit(t)' = (x + dx) - (y + dy) + (z + dz)
      BY <3>2, <3>4, <3>5, <3>6, <3>7, <3>8
    <3> QED
      BY <3>9, <3>10, <3>11
  <2> QED
    BY <2>2, <2>4, <2>6, <2>7
<1>10. Transit' = Transit + w
  <2>1. PICK f \in [Tx -> Int] : f = [u \in Tx |-> InTransit(u)]
    BY TransitType
  <2>2. PICK g : g = [u \in Tx |-> InTransit(u)']
    OBVIOUS
  <2>3. ASSUME NEW u \in Tx, u # t PROVE InTransit(u)' = InTransit(u)
    <3>1. PICK p \in Cluster, q \in Cluster : p = Coord(u) /\ q = Part(u)
      BY Clusters
    <3>2. \A d \in Cluster, x \in Status : Executed(d, u, x)' <=> Executed(d, u, x)
      BY <1>1, <2>3
    <3>3. \A d \in Cluster, x \in {"P", "A"} : Moved(d, u, x)' = Moved(d, u, x)
      BY <3>2 DEF Moved, Status
    <3> QED
      BY <3>1, <3>3 DEF InTransit, Intra, Coord, Part
  <2>4. \A u \in Tx : f[u] \in Int /\ g[u] \in Int /\ (u # t => g[u] = f[u])
    BY <1>9, <2>1, <2>2, <2>3
  <2>5. g[t] = f[t] + w
    <3>1. g[t] = InTransit(t)' /\ f[t] = InTransit(t)
      BY <2>1, <2>2
    <3> QED
      BY <1>9, <3>1
  <2>6. Sum(g, Tx) = Sum(f, Tx) + g[t] - f[t]
    <3>1. PICK x \in [Tx -> Int] : x = g
      BY <2>2, <2>4
    <3>2. \A u \in Tx : u # t => x[u] = f[u]
      BY <2>4, <3>1
    <3>3. Sum(x, Tx) = Sum(f, Tx) + x[t] - f[t]
      BY <3>2, CrossShardFinite, SumAt
    <3> QED
      BY <3>1, <3>3
  <2>7. Sum(f, Tx) \in Int /\ f[t] \in Int
    BY CrossShardFinite, SumInt
  <2>8. Sum(g, Tx) = Sum(f, Tx) + w
    BY <2>5, <2>6, <2>7
  <2> QED
    BY <2>1, <2>2, <2>8 DEF Transit
<1>11. Transit \in Int /\ InitialBalance * Cardinality(Account) \in Int
  <2>1. Cardinality(Account) \in Nat /\ InitialBalance \in Nat
    BY CrossShardFinite, CrossShardAssumption, FS_CardinalityType
  <2> QED
    BY <2>1, TransitType
<1>12. TotalOf(bal)' = TotalOf(h) /\ TotalOf(bal) = TotalOf(b)
  BY <1>5, <1>6 DEF TotalOf
<1> QED
  BY <1>8, <1>10, <1>11, <1>12 DEF MoneyInv

\* A step that executes nothing leaves the money where it is.
LEMMA MoneyStays ==
    ASSUME MoneyInv, bal' = bal, \A d \in Cluster : \A u, x : Executed(d, u, x)' <=> Executed(d, u, x)
    PROVE  MoneyInv'
<1>1. ASSUME NEW u \in Tx PROVE InTransit(u)' = InTransit(u)
  <2>1. PICK p \in Cluster, q \in Cluster : p = Coord(u) /\ q = Part(u)
    BY Clusters
  <2>2. \A d \in Cluster, x \in {"P", "A"} : Moved(d, u, x)' = Moved(d, u, x)
    BY DEF Moved
  <2> QED
    BY <2>1, <2>2 DEF InTransit, Intra, Coord, Part
<1>2. Transit' = Transit
  BY <1>1 DEF Transit
<1>3. TotalOf(bal)' = TotalOf(bal)
  BY DEF TotalOf
<1> QED
  BY <1>2, <1>3 DEF MoneyInv

\* The coordinator of a payment over two clusters aborts only behind an error of PCPrepare,
\* unless a call is lost, and what it prepared it aborts but for a success.
Orderly(l, pc, a, cs) ==
    /\ l = 0 /\ (pc = "abort" \/ "A" \in cs) => a = "error"
    /\ pc = "idle" /\ cs = {"P"} => a = "ok"

OrderlyInv == \A t \in Tx : ~Intra(t) => Orderly(lost, coord[t], answer[t], Decisions(Coord(t), t))

\* The abort run of a coordinator does not fail.
AbortsEnd == \A t \in Tx : ~Intra(t) => <<Coord(t), "A">> \notin MayFail

LEMMA LostGrows ==
    ASSUME CountType, NEW t \in Tx, StepOf(t)
    PROVE  lost' = 0 => lost = 0
<1>1. lost' = lost \/ lost' = lost + 1
  BY DEF StepOf, CoordinatorStep, ParticipantStep, Fault, ExecuteTransaction, Refuse, Prepare, PrepareDone,
     RunFailed, StartCommit, StartAbort, PCPrepareLost, CommitDone, AbortDone, PCPrepare, PartPrepare,
     PartPrepareDone, PartPrepareFailed, WaitForPCCommit, PartAbortDone, PartAbortFailed, PCCommit,
     PCCommitDone, PCCommitFailed, PCCommitUnheard, faults
<1>2. lost \in Nat
  BY CrossShardAssumption DEF CountType
<1> QED
  BY <1>1, <1>2

\* The steps that leave the coordinator's decisions.
LEMMA OrderlyStays ==
    ASSUME AbortsEnd, CallInv, CalledOnce, OrderlyInv, NEW t \in Tx, ~Intra(t), StepOf(t),
           ~PrepareDone(t), ~CommitDone(t), ~AbortDone(t),
           NEW cs, cs = Decisions(Coord(t), t)
    PROVE  Orderly(lost', coord'[t], answer'[t], cs)
<1>1. /\ coord \in [Tx -> CoordPc] /\ answer \in [Tx -> {"none", "ok", "error"}]
      /\ lost \in Nat /\ CountType
  BY TypeParts, CrossShardAssumption DEF CallInv, CrossInv, PcType, CountType
<1>2. PICK ps : ps = Decisions(Part(t), t)
  OBVIOUS
<1>3. Stages(calls[t], coord[t], part[t], answer[t], cs, ps) /\ Orderly(lost, coord[t], answer[t], cs)
  BY <1>2 DEF CallInv, OnceInv, CalledOnce, Single, OrderlyInv
<1>4. lost' = 0 => lost = 0
  BY <1>1, LostGrows
<1>5. CASE ExecuteTransaction(t)
  <2>1. coord'[t] = "locks" /\ answer' = answer
    BY <1>1, <1>5 DEF ExecuteTransaction
  <2> QED
    BY <1>3, <1>4, <2>1 DEF Orderly
<1>6. CASE Refuse(t)
  <2>1. coord[t] = "locks" /\ coord'[t] = "idle" /\ answer' = answer
    BY <1>1, <1>6 DEF Refuse
  <2> QED
    BY <1>3, <1>4, <2>1 DEF Orderly, Stages
<1>7. CASE Prepare(t) \/ StartCommit(t)
  <2>1. coord'[t] \in {"prepare", "commit"} /\ answer' = answer
    BY <1>1, <1>7 DEF Prepare, StartCommit
  <2> QED
    BY <1>3, <1>4, <2>1 DEF Orderly
<1>8. CASE RunFailed(t)
  <2>1. coord[t] \in {"prepare", "commit", "abort"} /\ coord'[t] = "idle" /\ answer' = answer
    BY <1>1, <1>8 DEF RunFailed
  <2>2. coord[t] # "abort"
    <3>1. coord[t] = "abort" => RunOf(t) = "A"
      BY DEF RunOf
    <3>2. <<Coord(t), RunOf(t)>> \in MayFail
      BY <1>8 DEF RunFailed, Fail
    <3> QED
      BY <3>1, <3>2 DEF AbortsEnd
  <2> QED
    BY <1>3, <1>4, <2>1, <2>2 DEF Orderly, Stages
<1>9. CASE StartAbort(t)
  <2>1. coord[t] = "wait" /\ answer[t] = "error" /\ coord'[t] = "abort" /\ answer' = answer
    BY <1>1, <1>9 DEF StartAbort
  <2> QED
    BY <2>1 DEF Orderly
<1>10. CASE PCPrepareLost(t)
  <2>1. lost' # 0 /\ coord'[t] = "abort"
    BY <1>1, <1>10 DEF PCPrepareLost
  <2> QED
    BY <2>1 DEF Orderly
<1>11. CASE PCPrepare(t)
  <2>1. coord[t] = "ask" /\ coord'[t] = "wait"
    BY <1>1, <1>11 DEF PCPrepare
  <2> QED
    BY <1>3, <2>1 DEF Orderly, Stages
<1>12. CASE PartPrepareDone(t) \/ PartPrepareFailed(t)
  <2>1. part[t] = "prepare" /\ coord' = coord
    BY <1>1, <1>12 DEF PartPrepareDone, PartPrepareFailed
  <2>2. answer[t] = "none"
    BY <1>3, <2>1 DEF Stages
  <2> QED
    BY <1>3, <1>4, <2>1, <2>2 DEF Orderly
<1>13. CASE PartPrepare(t) \/ WaitForPCCommit(t) \/ PartAbortDone(t) \/ PartAbortFailed(t)
  BY <1>3, <1>4, <1>13 DEF PartPrepare, WaitForPCCommit, PartAbortDone, PartAbortFailed, Orderly
<1>14. CASE PCCommit(t) \/ PCCommitFailed(t)
  <2>1. coord'[t] \in {"telling", "tell"} /\ answer' = answer
    BY <1>1, <1>14 DEF PCCommit, PCCommitFailed
  <2> QED
    BY <1>3, <1>4, <2>1 DEF Orderly
<1>15. CASE PCCommitDone(t) \/ PCCommitUnheard(t)
  <2>1. part[t] = "commit" /\ coord'[t] \in {"idle", "tell"} /\ answer' = answer
    BY <1>1, <1>15 DEF PCCommitDone, PCCommitUnheard
  <2> QED
    BY <1>3, <1>4, <2>1 DEF Orderly, Stages
<1> QED
  BY <1>5, <1>6, <1>7, <1>8, <1>9, <1>10, <1>11, <1>12, <1>13, <1>14, <1>15
     DEF StepOf, CoordinatorStep, ParticipantStep, Fault

LEMMA OrderlyDecides ==
    ASSUME CallInv, CalledOnce, OrderlyInv, NEW t \in Tx, ~Intra(t),
           PrepareDone(t) \/ CommitDone(t) \/ AbortDone(t),
           NEW cs, cs = Decisions(Coord(t), t)
    PROVE  \E st \in Status : Fresh(Coord(t), t, st) /\ Orderly(lost', coord'[t], answer'[t], cs \cup {st})
<1>1. coord \in [Tx -> CoordPc]
  BY TypeParts DEF CallInv, CrossInv, PcType
<1>2. PICK ps : ps = Decisions(Part(t), t)
  OBVIOUS
<1>3. Stages(calls[t], coord[t], part[t], answer[t], cs, ps) /\ Orderly(lost, coord[t], answer[t], cs) /\ Single(t)
  BY <1>2 DEF CallInv, OnceInv, CalledOnce, Single, OrderlyInv
<1>4. PICK c \in Cluster : c = Coord(t)
  BY Clusters
<1>5. PICK st \in Status : Fresh(c, t, st) /\ Logs(c, t, st)
  BY <1>3, <1>4, CoordinatorRecords
<1>6. lost' = lost /\ answer' = answer
  BY DEF PrepareDone, CommitDone, AbortDone, faults
<1>7. store'[c][slot[c][t]] = [tx |-> t, status |-> st] /\ slot[c][t] \in Slot
  <2>1. SlotType
    BY TypeParts DEF CallInv, CrossInv
  <2>2. slot[c][t] \in Slot /\ store' = [store EXCEPT ![c][slot[c][t]] = [tx |-> t, status |-> st]]
    BY <1>5 DEF Fresh, Written
  <2> QED
    BY <2>1, <2>2 DEF SlotType
<1>8. CASE PrepareDone(t)
  <2>1. coord'[t] = "ask" /\ cs = {} /\ RunOf(t) = "P"
    BY <1>1, <1>3, <1>8 DEF PrepareDone, RunOf, Stages
  <2>2. st = "P"
    <3>1. store' = [store EXCEPT ![c][slot[c][t]] = [tx |-> t, status |-> "P"]]
      BY <1>4, <1>8, <2>1 DEF PrepareDone, Decide
    <3>2. SlotType
      BY TypeParts DEF CallInv, CrossInv
    <3>3. store'[c][slot[c][t]] = [tx |-> t, status |-> "P"]
      BY <1>7, <3>1, <3>2 DEF SlotType
    <3>4. [tx |-> t, status |-> "P"].status = [tx |-> t, status |-> st].status
      BY <1>7, <3>3
    <3> QED
      BY <3>4
  <2> QED
    BY <1>4, <1>5, <2>1, <2>2 DEF Orderly
<1>9. CASE CommitDone(t)
  <2>1. coord'[t] = "tell" /\ cs = {"P"}
    BY <1>1, <1>3, <1>9 DEF CommitDone, Stages
  <2>2. st = "C"
    <3>1. store' = [store EXCEPT ![c][slot[c][t]] = [tx |-> t, status |-> "C"]]
      BY <1>4, <1>9 DEF CommitDone
    <3>2. SlotType
      BY TypeParts DEF CallInv, CrossInv
    <3>3. store'[c][slot[c][t]] = [tx |-> t, status |-> "C"]
      BY <1>7, <3>1, <3>2 DEF SlotType
    <3>4. [tx |-> t, status |-> "C"].status = [tx |-> t, status |-> st].status
      BY <1>7, <3>3
    <3> QED
      BY <3>4
  <2> QED
    BY <1>4, <1>5, <2>1, <2>2 DEF Orderly
<1>10. CASE AbortDone(t)
  <2>1. coord[t] = "abort" /\ coord'[t] = "idle" /\ cs = {"P"}
    BY <1>1, <1>3, <1>10 DEF AbortDone, Stages
  <2>2. st = "A"
    <3>1. store' = [store EXCEPT ![c][slot[c][t]] = [tx |-> t, status |-> "A"]]
      BY <1>4, <1>10 DEF AbortDone, Decide
    <3>2. SlotType
      BY TypeParts DEF CallInv, CrossInv
    <3>3. store'[c][slot[c][t]] = [tx |-> t, status |-> "A"]
      BY <1>7, <3>1, <3>2 DEF SlotType
    <3>4. [tx |-> t, status |-> "A"].status = [tx |-> t, status |-> st].status
      BY <1>7, <3>3
    <3> QED
      BY <3>4
  <2> QED
    BY <1>3, <1>4, <1>5, <1>6, <2>1, <2>2 DEF Orderly
<1> QED
  BY <1>8, <1>9, <1>10

LEMMA OrderlyStep ==
    ASSUME AbortsEnd, CallInv, CalledOnce, OrderlyInv, NEW t \in Tx, StepOf(t)
    PROVE  OrderlyInv'
<1>1. PreparedInv /\ SlotsInv /\ PcType /\ CountType
  BY TypeParts DEF CallInv, CrossInv, PreparedInv
<1>2. Others(t)
  BY <1>1, OthersStay
<1>3. lost' = 0 => lost = 0
  BY <1>1, LostGrows
<1> SUFFICES ASSUME NEW u \in Tx, ~Intra(u), NEW c \in Cluster, c = Coord(u)
             PROVE  Orderly(lost', coord'[u], answer'[u], Decisions(c, u)')
  <2>1. ASSUME NEW u \in Tx, ~Intra(u)' PROVE Orderly(lost', coord'[u], answer'[u], Decisions(Coord(u), u)')
    <3>1. PICK c \in Cluster : c = Coord(u)
      BY Clusters
    <3>2. Coord(u)' = c /\ ~Intra(u)
      BY <2>1, <3>1 DEF Coord, Intra, Part
    <3>3. Decisions(Coord(u), u)' = Decisions(c, u)'
      BY <3>1, <3>2 DEF Decisions, Decided
    <3> QED
      BY <3>1, <3>2, <3>3
  <2> QED
    BY <2>1 DEF OrderlyInv
<1>4. PICK cs : cs = Decisions(c, u)
  OBVIOUS
<1>5. Orderly(lost, coord[u], answer[u], cs)
  BY <1>4 DEF OrderlyInv
<1>6. CASE u # t
  <2>1. coord'[u] = coord[u] /\ answer'[u] = answer[u]
    BY <1>2, <1>6 DEF Others
  <2>2. Decisions(c, u)' = cs
    <3>1. CASE store' = store
      BY <1>4, <3>1, DecisionsSame
    <3>2. ASSUME NEW d \in Involved(t), NEW st \in Status, Written(d, t, [tx |-> t, status |-> st])
          PROVE  Decisions(c, u)' = cs
      BY <1>1, <1>4, <1>6, <3>2, Clusters, DecisionsWritten DEF Involved
    <3> QED
      BY <1>1, <3>1, <3>2, StepWrites
  <2> QED
    BY <1>3, <1>5, <2>1, <2>2 DEF Orderly
<1>7. CASE u = t /\ (PrepareDone(t) \/ CommitDone(t) \/ AbortDone(t))
  <2>1. PICK st \in Status : Fresh(c, t, st) /\ Orderly(lost', coord'[t], answer'[t], cs \cup {st})
    BY <1>4, <1>7, OrderlyDecides
  <2>2. Decisions(c, t)' = cs \cup {st}
    BY <1>1, <1>4, <1>7, <2>1, DecisionsWritten DEF Fresh
  <2> QED
    BY <1>7, <2>1, <2>2
<1>8. CASE u = t /\ ~ (PrepareDone(t) \/ CommitDone(t) \/ AbortDone(t))
  <2>1. Orderly(lost', coord'[t], answer'[t], cs)
    BY <1>4, <1>8, OrderlyStays
  <2>2. Decisions(c, t)' = cs
    <3>1. CASE PartPrepareDone(t) \/ PartAbortDone(t) \/ PCCommitDone(t) \/ PCCommitUnheard(t)
      <4>1. PICK p \in Cluster : p = Part(t)
        BY Clusters
      <4>2. p # c /\ Single(t)
        BY <1>8, <4>1 DEF Intra, CallInv, OnceInv, CalledOnce
      <4>3. PICK st \in Status : Fresh(p, t, st)
        BY <1>8, <3>1, <4>1, <4>2, ParticipantRecords
      <4> QED
        BY <1>1, <1>4, <1>8, <4>2, <4>3, DecisionsWritten DEF Fresh
    <3>2. CASE ~ (PartPrepareDone(t) \/ PartAbortDone(t) \/ PCCommitDone(t) \/ PCCommitUnheard(t))
      <4>1. store' = store
        BY <1>8, <3>2 DEF StepOf, CoordinatorStep, ParticipantStep, Fault, ExecuteTransaction, Refuse, Prepare,
           RunFailed, StartCommit, StartAbort, PCPrepareLost, PCPrepare, PartPrepare,
           PartPrepareFailed, WaitForPCCommit, PartAbortFailed, PCCommit, PCCommitFailed, ledger
      <4> QED
        BY <1>4, <1>8, <4>1, DecisionsSame
    <3> QED
      BY <3>1, <3>2
  <2> QED
    BY <1>8, <2>1, <2>2
<1> QED
  BY <1>6, <1>7, <1>8

\* Steps that change neither decisions nor the coordinator.
LEMMA OrderlySame ==
    ASSUME OrderlyInv, UNCHANGED <<lost, coord, answer, store>>
    PROVE  OrderlyInv'
<1>1. \A d, u : Decisions(d, u)' = Decisions(d, u)
  BY DecisionsSame
<1>2. ASSUME NEW t \in Tx
      PROVE  Intra(t)' = Intra(t) /\ Decisions(Coord(t), t)' = Decisions(Coord(t), t)
  <2>1. PICK c : c = Coord(t)
    OBVIOUS
  <2>2. Coord(t)' = c
    BY <2>1 DEF Coord
  <2>3. Decisions(Coord(t), t)' = Decisions(c, t)'
    BY <2>2 DEF Decisions, Decided
  <2> QED
    BY <1>1, <2>1, <2>3 DEF Intra, Coord, Part
<1> QED
  BY <1>2 DEF OrderlyInv

MoneyAll == CallInv /\ LedgerInv /\ OrderlyInv /\ MoneyInv

LEMMA InitAll == Init => MoneyAll
<1> SUFFICES ASSUME Init PROVE OrderlyInv
  BY InitCalls, InitMoney DEF MoneyAll
<1>1. \A d \in Cluster, t \in Tx : Decisions(d, t) = {}
  BY CrossShardAssumption DEF Init, Decisions, Decided, NoEntry
<1>2. \A t \in Tx : coord[t] = "idle"
  BY DEF Init
<1>3. ASSUME NEW t \in Tx PROVE Orderly(lost, coord[t], answer[t], Decisions(Coord(t), t))
  <2>1. Decisions(Coord(t), t) = {}
    BY <1>1, Clusters
  <2> QED
    BY <1>2, <2>1 DEF Orderly
<1> QED
  BY <1>3 DEF OrderlyInv

LEMMA StepAll ==
    ASSUME SameHomes, AbortsEnd, MoneyAll, CalledOnce, [Next]_vars
    PROVE  MoneyAll'
<1>1. CallInv'
  BY StepCalls DEF MoneyAll
<1>2. ASSUME NEW t \in Tx, StepOf(t) PROVE LedgerInv' /\ OrderlyInv' /\ MoneyInv'
  <2>1. LedgerInv' /\ \A d \in Cluster : \A u, x : Executed(d, u, x)' <=> Executed(d, u, x)
    BY <1>2, LedgerStep DEF MoneyAll
  <2>2. OrderlyInv'
    BY <1>2, OrderlyStep DEF MoneyAll
  <2>3. bal' = bal
    BY <1>2 DEF StepOf, CoordinatorStep, ParticipantStep, Fault, ExecuteTransaction, Refuse, Prepare, PrepareDone,
       RunFailed, StartCommit, StartAbort, PCPrepareLost, CommitDone, AbortDone, PCPrepare, PartPrepare,
       PartPrepareDone, PartPrepareFailed, WaitForPCCommit, PartAbortDone, PartAbortFailed, PCCommit,
       PCCommitDone, PCCommitFailed, PCCommitUnheard, applied
  <2>4. MoneyInv'
    BY <2>1, <2>3, MoneyStays DEF MoneyAll
  <2> QED
    BY <2>1, <2>2, <2>4
<1>3. ASSUME NEW c \in Cluster, Execute(c) PROVE LedgerInv' /\ OrderlyInv' /\ MoneyInv'
  <2>1. UNCHANGED <<lost, coord, answer, store>>
    BY <1>3 DEF Execute, faults, ledger
  <2>2. OrderlyInv'
    BY <2>1, OrderlySame DEF MoneyAll
  <2> QED
    BY <1>3, <2>2, LedgerExecute, ExecuteMoney DEF MoneyAll
<1>4. CASE UNCHANGED vars
  <2>1. UNCHANGED <<lost, coord, answer, store, exec, wal, bal>>
    BY <1>4 DEF vars, faults, ledger, applied
  <2>2. OrderlyInv'
    BY <2>1, OrderlySame DEF MoneyAll
  <2>3. \A d, u : Decisions(d, u)' = Decisions(d, u)
    BY <2>1, DecisionsSame
  <2>4. LedgerInv'
    BY <2>1, <2>3 DEF MoneyAll, LedgerInv, Filled, NoTwins, Logged, Intra, Involved, Coord, Part
  <2>5. \A d \in Cluster : \A u, x : Executed(d, u, x)' <=> Executed(d, u, x)
    BY <2>1 DEF Executed
  <2>6. MoneyInv'
    BY <2>1, <2>5, MoneyStays DEF MoneyAll
  <2> QED
    BY <1>1, <2>2, <2>4, <2>6 DEF MoneyAll
<1> QED
  BY <1>1, <1>2, <1>3, <1>4 DEF MoneyAll, Next, StepOf

\* When nothing is under way and no call was lost, nothing is in transit.
LEMMA QuietTransit ==
    ASSUME MoneyAll, CalledOnce, Quiet, lost = 0
    PROVE  Transit = 0
<1>1. ASSUME NEW t \in Tx PROVE InTransit(t) = 0
  <2>1. CASE Intra(t)
    BY <2>1 DEF InTransit
  <2>2. CASE ~Intra(t)
    <3>1. PICK p \in Cluster, q \in Cluster : p = Coord(t) /\ q = Part(t)
      BY Clusters
    <3>2. PICK cs, ps : cs = Decisions(p, t) /\ ps = Decisions(q, t)
      OBVIOUS
    <3>3. /\ Stages(calls[t], coord[t], part[t], answer[t], cs, ps) /\ Orderly(lost, coord[t], answer[t], cs)
          /\ coord[t] = "idle"
      BY <2>2, <3>1, <3>2 DEF MoneyAll, CallInv, OnceInv, CalledOnce, Single, OrderlyInv, Quiet
    <3>4. "P" \in ps => "P" \in cs
      <4>1. Prepares(t) /\ "P" \in Status
        BY <2>2 DEF MoneyAll, CallInv, CrossInv, PreparedInv, PreparesInv, Status
      <4> QED
        BY <3>1, <3>2, <4>1 DEF Prepares, Decisions
    <3>5. ASSUME NEW d \in Cluster, NEW x \in {"P", "A"}
          PROVE  Executed(d, t, x) <=> x \in Decisions(d, t)
      <4>1. x \in Status /\ NoTx # t
        BY CrossShardAssumption DEF Status
      <4>2. \A s \in Slot : store[d][s] = [tx |-> t, status |-> x] => s < exec[d]
        BY <4>1 DEF Quiet
      <4> QED
        BY <4>1, <4>2 DEF Executed, Decisions, Decided
    <3>6. /\ Executed(q, t, "P") <=> "P" \in ps
          /\ Executed(p, t, "P") <=> "P" \in cs
          /\ Executed(p, t, "A") <=> "A" \in cs
      BY <3>2, <3>5
    <3>7. PICK n \in Nat : n = Body[t].amount
      BY Clusters
    <3>8. InTransit(t) = (IF "P" \in ps THEN n ELSE 0) - (IF "P" \in cs THEN n ELSE 0) + (IF "A" \in cs THEN n ELSE 0)
      BY <2>2, <3>1, <3>6, <3>7 DEF InTransit, Moved
    <3>9. \/ "P" \notin ps /\ cs = {}
          \/ "P" \in ps /\ cs \in {{"P"}, {"P", "C"}}
          \/ "P" \notin ps /\ cs = {"P", "A"}
      BY <3>3, <3>4 DEF Stages, Orderly
    <3> QED
      BY <3>7, <3>8, <3>9
  <2> QED
    BY <2>1, <2>2
<1>2. PICK f : f = [t \in Tx |-> InTransit(t)]
  OBVIOUS
<1>3. \A t \in Tx : f[t] = 0
  BY <1>1, <1>2
<1>4. Sum(f, Tx) = 0
  BY <1>3, CrossShardFinite, SumZero
<1> QED
  BY <1>2, <1>4 DEF Transit

\* As long as the gateway repeats no payment over two clusters and no abort run of a
\* coordinator fails, the balances add up to the money there was whenever nothing is under
\* way, unless the gateway and a shard disagree on where an account is or a call of PCPrepare
\* was lost: whatever other runs fail, PCCommits are repeated and executors are behind.
THEOREM MoneyConservedHolds == SameHomes /\ AbortsEnd /\ Spec /\ []CalledOnce => []MoneyConserved
<1> SUFFICES ASSUME SameHomes, AbortsEnd PROVE Spec /\ []CalledOnce => []MoneyConserved
  OBVIOUS
<1>1. MoneyAll /\ CalledOnce /\ [Next]_vars => MoneyAll'
  BY StepAll
<1>2. MoneyAll /\ CalledOnce => MoneyConserved
  <2> SUFFICES ASSUME MoneyAll, CalledOnce, Quiet, lost = 0
               PROVE  Total = InitialBalance * Cardinality(Account)
    BY DEF MoneyConserved
  <2>1. Transit = 0
    BY QuietTransit
  <2>2. Total = TotalOf(bal)
    BY TotalIs, TypeParts DEF MoneyAll, CallInv, CrossInv
  <2>3. TotalOf(bal) = InitialBalance * Cardinality(Account) + Transit
    BY DEF MoneyAll, MoneyInv
  <2>4. InitialBalance * Cardinality(Account) \in Int
    <3>1. Cardinality(Account) \in Nat /\ InitialBalance \in Nat
      BY CrossShardFinite, CrossShardAssumption, FS_CardinalityType
    <3> QED
      BY <3>1
  <2> QED
    BY <2>1, <2>2, <2>3, <2>4
<1> QED
  BY <1>1, <1>2, InitAll, PTL DEF Spec

-----------------------------------------------------------------------------
(* Overdrafts.                                                             *)

\* The gateway repeats no call, and no answer of a PCCommit that has committed is lost.
AllOnce == (\A t \in Tx : calls[t] <= 1) /\ unheard = 0

\* Where cluster c is with payment t.
At(c, t) == IF c = Coord(t) THEN coord[t] ELSE IF c = Part(t) THEN part[t] ELSE "idle"

Active(c, t) == At(c, t) \in Running
First(c, t)  == At(c, t) = "prepare"

\* What a step of t at cluster c leaves alone.
Elsewhere(c, t) ==
    /\ \A d \in Cluster : d # c => seq'[d] = seq[d] /\ store'[d] = store[d] /\ lock'[d] = lock[d]
    /\ \A d \in Cluster, u \in Tx : d # c \/ u # t =>
         slot'[d][u] = slot[d][u] /\ (Active(d, u)' <=> Active(d, u)) /\ (First(d, u)' <=> First(d, u))

\* The kinds of steps there are for the runs of a cluster: none, or one starts in a new slot,
\* ends with a decision, or fails.
NoRun ==
    /\ UNCHANGED <<seq, slot, store, lock>>
    /\ \A d \in Cluster, u \in Tx : (Active(d, u)' <=> Active(d, u)) /\ (First(d, u)' <=> First(d, u))

Starts(c, t) ==
    /\ Elsewhere(c, t) /\ ~Active(c, t) /\ Active(c, t)'
    /\ seq[c] \in Slot /\ slot'[c][t] = seq[c] /\ seq'[c] = seq[c] + 1 /\ store'[c] = store[c]
    /\ \/ ~First(c, t)' /\ lock'[c] = lock[c]
       \/ First(c, t)' /\ Free(c, t) /\ CanPay(c, t) /\ lock' = Locked(c, t)

Ends(c, t, st) ==
    /\ Elsewhere(c, t) /\ Active(c, t) /\ ~Active(c, t)'
    /\ seq'[c] = seq[c] /\ slot'[c][t] = slot[c][t] /\ lock'[c] = lock[c]
    /\ Fresh(c, t, st)
    /\ \/ First(c, t) /\ st \in {"", "P"} /\ Decisions(c, t) = {}
       \/ ~First(c, t) /\ st \in {"C", "A"} /\ Decisions(c, t) = {"P"}
       \/ ~First(c, t) /\ st = "A" /\ Decisions(c, t) = {} /\ c = Part(t) /\ answer[t] = "error"

Fails(c, t) ==
    /\ Elsewhere(c, t) /\ Active(c, t) /\ ~Active(c, t)'
    /\ seq'[c] = seq[c] /\ slot'[c][t] = slot[c][t] /\ store'[c] = store[c] /\ lock' = Released(c, t)
    /\ slot[c][t] \in Slot /\ store[c][slot[c][t]].tx = NoTx

\* A step of t that changes slots, Datastore and locks at d only, and moves t on there.
LEMMA OneCluster ==
    ASSUME NEW t \in Tx, NEW d \in Cluster, Others(t),
           \A e \in Cluster : e # d => seq'[e] = seq[e] /\ store'[e] = store[e] /\ lock'[e] = lock[e],
           \A e \in Cluster, u \in Tx : e # d \/ u # t => slot'[e][u] = slot[e][u],
           \/ d = Coord(t) /\ part'[t] = part[t]
           \/ d # Coord(t) /\ d = Part(t)
              /\ (coord'[t] = coord[t] \/ (coord[t] \notin Running /\ coord'[t] \notin Running))
    PROVE  Elsewhere(d, t)
<1> SUFFICES ASSUME NEW e \in Cluster, NEW u \in Tx, e # d \/ u # t
             PROVE  (Active(e, u)' <=> Active(e, u)) /\ (First(e, u)' <=> First(e, u))
  BY DEF Elsewhere
<1>1. At(e, u)' = IF e = Coord(u) THEN coord'[u] ELSE IF e = Part(u) THEN part'[u] ELSE "idle"
  BY DEF At, Coord, Part
<1>2. CASE u # t
  <2>1. coord'[u] = coord[u] /\ part'[u] = part[u]
    BY <1>2 DEF Others
  <2> QED
    BY <1>1, <2>1 DEF Active, First, At
<1>3. CASE u = t /\ e # d
  BY <1>1, <1>3 DEF Active, First, At, Running
<1> QED
  BY <1>2, <1>3

LEMMA NoRunBy ==
    ASSUME NEW t \in Tx, Others(t), UNCHANGED <<seq, slot, store, lock>>,
           coord'[t] = coord[t] \/ (coord[t] \notin Running /\ coord'[t] \notin Running),
           part'[t] = part[t] \/ (part[t] \notin Running /\ part'[t] \notin Running)
    PROVE  NoRun
<1> SUFFICES ASSUME NEW e \in Cluster, NEW u \in Tx
             PROVE  (Active(e, u)' <=> Active(e, u)) /\ (First(e, u)' <=> First(e, u))
  BY DEF NoRun
<1>1. At(e, u)' = IF e = Coord(u) THEN coord'[u] ELSE IF e = Part(u) THEN part'[u] ELSE "idle"
  BY DEF At, Coord, Part
<1>2. CASE u # t
  <2>1. coord'[u] = coord[u] /\ part'[u] = part[u]
    BY <1>2 DEF Others
  <2> QED
    BY <1>1, <2>1 DEF Active, First, At
<1>3. CASE u = t
  BY <1>1, <1>3 DEF Active, First, At, Running
<1> QED
  BY <1>2, <1>3

\* A run takes the next slot.
LEMMA TakesNext ==
    ASSUME SlotType, NEW d \in Cluster, NEW t \in Tx, TakeSlot(d, t, 0)
    PROVE  /\ seq[d] \in Slot /\ slot'[d][t] = seq[d] /\ seq'[d] = seq[d] + 1
           /\ \A e \in Cluster : e # d => seq'[e] = seq[e]
           /\ \A e \in Cluster, u \in Tx : e # d \/ u # t => slot'[e][u] = slot[e][u]
<1>1. seq[d] \in Slot /\ seq' = [seq EXCEPT ![d] = seq[d] + 1] /\ slot' = [slot EXCEPT ![d][t] = seq[d]]
  BY DEF TakeSlot, logClientRequest
<1>2. seq \in [Cluster -> 1..(MaxSlot + 1)] /\ slot \in [Cluster -> [Tx -> 0..MaxSlot]]
  BY DEF SlotType
<1>3. seq'[d] = seq[d] + 1 /\ \A e \in Cluster : e # d => seq'[e] = seq[e]
  BY <1>1, <1>2
<1> DEFINE row == [slot[d] EXCEPT ![t] = seq[d]]
<1>4. slot' = [slot EXCEPT ![d] = row] /\ row[t] = seq[d] /\ \A u \in Tx : u # t => row[u] = slot[d][u]
  BY <1>1, <1>2
<1> HIDE DEF row
<1>5. slot'[d] = row /\ \A e \in Cluster : e # d => slot'[e] = slot[e]
  BY <1>2, <1>4
<1> QED
  BY <1>1, <1>3, <1>4, <1>5

LEMMA LocksElsewhere ==
    ASSUME lock \in LockType, NEW d \in Cluster, NEW t \in Tx, NEW h, lock' = SetLocks(d, t, h)
    PROVE  /\ \A e \in Cluster : e # d => lock'[e] = lock[e]
           /\ \A a \in Account : lock'[d][a] = IF a \in Accts(t) THEN h ELSE lock[d][a]
<1> DEFINE row == [a \in Account |-> IF a \in Accts(t) THEN h ELSE lock[d][a]]
<1>1. lock' = [lock EXCEPT ![d] = row]
  BY DEF SetLocks
<1> HIDE DEF row
<1>2. lock'[d] = row /\ \A e \in Cluster : e # d => lock'[e] = lock[e]
  BY <1>1 DEF LockType
<1> QED
  BY <1>2 DEF row

LEMMA WritesThere ==
    ASSUME SlotType, NEW d \in Cluster, NEW t \in Tx, NEW st, Written(d, t, [tx |-> t, status |-> st])
    PROVE  \A e \in Cluster : e # d => store'[e] = store[e]
<1> DEFINE x == [tx |-> t, status |-> st]
<1> HIDE DEF x
<1>1. store' = [store EXCEPT ![d][slot[d][t]] = x]
  BY DEF Written, x
<1> QED
  BY <1>1 DEF SlotType

\* Before the first call of t nothing of it is there, and its first run decides first.
Begins ==
    \A t \in Tx :
        /\ calls[t] = 0 => coord[t] = "idle"
        /\ calls[t] = 0 \/ coord[t] = "locks" => slot[Coord(t)][t] = 0
        /\ coord[t] = "prepare" => Decisions(Coord(t), t) = {}

\* A participant that is told of a commit has not committed yet.
ToldOnce ==
    \A t \in Tx : ~Intra(t) /\ coord[t] \in {"tell", "telling"} => "C" \notin Decisions(Part(t), t)

\* The slot of a run under way is still empty.
LEMMA ActiveEmpty ==
    ASSUME CallInv, CalledOnce, Begins, NEW t \in Tx, NEW c \in Involved(t), Active(c, t)
    PROVE  c \in Cluster /\ slot[c][t] \in Slot /\ store[c][slot[c][t]].tx = NoTx
<1>1. c \in Cluster /\ SlotsInv
  BY Clusters DEF Involved, CallInv, CrossInv, PreparedInv
<1>2. slot[c][t] \in Slot
  BY <1>1 DEF SlotsInv, RunsHaveSlots, Active, At, Involved, Running
<1>3. CASE Decisions(c, t) = {}
  BY <1>1, <1>2, <1>3, NothingDecided
<1>4. CASE Decisions(c, t) # {}
  <2>1. ~Intra(t)
    <3> SUFFICES ASSUME Intra(t) PROVE FALSE
      OBVIOUS
    <3>1. c = Coord(t) /\ Local(t)
      BY DEF Involved, Intra, CallInv, OnceInv
    <3>2. coord[t] = "prepare"
      BY <3>1 DEF Local, Active, At, Running
    <3> QED
      BY <1>4, <3>1, <3>2 DEF Begins
  <2>2. Single(t) /\ Prepares(t)
    BY <2>1 DEF CallInv, OnceInv, CalledOnce, CrossInv, PreparedInv, PreparesInv
  <2>3. CASE c = Coord(t)
    <3>1. coord[t] \in {"commit", "abort"}
      BY <1>4, <2>3 DEF Begins, Active, At, Running
    <3> QED
      BY <1>1, <1>2, <2>2, <2>3, <3>1 DEF Prepares
  <2>4. CASE c = Part(t)
    <3>1. part[t] \in {"prepare", "commit", "abort"}
      BY <2>1, <2>4 DEF Active, At, Running, Intra
    <3>2. part[t] # "prepare"
      BY <1>4, <2>2, <2>4 DEF Single, Stages
    <3> QED
      BY <1>1, <1>2, <2>2, <2>4, <3>1, <3>2 DEF Prepares
  <2> QED
    BY <2>3, <2>4 DEF Involved
<1> QED
  BY <1>1, <1>2, <1>3, <1>4

\* What is known of t before a step.
LEMMA BeforeStep ==
    ASSUME CallInv, NEW t \in Tx, StepOf(t)
    PROVE  /\ Others(t) /\ SlotType /\ lock \in LockType
           /\ coord \in [Tx -> CoordPc] /\ part \in [Tx -> PartPc]
           /\ Coord(t) \in Cluster /\ Part(t) \in Cluster /\ Coord(t) \in Involved(t) /\ Part(t) \in Involved(t)
           /\ Intra(t) => part[t] = "idle" /\ coord[t] \in {"idle", "locks", "prepare"}
           /\ \A c : At(c, t)' = IF c = Coord(t) THEN coord'[t] ELSE IF c = Part(t) THEN part'[t] ELSE "idle"
<1>1. SlotType /\ PcType /\ CountType /\ MoneyType
  BY TypeParts DEF CallInv, CrossInv
<1>2. Others(t)
  BY <1>1, OthersStay
<1>3. lock \in LockType /\ coord \in [Tx -> CoordPc] /\ part \in [Tx -> PartPc]
  BY <1>1 DEF MoneyType, PcType
<1>4. Intra(t) => part[t] = "idle" /\ coord[t] \in {"idle", "locks", "prepare"}
  BY DEF CallInv, OnceInv, Local
<1>5. \A c : At(c, t)' = IF c = Coord(t) THEN coord'[t] ELSE IF c = Part(t) THEN part'[t] ELSE "idle"
  BY DEF At, Coord, Part
<1> QED
  BY <1>1, <1>2, <1>3, <1>4, <1>5, Clusters DEF Involved

\* Steps in which no run of a cluster takes part.
LEMMA QuietKinds ==
    ASSUME CallInv, NEW t \in Tx,
           \/ ExecuteTransaction(t) \/ Refuse(t) \/ PCPrepare(t)
           \/ WaitForPCCommit(t) /\ t \in told
    PROVE  NoRun
<1>1. StepOf(t)
  BY DEF StepOf, CoordinatorStep, ParticipantStep
<1>2. Others(t) /\ coord \in [Tx -> CoordPc] /\ part \in [Tx -> PartPc]
  BY <1>1, BeforeStep
<1>3. UNCHANGED <<seq, slot, store, lock>>
  BY DEF ExecuteTransaction, Refuse, PCPrepare, WaitForPCCommit, ledger
<1>4. /\ coord'[t] = coord[t] \/ (coord[t] \notin Running /\ coord'[t] \notin Running)
      /\ part'[t] = part[t] \/ (part[t] \notin Running /\ part'[t] \notin Running)
  BY <1>2 DEF ExecuteTransaction, Refuse, PCPrepare, WaitForPCCommit, Running
<1> QED
  BY <1>2, <1>3, <1>4, NoRunBy

\* A first run starts.
LEMMA FirstKinds ==
    ASSUME CallInv, Begins, NEW t \in Tx, Prepare(t) \/ PartPrepare(t)
    PROVE  \E c \in Involved(t) : Starts(c, t)
<1>1. StepOf(t)
  BY DEF StepOf, CoordinatorStep, ParticipantStep
<1>2. /\ Others(t) /\ SlotType /\ lock \in LockType /\ coord \in [Tx -> CoordPc] /\ part \in [Tx -> PartPc]
      /\ Coord(t) \in Cluster /\ Part(t) \in Cluster /\ Coord(t) \in Involved(t) /\ Part(t) \in Involved(t)
      /\ Intra(t) => part[t] = "idle"
      /\ \A c : At(c, t)' = IF c = Coord(t) THEN coord'[t] ELSE IF c = Part(t) THEN part'[t] ELSE "idle"
  BY <1>1, BeforeStep
<1>3. ASSUME NEW c \in Cluster, TakeSlot(c, t, 0), Free(c, t), CanPay(c, t), lock' = Locked(c, t), store' = store,
             At(c, t) \notin Running, At(c, t)' = "prepare",
             \/ c = Coord(t) /\ part'[t] = part[t]
             \/ c # Coord(t) /\ c = Part(t) /\ coord'[t] = coord[t]
      PROVE  Starts(c, t)
  <2>1. /\ seq[c] \in Slot /\ slot'[c][t] = seq[c] /\ seq'[c] = seq[c] + 1
        /\ \A e \in Cluster : e # c => seq'[e] = seq[e]
        /\ \A e \in Cluster, u \in Tx : e # c \/ u # t => slot'[e][u] = slot[e][u]
    BY <1>2, <1>3, TakesNext
  <2>2. \A e \in Cluster : e # c => lock'[e] = lock[e]
    BY <1>2, <1>3, LocksElsewhere DEF Locked
  <2>3. Elsewhere(c, t)
    BY <1>2, <1>3, <2>1, <2>2, OneCluster
  <2>4. ~Active(c, t) /\ Active(c, t)' /\ First(c, t)'
    BY <1>3 DEF Active, First, Running
  <2> QED
    BY <1>3, <2>1, <2>3, <2>4 DEF Starts
<1>4. CASE Prepare(t)
  <2>1. PICK c \in Cluster : c = Coord(t)
    BY <1>2
  <2>2. slot[c][t] = 0 /\ coord[t] = "locks"
    BY <1>4, <2>1 DEF Prepare, Begins
  <2>3. TakeSlot(c, t, 0) /\ Free(c, t) /\ CanPay(c, t) /\ lock' = Locked(c, t) /\ store' = store
    BY <1>4, <2>1, <2>2 DEF Prepare, StartMoving, ledger
  <2>4. coord'[t] = "prepare" /\ part' = part
    BY <1>2, <1>4 DEF Prepare
  <2>5. At(c, t) \notin Running /\ At(c, t)' = "prepare"
    BY <1>2, <2>1, <2>2, <2>4 DEF At, Running
  <2> QED
    BY <1>2, <1>3, <2>1, <2>3, <2>4, <2>5
<1>5. CASE PartPrepare(t)
  <2>1. PICK c \in Cluster : c = Part(t)
    BY <1>2
  <2>2. part[t] = "locks" /\ part'[t] = "prepare" /\ coord' = coord
    BY <1>2, <1>5 DEF PartPrepare
  <2>3. c # Coord(t)
    BY <1>2, <2>1, <2>2 DEF Intra
  <2>4. TakeSlot(c, t, 0) /\ Free(c, t) /\ CanPay(c, t) /\ lock' = Locked(c, t) /\ store' = store
    BY <1>5, <2>1 DEF PartPrepare, StartMoving, ledger
  <2>5. At(c, t) \notin Running /\ At(c, t)' = "prepare"
    BY <1>2, <2>1, <2>2, <2>3 DEF At, Running
  <2> QED
    BY <1>2, <1>3, <2>1, <2>2, <2>3, <2>4, <2>5
<1> QED
  BY <1>4, <1>5

\* The run of an outcome starts.
LEMMA OutcomeKinds ==
    ASSUME CallInv, CalledOnce, NEW t \in Tx,
           \/ StartCommit(t) \/ StartAbort(t) \/ PCPrepareLost(t) \/ PCCommit(t)
           \/ WaitForPCCommit(t) /\ t \notin told
    PROVE  \E c \in Involved(t) : Starts(c, t)
<1>1. StepOf(t)
  BY DEF StepOf, CoordinatorStep, ParticipantStep, Fault
<1>2. /\ Others(t) /\ SlotType /\ lock \in LockType /\ coord \in [Tx -> CoordPc] /\ part \in [Tx -> PartPc]
      /\ Coord(t) \in Cluster /\ Part(t) \in Cluster /\ Coord(t) \in Involved(t) /\ Part(t) \in Involved(t)
      /\ Intra(t) => part[t] = "idle" /\ coord[t] \in {"idle", "locks", "prepare"}
      /\ \A c : At(c, t)' = IF c = Coord(t) THEN coord'[t] ELSE IF c = Part(t) THEN part'[t] ELSE "idle"
  BY <1>1, BeforeStep
<1>3. ASSUME NEW c \in Cluster, TakeSlot(c, t, 0), lock' = lock, store' = store,
             At(c, t) \notin Running, At(c, t)' \in {"commit", "abort"},
             \/ c = Coord(t) /\ part'[t] = part[t]
             \/ c # Coord(t) /\ c = Part(t)
                /\ (coord'[t] = coord[t] \/ (coord[t] \notin Running /\ coord'[t] \notin Running))
      PROVE  Starts(c, t)
  <2>1. /\ seq[c] \in Slot /\ slot'[c][t] = seq[c] /\ seq'[c] = seq[c] + 1
        /\ \A e \in Cluster : e # c => seq'[e] = seq[e]
        /\ \A e \in Cluster, u \in Tx : e # c \/ u # t => slot'[e][u] = slot[e][u]
    BY <1>2, <1>3, TakesNext
  <2>2. Elsewhere(c, t)
    BY <1>2, <1>3, <2>1, OneCluster
  <2>3. ~Active(c, t) /\ Active(c, t)' /\ ~First(c, t)'
    BY <1>3 DEF Active, First, Running
  <2> QED
    BY <1>3, <2>1, <2>2, <2>3 DEF Starts
<1>4. CASE StartCommit(t) \/ StartAbort(t) \/ PCPrepareLost(t)
  <2>1. PICK c \in Cluster : c = Coord(t)
    BY <1>2
  <2>2. TakeSlot(c, t, 0) /\ lock' = lock /\ store' = store /\ part' = part
    BY <1>4, <2>1 DEF StartCommit, StartAbort, PCPrepareLost, StartOutcome, ledger
  <2>3. coord[t] \in {"ask", "wait"} /\ coord'[t] \in {"commit", "abort"}
    BY <1>2, <1>4 DEF StartCommit, StartAbort, PCPrepareLost
  <2>4. At(c, t) \notin Running /\ At(c, t)' \in {"commit", "abort"}
    BY <1>2, <2>1, <2>3 DEF At, Running
  <2> QED
    BY <1>2, <1>3, <2>1, <2>2, <2>4
<1>5. CASE PCCommit(t) \/ (WaitForPCCommit(t) /\ t \notin told)
  <2>1. PICK c \in Cluster : c = Part(t)
    BY <1>2
  <2>2. TakeSlot(c, t, 0) /\ lock' = lock /\ store' = store
    BY <1>5, <2>1 DEF PCCommit, WaitForPCCommit, StartOutcome, ledger
  <2>3. ~Intra(t)
    BY <1>2, <1>5 DEF PCCommit, WaitForPCCommit
  <2>4. Single(t)
    BY <2>3 DEF CallInv, OnceInv, CalledOnce
  <2>5. /\ part[t] \notin Running /\ part'[t] \in {"commit", "abort"}
        /\ coord'[t] = coord[t] \/ (coord[t] \notin Running /\ coord'[t] \notin Running)
    <3>1. CASE PCCommit(t)
      <4>1. coord[t] = "tell" /\ coord'[t] = "telling" /\ part'[t] = "commit"
        BY <1>2, <3>1 DEF PCCommit
      <4>2. part[t] \notin Running
        BY <2>4, <4>1 DEF Single, Stages, Running
      <4> QED
        BY <4>1, <4>2 DEF Running
    <3>2. CASE WaitForPCCommit(t) /\ t \notin told
      BY <1>2, <3>2 DEF WaitForPCCommit, Running
    <3> QED
      BY <1>5, <3>1, <3>2
  <2>6. At(c, t) \notin Running /\ At(c, t)' \in {"commit", "abort"} /\ c # Coord(t)
    BY <1>2, <2>1, <2>3, <2>5 DEF At, Intra
  <2> QED
    BY <1>2, <1>3, <2>1, <2>2, <2>5, <2>6
<1> QED
  BY <1>4, <1>5

\* A run ends with its decision.
LEMMA EndKinds ==
    ASSUME CallInv, CalledOnce, Begins, ToldOnce, NEW t \in Tx,
           \/ PrepareDone(t) \/ CommitDone(t) \/ AbortDone(t)
           \/ PartPrepareDone(t) \/ PartAbortDone(t) \/ PCCommitDone(t)
    PROVE  \E c \in Involved(t), st \in Status : Ends(c, t, st)
<1>1. StepOf(t)
  BY DEF StepOf, CoordinatorStep, ParticipantStep
<1>2. /\ Others(t) /\ SlotType /\ lock \in LockType /\ coord \in [Tx -> CoordPc] /\ part \in [Tx -> PartPc]
      /\ Coord(t) \in Cluster /\ Part(t) \in Cluster /\ Coord(t) \in Involved(t) /\ Part(t) \in Involved(t)
      /\ Intra(t) => part[t] = "idle" /\ coord[t] \in {"idle", "locks", "prepare"}
      /\ \A c : At(c, t)' = IF c = Coord(t) THEN coord'[t] ELSE IF c = Part(t) THEN part'[t] ELSE "idle"
  BY <1>1, BeforeStep
<1>3. ASSUME NEW c \in Cluster, NEW st \in Status, c \in Involved(t),
             store' = [store EXCEPT ![c][slot[c][t]] = [tx |-> t, status |-> st]],
             UNCHANGED <<seq, slot, lock>>,
             At(c, t) \in Running, At(c, t)' \notin Running,
             \/ c = Coord(t) /\ part'[t] = part[t]
             \/ c # Coord(t) /\ c = Part(t)
                /\ (coord'[t] = coord[t] \/ (coord[t] \notin Running /\ coord'[t] \notin Running)),
             st \in {"P", "A"} => ~Intra(t) /\ st \notin Decisions(c, t),
             \/ At(c, t) = "prepare" /\ st \in {"", "P"} /\ Decisions(c, t) = {}
             \/ At(c, t) # "prepare" /\ st \in {"C", "A"} /\ Decisions(c, t) = {"P"}
             \/ At(c, t) # "prepare" /\ st = "A" /\ Decisions(c, t) = {} /\ c = Part(t) /\ answer[t] = "error"
      PROVE  Ends(c, t, st)
  <2>1. Active(c, t) /\ ~Active(c, t)'
    BY <1>3 DEF Active
  <2>2. slot[c][t] \in Slot /\ store[c][slot[c][t]].tx = NoTx
    BY <1>3, <2>1, ActiveEmpty
  <2>3. Written(c, t, [tx |-> t, status |-> st])
    BY <1>3, <2>2 DEF Written
  <2>4. Fresh(c, t, st)
    BY <1>3, <2>2, <2>3 DEF Fresh
  <2>5. \A e \in Cluster : e # c => store'[e] = store[e]
    BY <1>2, <2>3, WritesThere
  <2>6. Elsewhere(c, t)
    BY <1>2, <1>3, <2>5, OneCluster
  <2> QED
    BY <1>3, <2>1, <2>4, <2>6 DEF Ends, First
<1>4. {"", "P", "C", "A"} \subseteq Status
  BY DEF Status
<1>5. CASE PrepareDone(t)
  <2>1. PICK c \in Cluster : c = Coord(t)
    BY <1>2
  <2>2. PICK st \in {"", "P"} : st = RunOf(t) /\ (st = "P" => ~Intra(t))
    BY <1>5 DEF PrepareDone, RunOf
  <2>3. store' = [store EXCEPT ![c][slot[c][t]] = [tx |-> t, status |-> st]] /\ UNCHANGED <<seq, slot, lock, part>>
    BY <1>5, <2>1, <2>2 DEF PrepareDone, Decide
  <2>4. coord[t] = "prepare" /\ coord'[t] \in {"idle", "ask"}
    BY <1>2, <1>5 DEF PrepareDone
  <2>5. At(c, t) = "prepare" /\ At(c, t) \in Running /\ At(c, t)' \notin Running
    BY <1>2, <2>1, <2>4 DEF At, Running
  <2>6. Decisions(c, t) = {}
    BY <2>1, <2>4 DEF Begins
  <2> QED
    BY <1>2, <1>3, <1>4, <2>1, <2>2, <2>3, <2>5, <2>6
<1>6. CASE CommitDone(t) \/ AbortDone(t)
  <2>1. PICK c \in Cluster : c = Coord(t)
    BY <1>2
  <2>2. PICK st \in {"C", "A"} : store' = [store EXCEPT ![c][slot[c][t]] = [tx |-> t, status |-> st]]
    BY <1>6, <2>1 DEF CommitDone, AbortDone, Decide
  <2>3. /\ UNCHANGED <<seq, slot, lock, part>>
        /\ coord[t] \in {"commit", "abort"} /\ coord'[t] \in {"idle", "tell"}
    BY <1>2, <1>6 DEF CommitDone, AbortDone
  <2>4. ~Intra(t)
    BY <1>2, <2>3
  <2>5. Decisions(c, t) = {"P"}
    BY <2>1, <2>3, <2>4 DEF CallInv, OnceInv, CalledOnce, Single, Stages
  <2>6. At(c, t) # "prepare" /\ At(c, t) \in Running /\ At(c, t)' \notin Running
    BY <1>2, <2>1, <2>3 DEF At, Running
  <2>7. st \notin Decisions(c, t)
    BY <2>5
  <2> QED
    BY <1>2, <1>3, <1>4, <2>1, <2>2, <2>3, <2>4, <2>5, <2>6, <2>7
<1>7. CASE PartPrepareDone(t) \/ PartAbortDone(t) \/ PCCommitDone(t)
  <2>1. PICK c \in Cluster : c = Part(t)
    BY <1>2
  <2>2. ~Intra(t)
    BY <1>2, <1>7 DEF PartPrepareDone, PartAbortDone, PCCommitDone
  <2>3. c # Coord(t)
    BY <2>1, <2>2 DEF Intra
  <2>4. PICK ps : ps = Decisions(c, t)
    OBVIOUS
  <2>5. /\ Stages(calls[t], coord[t], part[t], answer[t], Decisions(Coord(t), t), ps)
    BY <2>1, <2>2, <2>4 DEF CallInv, OnceInv, CalledOnce, Single
  <2>6. /\ UNCHANGED <<seq, slot, lock>> /\ part[t] \in Running /\ part'[t] \notin Running
        /\ coord'[t] = coord[t] \/ (coord[t] \notin Running /\ coord'[t] \notin Running)
    <3>1. CASE PartPrepareDone(t) \/ PartAbortDone(t)
      BY <1>2, <3>1 DEF PartPrepareDone, PartAbortDone, Running
    <3>2. CASE PCCommitDone(t)
      <4>1. part[t] = "commit" /\ part'[t] = "end" /\ coord'[t] = "idle" /\ UNCHANGED <<seq, slot, lock>>
        BY <1>2, <3>2 DEF PCCommitDone
      <4>2. coord[t] = "telling"
        BY <2>5, <4>1 DEF Stages
      <4> QED
        BY <4>1, <4>2 DEF Running
    <3> QED
      BY <1>7, <3>1, <3>2
  <2>7. At(c, t) = part[t] /\ At(c, t)' = part'[t]
    BY <1>2, <2>1, <2>3 DEF At
  <2>8. CASE PartPrepareDone(t)
    <3>1. part[t] = "prepare" /\ store' = [store EXCEPT ![c][slot[c][t]] = [tx |-> t, status |-> "P"]]
      BY <2>1, <2>8 DEF PartPrepareDone, Decide
    <3>2. ps = {}
      BY <2>5, <3>1 DEF Stages
    <3> QED
      BY <1>2, <1>3, <1>4, <2>1, <2>2, <2>3, <2>4, <2>6, <2>7, <3>1, <3>2
  <2>9. CASE PartAbortDone(t)
    <3>1. part[t] = "abort" /\ store' = [store EXCEPT ![c][slot[c][t]] = [tx |-> t, status |-> "A"]]
      BY <2>1, <2>9 DEF PartAbortDone, Decide
    <3>2. ps = {} /\ answer[t] = "error"
      BY <2>5, <3>1 DEF Stages, CallInv, CrossInv, PreparedInv, SlotsInv, PcType
    <3> QED
      BY <1>2, <1>3, <1>4, <2>1, <2>2, <2>3, <2>4, <2>6, <2>7, <3>1, <3>2
  <2>10. CASE PCCommitDone(t)
    <3>1. part[t] = "commit" /\ store' = [store EXCEPT ![c][slot[c][t]] = [tx |-> t, status |-> "C"]]
      BY <2>1, <2>10 DEF PCCommitDone, Decide
    <3>2. coord[t] = "telling" /\ "C" \notin ps
      BY <2>1, <2>2, <2>4, <2>5, <3>1 DEF Stages, ToldOnce
    <3>3. ps = {"P"}
      BY <2>5, <3>1, <3>2 DEF Stages
    <3> QED
      BY <1>2, <1>3, <1>4, <2>1, <2>2, <2>3, <2>4, <2>6, <2>7, <3>1, <3>3
  <2> QED
    BY <1>7, <2>8, <2>9, <2>10
<1> QED
  BY <1>5, <1>6, <1>7

\* A run fails.
LEMMA FailKinds ==
    ASSUME CallInv, CalledOnce, Begins, NEW t \in Tx,
           RunFailed(t) \/ PartPrepareFailed(t) \/ PartAbortFailed(t) \/ PCCommitFailed(t)
    PROVE  /\ \E c \in Involved(t) : Fails(c, t)
           /\ PartPrepareFailed(t) => Fails(Part(t), t)
<1>1. StepOf(t)
  BY DEF StepOf, CoordinatorStep, ParticipantStep, Fault
<1>2. /\ Others(t) /\ SlotType /\ lock \in LockType /\ coord \in [Tx -> CoordPc] /\ part \in [Tx -> PartPc]
      /\ Coord(t) \in Cluster /\ Part(t) \in Cluster /\ Coord(t) \in Involved(t) /\ Part(t) \in Involved(t)
      /\ Intra(t) => part[t] = "idle" /\ coord[t] \in {"idle", "locks", "prepare"}
      /\ \A c : At(c, t)' = IF c = Coord(t) THEN coord'[t] ELSE IF c = Part(t) THEN part'[t] ELSE "idle"
  BY <1>1, BeforeStep
<1>3. ASSUME NEW c \in Cluster, c \in Involved(t),
             UNCHANGED <<seq, slot, store>>, lock' = Released(c, t),
             At(c, t) \in Running, At(c, t)' \notin Running,
             \/ c = Coord(t) /\ part'[t] = part[t]
             \/ c # Coord(t) /\ c = Part(t)
                /\ (coord'[t] = coord[t] \/ (coord[t] \notin Running /\ coord'[t] \notin Running))
      PROVE  Fails(c, t)
  <2>1. Active(c, t) /\ ~Active(c, t)'
    BY <1>3 DEF Active
  <2>2. slot[c][t] \in Slot /\ store[c][slot[c][t]].tx = NoTx
    BY <1>3, <2>1, ActiveEmpty
  <2>3. \A e \in Cluster : e # c => lock'[e] = lock[e]
    BY <1>2, <1>3, LocksElsewhere DEF Released
  <2>4. Elsewhere(c, t)
    BY <1>2, <1>3, <2>3, OneCluster
  <2> QED
    BY <1>3, <2>1, <2>2, <2>4 DEF Fails
<1>4. CASE RunFailed(t)
  <2>1. PICK c \in Cluster : c = Coord(t)
    BY <1>2
  <2>2. /\ UNCHANGED <<seq, slot, store, part>> /\ lock' = Released(c, t)
        /\ coord[t] \in {"prepare", "commit", "abort"} /\ coord'[t] = "idle"
    BY <1>2, <1>4, <2>1 DEF RunFailed, Fail, ledger
  <2>3. At(c, t) \in Running /\ At(c, t)' \notin Running
    BY <1>2, <2>1, <2>2 DEF At, Running
  <2>4. ~PartPrepareFailed(t)
    BY <1>2, <2>2 DEF PartPrepareFailed
  <2> QED
    BY <1>2, <1>3, <2>1, <2>2, <2>3, <2>4
<1>5. CASE PartPrepareFailed(t) \/ PartAbortFailed(t) \/ PCCommitFailed(t)
  <2>1. PICK c \in Cluster : c = Part(t)
    BY <1>2
  <2>2. ~Intra(t)
    BY <1>2, <1>5 DEF PartPrepareFailed, PartAbortFailed, PCCommitFailed
  <2>3. c # Coord(t)
    BY <2>1, <2>2 DEF Intra
  <2>4. Single(t)
    BY <2>2 DEF CallInv, OnceInv, CalledOnce
  <2>5. /\ UNCHANGED <<seq, slot, store>> /\ lock' = Released(c, t)
        /\ part[t] \in Running /\ part'[t] \notin Running
        /\ coord'[t] = coord[t] \/ (coord[t] \notin Running /\ coord'[t] \notin Running)
    <3>1. CASE PartPrepareFailed(t) \/ PartAbortFailed(t)
      BY <1>2, <2>1, <3>1 DEF PartPrepareFailed, PartAbortFailed, Fail, ledger, Running
    <3>2. CASE PCCommitFailed(t)
      <4>1. /\ part[t] = "commit" /\ part'[t] = "prepared" /\ coord'[t] = "tell"
            /\ UNCHANGED <<seq, slot, store>> /\ lock' = Released(c, t)
        BY <1>2, <2>1, <3>2 DEF PCCommitFailed, Fail, ledger
      <4>2. coord[t] = "telling"
        BY <2>4, <4>1 DEF Single, Stages
      <4> QED
        BY <4>1, <4>2 DEF Running
    <3> QED
      BY <1>5, <3>1, <3>2
  <2>6. At(c, t) = part[t] /\ At(c, t)' = part'[t]
    BY <1>2, <2>1, <2>3 DEF At
  <2> QED
    BY <1>2, <1>3, <2>1, <2>3, <2>5, <2>6
<1> QED
  BY <1>4, <1>5

\* Every step of t is of one of the kinds, and an error of PCPrepare comes of a run that fails.
LEMMA RunKinds ==
    ASSUME CallInv, CalledOnce, Begins, ToldOnce, NEW t \in Tx, StepOf(t), ~PCCommitUnheard(t)
    PROVE  /\ \/ NoRun
              \/ \E c \in Involved(t) : Starts(c, t) \/ Fails(c, t) \/ \E st \in Status : Ends(c, t, st)
           /\ answer'[t] = "error" /\ answer[t] # "error" => Fails(Part(t), t)
<1>1. \/ NoRun
      \/ \E c \in Involved(t) : Starts(c, t) \/ Fails(c, t) \/ \E st \in Status : Ends(c, t, st)
  BY QuietKinds, FirstKinds, OutcomeKinds, EndKinds, FailKinds
     DEF StepOf, CoordinatorStep, ParticipantStep, Fault
<1>2. answer'[t] = "error" /\ answer[t] # "error" => PartPrepareFailed(t)
  <2>1. answer \in [Tx -> {"none", "ok", "error"}]
    BY DEF CallInv, CrossInv, PreparedInv, SlotsInv, PcType
  <2>2. CASE PCPrepare(t) \/ PartPrepareDone(t)
    BY <2>1, <2>2 DEF PCPrepare, PartPrepareDone
  <2>3. CASE ~(PCPrepare(t) \/ PartPrepareDone(t))
    BY <2>3 DEF StepOf, CoordinatorStep, ParticipantStep, Fault, ExecuteTransaction, Refuse, Prepare, PrepareDone,
       RunFailed, StartCommit, StartAbort, PCPrepareLost, CommitDone, AbortDone, PartPrepare,
       WaitForPCCommit, PartAbortDone, PartAbortFailed, PCCommit, PCCommitDone, PCCommitFailed, PCCommitUnheard
  <2> QED
    BY <2>2, <2>3
<1> QED
  BY <1>1, <1>2, FailKinds

\* The last slot of t is the last one that has an entry of t.
Latest == \A c \in Cluster, t \in Tx, s \in Slot : store[c][s].tx = t => s <= slot[c][t]

\* Of two entries of a payment the first is its prepare and the second its outcome.
Entries ==
    \A c \in Cluster, t \in Tx : \A r, s \in Slot :
        store[c][r].tx = t /\ store[c][s].tx = t /\ r < s =>
            store[c][r].status = "P" /\ store[c][s].status \in {"C", "A"}

\* An empty slot that no run will fill: the executor stops there.
Dead(c, s) ==
    /\ s < seq[c] /\ store[c][s].tx = NoTx
    /\ \A t \in Tx : ~(Active(c, t) /\ slot[c][t] = s)

Healthy(c) == \A s \in Slot : ~Dead(c, s)

\* A participant that answers with an error has a dead slot.
ErrorsDead == \A t \in Tx : ~Intra(t) /\ answer[t] = "error" => ~Healthy(Part(t))

LEMMA EndStore ==
    ASSUME SlotType, NEW c \in Cluster, NEW t \in Tx, NEW st \in Status, Ends(c, t, st)
    PROVE  /\ slot[c][t] \in Slot /\ store[c][slot[c][t]].tx = NoTx
           /\ store'[c][slot[c][t]] = [tx |-> t, status |-> st]
           /\ \A d \in Cluster, s \in Slot : d # c \/ s # slot[c][t] => store'[d][s] = store[d][s]
<1> DEFINE w == slot[c][t]
           e == [tx |-> t, status |-> st]
<1>1. w \in Slot /\ store' = [store EXCEPT ![c][w] = e] /\ store[c][w].tx = NoTx
  BY DEF Ends, Fresh, Written
<1> HIDE DEF e
<1>2. /\ store'[c][w] = e
      /\ \A d \in Cluster, s \in Slot : d # c \/ s # w => store'[d][s] = store[d][s]
  BY <1>1 DEF SlotType
<1> QED
  BY <1>1, <1>2 DEF e

LEMMA DeadStays ==
    ASSUME SlotsInv, NEW c \in Cluster, NEW t \in Tx,
           Starts(c, t) \/ Fails(c, t) \/ \E st \in Status : Ends(c, t, st)
    PROVE  /\ \A d \in Cluster, r \in Slot : Dead(d, r) => Dead(d, r)'
           /\ Fails(c, t) => ~Healthy(c)'
           /\ \A d \in Cluster : Healthy(d)' => Healthy(d)
<1>1. SlotType /\ SlotsApart /\ \A d \in Cluster : seq[d] \in Nat
  BY CrossShardAssumption DEF SlotsInv, SlotType
<1>2. Elsewhere(c, t)
  BY DEF Starts, Ends, Fails
<1>3. ASSUME NEW d \in Cluster, NEW r \in Slot, Dead(d, r) PROVE Dead(d, r)'
  <2>1. r \in Nat /\ r < seq[d] /\ store[d][r].tx = NoTx /\ seq[d] \in Nat
    BY <1>1, <1>3 DEF Dead, Slot
  <2>2. \A u \in Tx : ~(Active(d, u) /\ slot[d][u] = r)
    BY <1>3 DEF Dead
  <2>3. \A u \in Tx : d # c \/ u # t => ~(Active(d, u)' /\ slot'[d][u] = r)
    BY <1>2, <2>2 DEF Elsewhere
  <2>4. CASE d # c
    <3>1. seq'[d] = seq[d] /\ store'[d] = store[d]
      BY <1>2, <2>4 DEF Elsewhere
    <3> QED
      BY <2>1, <2>3, <2>4, <3>1 DEF Dead
  <2>5. CASE d = c
    <3>1. CASE Starts(c, t)
      <4>1. slot'[c][t] = seq[c] /\ seq'[c] = seq[c] + 1 /\ store'[c] = store[c]
        BY <3>1 DEF Starts
      <4>2. slot'[c][t] # r /\ r < seq'[c]
        BY <2>1, <2>5, <4>1
      <4>3. \A u \in Tx : ~(Active(d, u)' /\ slot'[d][u] = r)
        BY <2>3, <2>5, <4>2
      <4> QED
        BY <2>1, <2>5, <4>1, <4>2, <4>3 DEF Dead
    <3>2. CASE Fails(c, t)
      <4>1. ~Active(c, t)' /\ seq'[c] = seq[c] /\ store'[c] = store[c]
        BY <3>2 DEF Fails
      <4>2. \A u \in Tx : ~(Active(d, u)' /\ slot'[d][u] = r)
        BY <2>3, <2>5, <4>1
      <4> QED
        BY <2>1, <2>5, <4>1, <4>2 DEF Dead
    <3>3. ASSUME NEW st \in Status, Ends(c, t, st) PROVE Dead(d, r)'
      <4>1. ~Active(c, t)' /\ seq'[c] = seq[c] /\ Active(c, t)
        BY <3>3 DEF Ends
      <4>2. \A u \in Tx : ~(Active(d, u)' /\ slot'[d][u] = r)
        BY <2>3, <2>5, <4>1
      <4>3. r # slot[c][t]
        BY <2>2, <2>5, <4>1
      <4>4. \A e \in Cluster, q \in Slot : e # c \/ q # slot[c][t] => store'[e][q] = store[e][q]
        BY <1>1, <3>3, EndStore
      <4>5. store'[d][r] = store[d][r]
        BY <2>5, <4>3, <4>4
      <4>6. seq'[d] = seq[d]
        BY <2>5, <4>1
      <4>7. r < seq'[d] /\ store'[d][r].tx = NoTx
        BY <2>1, <4>5, <4>6
      <4> QED
        BY <4>2, <4>7 DEF Dead
    <3> QED
      BY <3>1, <3>2, <3>3
  <2> QED
    BY <2>4, <2>5
<1>4. ASSUME Fails(c, t), NEW w \in Slot, w = slot[c][t] PROVE Dead(c, w)'
  <2>1. /\ ~Active(c, t)' /\ seq'[c] = seq[c] /\ slot'[c][t] = w /\ store'[c] = store[c]
        /\ store[c][w].tx = NoTx
    BY <1>4 DEF Fails
  <2>2. w < seq[c]
    BY <1>1, <1>4 DEF SlotsApart
  <2>3. ASSUME NEW u \in Tx, u # t PROVE slot'[c][u] # w
    <3>1. slot'[c][u] = slot[c][u]
      BY <1>2, <2>3 DEF Elsewhere
    <3>2. slot[c][t] = 0 \/ slot[c][t] # slot[c][u]
      BY <1>1, <2>3 DEF SlotsApart
    <3> QED
      BY <1>4, <3>1, <3>2 DEF Slot
  <2> QED
    BY <2>1, <2>2, <2>3 DEF Dead
<1>5. ASSUME Fails(c, t) PROVE ~Healthy(c)'
  <2>1. PICK w \in Slot : w = slot[c][t]
    BY <1>5 DEF Fails
  <2> QED
    BY <1>4, <1>5, <2>1 DEF Healthy
<1> QED
  BY <1>3, <1>5 DEF Healthy

RunInv == Begins /\ ToldOnce /\ Latest /\ Entries /\ ErrorsDead

LEMMA InitRuns == Init => RunInv
<1> SUFFICES ASSUME Init PROVE RunInv
  OBVIOUS
<1>1. /\ \A t \in Tx : calls[t] = 0 /\ coord[t] = "idle" /\ answer[t] = "none"
      /\ \A c \in Cluster, t \in Tx : slot[c][t] = 0
      /\ \A c \in Cluster, s \in Slot : store[c][s] = NoEntry
  BY DEF Init
<1>2. Begins /\ ToldOnce
  BY <1>1, Clusters DEF Begins, ToldOnce
<1>3. \A c \in Cluster, s \in Slot : store[c][s].tx \notin Tx
  <2>1. NoEntry.tx \notin Tx
    BY CrossShardAssumption DEF NoEntry
  <2> QED
    BY <1>1, <2>1
<1> QED
  BY <1>1, <1>2, <1>3 DEF RunInv, Latest, Entries, ErrorsDead

LEMMA ToldStep ==
    ASSUME CallInv, CalledOnce, ToldOnce, NEW t \in Tx, StepOf(t), ~PCCommitUnheard(t)
    PROVE  ToldOnce'
<1>1. PreparedInv /\ SlotsInv /\ PcType /\ CountType /\ OnceInv
  BY TypeParts DEF CallInv, CrossInv, PreparedInv
<1>2. Others(t) /\ coord \in [Tx -> CoordPc]
  BY <1>1, OthersStay DEF PcType
<1> SUFFICES ASSUME NEW u \in Tx, ~Intra(u), NEW p \in Cluster, p = Part(u), coord'[u] \in {"tell", "telling"}
             PROVE  "C" \notin Decisions(p, u)'
  <2>1. \A u \in Tx : Intra(u)' = Intra(u) /\ Part(u)' = Part(u) /\ Part(u) \in Cluster
    BY Clusters DEF Intra, Coord, Part
  <2>2. \A u \in Tx : \A p \in Cluster : p = Part(u) => Decisions(Part(u), u)' = Decisions(p, u)'
    BY <2>1
  <2> QED
    BY <2>1, <2>2 DEF ToldOnce
<1>3. PICK c \in Cluster : c = Coord(u) /\ c # p
  BY Clusters DEF Intra
<1>4. PICK cs, ps : cs = Decisions(c, u) /\ ps = Decisions(p, u)
  OBVIOUS
<1>5. coord[u] \in {"tell", "telling"} => "C" \notin ps
  BY <1>4 DEF ToldOnce
<1>6. CASE u # t
  <2>1. coord'[u] = coord[u]
    BY <1>2, <1>6 DEF Others
  <2>2. Decisions(p, u)' = ps
    <3>1. CASE store' = store
      BY <1>4, <3>1, DecisionsSame
    <3>2. ASSUME NEW d \in Involved(t), NEW st \in Status, Written(d, t, [tx |-> t, status |-> st])
          PROVE  Decisions(p, u)' = ps
      BY <1>1, <1>4, <1>6, <3>2, Clusters, DecisionsWritten DEF Involved
    <3> QED
      BY <1>1, <3>1, <3>2, StepWrites
  <2> QED
    BY <1>5, <2>1, <2>2
<1>7. CASE u = t
  <2>1. Stages(calls[t], coord[t], part[t], answer[t], cs, ps) /\ Single(t)
    BY <1>1, <1>3, <1>4, <1>7 DEF OnceInv, CalledOnce, Single
  <2>2. coord'[t] \in {"tell", "telling"}
    BY <1>7
  <2>3. CASE CommitDone(t)
    <3>1. "C" \notin ps
      BY <2>1, <2>3 DEF CommitDone, Stages
    <3>2. PICK st \in Status : Fresh(c, t, st)
      BY <1>3, <1>7, <2>1, <2>3, CoordinatorRecords
    <3>3. Decisions(p, t)' = ps
      BY <1>1, <1>3, <1>4, <1>7, <3>2, DecisionsWritten DEF Fresh
    <3> QED
      BY <1>7, <3>1, <3>3
  <2>4. CASE PCCommit(t) \/ PCCommitFailed(t)
    <3>1. coord[t] \in {"tell", "telling"} /\ store' = store
      BY <2>1, <2>4 DEF PCCommit, PCCommitFailed, Stages, ledger
    <3> QED
      BY <1>4, <1>5, <1>7, <3>1, DecisionsSame
  <2>5. CASE PartPrepareDone(t) \/ PartAbortDone(t)
    <3>1. coord' = coord /\ part[t] \in {"prepare", "abort"}
      BY <2>5 DEF PartPrepareDone, PartAbortDone
    <3> QED
      BY <2>1, <2>2, <3>1 DEF Stages
  <2>6. CASE PartPrepare(t) \/ PartPrepareFailed(t) \/ WaitForPCCommit(t) \/ PartAbortFailed(t)
    <3>1. coord' = coord /\ store' = store
      BY <2>6 DEF PartPrepare, PartPrepareFailed, WaitForPCCommit, PartAbortFailed, ledger
    <3> QED
      BY <1>4, <1>5, <1>7, <2>2, <3>1, DecisionsSame
  <2>7. CASE \/ ExecuteTransaction(t) \/ Refuse(t) \/ Prepare(t) \/ PrepareDone(t) \/ StartCommit(t)
             \/ StartAbort(t) \/ AbortDone(t) \/ RunFailed(t) \/ PCPrepareLost(t) \/ PCPrepare(t)
             \/ PCCommitDone(t)
    <3>1. coord'[t] \notin {"tell", "telling"}
      BY <1>2, <2>7 DEF ExecuteTransaction, Refuse, Prepare, PrepareDone, StartCommit, StartAbort, AbortDone,
         RunFailed, PCPrepareLost, PCPrepare, PCCommitDone
    <3> QED
      BY <2>2, <3>1
  <2> QED
    BY <2>3, <2>4, <2>5, <2>6, <2>7 DEF StepOf, CoordinatorStep, ParticipantStep, Fault
<1> QED
  BY <1>6, <1>7

LEMMA BeginsStep ==
    ASSUME CallInv, AllOnce, AllOnce', Begins, ToldOnce, Latest, NEW t \in Tx, StepOf(t),
           ~PCCommitUnheard(t)
    PROVE  Begins'
<1>1. Others(t) /\ \A u \in Tx \ {t} : calls'[u] = calls[u]
  BY OthersStay, TypeParts DEF CallInv, CrossInv
<1>2. CalledOnce /\ PreparedInv /\ SlotsInv /\ OnceInv
  BY DEF AllOnce, CalledOnce, CallInv, CrossInv, PreparedInv
<1>3. \/ NoRun
      \/ \E c \in Involved(t) : Starts(c, t) \/ Fails(c, t) \/ \E st \in Status : Ends(c, t, st)
  BY <1>2, RunKinds
<1>4. /\ \A d \in Cluster, u \in Tx : u # t => slot'[d][u] = slot[d][u]
      /\ \A d \in Cluster : slot'[d][t] = slot[d][t]
           \/ (d \in Involved(t) /\ Starts(d, t))
  <2>1. CASE NoRun
    BY <2>1 DEF NoRun
  <2>2. ASSUME NEW c \in Involved(t), Starts(c, t) \/ Fails(c, t) \/ \E st \in Status : Ends(c, t, st)
        PROVE  /\ \A d \in Cluster, u \in Tx : d # c \/ u # t => slot'[d][u] = slot[d][u]
               /\ Starts(c, t) \/ slot'[c][t] = slot[c][t]
    <3>1. Elsewhere(c, t) /\ (Starts(c, t) \/ slot'[c][t] = slot[c][t])
      BY <2>2 DEF Starts, Fails, Ends
    <3> QED
      BY <3>1 DEF Elsewhere
  <2> QED
    BY <1>3, <2>1, <2>2
<1>5. \A d \in Cluster, u \in Tx : u # t => Decisions(d, u)' = Decisions(d, u)
  <2>1. Intra(t) \/ calls[t] <= 1
    BY <1>2 DEF CalledOnce
  <2>2. CASE \A d \in Cluster, u \in Tx : Decisions(d, u)' = Decisions(d, u)
    BY <2>2
  <2>3. CASE \E c \in Involved(t), st \in Status :
               /\ Decisions(c, t)' = Decisions(c, t) \cup {st}
               /\ \A d \in Cluster, u \in Tx : d # c \/ u # t => Decisions(d, u)' = Decisions(d, u)
    BY <2>3
  <2> QED
    BY <1>2, <2>1, <2>2, <2>3, StepDecides
<1>6. ASSUME NEW u \in Tx, u # t
      PROVE  /\ calls'[u] = 0 => coord'[u] = "idle"
             /\ calls'[u] = 0 \/ coord'[u] = "locks" => slot'[Coord(u)][u] = 0
             /\ coord'[u] = "prepare" => Decisions(Coord(u), u)' = {}
  <2>1. PICK d \in Cluster : d = Coord(u) /\ d = Coord(u)'
    BY Clusters DEF Coord
  <2>2. Decisions(Coord(u), u)' = Decisions(d, u)'
    BY <2>1
  <2> QED
    BY <1>1, <1>4, <1>5, <1>6, <2>1, <2>2 DEF Begins, Others
<1>7. /\ calls'[t] = 0 => coord'[t] = "idle"
      /\ calls'[t] = 0 \/ coord'[t] = "locks" => slot'[Coord(t)][t] = 0
      /\ coord'[t] = "prepare" => Decisions(Coord(t), t)' = {}
  <2>1. PICK d \in Cluster : d = Coord(t) /\ d = Coord(t)'
    BY Clusters DEF Coord
  <2>2. Decisions(Coord(t), t)' = Decisions(d, t)' /\ Decisions(Coord(t), t) = Decisions(d, t)
    BY <2>1
  <2>3. /\ calls[t] = 0 => coord[t] = "idle"
        /\ calls[t] = 0 \/ coord[t] = "locks" => slot[d][t] = 0
        /\ coord[t] = "prepare" => Decisions(d, t) = {}
    BY <2>1 DEF Begins
  <2>4. calls \in [Tx -> Nat] /\ coord \in [Tx -> CoordPc]
    BY TypeParts, CrossShardAssumption DEF CallInv, CrossInv, CountType, PcType
  <2>5. CASE ExecuteTransaction(t)
    <3>1. calls'[t] = calls[t] + 1 /\ coord'[t] = "locks" /\ slot' = slot
      BY <2>4, <2>5 DEF ExecuteTransaction
    <3>2. calls[t] = 0 /\ calls'[t] # 0
      BY <2>4, <3>1 DEF AllOnce
    <3> QED
      BY <2>1, <2>3, <3>1, <3>2
  <2>6. CASE Prepare(t)
    <3>1. coord[t] = "locks" /\ coord'[t] = "prepare" /\ calls' = calls /\ store' = store
      BY <2>4, <2>6 DEF Prepare, client, ledger
    <3>2. slot[d][t] = 0 /\ calls'[t] # 0
      BY <2>3, <3>1
    <3>3. Decisions(d, t) = {}
      <4> SUFFICES ASSUME NEW st \in Status, Decided(d, t, st) PROVE FALSE
        BY DEF Decisions
      <4>1. PICK s \in Slot : store[d][s] = [tx |-> t, status |-> st]
        BY DEF Decided
      <4>2. s <= 0
        BY <3>2, <4>1 DEF Latest
      <4> QED
        BY <4>2 DEF Slot
    <3>4. Decisions(d, t)' = Decisions(d, t)
      BY <3>1, DecisionsSame
    <3> QED
      BY <2>2, <3>1, <3>2, <3>3, <3>4
  <2>7. CASE ParticipantStep(t) \/ PartPrepareFailed(t) \/ PartAbortFailed(t) \/ PCCommitFailed(t)
    <3>1. ~Intra(t)
      BY <1>2, <2>7 DEF OnceInv, Local, ParticipantStep, PCPrepare, PartPrepare, PartPrepareDone, PartPrepareFailed,
         WaitForPCCommit, PartAbortDone, PartAbortFailed, PCCommit, PCCommitDone, PCCommitFailed
    <3>2. /\ calls' = calls
          /\ coord' = coord \/ (coord[t] \notin {"idle", "locks", "prepare"} /\ coord'[t] \notin {"locks", "prepare"})
      <4>1. CASE part[t] = "commit"
        <5>1. coord[t] = "telling"
          BY <1>2, <3>1, <4>1 DEF OnceInv, Single, Stages, CalledOnce
        <5> QED
          BY <2>4, <2>7, <4>1, <5>1 DEF ParticipantStep, PCPrepare, PartPrepare, PartPrepareDone, PartPrepareFailed,
             WaitForPCCommit, PartAbortDone, PartAbortFailed, PCCommit,
             PCCommitDone, PCCommitFailed, client
      <4>2. CASE part[t] # "commit"
        BY <2>4, <2>7, <4>2 DEF ParticipantStep, PCPrepare, PartPrepare, PartPrepareDone, PartPrepareFailed,
           WaitForPCCommit, PartAbortDone, PartAbortFailed, PCCommit,
           PCCommitDone, PCCommitFailed, client
      <4> QED
        BY <4>1, <4>2
    <3>3. calls[t] = 0 => coord' = coord
      BY <2>3, <3>2
    <3>4. CASE coord'[t] = "prepare" \/ coord'[t] = "locks" \/ calls'[t] = 0
      <4>1. coord' = coord /\ coord[t] \in {"idle", "locks", "prepare"}
        BY <2>3, <3>2, <3>4
      <4>2. ~Active(d, t) \/ coord[t] = "prepare"
        BY <2>1, <4>1 DEF Active, At, Running
      <4>3. ~Starts(d, t)
        <5>1. Active(d, t)' <=> Active(d, t)
          BY <2>1, <4>1 DEF Active, At
        <5> QED
          BY <5>1 DEF Starts
      <4>4. slot'[d][t] = slot[d][t]
        BY <1>4, <4>3
      <4>5. coord[t] = "prepare" => Decisions(d, t)' = {}
        <5>1. CASE store' = store
          BY <2>3, <5>1, DecisionsSame
        <5>2. CASE PartPrepareDone(t) \/ PartAbortDone(t) \/ PCCommitDone(t)
          <6>1. PICK p \in Cluster : p = Part(t) /\ p # d
            BY <2>1, <3>1, Clusters DEF Intra
          <6>2. store' # store => store'[d] = store[d]
            BY <1>2, <5>2, <6>1 DEF PartPrepareDone, PartAbortDone, PCCommitDone, Decide, SlotsInv, SlotType
          <6>3. \A st \in Status : Decided(d, t, st)' <=> Decided(d, t, st)
            BY <6>2 DEF Decided
          <6> QED
            BY <2>3, <6>3 DEF Decisions
        <5> QED
          BY <2>7, <5>1, <5>2 DEF ParticipantStep, PCPrepare, PartPrepare, PartPrepareFailed,
             WaitForPCCommit, PartAbortFailed, PCCommit, PCCommitFailed, ledger
      <4> QED
        BY <2>1, <2>2, <2>3, <3>2, <4>1, <4>4, <4>5
    <3>5. CASE ~(coord'[t] = "prepare" \/ coord'[t] = "locks" \/ calls'[t] = 0)
      BY <3>5
    <3> QED
      BY <3>4, <3>5
  <2>8. CASE \/ Refuse(t) \/ PrepareDone(t) \/ StartCommit(t) \/ StartAbort(t) \/ CommitDone(t) \/ AbortDone(t)
             \/ RunFailed(t) \/ PCPrepareLost(t)
    <3>1. /\ coord[t] # "idle" /\ coord'[t] \notin {"locks", "prepare"} /\ calls' = calls
      BY <2>4, <2>8 DEF Refuse, PrepareDone, StartCommit, StartAbort, CommitDone, AbortDone, RunFailed,
         PCPrepareLost, client
    <3> QED
      BY <2>3, <3>1
  <2> QED
    BY <2>5, <2>6, <2>7, <2>8 DEF StepOf, CoordinatorStep, Fault
<1>8. \A u \in Tx : Coord(u)' = Coord(u)
  BY DEF Coord
<1> QED
  BY <1>6, <1>7 DEF Begins

\* What a step of t changes of a cluster's entries and slots.
LEMMA RunEntries ==
    ASSUME SlotsInv, Latest, Entries, NEW c \in Cluster, NEW t \in Tx,
           Starts(c, t) \/ Fails(c, t) \/ \E st \in Status : Ends(c, t, st)
    PROVE  Latest' /\ Entries'
<1>1. SlotType /\ SlotsApart /\ Elsewhere(c, t) /\ \A d \in Cluster, u \in Tx : slot[d][u] \in Nat
  <2>1. SlotType /\ SlotsApart
    BY DEF SlotsInv
  <2>2. Elsewhere(c, t)
    BY DEF Starts, Fails, Ends
  <2>3. \A d \in Cluster, u \in Tx : slot[d][u] \in Nat
    BY <2>1, CrossShardAssumption DEF SlotType
  <2> QED
    BY <2>1, <2>2, <2>3
<1>2. \A d \in Cluster, u \in Tx : slot[d][u] <= slot'[d][u]
  <2>1. slot[c][t] <= slot'[c][t]
    <3>1. CASE Starts(c, t)
      <4>1. slot'[c][t] = seq[c] /\ slot[c][t] < seq[c]
        BY <1>1, <3>1 DEF Starts, SlotsApart
      <4>2. seq[c] \in Nat /\ slot[c][t] \in Nat
        BY <1>1, CrossShardAssumption DEF SlotType
      <4> QED
        BY <4>1, <4>2
    <3>2. CASE ~Starts(c, t)
      <4>1. slot'[c][t] = slot[c][t]
        BY <3>2 DEF Fails, Ends
      <4>2. slot[c][t] \in Nat
        BY <1>1
      <4> QED
        BY <4>1, <4>2
    <3> QED
      BY <3>1, <3>2
  <2>2. \A d \in Cluster, u \in Tx : d # c \/ u # t => slot'[d][u] = slot[d][u]
    BY <1>1 DEF Elsewhere
  <2>3. \A d \in Cluster, u \in Tx : slot[d][u] <= slot[d][u]
    BY <1>1
  <2> QED
    BY <2>1, <2>2, <2>3
<1>3. \A d \in Cluster, u \in Tx : slot'[d][u] \in Int
  <2>1. seq[c] \in Int
    BY <1>1, CrossShardAssumption DEF SlotType
  <2>2. slot'[c][t] = seq[c] \/ slot'[c][t] = slot[c][t]
    BY DEF Starts, Fails, Ends
  <2>3. slot'[c][t] \in Int
    BY <1>1, <2>1, <2>2
  <2> QED
    BY <1>1, <2>3 DEF Elsewhere
<1>4. CASE Starts(c, t) \/ Fails(c, t)
  <2>1. \A d \in Cluster : store'[d] = store[d]
    BY <1>1, <1>4 DEF Elsewhere, Starts, Fails
  <2>2. Entries'
    BY <2>1 DEF Entries
  <2>3. ASSUME NEW d \in Cluster, NEW u \in Tx, NEW s \in Slot, store'[d][s].tx = u
        PROVE  s <= slot'[d][u]
    <3>1. s <= slot[d][u] /\ s \in Int
      BY <2>1, <2>3 DEF Latest, Slot
    <3> QED
      BY <1>1, <1>2, <1>3, <3>1
  <2> QED
    BY <2>2, <2>3 DEF Latest
<1>5. ASSUME NEW st \in Status, Ends(c, t, st) PROVE Latest' /\ Entries'
  <2>1. PICK w \in Slot : w = slot[c][t]
    BY <1>1, <1>5, EndStore
  <2>2. /\ store[c][w].tx = NoTx /\ store'[c][w] = [tx |-> t, status |-> st]
        /\ \A d \in Cluster, s \in Slot : d # c \/ s # w => store'[d][s] = store[d][s]
    BY <1>1, <1>5, <2>1, EndStore
  <2>3. \A d \in Cluster, u \in Tx : slot'[d][u] = slot[d][u]
    BY <1>1, <1>5 DEF Ends, Elsewhere
  <2>4. ASSUME NEW d \in Cluster, NEW u \in Tx, NEW s \in Slot, store'[d][s].tx = u
        PROVE  s <= slot'[d][u]
    <3>1. CASE d = c /\ s = w
      <4>1. u = t /\ slot'[d][u] = w
        BY <2>1, <2>2, <2>3, <2>4, <3>1
      <4> QED
        BY <3>1, <4>1 DEF Slot
    <3>2. CASE d # c \/ s # w
      BY <2>2, <2>3, <2>4, <3>2 DEF Latest
    <3> QED
      BY <3>1, <3>2
  <2>5. ASSUME NEW d \in Cluster, NEW u \in Tx, NEW r \in Slot, NEW s \in Slot,
               store'[d][r].tx = u, store'[d][s].tx = u, r < s
        PROVE  store'[d][r].status = "P" /\ store'[d][s].status \in {"C", "A"}
    <3>0. r \in Int /\ s \in Int /\ w \in Int
      BY DEF Slot
    <3>1. CASE d # c \/ (r # w /\ s # w)
      <4>1. store'[d][r] = store[d][r] /\ store'[d][s] = store[d][s]
        BY <2>2, <3>1
      <4> QED
        BY <2>5, <4>1 DEF Entries
    <3>2. ASSUME NEW x \in Slot, d = c, u = t, x # w, store'[c][x].tx = t
          PROVE  x < w /\ store'[c][x].status \in Decisions(c, t)
      <4>1. store'[c][x] = store[c][x]
        BY <2>2, <3>2
      <4>2. store[c][x] \in Entry
        BY <1>1 DEF SlotType
      <4>3. store[c][x] = [tx |-> t, status |-> store[c][x].status] /\ store[c][x].status \in Status
        BY <3>2, <4>1, <4>2 DEF Entry
      <4>4. x <= slot[c][t]
        BY <3>2, <4>1 DEF Latest
      <4>5. x < w
        BY <2>1, <3>2, <4>4 DEF Slot
      <4> QED
        BY <4>1, <4>3, <4>5 DEF Decisions, Decided
    <3>3. CASE d = c /\ (r = w \/ s = w)
      <4>1. u = t
        BY <2>2, <2>5, <3>3
      <4>2. r # w
        <5> SUFFICES ASSUME r = w PROVE FALSE
          OBVIOUS
        <5>1. s # w /\ store'[c][s].tx = t
          BY <2>5, <3>0, <3>3, <4>1
        <5>2. s < w
          BY <3>2, <3>3, <4>1, <5>1
        <5> QED
          BY <2>5, <3>0, <5>2
      <4>3. s = w /\ store'[d][s].status = st
        BY <2>2, <3>3, <4>2
      <4>4. store'[c][r].status \in Decisions(c, t)
        BY <2>5, <3>2, <3>3, <4>1, <4>2
      <4>5. Decisions(c, t) = {"P"} /\ st \in {"C", "A"}
        BY <1>5, <4>4 DEF Ends
      <4> QED
        BY <3>3, <4>3, <4>4, <4>5
    <3> QED
      BY <3>1, <3>3
  <2> QED
    BY <2>4, <2>5 DEF Latest, Entries
<1> QED
  BY <1>4, <1>5

\* Each step of t keeps what is known of runs.
LEMMA RunStep ==
    ASSUME CallInv, AllOnce, AllOnce', RunInv, NEW t \in Tx, StepOf(t),
           ~PCCommitUnheard(t)
    PROVE  RunInv'
<1>1. CalledOnce /\ SlotsInv /\ PcType /\ CountType
  BY TypeParts DEF AllOnce, CalledOnce, CallInv, CrossInv, PreparedInv, SlotsInv
<1>2. /\ \/ NoRun
         \/ \E c \in Involved(t) : Starts(c, t) \/ Fails(c, t) \/ \E st \in Status : Ends(c, t, st)
      /\ answer'[t] = "error" /\ answer[t] # "error" => Fails(Part(t), t)
  BY <1>1, RunKinds DEF RunInv
<1>3. Begins' /\ ToldOnce'
  BY <1>1, BeginsStep, ToldStep DEF RunInv
<1>4. Latest' /\ Entries' /\ \A d \in Cluster : Healthy(d)' => Healthy(d)
  <2>1. CASE NoRun
    <3>1. Latest' /\ Entries'
      BY <2>1 DEF NoRun, RunInv, Latest, Entries
    <3>2. \A d \in Cluster, s \in Slot : Dead(d, s) => Dead(d, s)'
      BY <2>1 DEF NoRun, Dead
    <3> QED
      BY <3>1, <3>2 DEF Healthy
  <2>2. ASSUME NEW c \in Involved(t), Starts(c, t) \/ Fails(c, t) \/ \E st \in Status : Ends(c, t, st)
        PROVE  Latest' /\ Entries' /\ \A d \in Cluster : Healthy(d)' => Healthy(d)
    <3>1. c \in Cluster
      BY Clusters DEF Involved
    <3>2. Latest' /\ Entries'
      BY <1>1, <2>2, <3>1, RunEntries DEF RunInv
    <3>3. \A d \in Cluster : Healthy(d)' => Healthy(d)
      BY <1>1, <2>2, <3>1, DeadStays
    <3> QED
      BY <3>2, <3>3
  <2> QED
    BY <1>2, <2>1, <2>2
<1>5. ErrorsDead'
  <2> SUFFICES ASSUME NEW u \in Tx, ~Intra(u), answer'[u] = "error", NEW p \in Cluster, p = Part(u), Healthy(p)'
               PROVE  FALSE
    <3>1. \A u \in Tx : Intra(u)' = Intra(u) /\ Part(u)' = Part(u) /\ Part(u) \in Cluster
      BY Clusters DEF Intra, Coord, Part
    <3>2. \A u \in Tx : \A p \in Cluster : p = Part(u) => Healthy(Part(u))' = Healthy(p)'
      BY <3>1
    <3> QED
      BY <3>1, <3>2 DEF ErrorsDead
  <2>1. Healthy(p)
    BY <1>4
  <2>2. answer[u] # "error"
    BY <2>1 DEF RunInv, ErrorsDead
  <2>3. u = t
    BY <1>1, <2>2, OthersStay DEF Others
  <2>4. Fails(p, t)
    BY <1>2, <2>2, <2>3
  <2>5. ~Healthy(p)'
    BY <1>1, <2>4, DeadStays
  <2> QED
    BY <2>5
<1> QED
  BY <1>3, <1>4, <1>5 DEF RunInv

\* The executor and steps that change nothing.
LEMMA RunsStay ==
    ASSUME RunInv, UNCHANGED <<calls, coord, part, answer, seq, slot, store>>
    PROVE  RunInv' /\ \A c \in Cluster, s \in Slot : Dead(c, s)' <=> Dead(c, s)
<1>1. \A c, u : Active(c, u)' <=> Active(c, u)
  BY DEF Active, At, Coord, Part
<1>2. \A c \in Cluster, s \in Slot : Dead(c, s)' <=> Dead(c, s)
  BY <1>1 DEF Dead
<1>3. \A c \in Cluster : Healthy(c)' <=> Healthy(c)
  BY <1>2 DEF Healthy
<1>4. ErrorsDead'
  <2>1. \A u \in Tx : Intra(u)' = Intra(u) /\ Part(u)' = Part(u) /\ Part(u) \in Cluster
    BY Clusters DEF Intra, Coord, Part
  <2>2. ASSUME NEW u \in Tx PROVE Healthy(Part(u))' <=> Healthy(Part(u))
    <3>1. PICK p \in Cluster : p = Part(u)
      BY <2>1
    <3>2. Healthy(Part(u))' <=> Healthy(p)'
      BY <2>1, <3>1
    <3> QED
      BY <1>3, <3>1, <3>2
  <2> QED
    BY <2>1, <2>2 DEF RunInv, ErrorsDead
<1>5. \A u \in Tx : Coord(u)' = Coord(u) /\ \A c : Decisions(c, u)' = Decisions(c, u)
  BY DecisionsSame DEF Coord
<1>6. Begins'
  <2>1. ASSUME NEW u \in Tx PROVE Decisions(Coord(u), u)' = Decisions(Coord(u), u)
    <3>1. PICK d : d = Coord(u)
      OBVIOUS
    <3>2. Decisions(Coord(u), u)' = Decisions(d, u)'
      BY <1>5, <3>1
    <3> QED
      BY <1>5, <3>1, <3>2
  <2> QED
    BY <1>5, <2>1 DEF RunInv, Begins
<1>7. Latest' /\ Entries'
  BY DEF RunInv, Latest, Entries
<1>8. ToldOnce'
  <2>1. ASSUME NEW u \in Tx PROVE Decisions(Part(u), u)' = Decisions(Part(u), u) /\ Intra(u)' = Intra(u)
    <3>1. PICK d : d = Part(u) /\ d = Part(u)'
      BY DEF Part
    <3>2. Decisions(Part(u), u)' = Decisions(d, u)'
      BY <3>1
    <3> QED
      BY <1>5, <3>1, <3>2 DEF Intra, Coord, Part
  <2> QED
    BY <2>1 DEF RunInv, ToldOnce
<1> QED
  BY <1>2, <1>4, <1>6, <1>7, <1>8 DEF RunInv

\* An outcome of t is executed at c; t is open there until then; it holds its locks.
Settled(c, t) == \E st \in {"", "C", "A"} : Executed(c, t, st)

Open(c, t) == First(c, t) \/ (Decisions(c, t) # {} /\ ~Settled(c, t))

Holds(c, t) == \A a \in Accts(t) : lock[c][a] = t

LocksHeld == \A c \in Cluster : Healthy(c) => \A t \in Tx : Open(c, t) => Holds(c, t)

\* The payer will be charged for t when slot s is executed, and the executor may come to it.
Reached(c, s) == \A r \in Slot : r < s => ~Dead(c, r)

Debits(c, t, s) ==
    /\ s >= exec[c]
    /\ \/ First(c, t) /\ slot[c][t] = s
       \/ store[c][s].tx = t /\ store[c][s].status \in {"", "P"}

Claim(c, t) == c = Coord(t) /\ \E s \in Slot : Debits(c, t, s) /\ Reached(c, s)

\* What may be charged is there, and no two payments may charge one account.
Covered ==
    \A c \in Cluster, t \in Tx : Claim(c, t) =>
        /\ bal[c][Body[t].from] >= Body[t].amount
        /\ \A u \in Tx : Claim(c, u) /\ Body[u].from = Body[t].from => u = t

LEMMA FirstUndecided ==
    ASSUME CallInv, CalledOnce, Begins, NEW t \in Tx, NEW c \in Cluster, First(c, t)
    PROVE  Decisions(c, t) = {}
<1>1. CASE c = Coord(t)
  BY <1>1 DEF First, At, Begins
<1>2. CASE c # Coord(t)
  <2>1. c = Part(t) /\ part[t] = "prepare" /\ ~Intra(t)
    BY <1>2 DEF First, At, Intra
  <2>2. PICK ps : ps = Decisions(c, t)
    OBVIOUS
  <2>3. Stages(calls[t], coord[t], part[t], answer[t], Decisions(Coord(t), t), ps)
    BY <2>1, <2>2 DEF CallInv, OnceInv, CalledOnce, Single
  <2>4. ps = {}
    BY <2>1, <2>3 DEF Stages
  <2> QED
    BY <2>2, <2>4
<1> QED
  BY <1>1, <1>2

\* An entry that is not executed is of a payment that is open, unless an earlier entry settled it.
LEMMA EntryOpen ==
    ASSUME SlotType, MoneyType, Entries, NEW c \in Cluster, NEW t \in Tx, NEW s \in Slot, s >= exec[c],
           store[c][s].tx = t
    PROVE  store[c][s].status \in Decisions(c, t) /\ ~Settled(c, t)
<1>1. store[c][s] = [tx |-> t, status |-> store[c][s].status] /\ store[c][s].status \in Status
  BY DEF SlotType, Entry
<1>2. store[c][s].status \in Decisions(c, t)
  BY <1>1 DEF Decisions, Decided
<1>3. exec[c] \in Int /\ s \in Int
  BY CrossShardAssumption DEF MoneyType, Slot
<1>4. ASSUME NEW r \in Slot, r < exec[c], store[c][r].tx = t PROVE store[c][r].status = "P"
  <2>1. r < s
    BY <1>3, <1>4 DEF Slot
  <2> QED
    BY <1>4, <2>1 DEF Entries
<1>5. ~Settled(c, t)
  <2> SUFFICES ASSUME Settled(c, t) PROVE FALSE
    OBVIOUS
  <2>1. PICK r, st : r \in Slot /\ r < exec[c] /\ store[c][r] = [tx |-> t, status |-> st] /\ st # "P"
    BY DEF Settled, Executed
  <2> QED
    BY <1>4, <2>1
<1> QED
  BY <1>2, <1>5

LEMMA ClaimOpen ==
    ASSUME SlotType, MoneyType, Entries, NEW c \in Cluster, NEW t \in Tx, Claim(c, t)
    PROVE  Open(c, t)
<1>1. PICK s \in Slot : Debits(c, t, s)
  BY DEF Claim
<1>2. CASE First(c, t)
  BY <1>2 DEF Open
<1>3. CASE ~First(c, t)
  <2>1. store[c][s].tx = t /\ s >= exec[c]
    BY <1>1, <1>3 DEF Debits
  <2> QED
    BY <2>1, EntryOpen DEF Open
<1> QED
  BY <1>2, <1>3

-----------------------------------------------------------------------------

\* What one step of t does to what is open.
LEMMA OpenStep ==
    ASSUME SlotsInv, RunInv, NEW c \in Cluster, NEW t \in Tx,
           \A d \in Cluster : \A u, x : Executed(d, u, x)' <=> Executed(d, u, x),
           Starts(c, t) \/ Fails(c, t) \/ \E st \in Status : Ends(c, t, st),
           NEW d \in Cluster, NEW u \in Tx, Healthy(d), Open(d, u)'
    PROVE  Open(d, u) \/ (d = c /\ u = t /\ Starts(c, t) /\ First(c, t)')
<1>1. SlotType /\ Elsewhere(c, t)
  BY DEF SlotsInv, Starts, Fails, Ends
<1>2. Settled(d, u)' <=> Settled(d, u)
  BY DEF Settled
<1>3. CASE d # c \/ u # t
  <2>1. First(d, u)' <=> First(d, u)
    BY <1>1, <1>3 DEF Elsewhere
  <2>2. Decisions(d, u)' = Decisions(d, u)
    <3>1. CASE store'[d] = store[d]
      BY <3>1 DEF Decisions, Decided
    <3>2. CASE store'[d] # store[d]
      <4>1. d = c
        BY <1>1, <3>2 DEF Elsewhere
      <4>2. PICK st \in Status : Ends(c, t, st)
        BY <3>2, <4>1 DEF Starts, Fails
      <4>3. Written(c, t, [tx |-> t, status |-> st])
        BY <4>2 DEF Ends, Fresh
      <4> QED
        BY <1>3, <4>3, DecisionsWritten
    <3> QED
      BY <3>1, <3>2
  <2> QED
    BY <1>2, <2>1, <2>2 DEF Open
<1>4. CASE d = c /\ u = t
  <2>1. CASE Starts(c, t) \/ Fails(c, t)
    <3>1. store'[c] = store[c] /\ (First(c, t)' => Starts(c, t))
      BY <2>1 DEF Starts, Fails, First, Active, Running
    <3>2. Decisions(c, t)' = Decisions(c, t)
      BY <3>1 DEF Decisions, Decided
    <3> QED
      BY <1>2, <1>4, <3>1, <3>2 DEF Open
  <2>2. ASSUME NEW st \in Status, Ends(c, t, st) PROVE Open(c, t)
    <3>1. ~First(c, t)'
      BY <2>2 DEF Ends, First, Active, Running
    <3>2. ~Settled(c, t)
      BY <1>2, <1>4, <3>1 DEF Open
    <3>3. CASE First(c, t)
      BY <3>3 DEF Open
    <3>4. CASE Decisions(c, t) = {"P"}
      BY <3>2, <3>4 DEF Open
    <3>5. CASE st = "A" /\ c = Part(t) /\ answer[t] = "error"
      <4>1. ~Intra(t)
        BY <2>2, <3>5 DEF Ends, Fresh
      <4>2. ~Healthy(Part(t))
        BY <3>5, <4>1 DEF RunInv, ErrorsDead
      <4> QED
        BY <1>4, <3>5, <4>2
    <3> QED
      BY <2>2, <3>3, <3>4, <3>5 DEF Ends
  <2> QED
    BY <1>4, <2>1, <2>2
<1> QED
  BY <1>3, <1>4

LEMMA LocksStep ==
    ASSUME CallInv, AllOnce, LedgerInv, RunInv, LocksHeld, NEW t \in Tx, StepOf(t),
           ~PCCommitUnheard(t)
    PROVE  LocksHeld'
<1>1. CalledOnce /\ SlotsInv /\ lock \in LockType
  BY TypeParts DEF AllOnce, CalledOnce, CallInv, CrossInv, PreparedInv, MoneyType
<1>2. \/ NoRun
      \/ \E c \in Involved(t) : Starts(c, t) \/ Fails(c, t) \/ \E st \in Status : Ends(c, t, st)
  BY <1>1, RunKinds DEF RunInv
<1>3. \A d \in Cluster : \A u, x : Executed(d, u, x)' <=> Executed(d, u, x)
  BY <1>1, LedgerStep
<1>4. CASE NoRun
  <2>1. \A d \in Cluster, s \in Slot : Dead(d, s)' <=> Dead(d, s)
    BY <1>4 DEF NoRun, Dead
  <2>2. \A d \in Cluster : Healthy(d)' <=> Healthy(d)
    BY <2>1 DEF Healthy
  <2>3. \A d \in Cluster, u \in Tx : Settled(d, u)' <=> Settled(d, u)
    BY <1>3 DEF Settled
  <2>4. \A d, u : Decisions(d, u)' = Decisions(d, u)
    BY <1>4, DecisionsSame DEF NoRun
  <2>5. \A d \in Cluster, u \in Tx : (Open(d, u)' <=> Open(d, u)) /\ (Holds(d, u)' <=> Holds(d, u))
    BY <1>4, <2>3, <2>4 DEF NoRun, Open, Holds
  <2> QED
    BY <2>2, <2>5 DEF LocksHeld
<1>5. ASSUME NEW c \in Involved(t), Starts(c, t) \/ Fails(c, t) \/ \E st \in Status : Ends(c, t, st),
             NEW d \in Cluster, NEW u \in Tx, Healthy(d)', Open(d, u)'
      PROVE  Holds(d, u)'
  <2>1. c \in Cluster
    BY Clusters DEF Involved
  <2>2. Healthy(d) /\ (Fails(c, t) => ~Healthy(c)')
    BY <1>1, <1>5, <2>1, DeadStays
  <2>3. Open(d, u) \/ (d = c /\ u = t /\ Starts(c, t) /\ First(c, t)')
    BY <1>1, <1>3, <1>5, <2>1, <2>2, OpenStep
  <2>4. Open(d, u) => Holds(d, u)
    BY <2>2 DEF LocksHeld
  <2>5. CASE lock'[d] = lock[d] /\ Open(d, u)
    BY <2>4, <2>5 DEF Holds
  <2>6. CASE Starts(c, t) /\ First(c, t)' /\ d = c
    <3>1. Free(c, t) /\ lock' = Locked(c, t)
      BY <2>6 DEF Starts
    <3>2. \A a \in Account : lock'[c][a] = IF a \in Accts(t) THEN t ELSE lock[c][a]
      BY <1>1, <2>1, <3>1, LocksElsewhere DEF Locked
    <3>3. Accts(t) \subseteq Account /\ Accts(u) \subseteq Account
      BY Clusters DEF Accts
    <3>4. CASE u = t
      BY <2>6, <3>2, <3>3, <3>4 DEF Holds
    <3>5. CASE u # t
      <4>1. Holds(c, u)
        BY <2>3, <2>4, <2>6, <3>5
      <4>2. \A a \in Accts(u) : a \notin Accts(t)
        BY <3>1, <4>1, CrossShardAssumption DEF Free, Holds
      <4> QED
        BY <2>6, <3>2, <3>3, <4>1, <4>2 DEF Holds
    <3> QED
      BY <3>4, <3>5
  <2>7. lock'[d] = lock[d] \/ (Starts(c, t) /\ First(c, t)' /\ d = c)
    <3>1. CASE d # c
      BY <1>5, <3>1 DEF Starts, Fails, Ends, Elsewhere
    <3>2. CASE d = c
      BY <1>5, <2>2, <3>2 DEF Starts, Ends
    <3> QED
      BY <3>1, <3>2
  <2> QED
    BY <2>3, <2>5, <2>6, <2>7
<1>6. ASSUME NEW c \in Involved(t), Starts(c, t) \/ Fails(c, t) \/ \E st \in Status : Ends(c, t, st)
      PROVE  LocksHeld'
  BY <1>5, <1>6 DEF LocksHeld
<1> QED
  BY <1>2, <1>4, <1>6

-----------------------------------------------------------------------------

\* A step of t makes no claim but its own, when it looks at locks and balance.
LEMMA ClaimStep ==
    ASSUME SlotsInv, NEW c \in Cluster, NEW t \in Tx, exec' = exec,
           Starts(c, t) \/ Fails(c, t) \/ \E st \in Status : Ends(c, t, st),
           NEW d \in Cluster, NEW u \in Tx, Claim(d, u)'
    PROVE  \/ Claim(d, u)
           \/ /\ d = c /\ u = t /\ c = Coord(t)
              /\ Starts(c, t) /\ First(c, t)' /\ Healthy(c)
<1>1. SlotType /\ Elsewhere(c, t)
  BY DEF SlotsInv, Starts, Fails, Ends
<1>2. d = Coord(u)
  BY DEF Claim, Coord
<1>3. PICK s \in Slot : Debits(d, u, s)' /\ Reached(d, s)'
  BY DEF Claim
<1>4. Reached(d, s)
  BY <1>3, DeadStays DEF Reached
<1>5. /\ s >= exec[d]
      /\ \/ First(d, u)' /\ slot'[d][u] = s
         \/ store'[d][s].tx = u /\ store'[d][s].status \in {"", "P"}
  BY <1>3 DEF Debits
<1>6. CASE Debits(d, u, s)
  BY <1>2, <1>4, <1>6 DEF Claim
<1>7. CASE ~Debits(d, u, s)
  <2>1. CASE d # c
    <3>1. /\ store'[d] = store[d] /\ slot'[d][u] = slot[d][u] /\ (First(d, u)' <=> First(d, u))
      BY <1>1, <2>1 DEF Elsewhere
    <3> QED
      BY <1>5, <1>7, <3>1 DEF Debits
  <2>2. CASE d = c /\ u # t /\ store'[c][s] = store[c][s]
    <3>1. slot'[d][u] = slot[d][u] /\ (First(d, u)' <=> First(d, u))
      BY <1>1, <2>2 DEF Elsewhere
    <3> QED
      BY <1>5, <1>7, <2>2, <3>1 DEF Debits
  <2>3. CASE d = c /\ u = t /\ store'[c][s] = store[c][s]
    <3>1. First(c, t)' /\ slot'[c][t] = s
      BY <1>5, <1>7, <2>3 DEF Debits
    <3>2. Starts(c, t)
      BY <3>1 DEF Fails, Ends, First, Active, Running
    <3>3. s = seq[c]
      BY <3>1, <3>2 DEF Starts
    <3>4. Healthy(c)
      BY <1>4, <2>3, <3>3 DEF Healthy, Dead, Reached
    <3> QED
      BY <1>2, <2>3, <3>1, <3>2, <3>4
  <2>4. CASE d = c /\ store'[c][s] # store[c][s]
    <3>1. PICK st \in Status : Ends(c, t, st)
      BY <2>4 DEF Starts, Fails
    <3>2. s = slot[c][t] /\ store'[c][s] = [tx |-> t, status |-> st]
      BY <1>1, <2>4, <3>1, EndStore
    <3>3. ~First(c, t)'
      BY <3>1 DEF Ends, First, Active, Running
    <3>4. CASE u = t
      <4>1. st = "" \/ st = "P"
        <5>1. store'[d][s].status = st
          BY <2>4, <3>2
        <5>2. ~First(d, u)'
          BY <2>4, <3>3, <3>4
        <5> QED
          BY <1>5, <5>1, <5>2
      <4>2. First(c, t)
        BY <3>1, <4>1 DEF Ends
      <4> QED
        BY <1>5, <1>7, <2>4, <3>2, <3>4, <4>2 DEF Debits
    <3>5. CASE u # t
      <4>1. slot'[d][u] = slot[d][u] /\ (First(d, u)' <=> First(d, u))
        BY <1>1, <3>5 DEF Elsewhere
      <4>2. store'[d][s].tx # u
        BY <2>4, <3>2, <3>5
      <4> QED
        BY <1>5, <1>7, <4>1, <4>2 DEF Debits
    <3> QED
      BY <3>4, <3>5
  <2> QED
    BY <2>1, <2>2, <2>3, <2>4
<1> QED
  BY <1>6, <1>7

LEMMA CoveredStep ==
    ASSUME CallInv, AllOnce, LedgerInv, RunInv, LocksHeld, Covered, NEW t \in Tx, StepOf(t),
           ~PCCommitUnheard(t)
    PROVE  Covered' /\ bal' = bal
<1>1. CalledOnce /\ SlotsInv /\ SlotType /\ MoneyType
  BY TypeParts DEF AllOnce, CalledOnce, CallInv, CrossInv, PreparedInv, SlotsInv
<1>2. \/ NoRun
      \/ \E c \in Involved(t) : Starts(c, t) \/ Fails(c, t) \/ \E st \in Status : Ends(c, t, st)
  BY <1>1, RunKinds DEF RunInv
<1>3. exec' = exec /\ bal' = bal
  BY DEF StepOf, CoordinatorStep, ParticipantStep, Fault, ExecuteTransaction, Refuse, Prepare, PrepareDone,
     RunFailed, StartCommit, StartAbort, PCPrepareLost, CommitDone, AbortDone, PCPrepare, PartPrepare,
     PartPrepareDone, PartPrepareFailed, WaitForPCCommit, PartAbortDone, PartAbortFailed, PCCommit,
     PCCommitDone, PCCommitFailed, PCCommitUnheard, applied
<1>4. CASE NoRun
  <2>1. \A d \in Cluster, s \in Slot : Dead(d, s)' <=> Dead(d, s)
    BY <1>4 DEF NoRun, Dead
  <2>2. \A d \in Cluster, s \in Slot : Reached(d, s)' <=> Reached(d, s)
    BY <2>1 DEF Reached
  <2>3. \A d \in Cluster, u \in Tx, s \in Slot : Debits(d, u, s)' <=> Debits(d, u, s)
    BY <1>3, <1>4 DEF NoRun, Debits
  <2>4. \A d \in Cluster, u \in Tx : Claim(d, u)' <=> Claim(d, u)
    BY <2>2, <2>3 DEF Claim, Coord
  <2> QED
    BY <1>3, <2>4 DEF Covered
<1>5. ASSUME NEW c \in Involved(t), Starts(c, t) \/ Fails(c, t) \/ \E st \in Status : Ends(c, t, st)
      PROVE  Covered'
  <2>1. c \in Cluster
    BY Clusters DEF Involved
  <2>2. \A d \in Cluster, u \in Tx : Claim(d, u)' =>
          Claim(d, u) \/ (d = c /\ u = t /\ c = Coord(t) /\ Starts(c, t) /\ First(c, t)' /\ Healthy(c))
    BY <1>1, <1>3, <1>5, <2>1, ClaimStep
  <2>3. ASSUME Starts(c, t), First(c, t)', Healthy(c), c = Coord(t)
        PROVE  /\ bal[c][Body[t].from] >= Body[t].amount
               /\ \A u \in Tx : Claim(c, u) => Body[u].from # Body[t].from
    <3>1. Free(c, t) /\ CanPay(c, t)
      BY <2>3 DEF Starts
    <3>2. ASSUME NEW u \in Tx, Claim(c, u), Body[u].from = Body[t].from PROVE FALSE
      <4>1. Holds(c, u)
        BY <1>1, <2>1, <2>3, <3>2, ClaimOpen DEF RunInv, LocksHeld
      <4> QED
        BY <3>1, <3>2, <4>1, CrossShardAssumption DEF Holds, Free, Accts
    <3> QED
      BY <2>3, <3>1, <3>2 DEF CanPay
  <2>4. ASSUME NEW d \in Cluster, NEW u \in Tx, Claim(d, u)'
        PROVE  /\ bal[d][Body[u].from] >= Body[u].amount
               /\ \A v \in Tx : Claim(d, v)' /\ Body[v].from = Body[u].from => v = u
    <3>1. CASE Claim(d, u)
      BY <2>2, <2>3, <3>1 DEF Covered
    <3>2. CASE ~Claim(d, u)
      BY <2>2, <2>3, <2>4, <3>2
    <3> QED
      BY <3>1, <3>2
  <2> QED
    BY <1>3, <2>4 DEF Covered
<1> QED
  BY <1>2, <1>3, <1>4, <1>5

\* What one execution does: it charges at most one account, of a payer that has a claim.
LEMMA ExecuteCharges ==
    ASSUME SameHomes, CallInv, LedgerInv, CalledOnce, NEW c \in Cluster, Execute(c)
    PROVE  \E t \in Tx, st \in Status :
             /\ store[c][exec[c]] = [tx |-> t, status |-> st]
             /\ c \in Involved(t) /\ st \in Decisions(c, t)
             /\ \A d \in Cluster : \A u \in Tx, x \in Status :
                  Executed(d, u, x)' <=> Executed(d, u, x) \/ (d = c /\ u = t /\ x = st)
             /\ bal' \in [Cluster -> [Account -> Int]]
             /\ \A d \in Cluster : d # c => bal'[d] = bal[d]
             /\ \A a \in Account : \/ bal'[c][a] >= bal[c][a]
                                   \/ /\ a = Body[t].from /\ c = Coord(t) /\ st \in {"", "P"}
                                      /\ bal'[c][a] = bal[c][a] - Body[t].amount
<1>1. PICK t \in Tx, st \in Status :
             /\ store[c][exec[c]] = [tx |-> t, status |-> st]
             /\ c \in Involved(t) /\ st \in Decisions(c, t)
             /\ \A d \in Cluster : \A u \in Tx, x \in Status :
                  Executed(d, u, x)' <=> Executed(d, u, x) \/ (d = c /\ u = t /\ x = st)
             /\ st \in {"P", "A"} => ~Executed(c, t, st)
             /\ bal' \in [Cluster -> [Account -> Int]]
             /\ \A d \in Cluster : d # c => bal'[d] = bal[d]
             /\ \A a \in Account : bal'[c][a] = bal[c][a] + Times(c, t, st) * Net(c, t, a)
  BY NextEntry
<1>2. PICK k \in {1, 0, 0 - 1} :
             /\ Times(c, t, st) = k
             /\ ~Intra(t) => /\ st = "P" => k = 1
                             /\ st = "A" /\ c = Coord(t) => k = 0 - 1
                             /\ st = "A" /\ c # Coord(t) => k = 0
                             /\ st \notin {"P", "A"} => k = 0
  BY <1>1, AmountMoved
<1>3. PICK n \in Nat : n = Body[t].amount
  BY Clusters
<1>4. Intra(t) => k = 1 /\ st = "" /\ c = Coord(t)
  <2> SUFFICES ASSUME Intra(t) PROVE k = 1 /\ st = "" /\ c = Coord(t)
    OBVIOUS
  <2>1. c = Coord(t)
    BY <1>1 DEF Involved, Intra
  <2>2. st = ""
    BY <1>1, <2>1 DEF CallInv, OnceInv, Local
  <2> QED
    BY <1>2, <2>1, <2>2 DEF Times
<1>5. /\ Home[Body[t].from] = Coord(t) /\ Home[Body[t].to] = Part(t)
  BY Clusters DEF SameHomes, Coord, Part
<1>6. ASSUME NEW a \in Account
      PROVE  \/ bal'[c][a] >= bal[c][a]
             \/ /\ a = Body[t].from /\ c = Coord(t) /\ st \in {"", "P"}
                /\ bal'[c][a] = bal[c][a] - Body[t].amount
  <2>1. PICK x \in Int : x = bal[c][a]
    BY TypeParts DEF CallInv, CrossInv, MoneyType
  <2>2. PICK z \in {n, 0, 0 - n} : z = Net(c, t, a)
    BY <1>3 DEF Net
  <2>3. bal'[c][a] = x + k * z
    BY <1>1, <1>2, <2>1, <2>2
  <2>4. CASE k = 0
    <3>1. bal'[c][a] = x
      BY <1>3, <2>3, <2>4
    <3>2. x >= x
      BY <2>1
    <3>3. bal'[c][a] >= bal[c][a]
      BY <2>1, <3>1, <3>2
    <3> QED
      BY <3>3
  <2>5. CASE k = 1
    <3>1. bal'[c][a] = x + z
      BY <1>3, <2>3, <2>5
    <3>2. st \in {"", "P"}
      <4>1. CASE Intra(t)
        BY <1>4, <4>1
      <4>2. CASE ~Intra(t)
        <5>1. st \in Status
          BY <1>1
        <5>2. CASE st = "A"
          BY <1>2, <2>5, <4>2, <5>2
        <5>3. CASE st = "C"
          BY <1>2, <2>5, <4>2, <5>3
        <5> QED
          BY <5>1, <5>2, <5>3 DEF Status
      <4> QED
        BY <4>1, <4>2
    <3>3. z >= 0 \/ (a = Body[t].from /\ Home[a] = c /\ z = 0 - n)
      <4>1. CASE Home[a] = c /\ a = Body[t].from
        BY <1>3, <2>2, <4>1
      <4>2. CASE ~ (Home[a] = c /\ a = Body[t].from)
        <5>1. z = 0 \/ z = n
          BY <1>3, <2>2, <4>2 DEF Net
        <5> QED
          BY <1>3, <5>1
      <4> QED
        BY <4>1, <4>2
    <3>4. CASE z >= 0
      <4>1. x \in Int /\ z \in Int
        BY <1>3, <2>1, <2>2
      <4>2. x + z >= x
        BY <3>4, <4>1
      <4>3. bal'[c][a] >= bal[c][a]
        BY <2>1, <3>1, <4>2
      <4> QED
        BY <4>3
    <3>5. CASE a = Body[t].from /\ Home[a] = c /\ z = 0 - n
      <4>1. c = Coord(t)
        BY <1>5, <3>5
      <4>2. bal'[c][a] = x - n
        BY <1>3, <3>1, <3>5
      <4> QED
        BY <1>3, <2>1, <3>2, <3>5, <4>1, <4>2
    <3> QED
      BY <3>3, <3>4, <3>5
  <2>6. CASE k = 0 - 1
    <3>1. ~Intra(t) /\ c = Coord(t)
      <4>1. ~Intra(t)
        BY <1>4, <2>6
      <4>2. CASE st = "P"
        BY <1>2, <2>6, <4>1, <4>2
      <4>3. CASE st = "A" /\ c # Coord(t)
        BY <1>2, <2>6, <4>1, <4>3
      <4>4. CASE st \notin {"P", "A"}
        BY <1>2, <2>6, <4>1, <4>4
      <4> QED
        BY <4>1, <4>2, <4>3, <4>4
    <3>2. bal'[c][a] = x - z
      BY <1>3, <2>3, <2>6
    <3>3. Home[Body[t].to] # c
      BY <1>5, <3>1 DEF Intra
    <3>4. z = 0 \/ z = 0 - n
      BY <1>3, <2>2, <3>3 DEF Net
    <3>5. x - z >= x
      BY <1>3, <3>4
    <3> QED
      BY <2>1, <3>2, <3>5
  <2> QED
    BY <2>4, <2>5, <2>6
<1> QED
  BY <1>1, <1>6

\* What the execution of an entry of t with status st leaves alone, and what it settles.
LEMMA ExecuteSettles ==
    ASSUME CallInv, LedgerInv, RunInv, NEW c \in Cluster, Execute(c), NEW t \in Tx, NEW st \in Status,
           store[c][exec[c]] = [tx |-> t, status |-> st],
           \A d \in Cluster : \A u \in Tx, x \in Status :
             Executed(d, u, x)' <=> Executed(d, u, x) \/ (d = c /\ u = t /\ x = st)
    PROVE  /\ RunInv' /\ \A d \in Cluster, s \in Slot : Dead(d, s)' <=> Dead(d, s)
           /\ \A d \in Cluster : Healthy(d)' <=> Healthy(d)
           /\ \A d, u : (First(d, u)' <=> First(d, u)) /\ Decisions(d, u)' = Decisions(d, u)
           /\ \A d \in Cluster, u \in Tx : Settled(d, u)' <=> Settled(d, u) \/ (d = c /\ u = t /\ st # "P")
           /\ \A d \in Cluster : exec[d] \in Nat /\ exec'[d] = IF d = c THEN exec[c] + 1 ELSE exec[d]
           /\ lock' = IF st = "P" THEN lock ELSE Released(c, t)
<1>1. /\ UNCHANGED <<calls, coord, part, answer, seq, slot, store>>
      /\ exec' = [exec EXCEPT ![c] = exec[c] + 1]
  BY DEF Execute, ledger
<1>2. store[c][exec[c]].tx = t /\ store[c][exec[c]].status = st
  OBVIOUS
<1>3. lock' = IF st = "P" THEN lock ELSE Released(c, t)
  BY <1>2 DEF Execute
<1>4. RunInv' /\ \A d \in Cluster, s \in Slot : Dead(d, s)' <=> Dead(d, s)
  BY <1>1, RunsStay
<1>5. \A d \in Cluster : Healthy(d)' <=> Healthy(d)
  BY <1>4 DEF Healthy
<1>6. \A d, u : First(d, u)' <=> First(d, u)
  BY <1>1 DEF First, At, Coord, Part
<1>7. \A d, u : Decisions(d, u)' = Decisions(d, u)
  BY <1>1, DecisionsSame
<1>8. exec \in [Cluster -> 1..(MaxSlot + 1)]
  BY TypeParts DEF CallInv, CrossInv, MoneyType
<1>9. \A d \in Cluster : exec[d] \in Nat /\ exec'[d] = IF d = c THEN exec[c] + 1 ELSE exec[d]
  BY <1>1, <1>8, CrossShardAssumption
<1>10. ASSUME NEW d \in Cluster, NEW u \in Tx
       PROVE  Settled(d, u)' <=> Settled(d, u) \/ (d = c /\ u = t /\ st # "P")
  <2>1. Settled(d, u)' <=> Executed(d, u, "")' \/ Executed(d, u, "C")' \/ Executed(d, u, "A")'
    BY DEF Settled
  <2>2. Settled(d, u) <=> Executed(d, u, "") \/ Executed(d, u, "C") \/ Executed(d, u, "A")
    BY DEF Settled
  <2>3. "" \in Status /\ "C" \in Status /\ "A" \in Status /\ (st = "P" \/ st = "" \/ st = "C" \/ st = "A")
    BY DEF Status
  <2>4. /\ Executed(d, u, "")' <=> Executed(d, u, "") \/ (d = c /\ u = t /\ "" = st)
        /\ Executed(d, u, "C")' <=> Executed(d, u, "C") \/ (d = c /\ u = t /\ "C" = st)
        /\ Executed(d, u, "A")' <=> Executed(d, u, "A") \/ (d = c /\ u = t /\ "A" = st)
    BY <2>3
  <2> QED
    BY <2>1, <2>2, <2>3, <2>4
<1> QED
  BY <1>3, <1>4, <1>5, <1>6, <1>7, <1>9, <1>10

\* An entry that is executed is of an open payment, and an executed outcome closes it.
LEMMA ExecuteLocks ==
    ASSUME CallInv, AllOnce, LedgerInv, RunInv, LocksHeld, NEW c \in Cluster, Execute(c)
    PROVE  LocksHeld' /\ RunInv'
<1>1. CalledOnce /\ SlotType /\ MoneyType /\ lock \in LockType
  BY TypeParts DEF AllOnce, CalledOnce, CallInv, CrossInv, MoneyType
<1>2. PICK t \in Tx, st \in Status :
             /\ store[c][exec[c]] = [tx |-> t, status |-> st]
             /\ c \in Involved(t) /\ st \in Decisions(c, t)
             /\ \A d \in Cluster : \A u \in Tx, x \in Status :
                  Executed(d, u, x)' <=> Executed(d, u, x) \/ (d = c /\ u = t /\ x = st)
             /\ st \in {"P", "A"} => ~Executed(c, t, st)
             /\ bal' \in [Cluster -> [Account -> Int]]
             /\ \A d \in Cluster : d # c => bal'[d] = bal[d]
             /\ \A a \in Account : bal'[c][a] = bal[c][a] + Times(c, t, st) * Net(c, t, a)
  BY NextEntry
<1>3. /\ RunInv' /\ \A d \in Cluster, s \in Slot : Dead(d, s)' <=> Dead(d, s)
      /\ \A d \in Cluster : Healthy(d)' <=> Healthy(d)
      /\ \A d, u : (First(d, u)' <=> First(d, u)) /\ Decisions(d, u)' = Decisions(d, u)
      /\ \A d \in Cluster, u \in Tx : Settled(d, u)' <=> Settled(d, u) \/ (d = c /\ u = t /\ st # "P")
      /\ \A d \in Cluster : exec[d] \in Nat /\ exec'[d] = IF d = c THEN exec[c] + 1 ELSE exec[d]
      /\ lock' = IF st = "P" THEN lock ELSE Released(c, t)
  BY <1>2, ExecuteSettles
<1>4. exec[c] \in Slot /\ exec[c] >= exec[c] /\ store[c][exec[c]].tx = t
  BY <1>2, <1>3 DEF Execute, CanExecute
<1>5. Open(c, t)
  BY <1>1, <1>2, <1>4, EntryOpen DEF RunInv, Open
<1>6. ASSUME NEW d \in Cluster, NEW u \in Tx, Healthy(d)', Open(d, u)'
      PROVE  Holds(d, u)'
  <2>1. Open(d, u) /\ ~(d = c /\ u = t /\ st # "P")
    <3>1. First(d, u) \/ (Decisions(d, u) # {} /\ ~Settled(d, u) /\ ~(d = c /\ u = t /\ st # "P"))
      BY <1>3, <1>6 DEF Open
    <3>2. First(d, u) => Decisions(d, u) = {}
      BY <1>1, FirstUndecided DEF RunInv
    <3> QED
      BY <1>2, <3>1, <3>2 DEF Open
  <2>2. Healthy(d) /\ Holds(d, u)
    BY <1>3, <1>6, <2>1 DEF LocksHeld
  <2>3. CASE lock' = lock
    BY <2>2, <2>3 DEF Holds
  <2>4. CASE lock' # lock
    <3>1. lock' = SetLocks(c, t, NoTx) /\ st # "P"
      BY <1>3, <2>4 DEF Released
    <3>2. /\ \A e \in Cluster : e # c => lock'[e] = lock[e]
          /\ \A a \in Account : lock'[c][a] = IF a \in Accts(t) THEN NoTx ELSE lock[c][a]
      BY <1>1, <3>1, LocksElsewhere
    <3>3. CASE d # c
      BY <2>2, <3>2, <3>3 DEF Holds
    <3>4. CASE d = c
      <4>1. u # t /\ Holds(c, t)
        BY <1>5, <2>1, <2>2, <3>1, <3>4 DEF LocksHeld
      <4>2. \A a \in Accts(u) : a \in Account /\ a \notin Accts(t)
        BY <2>2, <3>4, <4>1, Clusters DEF Holds, Accts
      <4> QED
        BY <2>2, <3>2, <3>4, <4>2 DEF Holds
    <3> QED
      BY <3>3, <3>4
  <2> QED
    BY <2>3, <2>4
<1> QED
  BY <1>3, <1>6 DEF LocksHeld

\* No account is below zero.
NoneOverdrawn == \A c \in Cluster, a \in Account : bal[c][a] >= 0

\* A charge is covered by the claim of its payment, and the claim is gone after it.
LEMMA ExecuteCovered ==
    ASSUME SameHomes, CallInv, AllOnce, LedgerInv, RunInv, Covered, NoneOverdrawn, NEW c \in Cluster, Execute(c)
    PROVE  Covered' /\ NoneOverdrawn'
<1>1. CalledOnce /\ SlotType /\ MoneyType
  BY TypeParts DEF AllOnce, CalledOnce, CallInv, CrossInv
<1>2. PICK t \in Tx, st \in Status :
             /\ store[c][exec[c]] = [tx |-> t, status |-> st]
             /\ c \in Involved(t) /\ st \in Decisions(c, t)
             /\ \A d \in Cluster : \A u \in Tx, x \in Status :
                  Executed(d, u, x)' <=> Executed(d, u, x) \/ (d = c /\ u = t /\ x = st)
             /\ bal' \in [Cluster -> [Account -> Int]]
             /\ \A d \in Cluster : d # c => bal'[d] = bal[d]
             /\ \A a \in Account : \/ bal'[c][a] >= bal[c][a]
                                   \/ /\ a = Body[t].from /\ c = Coord(t) /\ st \in {"", "P"}
                                      /\ bal'[c][a] = bal[c][a] - Body[t].amount
  BY <1>1, ExecuteCharges
<1> DEFINE Charged(a) == /\ a = Body[t].from /\ c = Coord(t) /\ st \in {"", "P"}
                         /\ bal'[c][a] = bal[c][a] - Body[t].amount
<1>3. store[c][exec[c]] = [tx |-> t, status |-> st] /\ st \in Decisions(c, t)
  BY <1>2
<1>4. \A d \in Cluster : \A u \in Tx, x \in Status :
        Executed(d, u, x)' <=> Executed(d, u, x) \/ (d = c /\ u = t /\ x = st)
  BY <1>2
<1>5. /\ bal' \in [Cluster -> [Account -> Int]]
      /\ \A d \in Cluster : d # c => bal'[d] = bal[d]
      /\ \A a \in Account : bal'[c][a] >= bal[c][a] \/ Charged(a)
  BY <1>2
<1> HIDE DEF Charged
<1>6. /\ RunInv' /\ \A d \in Cluster, s \in Slot : Dead(d, s)' <=> Dead(d, s)
      /\ \A d \in Cluster : Healthy(d)' <=> Healthy(d)
      /\ \A d, u : (First(d, u)' <=> First(d, u)) /\ Decisions(d, u)' = Decisions(d, u)
      /\ \A d \in Cluster, u \in Tx : Settled(d, u)' <=> Settled(d, u) \/ (d = c /\ u = t /\ st # "P")
      /\ \A d \in Cluster : exec[d] \in Nat /\ exec'[d] = IF d = c THEN exec[c] + 1 ELSE exec[d]
      /\ lock' = IF st = "P" THEN lock ELSE Released(c, t)
  BY <1>3, <1>4, ExecuteSettles
<1>7. UNCHANGED <<slot, store>>
  BY DEF Execute, ledger
<1>8. \A d \in Cluster, u \in Tx, s \in Slot : Debits(d, u, s)' => Debits(d, u, s) /\ s >= exec'[d]
  <2> SUFFICES ASSUME NEW d \in Cluster, NEW u \in Tx, NEW s \in Slot, Debits(d, u, s)'
               PROVE  Debits(d, u, s) /\ s >= exec'[d]
    OBVIOUS
  <2>1. s >= exec'[d]
    BY DEF Debits
  <2>2. s >= exec[d]
    BY <1>6, <2>1, CrossShardAssumption DEF Slot
  <2> QED
    BY <1>6, <1>7, <2>1, <2>2 DEF Debits
<1>9. \A d \in Cluster, u \in Tx : Claim(d, u)' => Claim(d, u)
  <2>1. \A d \in Cluster, s \in Slot : Reached(d, s)' => Reached(d, s)
    BY <1>6 DEF Reached
  <2> QED
    BY <1>8, <2>1 DEF Claim, Coord
<1>10. exec[c] \in Slot /\ store[c][exec[c]].tx = t /\ store[c][exec[c]].status = st
  <2>1. exec[c] \in Slot
    BY DEF Execute, CanExecute
  <2> QED
    BY <1>3, <2>1
<1>11. ASSUME c = Coord(t), st \in {"", "P"}
      PROVE  Claim(c, t) /\ ~Claim(c, t)'
  <2>1. Claim(c, t)
    <3>1. Debits(c, t, exec[c])
      <4>1. exec[c] >= exec[c]
        BY <1>6
      <4> QED
        BY <1>10, <1>11, <4>1 DEF Debits
    <3>2. Reached(c, exec[c])
      BY <1>10 DEF Reached, Dead, LedgerInv, Filled
    <3> QED
      BY <1>10, <1>11, <3>1, <3>2 DEF Claim
  <2>2. ASSUME NEW s \in Slot, Debits(c, t, s)' PROVE FALSE
    <3>1. Debits(c, t, s) /\ s >= exec[c] + 1
      BY <1>6, <1>8, <2>2
    <3>2. exec[c] < s
      BY <1>6, <3>1, CrossShardAssumption DEF Slot
    <3>3. ~First(c, t)
      BY <1>1, <1>3, FirstUndecided DEF RunInv
    <3>4. store[c][s].tx = t /\ store[c][s].status \in {"", "P"}
      BY <3>1, <3>3 DEF Debits
    <3>5. store[c][s].status \in {"C", "A"}
      BY <1>10, <3>2, <3>4 DEF RunInv, Entries
    <3> QED
      BY <3>4, <3>5
  <2> QED
    BY <2>1, <2>2 DEF Claim
<1>12. bal \in [Cluster -> [Account -> Int]] /\ bal' \in [Cluster -> [Account -> Int]]
  BY <1>1, <1>5 DEF MoneyType
<1>13. ASSUME NEW d \in Cluster, NEW a \in Account
       PROVE  bal'[d][a] >= bal[d][a] \/ (d = c /\ Charged(a))
  <2>1. bal[d][a] \in Int
    BY <1>12
  <2>2. CASE d # c
    <3>1. bal'[d][a] = bal[d][a]
      BY <1>5, <2>2
    <3> QED
      BY <2>1, <3>1
  <2>3. CASE d = c
    <3>1. bal'[c][a] >= bal[c][a] \/ Charged(a)
      BY <1>5
    <3> QED
      BY <2>3, <3>1
  <2> QED
    BY <2>2, <2>3
<1>14. NoneOverdrawn'
  <2> SUFFICES ASSUME NEW d \in Cluster, NEW a \in Account PROVE bal'[d][a] >= 0
    BY DEF NoneOverdrawn
  <2>1. bal[d][a] \in Int /\ bal'[d][a] \in Int /\ bal[d][a] >= 0
    BY <1>12 DEF NoneOverdrawn
  <2>2. CASE bal'[d][a] >= bal[d][a]
    BY <2>1, <2>2
  <2>3. CASE ~ (bal'[d][a] >= bal[d][a])
    <3>1. d = c /\ a = Body[t].from /\ c = Coord(t) /\ st \in {"", "P"} /\ bal'[d][a] = bal[d][a] - Body[t].amount
      BY <1>13, <2>3 DEF Charged
    <3>2. bal[d][a] >= Body[t].amount
      BY <1>11, <3>1 DEF Covered
    <3>3. Body[t].amount \in Nat
      BY Clusters
    <3>4. bal'[d][a] = bal[d][a] - Body[t].amount
      BY <3>1
    <3> QED
      BY <2>1, <3>2, <3>3, <3>4
  <2> QED
    BY <2>2, <2>3
<1>15. Covered'
  <2> SUFFICES ASSUME NEW d \in Cluster, NEW u \in Tx, Claim(d, u)'
               PROVE  /\ bal'[d][Body[u].from] >= Body[u].amount
                      /\ \A v \in Tx : Claim(d, v)' /\ Body[v].from = Body[u].from => v = u
    BY DEF Covered
  <2>1. Claim(d, u)
    BY <1>9
  <2>2. PICK a \in Account : a = Body[u].from
    BY Clusters
  <2>3. bal[d][a] >= Body[u].amount /\ \A v \in Tx : Claim(d, v) /\ Body[v].from = a => v = u
    BY <2>1, <2>2 DEF Covered
  <2>4. bal'[d][a] >= bal[d][a]
    <3> SUFFICES ASSUME ~ (bal'[d][a] >= bal[d][a]) PROVE FALSE
      OBVIOUS
    <3>1. d = c /\ a = Body[t].from /\ c = Coord(t) /\ st \in {"", "P"}
      BY <1>13 DEF Charged
    <3>2. t = u
      BY <1>11, <2>3, <3>1
    <3> QED
      BY <1>11, <3>1, <3>2
  <2>5. bal[d][a] \in Int /\ bal'[d][a] \in Int /\ Body[u].amount \in Int
    BY <1>12, Clusters
  <2>6. bal'[d][a] >= Body[u].amount
    BY <2>3, <2>4, <2>5
  <2> QED
    BY <1>9, <2>2, <2>3, <2>6
<1> QED
  BY <1>14, <1>15

OverdraftInv == CallInv /\ LedgerInv /\ RunInv /\ LocksHeld /\ Covered /\ NoneOverdrawn

LEMMA InitOverdraft == Init => OverdraftInv
<1> SUFFICES ASSUME Init PROVE OverdraftInv
  OBVIOUS
<1>1. CallInv /\ LedgerInv /\ RunInv
  BY InitCalls, InitMoney, InitRuns
<1>2. /\ \A t \in Tx : coord[t] = "idle" /\ part[t] = "idle"
      /\ \A c \in Cluster, s \in Slot : store[c][s].tx \notin Tx
  <2>1. \A c \in Cluster, s \in Slot : store[c][s] = NoEntry
    BY DEF Init
  <2>2. NoEntry.tx \notin Tx
    BY CrossShardAssumption DEF NoEntry
  <2> QED
    BY <2>1, <2>2 DEF Init
<1>3. \A c \in Cluster, t \in Tx : ~First(c, t)
  BY <1>2 DEF First, At
<1>4. ASSUME NEW c \in Cluster, NEW t \in Tx PROVE Decisions(c, t) = {}
  <2> SUFFICES ASSUME NEW x \in Decisions(c, t) PROVE FALSE
    OBVIOUS
  <2>1. PICK s \in Slot : store[c][s] = [tx |-> t, status |-> x]
    BY DEF Decisions, Decided
  <2> QED
    BY <1>2, <2>1
<1>5. LocksHeld
  BY <1>3, <1>4 DEF LocksHeld, Open
<1>6. Covered
  BY <1>2, <1>3 DEF Covered, Claim, Debits
<1>7. NoneOverdrawn
  BY CrossShardAssumption DEF Init, NoneOverdrawn
<1> QED
  BY <1>1, <1>5, <1>6, <1>7 DEF OverdraftInv

LEMMA StepOverdraft ==
    ASSUME SameHomes, OverdraftInv, AllOnce, AllOnce', [Next]_vars
    PROVE  OverdraftInv'
<1>1. CallInv'
  BY StepCalls DEF OverdraftInv
<1>2. CalledOnce
  BY DEF AllOnce, CalledOnce
<1>3. ASSUME NEW t \in Tx, StepOf(t)
      PROVE  LedgerInv' /\ RunInv' /\ LocksHeld' /\ Covered' /\ NoneOverdrawn'
  <2>0. ~PCCommitUnheard(t)
    BY DEF PCCommitUnheard, AllOnce
  <2>1. LedgerInv' /\ RunInv' /\ LocksHeld'
    BY <1>2, <1>3, <2>0, LedgerStep, RunStep, LocksStep DEF OverdraftInv
  <2>2. Covered' /\ bal' = bal
    BY <1>3, <2>0, CoveredStep DEF OverdraftInv
  <2>3. NoneOverdrawn'
    BY <2>2 DEF OverdraftInv, NoneOverdrawn
  <2> QED
    BY <2>1, <2>2, <2>3
<1>4. ASSUME NEW c \in Cluster, Execute(c)
      PROVE  LedgerInv' /\ RunInv' /\ LocksHeld' /\ Covered' /\ NoneOverdrawn'
  BY <1>4, LedgerExecute, ExecuteLocks, ExecuteCovered DEF OverdraftInv
<1>5. CASE UNCHANGED vars
  <2>1. UNCHANGED <<calls, coord, part, answer, seq, slot, store, exec, lock, bal, wal>>
    BY <1>5 DEF vars, client, ledger, applied
  <2>2. RunInv' /\ \A c \in Cluster, s \in Slot : Dead(c, s)' <=> Dead(c, s)
    BY <2>1, RunsStay DEF OverdraftInv
  <2>3. \A d, u : Decisions(d, u)' = Decisions(d, u)
    BY <2>1, DecisionsSame
  <2>4. LedgerInv'
    BY <2>1, <2>3 DEF OverdraftInv, LedgerInv, Filled, NoTwins, Logged, Intra, Involved, Coord, Part
  <2>5. \A d, u : First(d, u)' <=> First(d, u)
    BY <2>1 DEF First, At, Coord, Part
  <2>6. LocksHeld'
    <3>1. \A c \in Cluster : Healthy(c)' <=> Healthy(c)
      BY <2>2 DEF Healthy
    <3>2. \A d, u : (Settled(d, u)' <=> Settled(d, u)) /\ (Holds(d, u)' <=> Holds(d, u))
      BY <2>1 DEF Settled, Executed, Holds, Accts
    <3>3. \A d, u : Open(d, u)' <=> Open(d, u)
      BY <2>3, <2>5, <3>2 DEF Open
    <3> QED
      BY <3>1, <3>2, <3>3 DEF OverdraftInv, LocksHeld
  <2>7. Covered'
    <3>1. \A c \in Cluster, s \in Slot : Reached(c, s)' <=> Reached(c, s)
      BY <2>2 DEF Reached
    <3>2. \A c \in Cluster, u \in Tx, s \in Slot : Debits(c, u, s)' <=> Debits(c, u, s)
      BY <2>1, <2>5 DEF Debits
    <3>3. \A c \in Cluster, u \in Tx : Claim(c, u)' <=> Claim(c, u)
      BY <3>1, <3>2 DEF Claim, Coord
    <3> QED
      BY <2>1, <3>3 DEF OverdraftInv, Covered
  <2>8. NoneOverdrawn'
    BY <2>1 DEF OverdraftInv, NoneOverdrawn
  <2> QED
    BY <1>1, <2>2, <2>4, <2>6, <2>7, <2>8 DEF OverdraftInv
<1> QED
  BY <1>1, <1>3, <1>4, <1>5 DEF OverdraftInv, Next, StepOf

\* As long as nothing is repeated - no call of the gateway, and no PCCommit that has already
\* committed - and payments are routed to the shard that holds their accounts, no account goes
\* below zero, whatever runs fail and release the locks of others: the executors never come to
\* what is decided behind the slot of a failed run.  A repeated PCCommit would release the locks of
\* other payments, and an account could go below zero.
THEOREM NoOverdraftHolds == SameHomes /\ Spec /\ []AllOnce => []NoOverdraft
<1> SUFFICES ASSUME SameHomes PROVE Spec /\ []AllOnce => []NoOverdraft
  OBVIOUS
<1>1. OverdraftInv /\ AllOnce /\ AllOnce' /\ [Next]_vars => OverdraftInv'
  BY StepOverdraft
<1>2. OverdraftInv => NoOverdraft
  BY DEF OverdraftInv, NoneOverdrawn, NoOverdraft
<1> QED
  BY <1>1, <1>2, InitOverdraft, PTL DEF Spec
=============================================================================
