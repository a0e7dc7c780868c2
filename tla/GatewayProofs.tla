----------------------------- MODULE GatewayProofs -----------------------------
(***************************************************************************)
(* Proofs about Gateway and the KeyExchange it extends, for any input,     *)
(* servers, starts and bounds: typing, that nobody goes back to an older   *)
(* key, and that a result the gateway stores is one the servers came to.   *)
(*                                                                         *)
(* Replies are counted by timestamp alone, so the argument is about the    *)
(* timestamps: no two payments have the same one, and so everything that   *)
(* waits or is counted under a timestamp is about one payment.             *)
(***************************************************************************)
EXTENDS Gateway, TLAPS

-----------------------------------------------------------------------------
(* KeyExchange, for any processes, starts and rounds.                      *)

\* A key that is on file or known was made before, and nobody knows a newer key of a
\* process than the one on its file.
KeysOrdered ==
    /\ \A q \in Process : file[q] <= gen[q]
    /\ \A p, q \in Process : known[p][q] <= gen[q] /\ (file[q] # 0 => known[p][q] <= file[q])

KeysInv == KeysTypeOK /\ KeysOrdered

LEMMA KeysInitInv == KeysInit => KeysInv
  BY KeyAssumption DEF KeysInit, KeysInv, KeysTypeOK, KeysOrdered

LEMMA KeyAfterNat ==
    ASSUME KeysTypeOK, NEW p \in Process, NEW q \in Process
    PROVE  KeyAfter(p, q) \in Nat
  BY DEF KeysTypeOK, KeyAfter, Readable

LEMMA KeysStepType == KeysTypeOK /\ [KeysNext]_keys => KeysTypeOK'
<1> SUFFICES ASSUME KeysTypeOK, [KeysNext]_keys PROVE KeysTypeOK'
  OBVIOUS
<1>1. ASSUME NEW p \in Process, Start(p) PROVE KeysTypeOK'
  <2>1. gen' \in [Process -> Nat] /\ rounds' \in [Process -> Nat] /\ walk' \in [Process -> Nat]
    <3>1. gen[p] + 1 \in Nat /\ Rounds[p] \in Nat
      BY KeyAssumption DEF KeysTypeOK
    <3>2. gen' \in [Process -> Nat]
      BY <1>1, <3>1 DEF Start, KeysTypeOK, NewKeys
    <3>3. rounds' \in [Process -> Nat] /\ walk' \in [Process -> Nat]
      BY <1>1, <3>1 DEF Start, KeysTypeOK
    <3> QED
      BY <3>2, <3>3
  <2>2. known' \in [Process -> [Process -> Nat]]
    <3> DEFINE none == [q \in Process |-> 0]
    <3>1. none \in [Process -> Nat]
      OBVIOUS
    <3>2. known' = [known EXCEPT ![p] = none]
      BY <1>1 DEF Start
    <3> HIDE DEF none
    <3> QED
      BY <3>1, <3>2 DEF KeysTypeOK
  <2> QED
    BY <1>1, <2>1, <2>2 DEF Start, KeysTypeOK
<1>2. ASSUME NEW p \in Process, Truncate(p) PROVE KeysTypeOK'
  BY <1>2 DEF Truncate, KeysTypeOK
<1>3. ASSUME NEW p \in Process, Save(p) PROVE KeysTypeOK'
  BY <1>3 DEF Save, KeysTypeOK
<1>4. ASSUME NEW p \in Process, BeginRound(p) PROVE KeysTypeOK'
  BY <1>4 DEF BeginRound, KeysTypeOK
<1>5. ASSUME NEW p \in Process, ReadKey(p) PROVE KeysTypeOK'
  <2>1. walk[p] \in Files /\ File[walk[p]] \in Process
    BY <1>5, KeyAssumption DEF ReadKey
  <2>2. PICK k \in Nat : known' = [known EXCEPT ![p][File[walk[p]]] = k]
    BY <1>5, <2>1, KeyAfterNat DEF ReadKey
  <2>3. known' \in [Process -> [Process -> Nat]]
    BY <2>1, <2>2 DEF KeysTypeOK
  <2>4. walk' \in [Process -> Nat]
    BY <1>5 DEF ReadKey, KeysTypeOK
  <2> QED
    BY <1>5, <2>3, <2>4 DEF ReadKey, KeysTypeOK
<1>6. CASE UNCHANGED keys
  BY <1>6 DEF keys, KeysTypeOK
<1> QED
  BY <1>1, <1>2, <1>3, <1>4, <1>5, <1>6 DEF KeysNext, KeyStep

LEMMA KeysStepOrdered == KeysInv /\ [KeysNext]_keys => KeysOrdered'
<1> SUFFICES ASSUME KeysInv, [KeysNext]_keys PROVE KeysOrdered'
  OBVIOUS
<1> USE DEF KeysInv, KeysTypeOK, KeysOrdered
<1>1. ASSUME NEW p \in Process, Start(p) PROVE KeysOrdered'
  BY <1>1 DEF Start, NewKeys
<1>2. ASSUME NEW p \in Process, Truncate(p) PROVE KeysOrdered'
  BY <1>2 DEF Truncate
<1>3. ASSUME NEW p \in Process, Save(p) PROVE KeysOrdered'
  BY <1>3 DEF Save
<1>4. ASSUME NEW p \in Process, BeginRound(p) PROVE KeysOrdered'
  BY <1>4 DEF BeginRound
<1>5. ASSUME NEW p \in Process, ReadKey(p) PROVE KeysOrdered'
  BY <1>5, KeyAssumption DEF ReadKey, KeyAfter, Readable
<1>6. CASE UNCHANGED keys
  BY <1>6 DEF keys
<1> QED
  BY <1>1, <1>2, <1>3, <1>4, <1>5, <1>6 DEF KeysNext, KeyStep

LEMMA KeysStepInv == KeysInv /\ [KeysNext]_keys => KeysInv'
  BY KeysStepType, KeysStepOrdered DEF KeysInv

\* initKeys and readPublicKeys keep the maps and the files of keys well typed.
THEOREM KeysTypeCorrect == KeysSpec => []KeysTypeOK
<1>1. KeysInv => KeysTypeOK
  BY DEF KeysInv
<1> QED
  BY <1>1, KeysInitInv, KeysStepInv, PTL DEF KeysSpec

\* Whatever readPublicKeyIntoMap reads, no process has a key before it is made, nor one
\* newer than what is on file.
THEOREM KeysOrderedHolds == KeysSpec => []KeysOrdered
<1>1. KeysInv => KeysOrdered
  BY DEF KeysInv
<1> QED
  BY <1>1, KeysInitInv, KeysStepInv, PTL DEF KeysSpec

\* readPublicKeyIntoMap never takes an older key for a newer one, nor
\* forgets one, whoever is restarted and whatever state the files are in.
THEOREM KeysMoveForwardHolds == KeysSpec => KeysMoveForward
<1> DEFINE Forward == \A p, q \in Process : gen'[p] = gen[p] => known'[p][q] >= known[p][q]
<1>1. KeysInv /\ [KeysNext]_keys => [Forward]_keys
  <2> SUFFICES ASSUME KeysInv, KeysNext PROVE Forward
    OBVIOUS
  <2> USE DEF KeysInv, KeysTypeOK, KeysOrdered
  <2>1. ASSUME NEW r \in Process, Start(r) PROVE Forward
    BY <2>1 DEF Start, NewKeys
  <2>2. ASSUME NEW r \in Process, Truncate(r) \/ Save(r) \/ BeginRound(r) PROVE Forward
    BY <2>2 DEF Truncate, Save, BeginRound
  <2>3. ASSUME NEW r \in Process, ReadKey(r) PROVE Forward
    BY <2>3, KeyAssumption DEF ReadKey, KeyAfter, Readable
  <2> QED
    BY <2>1, <2>2, <2>3 DEF KeysNext, KeyStep
<1> QED
  BY <1>1, KeysInitInv, KeysStepInv, PTL DEF KeysSpec, KeysMoveForward

-----------------------------------------------------------------------------
(* The gateway.                                                            *)

\* A payment has its own number as its timestamp once it is sent; only then can
\* anything be owed for it.
Stamped ==
    \A i \in Payment :
        /\ IF i <= highest THEN stamp[i] = i ELSE stamp[i] = 0 /\ pc[i] = "no"
        /\ owed[i] # {} => i <= highest

\* What waits and what is counted under a timestamp is what the servers came to.
Honest ==
    /\ \A m \in waiting : m.result = Truth(m.stamp)
    /\ \A ts \in Stamp : /\ count[ts].yes > 0 => Truth(ts) = TRUE
                         /\ count[ts].no > 0 => Truth(ts) = FALSE

GatewayInv == TypeOK /\ Stamped /\ Honest /\ ResultIsTruth

\* The parts of TypeOK.
MainType ==
    /\ set \in {0} \cup Sets /\ phase \in Phase /\ left \subseteq Server
    /\ live \in [Server -> BOOLEAN] /\ byz \in [Server -> BOOLEAN]

SentType ==
    /\ highest \in 0..Last
    /\ stamp \in [Payment -> 0..Last]
    /\ pc \in [Payment -> {"no", "clear", "call", "wait", "done"}]
    /\ store \in [Payment -> SUBSET Server]
    /\ owed \in [Payment -> SUBSET Server]

Replies == [stamp : Stamp, result : BOOLEAN, from : Server]
Counts  == [yes : Count, no : Count]

ReplyType ==
    /\ waiting \subseteq Replies
    /\ early \in 0..MaxEarly
    /\ count \in [Stamp -> Counts]
    /\ result \in [Payment -> SUBSET BOOLEAN]

LEMMA TypeParts == TypeOK <=> KeysTypeOK /\ MainType /\ SentType /\ ReplyType
  BY DEF TypeOK, MainType, SentType, ReplyType, Replies, Counts

LEMMA TypePartsNext == TypeOK' <=> KeysTypeOK' /\ MainType' /\ SentType' /\ ReplyType'
  BY DEF TypeOK, MainType, SentType, ReplyType, Replies, Counts

LEMMA Numbers == Payment \subseteq Nat /\ Payment = Stamp /\ F \in Nat /\ Last \in Nat /\ MaxEarly \in Nat
  BY GatewayAssumption DEF Payment, Stamp

LEMMA TruthBoolean == ASSUME NEW i \in Payment PROVE Truth(i) \in BOOLEAN /\ LeaderFor(i) \in Server
  BY GatewayAssumption DEF Truth, LeaderFor

\* The smaller of two numbers.
LEMMA MinOfTwo ==
    ASSUME NEW a \in Nat, NEW b \in Nat
    PROVE  Min({a, b}) \in Nat /\ Min({a, b}) <= b /\ (Min({a, b}) = a \/ Min({a, b}) = b)
<1>1. \E x \in {a, b} : \A y \in {a, b} : x <= y
  <2>1. CASE a <= b
    BY <2>1
  <2>2. CASE ~(a <= b)
    BY <2>2
  <2> QED
    BY <2>1, <2>2
<1>2. Min({a, b}) \in {a, b} /\ \A y \in {a, b} : Min({a, b}) <= y
  BY <1>1 DEF Min
<1> QED
  BY <1>2

\* Counting a reply.
LEMMA CountedOne ==
    ASSUME NEW c \in Counts, NEW r \in BOOLEAN
    PROVE  /\ Counted(c, r) \in Counts
           /\ r = TRUE => Counted(c, r).no = c.no
           /\ r = FALSE => Counted(c, r).yes = c.yes
<1>1. F \in Nat /\ c.yes \in Nat /\ c.no \in Nat /\ Count \subseteq Nat
  BY Numbers DEF Counts, Count
<1>2. Min({c.yes + 1, F + 1}) \in Count /\ Min({c.no + 1, F + 1}) \in Count
  BY <1>1, MinOfTwo DEF Count
<1>3. CASE r = TRUE
  BY <1>2, <1>3 DEF Counted, Counts
<1>4. CASE r = FALSE
  BY <1>2, <1>4 DEF Counted, Counts
<1> QED
  BY <1>3, <1>4

-----------------------------------------------------------------------------
(* Processes and main.                                                     *)

LEMMA StartProcessInv ==
    ASSUME GatewayInv, NEW p \in Process, StartProcess(p)
    PROVE  GatewayInv'
<1> USE DEF GatewayInv
<1>1. KeysTypeOK'
  <2>1. [KeysNext]_keys
    BY DEF StartProcess, KeysNext
  <2> QED
    BY <2>1, KeysStepType, TypeParts
<1>2. MainType'
  BY TypeParts DEF StartProcess, MainType, main
<1>3. SentType'
  BY TypeParts DEF StartProcess, SentType
<1>4. ReplyType'
  BY TypeParts DEF StartProcess, ReplyType
<1>5. Stamped' /\ Honest' /\ ResultIsTruth'
  <2>1. \A i \in Payment : owed'[i] \subseteq owed[i]
    BY DEF StartProcess
  <2> QED
    BY <2>1 DEF StartProcess, Stamped, Honest, ResultIsTruth
<1> QED
  BY <1>1, <1>2, <1>3, <1>4, <1>5, TypePartsNext

\* What leaves the payments and the keys as they are.
LEMMA PaymentsSame ==
    ASSUME GatewayInv, UNCHANGED payments, KeysTypeOK', MainType'
    PROVE  GatewayInv'
<1> USE DEF GatewayInv, payments
<1>1. SentType' /\ ReplyType'
  BY TypeParts DEF SentType, ReplyType
<1>2. Stamped' /\ Honest' /\ ResultIsTruth'
  BY DEF Stamped, Honest, ResultIsTruth
<1> QED
  BY <1>1, <1>2, TypePartsNext

LEMMA MainInv ==
    ASSUME GatewayInv, NextSet \/ CallServer \/ NextPhase \/ SetDone
    PROVE  GatewayInv'
<1>1. KeysTypeOK /\ MainType
  BY TypeParts DEF GatewayInv
<1>2. CASE NextSet
  <2>1. MainType'
    BY <1>1, <1>2 DEF NextSet, MainType, switches, Phase
  <2>2. KeysTypeOK'
    BY <1>1, <1>2 DEF NextSet, KeysTypeOK, keys
  <2> QED
    BY <1>2, <2>1, <2>2, PaymentsSame DEF NextSet
<1>3. CASE CallServer
  <2>1. PICK n \in left :
          /\ left' = left \ {n}
          /\ live' = [live EXCEPT ![n] = IF Up(n) /\ phase \in {"dead", "alive"} THEN phase = "alive" ELSE @]
          /\ byz' = [byz EXCEPT ![n] = IF Up(n) /\ phase \in {"good", "byz"} THEN phase = "byz" ELSE @]
    BY <1>3 DEF CallServer
  <2>2. n \in Server
    BY <1>1 DEF MainType
  <2>3. PICK b \in BOOLEAN : live' = [live EXCEPT ![n] = b]
    <3>1. (IF Up(n) /\ phase \in {"dead", "alive"} THEN phase = "alive" ELSE live[n]) \in BOOLEAN
      BY <1>1, <2>2 DEF MainType
    <3> QED
      BY <2>1, <3>1
  <2>4. PICK z \in BOOLEAN : byz' = [byz EXCEPT ![n] = z]
    <3>1. (IF Up(n) /\ phase \in {"good", "byz"} THEN phase = "byz" ELSE byz[n]) \in BOOLEAN
      BY <1>1, <2>2 DEF MainType
    <3> QED
      BY <2>1, <3>1
  <2>5. live' \in [Server -> BOOLEAN]
    BY <1>1, <2>3 DEF MainType
  <2>6. byz' \in [Server -> BOOLEAN]
    BY <1>1, <2>4 DEF MainType
  <2>7. MainType'
    BY <1>1, <1>3, <2>1, <2>5, <2>6 DEF CallServer, MainType
  <2>8. KeysTypeOK'
    BY <1>1, <1>3 DEF CallServer, KeysTypeOK, keys
  <2> QED
    BY <1>3, <2>7, <2>8, PaymentsSame DEF CallServer
<1>4. CASE NextPhase
  <2>1. MainType'
    BY <1>1, <1>4 DEF NextPhase, MainType, switches, Phase, LiveIn, ByzIn
  <2>2. KeysTypeOK'
    BY <1>1, <1>4 DEF NextPhase, KeysTypeOK, keys
  <2> QED
    BY <1>4, <2>1, <2>2, PaymentsSame DEF NextPhase
<1>5. CASE SetDone
  <2>1. MainType'
    BY <1>1, <1>5 DEF SetDone, MainType, switches, Phase
  <2>2. KeysTypeOK'
    BY <1>1, <1>5 DEF SetDone, KeysTypeOK, keys
  <2> QED
    BY <1>5, <2>1, <2>2, PaymentsSame DEF SetDone
<1> QED
  BY <1>2, <1>3, <1>4, <1>5

LEMMA ExchangeKeysInv ==
    ASSUME GatewayInv, NEW p \in Process, ExchangeKeys(p)
    PROVE  GatewayInv'
<1>1. KeysTypeOK'
  <2>1. [KeysNext]_keys
    BY DEF ExchangeKeys, KeysNext
  <2> QED
    BY <2>1, KeysStepType, TypeParts DEF GatewayInv
<1>2. MainType'
  BY TypeParts DEF GatewayInv, ExchangeKeys, MainType, main, switches
<1> QED
  BY <1>1, <1>2, PaymentsSame DEF ExchangeKeys

-----------------------------------------------------------------------------
(* Payments.                                                               *)

\* What leaves the keys, the servers and main as they are.
LEMMA RestSame ==
    ASSUME GatewayInv, UNCHANGED <<keys, main, switches>>, SentType', ReplyType',
           Stamped', Honest', ResultIsTruth'
    PROVE  GatewayInv'
<1>1. KeysTypeOK' /\ MainType'
  BY TypeParts DEF GatewayInv, KeysTypeOK, MainType, keys, main, switches
<1> QED
  BY <1>1, TypePartsNext DEF GatewayInv

LEMMA SendNextInv ==
    ASSUME GatewayInv, SendNext
    PROVE  GatewayInv'
<1>1. SentType /\ ReplyType /\ Stamped
  BY TypeParts DEF GatewayInv
<1> DEFINE i == highest + 1
<1>2. /\ i \in Payment /\ highest' = i
      /\ stamp' = [stamp EXCEPT ![i] = i] /\ pc' = [pc EXCEPT ![i] = "clear"]
      /\ UNCHANGED <<store, owed, waiting, early, count, result>>
  BY DEF SendNext, NextStamp
<1>3. i \in 1..Last /\ Last \in Nat /\ highest \in Nat
  BY <1>1, <1>2, Numbers DEF SentType, Payment
<1>4. SentType'
  BY <1>1, <1>2, <1>3 DEF SentType
<1>5. ReplyType'
  BY <1>1, <1>2 DEF ReplyType
<1>6. Stamped'
  BY <1>1, <1>2, <1>3, Numbers DEF Stamped, SentType, Payment
<1>7. Honest' /\ ResultIsTruth'
  BY <1>2 DEF GatewayInv, Honest, ResultIsTruth
<1> QED
  BY <1>4, <1>5, <1>6, <1>7, RestSame DEF SendNext, main

\* A payment that is not "no" has been sent, and has its number as timestamp.
LEMMA SentStamp ==
    ASSUME GatewayInv, NEW i \in Payment, pc[i] # "no" \/ owed[i] # {}
    PROVE  i <= highest /\ stamp[i] = i /\ i \in Stamp
  BY TypeParts, Numbers DEF GatewayInv, Stamped, SentType, Payment

\* Clearing the counts of a payment that is sent.
LEMMA ClearCountsInv ==
    ASSUME GatewayInv, NEW i \in Payment, ClearCounts(i)
    PROVE  GatewayInv'
<1>1. SentType /\ ReplyType /\ Stamped /\ Honest
  BY TypeParts DEF GatewayInv
<1>2. stamp[i] = i /\ i \in Stamp /\ i <= highest
  BY SentStamp DEF ClearCounts
<1> DEFINE zero == [yes |-> 0, no |-> 0]
<1>3. zero \in Counts
  BY Numbers DEF Counts, Count
<1>4. count' = [count EXCEPT ![i] = zero] /\ pc' = [pc EXCEPT ![i] = "call"]
  BY <1>2 DEF ClearCounts
<1>5. zero.yes = 0 /\ zero.no = 0
  OBVIOUS
<1> HIDE DEF zero
<1>6. SentType'
  BY <1>1, <1>4 DEF ClearCounts, SentType
<1>7. ReplyType'
  BY <1>1, <1>3, <1>4 DEF ClearCounts, ReplyType
<1>8. Stamped'
  BY <1>1, <1>2, <1>4 DEF ClearCounts, Stamped, SentType
<1>9. Honest'
  <2>1. \A m \in waiting' : m.result = Truth(m.stamp)
    BY <1>1 DEF ClearCounts, Honest
  <2>2. \A ts \in Stamp : /\ count'[ts].yes > 0 => Truth(ts) = TRUE
                          /\ count'[ts].no > 0 => Truth(ts) = FALSE
    <3> SUFFICES ASSUME NEW ts \in Stamp
                 PROVE  /\ count'[ts].yes > 0 => Truth(ts) = TRUE
                        /\ count'[ts].no > 0 => Truth(ts) = FALSE
      OBVIOUS
    <3>1. CASE ts = i
      BY <1>1, <1>2, <1>4, <1>5, <3>1 DEF ReplyType
    <3>2. CASE ts # i
      BY <1>1, <1>4, <3>2 DEF ReplyType, Honest
    <3> QED
      BY <3>1, <3>2
  <2> QED
    BY <2>1, <2>2 DEF Honest, Truth
<1>10. ResultIsTruth'
  BY DEF ClearCounts, GatewayInv, ResultIsTruth
<1> QED
  BY <1>6, <1>7, <1>8, <1>9, <1>10, RestSame DEF ClearCounts

\* A step of payment i that brings it to c and its debts to o, which are none before
\* it is sent.
LEMMA PcAndOwed ==
    ASSUME GatewayInv, NEW i \in Payment, i <= highest,
           NEW c \in {"clear", "call", "wait", "done"}, NEW o \in SUBSET Server,
           pc' = [pc EXCEPT ![i] = c], owed' = [owed EXCEPT ![i] = o],
           store' \in [Payment -> SUBSET Server], UNCHANGED <<highest, stamp>>
    PROVE  SentType' /\ Stamped'
<1>1. SentType /\ Stamped
  BY TypeParts DEF GatewayInv
<1>2. SentType'
  BY <1>1 DEF SentType
<1>3. Stamped'
  BY <1>1 DEF SentType, Stamped
<1> QED
  BY <1>2, <1>3

LEMMA OwedSame ==
    ASSUME GatewayInv, NEW i \in Payment
    PROVE  /\ owed = [owed EXCEPT ![i] = owed[i]] /\ owed[i] \in SUBSET Server
           /\ store \in [Payment -> SUBSET Server]
           /\ pc = [pc EXCEPT ![i] = pc[i]] /\ pc[i] \in {"no", "clear", "call", "wait", "done"}
  BY TypeParts DEF GatewayInv, SentType

LEMMA CallInv ==
    ASSUME GatewayInv, NEW i \in Payment, Call(i)
    PROVE  GatewayInv'
<1>1. i <= highest
  BY SentStamp DEF Call
<1>2. Executing(i) \in SUBSET Server
  BY DEF Executing, Voters
<1>3. PICK o \in SUBSET Server : owed' = [owed EXCEPT ![i] = o]
  <2>1. owed[i] \cup Executing(i) \in SUBSET Server
    BY <1>2, OwedSame
  <2> QED
    BY <2>1 DEF Call
<1>4. store' \in [Payment -> SUBSET Server]
  BY <1>2, OwedSame DEF Call
<1>5. SentType' /\ Stamped'
  BY <1>1, <1>3, <1>4, PcAndOwed DEF Call
<1>6. ReplyType' /\ Honest' /\ ResultIsTruth'
  BY TypeParts DEF Call, GatewayInv, ReplyType, Honest, ResultIsTruth
<1> QED
  BY <1>5, <1>6, RestSame DEF Call

LEMMA ReplyInv ==
    ASSUME GatewayInv, NEW n \in Server, NEW i \in Payment, Reply(n, i)
    PROVE  GatewayInv'
<1>1. i <= highest /\ stamp[i] = i /\ i \in Stamp
  BY SentStamp DEF Reply
<1>2. SentType' /\ Stamped'
  <2>1. SentType /\ Stamped
    BY TypeParts DEF GatewayInv
  <2>2. owed[i] \ {n} \in SUBSET Server /\ owed' = [owed EXCEPT ![i] = owed[i] \ {n}]
    BY OwedSame DEF Reply
  <2>3. SentType'
    BY <2>1, <2>2 DEF SentType, Reply
  <2>4. Stamped'
    BY <1>1, <2>1, <2>2 DEF SentType, Stamped, Reply
  <2> QED
    BY <2>3, <2>4
<1>3. ReplyOf(n, i) \in Replies /\ ReplyOf(n, i).result = Truth(ReplyOf(n, i).stamp)
  BY <1>1, TruthBoolean DEF ReplyOf, Replies
<1>4. waiting' \subseteq waiting \cup {ReplyOf(n, i)}
  BY DEF Reply
<1>5. ReplyType'
  BY <1>3, <1>4, TypeParts DEF Reply, GatewayInv, ReplyType
<1>6. Honest' /\ ResultIsTruth'
  BY <1>3, <1>4 DEF Reply, GatewayInv, Honest, ResultIsTruth
<1> QED
  BY <1>2, <1>5, <1>6, RestSame DEF Reply

LEMMA readRepliesInv ==
    ASSUME GatewayInv, readReplies
    PROVE  GatewayInv'
<1>1. SentType /\ ReplyType /\ Stamped /\ Honest
  BY TypeParts DEF GatewayInv
<1>2. PICK m \in waiting :
        /\ waiting' = waiting \ {m}
        /\ count' = [count EXCEPT ![m.stamp] = Counted(@, m.result)]
        /\ UNCHANGED <<keys, main, switches, highest, stamp, pc, store, owed, early, result>>
  BY DEF readReplies
<1> DEFINE ts == m.stamp
<1> DEFINE new == Counted(count[ts], m.result)
<1>3. ts \in Stamp /\ m.result \in BOOLEAN /\ m.result = Truth(ts) /\ count[ts] \in Counts
  BY <1>1 DEF ReplyType, Replies, Honest
<1>4. /\ new \in Counts
      /\ m.result = TRUE => new.no = count[ts].no
      /\ m.result = FALSE => new.yes = count[ts].yes
  BY <1>3, CountedOne
<1>5. count' = [count EXCEPT ![ts] = new]
  BY <1>2
<1> HIDE DEF new
<1>6. ReplyType'
  BY <1>1, <1>2, <1>3, <1>4, <1>5 DEF ReplyType
<1>7. \A s \in Stamp : /\ count'[s].yes > 0 => Truth(s) = TRUE
                       /\ count'[s].no > 0 => Truth(s) = FALSE
  <2> SUFFICES ASSUME NEW s \in Stamp
               PROVE  /\ count'[s].yes > 0 => Truth(s) = TRUE
                      /\ count'[s].no > 0 => Truth(s) = FALSE
    OBVIOUS
  <2>1. CASE s = ts
    <3>1. count'[s] = new
      BY <1>1, <1>5, <2>1 DEF ReplyType
    <3>2. /\ count[s].yes > 0 => Truth(s) = TRUE
          /\ count[s].no > 0 => Truth(s) = FALSE
      BY <1>1 DEF Honest
    <3>3. CASE m.result = TRUE
      BY <1>3, <1>4, <2>1, <3>1, <3>2, <3>3
    <3>4. CASE m.result = FALSE
      BY <1>3, <1>4, <2>1, <3>1, <3>2, <3>4
    <3> QED
      BY <1>3, <3>3, <3>4
  <2>2. CASE s # ts
    BY <1>1, <1>5, <2>2 DEF ReplyType, Honest
  <2> QED
    BY <2>1, <2>2
<1>8. Honest'
  <2>1. \A x \in waiting' : x.result = Truth(x.stamp)
    BY <1>1, <1>2 DEF Honest
  <2> QED
    BY <1>7, <2>1 DEF Honest, Truth
<1>9. SentType' /\ Stamped'
  BY <1>1, <1>2 DEF SentType, Stamped
<1>10. ResultIsTruth'
  BY <1>2 DEF GatewayInv, ResultIsTruth
<1> QED
  BY <1>2, <1>6, <1>8, <1>9, <1>10, RestSame

LEMMA FinishInv ==
    ASSUME GatewayInv, NEW i \in Payment, Finish(i)
    PROVE  GatewayInv'
<1>1. i <= highest /\ stamp[i] = i /\ i \in Stamp
  BY SentStamp DEF Finish
<1>2. SentType' /\ Stamped'
  <2>1. /\ owed' = [owed EXCEPT ![i] = owed[i]] /\ owed[i] \in SUBSET Server
        /\ store' \in [Payment -> SUBSET Server]
    BY OwedSame DEF Finish
  <2> QED
    BY <1>1, <2>1, PcAndOwed DEF Finish
<1> DEFINE r == count[i].yes > F
<1>3. result' = [result EXCEPT ![i] = @ \cup {r}]
  BY <1>1 DEF Finish, Stored
<1>4. r \in BOOLEAN /\ r = Truth(i)
  <2>1. /\ count[i].yes > 0 => Truth(i) = TRUE
        /\ count[i].no > 0 => Truth(i) = FALSE
    BY <1>1 DEF GatewayInv, Honest
  <2>2. count[i].yes > F \/ count[i].no > F
    BY <1>1 DEF Finish, Enough
  <2>3. count[i].yes \in Nat /\ count[i].no \in Nat /\ F \in Nat
    BY <1>1, TypeParts, Numbers DEF GatewayInv, ReplyType, Counts, Count
  <2>4. CASE count[i].yes > F
    <3>1. Truth(i) = TRUE
      BY <2>1, <2>3, <2>4
    <3> QED
      BY <2>4, <3>1
  <2>5. CASE ~(count[i].yes > F)
    <3>1. Truth(i) = FALSE
      BY <2>1, <2>2, <2>3, <2>5
    <3>2. r = FALSE
      BY <2>5
    <3> HIDE DEF r
    <3> QED
      BY <3>1, <3>2
  <2> QED
    BY <2>4, <2>5
<1> HIDE DEF r
<1>5. ReplyType'
  <2>1. result[i] \cup {r} \in SUBSET BOOLEAN /\ result \in [Payment -> SUBSET BOOLEAN]
    BY <1>4, TypeParts DEF GatewayInv, ReplyType
  <2>2. result' \in [Payment -> SUBSET BOOLEAN]
    BY <1>3, <2>1
  <2> QED
    BY <2>2, TypeParts DEF GatewayInv, ReplyType, Finish
<1>6. ResultIsTruth'
  BY <1>3, <1>4, TypeParts DEF GatewayInv, ReplyType, ResultIsTruth, Truth
<1>7. Honest'
  BY DEF Finish, GatewayInv, Honest, Truth
<1> QED
  BY <1>2, <1>5, <1>6, <1>7, RestSame DEF Finish

LEMMA TimeoutInv ==
    ASSUME GatewayInv, NEW i \in Payment, Timeout(i)
    PROVE  GatewayInv'
<1>1. i <= highest
  BY SentStamp DEF Timeout
<1>2. SentType' /\ Stamped'
  <2>1. /\ owed' = [owed EXCEPT ![i] = owed[i]] /\ owed[i] \in SUBSET Server
        /\ store' \in [Payment -> SUBSET Server]
    BY OwedSame DEF Timeout
  <2> QED
    BY <1>1, <2>1, PcAndOwed DEF Timeout
<1>3. early' \in 0..MaxEarly
  BY TypeParts, Numbers DEF Timeout, GatewayInv, ReplyType
<1>4. ReplyType'
  BY <1>3, TypeParts DEF Timeout, GatewayInv, ReplyType
<1>5. Honest' /\ ResultIsTruth'
  BY DEF Timeout, GatewayInv, Honest, ResultIsTruth, Truth
<1> QED
  BY <1>2, <1>4, <1>5, RestSame DEF Timeout

-----------------------------------------------------------------------------
(* The theorems.                                                           *)

LEMMA GatewayInit == Init => GatewayInv
<1> SUFFICES ASSUME Init PROVE GatewayInv
  OBVIOUS
<1>1. KeysTypeOK
  BY KeysInitInv DEF Init, KeysInv
<1>2. MainType
  BY DEF Init, MainType, Phase
<1>3. SentType
  BY Numbers DEF Init, SentType
<1>4. ReplyType
  <2> DEFINE zero == [yes |-> 0, no |-> 0]
  <2>1. zero \in Counts /\ count = [ts \in Stamp |-> zero]
    BY Numbers DEF Init, Counts, Count
  <2> HIDE DEF zero
  <2> QED
    BY <2>1, Numbers DEF Init, ReplyType
<1>5. Stamped
  BY Numbers DEF Init, Stamped, Payment
<1>6. Honest /\ ResultIsTruth
  BY DEF Init, Honest, ResultIsTruth
<1> QED
  BY <1>1, <1>2, <1>3, <1>4, <1>5, <1>6, TypeParts DEF GatewayInv

LEMMA GatewayStep == GatewayInv /\ [Next]_vars => GatewayInv'
<1> SUFFICES ASSUME GatewayInv, [Next]_vars PROVE GatewayInv'
  OBVIOUS
<1>1. CASE UNCHANGED vars
  <2>1. UNCHANGED payments /\ UNCHANGED keys /\ UNCHANGED main /\ UNCHANGED switches
    BY <1>1 DEF vars, payments
  <2>2. KeysTypeOK' /\ MainType'
    BY <2>1, TypeParts DEF GatewayInv, KeysTypeOK, MainType, keys, main, switches
  <2> QED
    BY <2>1, <2>2, PaymentsSame
<1>2. CASE \E p \in Process : StartProcess(p) \/ ExchangeKeys(p)
  BY <1>2, StartProcessInv, ExchangeKeysInv
<1>3. CASE NextSet \/ Main \/ readReplies
  BY <1>3, MainInv, SendNextInv, readRepliesInv DEF Main
<1>4. CASE \E i \in Payment : sendTransaction(i) \/ \E n \in Server : Reply(n, i)
  BY <1>4, ClearCountsInv, CallInv, FinishInv, TimeoutInv, ReplyInv DEF sendTransaction
<1> QED
  BY <1>1, <1>2, <1>3, <1>4 DEF Next

\* What main, executeTransactions, sendTransaction and readReplies keep is well typed,
\* whatever the input is.
THEOREM GatewayTypeCorrect == Spec => []TypeOK
<1>1. GatewayInv => TypeOK
  BY DEF GatewayInv
<1> QED
  BY <1>1, GatewayInit, GatewayStep, PTL DEF Spec

\* storeLatency is given no result that the servers did not come to, for any input,
\* number of servers, restarts, time-outs and late replies.
THEOREM ResultIsTruthHolds == Spec => []ResultIsTruth
<1>1. GatewayInv => ResultIsTruth
  BY DEF GatewayInv
<1> QED
  BY <1>1, GatewayInit, GatewayStep, PTL DEF Spec
===============================================================================
