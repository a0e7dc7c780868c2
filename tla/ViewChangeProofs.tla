---------------------------- MODULE ViewChangeProofs ----------------------------
(***************************************************************************)
(* Proofs about ViewChange, for any servers, views, slots and bounds:      *)
(* typing, the quorums of the first change of view, what it keeps, and     *)
(* that logs never go back.  They rest on what is behind a decision: the   *)
(* commits of 2F+1 servers, however views change meanwhile.                *)
(***************************************************************************)
EXTENDS ViewChange, FiniteSetTheorems, WellFoundedInduction, TLAPS

LEMMA Numbers ==
    /\ F \in Nat /\ MaxView \in Nat \ {0} /\ MaxSlot \in Nat /\ MaxCalls \in Nat /\ MaxFlips \in Nat
    /\ Cardinality(Node) \in Nat \ {0}
    /\ 1 \in View /\ View \subseteq Nat \ {0} /\ Slot \subseteq Nat \ {0}
  BY ViewAssumption, FS_CardinalityType DEF View, Slot

LEMMA LeaderInNode == ASSUME NEW v \in View PROVE getViewLeader(v) \in Node
<1>1. v - 1 \in Nat
  BY Numbers
<1>2. ((v - 1) % Cardinality(Node)) + 1 \in 1..Cardinality(Node)
  BY <1>1, Numbers
<1> QED
  BY <1>2, ViewAssumption DEF getViewLeader

\* A set of numbers that are bounded has a greatest element.
LEMMA MaxIn ==
    ASSUME NEW k \in Nat, NEW S \in SUBSET (0..k), S # {}
    PROVE  Max(S) \in S /\ \A x \in S : x <= Max(S)
<1> DEFINE T == {k - x : x \in S}
<1>1. T \subseteq Nat /\ T # {}
  <2>1. \A x \in S : k - x \in Nat
    OBVIOUS
  <2>2. T # {}
    OBVIOUS
  <2> QED
    BY <2>1, <2>2
<1>2. PICK y \in T : \A z \in T : ~(<<z, y>> \in OpToRel(<, Nat))
  BY <1>1, NatLessThanWellFounded, WFMin
<1>3. \A z \in T : ~(z < y)
  BY <1>1, <1>2 DEF OpToRel
<1>4. PICK x \in S : y = k - x
  OBVIOUS
<1>5. \A z \in S : x >= z
  <2> SUFFICES ASSUME NEW z \in S PROVE x >= z
    OBVIOUS
  <2>1. k - z \in T
    OBVIOUS
  <2>2. ~(k - z < k - x)
    BY <1>3, <1>4, <2>1
  <2> QED
    BY <2>2
<1> QED
  BY <1>5 DEF Max

-----------------------------------------------------------------------------
(* The parts of TypeOK.                                                    *)

FlagType ==
    /\ live \in [Node -> BOOLEAN]
    /\ flips \in 0..MaxFlips
    /\ calls \in 0..MaxCalls

ChangeType ==
    /\ view \in [Node -> View]
    /\ changing \in [Node -> BOOLEAN]
    /\ newNum \in [Node -> 0..MaxView]
    /\ timer \in [Node -> {"off", "on", "spent"}]
    /\ vcs \in [Node -> SUBSET Cert]
    /\ sent \in [Node -> SUBSET View]

LogEntry == [view : 0..MaxView, state : {0, 1, 2, 3, 5}]
LogType  == [Node -> [Slot -> LogEntry]]
StoreType == [Node -> [Slot -> 0..MaxView]]
JobType == [Node -> [View -> [Slot -> JobPc]]]
RunType == [View -> [Slot -> RunPc]]

OrderType ==
    /\ seq \in [Node -> 1..(MaxSlot + 1)]
    /\ exec \in [Node -> 1..(MaxSlot + 1)]
    /\ log \in LogType
    /\ store \in StoreType
    /\ ran \in [Node -> [Slot -> Nat]]
    /\ pc \in RunType
    /\ job \in JobType

\* Only finitely many certificates have arrived.
CertsFinite == \A n \in Node : IsFiniteSet(vcs[n])

LEMMA TypeParts == TypeOK <=> FlagType /\ ChangeType /\ OrderType /\ net \subseteq Msg /\ todo \subseteq Job
  BY DEF TypeOK, FlagType, ChangeType, OrderType, LogEntry, LogType, StoreType, JobType, RunType

LEMMA TypePartsNext ==
    TypeOK' <=> FlagType' /\ ChangeType' /\ OrderType' /\ net' \subseteq Msg /\ todo' \subseteq Job
  BY DEF TypeOK, FlagType, ChangeType, OrderType, LogEntry, LogType, StoreType, JobType, RunType

\* What is stored was decided by a run, and a decided run has the commits it needs.
DecisionsBacked ==
    /\ \A n \in Node, s \in Slot :
         store[n][s] # 0 => pc[store[n][s]][s] = "decided"
    /\ \A v \in View, s \in Slot : pc[v][s] = "decided" =>
         Cardinality({n \in Node : job[n][v][s] \in {"commWait", "end"}}) >= 2 * F + 1

\* What the decisions rest on: the jobs and the runs agree, and a pre-prepare on its
\* way is for a server that has not begun.
Backed ==
    /\ \A v \in View, s \in Slot : pc[v][s] = "none" => \A n \in Node : job[n][v][s] = "none"
    /\ \A m \in net : m.type = "preprepare" =>
         /\ job[m.to][m.view][m.slot] = "none" /\ pc[m.view][m.slot] # "none"
         /\ m.to # getViewLeader(m.view)
    /\ DecisionsBacked

ViewInv == TypeOK /\ CertsFinite /\ Backed

-----------------------------------------------------------------------------
(* Updates of the typed functions.                                         *)

LEMMA RaisedType ==
    ASSUME log \in LogType, NEW n \in Node, NEW s \in Slot, NEW st \in {2, 3, 5}
    PROVE  Raised(n, s, st) \in LogType
<1> DEFINE new == IF log[n][s].state < st THEN st ELSE log[n][s].state
<1> DEFINE e == [log[n][s] EXCEPT !.state = new]
<1>1. new \in {0, 1, 2, 3, 5}
  BY DEF LogType, LogEntry
<1>2. Raised(n, s, st) = [log EXCEPT ![n][s].state = new]
  BY DEF Raised
<1> HIDE DEF new
<1>3. e \in LogEntry
  BY <1>1 DEF LogType, LogEntry
<1>4. [log EXCEPT ![n][s].state = new] = [log EXCEPT ![n][s] = e]
  OBVIOUS
<1> HIDE DEF e
<1>5. [log EXCEPT ![n][s] = e] \in LogType
  BY <1>3 DEF LogType
<1> QED
  BY <1>2, <1>4, <1>5

LEMMA GoesType ==
    ASSUME job \in JobType, NEW n \in Node, NEW v \in View, NEW s \in Slot, NEW at \in JobPc, Goes(n, v, s, at)
    PROVE  /\ job' \in JobType
           /\ job'[n][v][s] = at
           /\ \A m \in Node, w \in View, r \in Slot :
                m # n \/ w # v \/ r # s => job'[m][w][r] = job[m][w][r]
<1> DEFINE f == [job[n][v] EXCEPT ![s] = at]
<1>1. f \in [Slot -> JobPc] /\ f[s] = at /\ \A r \in Slot : r # s => f[r] = job[n][v][r]
  BY DEF JobType
<1>2. job' = [job EXCEPT ![n][v] = f]
  BY DEF Goes
<1> HIDE DEF f
<1> DEFINE g == [job[n] EXCEPT ![v] = f]
<1>3. g \in [View -> [Slot -> JobPc]] /\ g[v] = f /\ \A w \in View : w # v => g[w] = job[n][w]
  BY <1>1 DEF JobType
<1>4. job' = [job EXCEPT ![n] = g]
  BY <1>2
<1> HIDE DEF g
<1>5. job' \in JobType /\ job'[n] = g /\ \A m \in Node : m # n => job'[m] = job[m]
  BY <1>3, <1>4 DEF JobType
<1> QED
  BY <1>1, <1>3, <1>5

LEMMA RunAfter ==
    ASSUME pc \in RunType, NEW v \in View, NEW s \in Slot, NEW at \in RunPc,
           pc' = [pc EXCEPT ![v][s] = at]
    PROVE  /\ pc' \in RunType
           /\ pc'[v][s] = at
           /\ \A w \in View, r \in Slot : w # v \/ r # s => pc'[w][r] = pc[w][r]
  BY DEF RunType

LEMMA TimerType ==
    ASSUME timer \in [Node -> {"off", "on", "spent"}], NEW n \in Node
    PROVE  /\ StartIfNotRunning(n) \in [Node -> {"off", "on", "spent"}]
           /\ Stopped(n) \in [Node -> {"off", "on", "spent"}]
  BY DEF StartIfNotRunning, Stopped

-----------------------------------------------------------------------------
(* Requests.                                                               *)

LEMMA BackedSame ==
    ASSUME Backed, UNCHANGED <<job, pc, store>>, \A m \in net' : m.type = "preprepare" => m \in net
    PROVE  Backed'
<1>1. DecisionsBacked'
  BY DEF Backed, DecisionsBacked
<1> QED
  BY <1>1 DEF Backed, getViewLeader

\* A run gets another state, which is not "decided".
LEMMA BackedRun ==
    ASSUME Backed, OrderType, NEW v \in View, NEW s \in Slot, NEW at \in RunPc, pc[v][s] # "decided",
           at \notin {"none", "decided"}, pc' = [pc EXCEPT ![v][s] = at], UNCHANGED <<job, store>>,
           \A m \in net' : m.type = "preprepare" =>
               m \in net \/ (/\ m.view = v /\ m.slot = s /\ m.to # getViewLeader(v)
                             /\ m.to \in Node /\ pc[v][s] = "none"),
           net \subseteq Msg
    PROVE  Backed'
<1>1. /\ pc'[v][s] = at
      /\ \A w \in View, r \in Slot : w # v \/ r # s => pc'[w][r] = pc[w][r]
  <2>1. pc \in RunType
    BY DEF OrderType
  <2> QED
    BY <2>1 DEF RunType
<1>2. \A w \in View, r \in Slot : pc'[w][r] = "none" => \A n \in Node : job'[n][w][r] = "none"
  BY <1>1 DEF Backed
<1>3. ASSUME NEW m \in net', m.type = "preprepare"
      PROVE  /\ job'[m.to][m.view][m.slot] = "none" /\ pc'[m.view][m.slot] # "none"
             /\ m.to # getViewLeader(m.view)
  <2>1. CASE m \in net
    <3>1. m.view \in View /\ m.slot \in Slot
      BY <1>3, <2>1 DEF Msg
    <3> QED
      BY <1>1, <1>3, <2>1, <3>1 DEF Backed
  <2>2. CASE m.view = v /\ m.slot = s /\ m.to # getViewLeader(v) /\ m.to \in Node /\ pc[v][s] = "none"
    BY <1>1, <2>2 DEF Backed
  <2> QED
    BY <1>3, <2>1, <2>2
<1>4. DecisionsBacked'
  <2>1. ASSUME NEW n \in Node, NEW r \in Slot, store'[n][r] # 0
        PROVE  pc'[store'[n][r]][r] = "decided"
    <3>1. pc[store[n][r]][r] = "decided" /\ store[n][r] \in View
      BY <2>1, Numbers DEF Backed, DecisionsBacked, OrderType, StoreType, View
    <3>2. store[n][r] # v \/ r # s
      BY <3>1
    <3> QED
      BY <1>1, <2>1, <3>1, <3>2
  <2>2. ASSUME NEW w \in View, NEW r \in Slot, pc'[w][r] = "decided"
        PROVE  Cardinality({n \in Node : job'[n][w][r] \in {"commWait", "end"}}) >= 2 * F + 1
    <3>1. pc[w][r] = "decided"
      BY <1>1, <2>2
    <3> QED
      BY <3>1 DEF Backed, DecisionsBacked
  <2> QED
    BY <2>1, <2>2 DEF DecisionsBacked
<1> QED
  BY <1>2, <1>3, <1>4 DEF Backed, getViewLeader

LEMMA HandleInv ==
    ASSUME ViewInv, NEW n \in Node, NEW k \in 1..MaxCalls, NEW rest \in SUBSET net, Handle(n, k, rest)
    PROVE  OrderType' /\ timer' \in [Node -> {"off", "on", "spent"}] /\ net' \subseteq Msg /\ Backed'
<1>1. OrderType /\ ChangeType /\ net \subseteq Msg /\ Backed
  BY TypeParts DEF ViewInv
<1> DEFINE s == seq[n]
<1> DEFINE v == view[n]
<1>2. timer' \in [Node -> {"off", "on", "spent"}]
  BY <1>1, TimerType DEF Handle, ChangeType
<1>3. ASSUME UNCHANGED ordering, net' \subseteq Msg,
             \A m \in net' : m.type = "preprepare" => m \in net
      PROVE  OrderType' /\ net' \subseteq Msg /\ Backed'
  <2>1. Backed'
    BY <1>1, <1>3, BackedSame DEF ordering
  <2> QED
    BY <1>1, <1>3, <2>1 DEF ordering, OrderType
<1>4. CASE UNCHANGED ordering /\ net' = rest
  BY <1>1, <1>2, <1>3, <1>4
<1>5. CASE /\ UNCHANGED ordering
           /\ net' = rest \cup {[type |-> "call", to |-> LeaderOf(n), call |-> k]}
  <2>1. LeaderOf(n) \in Node
    BY <1>1, LeaderInNode DEF ChangeType, LeaderOf
  <2>2. [type |-> "call", to |-> LeaderOf(n), call |-> k] \in Msg
    BY <2>1 DEF Msg
  <2> QED
    BY <1>1, <1>2, <1>3, <1>5, <2>2
<1>6. CASE /\ LeaderOf(n) = n /\ s \in Slot /\ pc[v][s] = "none"
           /\ seq' = [seq EXCEPT ![n] = s + 1]
           /\ log' = [log EXCEPT ![n][s] = [view |-> v, state |-> PrePrepared]]
           /\ pc' = [pc EXCEPT ![v][s] = "prepares"]
           /\ net' = rest \cup [type : {"preprepare"}, to : Others(n), view : {v}, slot : {s}]
           /\ UNCHANGED <<exec, store, ran, job>>
  <2>1. v \in View /\ n = getViewLeader(v)
    BY <1>1, <1>6 DEF ChangeType, LeaderOf
  <2>2. s + 1 \in 1..(MaxSlot + 1)
    BY <1>6, Numbers DEF Slot
  <2>3. [view |-> v, state |-> PrePrepared] \in LogEntry
    BY <2>1, Numbers DEF LogEntry, PrePrepared, View
  <2>4. log' \in LogType
    BY <1>1, <1>6, <2>3 DEF OrderType, LogType
  <2>5. pc' \in RunType
    BY <1>1, <1>6, <2>1, RunAfter DEF OrderType, RunPc
  <2>6. OrderType'
    BY <1>1, <1>6, <2>2, <2>4, <2>5 DEF OrderType
  <2>7. [type : {"preprepare"}, to : Others(n), view : {v}, slot : {s}] \subseteq Msg
    BY <1>6, <2>1 DEF Msg, Others
  <2>8. \A m \in net' : m.type = "preprepare" =>
           m \in net \/ (/\ m.view = v /\ m.slot = s /\ m.to # getViewLeader(v)
                         /\ m.to \in Node /\ pc[v][s] = "none")
    BY <1>6, <2>1 DEF Others
  <2>9. Backed'
    <3>1. "prepares" \in RunPc /\ "prepares" \notin {"none", "decided"}
      BY DEF RunPc
    <3>2. UNCHANGED <<job, store>> /\ s \in Slot /\ v \in View /\ pc[v][s] # "decided"
      BY <1>6, <2>1
    <3> HIDE DEF s, v
    <3> QED
      BY <1>1, <1>6, <2>8, <3>1, <3>2, BackedRun
  <2> QED
    BY <1>1, <1>2, <1>6, <2>6, <2>7, <2>9
<1> QED
  BY <1>4, <1>5, <1>6 DEF Handle

\* What a server stores is decided by the leader.
LEMMA StoredDecided ==
    ASSUME Backed, OrderType, NEW v \in View, NEW s \in Slot,
           \A w \in View, r \in Slot : pc[w][r] = "decided" => pc'[w][r] = "decided",
           \A n \in Node, r \in Slot : store'[n][r] = store[n][r] \/ (r = s /\ store'[n][r] = v),
           store' = store \/ pc'[v][s] = "decided"
    PROVE  \A n \in Node, r \in Slot : store'[n][r] # 0 => pc'[store'[n][r]][r] = "decided"
<1> SUFFICES ASSUME NEW n \in Node, NEW r \in Slot, store'[n][r] # 0
             PROVE  pc'[store'[n][r]][r] = "decided"
  OBVIOUS
<1>1. CASE store'[n][r] = store[n][r]
  <2>1. store[n][r] \in View /\ pc[store[n][r]][r] = "decided"
    <3>1. store[n][r] \in 0..MaxView /\ store[n][r] # 0
      BY <1>1 DEF OrderType, StoreType
    <3>2. store[n][r] \in View
      BY <3>1, Numbers DEF View
    <3> QED
      BY <3>1, <3>2 DEF Backed, DecisionsBacked
  <2> QED
    BY <1>1, <2>1
<1>2. CASE store'[n][r] # store[n][r]
  BY <1>2
<1> QED
  BY <1>1, <1>2

\* Server n's job for the run of view v and slot s goes on.
LEMMA BackedJob ==
    ASSUME Backed, OrderType, net \subseteq Msg, NEW n \in Node, NEW v \in View, NEW s \in Slot,
           NEW at \in JobPc, at # "none", Goes(n, v, s, at),
           pc[v][s] = "decided" /\ job[n][v][s] \in {"commWait", "end"} => at \in {"commWait", "end"},
           \A w \in View, r \in Slot : /\ (pc'[w][r] = "none") <=> (pc[w][r] = "none")
                                       /\ (pc'[w][r] = "decided") <=> (pc[w][r] = "decided"),
           pc[v][s] # "none",
           \A m \in net' : m.type = "preprepare" =>
               m \in net /\ ~(m.to = n /\ m.view = v /\ m.slot = s),
           \A m \in Node, r \in Slot : store'[m][r] = store[m][r] \/ (r = s /\ store'[m][r] = v),
           store' = store \/ pc'[v][s] = "decided"
    PROVE  Backed'
<1>1. /\ job'[n][v][s] = at
      /\ \A m \in Node, w \in View, r \in Slot :
           m # n \/ w # v \/ r # s => job'[m][w][r] = job[m][w][r]
  BY GoesType DEF OrderType
<1>2. \A w \in View, r \in Slot : pc'[w][r] = "none" => \A m \in Node : job'[m][w][r] = "none"
  BY <1>1 DEF Backed
<1>3. ASSUME NEW m \in net', m.type = "preprepare"
      PROVE  /\ job'[m.to][m.view][m.slot] = "none" /\ pc'[m.view][m.slot] # "none"
             /\ m.to # getViewLeader(m.view)
  <2>1. m \in net /\ m.to \in Node /\ m.view \in View /\ m.slot \in Slot
    BY <1>3 DEF Msg
  <2> QED
    BY <1>1, <1>3, <2>1 DEF Backed
<1>4. \A m \in Node, r \in Slot : store'[m][r] # 0 => pc'[store'[m][r]][r] = "decided"
  BY StoredDecided
<1>5. ASSUME NEW w \in View, NEW r \in Slot, pc'[w][r] = "decided"
      PROVE  Cardinality({m \in Node : job'[m][w][r] \in {"commWait", "end"}}) >= 2 * F + 1
  <2> DEFINE old == {m \in Node : job[m][w][r] \in {"commWait", "end"}}
  <2> DEFINE new == {m \in Node : job'[m][w][r] \in {"commWait", "end"}}
  <2>1. old \subseteq new
    <3>1. pc[w][r] = "decided"
      BY <1>5
    <3> SUFFICES ASSUME NEW m \in Node, job[m][w][r] \in {"commWait", "end"}
                 PROVE  job'[m][w][r] \in {"commWait", "end"}
      OBVIOUS
    <3>2. CASE m = n /\ w = v /\ r = s
      BY <1>1, <3>1, <3>2
    <3>3. CASE m # n \/ w # v \/ r # s
      BY <1>1, <3>3
    <3> QED
      BY <3>2, <3>3
  <2>2. IsFiniteSet(new)
    <3>1. new \subseteq Node /\ IsFiniteSet(Node)
      BY ViewAssumption
    <3> QED
      BY <3>1, FS_Subset
  <2>3. Cardinality(old) >= 2 * F + 1
    BY <1>5 DEF Backed, DecisionsBacked
  <2>4. IsFiniteSet(old) /\ Cardinality(old) <= Cardinality(new)
    BY <2>1, <2>2, FS_Subset
  <2>5. Cardinality(old) \in Nat /\ Cardinality(new) \in Nat
    BY <2>2, <2>4, FS_CardinalityType
  <2> QED
    BY <2>3, <2>4, <2>5, Numbers
<1> QED
  BY <1>2, <1>3, <1>4, <1>5 DEF Backed, DecisionsBacked, getViewLeader

\* Two pre-prepares for the same server, view and slot are the same message.
LEMMA SamePrePrepare ==
    ASSUME net \subseteq Msg, NEW m \in net, NEW k \in net,
           m.type = "preprepare", k.type = "preprepare",
           k.to = m.to, k.view = m.view, k.slot = m.slot
    PROVE  k = m
<1> DEFINE PP == [type : {"preprepare"}, to : Node, view : View, slot : Slot]
<1>1. m \in PP /\ k \in PP
  BY DEF Msg
<1> QED
  BY <1>1

LEMMA PrePrepareInv ==
    ASSUME ViewInv, NEW m \in net, PrePrepare(m)
    PROVE  OrderType' /\ timer' \in [Node -> {"off", "on", "spent"}] /\ net' \subseteq Msg /\ Backed'
<1>1. OrderType /\ ChangeType /\ net \subseteq Msg /\ Backed
  BY TypeParts DEF ViewInv
<1> DEFINE n == m.to
<1> DEFINE v == m.view
<1> DEFINE s == m.slot
<1>2. m.type = "preprepare" /\ n \in Node /\ v \in View /\ s \in Slot /\ net' = net \ {m}
  BY <1>1 DEF PrePrepare, Msg
<1>3. timer' \in [Node -> {"off", "on", "spent"}]
  BY <1>1, <1>2, TimerType DEF PrePrepare, ChangeType
<1>4. CASE UNCHANGED <<log, job>>
  <2>1. OrderType'
    BY <1>1, <1>4 DEF PrePrepare, OrderType
  <2>2. Backed'
    BY <1>1, <1>2, <1>4, BackedSame DEF PrePrepare
  <2> QED
    BY <1>1, <1>2, <1>3, <2>1, <2>2
<1>5. CASE /\ log' = [log EXCEPT ![n][s] = [view |-> v, state |-> PrePrepared]]
           /\ \E at \in {"prepWait", "refused"} : Goes(n, v, s, at)
  <2>1. PICK at \in {"prepWait", "refused"} : Goes(n, v, s, at)
    BY <1>5
  <2>2. at \in JobPc /\ at # "none"
    BY DEF JobPc
  <2>3. job' \in JobType
    BY <1>1, <1>2, <2>1, <2>2, GoesType DEF OrderType
  <2>4. [view |-> v, state |-> PrePrepared] \in LogEntry
    BY <1>2, Numbers DEF LogEntry, PrePrepared, View
  <2>5. log' \in LogType
    BY <1>1, <1>2, <1>5, <2>4 DEF OrderType, LogType
  <2>6. OrderType'
    BY <1>1, <2>3, <2>5 DEF PrePrepare, OrderType
  <2>7. job[n][v][s] = "none" /\ pc[v][s] # "none"
    BY <1>1, <1>2 DEF Backed
  <2>8. \A k \in net' : k.type = "preprepare" => k \in net /\ ~(k.to = n /\ k.view = v /\ k.slot = s)
    BY <1>1, <1>2, SamePrePrepare
  <2>9. UNCHANGED <<pc, store>>
    BY DEF PrePrepare
  <2>10. Backed'
    BY <1>1, <1>2, <2>1, <2>2, <2>7, <2>8, <2>9, BackedJob
  <2> QED
    BY <1>1, <1>2, <1>3, <2>6, <2>10
<1>6. UNCHANGED <<log, job>>
        \/ (/\ log' = [log EXCEPT ![n][s] = [view |-> v, state |-> PrePrepared]]
            /\ \E at \in {"prepWait", "refused"} : Goes(n, v, s, at))
  BY DEF PrePrepare
<1> QED
  BY <1>4, <1>5, <1>6

\* What server n's log gets is well typed, in the steps that only raise a state.
LEMMA RaisedOrSame ==
    ASSUME log \in LogType, NEW n \in Node, NEW s \in Slot, NEW st \in {2, 3, 5},
           log' = log \/ log' = Raised(n, s, st)
    PROVE  log' \in LogType
  BY RaisedType

LEMMA FinishPreparesInv ==
    ASSUME ViewInv, NEW v \in View, NEW s \in Slot, FinishPrepares(v, s)
    PROVE  OrderType' /\ Backed'
<1>1. OrderType /\ net \subseteq Msg /\ Backed
  BY TypeParts DEF ViewInv
<1> DEFINE l == getViewLeader(v)
<1>2. l \in Node /\ pc[v][s] = "prepares" /\ UNCHANGED <<seq, exec, store, ran, net>>
  BY LeaderInNode DEF FinishPrepares
<1>3. CASE pc' = [pc EXCEPT ![v][s] = "notPrepared"] /\ UNCHANGED <<log, job>>
  <2>1. pc' \in RunType
    BY <1>1, <1>3 DEF OrderType, RunType, RunPc
  <2>2. OrderType'
    BY <1>1, <1>2, <1>3, <2>1 DEF OrderType
  <2>3. Backed'
    BY <1>1, <1>2, <1>3, BackedRun DEF RunPc
  <2> QED
    BY <2>2, <2>3
<1>4. CASE /\ log' = log \/ log' = Raised(l, s, Prepared)
           /\ pc' = [pc EXCEPT ![v][s] = "commits"]
           /\ \E at \in {"commWait", "refused"} : Goes(l, v, s, at)
  <2>1. PICK at \in {"commWait", "refused"} : Goes(l, v, s, at)
    BY <1>4
  <2>2. at \in JobPc /\ at # "none"
    BY DEF JobPc
  <2>3. job' \in JobType
    BY <1>1, <1>2, <2>1, <2>2, GoesType DEF OrderType
  <2>4. log' \in LogType
    BY <1>1, <1>2, <1>4, RaisedOrSame DEF OrderType, Prepared
  <2>5. pc' \in RunType /\ pc'[v][s] = "commits"
        /\ \A w \in View, r \in Slot : w # v \/ r # s => pc'[w][r] = pc[w][r]
    BY <1>1, <1>4 DEF OrderType, RunType, RunPc
  <2>6. OrderType'
    BY <1>1, <1>2, <2>3, <2>4, <2>5 DEF OrderType
  <2>7. \A w \in View, r \in Slot : /\ (pc'[w][r] = "none") <=> (pc[w][r] = "none")
                                    /\ (pc'[w][r] = "decided") <=> (pc[w][r] = "decided")
    BY <1>2, <2>5
  <2>8. \A m \in net' : m.type = "preprepare" => m \in net /\ ~(m.to = l /\ m.view = v /\ m.slot = s)
    BY <1>1, <1>2 DEF Backed
  <2>9. Backed'
    BY <1>1, <1>2, <2>1, <2>2, <2>7, <2>8, BackedJob
  <2> QED
    BY <2>6, <2>9
<1> QED
  BY <1>3, <1>4 DEF FinishPrepares

LEMMA PrepareDoneInv ==
    ASSUME ViewInv, NEW n \in Node, NEW v \in View, NEW s \in Slot, PrepareDone(n, v, s)
    PROVE  OrderType' /\ Backed'
<1>1. OrderType /\ net \subseteq Msg /\ Backed
  BY TypeParts DEF ViewInv
<1>2. /\ job[n][v][s] = "prepWait" /\ UNCHANGED <<seq, exec, store, ran, pc, net>>
      /\ log' = log \/ log' = Raised(n, s, Prepared)
      /\ \E at \in {"commWait", "refused"} : Goes(n, v, s, at)
  BY DEF PrepareDone
<1>3. PICK at \in {"commWait", "refused"} : Goes(n, v, s, at)
  BY <1>2
<1>4. at \in JobPc /\ at # "none"
  BY DEF JobPc
<1>5. job' \in JobType
  BY <1>1, <1>3, <1>4, GoesType DEF OrderType
<1>6. log' \in LogType
  BY <1>1, <1>2, RaisedOrSame DEF OrderType, Prepared
<1>7. OrderType'
  BY <1>1, <1>2, <1>5, <1>6 DEF OrderType
<1>8. pc[v][s] # "none"
  BY <1>1, <1>2 DEF Backed
<1>9. \A m \in net' : m.type = "preprepare" => m \in net /\ ~(m.to = n /\ m.view = v /\ m.slot = s)
  BY <1>1, <1>2 DEF Backed
<1>10. Backed'
  BY <1>1, <1>2, <1>3, <1>4, <1>8, <1>9, BackedJob
<1> QED
  BY <1>7, <1>10

LEMMA SaveCommitType ==
    ASSUME OrderType, NEW n \in Node, NEW v \in View, NEW s \in Slot, SaveCommit(n, v, s)
    PROVE  /\ log' \in LogType /\ store' \in StoreType
           /\ \A m \in Node, r \in Slot : store'[m][r] = store[m][r] \/ (r = s /\ store'[m][r] = v)
<1>1. log' \in LogType
  BY RaisedOrSame DEF SaveCommit, OrderType, Committed
<1>2. v \in 0..MaxView /\ store' = [store EXCEPT ![n][s] = v]
  BY DEF SaveCommit, View
<1>3. store' \in StoreType
  BY <1>2 DEF OrderType, StoreType
<1>4. \A m \in Node, r \in Slot : store'[m][r] = store[m][r] \/ (r = s /\ store'[m][r] = v)
  BY <1>2 DEF OrderType, StoreType
<1> QED
  BY <1>1, <1>3, <1>4

LEMMA FinishCommitsInv ==
    ASSUME ViewInv, NEW v \in View, NEW s \in Slot, FinishCommits(v, s)
    PROVE  OrderType' /\ Backed'
<1>1. OrderType /\ net \subseteq Msg /\ Backed
  BY TypeParts DEF ViewInv
<1> DEFINE l == getViewLeader(v)
<1>2. l \in Node /\ pc[v][s] = "commits" /\ UNCHANGED <<seq, exec, ran, job, net>>
  BY LeaderInNode DEF FinishCommits
<1>3. CASE pc' = [pc EXCEPT ![v][s] = "notCommitted"] /\ UNCHANGED <<log, store>>
  <2>1. pc' \in RunType
    BY <1>1, <1>3 DEF OrderType, RunType, RunPc
  <2>2. OrderType'
    BY <1>1, <1>2, <1>3, <2>1 DEF OrderType
  <2>3. Backed'
    BY <1>1, <1>2, <1>3, BackedRun DEF RunPc
  <2> QED
    BY <2>2, <2>3
<1>4. CASE /\ SaveCommit(l, v, s)
           /\ pc' = [pc EXCEPT ![v][s] = "decided"]
           /\ Cardinality(Voters(v, s, "commWait")) >= CommitQuorum
  <2>1. /\ log' \in LogType /\ store' \in StoreType
        /\ \A m \in Node, r \in Slot : store'[m][r] = store[m][r] \/ (r = s /\ store'[m][r] = v)
    BY <1>1, <1>2, <1>4, SaveCommitType
  <2>2. pc' \in RunType /\ pc'[v][s] = "decided"
        /\ \A w \in View, r \in Slot : w # v \/ r # s => pc'[w][r] = pc[w][r]
    BY <1>1, <1>4 DEF OrderType, RunType, RunPc
  <2>3. OrderType'
    BY <1>1, <1>2, <2>1, <2>2 DEF OrderType
  <2>4. \A m \in Node, r \in Slot : store'[m][r] # 0 => pc'[store'[m][r]][r] = "decided"
    BY <1>1, <1>2, <2>1, <2>2, StoredDecided
  <2>5. ASSUME NEW w \in View, NEW r \in Slot, pc'[w][r] = "decided"
        PROVE  Cardinality({m \in Node : job'[m][w][r] \in {"commWait", "end"}}) >= 2 * F + 1
    <3> DEFINE set == {m \in Node : job'[m][w][r] \in {"commWait", "end"}}
    <3>1. CASE w = v /\ r = s
      <4>1. Voters(v, s, "commWait") \subseteq set
        BY <1>2, <3>1 DEF Voters
      <4>2. IsFiniteSet(set)
        <5>1. set \subseteq Node /\ IsFiniteSet(Node)
          BY ViewAssumption
        <5> QED
          BY <5>1, FS_Subset
      <4>3. IsFiniteSet(Voters(v, s, "commWait")) /\ Cardinality(Voters(v, s, "commWait")) <= Cardinality(set)
        BY <4>1, <4>2, FS_Subset
      <4>4. Cardinality(Voters(v, s, "commWait")) \in Nat /\ Cardinality(set) \in Nat
        BY <4>2, <4>3, FS_CardinalityType
      <4> QED
        BY <1>4, <4>3, <4>4, Numbers DEF CommitQuorum
    <3>2. CASE w # v \/ r # s
      BY <1>1, <1>2, <2>2, <2>5, <3>2 DEF Backed, DecisionsBacked
    <3> QED
      BY <3>1, <3>2
  <2>6. \A w \in View, r \in Slot : pc'[w][r] = "none" => \A n \in Node : job'[n][w][r] = "none"
    BY <1>1, <1>2, <2>2 DEF Backed
  <2>7. ASSUME NEW m \in net', m.type = "preprepare"
        PROVE  /\ job'[m.to][m.view][m.slot] = "none" /\ pc'[m.view][m.slot] # "none"
               /\ m.to # getViewLeader(m.view)
    <3>1. m \in net /\ m.view \in View /\ m.slot \in Slot
      BY <1>1, <1>2, <2>7 DEF Msg
    <3> QED
      BY <1>1, <1>2, <2>2, <2>7, <3>1 DEF Backed
  <2>8. Backed'
    BY <2>4, <2>5, <2>6, <2>7 DEF Backed, DecisionsBacked, getViewLeader
  <2> QED
    BY <2>3, <2>8
<1> QED
  BY <1>3, <1>4 DEF FinishCommits

LEMMA CommitDoneInv ==
    ASSUME ViewInv, NEW n \in Node, NEW v \in View, NEW s \in Slot, CommitDone(n, v, s)
    PROVE  OrderType' /\ Backed'
<1>1. OrderType /\ net \subseteq Msg /\ Backed
  BY TypeParts DEF ViewInv
<1>2. /\ job[n][v][s] = "commWait" /\ UNCHANGED <<seq, exec, ran, pc, net>> /\ Goes(n, v, s, "end")
      /\ \/ SaveCommit(n, v, s) /\ pc[v][s] = "decided"
         \/ UNCHANGED <<log, store>>
  BY DEF CommitDone
<1>3. job' \in JobType
  BY <1>1, <1>2, GoesType DEF OrderType, JobPc
<1>4. /\ log' \in LogType /\ store' \in StoreType
      /\ \A m \in Node, r \in Slot : store'[m][r] = store[m][r] \/ (r = s /\ store'[m][r] = v)
  BY <1>1, <1>2, SaveCommitType DEF OrderType
<1>5. OrderType'
  BY <1>1, <1>2, <1>3, <1>4 DEF OrderType
<1>6. pc[v][s] # "none"
  BY <1>1, <1>2 DEF Backed
<1>7. \A m \in net' : m.type = "preprepare" => m \in net /\ ~(m.to = n /\ m.view = v /\ m.slot = s)
  BY <1>1, <1>2 DEF Backed
<1>8. store' = store \/ pc'[v][s] = "decided"
  BY <1>2
<1>9. Backed'
  BY <1>1, <1>2, <1>4, <1>6, <1>7, <1>8, BackedJob DEF JobPc
<1> QED
  BY <1>5, <1>9

LEMMA ExecuteInv ==
    ASSUME ViewInv, NEW n \in Node, Execute(n)
    PROVE  OrderType' /\ Backed'
<1>1. OrderType /\ net \subseteq Msg /\ Backed
  BY TypeParts DEF ViewInv
<1> DEFINE s == exec[n]
<1>2. s \in Slot /\ log' = Raised(n, s, Executed)
  BY DEF Execute
<1>3. log' \in LogType
  BY <1>1, <1>2, RaisedOrSame DEF OrderType, Executed
<1>4. exec' \in [Node -> 1..(MaxSlot + 1)]
  <2>1. s + 1 \in 1..(MaxSlot + 1) /\ exec' = [exec EXCEPT ![n] = s + 1]
    BY <1>2, Numbers DEF Execute, Slot
  <2> QED
    BY <1>1, <2>1 DEF OrderType
<1>5. ran' \in [Node -> [Slot -> Nat]]
  <2>1. ran[n][s] + 1 \in Nat /\ ran' = [ran EXCEPT ![n][s] = ran[n][s] + 1]
    BY <1>1, <1>2 DEF Execute, OrderType
  <2> QED
    BY <1>1, <1>2, <2>1 DEF OrderType
<1>6. OrderType'
  BY <1>1, <1>3, <1>4, <1>5 DEF Execute, OrderType
<1>7. Backed'
  BY <1>1, BackedSame DEF Execute
<1> QED
  BY <1>6, <1>7

-----------------------------------------------------------------------------
(* Leaving a view.                                                         *)

LEMMA OwnCertType ==
    ASSUME TypeOK, CertsFinite, NEW n \in Node, NEW v \in View
    PROVE  OwnCert(n, v) \in Cert
<1>1. TopPrepared(n) \in 0..MaxSlot
  <2> DEFINE S == {0} \cup {s \in Slot : log[n][s].state >= Prepared}
  <2>1. S \in SUBSET (0..MaxSlot) /\ S # {}
    BY Numbers DEF Slot
  <2>2. Max(S) \in S
    BY <2>1, MaxIn, Numbers
  <2> QED
    BY <2>1, <2>2 DEF TopPrepared
<1>2. 1 + Cardinality({c \in CertsFor(vcs[n], v) : c.from = n}) \in Nat \ {0}
  <2> DEFINE own == {c \in CertsFor(vcs[n], v) : c.from = n}
  <2>1. own \subseteq vcs[n] /\ IsFiniteSet(vcs[n])
    BY DEF CertsFinite, CertsFor
  <2>2. Cardinality(own) \in Nat
    BY <2>1, FS_Subset, FS_CardinalityType
  <2> QED
    BY <2>2
<1> QED
  BY <1>1, <1>2 DEF OwnCert, Cert

LEMMA CertsTypes ==
    ASSUME ChangeType, CertsFinite, NEW n \in Node, NEW certs \in SUBSET Cert, IsFiniteSet(certs),
           vcs' = [vcs EXCEPT ![n] = certs]
    PROVE  vcs' \in [Node -> SUBSET Cert] /\ CertsFinite'
<1>1. vcs' \in [Node -> SUBSET Cert] /\ vcs'[n] = certs /\ \A m \in Node : m # n => vcs'[m] = vcs[m]
  BY DEF ChangeType
<1>2. CertsFinite'
  BY <1>1 DEF CertsFinite
<1> QED
  BY <1>1, <1>2

\* A server asks for view v, or does not, with finitely many certificates.
LEMMA AskType ==
    ASSUME ViewInv, NEW n \in Node, NEW v \in View, NEW certs \in SUBSET Cert, IsFiniteSet(certs),
           NEW rest \in SUBSET net, sendViewChange(n, v, certs, rest)
    PROVE  /\ timer' \in [Node -> {"off", "on", "spent"}]
           /\ changing' \in [Node -> BOOLEAN] /\ newNum' \in [Node -> 0..MaxView]
           /\ vcs' \in [Node -> SUBSET Cert] /\ CertsFinite'
           /\ net' \subseteq Msg /\ \A m \in net' : m.type = "preprepare" => m \in net
<1>1. ChangeType /\ net \subseteq Msg /\ TypeOK /\ CertsFinite
  BY TypeParts DEF ViewInv
<1>2. OwnCert(n, v) \in Cert
  BY <1>1, OwnCertType
<1>3. v \in 0..MaxView
  BY DEF View
<1>4. CASE Asks(n, v)
  <2>1. /\ timer' = Stopped(n)
        /\ changing' = [changing EXCEPT ![n] = TRUE]
        /\ newNum' = [newNum EXCEPT ![n] = v]
        /\ net' = rest \cup [type : {"viewchange"}, to : Others(n), cert : {OwnCert(n, v)}]
        /\ vcs' = [vcs EXCEPT ![n] = certs \cup {OwnCert(n, v)}]
    BY <1>4 DEF sendViewChange
  <2>2. certs \cup {OwnCert(n, v)} \in SUBSET Cert /\ IsFiniteSet(certs \cup {OwnCert(n, v)})
    BY <1>2, FS_AddElement
  <2>3. vcs' \in [Node -> SUBSET Cert] /\ CertsFinite'
    BY <1>1, <2>1, <2>2, CertsTypes
  <2>4. /\ timer' \in [Node -> {"off", "on", "spent"}]
        /\ changing' \in [Node -> BOOLEAN] /\ newNum' \in [Node -> 0..MaxView]
    BY <1>1, <1>3, <2>1, TimerType DEF ChangeType
  <2>5. [type : {"viewchange"}, to : Others(n), cert : {OwnCert(n, v)}] \subseteq Msg
    BY <1>2 DEF Msg, Others
  <2>6. \A m \in net' : m.type = "preprepare" => m \in net
    BY <2>1
  <2> QED
    BY <1>1, <2>1, <2>3, <2>4, <2>5, <2>6
<1>5. CASE ~Asks(n, v)
  <2>1. net' = rest /\ vcs' = [vcs EXCEPT ![n] = certs] /\ UNCHANGED <<timer, changing, newNum>>
    BY <1>5 DEF sendViewChange
  <2>2. vcs' \in [Node -> SUBSET Cert] /\ CertsFinite'
    BY <1>1, <2>1, CertsTypes
  <2> QED
    BY <1>1, <2>1, <2>2 DEF ChangeType
<1> QED
  BY <1>4, <1>5

LEMMA ExpireInv ==
    ASSUME ViewInv, NEW n \in Node, Expire(n)
    PROVE  ViewInv'
<1> DEFINE v == IF changing[n] THEN newNum[n] + 1 ELSE view[n] + 1
<1>1. FlagType /\ ChangeType /\ OrderType /\ net \subseteq Msg /\ todo \subseteq Job /\ Backed /\ CertsFinite
  BY TypeParts DEF ViewInv
<1>2. v \in View /\ UNCHANGED <<flags, view, sent, ordering, todo>>
  BY DEF Expire
<1>3. /\ timer' \in [Node -> {"off", "on", "spent"}]
      /\ changing' \in [Node -> BOOLEAN] /\ newNum' \in [Node -> 0..MaxView]
      /\ vcs' \in [Node -> SUBSET Cert] /\ CertsFinite'
      /\ net' \subseteq Msg /\ \A m \in net' : m.type = "preprepare" => m \in net
  <2>1. CASE Asks(n, v)
    <3>1. sendViewChange(n, v, vcs[n], net)
      BY <2>1 DEF Expire
    <3>2. vcs[n] \in SUBSET Cert /\ IsFiniteSet(vcs[n])
      BY <1>1 DEF ChangeType, CertsFinite
    <3> QED
      BY <1>2, <3>1, <3>2, AskType
  <2>2. CASE ~Asks(n, v)
    <3>1. timer' = [timer EXCEPT ![n] = "spent"] /\ UNCHANGED <<changing, newNum, net, vcs>>
      BY <2>2 DEF Expire
    <3> QED
      BY <1>1, <3>1 DEF ChangeType, CertsFinite
  <2> QED
    BY <2>1, <2>2
<1> HIDE DEF v
<1>4. ChangeType'
  BY <1>1, <1>2, <1>3 DEF ChangeType
<1>5. FlagType' /\ OrderType' /\ todo' \subseteq Job
  BY <1>1, <1>2 DEF flags, ordering, FlagType, OrderType
<1>6. Backed'
  BY <1>1, <1>2, <1>3, BackedSame DEF ordering
<1> QED
  BY <1>3, <1>4, <1>5, <1>6, TypePartsNext DEF ViewInv

LEMMA ViewChangeInv ==
    ASSUME ViewInv, NEW m \in net, ViewChange(m)
    PROVE  ViewInv'
<1> DEFINE n == m.to
<1> DEFINE v == m.cert.view
<1> DEFINE certs == vcs[n] \cup {m.cert}
<1> DEFINE have == CertsFor(certs, v)
<1>1. FlagType /\ ChangeType /\ OrderType /\ net \subseteq Msg /\ todo \subseteq Job /\ Backed /\ CertsFinite
  BY TypeParts DEF ViewInv
<1>2. n \in Node /\ m.cert \in Cert /\ v \in View
  BY <1>1 DEF ViewChange, Msg, Cert
<1>3. certs \in SUBSET Cert /\ IsFiniteSet(certs)
  <2>1. vcs[n] \in SUBSET Cert /\ IsFiniteSet(vcs[n])
    BY <1>1, <1>2 DEF ChangeType, CertsFinite
  <2> QED
    BY <1>2, <2>1, FS_AddElement
<1>4. UNCHANGED <<flags, view, sent, ordering>>
  BY DEF ViewChange
<1>5. /\ timer' \in [Node -> {"off", "on", "spent"}]
      /\ changing' \in [Node -> BOOLEAN] /\ newNum' \in [Node -> 0..MaxView]
      /\ vcs' \in [Node -> SUBSET Cert] /\ CertsFinite'
      /\ net' \subseteq Msg /\ \A k \in net' : k.type = "preprepare" => k \in net
  <2>1. CASE sendViewChange(n, v, certs, net \ {m})
    <3>1. net \ {m} \in SUBSET net
      OBVIOUS
    <3> HIDE DEF certs
    <3> QED
      BY <1>2, <1>3, <2>1, <3>1, AskType
  <2>2. CASE vcs' = [vcs EXCEPT ![n] = certs] /\ net' = net \ {m} /\ UNCHANGED <<timer, changing, newNum>>
    <3>1. vcs' \in [Node -> SUBSET Cert] /\ CertsFinite'
      <4> HIDE DEF certs
      <4> QED
        BY <1>1, <1>2, <1>3, <2>2, CertsTypes
    <3> QED
      BY <1>1, <2>2, <3>1 DEF ChangeType
  <2> QED
    BY <2>1, <2>2 DEF ViewChange
<1>6. todo' \subseteq Job
  <2>1. TopOf(have) \in 0..MaxSlot
    <3> DEFINE S == {c.top : c \in have}
    <3>1. m.cert \in have /\ have \subseteq Cert
      BY <1>3 DEF CertsFor
    <3>2. S \in SUBSET (0..MaxSlot) /\ S # {}
      BY <3>1 DEF Cert
    <3>3. Max(S) \in S
      BY <3>2, MaxIn, Numbers
    <3> QED
      BY <3>2, <3>3 DEF TopOf
  <2>2. [node |-> n, view |-> v, top |-> TopOf(have)] \in Job
    BY <1>2, <2>1 DEF Job
  <2>3. todo' = todo \/ todo' = todo \cup {[node |-> n, view |-> v, top |-> TopOf(have)]}
    BY DEF ViewChange
  <2> QED
    BY <1>1, <2>2, <2>3
<1> HIDE DEF n, v, certs, have
<1>7. ChangeType'
  BY <1>1, <1>4, <1>5 DEF ChangeType
<1>8. FlagType' /\ OrderType'
  BY <1>1, <1>4 DEF flags, ordering, FlagType, OrderType
<1>9. Backed'
  BY <1>1, <1>4, <1>5, BackedSame DEF ordering
<1> QED
  BY <1>5, <1>6, <1>7, <1>8, <1>9, TypePartsNext DEF ViewInv

LEMMA EnterType ==
    ASSUME ChangeType, OrderType, NEW n \in Node, NEW v \in View, NEW top \in 0..MaxSlot, Enter(n, v, top)
    PROVE  /\ view' \in [Node -> View] /\ changing' \in [Node -> BOOLEAN]
           /\ timer' \in [Node -> {"off", "on", "spent"}]
           /\ seq' \in [Node -> 1..(MaxSlot + 1)] /\ exec' \in [Node -> 1..(MaxSlot + 1)]
<1>1. top + 1 \in 1..(MaxSlot + 1) /\ 1 \in 1..(MaxSlot + 1)
  BY Numbers
<1>2. seq' \in [Node -> 1..(MaxSlot + 1)] /\ exec' \in [Node -> 1..(MaxSlot + 1)]
  BY <1>1 DEF Enter, OrderType
<1>3. /\ view' \in [Node -> View] /\ changing' \in [Node -> BOOLEAN]
      /\ timer' \in [Node -> {"off", "on", "spent"}]
  BY TimerType DEF Enter, ChangeType
<1> QED
  BY <1>2, <1>3

\* What both handlers of a new view leave as it is.
LEMMA EnteredInv ==
    ASSUME ViewInv, view' \in [Node -> View], changing' \in [Node -> BOOLEAN],
           timer' \in [Node -> {"off", "on", "spent"}], sent' \in [Node -> SUBSET View],
           seq' \in [Node -> 1..(MaxSlot + 1)], exec' \in [Node -> 1..(MaxSlot + 1)],
           net' \subseteq Msg, \A m \in net' : m.type = "preprepare" => m \in net, todo' \subseteq Job,
           UNCHANGED <<flags, newNum, vcs, log, store, ran, pc, job>>
    PROVE  ViewInv'
<1>1. FlagType /\ ChangeType /\ OrderType /\ Backed /\ CertsFinite
  BY TypeParts DEF ViewInv
<1>2. FlagType' /\ ChangeType' /\ OrderType' /\ CertsFinite'
  BY <1>1 DEF flags, FlagType, ChangeType, OrderType, CertsFinite
<1>3. Backed'
  BY <1>1, BackedSame
<1> QED
  BY <1>2, <1>3, TypePartsNext DEF ViewInv

LEMMA SendNewViewInv ==
    ASSUME ViewInv, NEW j \in todo, SendNewView(j)
    PROVE  ViewInv'
<1>1. ChangeType /\ OrderType /\ net \subseteq Msg /\ todo \subseteq Job
  BY TypeParts DEF ViewInv
<1>2. j.node \in Node /\ j.view \in View /\ j.top \in 0..MaxSlot
  BY <1>1 DEF Job
<1>3. todo' \subseteq Job /\ UNCHANGED <<flags, newNum, vcs, log, store, ran, pc, job>>
  BY <1>1 DEF SendNewView
<1>4. CASE /\ Enter(j.node, j.view, j.top)
           /\ sent' = [sent EXCEPT ![j.node] = @ \cup {j.view}]
           /\ net' = net \cup [type : {"newview"}, to : Others(j.node), from : {j.node},
                               view : {j.view}, top : {j.top}]
  <2>1. sent' \in [Node -> SUBSET View]
    BY <1>1, <1>2, <1>4 DEF ChangeType
  <2>2. [type : {"newview"}, to : Others(j.node), from : {j.node}, view : {j.view}, top : {j.top}] \subseteq Msg
    BY <1>2 DEF Msg, Others
  <2>3. net' \subseteq Msg /\ \A m \in net' : m.type = "preprepare" => m \in net
    BY <1>1, <1>4, <2>2
  <2> QED
    BY <1>1, <1>2, <1>3, <1>4, <2>1, <2>3, EnterType, EnteredInv
<1>5. CASE UNCHANGED <<view, changing, timer, seq, exec, sent, net>>
  BY <1>1, <1>3, <1>5, EnteredInv DEF ChangeType, OrderType
<1> QED
  BY <1>4, <1>5 DEF SendNewView

LEMMA NewViewInv ==
    ASSUME ViewInv, NEW m \in net, NewView(m)
    PROVE  ViewInv'
<1>1. ChangeType /\ OrderType /\ net \subseteq Msg /\ todo \subseteq Job
  BY TypeParts DEF ViewInv
<1>2. m.to \in Node /\ m.view \in View /\ m.top \in 0..MaxSlot
  BY <1>1 DEF NewView, Msg
<1>3. /\ UNCHANGED <<flags, newNum, vcs, sent, log, store, ran, pc, job, todo>>
      /\ net' = net \ {m}
  BY DEF NewView
<1>4. sent' \in [Node -> SUBSET View] /\ todo' \subseteq Job /\ net' \subseteq Msg
      /\ \A k \in net' : k.type = "preprepare" => k \in net
  BY <1>1, <1>3 DEF ChangeType
<1>5. CASE Enter(m.to, m.view, m.top)
  BY <1>1, <1>2, <1>3, <1>4, <1>5, EnterType, EnteredInv
<1>6. CASE timer' = Stopped(m.to) /\ UNCHANGED <<view, changing, seq, exec>>
  <2>1. timer' \in [Node -> {"off", "on", "spent"}]
    BY <1>1, <1>2, <1>6, TimerType DEF ChangeType
  <2> QED
    BY <1>1, <1>3, <1>4, <1>6, <2>1, EnteredInv DEF ChangeType, OrderType
<1> QED
  BY <1>5, <1>6 DEF NewView

LEMMA SetStatusInv ==
    ASSUME ViewInv, NEW n \in Node, SetStatus(n)
    PROVE  ViewInv'
<1>1. FlagType /\ ChangeType /\ OrderType /\ net \subseteq Msg /\ todo \subseteq Job /\ Backed /\ CertsFinite
  BY TypeParts DEF ViewInv
<1>2. FlagType'
  <2>1. flips' \in 0..MaxFlips
    BY <1>1, Numbers DEF SetStatus, FlagType
  <2>2. live' \in [Node -> BOOLEAN]
    BY <1>1 DEF SetStatus, FlagType
  <2> QED
    BY <1>1, <2>1, <2>2 DEF SetStatus, FlagType
<1>3. ChangeType' /\ OrderType' /\ net' \subseteq Msg /\ todo' \subseteq Job /\ CertsFinite'
  BY <1>1 DEF SetStatus, change, ordering, ChangeType, OrderType, CertsFinite
<1>4. Backed'
  BY <1>1, BackedSame DEF SetStatus, ordering
<1> QED
  BY <1>2, <1>3, <1>4, TypePartsNext DEF ViewInv

-----------------------------------------------------------------------------
(* The theorems.                                                           *)

\* What the steps of ordering leave as it is.
LEMMA OrderedInv ==
    ASSUME ViewInv, OrderType', timer' \in [Node -> {"off", "on", "spent"}], net' \subseteq Msg, Backed',
           calls' \in 0..MaxCalls,
           UNCHANGED <<live, flips, view, changing, newNum, vcs, sent, todo>>
    PROVE  ViewInv'
<1>1. FlagType /\ ChangeType /\ todo \subseteq Job /\ CertsFinite
  BY TypeParts DEF ViewInv
<1>2. FlagType' /\ ChangeType' /\ todo' \subseteq Job /\ CertsFinite'
  BY <1>1 DEF FlagType, ChangeType, CertsFinite
<1> QED
  BY <1>2, TypePartsNext DEF ViewInv

LEMMA ViewInit == Init => ViewInv
<1> SUFFICES ASSUME Init PROVE ViewInv
  OBVIOUS
<1>1. FlagType
  BY Numbers DEF Init, FlagType
<1>2. ChangeType
  BY Numbers DEF Init, ChangeType
<1>3. OrderType
  <2>1. log \in LogType
    <3> DEFINE none == [view |-> 0, state |-> 0]
    <3>1. none \in LogEntry /\ log = [n \in Node |-> [s \in Slot |-> none]]
      BY Numbers DEF Init, LogEntry
    <3> HIDE DEF none
    <3> QED
      BY <3>1 DEF LogType
  <2>2. store \in StoreType /\ ran \in [Node -> [Slot -> Nat]]
    BY Numbers DEF Init, StoreType
  <2>3. pc \in RunType /\ job \in JobType
    BY DEF Init, RunType, JobType, RunPc, JobPc
  <2>4. seq \in [Node -> 1..(MaxSlot + 1)] /\ exec \in [Node -> 1..(MaxSlot + 1)]
    BY Numbers DEF Init
  <2> QED
    BY <2>1, <2>2, <2>3, <2>4 DEF OrderType
<1>4. net \subseteq Msg /\ todo \subseteq Job
  BY DEF Init
<1>5. CertsFinite
  BY FS_EmptySet DEF Init, CertsFinite
<1>6. Backed
  BY DEF Init, Backed, DecisionsBacked
<1> QED
  BY <1>1, <1>2, <1>3, <1>4, <1>5, <1>6, TypeParts DEF ViewInv

LEMMA OrderInv == ASSUME ViewInv, Order PROVE ViewInv'
<1>1. ChangeType /\ FlagType /\ net \subseteq Msg
  BY TypeParts DEF ViewInv
<1>2. OrderType' /\ Backed'
  BY FinishPreparesInv, FinishCommitsInv, PrepareDoneInv, CommitDoneInv DEF Order
<1>3. UNCHANGED <<flags, change, net, todo>>
  BY DEF Order, FinishPrepares, FinishCommits, PrepareDone, CommitDone
<1> QED
  BY <1>1, <1>2, <1>3, OrderedInv DEF flags, change, FlagType, ChangeType

LEMMA ReceiveInv == ASSUME ViewInv, NEW n \in Node, Receive(n) PROVE ViewInv'
<1>1. PICK m \in net : m.to = n /\ (Forwarded(m) \/ PrePrepare(m) \/ ViewChange(m) \/ NewView(m))
  BY DEF Receive
<1>2. FlagType /\ net \subseteq Msg
  BY TypeParts DEF ViewInv
<1>3. CASE Forwarded(m)
  <2>1. m.to \in Node /\ m.call \in 1..MaxCalls /\ net \ {m} \in SUBSET net
    BY <1>2, <1>3 DEF Forwarded, Msg
  <2>2. Handle(m.to, m.call, net \ {m})
        /\ UNCHANGED <<flags, view, changing, newNum, vcs, sent, todo>>
    BY <1>3 DEF Forwarded
  <2>3. OrderType' /\ timer' \in [Node -> {"off", "on", "spent"}] /\ net' \subseteq Msg /\ Backed'
    BY <2>1, <2>2, HandleInv
  <2> QED
    BY <1>2, <2>2, <2>3, OrderedInv DEF flags, FlagType
<1>4. CASE PrePrepare(m)
  BY <1>2, <1>4, PrePrepareInv, OrderedInv DEF PrePrepare, flags, FlagType
<1> QED
  BY <1>1, <1>3, <1>4, ViewChangeInv, NewViewInv

LEMMA CallsInv == ASSUME ViewInv, ExecuteTransaction \/ LoseForwarded PROVE ViewInv'
<1>1. FlagType /\ ChangeType /\ OrderType /\ net \subseteq Msg /\ Backed
  BY TypeParts DEF ViewInv
<1>2. CASE ExecuteTransaction
  <2>1. calls + 1 \in 1..MaxCalls /\ calls' \in 0..MaxCalls
    BY <1>1, <1>2, Numbers DEF ExecuteTransaction, FlagType
  <2>2. getViewLeader(1) \in Node /\ net \in SUBSET net
    BY Numbers, LeaderInNode
  <2>3. OrderType' /\ timer' \in [Node -> {"off", "on", "spent"}] /\ net' \subseteq Msg /\ Backed'
    BY <1>2, <2>1, <2>2, HandleInv DEF ExecuteTransaction
  <2> QED
    BY <1>2, <2>1, <2>3, OrderedInv DEF ExecuteTransaction
<1>3. CASE LoseForwarded
  <2>1. net' \subseteq net /\ UNCHANGED <<flags, change, ordering, todo>>
    BY <1>3 DEF LoseForwarded, Lose
  <2>2. OrderType' /\ timer' \in [Node -> {"off", "on", "spent"}] /\ net' \subseteq Msg
    BY <1>1, <2>1 DEF change, ordering, OrderType, ChangeType
  <2>3. Backed'
    BY <1>1, <2>1, BackedSame DEF ordering
  <2> QED
    BY <1>1, <2>1, <2>2, <2>3, OrderedInv DEF flags, change, FlagType
<1> QED
  BY <1>2, <1>3

LEMMA ViewStep == ViewInv /\ [Next]_vars => ViewInv'
<1> SUFFICES ASSUME ViewInv, [Next]_vars PROVE ViewInv'
  OBVIOUS
<1>1. FlagType /\ ChangeType /\ OrderType /\ net \subseteq Msg /\ todo \subseteq Job /\ Backed /\ CertsFinite
  BY TypeParts DEF ViewInv
<1>2. CASE UNCHANGED vars
  <2>1. UNCHANGED <<flags, change, ordering, net, todo>>
    BY <1>2 DEF vars
  <2>2. Backed'
    BY <1>1, <2>1, BackedSame DEF ordering
  <2>3. FlagType' /\ ChangeType' /\ OrderType' /\ net' \subseteq Msg /\ todo' \subseteq Job /\ CertsFinite'
    BY <1>1, <2>1 DEF flags, change, ordering, FlagType, ChangeType, OrderType, CertsFinite
  <2> QED
    BY <2>2, <2>3, TypePartsNext DEF ViewInv
<1>3. CASE ExecuteTransaction \/ LoseForwarded \/ Order
  BY <1>3, CallsInv, OrderInv
<1>4. ASSUME NEW n \in Node, Execute(n) PROVE ViewInv'
  <2>1. OrderType' /\ Backed' /\ UNCHANGED <<flags, change, net, todo>>
    BY <1>4, ExecuteInv DEF Execute
  <2> QED
    BY <1>1, <2>1, OrderedInv DEF flags, change, FlagType, ChangeType
<1>5. ASSUME NEW n \in Node, Work(n) PROVE ViewInv'
  BY <1>5, SendNewViewInv DEF Work
<1> QED
  BY <1>2, <1>3, <1>4, <1>5, ReceiveInv, ExpireInv, SetStatusInv DEF Next

\* The timer, the ViewChange and NewView handlers and the requests keep their types, for
\* any cluster and any number of views.
THEOREM ViewTypeCorrect == Spec => []TypeOK
<1>1. ViewInv => TypeOK
  BY DEF ViewInv
<1> QED
  BY <1>1, ViewInit, ViewStep, PTL DEF Spec

-----------------------------------------------------------------------------
(* What a server logs moves to later views only.                           *)

\* Nobody asks for a view beyond the second: the second change of view counts the
\* certificates of one server several times.
OneChange == \A n \in Node : newNum[n] <= 2

Voted == {"prepWait", "commWait", "end"}

\* A server logs a request in a view it has reached, and has logged what it votes for.
VotesInv ==
    /\ \A n \in Node, s \in Slot : log[n][s].view <= view[n]
    /\ \A n \in Node, v \in View, s \in Slot : job[n][v][s] \in Voted => log[n][s].view >= v

\* A step of ordering.
Forward ==
    /\ \A n \in Node, s \in Slot : log'[n][s].view >= log[n][s].view /\ log'[n][s].view <= view[n]
    /\ \A n \in Node, v \in View, s \in Slot :
         job'[n][v][s] \in Voted => job[n][v][s] \in Voted \/ log'[n][s].view >= v

LEMMA LogViews ==
    ASSUME OrderType, NEW n \in Node, NEW s \in Slot
    PROVE  log[n][s].view \in Nat
  BY Numbers DEF OrderType, LogType, LogEntry

LEMMA RaisedViews ==
    ASSUME OrderType, NEW n \in Node, NEW s \in Slot, NEW st \in {2, 3, 5}, log' = log \/ log' = Raised(n, s, st)
    PROVE  \A m \in Node, r \in Slot : log'[m][r].view = log[m][r].view
<1>1. CASE log' = Raised(n, s, st)
  <2> DEFINE new == IF log[n][s].state < st THEN st ELSE log[n][s].state
  <2> DEFINE e == [log[n][s] EXCEPT !.state = new]
  <2>1. log' = [log EXCEPT ![n][s] = e]
    BY <1>1 DEF Raised
  <2> HIDE DEF new
  <2>2. e.view = log[n][s].view
    BY DEF OrderType, LogType, LogEntry
  <2> HIDE DEF e
  <2>3. log \in [Node -> [Slot -> LogEntry]]
    BY DEF OrderType, LogType
  <2> QED
    BY <2>1, <2>2, <2>3
<1> QED
  BY <1>1

LEMMA LoggedViews ==
    ASSUME OrderType, VotesInv, NEW n \in Node, NEW s \in Slot, view[n] \in View,
           log' = [log EXCEPT ![n][s] = [view |-> view[n], state |-> PrePrepared]]
    PROVE  /\ log'[n][s].view = view[n]
           /\ \A m \in Node, r \in Slot : log'[m][r].view >= log[m][r].view /\ log'[m][r].view <= view[m]
<1> DEFINE e == [view |-> view[n], state |-> PrePrepared]
<1>1. e.view = view[n] /\ log' = [log EXCEPT ![n][s] = e]
  OBVIOUS
<1> HIDE DEF e
<1>2. log \in [Node -> [Slot -> LogEntry]]
  BY DEF OrderType, LogType
<1>3. log'[n][s] = e /\ \A m \in Node, r \in Slot : m # n \/ r # s => log'[m][r] = log[m][r]
  BY <1>1, <1>2
<1> QED
  BY <1>1, <1>3, LogViews, Numbers DEF VotesInv

\* Where no server's goroutine starts to vote and views of the log stay.
LEMMA QuietForward ==
    ASSUME OrderType, VotesInv, ordering' = ordering
    PROVE  Forward
  BY LogViews DEF VotesInv, ordering, Forward

\* One goroutine goes on, and the log keeps its views.
LEMMA VoteForward ==
    ASSUME OrderType, VotesInv, NEW n \in Node, NEW v \in View, NEW s \in Slot, NEW at \in JobPc,
           Goes(n, v, s, at), at \in Voted => job[n][v][s] \in Voted \/ log'[n][s].view >= v,
           \A m \in Node, r \in Slot : log'[m][r].view >= log[m][r].view /\ log'[m][r].view <= view[m]
    PROVE  Forward
<1>1. /\ job'[n][v][s] = at
      /\ \A m \in Node, w \in View, r \in Slot :
           m # n \/ w # v \/ r # s => job'[m][w][r] = job[m][w][r]
  BY GoesType DEF OrderType
<1> QED
  BY <1>1 DEF Forward

LEMMA OrderForward ==
    ASSUME ViewInv, VotesInv, Order
    PROVE  Forward
<1>1. OrderType /\ ChangeType
  BY TypeParts DEF ViewInv
<1>2. \A m \in Node, r \in Slot : log[m][r].view >= log[m][r].view /\ log[m][r].view <= view[m]
  BY <1>1, LogViews DEF VotesInv
<1>3. ASSUME NEW n \in Node, NEW s \in Slot, NEW st \in {2, 3, 5}, log' = log \/ log' = Raised(n, s, st)
      PROVE  \A m \in Node, r \in Slot : /\ log'[m][r].view = log[m][r].view
                                         /\ log'[m][r].view >= log[m][r].view /\ log'[m][r].view <= view[m]
  BY <1>1, <1>2, <1>3, RaisedViews
<1>4. ASSUME NEW v \in View, NEW s \in Slot, FinishPrepares(v, s) PROVE Forward
  <2> DEFINE l == getViewLeader(v)
  <2>1. l \in Node /\ (log' = log \/ log' = Raised(l, s, Prepared))
    BY <1>4, LeaderInNode DEF FinishPrepares
  <2>2. \A m \in Node, r \in Slot : /\ log'[m][r].view = log[m][r].view
                                    /\ log'[m][r].view >= log[m][r].view /\ log'[m][r].view <= view[m]
    BY <1>3, <2>1 DEF Prepared
  <2>3. CASE job' = job
    BY <2>2, <2>3 DEF Forward
  <2>4. CASE Holds(l, v, s) /\ \E at \in {"commWait", "refused"} : Goes(l, v, s, at)
    <3>1. PICK at \in {"commWait", "refused"} : Goes(l, v, s, at)
      BY <2>4
    <3>2. at \in JobPc
      BY DEF JobPc
    <3>3. log'[l][s].view >= v
      BY <2>1, <2>2, <2>4, Numbers DEF Holds
    <3> HIDE DEF l
    <3> QED
      BY <1>1, <2>1, <2>2, <3>1, <3>2, <3>3, VoteForward
  <2> QED
    BY <1>4, <2>3, <2>4 DEF FinishPrepares
<1>5. ASSUME NEW v \in View, NEW s \in Slot, FinishCommits(v, s) PROVE Forward
  <2> DEFINE l == getViewLeader(v)
  <2>1. l \in Node /\ (log' = log \/ log' = Raised(l, s, Committed)) /\ job' = job
    BY <1>5, LeaderInNode DEF FinishCommits, SaveCommit
  <2> QED
    BY <1>3, <2>1 DEF Forward, Committed
<1>6. ASSUME NEW v \in View, NEW s \in Slot, NEW n \in Node, PrepareDone(n, v, s) PROVE Forward
  <2>1. /\ job[n][v][s] = "prepWait" /\ (log' = log \/ log' = Raised(n, s, Prepared))
        /\ \E at \in {"commWait", "refused"} : Goes(n, v, s, at)
    BY <1>6 DEF PrepareDone
  <2>2. PICK at \in {"commWait", "refused"} : Goes(n, v, s, at)
    BY <2>1
  <2> QED
    BY <1>1, <1>3, <2>1, <2>2, VoteForward DEF Prepared, JobPc, Voted
<1>7. ASSUME NEW v \in View, NEW s \in Slot, NEW n \in Node, CommitDone(n, v, s) PROVE Forward
  <2>1. /\ job[n][v][s] = "commWait" /\ (log' = log \/ log' = Raised(n, s, Committed))
        /\ Goes(n, v, s, "end")
    BY <1>7 DEF CommitDone, SaveCommit
  <2> QED
    BY <1>1, <1>3, <2>1, VoteForward DEF Committed, JobPc, Voted
<1> QED
  BY <1>4, <1>5, <1>6, <1>7 DEF Order

LEMMA HandleForward ==
    ASSUME ViewInv, VotesInv, NEW n \in Node, NEW k, NEW rest, Handle(n, k, rest)
    PROVE  Forward
<1>1. OrderType /\ ChangeType
  BY TypeParts DEF ViewInv
<1>2. CASE ordering' = ordering
  BY <1>1, <1>2, QuietForward
<1>3. CASE /\ seq[n] \in Slot /\ job' = job
           /\ log' = [log EXCEPT ![n][seq[n]] = [view |-> view[n], state |-> PrePrepared]]
  <2>1. view[n] \in View
    BY <1>1 DEF ChangeType
  <2> QED
    BY <1>1, <1>3, <2>1, LoggedViews DEF Forward
<1> QED
  BY <1>2, <1>3 DEF Handle

LEMMA PrePrepareForward ==
    ASSUME ViewInv, VotesInv, NEW m \in net, PrePrepare(m)
    PROVE  Forward
<1>1. OrderType /\ ChangeType /\ net \subseteq Msg
  BY TypeParts DEF ViewInv
<1>2. m.to \in Node /\ m.view \in View /\ m.slot \in Slot
  BY <1>1 DEF PrePrepare, Msg
<1>3. CASE UNCHANGED <<log, job>>
  BY <1>1, <1>3, LogViews DEF VotesInv, Forward
<1>4. CASE /\ view[m.to] = m.view
           /\ log' = [log EXCEPT ![m.to][m.slot] = [view |-> m.view, state |-> PrePrepared]]
           /\ \E at \in {"prepWait", "refused"} : Goes(m.to, m.view, m.slot, at)
  <2>1. PICK at \in {"prepWait", "refused"} : Goes(m.to, m.view, m.slot, at)
    BY <1>4
  <2>2. /\ log'[m.to][m.slot].view = m.view
        /\ \A n \in Node, r \in Slot : log'[n][r].view >= log[n][r].view /\ log'[n][r].view <= view[n]
    BY <1>1, <1>2, <1>4, LoggedViews
  <2>3. at \in JobPc /\ log'[m.to][m.slot].view >= m.view
    <3>1. m.view \in Nat
      BY <1>2, Numbers
    <3>2. log'[m.to][m.slot].view >= m.view
      BY <2>2, <3>1
    <3> QED
      BY <3>2 DEF JobPc
  <2> QED
    BY <1>1, <1>2, <2>1, <2>2, <2>3, VoteForward
<1> QED
  BY <1>3, <1>4 DEF PrePrepare, Accepts

-----------------------------------------------------------------------------
(* The first change of view.                                               *)

\* The servers that have asked for a view.
Askers == {n \in Node : \E c \in vcs[n] : c.from = n}

\* Whoever sent a certificate has it too.
CertsOwned ==
    /\ \A n \in Node : \A c \in vcs[n] : c \in vcs[c.from]
    /\ \A m \in net : m.type = "viewchange" => m.cert \in vcs[m.cert.from]

\* A server asks once.
AskedOnce == \A n \in Node : \A c \in vcs[n] : c.from = n =>
    /\ c.view = 2
    /\ view[n] = 2 \/ (changing[n] /\ newNum[n] = 2)
    /\ \A d \in vcs[n] : d.from = n => d = c

\* Whoever is in the second view, or is about to tell or to hear of it, has 2F+1
\* servers behind it.
Entered ==
    /\ \A n \in Node : view[n] # 1 => view[n] = 2 /\ Cardinality(Askers) > 2 * F
    /\ \A m \in net : m.type = "newview" => m.view = 2 /\ Cardinality(Askers) > 2 * F
    /\ \A j \in todo : j.view = 2 /\ Cardinality(Askers) > 2 * F

ChangeInv == CertsOwned /\ AskedOnce /\ Entered

\* As many certificates, as many servers: every server that asked has sent one.
LEMMA CountsServers ==
    ASSUME ChangeInv, NEW certs, \A c \in certs : c.from \in Node /\ c \in vcs[c.from]
    PROVE  IsFiniteSet(certs) /\ Cardinality(certs) <= Cardinality(Askers)
<1> DEFINE f == [c \in certs |-> c.from]
<1>1. IsFiniteSet(Askers)
  <2>1. Askers \subseteq Node /\ IsFiniteSet(Node)
    BY ViewAssumption DEF Askers
  <2> QED
    BY <2>1, FS_Subset
<1>2. f \in [certs -> Askers]
  BY DEF Askers
<1>3. \A c, d \in certs : c.from = d.from => c = d
  BY DEF ChangeInv, AskedOnce
<1>4. f \in Injection(certs, Askers)
  BY <1>2, <1>3 DEF Injection, IsInjective
<1> QED
  BY <1>1, <1>4, FS_Injection

\* More askers are behind whatever had enough.
LEMMA AskersGrow ==
    ASSUME \A n \in Node : vcs[n] \subseteq vcs'[n]
    PROVE  /\ Cardinality(Askers) > 2 * F => Cardinality(Askers') > 2 * F
           /\ Askers \subseteq Askers'
<1>1. Askers \subseteq Askers' /\ Askers' \subseteq Node /\ IsFiniteSet(Node)
  BY ViewAssumption DEF Askers
<1>2. IsFiniteSet(Askers') /\ IsFiniteSet(Askers) /\ Cardinality(Askers) <= Cardinality(Askers')
  <2>1. IsFiniteSet(Askers')
    BY <1>1, FS_Subset
  <2> QED
    BY <1>1, <2>1, FS_Subset
<1>3. Cardinality(Askers) \in Nat /\ Cardinality(Askers') \in Nat
  BY <1>2, FS_CardinalityType
<1> QED
  BY <1>1, <1>2, <1>3, Numbers

\* Steps that leave views and certificates alone.
LEMMA QuietChange ==
    ASSUME ChangeInv, UNCHANGED <<view, changing, newNum, vcs, todo>>,
           \A m \in net' : m.type \in {"viewchange", "newview"} => m \in net
    PROVE  ChangeInv'
  BY DEF ChangeInv, CertsOwned, AskedOnce, Entered, Askers

\* The certificates of server n grow by one that is on its way and by its own.
LEMMA AskStep ==
    ASSUME ViewInv, ChangeInv, OneChange', NEW n \in Node, NEW v \in View, NEW certs, NEW rest \in SUBSET net,
           vcs[n] \subseteq certs, certs \subseteq Cert,
           \A c \in certs : c \in vcs[n] \/ c \in vcs[c.from],
           view' = view,
           \/ sendViewChange(n, v, certs, rest)
           \/ net' = rest /\ vcs' = [vcs EXCEPT ![n] = certs] /\ UNCHANGED <<changing, newNum>>
    PROVE  /\ CertsOwned' /\ AskedOnce'
           /\ \A m \in Node : vcs[m] \subseteq vcs'[m]
           /\ certs \subseteq vcs'[n]
           /\ \A m \in net' : m.type = "newview" => m \in net
           /\ Asks(n, v) /\ sendViewChange(n, v, certs, rest) => \E c \in vcs'[n] : c.from = n
<1>1. ChangeType /\ net \subseteq Msg
  BY TypeParts DEF ViewInv
<1>2. \A c \in certs : c \in vcs[c.from] /\ c.from \in Node
  BY DEF ChangeInv, CertsOwned, Cert
<1>3. \A m \in Node : \A c \in vcs[m] : c \in vcs[c.from] /\ c.from \in Node
  BY <1>1 DEF ChangeType, Cert, ChangeInv, CertsOwned
<1>4. \A m \in net : m.type = "viewchange" => m.cert \in vcs[m.cert.from] /\ m.cert.from \in Node
  BY <1>1 DEF Msg, Cert, ChangeInv, CertsOwned
<1>5. CASE Asks(n, v) /\ sendViewChange(n, v, certs, rest)
  <2> DEFINE own == OwnCert(n, v)
  <2>1. /\ changing' = [changing EXCEPT ![n] = TRUE]
        /\ newNum' = [newNum EXCEPT ![n] = v]
        /\ net' = rest \cup [type : {"viewchange"}, to : Others(n), cert : {own}]
        /\ vcs' = [vcs EXCEPT ![n] = certs \cup {own}]
    BY <1>5 DEF sendViewChange
  <2>2. own.from = n /\ own.view = v
    BY DEF OwnCert
  <2> HIDE DEF own
  <2>3. v = 2
    <3>1. newNum'[n] = v /\ v > view[n] /\ view[n] \in View
      BY <1>1, <1>5, <2>1 DEF ChangeType, Asks
    <3> QED
      BY <3>1, Numbers DEF OneChange, View
  <2>4. vcs'[n] = certs \cup {own} /\ \A m \in Node : m # n => vcs'[m] = vcs[m]
    BY <1>1, <2>1 DEF ChangeType
  <2>5. changing'[n] = TRUE /\ newNum'[n] = 2
        /\ \A m \in Node : m # n => changing'[m] = changing[m] /\ newNum'[m] = newNum[m]
    BY <1>1, <2>1, <2>3 DEF ChangeType
  <2>6. \A c \in certs : c.from # n
    <3> SUFFICES ASSUME NEW c \in certs, c.from = n PROVE FALSE
      OBVIOUS
    <3>1. c \in vcs[n]
      BY <1>2
    <3>2. view[n] = 2 \/ (changing[n] /\ newNum[n] = 2)
      BY <3>1 DEF ChangeInv, AskedOnce
    <3> QED
      BY <1>5, <2>3, <3>2 DEF Asks
  <2>7. \A m \in Node : vcs[m] \subseteq vcs'[m]
    BY <2>4
  <2>8. CertsOwned'
    <3>1. ASSUME NEW m \in Node, NEW c \in vcs'[m] PROVE c \in vcs'[c.from]
      BY <1>2, <1>3, <2>2, <2>4, <2>7, <3>1
    <3>2. ASSUME NEW m \in net', m.type = "viewchange" PROVE m.cert \in vcs'[m.cert.from]
      BY <1>4, <2>1, <2>2, <2>4, <2>7, <3>2
    <3> QED
      BY <3>1, <3>2 DEF CertsOwned
  <2>9. AskedOnce'
    <3> SUFFICES ASSUME NEW m \in Node, NEW c \in vcs'[m], c.from = m
                 PROVE  /\ c.view = 2
                        /\ view'[m] = 2 \/ (changing'[m] /\ newNum'[m] = 2)
                        /\ \A d \in vcs'[m] : d.from = m => d = c
      BY DEF AskedOnce
    <3>1. CASE m = n
      BY <2>2, <2>3, <2>4, <2>5, <2>6, <3>1
    <3>2. CASE m # n
      BY <2>4, <2>5, <3>2 DEF ChangeInv, AskedOnce
    <3> QED
      BY <3>1, <3>2
  <2>10. \A m \in net' : m.type = "newview" => m \in net
    BY <2>1
  <2> QED
    BY <2>2, <2>4, <2>7, <2>8, <2>9, <2>10
<1>6. CASE ~(Asks(n, v) /\ sendViewChange(n, v, certs, rest))
  <2>1. net' = rest /\ vcs' = [vcs EXCEPT ![n] = certs] /\ UNCHANGED <<changing, newNum>>
    BY <1>6 DEF sendViewChange
  <2>2. vcs'[n] = certs /\ \A m \in Node : m # n => vcs'[m] = vcs[m]
    BY <1>1, <2>1 DEF ChangeType
  <2>3. \A m \in Node : vcs[m] \subseteq vcs'[m]
    BY <2>2
  <2>4. CertsOwned'
    BY <1>2, <1>3, <1>4, <2>1, <2>2, <2>3 DEF CertsOwned
  <2>5. \A m \in Node : \A c \in vcs'[m] : c.from = m => c \in vcs[m]
    BY <1>2, <2>2
  <2>6. AskedOnce'
    BY <2>1, <2>5 DEF ChangeInv, AskedOnce
  <2> QED
    BY <1>6, <2>1, <2>2, <2>3, <2>4, <2>6
<1> QED
  BY <1>5, <1>6

LEMMA ExpireChange ==
    ASSUME ViewInv, ChangeInv, OneChange', NEW n \in Node, Expire(n)
    PROVE  ChangeInv'
<1> DEFINE v == IF changing[n] THEN newNum[n] + 1 ELSE view[n] + 1
<1>1. v \in View /\ view' = view /\ todo' = todo /\ vcs[n] \subseteq Cert
  BY TypeParts DEF Expire, ViewInv, ChangeType
<1>2. CASE Asks(n, v)
  <2>1. sendViewChange(n, v, vcs[n], net)
    BY <1>2 DEF Expire
  <2>2. /\ CertsOwned' /\ AskedOnce' /\ \A m \in Node : vcs[m] \subseteq vcs'[m]
        /\ \A m \in net' : m.type = "newview" => m \in net
    <3> HIDE DEF v
    <3>1. net \in SUBSET net
      OBVIOUS
    <3> QED
      BY <1>1, <2>1, <3>1, AskStep
  <2>3. Entered'
    BY <1>1, <2>2, AskersGrow DEF ChangeInv, Entered
  <2> QED
    BY <2>2, <2>3 DEF ChangeInv
<1>3. CASE ~Asks(n, v)
  <2>1. UNCHANGED <<view, changing, newNum, vcs, todo, net>>
    BY <1>1, <1>3 DEF Expire
  <2> QED
    BY <2>1, QuietChange
<1> QED
  BY <1>2, <1>3

\* What the ViewChange handler does to certificates and to the work it starts.
LEMMA ViewChangeStep ==
    ASSUME ViewInv, ChangeInv, OneChange', NEW m \in net, ViewChange(m)
    PROVE  /\ CertsOwned' /\ AskedOnce' /\ view' = view
           /\ m.to \in Node /\ m.cert.view = 2
           /\ \A x \in Node : vcs[x] \subseteq vcs'[x]
           /\ vcs[m.to] \cup {m.cert} \subseteq vcs'[m.to]
           /\ \A k \in net' : k.type = "newview" => k \in net
           /\ /\ 2 > view[m.to]
              /\ Joins(CertsFor(vcs[m.to] \cup {m.cert}, 2))
              /\ Asks(m.to, 2)
              => \E c \in vcs'[m.to] : c.from = m.to
<1> DEFINE n == m.to
<1> DEFINE v == m.cert.view
<1> DEFINE certs == vcs[n] \cup {m.cert}
<1> DEFINE rest == net \ {m}
<1>1. ChangeType /\ net \subseteq Msg
  BY TypeParts DEF ViewInv
<1>2. n \in Node /\ m.cert \in Cert /\ m.type = "viewchange" /\ view' = view
  BY <1>1 DEF ViewChange, Msg
<1>3. v = 2
  <2>1. m.cert \in vcs[m.cert.from] /\ m.cert.from \in Node
    BY <1>2 DEF ChangeInv, CertsOwned, Cert
  <2> QED
    BY <2>1 DEF ChangeInv, AskedOnce
<1>4. /\ vcs[n] \subseteq certs /\ certs \subseteq Cert /\ rest \in SUBSET net /\ v \in View
      /\ \A c \in certs : c \in vcs[n] \/ c \in vcs[c.from]
  BY <1>1, <1>2 DEF ChangeType, ChangeInv, CertsOwned, Cert
<1>5. /\ \/ sendViewChange(n, v, certs, rest)
         \/ net' = rest /\ vcs' = [vcs EXCEPT ![n] = certs] /\ UNCHANGED <<changing, newNum>>
      /\ v > view[n] /\ Joins(CertsFor(certs, v)) => sendViewChange(n, v, certs, rest)
  BY DEF ViewChange
<1>6. /\ CertsOwned' /\ AskedOnce'
      /\ \A x \in Node : vcs[x] \subseteq vcs'[x]
      /\ certs \subseteq vcs'[n]
      /\ \A k \in net' : k.type = "newview" => k \in net
      /\ Asks(n, v) /\ sendViewChange(n, v, certs, rest) => \E c \in vcs'[n] : c.from = n
  <2> HIDE DEF n, v, certs, rest
  <2> QED
    BY <1>2, <1>4, <1>5, AskStep
<1> QED
  BY <1>2, <1>3, <1>5, <1>6

LEMMA ViewChangeChange ==
    ASSUME ViewInv, ChangeInv, OneChange', NEW m \in net, ViewChange(m)
    PROVE  ChangeInv'
<1>1. /\ CertsOwned' /\ AskedOnce' /\ view' = view /\ m.to \in Node /\ m.cert.view = 2
      /\ \A x \in Node : vcs[x] \subseteq vcs'[x]
      /\ vcs[m.to] \cup {m.cert} \subseteq vcs'[m.to]
      /\ \A k \in net' : k.type = "newview" => k \in net
  BY ViewChangeStep
<1>2. /\ Cardinality(Askers) > 2 * F => Cardinality(Askers') > 2 * F
      /\ Askers \subseteq Askers'
  BY <1>1, AskersGrow
<1> DEFINE have == CertsFor(vcs[m.to] \cup {m.cert}, 2)
<1>3. ASSUME Cardinality(have) >= ViewQuorum
      PROVE  Cardinality(Askers') > 2 * F
  <2>1. \A c \in have : c.from \in Node /\ c \in vcs[c.from]
    <3>1. vcs \in [Node -> SUBSET Cert] /\ net \subseteq Msg /\ m.type = "viewchange"
      BY TypeParts DEF ViewInv, ChangeType, ViewChange
    <3> QED
      BY <1>1, <3>1 DEF CertsFor, ChangeInv, CertsOwned, Cert, Msg
  <2>2. IsFiniteSet(have) /\ Cardinality(have) <= Cardinality(Askers)
    <3> HIDE DEF have
    <3> QED
      BY <2>1, CountsServers
  <2>3. IsFiniteSet(Askers)
    <3>1. Askers \subseteq Node /\ IsFiniteSet(Node)
      BY ViewAssumption DEF Askers
    <3> QED
      BY <3>1, FS_Subset
  <2>4. Cardinality(Askers) \in Nat /\ Cardinality(have) \in Nat
    BY <2>2, <2>3, FS_CardinalityType
  <2>5. Cardinality(have) >= 2 * F + 1
    BY <1>3 DEF ViewQuorum
  <2>6. Cardinality(Askers) > 2 * F
    <3> HIDE DEF have
    <3> QED
      BY <2>2, <2>4, <2>5, Numbers
  <2> HIDE DEF have
  <2> QED
    BY <1>2, <2>6, Zenon
<1>4. \A j \in todo' : j \in todo \/ (j.view = 2 /\ Cardinality(have) >= ViewQuorum)
  <2>1. \/ todo' = todo
        \/ /\ todo' = todo \cup {[node |-> m.to, view |-> m.cert.view,
                                 top |-> TopOf(CertsFor(vcs[m.to] \cup {m.cert}, m.cert.view))]}
           /\ Cardinality(CertsFor(vcs[m.to] \cup {m.cert}, m.cert.view)) >= ViewQuorum
    BY DEF ViewChange
  <2>2. CertsFor(vcs[m.to] \cup {m.cert}, m.cert.view) = have
    BY <1>1
  <2> HIDE DEF have
  <2> QED
    BY <1>1, <2>1, <2>2
<1>5. Entered'
  BY <1>1, <1>2, <1>3, <1>4 DEF ChangeInv, Entered
<1> QED
  BY <1>1, <1>5 DEF ChangeInv

\* A server enters the second view.
LEMMA EnterChange ==
    ASSUME ViewInv, ChangeInv, NEW n \in Node, NEW top, Enter(n, 2, top), vcs' = vcs, newNum' = newNum,
           Cardinality(Askers) > 2 * F, todo' \subseteq todo,
           \A m \in net' : m \in net \/ (m.type = "newview" /\ m.view = 2)
    PROVE  ChangeInv'
<1>1. view \in [Node -> View] /\ changing \in [Node -> BOOLEAN]
  BY TypeParts DEF ViewInv, ChangeType
<1>2. view'[n] = 2 /\ \A m \in Node : m # n => view'[m] = view[m] /\ changing'[m] = changing[m]
  BY <1>1 DEF Enter
<1>3. CertsOwned'
  BY DEF ChangeInv, CertsOwned
<1>4. AskedOnce'
  BY <1>2 DEF ChangeInv, AskedOnce
<1>5. Askers' = Askers
  BY DEF Askers
<1>6. Entered'
  BY <1>2, <1>5 DEF ChangeInv, Entered
<1> QED
  BY <1>3, <1>4, <1>6 DEF ChangeInv

LEMMA SendNewViewChange ==
    ASSUME ViewInv, ChangeInv, NEW j \in todo, SendNewView(j)
    PROVE  ChangeInv'
<1>1. j.node \in Node /\ j.view = 2 /\ Cardinality(Askers) > 2 * F /\ todo' \subseteq todo
      /\ vcs' = vcs /\ newNum' = newNum
  BY TypeParts DEF ViewInv, Job, ChangeInv, Entered, SendNewView
<1>2. CASE Enter(j.node, j.view, j.top)
           /\ net' = net \cup [type : {"newview"}, to : Others(j.node), from : {j.node},
                               view : {j.view}, top : {j.top}]
  <2>1. \A m \in net' : m \in net \/ (m.type = "newview" /\ m.view = 2)
    BY <1>1, <1>2
  <2> QED
    BY <1>1, <1>2, <2>1, EnterChange
<1>3. CASE UNCHANGED <<view, changing, net>>
  BY <1>1, <1>3 DEF ChangeInv, CertsOwned, AskedOnce, Entered, Askers
<1> QED
  BY <1>2, <1>3 DEF SendNewView

LEMMA NewViewChange ==
    ASSUME ViewInv, ChangeInv, NEW m \in net, NewView(m)
    PROVE  ChangeInv'
<1>1. /\ m.to \in Node /\ m.view = 2 /\ Cardinality(Askers) > 2 * F
      /\ todo' = todo /\ vcs' = vcs /\ newNum' = newNum /\ net' = net \ {m}
  BY TypeParts DEF ViewInv, Msg, ChangeInv, Entered, NewView
<1>2. CASE Enter(m.to, m.view, m.top)
  BY <1>1, <1>2, EnterChange
<1>3. CASE UNCHANGED <<view, changing>>
  BY <1>1, <1>3, QuietChange
<1> QED
  BY <1>2, <1>3 DEF NewView

\* What leaves the change of view alone, message by message.
LEMMA OrderQuiet ==
    ASSUME ExecuteTransaction \/ LoseForwarded \/ Order \/ (\E n \in Node : Execute(n) \/ SetStatus(n))
           \/ \E m \in net : Forwarded(m) \/ PrePrepare(m)
    PROVE  /\ UNCHANGED <<view, changing, newNum, vcs, todo>>
           /\ \A m \in net' : m.type \in {"viewchange", "newview"} => m \in net
<1>1. ASSUME NEW n, NEW k, NEW rest \in SUBSET net, Handle(n, k, rest)
      PROVE  \A m \in net' : m.type \in {"viewchange", "newview"} => m \in net
  BY <1>1 DEF Handle
<1>2. CASE ExecuteTransaction
  <2>1. net \in SUBSET net
    OBVIOUS
  <2> QED
    BY <1>1, <1>2, <2>1 DEF ExecuteTransaction
<1>3. CASE LoseForwarded
  BY <1>3 DEF LoseForwarded, Lose, change
<1>4. CASE Order
  BY <1>4 DEF Order, FinishPrepares, FinishCommits, PrepareDone, CommitDone, change
<1>5. CASE \E n \in Node : Execute(n) \/ SetStatus(n)
  BY <1>5 DEF Execute, SetStatus, change
<1>6. ASSUME NEW m \in net, Forwarded(m)
      PROVE  /\ UNCHANGED <<view, changing, newNum, vcs, todo>>
             /\ \A k \in net' : k.type \in {"viewchange", "newview"} => k \in net
  <2>1. net \ {m} \in SUBSET net
    OBVIOUS
  <2> QED
    BY <1>1, <1>6, <2>1 DEF Forwarded
<1>7. ASSUME NEW m \in net, PrePrepare(m)
      PROVE  /\ UNCHANGED <<view, changing, newNum, vcs, todo>>
             /\ \A k \in net' : k.type \in {"viewchange", "newview"} => k \in net
  BY <1>7 DEF PrePrepare
<1> QED
  BY <1>2, <1>3, <1>4, <1>5, <1>6, <1>7

\* The kinds of steps.
LEMMA StepKinds ==
    ASSUME [Next]_vars
    PROVE  \/ ExecuteTransaction \/ LoseForwarded \/ Order \/ (\E n \in Node : Execute(n) \/ SetStatus(n))
           \/ \E m \in net : Forwarded(m) \/ PrePrepare(m)
           \/ \E n \in Node : Expire(n)
           \/ \E m \in net : ViewChange(m) \/ NewView(m)
           \/ \E j \in todo : SendNewView(j)
           \/ UNCHANGED vars
  BY DEF Next, Receive, Work

LEMMA ChangeStep ==
    ASSUME ViewInv, ChangeInv, OneChange', [Next]_vars
    PROVE  ChangeInv'
<1>1. CASE UNCHANGED vars
  <2>1. UNCHANGED <<view, changing, newNum, vcs, todo, net>>
    BY <1>1 DEF vars, change
  <2> QED
    BY <2>1, QuietChange
<1> QED
  BY <1>1, StepKinds, OrderQuiet, QuietChange, ExpireChange, ViewChangeChange, NewViewChange, SendNewViewChange

\* The steps that change views do not order.
LEMMA ChangeQuiet ==
    ASSUME \/ \E n \in Node : Expire(n)
           \/ \E m \in net : ViewChange(m) \/ NewView(m)
           \/ \E j \in todo : SendNewView(j)
           \/ UNCHANGED vars
    PROVE  UNCHANGED <<log, store, pc, job, live>>
  BY DEF Expire, ViewChange, NewView, SendNewView, vars, ordering, flags

\* Views only go up.
LEMMA ViewsUp ==
    ASSUME ViewInv, ChangeInv, ChangeInv'
    PROVE  \A n \in Node : view[n] # 2 => view'[n] >= view[n]
<1>1. view \in [Node -> View]
  BY TypeParts DEF ViewInv, ChangeType
<1> QED
  BY <1>1, Numbers DEF ChangeInv, Entered

LEMMA ViewsKept ==
    ASSUME ViewInv, ChangeInv, ChangeInv', [Next]_vars
    PROVE  \A n \in Node : view'[n] >= view[n]
<1>1. view \in [Node -> View]
  BY TypeParts DEF ViewInv, ChangeType
<1>2. ASSUME NEW n \in Node, NEW top, Enter(n, 2, top)
      PROVE  \A m \in Node : view[m] = 2 => view'[m] = 2
  BY <1>1, <1>2 DEF Enter
<1>3. \/ view' = view
      \/ \E m \in net : NewView(m) /\ Enter(m.to, m.view, m.top)
      \/ \E j \in todo : SendNewView(j) /\ Enter(j.node, j.view, j.top)
  BY StepKinds, OrderQuiet DEF Expire, ViewChange, NewView, SendNewView, vars, change
<1>4. \A m \in Node : view[m] = 2 => view'[m] = 2
  <2>1. ASSUME NEW m \in net, NewView(m), Enter(m.to, m.view, m.top)
        PROVE  m.to \in Node /\ m.view = 2
    BY <2>1, TypeParts DEF ViewInv, Msg, NewView, ChangeInv, Entered
  <2>2. ASSUME NEW j \in todo PROVE j.node \in Node /\ j.view = 2
    BY <2>2, TypeParts DEF ViewInv, Job, ChangeInv, Entered
  <2> QED
    BY <1>2, <1>3, <2>1, <2>2
<1> QED
  BY <1>1, <1>4, ViewsUp, Numbers

LEMMA StepForward ==
    ASSUME ViewInv, VotesInv, [Next]_vars
    PROVE  Forward
<1>1. OrderType /\ ChangeType
  BY TypeParts DEF ViewInv
<1>2. CASE UNCHANGED <<log, job>>
  BY <1>1, <1>2, LogViews DEF VotesInv, Forward
<1>3. ASSUME NEW n \in Node, Execute(n) PROVE Forward
  <2>1. exec[n] \in Slot /\ log' = Raised(n, exec[n], Executed) /\ job' = job
    BY <1>3 DEF Execute
  <2>2. \A m \in Node, r \in Slot : log'[m][r].view = log[m][r].view
    BY <1>1, <1>3, <2>1, RaisedViews DEF Executed
  <2> QED
    BY <1>1, <2>1, <2>2, LogViews DEF VotesInv, Forward
<1>4. CASE ExecuteTransaction
  <2>1. Handle(getViewLeader(1), calls + 1, net) /\ getViewLeader(1) \in Node
    BY <1>4, LeaderInNode, Numbers DEF ExecuteTransaction
  <2> QED
    BY <2>1, HandleForward
<1>5. ASSUME NEW m \in net, Forwarded(m) PROVE Forward
  <2>1. Handle(m.to, m.call, net \ {m}) /\ m.to \in Node
    BY <1>5, TypeParts DEF ViewInv, Msg, Forwarded
  <2> QED
    BY <2>1, HandleForward
<1>6. ASSUME NEW n \in Node, SetStatus(n) PROVE Forward
  BY <1>2, <1>6 DEF SetStatus, ordering
<1>7. CASE LoseForwarded
  BY <1>2, <1>7 DEF LoseForwarded, Lose, ordering
<1> QED
  BY <1>2, <1>3, <1>4, <1>5, <1>6, <1>7, StepKinds, ChangeQuiet, OrderForward, PrePrepareForward

LEMMA VotesStep ==
    ASSUME ViewInv, VotesInv, Forward, ViewInv', \A n \in Node : view'[n] >= view[n]
    PROVE  VotesInv'
<1>1. /\ OrderType /\ OrderType' /\ ChangeType /\ ChangeType'
  BY TypeParts, TypePartsNext DEF ViewInv
<1>2. \A n \in Node : view[n] \in Nat /\ view'[n] \in Nat
  BY <1>1, Numbers DEF ChangeType
<1>3. \A n \in Node, s \in Slot : log[n][s].view \in Nat /\ log'[n][s].view \in Nat
  BY <1>1, Numbers DEF OrderType, LogType, LogEntry
<1>4. \A n \in Node, s \in Slot : log'[n][s].view <= view'[n]
  BY <1>2, <1>3 DEF Forward
<1>5. ASSUME NEW n \in Node, NEW v \in View, NEW s \in Slot, job'[n][v][s] \in Voted
      PROVE  log'[n][s].view >= v
  <2>1. v \in Nat
    BY Numbers
  <2> QED
    BY <1>3, <1>5, <2>1 DEF Forward, VotesInv
<1> QED
  BY <1>4, <1>5 DEF VotesInv

ChangeVotesInv == ViewInv /\ ChangeInv /\ VotesInv

LEMMA ChangeInit == Init => ChangeVotesInv
<1> SUFFICES ASSUME Init PROVE ChangeVotesInv
  OBVIOUS
<1>1. ChangeInv
  BY DEF Init, ChangeInv, CertsOwned, AskedOnce, Entered
<1>2. VotesInv
  <2>1. \A n \in Node, s \in Slot : log[n][s].view = 0 /\ view[n] = 1
    BY DEF Init
  <2>2. \A n \in Node, v \in View, s \in Slot : job[n][v][s] = "none"
    BY DEF Init
  <2> QED
    BY <2>1, <2>2 DEF VotesInv, Voted
<1> QED
  BY <1>1, <1>2, ViewInit DEF ChangeVotesInv

LEMMA ChangeVotesStep ==
    ChangeVotesInv /\ OneChange' /\ [Next]_vars => ChangeVotesInv' /\ Forward
<1> SUFFICES ASSUME ChangeVotesInv, OneChange', [Next]_vars PROVE ChangeVotesInv' /\ Forward
  OBVIOUS
<1>1. ViewInv' /\ ChangeInv' /\ Forward
  BY ViewStep, ChangeStep, StepForward DEF ChangeVotesInv
<1>2. \A n \in Node : view'[n] >= view[n]
  BY <1>1, ViewsKept DEF ChangeVotesInv
<1>3. VotesInv'
  BY <1>1, <1>2, VotesStep DEF ChangeVotesInv
<1> QED
  BY <1>1, <1>3 DEF ChangeVotesInv

\* As long as nobody asks for a third view, the servers that asked for the second one
\* have one certificate each, and what a server votes for is in its log from that view
\* or a later one.
THEOREM ChangeInvariant == Spec /\ []OneChange => []ChangeVotesInv
<1> QED
  BY ChangeInit, ChangeVotesStep, PTL DEF Spec

\* As long as nobody asks for a third view, a server leaves the first one only when
\* 2F+1 different servers asked for that, whatever is lost, late or switched:
\* ViewChange counts certificates, and validateViewChangeCerts does too.
THEOREM ViewByQuorumHolds == Spec /\ []OneChange => []ViewByQuorum
<1>1. ChangeVotesInv => ViewByQuorum
  <2> SUFFICES ASSUME ChangeVotesInv, NEW n \in Node, view[n] > 1
               PROVE  Cardinality({m \in Node : \E c \in vcs[m] : c.from = m /\ c.view = view[n]}) > 2 * F
    BY DEF ViewByQuorum
  <2>1. view[n] = 2 /\ Cardinality(Askers) > 2 * F
    BY DEF ChangeVotesInv, ChangeInv, Entered
  <2>2. Askers = {m \in Node : \E c \in vcs[m] : c.from = m /\ c.view = view[n]}
    BY <2>1 DEF Askers, ChangeVotesInv, ChangeInv, AskedOnce
  <2> QED
    BY <2>1, <2>2
<1> QED
  BY <1>1, ChangeInvariant, PTL

\* As long as nobody asks for a third view, no server takes a slot of its log back for a
\* request of an older view, whatever pre-prepares arrive late.
THEOREM SlotsMoveForwardHolds == Spec /\ []OneChange => SlotsMoveForward
<1>1. ChangeVotesInv /\ OneChange' /\ [Next]_vars
        => [\A n \in Node, s \in Slot : log'[n][s].view >= log[n][s].view]_vars
  BY ChangeVotesStep DEF Forward
<1> QED
  BY <1>1, ChangeInvariant, PTL DEF Spec, SlotsMoveForward

\* As long as nobody asks for a third view, 2F+1 servers have what any server decided
\* in their logs, from its view or from a later one: nobody who voted for it loses it
\* to an older request.
THEOREM DecidedByQuorumHolds == Spec /\ []OneChange => []DecidedByQuorum
<1>1. ChangeVotesInv => DecidedByQuorum
  <2> SUFFICES ASSUME ChangeVotesInv, NEW n \in Node, NEW s \in Slot, store[n][s] # 0
               PROVE  Cardinality({m \in Node : log[m][s].view >= store[n][s]}) > 2 * F
    BY DEF DecidedByQuorum
  <2> DEFINE v == store[n][s]
  <2> DEFINE voters == {m \in Node : job[m][v][s] \in {"commWait", "end"}}
  <2> DEFINE have == {m \in Node : log[m][s].view >= v}
  <2>1. v \in View
    BY Numbers, TypeParts DEF ChangeVotesInv, ViewInv, OrderType, StoreType, View
  <2>2. Cardinality(voters) >= 2 * F + 1
    BY <2>1 DEF ChangeVotesInv, ViewInv, Backed, DecisionsBacked
  <2>3. voters \subseteq have
    BY <2>1 DEF ChangeVotesInv, VotesInv, Voted
  <2>4. IsFiniteSet(have)
    <3>1. have \subseteq Node /\ IsFiniteSet(Node)
      BY ViewAssumption
    <3> QED
      BY <3>1, FS_Subset
  <2>5. IsFiniteSet(voters) /\ Cardinality(voters) <= Cardinality(have)
    <3> HIDE DEF voters, have
    <3> QED
      BY <2>3, <2>4, FS_Subset
  <2>6. Cardinality(voters) \in Nat /\ Cardinality(have) \in Nat
    <3> HIDE DEF voters, have
    <3> QED
      BY <2>4, <2>5, FS_CardinalityType
  <2>7. Cardinality(have) > 2 * F
    <3> HIDE DEF voters, have
    <3> QED
      BY <2>2, <2>5, <2>6, Numbers
  <2> QED
    BY <2>7
<1> QED
  BY <1>1, ChangeInvariant, PTL

-----------------------------------------------------------------------------
(* What the first leader had prepared.                                     *)

First == getViewLeader(1)

\* The leader of the first view is up, and a quorum of the others contains one that
\* follows (with F = 0 a single certificate changes the view, before the leader asks).
SteadyLeader == F > 0 /\ First \notin Down \cup Flaky

FirstAsked == \E c \in vcs[First] : c.from = First

\* The first leader has asked for the second view, with a prepared slot below k.
Ahead(k) == \E c \in vcs[First] : c.from = First /\ c.top < k

FirstInv ==
    /\ live[First]
    /\ newNum[First] >= 2 \/ (view[First] = 1 /\ Cardinality(vcs[First]) > F) => FirstAsked
    /\ \A j \in todo : j.node = First /\ Ahead(j.top + 1)
    /\ \A m \in net : m.type = "newview" => Ahead(m.top + 1)
    /\ \A n \in Node : view[n] # 1 => Ahead(seq[n])

LEMMA FirstInNode == First \in Node
  BY LeaderInNode, Numbers DEF First

LEMMA AheadGrows ==
    ASSUME ViewInv, vcs[First] \subseteq vcs'[First], NEW k \in Nat, NEW l \in Nat, k <= l, Ahead(k)
    PROVE  \E c \in vcs'[First] : c.from = First /\ c.top < l
<1>1. PICK c \in vcs[First] : c.from = First /\ c.top < k
  BY DEF Ahead
<1>2. c.top \in Nat
  <2>1. vcs \in [Node -> SUBSET Cert]
    BY TypeParts DEF ViewInv, ChangeType
  <2>2. c \in Cert
    BY <2>1, FirstInNode
  <2> QED
    BY <2>2, Numbers DEF Cert
<1>3. c.top < l
  BY <1>1, <1>2
<1> QED
  BY <1>1, <1>3

\* Steps that change no view: what has to be shown of them.
LEMMA FirstKept ==
    ASSUME ViewInv, FirstInv, live'[First], view' = view, vcs[First] \subseteq vcs'[First],
           \/ newNum'[First] = newNum[First] /\ vcs'[First] = vcs[First]
           \/ newNum'[First] >= 2 \/ (view[First] = 1 /\ Cardinality(vcs'[First]) > F)
                => \E c \in vcs'[First] : c.from = First,
           \A j \in todo' : \/ j \in todo
                            \/ j.node = First /\ \E c \in vcs'[First] : c.from = First /\ c.top < j.top + 1,
           \A m \in net' : m.type = "newview" => m \in net,
           seq' \in [Node -> 1..(MaxSlot + 1)], \A n \in Node : seq[n] <= seq'[n]
    PROVE  FirstInv'
<1>1. net \subseteq Msg /\ todo \subseteq Job /\ seq \in [Node -> 1..(MaxSlot + 1)]
  BY TypeParts DEF ViewInv, OrderType
<1>2. First' = First
  BY DEF First, getViewLeader
<1>3. newNum'[First] >= 2 \/ (view'[First] = 1 /\ Cardinality(vcs'[First]) > F)
        => \E c \in vcs'[First] : c.from = First
  BY DEF FirstInv, FirstAsked
<1>4. \A j \in todo : \E c \in vcs'[First] : c.from = First /\ c.top < j.top + 1
  <2> SUFFICES ASSUME NEW j \in todo
               PROVE  \E c \in vcs'[First] : c.from = First /\ c.top < j.top + 1
    OBVIOUS
  <2>1. j.top + 1 \in Nat /\ Ahead(j.top + 1)
    BY <1>1, Numbers DEF Job, FirstInv
  <2> QED
    BY <2>1, AheadGrows
<1>5. \A m \in net' : m.type = "newview" => \E c \in vcs'[First] : c.from = First /\ c.top < m.top + 1
  <2> SUFFICES ASSUME NEW m \in net', m.type = "newview"
               PROVE  \E c \in vcs'[First] : c.from = First /\ c.top < m.top + 1
    OBVIOUS
  <2>1. m.top + 1 \in Nat /\ Ahead(m.top + 1)
    BY <1>1, Numbers DEF Msg, FirstInv
  <2> QED
    BY <2>1, AheadGrows
<1>6. \A n \in Node : view'[n] # 1 => \E c \in vcs'[First] : c.from = First /\ c.top < seq'[n]
  <2> SUFFICES ASSUME NEW n \in Node, view[n] # 1
               PROVE  \E c \in vcs'[First] : c.from = First /\ c.top < seq'[n]
    OBVIOUS
  <2>1. seq[n] \in Nat /\ seq'[n] \in Nat /\ Ahead(seq[n])
    BY <1>1, Numbers DEF FirstInv
  <2> QED
    BY <2>1, AheadGrows
<1>7. \A j \in todo' : j.node = First /\ \E c \in vcs'[First] : c.from = First /\ c.top < j.top + 1
  BY <1>4 DEF FirstInv
<1> QED
  BY <1>2, <1>3, <1>5, <1>6, <1>7 DEF FirstInv, FirstAsked, Ahead

LEMMA FirstOrder ==
    ASSUME ViewInv, ViewInv', FirstInv, SteadyLeader,
           \/ ExecuteTransaction \/ LoseForwarded \/ Order \/ (\E n \in Node : Execute(n) \/ SetStatus(n))
           \/ \E m \in net : Forwarded(m) \/ PrePrepare(m)
    PROVE  FirstInv'
<1>1. /\ UNCHANGED <<view, changing, newNum, vcs, todo>>
      /\ \A m \in net' : m.type \in {"viewchange", "newview"} => m \in net
  BY OrderQuiet
<1>2. /\ live \in [Node -> BOOLEAN] /\ seq \in [Node -> 1..(MaxSlot + 1)]
      /\ seq' \in [Node -> 1..(MaxSlot + 1)] /\ net \subseteq Msg
  BY TypeParts, TypePartsNext DEF ViewInv, FlagType, OrderType
<1>3. \A n \in Node : seq[n] \in Nat
  BY <1>2, Numbers
<1>4. live'[First]
  <2>1. ASSUME NEW n \in Node, SetStatus(n) PROVE live'[First] = live[First]
    BY <1>2, <2>1, FirstInNode DEF SetStatus, SteadyLeader
  <2>2. live' = live \/ \E n \in Node : SetStatus(n)
    <3>1. CASE Order
      BY <3>1 DEF Order, FinishPrepares, FinishCommits, PrepareDone, CommitDone, flags
    <3>2. CASE \E m \in net : Forwarded(m) \/ PrePrepare(m)
      BY <3>2 DEF Forwarded, PrePrepare, flags
    <3> QED
      BY <3>1, <3>2 DEF ExecuteTransaction, LoseForwarded, Lose, Execute, flags
  <2> QED
    BY <2>1, <2>2 DEF FirstInv
<1>5. \A n \in Node : seq[n] <= seq'[n]
  <2>1. ASSUME NEW n \in Node, NEW k, NEW rest, Handle(n, k, rest)
        PROVE  \A x \in Node : seq[x] <= seq'[x]
    <3>1. CASE seq' = seq
      BY <1>3, <3>1
    <3>2. CASE seq' = [seq EXCEPT ![n] = seq[n] + 1]
      BY <1>2, <1>3, <3>2
    <3> QED
      BY <2>1, <3>1, <3>2 DEF Handle, ordering
  <2>2. \/ seq' = seq
        \/ \E n \in Node : \E k, rest : Handle(n, k, rest)
    <3>1. CASE ExecuteTransaction
      BY <3>1, LeaderInNode, Numbers DEF ExecuteTransaction
    <3>2. ASSUME NEW m \in net, Forwarded(m)
          PROVE  \E n \in Node : \E k, rest : Handle(n, k, rest)
      BY <1>2, <3>2 DEF Forwarded, Msg
    <3>3. ASSUME NEW m \in net, PrePrepare(m) PROVE seq' = seq
      BY <3>3 DEF PrePrepare
    <3>4. CASE Order
      BY <3>4 DEF Order, FinishPrepares, FinishCommits, PrepareDone, CommitDone
    <3>5. CASE LoseForwarded \/ \E n \in Node : Execute(n) \/ SetStatus(n)
      BY <3>5 DEF LoseForwarded, Lose, Execute, SetStatus, ordering
    <3> QED
      BY <3>1, <3>2, <3>3, <3>4, <3>5
  <2> QED
    BY <1>3, <2>1, <2>2
<1> QED
  BY <1>1, <1>2, <1>4, <1>5, FirstKept

LEMMA FirstExpire ==
    ASSUME ViewInv, ViewInv', ChangeInv, OneChange', FirstInv, NEW n \in Node, Expire(n)
    PROVE  FirstInv'
<1> DEFINE v == IF changing[n] THEN newNum[n] + 1 ELSE view[n] + 1
<1>1. /\ ChangeType /\ seq \in [Node -> 1..(MaxSlot + 1)] /\ seq' \in [Node -> 1..(MaxSlot + 1)]
  BY TypeParts, TypePartsNext DEF ViewInv, OrderType
<1>2. v \in View /\ UNCHANGED <<live, view, seq, todo>> /\ vcs[n] \subseteq Cert
  BY <1>1 DEF Expire, flags, ordering, ChangeType
<1>3. live'[First] /\ \A x \in Node : seq[x] <= seq'[x]
  <2>1. \A x \in Node : seq[x] \in Nat
    BY <1>1, Numbers
  <2> QED
    BY <1>2, <2>1 DEF FirstInv
<1>4. CASE Asks(n, v)
  <2>1. sendViewChange(n, v, vcs[n], net)
    BY <1>4 DEF Expire
  <2>2. /\ \A m \in Node : vcs[m] \subseteq vcs'[m]
        /\ \A m \in net' : m.type = "newview" => m \in net
        /\ \E c \in vcs'[n] : c.from = n
    <3> HIDE DEF v
    <3>1. net \in SUBSET net
      OBVIOUS
    <3> QED
      BY <1>2, <1>4, <2>1, <3>1, AskStep
  <2>3. n # First => newNum'[First] = newNum[First] /\ vcs'[First] = vcs[First]
    BY <1>1, <1>4, <2>1, FirstInNode DEF sendViewChange, ChangeType
  <2> HIDE DEF v
  <2> QED
    BY <1>1, <1>2, <1>3, <2>2, <2>3, FirstInNode, FirstKept
<1>5. CASE ~Asks(n, v)
  <2>1. UNCHANGED <<newNum, net, vcs>>
    BY <1>5 DEF Expire
  <2> HIDE DEF v
  <2> QED
    BY <1>1, <1>2, <1>3, <2>1, FirstKept
<1> QED
  BY <1>4, <1>5

\* When the first leader counts F+1 certificates, one of them is its own.
LEMMA FirstGathers ==
    ASSUME ViewInv, ChangeInv, OneChange', FirstInv, SteadyLeader, NEW m \in net, ViewChange(m), m.to = First,
           newNum'[First] >= 2 \/ (view[First] = 1 /\ Cardinality(vcs'[First]) > F)
    PROVE  \E c \in vcs'[First] : c.from = First
<1> DEFINE certs == vcs[First] \cup {m.cert}
<1>1. ChangeType /\ First \in Node /\ IsFiniteSet(vcs[First])
  BY TypeParts, FirstInNode DEF ViewInv, CertsFinite
<1>2. /\ vcs[First] \subseteq vcs'[First]
      /\ m.cert.view = 2
      /\ (2 > view[First] /\ Joins(CertsFor(certs, 2)) /\ Asks(First, 2)) => \E c \in vcs'[First] : c.from = First
  BY <1>1, ViewChangeStep
<1>3. \/ \E c \in vcs'[First] : c.from = First
      \/ newNum' = newNum /\ vcs'[First] = certs
  <2>1. OwnCert(First, m.cert.view).from = First
    BY DEF OwnCert
  <2>2. \/ sendViewChange(First, m.cert.view, certs, net \ {m})
        \/ vcs' = [vcs EXCEPT ![First] = certs] /\ newNum' = newNum
    BY DEF ViewChange
  <2> HIDE DEF certs
  <2> QED
    BY <1>1, <2>1, <2>2 DEF sendViewChange, ChangeType
<1>4. CASE FirstAsked
  BY <1>2, <1>4 DEF FirstAsked
<1>5. ASSUME ~FirstAsked, newNum' = newNum, vcs'[First] = certs
      PROVE  \E c \in vcs'[First] : c.from = First
  <2>1. newNum[First] < 2 /\ view[First] = 1 /\ Cardinality(certs) > F /\ ~(Cardinality(vcs[First]) > F)
    <3>1. newNum[First] \in Nat
      BY <1>1, Numbers DEF ChangeType
    <3>2. ~(newNum[First] >= 2) /\ ~(view[First] = 1 /\ Cardinality(vcs[First]) > F)
      BY <1>5 DEF FirstInv
    <3> HIDE DEF certs
    <3> QED
      BY <1>5, <3>1, <3>2
  <2>2. Cardinality(certs) = F + 1
    <3>1. /\ Cardinality(vcs[First]) \in Nat /\ Cardinality(certs) \in Nat
          /\ Cardinality(certs) <= Cardinality(vcs[First]) + 1
      <4>1. /\ IsFiniteSet(certs)
            /\ Cardinality(certs) = IF m.cert \in vcs[First] THEN Cardinality(vcs[First])
                                    ELSE Cardinality(vcs[First]) + 1
        BY <1>1, FS_AddElement
      <4>2. Cardinality(vcs[First]) \in Nat
        BY <1>1, FS_CardinalityType
      <4> HIDE DEF certs
      <4> QED
        BY <4>1, <4>2
    <3> HIDE DEF certs
    <3> QED
      BY <2>1, <3>1, Numbers
  <2>3. CertsFor(certs, 2) = certs
    <3>1. \A c \in vcs[First] : c.view = 2
      <4> SUFFICES ASSUME NEW c \in vcs[First] PROVE c.view = 2
        OBVIOUS
      <4>1. c.from \in Node /\ c \in vcs[c.from]
        BY <1>1 DEF ChangeType, Cert, ChangeInv, CertsOwned
      <4> QED
        BY <4>1 DEF ChangeInv, AskedOnce
    <3> QED
      BY <1>2, <3>1 DEF CertsFor
  <2>4. Joins(CertsFor(certs, 2))
    BY <2>2, <2>3 DEF Joins
  <2>5. Asks(First, 2)
    <3>1. newNum[First] \in Nat
      BY <1>1, Numbers DEF ChangeType
    <3> QED
      BY <2>1, <3>1 DEF Asks, FirstInv
  <2> HIDE DEF certs
  <2> QED
    BY <1>2, <2>1, <2>4, <2>5
<1> QED
  BY <1>3, <1>4, <1>5

\* A change of view starts from the first leader, behind what it had prepared.
LEMMA FirstSends ==
    ASSUME ViewInv, ChangeInv, OneChange', FirstInv, SteadyLeader, NEW m \in net, ViewChange(m),
           NEW j \in todo', j \notin todo
    PROVE  j.node = First /\ \E c \in vcs[First] : c.from = First /\ c.top < j.top + 1
<1> DEFINE n == m.to
<1> DEFINE certs == vcs[n] \cup {m.cert}
<1> DEFINE have == CertsFor(certs, 2)
<1>1. ChangeType /\ n \in Node /\ m.cert \in Cert /\ IsFiniteSet(vcs[n])
  BY TypeParts DEF ViewInv, CertsFinite, Msg, ViewChange
<1>2. m.cert.view = 2
  BY ViewChangeStep
<1>3. j = [node |-> n, view |-> 2, top |-> TopOf(have)] /\ 2 > view[n]
      /\ Cardinality(have) >= ViewQuorum /\ LeaderOf(n) = n
  BY <1>2 DEF ViewChange
<1>4. view[n] = 1 /\ n = First
  <2>1. view[n] = 1
    <3>1. view[n] \in Nat \ {0}
      BY <1>1, Numbers DEF ChangeType
    <3>2. 2 > view[n]
      BY <1>3
    <3> QED
      BY <3>1, <3>2
  <2> QED
    BY <1>3, <2>1 DEF LeaderOf, First
<1>5. Cardinality(vcs[n]) > F
  <2>1. have \subseteq certs /\ IsFiniteSet(certs) /\ Cardinality(certs) <= Cardinality(vcs[n]) + 1
        /\ Cardinality(vcs[n]) \in Nat
    <3>1. IsFiniteSet(certs)
          /\ Cardinality(certs) = IF m.cert \in vcs[n] THEN Cardinality(vcs[n]) ELSE Cardinality(vcs[n]) + 1
      BY <1>1, FS_AddElement
    <3>2. Cardinality(vcs[n]) \in Nat
      BY <1>1, FS_CardinalityType
    <3> QED
      BY <3>1, <3>2 DEF CertsFor
  <2>2. IsFiniteSet(have) /\ Cardinality(have) <= Cardinality(certs)
    <3> HIDE DEF have, certs
    <3> QED
      BY <2>1, FS_Subset
  <2>3. Cardinality(have) \in Nat /\ Cardinality(certs) \in Nat
    <3> HIDE DEF have, certs
    <3> QED
      BY <2>1, <2>2, FS_CardinalityType
  <2>4. F > 0 /\ Cardinality(have) >= 2 * F + 1
    BY <1>3 DEF SteadyLeader, ViewQuorum
  <2> HIDE DEF have, certs
  <2> QED
    BY <2>1, <2>2, <2>3, <2>4, Numbers
<1>6. PICK c \in vcs[First] : c.from = First
  BY <1>4, <1>5 DEF FirstInv, FirstAsked
<1>7. c \in have
  <2>1. c.view = 2
    BY <1>6, FirstInNode DEF ChangeInv, AskedOnce
  <2> QED
    BY <1>4, <2>1 DEF CertsFor
<1>8. c.top <= TopOf(have) /\ c.top \in Nat /\ TopOf(have) \in Nat
  <2> DEFINE S == {d.top : d \in have}
  <2>1. have \subseteq Cert
    BY <1>1 DEF CertsFor, ChangeType
  <2> HIDE DEF have
  <2>2. S \in SUBSET (0..MaxSlot) /\ S # {} /\ c.top \in S
    BY <1>7, <2>1 DEF Cert
  <2>3. Max(S) \in S /\ c.top <= Max(S)
    BY <2>2, MaxIn, Numbers
  <2> QED
    BY <2>2, <2>3, Numbers DEF TopOf
<1>9. j.top = TopOf(have) /\ j.node = First
  <2> HIDE DEF have
  <2> QED
    BY <1>3, <1>4
<1> HIDE DEF have
<1> QED
  BY <1>6, <1>8, <1>9

LEMMA FirstViewChange ==
    ASSUME ViewInv, ViewInv', ChangeInv, OneChange', FirstInv, SteadyLeader, NEW m \in net, ViewChange(m)
    PROVE  FirstInv'
<1>1. /\ ChangeType /\ seq \in [Node -> 1..(MaxSlot + 1)] /\ seq' \in [Node -> 1..(MaxSlot + 1)]
  BY TypeParts, TypePartsNext DEF ViewInv, OrderType
<1>2. /\ view' = view /\ m.to \in Node
      /\ \A x \in Node : vcs[x] \subseteq vcs'[x]
      /\ \A k \in net' : k.type = "newview" => k \in net
  BY ViewChangeStep
<1>3. live'[First] /\ \A x \in Node : seq[x] <= seq'[x]
  <2>1. \A x \in Node : seq[x] \in Nat
    BY <1>1, Numbers
  <2> QED
    BY <2>1 DEF FirstInv, ViewChange, flags, ordering
<1>4. m.to # First => newNum'[First] = newNum[First] /\ vcs'[First] = vcs[First]
  BY <1>1, <1>2, FirstInNode DEF ViewChange, sendViewChange, ChangeType
<1>5. \A j \in todo' : \/ j \in todo
                       \/ j.node = First /\ \E c \in vcs'[First] : c.from = First /\ c.top < j.top + 1
  BY <1>2, FirstSends, FirstInNode
<1>6. \/ newNum'[First] = newNum[First] /\ vcs'[First] = vcs[First]
      \/ newNum'[First] >= 2 \/ (view[First] = 1 /\ Cardinality(vcs'[First]) > F)
           => \E c \in vcs'[First] : c.from = First
  BY <1>4, FirstGathers
<1> QED
  BY <1>1, <1>2, <1>3, <1>5, <1>6, FirstInNode, FirstKept

\* A server enters the second view behind what the first leader had prepared.
LEMMA FirstEnter ==
    ASSUME ViewInv, ViewInv', FirstInv, NEW n \in Node, NEW top \in Nat, Enter(n, 2, top), Ahead(top + 1),
           UNCHANGED <<live, vcs, newNum>>, todo' \subseteq todo,
           \A m \in net' : m.type = "newview" => m \in net \/ m.top = top
    PROVE  FirstInv'
<1>1. view \in [Node -> View] /\ seq \in [Node -> 1..(MaxSlot + 1)]
  BY TypeParts DEF ViewInv, ChangeType, OrderType
<1>2. /\ view'[n] = 2 /\ seq'[n] = top + 1
      /\ \A m \in Node : m # n => view'[m] = view[m] /\ seq'[m] = seq[m]
  BY <1>1 DEF Enter
<1>3. First' = First /\ \A k : (\E c \in vcs'[First] : c.from = First /\ c.top < k) <=> Ahead(k)
  BY DEF First, getViewLeader, Ahead
<1>4. FirstAsked' = FirstAsked
  BY <1>3 DEF FirstAsked
<1>5. newNum'[First] >= 2 \/ (view'[First] = 1 /\ Cardinality(vcs'[First]) > F) => FirstAsked
  BY <1>2, FirstInNode DEF FirstInv
<1>6. \A m \in Node : view'[m] # 1 => Ahead(seq'[m])
  <2> SUFFICES ASSUME NEW m \in Node, view'[m] # 1 PROVE Ahead(seq'[m])
    OBVIOUS
  <2>1. CASE m = n
    BY <1>2, <2>1
  <2>2. CASE m # n
    BY <1>2, <2>2 DEF FirstInv
  <2> QED
    BY <2>1, <2>2
<1>7. \A m \in net' : m.type = "newview" => Ahead(m.top + 1)
  BY DEF FirstInv
<1>8. \A j \in todo' : j.node = First /\ Ahead(j.top + 1)
  BY DEF FirstInv
<1>9. live'[First]
  BY DEF FirstInv
<1> QED
  BY <1>3, <1>4, <1>5, <1>6, <1>7, <1>8, <1>9 DEF FirstInv, Ahead

LEMMA FirstNewViews ==
    ASSUME ViewInv, ViewInv', ChangeInv, FirstInv,
           \/ \E j \in todo : SendNewView(j)
           \/ \E m \in net : NewView(m)
    PROVE  FirstInv'
<1>1. /\ net \subseteq Msg /\ todo \subseteq Job
      /\ seq \in [Node -> 1..(MaxSlot + 1)] /\ seq' \in [Node -> 1..(MaxSlot + 1)]
  BY TypeParts, TypePartsNext DEF ViewInv, OrderType
<1>2. ASSUME UNCHANGED <<live, view, vcs, newNum, seq>>, todo' \subseteq todo,
             \A m \in net' : m.type = "newview" => m \in net
      PROVE  FirstInv'
  <2>1. \A n \in Node : seq[n] <= seq'[n]
    <3>1. \A n \in Node : seq[n] \in Nat
      BY <1>1, Numbers
    <3> QED
      BY <1>2, <3>1
  <2>2. live'[First]
    BY <1>2 DEF FirstInv
  <2> QED
    BY <1>1, <1>2, <2>1, <2>2, FirstKept
<1>3. ASSUME NEW j \in todo, SendNewView(j) PROVE FirstInv'
  <2>1. j.node \in Node /\ j.view = 2 /\ j.top \in Nat /\ Ahead(j.top + 1)
    BY <1>1, Numbers DEF Job, ChangeInv, Entered, FirstInv
  <2>2. UNCHANGED <<live, vcs, newNum>> /\ todo' \subseteq todo
    BY <1>3 DEF SendNewView, flags
  <2>3. CASE Enter(j.node, j.view, j.top)
             /\ net' = net \cup [type : {"newview"}, to : Others(j.node), from : {j.node},
                                 view : {j.view}, top : {j.top}]
    <3>1. \A m \in net' : m.type = "newview" => m \in net \/ m.top = j.top
      BY <2>3
    <3> QED
      BY <2>1, <2>2, <2>3, <3>1, FirstEnter
  <2>4. CASE UNCHANGED <<view, seq, net>>
    BY <1>2, <2>2, <2>4
  <2> QED
    BY <1>3, <2>3, <2>4 DEF SendNewView
<1>4. ASSUME NEW m \in net, NewView(m) PROVE FirstInv'
  <2>1. m.to \in Node /\ m.view = 2 /\ m.top \in Nat /\ Ahead(m.top + 1)
    BY <1>1, <1>4, Numbers DEF Msg, NewView, ChangeInv, Entered, FirstInv
  <2>2. UNCHANGED <<live, vcs, newNum>> /\ todo' \subseteq todo /\ net' = net \ {m}
    BY <1>4 DEF NewView, flags
  <2>3. CASE Enter(m.to, m.view, m.top)
    BY <2>1, <2>2, <2>3, FirstEnter
  <2>4. CASE UNCHANGED <<view, seq>>
    BY <1>2, <2>2, <2>4
  <2> QED
    BY <1>4, <2>3, <2>4 DEF NewView
<1> QED
  BY <1>3, <1>4

LEMMA FirstInit == Init /\ SteadyLeader => FirstInv
<1> SUFFICES ASSUME Init, SteadyLeader PROVE FirstInv
  OBVIOUS
<1>1. live[First] /\ newNum[First] = 0 /\ vcs[First] = {}
  BY FirstInNode DEF Init, SteadyLeader
<1>2. Cardinality(vcs[First]) = 0
  BY <1>1, FS_EmptySet
<1>3. ~(newNum[First] >= 2) /\ ~(Cardinality(vcs[First]) > F)
  BY <1>1, <1>2, Numbers
<1>4. net = {} /\ todo = {} /\ \A n \in Node : view[n] = 1
  BY DEF Init
<1> QED
  BY <1>1, <1>3, <1>4 DEF FirstInv

LEMMA FirstStep ==
    ASSUME ChangeVotesInv, ChangeVotesInv', OneChange', FirstInv, SteadyLeader, [Next]_vars
    PROVE  FirstInv'
<1>1. ViewInv /\ ViewInv' /\ ChangeInv
  BY DEF ChangeVotesInv
<1>2. CASE UNCHANGED vars
  BY <1>2 DEF vars, flags, change, ordering, FirstInv, FirstAsked, Ahead, First, getViewLeader
<1> QED
  BY <1>1, <1>2, StepKinds, FirstOrder, FirstExpire, FirstViewChange, FirstNewViews

\* As long as nobody asks for a third view, and the leader of the first one stays up:
\* whoever enters the second view goes on behind every slot that leader had prepared when
\* it asked for it.  sendNewView starts from the certificates it had before the leader
\* joined, and needs the leader's own one among them.
THEOREM PreparedSurvivesHolds == Spec /\ SteadyLeader /\ []OneChange => []PreparedSurvives
<1>1. ChangeVotesInv /\ FirstInv => PreparedSurvives
  <2> SUFFICES ASSUME ChangeVotesInv, FirstInv, NEW n \in Node, view[n] > 1,
                      NEW c \in vcs[getViewLeader(view[n] - 1)], c.from = getViewLeader(view[n] - 1)
               PROVE  seq[n] > c.top
    BY DEF PreparedSurvives
  <2>1. view[n] = 2
    BY DEF ChangeVotesInv, ChangeInv, Entered
  <2>2. getViewLeader(view[n] - 1) = First
    BY <2>1 DEF First
  <2>3. PICK d \in vcs[First] : d.from = First /\ d.top < seq[n]
    BY <2>1 DEF FirstInv, Ahead
  <2>4. c = d
    BY <2>2, <2>3, FirstInNode DEF ChangeVotesInv, ChangeInv, AskedOnce
  <2>5. seq[n] \in Nat /\ d.top \in Nat
    <3>1. seq \in [Node -> 1..(MaxSlot + 1)] /\ vcs \in [Node -> SUBSET Cert]
      BY TypeParts DEF ChangeVotesInv, ViewInv, OrderType, ChangeType
    <3> QED
      BY <3>1, FirstInNode, Numbers DEF Cert
  <2> QED
    BY <2>3, <2>4, <2>5
<1>2. FirstInv /\ ChangeVotesInv /\ ChangeVotesInv' /\ OneChange' /\ SteadyLeader /\ [Next]_vars => FirstInv'
  BY FirstStep
<1>3. SteadyLeader => SteadyLeader'
  BY DEF SteadyLeader, First, getViewLeader
<1>4. Spec /\ SteadyLeader /\ []OneChange => []FirstInv
  BY <1>2, <1>3, FirstInit, ChangeInvariant, PTL DEF Spec
<1> QED
  BY <1>1, <1>4, ChangeInvariant, PTL
=============================================================================
