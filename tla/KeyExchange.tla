------------------------------ MODULE KeyExchange ------------------------------
(***************************************************************************)
(* How the processes get each other's public keys.  A process makes a key  *)
(* pair when it starts, writes the public key to its own file in keys/ and *)
(* reads all files of that directory once a second for thirty seconds.     *)
(* Nothing asks for a key later, and a restarted process has a new one.    *)
(***************************************************************************)
EXTENDS Integers

CONSTANTS
    Process,     \* the servers and the gateway
    File,        \* File[k]: whose key the k-th file of keys/ is for, by name
    Starts,      \* bound: Starts[p] is how often p is started
    Rounds       \* bound: Rounds[p] is how often p reads the files after a start

Files == DOMAIN File

ASSUME KeyAssumption ==
    /\ Files \subseteq Nat \ {0} /\ File \in [Files -> Process]
    /\ \A p \in Process : \E k \in Files : File[k] = p
    /\ Starts \in [Process -> Nat] /\ Rounds \in [Process -> Nat]

VARIABLES
    gen,       \* gen[p]: starts of p so far; its keys are those of the last one
    file,      \* file[p]: the start whose key p's file holds, 0 if it holds none
    known,     \* PublicKeyMap: known[p][q] is the start of q whose key p has, or 0
    rounds,    \* rounds that p has still to begin
    walk       \* the file that p's present round reads next, 0 if no round goes on

keys == <<gen, file, known, rounds, walk>>

KeysTypeOK ==
    /\ gen \in [Process -> Nat]
    /\ file \in [Process -> Nat]
    /\ known \in [Process -> [Process -> Nat]]
    /\ rounds \in [Process -> Nat]
    /\ walk \in [Process -> Nat]

KeysInit ==
    /\ gen = [p \in Process |-> 0]
    /\ file = [p \in Process |-> 0]
    /\ known = [p \in Process |-> [q \in Process |-> 0]]
    /\ rounds = [p \in Process |-> 0]
    /\ walk = [p \in Process |-> 0]

\* GenerateRSAKeys: a key pair nobody has had before.
NewKeys(p) == gen[p] + 1

\* Process p runs, its first or another time, and has made its keys.  What it wrote
\* before is still on file.
Start(p) ==
    /\ gen[p] < Starts[p]
    /\ gen' = [gen EXCEPT ![p] = NewKeys(p)]
    /\ known' = [known EXCEPT ![p] = [q \in Process |-> 0]]
    /\ rounds' = [rounds EXCEPT ![p] = Rounds[p]]
    /\ walk' = [walk EXCEPT ![p] = 0]
    /\ UNCHANGED file

\* savePublicKey, at the second start: WriteFile first empties the file.
Truncate(p) ==
    /\ file[p] \notin {0, gen[p]}
    /\ file' = [file EXCEPT ![p] = 0]
    /\ UNCHANGED <<gen, known, rounds, walk>>

\* It writes the key.
Save(p) ==
    /\ file[p] = 0 /\ gen[p] > 0
    /\ file' = [file EXCEPT ![p] = gen[p]]
    /\ UNCHANGED <<gen, known, rounds, walk>>

\* The keys of p are saved: initKeys has returned.
Ready(p) == gen[p] > 0 /\ file[p] = gen[p]

\* readPublicKeys begins a round, when the one before is over.
BeginRound(p) ==
    /\ Ready(p) /\ rounds[p] > 0 /\ walk[p] = 0
    /\ rounds' = [rounds EXCEPT ![p] = @ - 1]
    /\ walk' = [walk EXCEPT ![p] = 1]
    /\ UNCHANGED <<gen, file, known>>

\* Variant: a key that is there is not read again.
KeyAfterOnce(p, q) == IF known[p][q] = 0 THEN file[q] ELSE known[p][q]

\* Variant: a file that cannot be read leaves a mark.
KeyAfterMarked(p, q) == IF file[q] = 0 THEN -1 ELSE file[q]

\* Variant: what cannot be read replaces what was there.
KeyAfterAlways(p, q) == file[q]

\* ReadRSAPublicKeyFromFile: the file of q is there and is not empty.
Readable(q) == file[q] # 0

\* readPublicKeyIntoMap: a file that holds no key leaves the map as it is.
KeyAfter(p, q) == IF Readable(q) THEN file[q] ELSE known[p][q]

\* The next file of the round; filepath.Walk takes them by name.
ReadKey(p) ==
    /\ walk[p] \in Files
    /\ walk' = [walk EXCEPT ![p] = IF @ + 1 \in Files THEN @ + 1 ELSE 0]
    /\ known' = [known EXCEPT ![p][File[walk[p]]] = KeyAfter(p, File[walk[p]])]
    /\ UNCHANGED <<gen, file, rounds>>

\* getPublicKey at p.
HasKey(p, q) == known[p][q] # 0

\* SignMessage: q signs with the keys it made when it started.
SigningKey(q) == gen[q]

\* VerifySignature at p of what q signs now.
Verifies(p, q) == HasKey(p, q) /\ known[p][q] = SigningKey(q)

KeyStep(p) == Truncate(p) \/ Save(p) \/ BeginRound(p) \/ ReadKey(p)

KeysNext == \E p \in Process : Start(p) \/ KeyStep(p)

KeysSpec == KeysInit /\ [][KeysNext]_keys

\* A process that runs goes on; nobody has to start one.
KeysFairSpec == KeysSpec /\ \A p \in Process : WF_keys(KeyStep(p))

-----------------------------------------------------------------------------

\* While a process runs it never goes back to an older key of another one, nor
\* loses it, whatever the state of the files it reads.
KeysMoveForward ==
    [][\A p, q \in Process : gen'[p] = gen[p] => known'[p][q] >= known[p][q]]_keys

\* When all keys are on file and everyone has a round to begin, everyone verifies
\* everyone's signatures in the end, unless a process is started again meanwhile.
KeysArrive ==
    (\A p \in Process : Ready(p) /\ rounds[p] > 0)
        ~> ((\A p, q \in Process : Verifies(p, q)) \/ \E p \in Process : ~Ready(p))
=============================================================================
