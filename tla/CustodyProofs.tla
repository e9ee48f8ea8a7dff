--------------------------- MODULE CustodyProofs ----------------------------
(***************************************************************************)
(* Proofs about what the gateway keeps for others, for any number of       *)
(* processes, keys, administrators, credentials, targets and recordings,   *)
(* and about what it takes in: any file that is imported, and any policies *)
(* of the older shape that are converted.                                  *)
(***************************************************************************)
EXTENDS MCCustody, SequenceTheorems, WellFoundedInduction, TLAPS

-----------------------------------------------------------------------------
(* KeyRing.  While no two key commands overlap.                            *)

KeyCommands == Commands \cup {Master}

\* Of the key commands one is at work at a time.
OneCommand ==
    \A p, q \in KeyCommands : p # q => ring[p].pc = "down" \/ ring[q].pc = "down"

\* A process at work has a key, and the versions it holds are the first few.  Until
\* there is a version, the file has not changed; a process past Bootstrap has met one.
RingsKnow ==
    \A p \in Rings :
        /\ \E n \in Nat : ring[p].held = 1 .. n
        /\ ring[p].pc # "down" => ring[p].kek \in Keys
        /\ ring[p].pc # "down" /\ wrapped = <<>> => ring[p].kek = keyFile
        /\ ring[p].pc \in {"created", "up"} => wrapped # <<>>

\* The key a command of `key rotate` would wrap the next version with opens the others.
RotatesUnderTheKey ==
    \A p \in Commands : ring[p].pc = "up" => Loads(ring[p].kek)

\* Where rotate-master is, what is wrapped under which key, and who has the new one.
MasterAt ==
    /\ km.pc = "idle" => km = KmIdle
    /\ km.pc # "idle" => ring[Master].pc = "up" /\ km.new \in Keys
    /\ ring[Master].pc # "down" /\ km.pc \in {"idle", "chosen", "staged"} => ring[Master].kek = keyFile
    /\ ring[Master].pc = "up" /\ km.pc \in {"idle", "chosen", "staged"} => Loads(keyFile)
    /\ km.pc = "chosen" => km.generate \/ km.new \in seen
    /\ km.pc \in {"staged", "rewrapped", "resigned", "filed"} => km.new \in {next} \cup seen
    /\ km.pc \in {"rewrapped", "resigned", "filed"} => Loads(km.new)
    /\ km.pc = "filed" => keyFile = km.new

KeyIInv ==
    KeysSound /\ OneCommand /\ RingsKnow /\ RotatesUnderTheKey /\ MasterAt

\* The key invariant holds at the start.
LEMMA KeyInitIInv == KeyInit => KeyIInv
<1> SUFFICES ASSUME KeyInit PROVE KeyIInv
  OBVIOUS
<1> USE KeyAssumption DEF KeyInit
<1>1. KeysSound
  BY DEF KeysSound, KeyTypeOK, OneMasterKey, MasterKeyReachable, Down, KmIdle
<1>2. OneCommand
  BY DEF OneCommand, KeyCommands, Rings, Down
<1>3. RingsKnow
  <2>1. 1 .. 0 = {}
    OBVIOUS
  <2> QED BY <2>1 DEF RingsKnow, Down
<1>4. RotatesUnderTheKey /\ MasterAt
  BY DEF RotatesUnderTheKey, MasterAt, Rings, Down, KmIdle
<1> QED BY <1>1, <1>2, <1>3, <1>4 DEF KeyIInv

\* The newest version a process knows of is one it holds, or 0.
LEMMA ActiveIsNat ==
    ASSUME NEW p \in Rings, RingsKnow
    PROVE  active(p) \in Nat
<1>1. PICK n \in Nat : ring[p].held = 1 .. n
  BY DEF RingsKnow
<1>2. n \in ring[p].held \cup {0} /\ \A u \in ring[p].held : u <= n
  BY <1>1
<1>3. active(p) \in ring[p].held \cup {0}
  BY <1>2 DEF active
<1> QED BY <1>1, <1>3

\* A step that changes one process's entry and neither the rows nor the files.
LEMMA OneRingStep ==
    ASSUME KeyIInv, NEW p \in Rings, NEW r,
           ring' = [ring EXCEPT ![p] = r],
           r \in [pc : {"down", "empty", "created", "up"}, kek : Keys \cup {NoKey}, held : SUBSET Nat],
           \E n \in Nat : r.held = 1 .. n,
           r.pc # "down" => r.kek \in Keys /\ (wrapped = <<>> => r.kek = keyFile),
           r.pc \in {"created", "up"} => wrapped # <<>>,
           r.pc = "up" /\ p \notin Gateways => Loads(r.kek),
           p = Master => km.pc = "idle" /\ (r.pc # "down" => r.kek = keyFile),
           p \in KeyCommands /\ r.pc # "down" => \A q \in KeyCommands \ {p} : ring[q].pc = "down",
           UNCHANGED <<wrapped, sealed, keyFile, next, seen, km>>
    PROVE  KeyIInv'
<1> USE KeyAssumption
<1>1. KeysSound'
  BY DEF KeyIInv, KeysSound, KeyTypeOK, OneMasterKey, MasterKeyReachable
<1>2. OneCommand'
  BY DEF KeyIInv, KeysSound, KeyTypeOK, OneCommand, KeyCommands, Rings
<1>3. RingsKnow'
  BY DEF KeyIInv, KeysSound, KeyTypeOK, RingsKnow
<1>4. RotatesUnderTheKey'
  BY DEF KeyIInv, KeysSound, KeyTypeOK, RotatesUnderTheKey, Loads, Rings
<1>5. MasterAt'
  BY DEF KeyIInv, KeysSound, KeyTypeOK, MasterAt, Loads, Rings
<1> QED BY <1>1, <1>2, <1>3, <1>4, <1>5 DEF KeyIInv

\* The wrappings of a table of versions, as long as it is.
LEMMA WrappedIs ==
    ASSUME KeyTypeOK
    PROVE  /\ Len(wrapped) \in Nat /\ DOMAIN wrapped = 1 .. Len(wrapped)
           /\ wrapped # <<>> => 1 \in DOMAIN wrapped
           /\ \A v \in DOMAIN wrapped : wrapped[v] \in Keys
           /\ \A k \in Keys : [v \in DOMAIN wrapped |-> k] \in Seq(Keys)
<1>1. Len(wrapped) \in Nat /\ DOMAIN wrapped = 1 .. Len(wrapped) /\ wrapped \in [1 .. Len(wrapped) -> Keys]
  BY LenProperties DEF KeyTypeOK
<1>2. wrapped # <<>> => Len(wrapped) \in Nat \ {0}
  BY EmptySeq DEF KeyTypeOK
<1>3. ASSUME NEW k \in Keys PROVE [v \in DOMAIN wrapped |-> k] \in Seq(Keys)
  BY <1>1
<1> QED BY <1>1, <1>2, <1>3

\* Opening, loading and closing a ring, and reading the table again.
LEMMA RingSteps ==
    ASSUME KeyIInv, ~Overlap, NEW p \in Rings,
           Open(p) \/ Load(p) \/ Close(p) \/ \E s \in Secrets : Decrypt(p, s)
    PROVE  KeyIInv'
<1> USE KeyAssumption
<1>1. DOMAIN wrapped \in SUBSET Nat /\ \E n \in Nat : DOMAIN wrapped = 1 .. n
  <2>1. Len(wrapped) \in Nat /\ DOMAIN wrapped = 1 .. Len(wrapped)
    BY WrappedIs DEF KeyIInv, KeysSound
  <2>2. 1 .. Len(wrapped) \in SUBSET Nat
    BY <2>1
  <2> QED BY <2>1, <2>2, Zenon
<1>2. Down.pc = "down" /\ Down.kek = NoKey /\ Down.held = {} /\ \E n \in Nat : Down.held = 1 .. n
  <2>1. 1 .. 0 = {}
    OBVIOUS
  <2> QED BY <2>1 DEF Down
<1>3. /\ ring \in [Rings -> [pc : {"down", "empty", "created", "up"}, kek : Keys \cup {NoKey}, held : SUBSET Nat]]
      /\ keyFile \in Keys /\ Rings = Gateways \cup KeyCommands
  BY DEF KeyIInv, KeysSound, KeyTypeOK, Rings, KeyCommands
<1>4. CASE Open(p)
  <2> DEFINE r == IF wrapped = <<>> THEN [pc |-> "empty", kek |-> keyFile, held |-> {}]
                  ELSE IF Loads(keyFile) THEN [pc |-> "up", kek |-> keyFile, held |-> DOMAIN wrapped]
                  ELSE Down
  <2>1. ring' = [ring EXCEPT ![p] = r] /\ UNCHANGED <<wrapped, sealed, keyFile, next, seen, km>>
    BY <1>4 DEF Open
  <2>2. p \in KeyCommands => \A q \in KeyCommands \ {p} : ring[q].pc = "down"
    BY <1>4 DEF Open, Alone, KeyCommands
  <2>3. p = Master => km.pc = "idle"
    BY <1>4 DEF Open, KeyIInv, MasterAt
  <2>4. /\ r \in [pc : {"down", "empty", "created", "up"}, kek : Keys \cup {NoKey}, held : SUBSET Nat]
        /\ \E n \in Nat : r.held = 1 .. n
        /\ r.pc # "down" => r.kek = keyFile
        /\ r.pc \in {"created", "up"} => wrapped # <<>> /\ Loads(keyFile)
    BY <1>1, <1>2, <1>3 DEF Down
  <2> HIDE DEF r
  <2> QED BY <2>1, <2>2, <2>3, <2>4, <1>3, OneRingStep
<1>5. CASE Load(p)
  <2> DEFINE r == IF Loads(ring[p].kek) THEN [pc |-> "up", kek |-> ring[p].kek, held |-> DOMAIN wrapped]
                  ELSE Down
  <2>1. ring' = [ring EXCEPT ![p] = r] /\ UNCHANGED <<wrapped, sealed, keyFile, next, seen, km>>
    BY <1>3, <1>5 DEF Load, loadOrStop
  <2>2. /\ r \in [pc : {"down", "empty", "created", "up"}, kek : Keys \cup {NoKey}, held : SUBSET Nat]
        /\ \E n \in Nat : r.held = 1 .. n
        /\ r.pc # "down" => r.kek = ring[p].kek /\ r.pc = "up" /\ Loads(ring[p].kek)
    BY <1>1, <1>2, <1>3 DEF Down
  <2>3. ring[p].pc = "created"
    BY <1>5 DEF Load
  <2>4. /\ ring[p].kek \in Keys /\ wrapped # <<>>
        /\ p \in KeyCommands => \A q \in KeyCommands \ {p} : ring[q].pc = "down"
        /\ p = Master => km.pc = "idle" /\ ring[p].kek = keyFile
    BY <2>3 DEF KeyIInv, RingsKnow, OneCommand, MasterAt
  <2> HIDE DEF r
  <2> QED BY <2>1, <2>2, <2>4, OneRingStep
<1>6. CASE Close(p)
  BY <1>2, <1>3, <1>6, OneRingStep DEF Close, Down
<1>7. ASSUME NEW s \in Secrets, Decrypt(p, s) PROVE KeyIInv'
  <2> DEFINE r == [pc |-> "up", kek |-> ring[p].kek, held |-> DOMAIN wrapped]
  <2>1. /\ ring' = [ring EXCEPT ![p] = r] /\ UNCHANGED <<wrapped, sealed, keyFile, next, seen, km>>
        /\ p \in Gateways /\ ring[p].pc = "up"
    <3>1. ring[p].pc = "up" => [ring[p] EXCEPT !.held = DOMAIN wrapped] = r
      BY <1>3
    <3> QED BY <1>3, <1>7, <3>1 DEF Decrypt
  <2>2. /\ ring[p].kek \in Keys /\ wrapped # <<>> /\ p \notin KeyCommands
    BY <2>1 DEF KeyIInv, RingsKnow, KeyCommands
  <2>3. p # Master
    BY <2>2 DEF KeyCommands
  <2>4. /\ r \in [pc : {"down", "empty", "created", "up"}, kek : Keys \cup {NoKey}, held : SUBSET Nat]
        /\ r.pc = "up" /\ r.kek = ring[p].kek /\ \E n \in Nat : r.held = 1 .. n
    BY <1>1, <2>2
  <2> HIDE DEF r
  <2> QED BY <2>1, <2>2, <2>3, <2>4, OneRingStep
<1> QED BY <1>4, <1>5, <1>6, <1>7

\* A step of rotate-master that leaves the rows and the processes alone: KmChoose,
\* KmStage, KmResign, KmFile.
LEMMA KmQuiet ==
    ASSUME KeyIInv, KmStage \/ KmResign \/ KmFile \/ \E to \in {"file", "none"}, g \in BOOLEAN, k \in Keys : KmChoose(to, g, k)
    PROVE  KeyIInv'
<1> USE KeyAssumption
<1> Master \in Rings
  BY DEF Rings
<1>0. wrapped' = wrapped /\ ring' = ring /\ sealed' = sealed /\ (wrapped = <<>> => keyFile' = keyFile)
  BY DEF KmStage, KmResign, KmFile, replaceFile, KmChoose, KeyIInv, RingsKnow, MasterAt
<1>1. KeyTypeOK'
  BY <1>0 DEF KmStage, KmResign, KmFile, replaceFile, KmChoose, KeyIInv, KeysSound, KeyTypeOK, MasterAt
<1>2. MasterAt'
  <2>1. CASE KmStage
    BY <2>1 DEF KmStage, KeyIInv, KeysSound, KeyTypeOK, MasterAt, Loads
  <2>2. CASE KmResign
    BY <2>2 DEF KmResign, KeyIInv, KeysSound, KeyTypeOK, MasterAt, Loads
  <2>3. CASE KmFile
    BY <2>3 DEF KmFile, replaceFile, KeyIInv, KeysSound, KeyTypeOK, MasterAt, Loads
  <2>4. ASSUME NEW to \in {"file", "none"}, NEW g \in BOOLEAN, NEW k \in Keys, KmChoose(to, g, k)
        PROVE  MasterAt'
    BY <2>4 DEF KmChoose, KeyIInv, KeysSound, KeyTypeOK, MasterAt, Loads
  <2> QED BY <2>1, <2>2, <2>3, <2>4
<1>3. MasterKeyReachable'
  <2>1. CASE KmStage
    BY <2>1 DEF KmStage, KeyIInv, KeysSound, MasterKeyReachable, MasterAt, Loads
  <2>2. CASE KmFile
    BY <2>2 DEF KmFile, replaceFile, KeyIInv, KeysSound, MasterKeyReachable, MasterAt, Loads
  <2>3. CASE KmResign \/ \E to \in {"file", "none"}, g \in BOOLEAN, k \in Keys : KmChoose(to, g, k)
    BY <2>3 DEF KmResign, KmChoose, KeyIInv, KeysSound, MasterKeyReachable
  <2> QED BY <2>1, <2>2, <2>3
<1>4. OneMasterKey' /\ OneCommand' /\ RingsKnow' /\ RotatesUnderTheKey'
  BY <1>0 DEF KeyIInv, KeysSound, OneMasterKey, OneCommand, RingsKnow, RotatesUnderTheKey, Loads
<1> QED BY <1>1, <1>2, <1>3, <1>4 DEF KeyIInv, KeysSound

\* rotate-master ends, well or not.
LEMMA KmEnds ==
    ASSUME KeyIInv, KmPrint \/ KmUnstage \/ KmStop
    PROVE  KeyIInv'
<1> USE KeyAssumption
<1> Master \in Rings
  BY DEF Rings
<1>0. /\ wrapped' = wrapped /\ ring' = [ring EXCEPT ![Master] = Down] /\ sealed' = sealed /\ keyFile' = keyFile
      /\ km' = KmIdle /\ seen \subseteq seen'
  BY DEF KmPrint, KmUnstage, KmStop
<1>1. KeyTypeOK'
  <2>1. Down \in [pc : {"down", "empty", "created", "up"}, kek : Keys \cup {NoKey}, held : SUBSET Nat]
    BY DEF Down
  <2>2. KmIdle \in [pc : {"idle", "chosen", "staged", "rewrapped", "resigned", "filed"},
                    to : {"file", "none"}, generate : BOOLEAN, old : Keys \cup {NoKey}, new : Keys \cup {NoKey}]
    BY DEF KmIdle
  <2>3. next' \in Keys \cup {NoKey} /\ seen' \in SUBSET Keys
    BY DEF KmPrint, KmUnstage, KmStop, KeyIInv, KeysSound, KeyTypeOK, MasterAt
  <2> QED BY <1>0, <2>1, <2>2, <2>3 DEF KeyIInv, KeysSound, KeyTypeOK
<1>2. MasterKeyReachable'
  BY <1>0 DEF KmPrint, KmUnstage, KmStop, KeyIInv, KeysSound, MasterKeyReachable, MasterAt, Loads
<1>3. MasterAt'
  BY <1>0 DEF KeyIInv, KeysSound, KeyTypeOK, MasterAt, Down, KmIdle
<1>4. RingsKnow'
  <2>1. 1 .. 0 = {}
    OBVIOUS
  <2> QED BY <1>0, <2>1 DEF KeyIInv, KeysSound, KeyTypeOK, RingsKnow, Down
<1>5. OneMasterKey' /\ OneCommand' /\ RotatesUnderTheKey'
  BY <1>0 DEF KeyIInv, KeysSound, KeyTypeOK, OneMasterKey, OneCommand, RotatesUnderTheKey, Loads, Down, Rings, KeyCommands
<1> QED BY <1>1, <1>2, <1>3, <1>4, <1>5 DEF KeyIInv, KeysSound

\* Rewrap: every version under the new key, in one transaction.
LEMMA KmRewraps ==
    ASSUME KeyIInv, KmRewrap
    PROVE  KeyIInv'
<1> USE KeyAssumption DEF KmRewrap
<1> Master \in Rings /\ Master \in KeyCommands
  BY DEF Rings, KeyCommands
<1>0. /\ km.new \in Keys /\ ring[Master].pc = "up" /\ km.new \in {next} \cup seen
      /\ wrapped' = [v \in DOMAIN wrapped |-> km.new] /\ wrapped # <<>>
  BY DEF KeyIInv, MasterAt
<1>1. wrapped' \in Seq(Keys) /\ wrapped' # <<>> /\ \A v \in DOMAIN wrapped' : wrapped'[v] = km.new
  <2>1. 1 \in DOMAIN wrapped
    BY WrappedIs DEF KeyIInv, KeysSound
  <2>2. DOMAIN wrapped' = DOMAIN wrapped
    BY <1>0
  <2>3. wrapped' # <<>>
    BY <2>1, <2>2
  <2> QED BY <1>0, <2>3, WrappedIs DEF KeyIInv, KeysSound
<1>2. KeyTypeOK'
  <2>1. ring' \in [Rings -> [pc : {"down", "empty", "created", "up"}, kek : Keys \cup {NoKey}, held : SUBSET Nat]]
    <3> DEFINE RS == [pc : {"down", "empty", "created", "up"}, kek : Keys \cup {NoKey}, held : SUBSET Nat]
               r == [ring[Master] EXCEPT !.kek = km.new]
    <3>1. ring \in [Rings -> RS]
      BY DEF KeyIInv, KeysSound, KeyTypeOK
    <3>2. r \in RS
      BY <1>0, <3>1
    <3>3. ring' = [ring EXCEPT ![Master] = r]
      OBVIOUS
    <3>4. ring' \in [Rings -> RS]
      <4> HIDE DEF r, RS
      <4> QED BY <3>1, <3>2, <3>3
    <3> QED BY <3>4
  <2>2. km' \in [pc : {"idle", "chosen", "staged", "rewrapped", "resigned", "filed"},
                 to : {"file", "none"}, generate : BOOLEAN, old : Keys \cup {NoKey}, new : Keys \cup {NoKey}]
    BY DEF KeyIInv, KeysSound, KeyTypeOK
  <2> QED BY <1>1, <2>1, <2>2 DEF KeyIInv, KeysSound, KeyTypeOK
<1>3. OneMasterKey' /\ MasterKeyReachable'
  BY <1>0, <1>1 DEF OneMasterKey, MasterKeyReachable
<1>4. RingsKnow'
  BY <1>0, <1>1 DEF KeyIInv, KeysSound, KeyTypeOK, RingsKnow
<1>5. OneCommand' /\ RotatesUnderTheKey'
  BY <1>0, <1>1 DEF KeyIInv, KeysSound, KeyTypeOK, OneCommand, RotatesUnderTheKey, Rings, KeyCommands
<1>6. MasterAt'
  BY <1>0, <1>1 DEF KeyIInv, KeysSound, KeyTypeOK, MasterAt, Loads
<1> QED BY <1>2, <1>3, <1>4, <1>5, <1>6 DEF KeyIInv, KeysSound

\* A version is created: the first, or the next of `key rotate`.
LEMMA Creates ==
    ASSUME KeyIInv, NEW p \in Rings, Bootstrap(p) \/ Rotate(p)
    PROVE  KeyIInv'
<1> USE KeyAssumption DEF createVersion
<1>1. /\ ring[p].kek \in Keys /\ wrapped' \in {wrapped, Append(wrapped, ring[p].kek)}
      /\ wrapped = <<>> => wrapped' = Append(wrapped, ring[p].kek)
      /\ ring' = [ring EXCEPT ![p].pc = "created"] /\ ring[p].pc \in {"empty", "up"}
      /\ UNCHANGED <<sealed, keyFile, next, seen, km>>
  BY DEF Bootstrap, Rotate, KeyIInv, RingsKnow
<1>2. /\ wrapped' \in Seq(Keys) /\ wrapped' # <<>>
      /\ \A v \in DOMAIN wrapped' : wrapped'[v] = ring[p].kek \/ (v \in DOMAIN wrapped /\ wrapped'[v] = wrapped[v])
  <2> DEFINE a == Append(wrapped, ring[p].kek)
  <2>1. wrapped \in Seq(Keys)
    BY DEF KeyIInv, KeysSound, KeyTypeOK
  <2>2. /\ a \in Seq(Keys) /\ a # <<>>
        /\ \A v \in DOMAIN a : a[v] = ring[p].kek \/ (v \in DOMAIN wrapped /\ a[v] = wrapped[v])
    <3>1. /\ a \in Seq(Keys) /\ a # <<>> /\ Len(a) = Len(wrapped) + 1
          /\ \A v \in 1 .. Len(wrapped) : a[v] = wrapped[v]
          /\ a[Len(wrapped) + 1] = ring[p].kek
      BY <1>1, <2>1, AppendProperties
    <3>2. /\ Len(wrapped) \in Nat /\ DOMAIN wrapped = 1 .. Len(wrapped)
          /\ Len(a) \in Nat /\ DOMAIN a = 1 .. Len(a)
      BY <3>1, <2>1, LenProperties
    <3> HIDE DEF a
    <3>3. \A v \in DOMAIN a : v \in 1 .. Len(wrapped) \/ v = Len(wrapped) + 1
      BY <3>1, <3>2
    <3> QED BY <3>1, <3>2, <3>3
  <2>3. wrapped' \in {wrapped, a} /\ (wrapped = <<>> => wrapped' = a)
    BY <1>1
  <2> HIDE DEF a
  <2> QED BY <2>1, <2>2, <2>3
<1>3. wrapped' # wrapped =>
          /\ Loads(ring[p].kek) /\ ring[p].kek \in {keyFile, next} \cup seen
          /\ wrapped = <<>> \/ p \in Commands
  <2>1. CASE Bootstrap(p)
    BY <2>1 DEF Bootstrap, KeyIInv, RingsKnow, Loads
  <2>2. CASE Rotate(p)
    <3>1. Loads(ring[p].kek) /\ wrapped # <<>> /\ p \in Commands
      BY <2>2 DEF Rotate, KeyIInv, RotatesUnderTheKey, RingsKnow
    <3>2. 1 \in DOMAIN wrapped
      BY <3>1, WrappedIs DEF KeyIInv, KeysSound
    <3> QED BY <3>1, <3>2 DEF Loads, KeyIInv, KeysSound, MasterKeyReachable
  <2> QED BY <2>1, <2>2
<1>4. /\ p = Master => km.pc = "idle"
      /\ p \in Commands /\ wrapped # <<>> /\ wrapped' # wrapped => ring[Master].pc = "down"
  <2>1. CASE Bootstrap(p)
    BY <2>1 DEF Bootstrap, KeyIInv, MasterAt
  <2>2. CASE Rotate(p)
    BY <2>2 DEF Rotate, KeyIInv, OneCommand, KeyCommands
  <2> QED BY <2>1, <2>2
<1>5. KeyTypeOK'
  <2> DEFINE RS == [pc : {"down", "empty", "created", "up"}, kek : Keys \cup {NoKey}, held : SUBSET Nat]
             r == [ring[p] EXCEPT !.pc = "created"]
  <2>1. ring \in [Rings -> RS]
    BY DEF KeyIInv, KeysSound, KeyTypeOK
  <2>2. r \in RS /\ ring' = [ring EXCEPT ![p] = r]
    BY <1>1, <2>1
  <2>3. ring' \in [Rings -> RS]
    <3> HIDE DEF r, RS
    <3> QED BY <2>1, <2>2
  <2> QED BY <1>1, <1>2, <2>3 DEF KeyIInv, KeysSound, KeyTypeOK
<1>6. OneMasterKey' /\ MasterKeyReachable'
  <2>1. CASE wrapped' = wrapped
    BY <1>1, <2>1 DEF KeyIInv, KeysSound, OneMasterKey, MasterKeyReachable
  <2>2. CASE wrapped' # wrapped
    <3>1. \A v \in DOMAIN wrapped' : wrapped'[v] = ring[p].kek
      BY <1>2, <1>3, <2>2 DEF Loads
    <3> QED BY <1>1, <1>3, <2>2, <3>1 DEF OneMasterKey, MasterKeyReachable
  <2> QED BY <2>1, <2>2
<1>7. OneCommand'
  BY <1>1 DEF KeyIInv, KeysSound, KeyTypeOK, OneCommand, KeyCommands, Rings
<1>8. RingsKnow'
  BY <1>1, <1>2 DEF KeyIInv, KeysSound, KeyTypeOK, RingsKnow
<1>9. RotatesUnderTheKey'
  <2> SUFFICES ASSUME NEW q \in Commands, ring'[q].pc = "up" PROVE Loads(ring[q].kek)' /\ ring'[q].kek = ring[q].kek
    BY DEF RotatesUnderTheKey, Loads
  <2>1. q # p /\ ring'[q] = ring[q] /\ q \in Rings /\ wrapped # <<>> /\ Loads(ring[q].kek)
    BY <1>1 DEF KeyIInv, KeysSound, KeyTypeOK, Rings, RotatesUnderTheKey, RingsKnow
  <2>2. wrapped' = wrapped
    BY <1>1, <1>3, <2>1 DEF KeyIInv, OneCommand, KeyCommands
  <2> QED BY <2>1, <2>2 DEF Loads
<1>10. MasterAt'
  <2> Master \in Rings
    BY DEF Rings
  <2>1. wrapped' # wrapped => ring[Master].pc # "up"
    BY <1>3, <1>4 DEF KeyIInv, RingsKnow
  <2>2. ring'[Master].kek = ring[Master].kek /\ (ring'[Master].pc # ring[Master].pc => p = Master /\ ring'[Master].pc = "created" /\ ring[Master].pc # "down")
    BY <1>1 DEF KeyIInv, KeysSound, KeyTypeOK
  <2>3. km.pc # "idle" => wrapped' = wrapped /\ ring'[Master].pc = "up"
    BY <1>4, <2>1, <2>2 DEF KeyIInv, MasterAt
  <2>4. ring'[Master].pc = "up" => wrapped' = wrapped /\ ring[Master].pc = "up"
    BY <2>1, <2>2
  <2> QED BY <1>1, <2>2, <2>3, <2>4 DEF KeyIInv, MasterAt, Loads, KmIdle
<1> QED BY <1>5, <1>6, <1>7, <1>8, <1>9, <1>10 DEF KeyIInv, KeysSound

\* Every step of the key ring keeps it, rotations one at a time.
LEMMA KeyNextIInv == ASSUME ~Overlap PROVE KeyIInv /\ [KeyNext]_keyVars => KeyIInv'
<1> SUFFICES ASSUME KeyIInv, [KeyNext]_keyVars PROVE KeyIInv'
  OBVIOUS
<1> USE KeyAssumption
<1>1. ASSUME NEW p \in Rings, Open(p) \/ Bootstrap(p) \/ Load(p) \/ Rotate(p) \/ Close(p) PROVE KeyIInv'
  BY <1>1, RingSteps, Creates
<1>2. ASSUME NEW p \in Rings, NEW s \in Secrets, Encrypt(p, s) PROVE KeyIInv'
  <2>1. sealed' \in [Secrets -> Nat]
    BY <1>2, ActiveIsNat DEF Encrypt, KeyIInv, KeysSound, KeyTypeOK
  <2> QED BY <1>2, <2>1 DEF Encrypt, KeyIInv, KeysSound, KeyTypeOK, OneMasterKey, MasterKeyReachable,
              OneCommand, RingsKnow, RotatesUnderTheKey, MasterAt, Loads
<1>3. ASSUME NEW p \in Rings, NEW s \in Secrets, Decrypt(p, s) PROVE KeyIInv'
  BY <1>3, RingSteps
<1>4. ASSUME NEW k \in Keys, OperatorSetsKey(k) PROVE KeyIInv'
  <2>1. wrapped # <<>> /\ ring[Master].pc = "down"
    BY <1>4 DEF OperatorSetsKey, Loads
  <2> QED BY <1>4, <2>1 DEF OperatorSetsKey, KeyIInv, KeysSound, KeyTypeOK, OneMasterKey, MasterKeyReachable,
              OneCommand, RingsKnow, RotatesUnderTheKey, MasterAt, Loads
<1>5. CASE UNCHANGED keyVars
  BY <1>5 DEF keyVars, KeyIInv, KeysSound, KeyTypeOK, OneMasterKey, MasterKeyReachable,
     OneCommand, RingsKnow, RotatesUnderTheKey, MasterAt, Loads
<1> QED BY <1>1, <1>2, <1>3, <1>4, <1>5, KmQuiet, KmEnds, KmRewraps DEF KeyNext

\* Wherever a gateway, `key rotate` or `key rotate-master` stops (ring.go, key.go),
\* one master key opens every data key and somebody can reach it, when no two of
\* the key commands overlap.
THEOREM KeysStaySound == ASSUME ~Overlap PROVE KeySpec => []KeysSound
<1>1. KeyIInv => KeysSound
  BY DEF KeyIInv
<1> QED BY <1>1, KeyInitIInv, KeyNextIInv, PTL DEF KeySpec

-----------------------------------------------------------------------------
(* Anchors.  Signed anchors and Verify beside gateways and key commands.   *)

\* A log nobody touched is the rows as Record wrote them, the anchors and what a
\* verification has read so far agree with it, and no reseal is at work.
Untouched == tampers = 0 =>
    /\ log = {[id |-> n, prev |-> <<n - 1, 0>>, hash |-> <<n, 0>>, ok |-> TRUE] : n \in 1 .. seqHigh}
    /\ reseal = "idle"
    /\ \A a \in anchors : a.event \in 1 .. seqHigh /\ a.hash = <<a.event, 0>>
    /\ verify.pc \in {"anchors", "hashes"} =>
          \A a \in verify.stored : /\ a.event \in 1 .. seqHigh /\ a.hash = <<a.event, 0>>
                                   /\ \E b \in anchors : b.event = a.event
    /\ verify.pc = "hashes" => \A a \in verify.stored : a.hash \in verify.hashes
    /\ verify.pc \in {"walked", "anchors", "hashes"} => verify.found = {}

\* Touched or not: a row is the only one with its id, and a hash tells its row.
RowsKnown ==
    /\ \A r \in log : r.id \in 1 .. seqHigh /\ r.hash[1] = r.id
    /\ \A q, r \in log : q.id = r.id => q = r
    /\ \A a \in anchors : a.event \in 1 .. seqHigh /\ a.hash[1] = a.event

\* The anchor of a deleted event outlives everything, and a verification that began
\* after the deletion has read it and no event it could name.
GapKnown ==
    /\ lost => \E a \in anchors : a.event \notin Ids
    /\ verify.lost /\ verify.pc = "walked" => lost
    /\ verify.lost /\ verify.pc \in {"anchors", "hashes"} =>
          \E a \in verify.stored :
             /\ a.event \in 1 .. seqHigh /\ a.hash[1] = a.event /\ a.event \notin Ids
             /\ verify.pc = "hashes" => \A h \in verify.hashes : h[1] # a.event

AnchorIInv == AnchorTypeOK /\ NoFalseAlarm /\ TruncationFound /\ Untouched /\ RowsKnown /\ GapKnown

\* A set of naturals has a least element, a bounded one a greatest.
LEMMA Least ==
    ASSUME NEW S \in SUBSET Nat, S # {}
    PROVE  \E n \in S : \A m \in S : n <= m
<1>1. PICK n \in S : \A m \in S : <<m, n>> \notin OpToRel(<, Nat)
  BY WFMin, NatLessThanWellFounded, Zenon
<1>2. \A m \in S : ~(m < n)
  BY <1>1, Zenon DEF OpToRel
<1> QED BY <1>2

\* A finite set of numbers has a greatest member.
LEMMA Most ==
    ASSUME NEW S \in SUBSET Nat, S # {}, NEW b \in Nat, \A m \in S : m <= b
    PROVE  \E n \in S : \A m \in S : m <= n
<1> DEFINE D == {b - m : m \in S}
<1>0. \A m \in S : b - m \in Nat
  OBVIOUS
<1>1. D \in SUBSET Nat /\ D # {} /\ \A m \in S : b - m \in D
  BY <1>0, Zenon
<1>2. PICK d \in D : \A e \in D : d <= e
  BY <1>1, Least
<1>3. PICK n \in S : d = b - n
  OBVIOUS
<1>4. \A m \in S : d <= b - m
  BY <1>1, <1>2
<1> HIDE DEF D
<1> QED BY <1>3, <1>4

\* The newest row, and the hash the next one is chained to.
LEMMA HeadKnown ==
    ASSUME AnchorTypeOK, RowsKnown
    PROVE  /\ head \in Hashes /\ maxID \in Nat
           /\ \A i \in Ids : i <= maxID
           /\ log # {} => /\ maxID \in Ids /\ maxID \in 1 .. seqHigh
                          /\ \E r \in log : r.id = maxID /\ r.hash = head
                          /\ head[1] = maxID
           /\ log = {} => maxID = 0 /\ head = Genesis
<1>1. /\ Ids \in SUBSET Nat /\ \A i \in Ids : i <= seqHigh /\ i \in 1 .. seqHigh
      /\ seqHigh \in Nat /\ Genesis \in Hashes
  BY DEF AnchorTypeOK, RowsKnown, Ids, LogRow, Genesis, Hashes
<1>2. CASE log = {}
  <2>1. Ids = {}
    BY <1>2 DEF Ids
  <2>2. maxID = 0
    BY <2>1 DEF maxID
  <2> QED BY <1>1, <1>2, <2>1, <2>2 DEF head
<1>3. CASE log # {}
  <2>1. Ids # {}
    BY <1>3 DEF Ids
  <2>2. PICK n \in Ids : \A m \in Ids : m <= n
    BY <1>1, <2>1, Most
  <2>3. maxID \in Ids \cup {0} /\ \A i \in Ids : i <= maxID
    BY <2>2 DEF maxID
  <2>4. maxID \in Ids
    BY <1>1, <2>2, <2>3
  <2>5. PICK r \in log : r.id = maxID
    BY <2>4 DEF Ids
  <2>6. r = (CHOOSE q \in log : q.id = maxID)
    BY <2>5 DEF RowsKnown
  <2>7. head = r.hash
    BY <1>3, <2>6 DEF head
  <2>8. r.hash \in Hashes /\ r.hash[1] = r.id
    BY DEF AnchorTypeOK, RowsKnown, LogRow
  <2> QED BY <1>1, <1>3, <2>3, <2>4, <2>5, <2>7, <2>8
<1> QED BY <1>2, <1>3

\* What is true of a log nobody touched: its head is the last row written, its links hold.
LEMMA WholeLog ==
    ASSUME AnchorTypeOK, RowsKnown, Untouched, tampers = 0
    PROVE  maxID = seqHigh /\ head = <<seqHigh, 0>> /\ walk /\ Ids = 1 .. seqHigh
<1>0. seqHigh \in Nat
  BY DEF AnchorTypeOK
<1>1. log = {[id |-> n, prev |-> <<n - 1, 0>>, hash |-> <<n, 0>>, ok |-> TRUE] : n \in 1 .. seqHigh}
  BY DEF Untouched
<1>2. /\ \A r \in log : r.id \in 1 .. seqHigh /\ r.hash = <<r.id, 0>> /\ r.prev = <<r.id - 1, 0>> /\ r.ok
      /\ \A n \in 1 .. seqHigh : \E r \in log : r.id = n
  <2>1. \A r \in log : \E n \in 1 .. seqHigh : r = [id |-> n, prev |-> <<n - 1, 0>>, hash |-> <<n, 0>>, ok |-> TRUE]
    BY <1>1
  <2>2. \A n \in 1 .. seqHigh : [id |-> n, prev |-> <<n - 1, 0>>, hash |-> <<n, 0>>, ok |-> TRUE] \in log
    BY <1>1
  <2>3. \A n \in 1 .. seqHigh : [id |-> n, prev |-> <<n - 1, 0>>, hash |-> <<n, 0>>, ok |-> TRUE].id = n
    OBVIOUS
  <2>4. \A n \in 1 .. seqHigh : \E r \in log : r.id = n
    BY <2>2, <2>3, Zenon
  <2> QED BY <2>1, <2>4
<1>3. Ids = 1 .. seqHigh
  BY <1>2 DEF Ids
<1>4. maxID = seqHigh /\ head = <<seqHigh, 0>>
  <2>1. CASE log = {}
    <3>1. ~(1 \in Ids)
      BY <2>1 DEF Ids
    <3>2. seqHigh = 0
      BY <1>0, <1>3, <3>1
    <3> QED BY <2>1, <3>2, HeadKnown DEF Genesis
  <2>2. CASE log # {}
    <3>1. seqHigh \in Ids /\ maxID \in Ids /\ seqHigh <= maxID
      BY <1>0, <1>3, <2>2, HeadKnown
    <3>2. maxID = seqHigh
      BY <1>0, <1>3, <3>1
    <3>3. PICK r \in log : r.id = maxID /\ r.hash = head
      BY <2>2, HeadKnown
    <3> QED BY <1>2, <3>2, <3>3
  <2> QED BY <2>1, <2>2
<1>5. ASSUME NEW r \in log PROVE LinkHolds(r)
  <2> DEFINE earlier == {q \in log : q.id < r.id}
  <2>1. r.id \in 1 .. seqHigh /\ r.ok /\ r.prev = <<r.id - 1, 0>>
    BY <1>2
  <2>2. CASE r.id = 1
    <3>1. earlier = {}
      BY <1>0, <1>2, <2>2
    <3> QED BY <2>1, <2>2, <3>1 DEF LinkHolds, Before, Genesis
  <2>3. CASE r.id # 1
    <3>1. r.id - 1 \in 1 .. seqHigh
      BY <1>0, <2>1, <2>3
    <3>2. PICK q \in log : q.id = r.id - 1
      BY <1>2, <3>1
    <3>3. q \in earlier /\ \A x \in earlier : x.id <= q.id
      BY <1>0, <1>2, <2>1, <3>2
    <3>4. \A x \in earlier : (\A y \in earlier : y.id <= x.id) => x.id = q.id
      BY <1>0, <1>2, <2>1, <3>2, <3>3
    <3>5. \A x \in earlier : (\A y \in earlier : y.id <= x.id) => x = q
      BY <3>4 DEF RowsKnown
    <3>6. (CHOOSE x \in earlier : \A y \in earlier : y.id <= x.id) = q
      BY <3>3, <3>5
    <3>7. Before(r) = q.hash
      BY <3>3, <3>6 DEF Before
    <3> QED BY <1>2, <2>1, <3>2, <3>7 DEF LinkHolds
  <2> QED BY <2>2, <2>3
<1> QED BY <1>3, <1>4, <1>5 DEF walk

\* An empty log is anchored.
LEMMA AnchorInitIInv == AnchorInit => AnchorIInv
<1> SUFFICES ASSUME AnchorInit PROVE AnchorIInv
  OBVIOUS
<1> USE KeyAssumption
<1>1. AnchorTypeOK
  BY DEF AnchorInit, AnchorTypeOK, VerifyIdle, VerifyRec
<1>2. 1 .. 0 = {}
  OBVIOUS
<1>3. Untouched
  BY <1>2 DEF AnchorInit, Untouched, VerifyIdle
<1> QED BY <1>1, <1>3 DEF AnchorInit, AnchorIInv, NoFalseAlarm, TruncationFound, RowsKnown, GapKnown, VerifyIdle

\* An event recorded, by anyone or by the reseal.
LEMMA AppendStep == ASSUME AnchorIInv, Record \/ ResealRecord PROVE AnchorIInv'
<1> DEFINE new == [id |-> seqHigh + 1, prev |-> head, hash |-> <<seqHigh + 1, 0>>, ok |-> TRUE]
<1>0. AnchorTypeOK /\ RowsKnown /\ Untouched /\ GapKnown /\ seqHigh \in Nat
  BY DEF AnchorIInv, AnchorTypeOK
<1>1. /\ seqHigh' = seqHigh + 1 /\ log' = log \cup {new}
      /\ UNCHANGED <<anchors, signed, verify, reseals, tampers, lost>>
      /\ reseal' = reseal \/ (reseal = "sealed" /\ reseal' = "recorded")
  BY DEF Record, ResealRecord, AppendEvent
<1>2. new \in LogRow /\ new.id = seqHigh + 1 /\ new.hash = <<seqHigh + 1, 0>> /\ new.hash[1] = seqHigh + 1
  BY <1>0, HeadKnown DEF LogRow, Hashes
<1>3. tampers = 0 => new = [id |-> seqHigh + 1, prev |-> <<(seqHigh + 1) - 1, 0>>, hash |-> <<seqHigh + 1, 0>>, ok |-> TRUE]
  <2>1. tampers = 0 => head = <<seqHigh, 0>>
    BY <1>0, WholeLog
  <2>2. (seqHigh + 1) - 1 = seqHigh
    BY <1>0
  <2> QED BY <2>1, <2>2
<1> HIDE DEF new
<1>4. AnchorTypeOK'
  BY <1>0, <1>1, <1>2 DEF AnchorTypeOK
<1>5. \A n \in 1 .. seqHigh : n \in 1 .. (seqHigh + 1)
  BY <1>0
<1>6. Untouched'
  <2> SUFFICES ASSUME tampers = 0
               PROVE log' = {[id |-> n, prev |-> <<n - 1, 0>>, hash |-> <<n, 0>>, ok |-> TRUE] : n \in 1 .. seqHigh'}
    BY <1>0, <1>1, <1>5 DEF Untouched
  <2>1. log = {[id |-> n, prev |-> <<n - 1, 0>>, hash |-> <<n, 0>>, ok |-> TRUE] : n \in 1 .. seqHigh}
    BY <1>0 DEF Untouched
  <2>2. 1 .. seqHigh' = 1 .. seqHigh \cup {seqHigh + 1}
    BY <1>0, <1>1
  <2> QED BY <1>1, <1>3, <2>1, <2>2, Zenon
<1>7. RowsKnown'
  <2>1. \A r \in log : r.id # new.id
    BY <1>0, <1>2 DEF RowsKnown
  <2>2. seqHigh + 1 \in 1 .. (seqHigh + 1)
    BY <1>0
  <2> QED BY <1>0, <1>1, <1>2, <1>5, <2>1, <2>2 DEF RowsKnown
<1>8. GapKnown'
  <2>1. Ids' = Ids \cup {seqHigh + 1} /\ \A n \in 1 .. seqHigh : n # seqHigh + 1
    BY <1>0, <1>1, <1>2 DEF Ids
  <2>2. \A a \in anchors : a.event \in 1 .. seqHigh
    BY <1>0 DEF RowsKnown
  <2>3. lost' => \E a \in anchors' : a.event \notin Ids'
    BY <1>0, <1>1, <2>1, <2>2 DEF GapKnown
  <2>4. verify' = verify /\ lost' = lost /\ seqHigh' = seqHigh + 1
    BY <1>1
  <2> QED BY <1>0, <1>5, <2>1, <2>3, <2>4 DEF GapKnown
<1> QED BY <1>1, <1>4, <1>6, <1>7, <1>8 DEF AnchorIInv, NoFalseAlarm, TruncationFound

\* A row deleted or edited behind the gateway's back.
LEMMA TamperStep == ASSUME AnchorIInv, NEW r \in log, Deleted(r) \/ Edited(r) PROVE AnchorIInv'
<1>0. AnchorTypeOK /\ RowsKnown /\ GapKnown /\ tampers \in Nat /\ r \in LogRow
  BY DEF AnchorIInv, AnchorTypeOK
<1>1. /\ tampers' = tampers + 1 /\ tampers' # 0 /\ tampers' > 0 /\ tampers' \in Nat
      /\ UNCHANGED <<seqHigh, anchors, signed, verify, reseal, reseals>>
  BY <1>0 DEF Deleted, Edited
<1> DEFINE e == [r EXCEPT !.ok = FALSE]
<1>2. /\ e \in LogRow /\ e.id = r.id /\ e.hash = r.hash
      /\ log' = log \ {r} \/ log' = (log \ {r}) \cup {e}
  BY <1>0 DEF Deleted, Edited, LogRow
<1> HIDE DEF e
<1>3. AnchorTypeOK'
  BY <1>0, <1>1, <1>2 DEF AnchorTypeOK, Deleted, Edited
<1>4. Untouched' /\ NoFalseAlarm'
  BY <1>1 DEF Untouched, NoFalseAlarm
<1>5. RowsKnown'
  BY <1>0, <1>1, <1>2 DEF RowsKnown
<1>6. Ids' \subseteq Ids
  BY <1>2 DEF Ids
<1>7. lost' => lost \/ ((\E a \in anchors : a.event = r.id) /\ r.id \notin Ids')
  <2>1. CASE Deleted(r)
    <3>1. \A q \in log' : q.id # r.id
      BY <1>0, <2>1 DEF Deleted, RowsKnown
    <3>2. r.id \notin Ids'
      BY <3>1 DEF Ids
    <3> QED BY <2>1, <3>2 DEF Deleted
  <2>2. CASE Edited(r)
    BY <2>2 DEF Edited
  <2> QED BY <2>1, <2>2
<1>8. lost => lost'
  BY DEF Deleted, Edited
<1>9. GapKnown'
  <2>1. lost' => \E a \in anchors' : a.event \notin Ids'
    BY <1>0, <1>1, <1>6, <1>7 DEF GapKnown
  <2> QED BY <1>0, <1>1, <1>6, <1>8, <2>1 DEF GapKnown
<1> QED BY <1>1, <1>3, <1>4, <1>5, <1>9 DEF AnchorIInv, TruncationFound

\* The head anchored by a gateway, a command or the reseal.
LEMMA AnchorStep ==
    ASSUME AnchorIInv, NEW key \in Keys, Anchored(key), reseal' \in {reseal, "idle"},
           UNCHANGED <<log, seqHigh, verify, reseals, tampers, lost>>
    PROVE  AnchorIInv'
<1> DEFINE new == [id |-> signed + 1, event |-> maxID, hash |-> head, key |-> key]
<1>0. AnchorTypeOK /\ RowsKnown /\ Untouched /\ GapKnown /\ seqHigh \in Nat /\ signed \in Nat
  BY DEF AnchorIInv, AnchorTypeOK
<1>1. anchors' = anchors \cup {new} /\ log # {} /\ signed' = signed + 1
  BY DEF Anchored
<1>2. new \in AnchorRow /\ new.event \in 1 .. seqHigh /\ new.hash[1] = new.event
  BY <1>0, <1>1, HeadKnown DEF AnchorRow
<1>3. tampers = 0 => new.hash = <<new.event, 0>>
  BY <1>0, WholeLog
<1> HIDE DEF new
<1>4. AnchorTypeOK'
  BY <1>0, <1>1, <1>2 DEF AnchorTypeOK
<1>5. Untouched'
  BY <1>0, <1>1, <1>2, <1>3 DEF Untouched
<1>6. RowsKnown'
  BY <1>0, <1>1, <1>2 DEF RowsKnown
<1>7. GapKnown'
  BY <1>0, <1>1 DEF GapKnown, Ids
<1> QED BY <1>4, <1>5, <1>6, <1>7 DEF AnchorIInv, NoFalseAlarm, TruncationFound

\* Anchors signed again under the new master key keep what they name.
LEMMA ResignStep ==
    ASSUME AnchorIInv, km.new \in Keys, AnchorsResigned
    PROVE  AnchorIInv'
<1>0. AnchorTypeOK /\ RowsKnown /\ Untouched /\ GapKnown
  BY DEF AnchorIInv
<1>1. UNCHANGED <<log, seqHigh, signed, verify, reseal, reseals, tampers, lost>>
  BY DEF AnchorsResigned
<1>2. /\ anchors' \in SUBSET AnchorRow
      /\ \A b \in anchors' : \E a \in anchors : b.event = a.event /\ b.hash = a.hash
      /\ \A a \in anchors : \E b \in anchors' : b.event = a.event /\ b.hash = a.hash
  <2>1. \A a \in anchors : /\ a \in AnchorRow /\ [a EXCEPT !.key = km.new] \in AnchorRow
                           /\ [a EXCEPT !.key = km.new].event = a.event
                           /\ [a EXCEPT !.key = km.new].hash = a.hash
    BY <1>0 DEF AnchorTypeOK, AnchorRow
  <2>2. CASE anchors' = anchors
    BY <2>1, <2>2
  <2>3. CASE anchors' = {IF a.key = km.old THEN [a EXCEPT !.key = km.new] ELSE a : a \in anchors}
    BY <2>1, <2>3
  <2> QED BY <2>2, <2>3 DEF AnchorsResigned, ResignAnchors
<1>3. AnchorTypeOK'
  BY <1>0, <1>1, <1>2 DEF AnchorTypeOK
<1>4. Untouched'
  BY <1>0, <1>1, <1>2 DEF Untouched
<1>5. RowsKnown'
  BY <1>0, <1>1, <1>2 DEF RowsKnown
<1>6. GapKnown'
  <2>1. Ids' = Ids
    BY <1>1 DEF Ids
  <2>2. lost' => \E a \in anchors' : a.event \notin Ids'
    BY <1>0, <1>1, <1>2, <2>1 DEF GapKnown
  <2> QED BY <1>0, <1>1, <2>1, <2>2 DEF GapKnown
<1> QED BY <1>1, <1>3, <1>4, <1>5, <1>6 DEF AnchorIInv, NoFalseAlarm, TruncationFound

\* The steps of a verification.
LEMMA VerifySteps ==
    ASSUME AnchorIInv, VerifyRead \/ VerifyReport \/ \E key \in Keys : VerifyWalk(key)
    PROVE  AnchorIInv'
<1> USE KeyAssumption
<1>0. /\ AnchorTypeOK /\ RowsKnown /\ Untouched /\ GapKnown /\ verify \in VerifyRec /\ tampers \in Nat
      /\ UNCHANGED <<log, seqHigh, anchors, signed, reseal, reseals, tampers, lost>>
  BY DEF AnchorIInv, AnchorTypeOK, VerifyRead, VerifyReport, VerifyWalk
<1>1. RowsKnown' /\ Ids' = Ids
  BY <1>0 DEF RowsKnown, Ids
<1>2. SUFFICES /\ verify' \in VerifyRec /\ NoFalseAlarm' /\ TruncationFound' /\ Untouched' /\ GapKnown'
  BY <1>0, <1>1 DEF AnchorIInv, AnchorTypeOK
<1>3. ASSUME NEW key \in Keys, VerifyWalk(key)
      PROVE  verify' \in VerifyRec /\ NoFalseAlarm' /\ TruncationFound' /\ Untouched' /\ GapKnown'
  <2> DEFINE f == IF walk THEN {} ELSE {"broken"}
  <2>1. verify' = [VerifyIdle EXCEPT !.pc = "walked", !.key = key, !.lost = lost, !.found = f]
    BY <1>3 DEF VerifyWalk
  <2>2. f \in SUBSET Problems /\ lost \in BOOLEAN
    BY <1>0 DEF Problems, AnchorTypeOK
  <2>3. tampers = 0 => f = {}
    BY <1>0, WholeLog
  <2> HIDE DEF f
  <2>4. verify'.pc = "walked" /\ verify'.lost = lost /\ verify'.found = f /\ verify' \in VerifyRec
    BY <2>1, <2>2 DEF VerifyIdle, VerifyRec
  <2>5. Untouched'
    BY <1>0, <2>3, <2>4 DEF Untouched
  <2>6. GapKnown'
    BY <1>0, <1>1, <2>4 DEF GapKnown
  <2> QED BY <2>4, <2>5, <2>6 DEF NoFalseAlarm, TruncationFound
<1>4. ASSUME verify.pc = "walked", verify' = [verify EXCEPT !.pc = "anchors", !.stored = anchors]
      PROVE  verify' \in VerifyRec /\ NoFalseAlarm' /\ TruncationFound' /\ Untouched' /\ GapKnown'
  <2>1. anchors \in SUBSET AnchorRow
    BY <1>0 DEF AnchorTypeOK
  <2>2. /\ verify' \in VerifyRec /\ verify'.pc = "anchors" /\ verify'.stored = anchors
        /\ verify'.lost = verify.lost /\ verify'.found = verify.found
    BY <1>0, <1>4, <2>1 DEF VerifyRec
  <2>3. Untouched'
    BY <1>0, <1>4, <2>2 DEF Untouched
  <2>4. GapKnown'
    BY <1>0, <1>1, <1>4, <2>2 DEF GapKnown, RowsKnown
  <2> QED BY <2>2, <2>3, <2>4 DEF NoFalseAlarm, TruncationFound
<1>5. ASSUME verify.pc = "anchors", verify' = [verify EXCEPT !.pc = "hashes", !.hashes = anchoredHashes]
      PROVE  verify' \in VerifyRec /\ NoFalseAlarm' /\ TruncationFound' /\ Untouched' /\ GapKnown'
  <2>1. /\ anchoredHashes \in SUBSET Hashes
        /\ \A h \in anchoredHashes : h[1] \in Ids
    BY <1>0 DEF anchoredHashes, AnchorTypeOK, RowsKnown, Ids, LogRow
  <2>2. /\ verify' \in VerifyRec /\ verify'.pc = "hashes" /\ verify'.stored = verify.stored
        /\ verify'.lost = verify.lost /\ verify'.found = verify.found /\ verify'.hashes = anchoredHashes
    BY <1>0, <1>5, <2>1 DEF VerifyRec
  <2>3. Untouched'
    <3> SUFFICES ASSUME tampers = 0, NEW a \in verify.stored PROVE a.hash \in anchoredHashes
      BY <1>0, <1>5, <2>2 DEF Untouched
    <3>1. a.event \in 1 .. seqHigh /\ a.hash = <<a.event, 0>> /\ \E b \in anchors : b.event = a.event
      BY <1>0, <1>5 DEF Untouched
    <3>2. PICK r \in log : r.id = a.event
      BY <1>0, <3>1, WholeLog DEF Ids
    <3>3. r.hash = <<r.id, 0>>
      <4>1. log = {[id |-> n, prev |-> <<n - 1, 0>>, hash |-> <<n, 0>>, ok |-> TRUE] : n \in 1 .. seqHigh}
        BY <1>0 DEF Untouched
      <4> QED BY <4>1
    <3> QED BY <3>1, <3>2, <3>3 DEF anchoredHashes
  <2>4. GapKnown'
    <3>1. verify.lost => \E a \in verify.stored :
             a.event \in 1 .. seqHigh /\ a.hash[1] = a.event /\ a.event \notin Ids
      BY <1>0, <1>5 DEF GapKnown
    <3> QED BY <1>0, <1>1, <2>1, <2>2, <3>1 DEF GapKnown
  <2> QED BY <2>2, <2>3, <2>4 DEF NoFalseAlarm, TruncationFound
<1>6. ASSUME VerifyReport
      PROVE  verify' \in VerifyRec /\ NoFalseAlarm' /\ TruncationFound' /\ Untouched' /\ GapKnown'
  <2> DEFINE f == verify.found \cup (UNION {Finding(a) : a \in verify.stored})
                     \cup (IF seqHigh > maxID THEN {"sequence"} ELSE {})
  <2>1. /\ verify' = [verify EXCEPT !.pc = "done", !.key = NoKey, !.stored = {}, !.hashes = {}, !.found = f]
        /\ verify.pc = "hashes"
    BY <1>0, <1>6 DEF VerifyReport, VerifyRec
  <2>2. f \in SUBSET Problems
    <3>1. \A a \in verify.stored : Finding(a) \in SUBSET Problems
      BY DEF Finding, Problems
    <3>2. verify.found \in SUBSET Problems /\ {"sequence"} \in SUBSET Problems
      BY <1>0 DEF VerifyRec, Problems
    <3>3. UNION {Finding(a) : a \in verify.stored} \in SUBSET Problems
      BY <3>1, Zenon
    <3>4. (IF seqHigh > maxID THEN {"sequence"} ELSE {}) \in SUBSET Problems
      BY <3>2, Zenon
    <3> QED BY <3>2, <3>3, <3>4, Zenon
  <2>3. tampers = 0 => f \subseteq {"foreign"}
    <3> SUFFICES ASSUME tampers = 0 PROVE f \subseteq {"foreign"}
      OBVIOUS
    <3>1. verify.found = {} /\ \A a \in verify.stored : a.hash \in verify.hashes
      BY <1>0, <2>1 DEF Untouched
    <3>2. \A a \in verify.stored : Finding(a) \subseteq {"foreign"}
      BY <3>1 DEF Finding
    <3>3. maxID = seqHigh /\ seqHigh \in Nat
      BY <1>0, WholeLog DEF AnchorTypeOK
    <3>4. ~(seqHigh > maxID)
      BY <3>3
    <3> QED BY <3>1, <3>2, <3>4
  <2>4. verify.lost => f # {}
    <3> SUFFICES ASSUME verify.lost PROVE f # {}
      OBVIOUS
    <3>1. PICK a \in verify.stored : a.hash[1] = a.event /\ \A h \in verify.hashes : h[1] # a.event
      BY <1>0, <2>1 DEF GapKnown
    <3>2. Finding(a) # {}
      BY <3>1 DEF Finding
    <3> QED BY <3>2
  <2> HIDE DEF f
  <2>5. verify' \in VerifyRec /\ verify'.pc = "done" /\ verify'.found = f /\ verify'.lost = verify.lost
    BY <1>0, <2>1, <2>2 DEF VerifyRec
  <2>6. NoFalseAlarm' /\ TruncationFound'
    BY <1>0, <2>3, <2>4, <2>5 DEF NoFalseAlarm, TruncationFound
  <2>7. Untouched'
    BY <1>0, <2>5 DEF Untouched
  <2>8. GapKnown'
    BY <1>0, <1>1, <2>5 DEF GapKnown
  <2> QED BY <2>5, <2>6, <2>7, <2>8
<1> QED BY <1>3, <1>4, <1>5, <1>6 DEF VerifyRead

\* The reseal's own steps: the chain rewritten, and the anchors of rewritten events removed.
LEMMA ResealSteps == ASSUME AnchorIInv, ResealStart \/ Reseal \/ ResealStop PROVE AnchorIInv'
<1>0. AnchorTypeOK /\ RowsKnown /\ Untouched /\ GapKnown /\ NoFalseAlarm /\ TruncationFound /\ tampers \in Nat
  BY DEF AnchorIInv, AnchorTypeOK
<1>1. CASE ResealStart
  <2>1. tampers # 0 /\ UNCHANGED <<log, seqHigh, anchors, signed, verify, reseals, tampers, lost>> /\ reseal' = "broken"
    BY <1>0, <1>1, WholeLog DEF ResealStart
  <2> QED BY <1>0, <2>1 DEF AnchorIInv, AnchorTypeOK, RowsKnown, Untouched, GapKnown, NoFalseAlarm, TruncationFound, Ids
<1>2. CASE ResealStop
  BY <1>0, <1>2 DEF ResealStop, AnchorIInv, AnchorTypeOK, RowsKnown, Untouched, GapKnown, NoFalseAlarm, TruncationFound, Ids
<1>3. CASE Reseal
  <2>1. /\ tampers # 0 /\ reseal' = "sealed" /\ reseals' = reseals + 1
        /\ UNCHANGED <<seqHigh, signed, verify, tampers, lost>>
    BY <1>0, <1>3 DEF Reseal, Untouched
  <2>2. /\ log' \in SUBSET LogRow
        /\ \A q \in log' : \E r \in log : q.id = r.id
        /\ \A r \in log : \E q \in log' : q.id = r.id
        /\ \A p, q \in log' : p.id = q.id => p = q
        /\ \A q \in log' : q.hash[1] = q.id
    <3>1. CASE log' = log
      BY <1>0, <3>1 DEF AnchorTypeOK, RowsKnown
    <3>2. CASE log' = Relinked(reseals + 1)
      <4> DEFINE gen == reseals + 1
                 S(r) == Resealed(r, gen)
                 P(r) == LET earlier == {q \in log : q.id < r.id}
                         IN  IF earlier = {} THEN Genesis
                             ELSE Resealed(CHOOSE q \in earlier : \A x \in earlier : x.id <= q.id, gen)
                 N(r) == [r EXCEPT !.ok = TRUE, !.hash = S(r), !.prev = P(r)]
      <4>0. gen \in Nat
        BY <1>0 DEF AnchorTypeOK
      <4>1. log' = {N(r) : r \in log} /\ gen \in Nat
        BY <3>2, <4>0, Zenon DEF Relinked
      <4>2. \A r \in log : S(r) \in Hashes /\ S(r)[1] = r.id /\ r \in LogRow
        BY <1>0, <4>1 DEF Resealed, AnchorTypeOK, RowsKnown, LogRow, Hashes
      <4>3. ASSUME NEW r \in log PROVE P(r) \in Hashes
        <5> DEFINE earlier == {q \in log : q.id < r.id}
        <5>1. CASE earlier = {}
          BY <5>1 DEF Genesis, Hashes
        <5>2. CASE earlier # {}
          <6> DEFINE E == {q.id : q \in earlier}
          <6>1. E \in SUBSET Nat /\ E # {} /\ r.id \in Nat /\ \A m \in E : m <= r.id
            BY <1>0, <5>2 DEF AnchorTypeOK, LogRow
          <6>2. PICK n \in E : \A m \in E : m <= n
            BY <6>1, Most
          <6>3. \E q \in earlier : \A x \in earlier : x.id <= q.id
            BY <6>2
          <6>4. (CHOOSE q \in earlier : \A x \in earlier : x.id <= q.id) \in log
            BY <6>3
          <6> QED BY <4>2, <5>2, <6>4
        <5> QED BY <5>1, <5>2
      <4> HIDE DEF S, P
      <4>4. \A r \in log : N(r) \in LogRow /\ N(r).id = r.id /\ N(r).hash = S(r)
        BY <4>2, <4>3 DEF LogRow
      <4> HIDE DEF N
      <4>5. \A q \in log' : \E r \in log : q = N(r)
        BY <4>1
      <4>6. \A p, q \in log' : p.id = q.id => p = q
        BY <1>0, <4>4, <4>5 DEF RowsKnown
      <4> QED BY <4>1, <4>2, <4>4, <4>5, <4>6
    <3> QED BY <1>3, <3>1, <3>2 DEF Reseal
  <2>3. anchors' \subseteq anchors /\ \A a \in anchors : a.event \notin Ids => a \in anchors'
    BY <1>3 DEF Reseal, ResealRemoved
  <2>4. Ids' = Ids
    BY <2>2 DEF Ids
  <2>5. AnchorTypeOK'
    BY <1>0, <2>1, <2>2, <2>3 DEF AnchorTypeOK
  <2>6. RowsKnown'
    BY <1>0, <2>1, <2>2, <2>3 DEF RowsKnown
  <2>7. GapKnown'
    <3>1. lost' => \E a \in anchors' : a.event \notin Ids'
      BY <1>0, <2>1, <2>3, <2>4 DEF GapKnown
    <3> QED BY <1>0, <2>1, <2>4, <3>1 DEF GapKnown
  <2> QED BY <1>0, <2>1, <2>5, <2>6, <2>7 DEF AnchorIInv, Untouched, NoFalseAlarm, TruncationFound
<1> QED BY <1>1, <1>2, <1>3

\* Every step of the log and its anchors keeps the invariant.
LEMMA AnchorNextIInv ==
    ASSUME AnchorIInv, keyFile \in Keys, km.pc = "rewrapped" => km.new \in Keys,
           [SigningNext]_signingVars
    PROVE  AnchorIInv'
<1>1. CASE UNCHANGED anchorVars
  BY <1>1 DEF anchorVars, AnchorIInv, AnchorTypeOK, RowsKnown, Untouched, GapKnown, NoFalseAlarm, TruncationFound, Ids
<1>2. CASE AnchorsResigned
  BY <1>2, ResignStep DEF AnchorsResigned, KmResign
<1>3. CASE AnchorNext
  <2>1. ASSUME NEW key \in Keys, AnchorHead(key) PROVE AnchorIInv'
    BY <2>1, AnchorStep DEF AnchorHead
  <2>2. CASE ResealAnchor
    <3>1. CASE UNCHANGED <<anchors, signed>>
      BY <2>2, <3>1 DEF ResealAnchor, AnchorIInv, AnchorTypeOK, RowsKnown, Untouched, GapKnown, NoFalseAlarm, TruncationFound, Ids
    <3>2. CASE Anchored(keyFile)
      BY <2>2, <3>2, AnchorStep DEF ResealAnchor
    <3> QED BY <2>2, <3>1, <3>2 DEF ResealAnchor
  <2> QED BY <1>3, <2>1, <2>2, AppendStep, TamperStep, VerifySteps, ResealSteps DEF AnchorNext
<1> QED BY <1>1, <1>2, <1>3 DEF SigningNext, signingVars

\* Every step of signing keeps its invariant.
LEMMA SigningNextIInv ==
    ASSUME ~Overlap, KeyIInv, AnchorIInv, [SigningNext]_signingVars
    PROVE  KeyIInv' /\ AnchorIInv'
<1>1. keyFile \in Keys /\ (km.pc = "rewrapped" => km.new \in Keys)
  BY DEF KeyIInv, KeysSound, KeyTypeOK, MasterAt
<1>2. [KeyNext]_keyVars
  BY DEF SigningNext, signingVars, AnchorsResigned, KeyNext
<1> QED BY <1>1, <1>2, KeyNextIInv, AnchorNextIInv

\* While one key command runs at a time (anchor.go, store.go Verify and Reseal): a
\* verification beside writers, anchorers, reseals and a change of the master key finds
\* nothing wrong with a log nobody touched, and never misses a deleted event that an
\* anchor names.
THEOREM AnchorsStaySound == ASSUME ~Overlap PROVE SigningSpec => []AnchorsSound
<1> DEFINE I == KeyIInv /\ AnchorIInv
<1>1. KeyInit /\ AnchorInit => I
  BY KeyInitIInv, AnchorInitIInv
<1>2. I /\ [SigningNext]_signingVars => I'
  BY SigningNextIInv
<1>3. I => AnchorsSound
  BY DEF AnchorIInv, AnchorsSound
<1> QED BY <1>1, <1>2, <1>3, PTL DEF SigningSpec

-----------------------------------------------------------------------------
(* Credentials, Targets and ScalingGroups.  What each keeps to itself.     *)

\* A request that has read a credential knows which.
CredsOK ==
    /\ CredTypeOK /\ BoundCredentialExists
    /\ \A a \in Admins : creq[a].pc # "idle" => creq[a].id \in Creds

\* A request that has read a target knows which; a probe that would leave a key
\* trusted found it so, and approved.
TargetsOK ==
    /\ TargetTypeOK /\ ApprovedTrustOnly
    /\ \A a \in Admins :
          LET q == treq[a] IN
          /\ q.pc # "idle" => q.id \in Targets
          /\ q.pc = "bind" => q.cred \in Creds
          /\ q.pc = "trust" => q.fp \in FPs
          /\ q.pc = "pin" => q.listener \in Listeners
          /\ q.pc = "probed" /\ q.row.hostKeyStatus = "trusted" => <<q.id, q.row.hostKey>> \in approved

\* One poll of a group at a time, so that what it read of an instance it has yet to
\* store is what is stored.
GroupsOK ==
    /\ GroupTypeOK /\ UnhealthyKeepsNone
    /\ \A p \in Pollers :
          /\ poll[p].pc # "idle" => poll[p].group \in Groups
          /\ poll[p].pc = "each" => /\ poll[p].todo \subseteq DOMAIN poll[p].snap
                                   /\ \A i \in poll[p].todo : poll[p].prev[i] = inst[poll[p].group][i]
    /\ \A p, q \in Pollers :
          p # q /\ poll[p].pc # "idle" /\ poll[q].pc # "idle" => poll[p].group # poll[q].group
    /\ areq.pc # "idle" => areq.group \in Groups
    /\ areq.pc = "bind" => areq.cred \in Creds

EstateIInv == CredsOK /\ TargetsOK /\ GroupsOK

\* The estate invariant holds before the first poll.
LEMMA EstateInitIInv == EstateInit => EstateIInv
<1> SUFFICES ASSUME EstateInit PROVE EstateIInv
  OBVIOUS
<1> USE CredAssumption, TargetAssumption, GroupAssumption DEF EstateInit
<1>1. CredsOK
  BY DEF CredInit, CredsOK, CredTypeOK, BoundCredentialExists, NoCred, CredRow, CredIdle, Types, Modes
<1>2. NoTarget \in TargetRow /\ NoTarget.hostKeyStatus = "unknown"
  BY DEF NoTarget, TargetRow, NoPins, FP
<1>3. TargetsOK
  BY <1>2 DEF TargetInit, TargetsOK, TargetTypeOK, ApprovedTrustOnly, TargetIdle, FP
<1>4. GroupsOK
  <2>1. NoInst \in InstRow
    BY DEF NoInst, InstRow, NoPins, FP
  <2>2. [i \in {} |-> FALSE] \in UNION {[ids -> BOOLEAN] : ids \in SUBSET Insts}
    <3>1. [i \in {} |-> FALSE] \in [{} -> BOOLEAN] /\ {} \in SUBSET Insts
      OBVIOUS
    <3> QED BY <3>1, Zenon
  <2>3. PollIdle \in [pc : {"idle", "started", "each"}, group : Groups \cup {None},
                      snap : UNION {[ids -> BOOLEAN] : ids \in SUBSET Insts},
                      todo : SUBSET Insts, prev : [Insts -> InstRow]]
    BY <2>1, <2>2 DEF PollIdle
  <2>4. Limit \in Nat /\ 0 \in 0 .. Limit
    BY DEF Limit
  <2>5. GroupTypeOK
    BY <2>1, <2>3, <2>4 DEF GroupInit, GroupTypeOK, AdminIdle
  <2> QED BY <2>5 DEF GroupInit, GroupsOK, UnhealthyKeepsNone, PollIdle, AdminIdle
<1> QED BY <1>1, <1>3, <1>4 DEF EstateIInv

\* A row that is written keeps every binding good, unless it frees an id in use.
LEMMA CredWritten ==
    ASSUME CredsOK, NEW c \in Creds, NEW r \in CredRow,
           cred' \in {cred, [cred EXCEPT ![c] = r]},
           r.type # "free" \/ ~InUseBy(c), bound' = bound
    PROVE  cred' \in [Creds -> CredRow] /\ BoundCredentialExists'
<1>1. cred \in [Creds -> CredRow] /\ bound \in SUBSET (Holders \X Creds)
  BY DEF CredsOK, CredTypeOK
<1>2. \A b \in bound : b[2] \in Creds /\ (b[2] = c => InUseBy(c))
  BY <1>1 DEF InUseBy
<1> QED BY <1>1, <1>2 DEF CredsOK, BoundCredentialExists, Stored

\* Filling or emptying a slot.
LEMMA SlotBound ==
    ASSUME CredsOK, NEW h \in Holders, NEW c \in Creds \cup {None}, BindSlot(h, c), cred' = cred
    PROVE  bound' \in SUBSET (Holders \X Creds) /\ BoundCredentialExists'
  BY DEF CredsOK, CredTypeOK, BoundCredentialExists, BindSlot, Stored

\* A new row.
LEMMA InsertedCred ==
    ASSUME CredsOK, NEW c \in Creds, NEW type \in Types, NEW mode \in Modes, NEW name \in CredNames,
           NEW key \in CKeys \cup {None}, InsertCred(c, type, mode, name, key), bound' = bound
    PROVE  cred' \in [Creds -> CredRow] /\ BoundCredentialExists'
<1> DEFINE r == [NoCred EXCEPT !.type = type, !.mode = mode, !.name = name,
                               !.secret = prepared(type, mode, key).secret,
                               !.public = prepared(type, mode, key).public]
<1>1. prepared(type, mode, key).secret \in CKeys \cup {None} /\ prepared(type, mode, key).public \in CKeys \cup {None}
  BY DEF prepared
<1>2. r \in CredRow /\ r.type = type
  BY <1>1 DEF NoCred, CredRow
<1>3. r.type # "free"
  BY <1>2 DEF Types
<1>4. cred' = [cred EXCEPT ![c] = r]
  BY DEF InsertCred
<1> HIDE DEF r
<1> QED BY <1>2, <1>3, <1>4, CredWritten

\* The requests of the credential handlers.
LEMMA CredStep == CredsOK /\ CredNext => CredsOK'
<1> SUFFICES ASSUME CredsOK, CredNext PROVE CredsOK'
  OBVIOUS
<1> USE CredAssumption
<1> DEFINE CRS == [pc : {"idle", "update", "rotate", "prepare", "cutover", "unsealed", "cancel",
                         "retire", "delete", "prompt"},
                   id : Creds \cup {None}, key : CKeys \cup {None}, name : CredNames \cup {None}]
<1>0. /\ cred \in [Creds -> CredRow] /\ bound \in SUBSET (Holders \X Creds) /\ creq \in [Admins -> CRS]
      /\ \A a \in Admins : creq[a].pc # "idle" => creq[a].id \in Creds
  BY DEF CredsOK, CredTypeOK
<1>1. CredIdle \in CRS /\ CredIdle.pc = "idle"
  BY DEF CredIdle
<1>2. SUFFICES /\ cred' \in [Creds -> CredRow] /\ BoundCredentialExists' /\ bound' = bound
               /\ creq' = creq \/ \E a \in Admins, q \in CRS : /\ creq' = [creq EXCEPT ![a] = q]
                                                               /\ q.pc # "idle" => q.id \in Creds
  BY <1>0 DEF CredsOK, CredTypeOK
<1>3. ASSUME NEW c \in Creds, NEW t \in Types, NEW m \in Modes, NEW n \in CredNames, NEW k \in CKeys,
             CredCreate(c, t, m, n, k)
      PROVE  cred' \in [Creds -> CredRow] /\ BoundCredentialExists' /\ bound' = bound /\ creq' = creq
  BY <1>3, InsertedCred DEF CredCreate
<1>4. ASSUME NEW a \in Admins, NEW c \in Creds, NEW k \in CKeys \cup {None}, NEW n \in CredNames \cup {None},
             NEW pc \in {"update", "rotate", "prepare", "cutover", "cancel", "retire", "delete"},
             Reads(a, pc, c, k, n)
      PROVE  /\ cred' \in [Creds -> CredRow] /\ BoundCredentialExists' /\ bound' = bound
             /\ \E q \in CRS : creq' = [creq EXCEPT ![a] = q] /\ (q.pc # "idle" => q.id \in Creds)
  <2>1. [pc |-> pc, id |-> c, key |-> k, name |-> n] \in CRS
    OBVIOUS
  <2>2. cred' = cred /\ bound' = bound /\ creq' = [creq EXCEPT ![a] = [pc |-> pc, id |-> c, key |-> k, name |-> n]]
    BY <1>4 DEF Reads
  <2> QED BY <1>0, <2>1, <2>2 DEF CredsOK, BoundCredentialExists, Stored
<1> DEFINE Over == /\ cred' \in [Creds -> CredRow] /\ BoundCredentialExists' /\ bound' = bound
                   /\ \E a \in Admins, q \in CRS : creq' = [creq EXCEPT ![a] = q] /\ (q.pc # "idle" => q.id \in Creds)
<1>5. ASSUME NEW a \in Admins, NEW c \in Creds,
             \/ \E n \in CredNames \cup {None}, k \in CKeys \cup {None} : CredUpdateRead(a, c, n, k)
             \/ \E k \in CKeys : CredRotateRead(a, c, k) \/ CredPrepareRead(a, c, k)
             \/ CredCutOverRead(a, c) \/ CredCancelRead(a, c) \/ CredRetireRead(a, c) \/ CredDeleteRead(a, c)
      PROVE  \E pc \in {"update", "rotate", "prepare", "cutover", "cancel", "retire", "delete"},
                k \in CKeys \cup {None}, n \in CredNames \cup {None} : Reads(a, pc, c, k, n)
  <2>1. cred[c].name \in CredNames \cup {None}
    BY <1>0 DEF CredRow
  <2> QED BY <1>5, <2>1 DEF CredUpdateRead, CredRotateRead, CredPrepareRead, CredCutOverRead, CredCancelRead,
             CredRetireRead, CredDeleteRead
<1>6. ASSUME NEW a \in Admins, creq[a].pc # "idle", NEW r \in CredRow,
             r.type # "free" \/ ~InUseBy(creq[a].id), Writes(creq[a].id, r) \/ cred' = cred, Done(a), bound' = bound
      PROVE  Over
  <2>1. creq[a].id \in Creds
    BY <1>0, <1>6
  <2>2. cred' \in {cred, [cred EXCEPT ![creq[a].id] = r]}
    BY <1>6 DEF Writes
  <2>3. cred' \in [Creds -> CredRow] /\ BoundCredentialExists'
    BY <2>1, <2>2, <1>6, CredWritten
  <2> QED BY <2>3, <1>1, <1>6 DEF Done
<1>7. ASSUME NEW a \in Admins, CredUpdate(a) \/ CredRotate(a) \/ CredPrepare(a) \/ unseal(a) \/ CutOver(a)
                               \/ CancelRotation(a) \/ Retire(a) \/ CredDelete(a)
      PROVE  Over
  <2> DEFINE q == creq[a]
             r == cred[q.id]
  <2>1. q \in CRS /\ q.pc # "idle" /\ q.id \in Creds /\ r \in CredRow
    BY <1>0, <1>7 DEF CredUpdate, CredRotate, CredPrepare, unseal, CutOver, CancelRotation, Retire, CredDelete
  <2>2. q.key \in CKeys \cup {None} /\ q.name \in CredNames \cup {None}
    BY <2>1
  <2>3. Stored(q.id) <=> r.type # "free"
    BY DEF Stored
  <2>4. ASSUME ~Stored(q.id), cred' = cred, Done(a), bound' = bound
        PROVE  Over
    BY <2>4, <1>0, <1>1 DEF Done, CredsOK, BoundCredentialExists, Stored
  <2>5. CASE CredUpdate(a)
    <3>1. CASE Stored(q.id) /\ ~NameTaken(q.name, q.id)
      <4> DEFINE w == [r EXCEPT !.name = q.name]
                 n == IF q.key = None THEN CredIdle ELSE [q EXCEPT !.pc = "rotate"]
      <4>1. w \in CredRow /\ w.type = r.type
        BY <2>1, <2>2 DEF CredRow
      <4>2. n \in CRS /\ (n.pc # "idle" => n.id \in Creds)
        BY <2>1, <1>1
      <4>3. cred' = [cred EXCEPT ![q.id] = w] /\ creq' = [creq EXCEPT ![a] = n] /\ bound' = bound
        BY <2>5, <3>1 DEF CredUpdate, Writes
      <4>4. cred' \in [Creds -> CredRow] /\ BoundCredentialExists'
        BY <4>1, <4>3, <3>1, <2>1, <2>3, CredWritten
      <4> QED BY <4>2, <4>3, <4>4
    <3>2. CASE ~(Stored(q.id) /\ ~NameTaken(q.name, q.id))
      <4>1. cred' = cred /\ Done(a) /\ bound' = bound
        BY <2>5, <3>2 DEF CredUpdate
      <4> QED BY <4>1, <1>0, <1>1 DEF Done, CredsOK, BoundCredentialExists, Stored
    <3> QED BY <3>1, <3>2
  <2>6. CASE CredRotate(a)
    <3> DEFINE p == prepared(r.type, "vaulted", q.key)
               w == [r EXCEPT !.secret = p.secret, !.public = p.public]
    <3>1. p.secret \in CKeys \cup {None} /\ p.public \in CKeys \cup {None}
      BY <2>2 DEF prepared
    <3>2. w \in CredRow /\ w.type = r.type
      BY <2>1, <3>1 DEF CredRow
    <3>3. Writes(q.id, w) /\ Done(a) /\ bound' = bound
      BY <2>6 DEF CredRotate
    <3> HIDE DEF w
    <3> QED BY <3>2, <3>3, <2>1, <2>3, <2>4, <1>6 DEF Writes
  <2>7. CASE CredPrepare(a)
    <3> DEFINE w == [r EXCEPT !.pending = q.key, !.pendingPub = q.key]
    <3>2. w \in CredRow /\ w.type = r.type
      BY <2>1, <2>2 DEF CredRow
    <3>3. Writes(q.id, w) /\ Done(a) /\ bound' = bound
      BY <2>7 DEF CredPrepare
    <3> HIDE DEF w
    <3> QED BY <3>2, <3>3, <2>1, <2>3, <2>4, <1>6 DEF Writes
  <2>8. CASE unseal(a)
    <3> DEFINE n == IF Stored(q.id) /\ r.pending # None
                    THEN [q EXCEPT !.pc = "unsealed", !.key = r.pending] ELSE CredIdle
    <3>1. r.pending \in CKeys \cup {None}
      BY <2>1 DEF CredRow
    <3>2. n \in CRS /\ (n.pc # "idle" => n.id \in Creds)
      BY <2>1, <3>1, <1>1
    <3>3. creq' = [creq EXCEPT ![a] = n] /\ cred' = cred /\ bound' = bound
      BY <2>8 DEF unseal
    <3> QED BY <3>2, <3>3, <1>0 DEF CredsOK, BoundCredentialExists, Stored
  <2>9. CASE CutOver(a)
    <3> DEFINE w == [r EXCEPT !.secret = q.key, !.public = r.pendingPub, !.retired = r.public,
                              !.pending = None, !.pendingPub = None]
    <3>1. r.pendingPub \in CKeys \cup {None} /\ r.public \in CKeys \cup {None}
      BY <2>1 DEF CredRow
    <3>2. w \in CredRow /\ w.type = r.type
      BY <2>1, <2>2, <3>1 DEF CredRow
    <3>3. Writes(q.id, w) /\ Done(a) /\ bound' = bound
      BY <2>9 DEF CutOver
    <3> HIDE DEF w
    <3> QED BY <3>2, <3>3, <2>1, <2>3, <2>4, <1>6 DEF Writes
  <2>10. CASE CancelRotation(a)
    <3> DEFINE w == [r EXCEPT !.pending = None, !.pendingPub = None]
    <3>2. w \in CredRow /\ w.type = r.type
      BY <2>1 DEF CredRow
    <3>3. Writes(q.id, w) /\ Done(a) /\ bound' = bound
      BY <2>10 DEF CancelRotation
    <3> HIDE DEF w
    <3> QED BY <3>2, <3>3, <2>1, <2>3, <2>4, <1>6 DEF Writes
  <2>11. CASE Retire(a)
    <3> DEFINE w == [r EXCEPT !.retired = None]
    <3>2. w \in CredRow /\ w.type = r.type
      BY <2>1 DEF CredRow
    <3>3. Writes(q.id, w) /\ Done(a) /\ bound' = bound
      BY <2>11 DEF Retire
    <3> HIDE DEF w
    <3> QED BY <3>2, <3>3, <2>1, <2>3, <2>4, <1>6 DEF Writes
  <2>12. CASE CredDelete(a)
    <3>1. NoCred \in CredRow
      BY DEF NoCred, CredRow, Types, Modes
    <3>2. CASE InUseBy(q.id)
      <4>1. cred' = cred /\ Done(a) /\ bound' = bound
        BY <2>12, <3>2 DEF CredDelete
      <4> QED BY <4>1, <1>0, <1>1 DEF Done, CredsOK, BoundCredentialExists, Stored
    <3>3. CASE ~InUseBy(q.id)
      <4>1. Writes(q.id, NoCred) /\ Done(a) /\ bound' = bound
        BY <2>12, <3>3 DEF CredDelete
      <4> QED BY <4>1, <3>1, <3>3, <2>1, <1>6
    <3> QED BY <3>2, <3>3
  <2> QED BY <1>7, <2>5, <2>6, <2>7, <2>8, <2>9, <2>10, <2>11, <2>12
<1> QED
  <2>1. CASE \E c \in Creds, t \in Types, m \in Modes, n \in CredNames, k \in CKeys : CredCreate(c, t, m, n, k)
    BY <2>1, <1>3
  <2>2. CASE \E a \in Admins, c \in Creds :
               \/ \E n \in CredNames \cup {None}, k \in CKeys \cup {None} : CredUpdateRead(a, c, n, k)
               \/ \E k \in CKeys : CredRotateRead(a, c, k) \/ CredPrepareRead(a, c, k)
               \/ CredCutOverRead(a, c) \/ CredCancelRead(a, c) \/ CredRetireRead(a, c) \/ CredDeleteRead(a, c)
    BY <2>2, <1>4, <1>5
  <2>3. CASE \E a \in Admins : CredUpdate(a) \/ CredRotate(a) \/ CredPrepare(a) \/ unseal(a) \/ CutOver(a)
                               \/ CancelRotation(a) \/ Retire(a) \/ CredDelete(a)
    BY <2>3, <1>7
  <2> QED BY <2>1, <2>2, <2>3 DEF CredNext

\* A slot is filled or emptied, or nothing is touched: the credentials stay good.
LEMMA SlotStep ==
    ASSUME CredsOK, NEW h \in Holders, NEW c \in Creds \cup {None}, BindSlot(h, c) \/ bound' = bound,
           cred' = cred, creq' = creq
    PROVE  CredsOK'
<1>1. bound' \in SUBSET (Holders \X Creds) /\ BoundCredentialExists'
  <2>1. CASE bound' = bound
    BY <2>1 DEF CredsOK, CredTypeOK, BoundCredentialExists, Stored
  <2> QED BY <2>1, SlotBound
<1> QED BY <1>1 DEF CredsOK, CredTypeOK

\* What a probe stores: a row, trusted only as the row it read was.
LEMMA ProbedRow ==
    ASSUME NEW r \in TargetRow, NEW res \in Probe
    PROVE  /\ Probed(r, res) \in TargetRow
           /\ Probed(r, res).hostKeyStatus = "trusted" =>
                 r.hostKeyStatus = "trusted" /\ Probed(r, res).hostKey = r.hostKey
<1> DEFINE k == IF res.hostKey = None THEN r
                ELSE [r EXCEPT !.hostKey = res.hostKey, !.hostKeyStatus = NextHostKeyStatus(r, res.hostKey)]
           pins == [l \in Listeners |-> pinCertificate(r, l, res.certs[l])]
           P == [l \in Listeners |-> pins[l].pin[l]]
           Q == [l \in Listeners |-> pins[l].pending[l]]
<1>1. res.hostKey \in FP /\ \A l \in Listeners : res.certs[l] \in FP
  BY DEF Probe, probeOne
<1>2. NextHostKeyStatus(r, res.hostKey) \in {"pending", "trusted", "changed"}
      /\ (NextHostKeyStatus(r, res.hostKey) = "trusted" => r.hostKeyStatus = "trusted" /\ r.hostKey = res.hostKey)
  BY DEF NextHostKeyStatus
<1>3. k \in TargetRow /\ (k.hostKeyStatus = "trusted" => r.hostKeyStatus = "trusted" /\ k.hostKey = r.hostKey)
  BY <1>1, <1>2 DEF TargetRow
<1>4. ASSUME NEW l \in Listeners
      PROVE  pins[l].pin[l] \in FP /\ pins[l].pending[l] \in FP
  <2>1. res.certs[l] \in FP /\ None \in FP /\ r.pin[l] \in FP /\ r.pending[l] \in FP
    BY <1>1 DEF TargetRow, FP
  <2>2. r.pin \in [Listeners -> FP] /\ r.pending \in [Listeners -> FP]
    BY DEF TargetRow
  <2>3. pins[l] = pinCertificate(r, l, res.certs[l])
    OBVIOUS
  <2>4. r = [status |-> r.status, address |-> r.address, hostKey |-> r.hostKey,
             hostKeyStatus |-> r.hostKeyStatus, pin |-> r.pin, pending |-> r.pending]
    BY DEF TargetRow
  <2> QED BY <2>1, <2>2, <2>3, <2>4 DEF pinCertificate
<1>5. P \in [Listeners -> FP] /\ Q \in [Listeners -> FP]
  BY <1>4
<1>6. Probed(r, res) = [k EXCEPT !.pin = P, !.pending = Q]
  BY DEF Probed
<1> HIDE DEF k, P, Q
<1>7. [k EXCEPT !.pin = P, !.pending = Q] \in TargetRow
  BY <1>3, <1>5 DEF TargetRow
<1>8. [k EXCEPT !.pin = P, !.pending = Q].hostKeyStatus = k.hostKeyStatus
      /\ [k EXCEPT !.pin = P, !.pending = Q].hostKey = k.hostKey
  BY <1>3 DEF TargetRow
<1> QED BY <1>3, <1>6, <1>7, <1>8

TargetReq == [pc : {"idle", "update", "bind", "probe", "probed", "trust", "pin"},
              id : Targets \cup {None}, row : TargetRow, lost : BOOLEAN, cred : Creds \cup {None},
              fp : FP, listener : Listeners \cup {None}]

\* What the request q of an administrator knows; some is what has been approved.
KnowsTarget(q, some) ==
    /\ q.pc # "idle" => q.id \in Targets
    /\ q.pc = "bind" => q.cred \in Creds
    /\ q.pc = "trust" => q.fp \in FPs
    /\ q.pc = "pin" => q.listener \in Listeners
    /\ q.pc = "probed" /\ q.row.hostKeyStatus = "trusted" => <<q.id, q.row.hostKey>> \in some

\* A step that writes one row and one request.
LEMMA TargetWritten ==
    ASSUME TargetsOK, NEW t \in Targets, NEW r \in TargetRow, target' \in {target, [target EXCEPT ![t] = r]},
           r.hostKeyStatus = "trusted" => <<t, r.hostKey>> \in approved',
           approved' \in SUBSET (Targets \X FPs), approved \subseteq approved', live' \in SUBSET Targets,
           treq' = treq \/ \E a \in Admins, q \in TargetReq :
                              treq' = [treq EXCEPT ![a] = q] /\ KnowsTarget(q, approved')
    PROVE  TargetsOK'
<1>1. target \in [Targets -> TargetRow] /\ treq \in [Admins -> TargetReq]
  BY DEF TargetsOK, TargetTypeOK, TargetReq
<1>2. \A a \in Admins : KnowsTarget(treq[a], approved')
  BY DEF TargetsOK, KnowsTarget
<1>3. target' \in [Targets -> TargetRow]
  BY <1>1
<1>4. treq' \in [Admins -> TargetReq] /\ \A a \in Admins : KnowsTarget(treq'[a], approved')
  BY <1>1, <1>2
<1>5. ApprovedTrustOnly'
  BY <1>1 DEF TargetsOK, ApprovedTrustOnly
<1> QED BY <1>3, <1>4, <1>5 DEF TargetsOK, TargetTypeOK, TargetReq, KnowsTarget

\* The requests of the target handlers.
LEMMA TargetStep == CredsOK /\ TargetsOK /\ TargetNext => CredsOK' /\ TargetsOK'
<1> SUFFICES ASSUME CredsOK, TargetsOK, TargetNext PROVE CredsOK' /\ TargetsOK'
  OBVIOUS
<1> USE CredAssumption, TargetAssumption
<1>0. /\ target \in [Targets -> TargetRow] /\ treq \in [Admins -> TargetReq]
      /\ live \in SUBSET Targets /\ approved \in SUBSET (Targets \X FPs)
      /\ \A a \in Admins : KnowsTarget(treq[a], approved)
      /\ \A t \in Targets : target[t].hostKeyStatus = "trusted" => <<t, target[t].hostKey>> \in approved
  BY DEF TargetsOK, TargetTypeOK, TargetReq, KnowsTarget, ApprovedTrustOnly
<1>1. NoTarget \in TargetRow /\ NoTarget.hostKeyStatus = "unknown"
  BY DEF NoTarget, TargetRow, NoPins, FP
<1>2. TargetIdle \in TargetReq /\ TargetIdle.pc = "idle" /\ None \in FP
  BY <1>1 DEF TargetIdle, TargetReq, FP
<1>3. KnowsTarget(TargetIdle, approved')
  BY <1>2 DEF KnowsTarget
<1>4. ASSUME credVars' = credVars PROVE CredsOK'
  BY <1>4 DEF credVars, CredsOK, CredTypeOK, BoundCredentialExists, Stored
<1>5. ASSUME NEW a \in Admins, NEW t \in Targets, NEW q \in TargetReq, TargetReads(a, t, q),
             KnowsTarget([q EXCEPT !.id = t], approved)
      PROVE  CredsOK' /\ TargetsOK'
  <2> DEFINE n == [q EXCEPT !.id = t]
  <2>1. n \in TargetReq
    BY DEF TargetReq
  <2>2. treq' = [treq EXCEPT ![a] = n] /\ target' = target /\ live' = live /\ approved' = approved
        /\ credVars' = credVars
    BY <1>5 DEF TargetReads
  <2> HIDE DEF n
  <2>3. target[t] \in TargetRow
    BY <1>0
  <2>4. TargetsOK'
    BY <2>1, <2>2, <2>3, <1>5, <1>0, TargetWritten DEF n
  <2> QED BY <2>2, <2>4, <1>4
<1>6. ASSUME NEW t \in Targets, TargetDelete(t) \/ UnsetCredential(t) \/ TargetConnect(t)
      PROVE  CredsOK' /\ TargetsOK'
  <2> DEFINE r == [target[t] EXCEPT !.status = "deleted"]
  <2>1. target[t] \in TargetRow
    BY <1>0
  <2>2. r \in TargetRow /\ r.hostKeyStatus = target[t].hostKeyStatus /\ r.hostKey = target[t].hostKey
    BY <2>1 DEF TargetRow
  <2>3. target' \in {target, [target EXCEPT ![t] = r]} /\ approved' = approved /\ treq' = treq
        /\ live' \in SUBSET Targets
    BY <1>6, <1>0 DEF TargetDelete, UnsetCredential, TargetConnect, EndSessions
  <2>4. TargetsOK'
    <3> HIDE DEF r
    <3> QED BY <2>1, <2>2, <2>3, <1>0, TargetWritten
  <2>5. CredsOK'
    <3>1. CASE TargetConnect(t)
      BY <3>1, <1>4 DEF TargetConnect
    <3>2. CASE TargetDelete(t) \/ UnsetCredential(t)
      BY <3>2, SlotStep DEF TargetDelete, UnsetCredential
    <3> QED BY <1>6, <3>1, <3>2
  <2> QED BY <2>4, <2>5
<1>7. ASSUME NEW t \in Targets, NEW addr \in Addresses, NEW st \in {"active", "disabled"}, NEW c \in Creds \cup {None},
             TargetCreate(t, addr, st, c)
      PROVE  CredsOK' /\ TargetsOK'
  <2> DEFINE r == [NoTarget EXCEPT !.status = st, !.address = addr]
  <2>1. r \in TargetRow /\ r.hostKeyStatus = "unknown"
    BY <1>1 DEF TargetRow
  <2>2. target' = [target EXCEPT ![t] = r] /\ treq' = treq /\ live' = live /\ approved' = approved
        /\ cred' = cred /\ creq' = creq /\ BindSlot(t, c)
    BY <1>7 DEF TargetCreate
  <2> HIDE DEF r
  <2>3. TargetsOK'
    BY <2>1, <2>2, <1>0, TargetWritten
  <2>4. CredsOK'
    BY <2>2, SlotStep
  <2> QED BY <2>3, <2>4
<1>8. ASSUME NEW a \in Admins, NEW t \in Targets, NEW addr \in Addresses, NEW st \in {"active", "disabled"},
             NEW c \in Creds \cup {None}, TargetUpdateRead(a, t, addr, st, c)
      PROVE  CredsOK' /\ TargetsOK'
  <2> DEFINE w == [target[t] EXCEPT !.address = addr, !.status = st]
             b == target[t].address # addr \/ (target[t].status = "active" /\ st = "disabled")
             q == [TargetIdle EXCEPT !.pc = "update", !.cred = c, !.row = w, !.lost = b]
  <2>1. w \in TargetRow /\ b \in BOOLEAN
    BY <1>0 DEF TargetRow
  <2>2. TargetReads(a, t, q)
    BY <1>8 DEF TargetUpdateRead
  <2> HIDE DEF w, b
  <2>3. q \in TargetReq /\ [q EXCEPT !.id = t].pc = "update" /\ [q EXCEPT !.id = t].id = t
    BY <1>2, <2>1 DEF TargetReq
  <2>4. KnowsTarget([q EXCEPT !.id = t], approved)
    BY <2>3 DEF KnowsTarget
  <2> QED BY <2>2, <2>3, <2>4, <1>5
<1>9. ASSUME NEW a \in Admins, NEW t \in Targets, NEW c \in Creds, TargetBindRead(a, t, c) \/ TargetPrompt(a, t, c)
      PROVE  CredsOK' /\ TargetsOK'
  <2> DEFINE q == [TargetIdle EXCEPT !.pc = "bind", !.cred = c]
             n == [TargetIdle EXCEPT !.pc = "bind", !.id = t, !.cred = c]
  <2>1. q \in TargetReq /\ [q EXCEPT !.id = t].pc = "bind" /\ [q EXCEPT !.id = t].id = t /\ [q EXCEPT !.id = t].cred = c
    BY <1>2 DEF TargetReq
  <2>2. n \in TargetReq /\ n.pc = "bind" /\ n.id = t /\ n.cred = c
    BY <1>2 DEF TargetReq
  <2>3. KnowsTarget([q EXCEPT !.id = t], approved) /\ KnowsTarget(n, approved)
    BY <2>1, <2>2 DEF KnowsTarget
  <2>4. CASE TargetBindRead(a, t, c)
    BY <2>4, <2>1, <2>3, <1>5 DEF TargetBindRead
  <2>5. CASE TargetPrompt(a, t, c)
    <3>1. treq' = [treq EXCEPT ![a] = n] /\ target' = target /\ live' = live /\ approved' = approved
          /\ bound' = bound /\ creq' = creq /\ EnsureUserSupplied(c)
      BY <2>5 DEF TargetPrompt
    <3>2. target[t] \in TargetRow
      BY <1>0
    <3> HIDE DEF n
    <3>3. TargetsOK'
      BY <3>1, <3>2, <2>2, <2>3, <1>0, TargetWritten
    <3>4. CredsOK'
      <4>1. CASE cred' = cred
        BY <4>1, <3>1, <1>4 DEF credVars
      <4>2. CASE InsertCred(c, "password", "user_supplied", PromptName, None)
        <5>1. cred' \in [Creds -> CredRow] /\ BoundCredentialExists'
          BY <4>2, <3>1, InsertedCred DEF Types, Modes
        <5> QED BY <5>1, <3>1 DEF CredsOK, CredTypeOK
      <4> QED BY <4>1, <4>2, <3>1 DEF EnsureUserSupplied
    <3> QED BY <3>3, <3>4
  <2> QED BY <1>9, <2>4, <2>5
<1>10. ASSUME NEW a \in Admins, NEW t \in Targets, NEW res \in Probe, ProbeRead(a, t, res)
       PROVE  CredsOK' /\ TargetsOK'
  <2> DEFINE w == Probed(target[t], res)
             b == TrustMoved(target[t], res)
             q == [TargetIdle EXCEPT !.pc = "probed", !.row = w, !.lost = b]
  <2>1. w \in TargetRow /\ (w.hostKeyStatus = "trusted" => target[t].hostKeyStatus = "trusted" /\ w.hostKey = target[t].hostKey)
    BY <1>0, ProbedRow
  <2>2. b \in BOOLEAN
    BY DEF TrustMoved
  <2>3. TargetReads(a, t, q)
    BY <1>10 DEF ProbeRead
  <2> HIDE DEF w, b
  <2>4. q \in TargetReq /\ [q EXCEPT !.id = t].pc = "probed" /\ [q EXCEPT !.id = t].id = t /\ [q EXCEPT !.id = t].row = w
    BY <1>2, <2>1, <2>2 DEF TargetReq
  <2>5. KnowsTarget([q EXCEPT !.id = t], approved)
    BY <2>1, <2>4, <1>0 DEF KnowsTarget
  <2> QED BY <2>3, <2>4, <2>5, <1>5
<1>11. ASSUME NEW a \in Admins, NEW t \in Targets, NEW fp \in FPs, TrustRead(a, t, fp)
       PROVE  CredsOK' /\ TargetsOK'
  <2> DEFINE q == [TargetIdle EXCEPT !.pc = "trust", !.fp = fp]
  <2>1. q \in TargetReq /\ [q EXCEPT !.id = t].pc = "trust" /\ [q EXCEPT !.id = t].id = t /\ [q EXCEPT !.id = t].fp = fp
    BY <1>2 DEF TargetReq, FP
  <2>2. KnowsTarget([q EXCEPT !.id = t], approved)
    BY <2>1 DEF KnowsTarget
  <2> QED BY <1>11, <2>1, <2>2, <1>5 DEF TrustRead
<1>12. ASSUME NEW a \in Admins, NEW t \in Targets, NEW l \in Listeners, PinRead(a, t, l)
       PROVE  CredsOK' /\ TargetsOK'
  <2> DEFINE f == target[t].pending[l]
             q == [TargetIdle EXCEPT !.pc = "pin", !.fp = f, !.listener = l]
  <2>1. f \in FP
    BY <1>0 DEF TargetRow
  <2>2. TargetReads(a, t, q)
    BY <1>12 DEF PinRead
  <2> HIDE DEF f
  <2>3. q \in TargetReq /\ [q EXCEPT !.id = t].pc = "pin" /\ [q EXCEPT !.id = t].id = t
        /\ [q EXCEPT !.id = t].listener = l
    BY <1>2, <2>1 DEF TargetReq
  <2>4. KnowsTarget([q EXCEPT !.id = t], approved)
    BY <2>3 DEF KnowsTarget
  <2> QED BY <2>2, <2>3, <2>4, <1>5
<1>13. ASSUME NEW a \in Admins, TargetUpdate(a) \/ SetCredential(a) \/ RecordProbe(a) \/ TrustHostKey(a) \/ TrustCertificate(a)
       PROVE  CredsOK' /\ TargetsOK'
  <2> DEFINE q == treq[a]
             r == target[q.id]
  <2>1. q \in TargetReq /\ q.pc # "idle" /\ KnowsTarget(q, approved)
    BY <1>0, <1>13 DEF TargetUpdate, SetCredential, RecordProbe, TrustHostKey, TrustCertificate
  <2>2. q.id \in Targets /\ q.id \in Holders
    BY <2>1 DEF KnowsTarget
  <2>3. r \in TargetRow /\ q.row \in TargetRow /\ q.cred \in Creds \cup {None} /\ q.fp \in FP
    BY <2>1, <2>2, <1>0 DEF TargetReq
  <2>4. treq' = [treq EXCEPT ![a] = TargetIdle]
    BY <1>13 DEF TargetUpdate, SetCredential, RecordProbe, TrustHostKey, TrustCertificate, TargetDone
  <2>5. CASE TargetUpdate(a)
    <3> DEFINE kept == [r EXCEPT !.status = q.row.status]
               moved == [NoTarget EXCEPT !.status = q.row.status, !.address = q.row.address]
               w == IF q.row.address = kept.address THEN kept ELSE moved
    <3>1. kept \in TargetRow /\ kept.hostKeyStatus = r.hostKeyStatus /\ kept.hostKey = r.hostKey
      BY <2>3 DEF TargetRow
    <3>2. moved \in TargetRow /\ moved.hostKeyStatus = "unknown"
      BY <2>3, <1>1 DEF TargetRow
    <3>3. target' \in {target, [target EXCEPT ![q.id] = w]} /\ live' \in SUBSET Targets /\ approved' = approved
          /\ cred' = cred /\ creq' = creq /\ (BindSlot(q.id, q.cred) \/ bound' = bound)
      BY <2>5, <1>0 DEF TargetUpdate, RevokeIf, EndSessions
    <3>4. w \in TargetRow /\ (w.hostKeyStatus = "trusted" => <<q.id, w.hostKey>> \in approved)
      <4> HIDE DEF kept, moved
      <4> QED BY <3>1, <3>2, <2>2, <1>0
    <3> HIDE DEF w
    <3>5. TargetsOK'
      BY <3>3, <3>4, <2>2, <2>4, <1>0, <1>2, <1>3, TargetWritten
    <3>6. CredsOK'
      BY <3>3, <2>2, <2>3, SlotStep
    <3> QED BY <3>5, <3>6
  <2>6. CASE SetCredential(a)
    <3>1. target' = target /\ live' = live /\ approved' = approved /\ cred' = cred /\ creq' = creq
          /\ (BindSlot(q.id, q.cred) \/ bound' = bound)
      BY <2>6 DEF SetCredential
    <3>2. TargetsOK'
      BY <3>1, <2>2, <2>3, <2>4, <1>0, <1>2, <1>3, TargetWritten
    <3>3. CredsOK'
      BY <3>1, <2>2, <2>3, SlotStep
    <3> QED BY <3>2, <3>3
  <2>7. CASE RecordProbe(a)
    <3> DEFINE w == [q.row EXCEPT !.status = r.status, !.address = r.address]
    <3>1. w \in TargetRow /\ w.hostKeyStatus = q.row.hostKeyStatus /\ w.hostKey = q.row.hostKey
      BY <2>3 DEF TargetRow
    <3>2. target' = [target EXCEPT ![q.id] = w] /\ live' \in SUBSET Targets /\ approved' = approved /\ credVars' = credVars
      BY <2>7, <1>0 DEF RecordProbe, RevokeIf, EndSessions
    <3>3. w.hostKeyStatus = "trusted" => <<q.id, w.hostKey>> \in approved
      BY <3>1, <2>1, <2>7 DEF KnowsTarget, RecordProbe
    <3> HIDE DEF w
    <3>4. TargetsOK'
      BY <3>1, <3>2, <3>3, <2>2, <2>4, <1>0, <1>2, <1>3, TargetWritten
    <3> QED BY <3>2, <3>4, <1>4
  <2>8. CASE TrustHostKey(a)
    <3> DEFINE w == IF r.hostKey = q.fp THEN [r EXCEPT !.hostKeyStatus = "trusted"] ELSE r
    <3>1. q.fp \in FPs
      BY <2>1, <2>8 DEF KnowsTarget, TrustHostKey
    <3>2. approved' = approved \cup {<<q.id, q.fp>>} /\ live' = live /\ credVars' = credVars
          /\ target' \in {target, [target EXCEPT ![q.id] = w]}
      BY <2>8 DEF TrustHostKey
    <3>3. w \in TargetRow /\ (w.hostKeyStatus = "trusted" => <<q.id, w.hostKey>> \in approved')
      BY <2>3, <3>2, <2>2, <1>0 DEF TargetRow
    <3>4. approved' \in SUBSET (Targets \X FPs) /\ approved \subseteq approved'
      BY <3>1, <3>2, <2>2, <1>0
    <3> HIDE DEF w
    <3>5. TargetsOK'
      BY <3>2, <3>3, <3>4, <2>2, <2>4, <1>0, <1>2, <1>3, TargetWritten
    <3> QED BY <3>2, <3>5, <1>4
  <2>9. CASE TrustCertificate(a)
    <3>1. q.listener \in Listeners
      BY <2>1, <2>9 DEF KnowsTarget, TrustCertificate
    <3> DEFINE P == [r.pin EXCEPT ![q.listener] = q.fp]
               Q == [r.pending EXCEPT ![q.listener] = None]
               w == [r EXCEPT !.pin = P, !.pending = Q]
    <3>2. P \in [Listeners -> FP] /\ Q \in [Listeners -> FP]
      BY <2>3, <1>2 DEF TargetRow
    <3>3. target' \in {target, [target EXCEPT ![q.id] = w]} /\ approved' = approved /\ live' = live /\ credVars' = credVars
      BY <2>9, <2>2, <2>3, <1>0 DEF TrustCertificate, TargetRow
    <3> HIDE DEF P, Q
    <3>4. w \in TargetRow /\ w.hostKeyStatus = r.hostKeyStatus /\ w.hostKey = r.hostKey
      BY <3>2, <2>3 DEF TargetRow
    <3> HIDE DEF w
    <3>5. TargetsOK'
      BY <3>3, <3>4, <2>2, <2>4, <1>0, <1>2, <1>3, TargetWritten
    <3> QED BY <3>3, <3>5, <1>4
  <2> QED BY <1>13, <2>5, <2>6, <2>7, <2>8, <2>9
<1> QED BY <1>6, <1>7, <1>8, <1>9, <1>10, <1>11, <1>12, <1>13 DEF TargetNext

Snaps == UNION {[ids -> BOOLEAN] : ids \in SUBSET Insts}
PollRec == [pc : {"idle", "started", "each"}, group : Groups \cup {None}, snap : Snaps,
            todo : SUBSET Insts, prev : [Insts -> InstRow]]
SchedRec == [running : BOOLEAN, doubled : Nat, wait : 0 .. Limit]

\* What a poll under way knows of the rows.
KnowsGroup(q, marked) ==
    /\ q.pc # "idle" => q.group \in Groups
    /\ q.pc = "each" => q.todo \subseteq DOMAIN q.snap /\ \A i \in q.todo : q.prev[i] = marked[q.group][i]
OnePoll(ps) == \A p, q \in Pollers : p # q /\ ps[p].pc # "idle" /\ ps[q].pc # "idle" => ps[p].group # ps[q].group

\* What a step may do to the pins of the instances.
PinStep ==
    \A g \in Groups, i \in Insts :
       /\ inst[g][i].hostKey # None => inst'[g][i].hostKey = inst[g][i].hostKey
       /\ \A l \in Listeners : inst[g][i].pin[l] # None => inst'[g][i].pin[l] = inst[g][i].pin[l]

\* What a probe stores, and that it keeps what was pinned.
LEMMA ProbedInst ==
    ASSUME NEW r \in InstRow, NEW res \in Probe, NEW ok \in BOOLEAN, NEW console
    PROVE  LET n == probed(r, res, ok, console) IN
           /\ n \in InstRow
           /\ r.hostKey # None => n.hostKey = r.hostKey
           /\ \A l \in Listeners : r.pin[l] # None => n.pin[l] = r.pin[l]
<1> USE TargetAssumption
<1> DEFINE certBad == \E l \in Listeners : Mismatch(r.pin[l], res.certs[l])
           keyBad == Mismatch(r.hostKey, res.hostKey)
           denied == r.hostKey = None /\ res.hostKey # None /\ console = "another"
           b == IF ok /\ ~certBad /\ ~keyBad /\ ~denied THEN "healthy" ELSE "unhealthy"
           P == [l \in Listeners |-> KeptPin(r.pin[l], res.certs[l])]
           h == IF denied THEN None ELSE KeptPin(r.hostKey, res.hostKey)
           s == IF r.hostKey # None THEN r.source
                ELSE IF denied \/ res.hostKey = None THEN "none"
                ELSE IF console = "match" THEN "console" ELSE "tofu"
<1>1. res.hostKey \in FP /\ (\A l \in Listeners : res.certs[l] \in FP) /\ None \in FP
  BY DEF Probe, probeOne, FP
<1>2. r.hostKey \in FP /\ r.pin \in [Listeners -> FP] /\ r.source \in {"none", "console", "tofu"}
  BY DEF InstRow
<1>3. P \in [Listeners -> FP] /\ \A l \in Listeners : r.pin[l] # None => P[l] = r.pin[l]
  BY <1>1, <1>2 DEF KeptPin
<1>4. h \in FP /\ (r.hostKey # None => h = r.hostKey)
  BY <1>1, <1>2 DEF KeptPin
<1>5. s \in {"none", "console", "tofu"} /\ b \in {"unknown", "healthy", "unhealthy"}
  BY <1>2
<1>6. probed(r, res, ok, console) = [NoInst EXCEPT !.state = "present", !.cloud = TRUE, !.probe = b, !.pin = P,
                                                   !.hostKey = h, !.source = s]
  BY DEF probed
<1> HIDE DEF b, P, h, s
<1>7. NoInst \in InstRow
  BY <1>1 DEF NoInst, InstRow, NoPins
<1>8. /\ [NoInst EXCEPT !.state = "present", !.cloud = TRUE, !.probe = b, !.pin = P, !.hostKey = h, !.source = s] \in InstRow
      /\ [NoInst EXCEPT !.state = "present", !.cloud = TRUE, !.probe = b, !.pin = P, !.hostKey = h, !.source = s].hostKey = h
      /\ [NoInst EXCEPT !.state = "present", !.cloud = TRUE, !.probe = b, !.pin = P, !.hostKey = h, !.source = s].pin = P
  BY <1>3, <1>4, <1>5, <1>7 DEF InstRow
<1> QED BY <1>3, <1>4, <1>6, <1>8

\* UpsertInstance keeps a pin of the row that the poll has none of.
LEMMA UpsertedRow ==
    ASSUME NEW r \in InstRow, NEW n \in InstRow
    PROVE  /\ Upserted(r, n) \in InstRow
           /\ n.hostKey \in {None, r.hostKey} => Upserted(r, n).hostKey = r.hostKey
           /\ \A l \in Listeners : n.pin[l] \in {None, r.pin[l]} => Upserted(r, n).pin[l] = r.pin[l]
           /\ Healthy(Upserted(r, n)) <=> Healthy(n)
<1> DEFINE h == IF n.hostKey = None THEN r.hostKey ELSE n.hostKey
           s == IF n.hostKey = None THEN r.source ELSE n.source
           P == [l \in Listeners |-> IF n.pin[l] = None THEN r.pin[l] ELSE n.pin[l]]
<1>1. h \in FP /\ (n.hostKey \in {None, r.hostKey} => h = r.hostKey)
      /\ s \in {"none", "console", "tofu"} /\ P \in [Listeners -> FP]
      /\ \A l \in Listeners : n.pin[l] \in {None, r.pin[l]} => P[l] = r.pin[l]
  BY DEF InstRow
<1>2. Upserted(r, n) = [n EXCEPT !.hostKey = h, !.source = s, !.pin = P]
  BY DEF Upserted
<1> HIDE DEF h, s, P
<1>3. /\ [n EXCEPT !.hostKey = h, !.source = s, !.pin = P] \in InstRow
      /\ [n EXCEPT !.hostKey = h, !.source = s, !.pin = P].hostKey = h
      /\ [n EXCEPT !.hostKey = h, !.source = s, !.pin = P].pin = P
      /\ [n EXCEPT !.hostKey = h, !.source = s, !.pin = P].state = n.state
      /\ [n EXCEPT !.hostKey = h, !.source = s, !.pin = P].probe = n.probe
      /\ [n EXCEPT !.hostKey = h, !.source = s, !.pin = P].cloud = n.cloud
  BY <1>1 DEF InstRow
<1> QED BY <1>1, <1>2, <1>3 DEF Healthy

\* The end of a poll.
LEMMA PollEnded ==
    ASSUME GroupsOK, NEW p \in Pollers, NEW g \in Groups, NEW f \in BOOLEAN, PollEnds(p, g, f)
    PROVE  /\ sched' \in [Groups -> SchedRec] /\ poll' \in [Pollers -> PollRec]
           /\ OnePoll(poll') /\ poll'[p].pc = "idle"
           /\ \A q \in Pollers \ {p} : poll'[q] = poll[q]
<1> USE GroupAssumption
<1>1. sched \in [Groups -> SchedRec] /\ poll \in [Pollers -> PollRec] /\ OnePoll(poll)
  BY DEF GroupsOK, GroupTypeOK, SchedRec, PollRec, Snaps, OnePoll
<1>2. poll[p].prev \in [Insts -> InstRow] /\ NoInst \in InstRow
  BY <1>1, TargetAssumption DEF PollRec, NoInst, InstRow, NoPins, FP
<1>3. [i \in {} |-> FALSE] \in UNION {[ids -> BOOLEAN] : ids \in SUBSET Insts}
  <2>1. [i \in {} |-> FALSE] \in [{} -> BOOLEAN] /\ {} \in SUBSET Insts
    OBVIOUS
  <2> QED BY <2>1, Zenon
<1>4. PollIdle \in PollRec /\ PollIdle.pc = "idle"
  BY <1>2, <1>3 DEF PollIdle, PollRec, Snaps
<1>5. poll' = [poll EXCEPT ![p] = PollIdle]
  BY DEF PollEnds
<1>6. sched' \in [Groups -> SchedRec]
  <2> DEFINE d == IF sched[g].doubled < Limit THEN 2 * sched[g].doubled ELSE sched[g].doubled
             w == IF f THEN [running |-> FALSE, doubled |-> d, wait |-> Backoff(d)]
                  ELSE [running |-> FALSE, doubled |-> Interval, wait |-> Interval]
  <2>1. Limit \in Nat /\ Interval \in 0 .. Limit /\ Interval \in Nat
    BY DEF Limit
  <2>2. d \in Nat
    BY <1>1, <2>1 DEF SchedRec
  <2>3. Backoff(d) \in 0 .. Limit
    BY <2>1, <2>2 DEF Backoff
  <2>4. w \in SchedRec
    <3> HIDE DEF d
    <3> QED BY <2>1, <2>2, <2>3 DEF SchedRec
  <2>5. sched' \in {sched, [sched EXCEPT ![g] = w]}
    BY DEF PollEnds, scheduleDone
  <2> HIDE DEF w
  <2> QED BY <2>4, <2>5, <1>1
<1> QED BY <1>1, <1>4, <1>5, <1>6 DEF OnePoll

\* A poll stores one instance.
LEMMA StoreStep ==
    ASSUME GroupsOK, NEW p \in Pollers, NEW i \in Insts, NEW new \in InstRow, poll[p].pc = "each", i \in poll[p].todo,
           new.hostKey \in {None, poll[p].prev[i].hostKey} \/ poll[p].prev[i].hostKey = None,
           \A l \in Listeners : new.pin[l] \in {None, poll[p].prev[i].pin[l]} \/ poll[p].prev[i].pin[l] = None,
           Store(p, i, new)
    PROVE  GroupsOK' /\ PinStep
<1> DEFINE g == poll[p].group
           old == inst[g][i]
           kept == Upserted(old, new)
<1>1. /\ inst \in [Groups -> [Insts -> InstRow]] /\ poll \in [Pollers -> PollRec] /\ OnePoll(poll)
      /\ \A q \in Pollers : KnowsGroup(poll[q], inst)
      /\ g \in Groups /\ poll[p].prev[i] = old
  BY DEF GroupsOK, GroupTypeOK, Snaps, PollRec, KnowsGroup, OnePoll
<1>2. old \in InstRow
  BY <1>1
<1>3. /\ kept \in InstRow
      /\ old.hostKey # None => kept.hostKey = old.hostKey
      /\ \A l \in Listeners : old.pin[l] # None => kept.pin[l] = old.pin[l]
  BY <1>1, <1>2, UpsertedRow
<1>4. /\ inst' = [inst EXCEPT ![g][i] = kept]
      /\ poll' = [poll EXCEPT ![p].todo = @ \ {i}]
      /\ ilive' = IF Healthy(old) /\ ~Healthy(kept) THEN ilive \ {<<g, i>>} ELSE ilive
      /\ group' = group /\ sched' = sched /\ areq' = areq /\ adrift' = adrift
  BY <1>1 DEF Store
<1> HIDE DEF kept
<1>5. /\ inst' \in [Groups -> [Insts -> InstRow]]
      /\ \A h \in Groups, j \in Insts : inst'[h][j] = IF h = g /\ j = i THEN kept ELSE inst[h][j]
  BY <1>1, <1>3, <1>4
<1>6. PinStep
  BY <1>3, <1>5 DEF PinStep
<1>7. /\ poll' \in [Pollers -> PollRec]
      /\ \A q \in Pollers : poll'[q].pc = poll[q].pc /\ poll'[q].group = poll[q].group /\ poll'[q].prev = poll[q].prev /\ poll'[q].snap = poll[q].snap
                            /\ poll'[q].todo = IF q = p THEN poll[p].todo \ {i} ELSE poll[q].todo
  BY <1>1, <1>4 DEF PollRec
<1>8. OnePoll(poll')
  BY <1>1, <1>7 DEF OnePoll
<1>9. ASSUME NEW q \in Pollers PROVE KnowsGroup(poll'[q], inst')
  <2>1. poll[q].todo \subseteq Insts
    BY <1>1 DEF PollRec
  <2>2. CASE q = p
    BY <2>1, <2>2, <1>1, <1>5, <1>7 DEF KnowsGroup
  <2>3. CASE q # p
    <3>1. poll[q].pc # "idle" => poll[q].group # g
      BY <2>3, <1>1 DEF OnePoll
    <3> QED BY <2>1, <2>3, <3>1, <1>1, <1>5, <1>7 DEF KnowsGroup
  <2> QED BY <2>2, <2>3
<1>10. UnhealthyKeepsNone'
  <2> SUFFICES ASSUME NEW h \in Groups, NEW j \in Insts, <<h, j>> \in ilive', <<h, j>> \notin adrift'
               PROVE  Healthy(inst'[h][j])
    BY DEF UnhealthyKeepsNone, Healthy
  <2>1. Healthy(inst[h][j])
    BY <1>4 DEF GroupsOK, UnhealthyKeepsNone
  <2>2. CASE h = g /\ j = i
    BY <2>1, <2>2, <1>4, <1>5
  <2>3. CASE ~(h = g /\ j = i)
    BY <2>1, <2>3, <1>5
  <2> QED BY <2>2, <2>3
<1>11. GroupTypeOK'
  BY <1>4, <1>5, <1>7 DEF GroupsOK, GroupTypeOK, Snaps, PollRec
<1> QED BY <1>4, <1>6, <1>8, <1>9, <1>10, <1>11 DEF GroupsOK, KnowsGroup, OnePoll

\* A poll marks what is gone.
LEMMA MarkStep ==
    ASSUME GroupsOK, NEW p \in Pollers, NEW ids \in SUBSET Insts, NEW f \in BOOLEAN, poll[p].pc = "each",
           inst' = Terminated(poll[p].group, ids), PollEnds(p, poll[p].group, f),
           ilive' \subseteq ilive, adrift \subseteq adrift', adrift' \subseteq adrift \cup ilive,
           \A i \in ids : <<poll[p].group, i>> \in ilive' => <<poll[p].group, i>> \in adrift',
           group' = group, areq' = areq
    PROVE  GroupsOK' /\ PinStep
<1> DEFINE g == poll[p].group
           marked == [i \in Insts |-> IF i \in ids THEN [inst[g][i] EXCEPT !.state = "terminated", !.probe = "unhealthy"]
                                    ELSE inst[g][i]]
<1>1. /\ inst \in [Groups -> [Insts -> InstRow]] /\ poll \in [Pollers -> PollRec] /\ OnePoll(poll)
      /\ \A q \in Pollers : KnowsGroup(poll[q], inst)
      /\ g \in Groups
  BY DEF GroupsOK, GroupTypeOK, Snaps, PollRec, KnowsGroup, OnePoll
<1>2. \A i \in Insts : /\ marked[i] \in InstRow
                       /\ marked[i].hostKey = inst[g][i].hostKey /\ marked[i].pin = inst[g][i].pin
                       /\ i \notin ids => marked[i] = inst[g][i]
  <2> SUFFICES ASSUME NEW i \in Insts
               PROVE  marked[i] \in InstRow /\ marked[i].hostKey = inst[g][i].hostKey /\ marked[i].pin = inst[g][i].pin
    OBVIOUS
  <2>1. inst[g][i] \in InstRow
    BY <1>1
  <2>2. CASE i \in ids
    <3>1. marked[i] = [inst[g][i] EXCEPT !.state = "terminated", !.probe = "unhealthy"]
      BY <2>2
    <3> QED BY <2>1, <3>1 DEF InstRow
  <2> QED BY <2>1, <2>2
<1>3. inst' = [inst EXCEPT ![g] = marked]
  BY <1>1 DEF Terminated
<1>4. marked \in [Insts -> InstRow]
  BY <1>2
<1> HIDE DEF marked
<1>5. /\ inst' \in [Groups -> [Insts -> InstRow]]
      /\ \A h \in Groups : inst'[h] = IF h = g THEN marked ELSE inst[h]
  BY <1>1, <1>3, <1>4
<1>6. PinStep
  BY <1>2, <1>5 DEF PinStep
<1>7. /\ sched' \in [Groups -> SchedRec] /\ poll' \in [Pollers -> PollRec]
      /\ OnePoll(poll') /\ poll'[p].pc = "idle"
      /\ \A q \in Pollers \ {p} : poll'[q] = poll[q]
  BY <1>1, PollEnded
<1>8. ASSUME NEW q \in Pollers PROVE KnowsGroup(poll'[q], inst')
  <2>1. CASE q = p
    BY <2>1, <1>7 DEF KnowsGroup
  <2>2. CASE q # p
    <3>1. poll'[q] = poll[q] /\ (poll[q].pc # "idle" => poll[q].group # g)
      BY <2>2, <1>1, <1>7 DEF OnePoll
    <3> QED BY <3>1, <1>1, <1>5 DEF KnowsGroup
  <2> QED BY <2>1, <2>2
<1>9. UnhealthyKeepsNone'
  <2> SUFFICES ASSUME NEW h \in Groups, NEW j \in Insts, <<h, j>> \in ilive', <<h, j>> \notin adrift'
               PROVE  Healthy(inst'[h][j])
    BY DEF UnhealthyKeepsNone, Healthy
  <2>1. Healthy(inst[h][j])
    BY DEF GroupsOK, UnhealthyKeepsNone
  <2>2. ~(h = g /\ j \in ids)
    OBVIOUS
  <2> QED BY <2>1, <2>2, <1>2, <1>5
<1>10. GroupTypeOK'
  BY <1>5, <1>7 DEF GroupsOK, GroupTypeOK, Snaps, PollRec, SchedRec
<1> QED BY <1>6, <1>7, <1>8, <1>9, <1>10 DEF GroupsOK, KnowsGroup, OnePoll

\* The polls, the clock and the sessions.
LEMMA GroupPolls == GroupsOK /\ GroupSteps => GroupsOK' /\ PinStep
<1> SUFFICES ASSUME GroupsOK, GroupSteps PROVE GroupsOK' /\ PinStep
  OBVIOUS
<1> USE GroupAssumption, TargetAssumption
<1>0. /\ inst \in [Groups -> [Insts -> InstRow]] /\ poll \in [Pollers -> PollRec] /\ OnePoll(poll)
      /\ sched \in [Groups -> SchedRec]
      /\ \A q \in Pollers : KnowsGroup(poll[q], inst)
  BY DEF GroupsOK, GroupTypeOK, Snaps, PollRec, SchedRec, KnowsGroup, OnePoll
<1>1. NoInst \in InstRow /\ NoInst.hostKey = None /\ NoInst.pin = NoPins
  BY DEF NoInst, InstRow, NoPins, FP
<1>2. ASSUME inst' = inst PROVE PinStep
  BY <1>2 DEF PinStep
<1>3. ASSUME inst' = inst, ilive' = ilive, adrift' = adrift, group' = group, areq' = areq,
             sched' \in [Groups -> SchedRec], poll' \in [Pollers -> PollRec], OnePoll(poll'),
             \A q \in Pollers : KnowsGroup(poll'[q], inst)
      PROVE  GroupsOK'
  <2>1. GroupTypeOK'
    BY <1>3 DEF GroupsOK, GroupTypeOK, Snaps, PollRec, SchedRec
  <2>2. UnhealthyKeepsNone'
    BY <1>3 DEF GroupsOK, UnhealthyKeepsNone, Healthy
  <2> QED BY <1>3, <2>1, <2>2 DEF GroupsOK, KnowsGroup, OnePoll
<1>4. ASSUME NEW p \in Pollers, NEW g \in Groups, NEW f \in BOOLEAN, PollEnds(p, g, f),
             inst' = inst, ilive' = ilive, adrift' = adrift, group' = group, areq' = areq
      PROVE  GroupsOK'
  <2>1. /\ sched' \in [Groups -> SchedRec] /\ poll' \in [Pollers -> PollRec]
        /\ OnePoll(poll') /\ poll'[p].pc = "idle"
        /\ \A q \in Pollers \ {p} : poll'[q] = poll[q]
    BY <1>4, PollEnded
  <2>2. \A q \in Pollers : KnowsGroup(poll'[q], inst)
    BY <2>1, <1>0 DEF KnowsGroup
  <2> QED BY <1>3, <1>4, <2>1, <2>2
<1>5. ASSUME NEW g \in Groups, Elapse(g) PROVE GroupsOK' /\ PinStep
  <2>1. sched' = [sched EXCEPT ![g].wait = @ - 1] /\ sched[g].wait > 0 /\ poll' = poll
        /\ inst' = inst /\ ilive' = ilive /\ adrift' = adrift /\ group' = group /\ areq' = areq
    BY <1>5 DEF Elapse
  <2>2. Limit \in Nat /\ sched[g].wait \in 0 .. Limit
    BY <1>0 DEF Limit, SchedRec
  <2>3. sched[g].wait - 1 \in 0 .. Limit
    BY <2>1, <2>2
  <2>4. sched' \in [Groups -> SchedRec]
    BY <2>1, <2>3, <1>0 DEF SchedRec
  <2> QED BY <2>1, <2>4, <1>0, <1>2, <1>3
<1>6. ASSUME NEW g \in Groups, NEW p \in Pollers, PollStart(p, g) PROVE GroupsOK' /\ PinStep
  <2>1. inst' = inst /\ ilive' = ilive /\ adrift' = adrift /\ group' = group /\ areq' = areq
    BY <1>6 DEF PollStart
  <2>2. CASE running(g)
    BY <2>1, <2>2, <1>2, <1>4, <1>6 DEF PollStart
  <2>3. CASE ~running(g)
    <3> DEFINE n == [PollIdle EXCEPT !.pc = "started", !.group = g]
    <3>1. [i \in {} |-> FALSE] \in UNION {[ids -> BOOLEAN] : ids \in SUBSET Insts}
      <4>1. [i \in {} |-> FALSE] \in [{} -> BOOLEAN] /\ {} \in SUBSET Insts
        OBVIOUS
      <4> QED BY <4>1, Zenon
    <3>2. PollIdle \in PollRec
      BY <3>1, <1>1 DEF PollIdle, PollRec, Snaps
    <3>3. n \in PollRec /\ n.pc = "started" /\ n.group = g
      BY <3>2 DEF PollRec
    <3>4. poll' = [poll EXCEPT ![p] = n] /\ sched' \in {sched, [sched EXCEPT ![g].running = TRUE]}
      BY <2>3, <1>6 DEF PollStart
    <3> HIDE DEF n
    <3>5. sched' \in [Groups -> SchedRec]
      BY <3>4, <1>0 DEF SchedRec
    <3>6. poll' \in [Pollers -> PollRec] /\ \A q \in Pollers : KnowsGroup(poll'[q], inst)
      BY <3>3, <3>4, <1>0 DEF KnowsGroup
    <3>7. \A q \in Pollers : poll[q].group # g
      BY <2>3 DEF running
    <3>8. OnePoll(poll')
      BY <3>3, <3>4, <3>7, <1>0 DEF OnePoll
    <3> QED BY <2>1, <3>5, <3>6, <3>8, <1>2, <1>3
  <2> QED BY <2>2, <2>3
<1>7. ASSUME NEW p \in Pollers, PollFail(p) PROVE GroupsOK' /\ PinStep
  <2>1. inst' = inst /\ ilive' = ilive /\ adrift' = adrift /\ group' = group /\ areq' = areq
        /\ poll[p].group \in Groups /\ PollEnds(p, poll[p].group, TRUE)
    BY <1>7, <1>0 DEF PollFail, KnowsGroup
  <2> QED BY <2>1, <1>2, <1>4
<1>8. ASSUME NEW p \in Pollers, PollMark(p) PROVE GroupsOK' /\ PinStep
  <2>1. Gone(p) \in SUBSET Insts
    BY DEF Gone
  <2>2. /\ poll[p].pc = "each" /\ inst' = Terminated(poll[p].group, Gone(p)) /\ PollEnds(p, poll[p].group, FALSE)
        /\ ilive' = ilive \ {<<poll[p].group, i>> : i \in Gone(p)} /\ adrift' = adrift /\ group' = group /\ areq' = areq
    BY <1>8 DEF PollMark
  <2> QED BY <2>1, <2>2, MarkStep
<1>9. ASSUME NEW p \in Pollers, NEW marked \in SUBSET Insts, PollMarkFails(p, marked) PROVE GroupsOK' /\ PinStep
  <2>1. /\ poll[p].pc = "each" /\ inst' = Terminated(poll[p].group, marked) /\ PollEnds(p, poll[p].group, TRUE)
        /\ ilive' = ilive /\ adrift' = adrift \cup (ilive \cap ({poll[p].group} \X marked)) /\ group' = group /\ areq' = areq
    BY <1>9 DEF PollMarkFails
  <2> QED BY <2>1, MarkStep
<1>10. ASSUME NEW p \in Pollers, NEW ids \in SUBSET Insts, NEW snap \in [ids -> BOOLEAN], PollDescribe(p, snap)
       PROVE  GroupsOK' /\ PinStep
  <2> DEFINE g == poll[p].group
             n == [poll[p] EXCEPT !.pc = "each", !.snap = snap, !.todo = ids, !.prev = inst[g]]
  <2>1. inst' = inst /\ ilive' = ilive /\ adrift' = adrift /\ group' = group /\ areq' = areq /\ sched' = sched
        /\ poll[p].pc = "started"
    BY <1>10 DEF PollDescribe
  <2>2. g \in Groups /\ inst[g] \in [Insts -> InstRow]
    BY <2>1, <1>0 DEF KnowsGroup
  <2>3. snap \in Snaps
    BY Zenon DEF Snaps
  <2>4. DOMAIN snap = ids
    OBVIOUS
  <2>5. n \in PollRec /\ n.pc = "each" /\ n.group = g /\ n.todo = ids /\ n.prev = inst[g] /\ n.snap = snap
    <3> DEFINE q == poll[p]
               v == inst[g]
    <3>1. q \in PollRec /\ v \in [Insts -> InstRow]
      BY <1>0, <2>2
    <3> HIDE DEF q, v
    <3>2. n.pc = "each" /\ n.group = g /\ n.todo = ids /\ n.prev = v /\ n.snap = snap
      BY <3>1 DEF PollRec, q, v
    <3>3. [q EXCEPT !.pc = "each", !.snap = snap, !.todo = ids, !.prev = v] \in PollRec
      BY <3>1, <2>3 DEF PollRec
    <3> QED BY <3>2, <3>3 DEF q, v
  <2>6. poll' = [poll EXCEPT ![p] = n]
    BY <1>10, <1>0, <2>4 DEF PollDescribe, PollRec
  <2> HIDE DEF n
  <2>7. poll' \in [Pollers -> PollRec] /\ OnePoll(poll')
    BY <2>1, <2>5, <2>6, <1>0 DEF OnePoll
  <2>8. \A q \in Pollers : KnowsGroup(poll'[q], inst)
    BY <2>2, <2>4, <2>5, <2>6, <1>0 DEF KnowsGroup
  <2> QED BY <2>1, <2>7, <2>8, <1>0, <1>2, <1>3
<1>11. ASSUME NEW p \in Pollers, NEW i \in Insts, PollUnhealthy(p, i) PROVE GroupsOK' /\ PinStep
  <2> DEFINE b == poll[p].snap[i]
             n == [NoInst EXCEPT !.state = "present", !.cloud = b, !.probe = "unhealthy"]
  <2>1. poll[p].pc = "each" /\ i \in poll[p].todo /\ Store(p, i, n)
    BY <1>11 DEF PollUnhealthy
  <2>2. b \in BOOLEAN
    <3>1. poll[p].snap \in Snaps /\ i \in DOMAIN poll[p].snap
      BY <2>1, <1>0 DEF PollRec, KnowsGroup
    <3>2. PICK ids \in SUBSET Insts : poll[p].snap \in [ids -> BOOLEAN]
      BY <3>1, Zenon DEF Snaps
    <3> QED BY <3>1, <3>2
  <2> HIDE DEF b
  <2>3. n \in InstRow /\ n.hostKey = None /\ n.pin = NoPins
    BY <2>2, <1>1 DEF InstRow
  <2> HIDE DEF n
  <2>4. \A l \in Listeners : n.pin[l] = None
    BY <2>3 DEF NoPins
  <2> QED BY <2>1, <2>3, <2>4, StoreStep
<1>12. ASSUME NEW p \in Pollers, NEW i \in Insts, NEW res \in Probe, NEW ok \in BOOLEAN,
              NEW console \in {"match", "another", "none"}, PollInstance(p, i, res, ok, console)
       PROVE  GroupsOK' /\ PinStep
  <2> DEFINE r == poll[p].prev[i]
             n == probed(r, res, ok, console)
  <2>1. poll[p].pc = "each" /\ i \in poll[p].todo /\ Store(p, i, n) /\ r \in InstRow
    BY <1>12, <1>0 DEF PollInstance, PollRec
  <2>2. /\ n \in InstRow
        /\ r.hostKey # None => n.hostKey = r.hostKey
        /\ \A l \in Listeners : r.pin[l] # None => n.pin[l] = r.pin[l]
    BY <2>1, ProbedInst
  <2> HIDE DEF n
  <2> QED BY <2>1, <2>2, StoreStep
<1>13. ASSUME NEW g \in Groups, NEW i \in Insts, InstConnect(g, i) PROVE GroupsOK' /\ PinStep
  <2>1. /\ Healthy(inst[g][i]) /\ ilive' = ilive \cup {<<g, i>>}
        /\ inst' = inst /\ poll' = poll /\ sched' = sched /\ group' = group /\ areq' = areq /\ adrift' = adrift
    BY <1>13 DEF InstConnect
  <2>2. GroupTypeOK'
    BY <2>1 DEF GroupsOK, GroupTypeOK
  <2>3. UnhealthyKeepsNone'
    BY <2>1 DEF GroupsOK, UnhealthyKeepsNone, Healthy
  <2>4. GroupsOK'
    BY <2>1, <2>2, <2>3 DEF GroupsOK
  <2> QED BY <2>1, <2>4, <1>2
<1> QED BY <1>5, <1>6, <1>7, <1>8, <1>9, <1>10, <1>11, <1>12, <1>13 DEF GroupSteps

\* The administrators of groups.
LEMMA GroupAdmins == CredsOK /\ GroupsOK /\ GroupAdmin => CredsOK' /\ GroupsOK'
<1> SUFFICES ASSUME CredsOK, GroupsOK, GroupAdmin PROVE CredsOK' /\ GroupsOK'
  OBVIOUS
<1> USE CredAssumption, GroupAssumption
<1> DEFINE AreqRec == [pc : {"idle", "delete", "bind"}, group : Groups \cup {None}, ids : SUBSET Insts,
                       cred : Creds \cup {None}]
<1>0. /\ areq \in AreqRec /\ (areq.pc # "idle" => areq.group \in Groups) /\ (areq.pc = "bind" => areq.cred \in Creds)
      /\ group \in [Groups -> {"free", "active", "disabled", "deleted"}] /\ ilive \subseteq Groups \X Insts
  BY DEF GroupsOK, GroupTypeOK
<1>1. AdminIdle \in AreqRec /\ AdminIdle.pc = "idle"
  BY DEF AdminIdle
<1>2. ASSUME inst' = inst, poll' = poll, sched' = sched, adrift' = adrift, ilive' \subseteq ilive,
             group' \in [Groups -> {"free", "active", "disabled", "deleted"}],
             areq' \in AreqRec, areq'.pc # "idle" => areq'.group \in Groups, areq'.pc = "bind" => areq'.cred \in Creds
      PROVE  GroupsOK'
  <2>1. GroupTypeOK'
    BY <1>2 DEF GroupsOK, GroupTypeOK
  <2>2. UnhealthyKeepsNone'
    BY <1>2 DEF GroupsOK, UnhealthyKeepsNone, Healthy
  <2> HIDE DEF AreqRec
  <2> QED BY <1>2, <2>1, <2>2 DEF GroupsOK
<1>3. ASSUME NEW g \in Groups, NEW st \in {"active", "disabled"}, NEW c \in Creds \cup {None},
             GroupCreate(g, st, c) \/ GroupUpdate(g, st, c)
      PROVE  CredsOK' /\ GroupsOK'
  <2>1. /\ inst' = inst /\ poll' = poll /\ sched' = sched /\ adrift' = adrift /\ areq' = areq
        /\ ilive' \subseteq ilive /\ group' = [group EXCEPT ![g] = st]
        /\ cred' = cred /\ creq' = creq /\ BindSlot(g, c)
    BY <1>3 DEF GroupCreate, GroupUpdate
  <2>2. CredsOK'
    BY <2>1, SlotStep
  <2> QED BY <2>1, <2>2, <1>0, <1>2
<1>4. ASSUME NEW g \in Groups, NEW c \in Creds \cup {None}, GroupUnbind(g, c)
      PROVE  CredsOK' /\ GroupsOK'
  <2> DEFINE n == [AdminIdle EXCEPT !.pc = "bind", !.group = g, !.cred = c]
  <2>1. /\ inst' = inst /\ poll' = poll /\ sched' = sched /\ adrift' = adrift /\ ilive' = ilive /\ group' = group
        /\ cred' = cred /\ creq' = creq /\ BindSlot(g, None)
        /\ areq' = IF c = None THEN areq ELSE n
    BY <1>4 DEF GroupUnbind
  <2>2. n \in AreqRec /\ n.group = g /\ n.cred = c
    BY <1>1
  <2>3. CredsOK'
    BY <2>1, SlotStep
  <2> HIDE DEF n
  <2>4. areq' \in AreqRec /\ (areq'.pc # "idle" => areq'.group \in Groups) /\ (areq'.pc = "bind" => areq'.cred \in Creds)
    BY <2>1, <2>2, <1>0
  <2> QED BY <2>1, <2>3, <2>4, <1>0, <1>2
<1>5. ASSUME NEW g \in Groups, GroupDeleteRead(g) PROVE CredsOK' /\ GroupsOK'
  <2> DEFINE js == {i \in Insts : inst[g][i].state # "absent"}
             n == [AdminIdle EXCEPT !.pc = "delete", !.group = g, !.ids = js]
  <2>1. /\ inst' = inst /\ poll' = poll /\ sched' = sched /\ adrift' = adrift /\ ilive' = ilive /\ group' = group
        /\ credVars' = credVars /\ areq' = n
    BY <1>5 DEF GroupDeleteRead
  <2>2. js \in SUBSET Insts
    OBVIOUS
  <2> HIDE DEF js
  <2>3. n \in AreqRec /\ n.group = g /\ n.pc = "delete"
    BY <2>2, <1>1
  <2> HIDE DEF n
  <2>4. CredsOK'
    BY <2>1 DEF credVars, CredsOK, CredTypeOK, BoundCredentialExists, Stored
  <2> QED BY <2>1, <2>3, <2>4, <1>0, <1>2
<1>6. ASSUME GroupDelete PROVE CredsOK' /\ GroupsOK'
  <2>1. /\ inst' = inst /\ poll' = poll /\ sched' = sched /\ adrift' = adrift /\ ilive' \subseteq ilive
        /\ group' = [group EXCEPT ![areq.group] = "deleted"]
        /\ cred' = cred /\ creq' = creq /\ BindSlot(areq.group, None) /\ areq' = AdminIdle /\ areq.group \in Groups
    BY <1>6, <1>0 DEF GroupDelete
  <2>2. CredsOK'
    BY <2>1, SlotStep
  <2> QED BY <2>1, <2>2, <1>0, <1>1, <1>2
<1>7. ASSUME GroupBind PROVE CredsOK' /\ GroupsOK'
  <2>1. /\ inst' = inst /\ poll' = poll /\ sched' = sched /\ adrift' = adrift /\ ilive' = ilive /\ group' = group
        /\ cred' = cred /\ creq' = creq /\ (BindSlot(areq.group, areq.cred) \/ bound' = bound) /\ areq' = AdminIdle
        /\ areq.group \in Groups /\ areq.cred \in Creds
    BY <1>7, <1>0 DEF GroupBind
  <2>2. CredsOK'
    BY <2>1, SlotStep
  <2> QED BY <2>1, <2>2, <1>0, <1>1, <1>2
<1> QED BY <1>3, <1>4, <1>5, <1>6, <1>7 DEF GroupAdmin

\* Every step of the estate keeps the invariant, and no pin changes but by an administrator.
LEMMA EstateNextIInv == EstateIInv /\ [EstateNext]_estateVars => EstateIInv' /\ [PinStep]_inst
<1> SUFFICES ASSUME EstateIInv, [EstateNext]_estateVars PROVE EstateIInv' /\ [PinStep]_inst
  OBVIOUS
<1>1. ASSUME credVars' = credVars, CredsOK PROVE CredsOK'
  BY <1>1 DEF credVars, CredsOK, CredTypeOK, BoundCredentialExists, Stored
<1>2. ASSUME targetVars' = targetVars, TargetsOK PROVE TargetsOK'
  BY <1>2 DEF targetVars, TargetsOK, TargetTypeOK, ApprovedTrustOnly
<1>3. ASSUME groupVars' = groupVars, GroupsOK PROVE GroupsOK' /\ inst' = inst
  BY <1>3 DEF groupVars, GroupsOK, GroupTypeOK, UnhealthyKeepsNone, Healthy
<1>4. CASE CredNext /\ UNCHANGED <<targetVars, groupVars>>
  BY <1>4, <1>2, <1>3, CredStep DEF EstateIInv
<1>5. CASE TargetNext /\ UNCHANGED groupVars
  BY <1>5, <1>3, TargetStep DEF EstateIInv
<1>6. CASE GroupSteps /\ UNCHANGED <<credVars, targetVars>>
  BY <1>6, <1>1, <1>2, GroupPolls DEF EstateIInv
<1>7. CASE GroupAdmin /\ UNCHANGED targetVars
  <2>1. inst' = inst
    BY <1>7 DEF GroupAdmin, GroupCreate, GroupUpdate, GroupUnbind, GroupDeleteRead, GroupDelete, GroupBind
  <2> QED BY <2>1, <1>7, <1>2, GroupAdmins DEF EstateIInv
<1>8. CASE UNCHANGED estateVars
  BY <1>8, <1>1, <1>2, <1>3 DEF EstateIInv, estateVars
<1> QED BY <1>4, <1>5, <1>6, <1>7, <1>8 DEF EstateNext

\* Whatever the administrators of credentials, targets and groups, the probes and
\* the polls do at once (credential/repo.go, target/repo.go, asg/sync.go): no slot
\* names a credential that is gone, a host key is trusted only when its fingerprint
\* was presented, and an instance stored as unhealthy keeps no session but those of
\* a marking that failed.
THEOREM EstateStaysSound == EstateSpec => []EstateSound
<1>1. EstateIInv => EstateSound
  BY DEF EstateIInv, CredsOK, TargetsOK, GroupsOK, EstateSound
<1> QED BY <1>1, EstateInitIInv, EstateNextIInv, PTL DEF EstateSpec

\* A key or certificate pinned for an instance is never replaced (sync.go), because
\* the running guard leaves one poll of a group at a time, and what that poll has
\* yet to store is what it read.
THEOREM PinsStay == EstateSpec => PinsKept
<1>1. [PinStep]_inst <=> [\A g \in Groups, i \in Insts :
          /\ inst[g][i].hostKey # None => inst'[g][i].hostKey = inst[g][i].hostKey
          /\ \A l \in Listeners : inst[g][i].pin[l] # None => inst'[g][i].pin[l] = inst[g][i].pin[l]]_inst
  BY DEF PinStep
<1> QED BY <1>1, EstateInitIInv, EstateNextIInv, PTL DEF EstateSpec, PinsKept

-----------------------------------------------------------------------------
(* Recordings.  The run, the sweep and the move each know where the copies *)
(* of the recordings they are at are.                                      *)

\* A session's recording, by how far its run is.
RunKnows ==
    \A r \in Recs :
       /\ stage[r].pc = "none" => ~row[r].there /\ ~row[r].finished /\ \A p \in Places : <<r, p>> \notin blob
       /\ stage[r].pc \in {"recording", "closed"} => ~row[r].finished
       /\ stage[r].pc = "closed" => <<r, row[r].at>> \in blob
       /\ stage[r].pc \in {"blank", "cleared"} => r \in Blank
       /\ row[r].purged /\ ~row[r].discarded => row[r].finished

\* What a sweep has chosen, and where the copy is that it has yet to delete or to mark.
Chosen(c) ==
    /\ c \in Recs \X Places /\ c[1] \in selected /\ row[c[1]].finished
    /\ c[2] \in {Local, row[c[1]].at}
SweepKnows ==
    /\ \A c \in sweep.todo : Chosen(c)
    /\ sweep.pc \in {"mark", "forget"} => Chosen(<<sweep.rec, sweep.at>>)
    /\ sweep.pc = "mark" /\ row[sweep.rec].at = sweep.at => <<sweep.rec, sweep.at>> \notin blob \ strays

\* What the move has listed and opened is finished and, until its row is switched, local.
MoveKnows ==
    /\ move.pc # "idle" => move.to \in Buckets
    /\ \A r \in move.batch : row[r].finished /\ row[r].at = Local
    /\ move.pc \in {"copy", "switch", "undo", "drop"} =>
          /\ move.rec \in Recs \ move.batch /\ row[move.rec].finished
          /\ row[move.rec].at = IF move.pc = "drop" THEN move.to ELSE Local
    /\ move.pc = "switch" => <<move.rec, move.to>> \in blob \/ move.rec \in selected \cup Blank

\* Every copy is the one the row names, or the move's, or stray; none is the row's
\* once it is purged.
CopiesKnown ==
    \A r \in Recs, p \in Places : <<r, p>> \in blob \ strays =>
       \/ p = row[r].at /\ (row[r].purged => row[r].discarded)
       \/ move.rec = r /\ move.pc \in {"switch", "undo"} /\ p = move.to
       \/ move.rec = r /\ move.pc = "drop" /\ p = Local

RecTypes ==
    /\ RecTypeOK
    /\ sweep.pc \in {"mark", "forget"} => sweep.rec \in Recs
    /\ index.pc = "store" => index.rec \in Recs

RecIInv == RecTypes /\ KeptUntilDue /\ RunKnows /\ SweepKnows /\ MoveKnows /\ CopiesKnown

RowRec == [at : Places, there : BOOLEAN, finished : BOOLEAN, on : 0 .. MaxDay, until : Nat,
           purged : BOOLEAN, discarded : BOOLEAN, indexed : BOOLEAN, commands : BOOLEAN]

\* The recordings invariant holds at the start.
LEMMA RecInitIInv == RecInit => RecIInv
<1> SUFFICES ASSUME RecInit PROVE RecIInv
  OBVIOUS
<1> USE RecAssumption DEF RecInit, Places
<1>1. RecTypeOK
  BY DEF RecTypeOK, NoRow, SweepIdle, MoveIdle, IndexIdle, ChangeIdle
<1>2. RecTypes
  BY <1>1 DEF RecTypes, SweepIdle, IndexIdle
<1>3. \A r \in Recs : ~row[r].there /\ ~row[r].finished /\ ~row[r].purged /\ stage[r].pc = "none"
  BY DEF NoRow
<1> QED BY <1>2, <1>3 DEF RecIInv, KeptUntilDue, Kept, RunKnows, SweepKnows, MoveKnows, CopiesKnown, SweepIdle, MoveIdle

\* The types, action by action.
LEMMA RecTypesStep == RecIInv /\ RecNext => RecTypes'
<1> SUFFICES ASSUME RecIInv, RecNext PROVE RecTypes'
  OBVIOUS
<1> USE RecAssumption DEF Places
<1> DEFINE StageRec == [pc : {"none", "recording", "closed", "blank", "cleared", "died", "over"}, at : Places]
           SweepRec == [pc : {"idle", "each", "mark", "forget"}, todo : SUBSET (Recs \X Places), rec : Recs \cup {0}, at : Places]
           MoveRec == [pc : {"idle", "list", "each", "copy", "switch", "drop", "undo"}, to : Buckets \cup {NoBucket},
                       batch : SUBSET Recs, after : Recs \cup {-1}, rec : Recs \cup {0}]
           IndexRec == [pc : {"idle", "each", "store"}, todo : SUBSET (Recs \X Places), rec : Recs \cup {0}, read : BOOLEAN]
           ChangeRec == [pc : {"idle", "probed", "stored", "cleared"}, to : Buckets \cup {NoBucket}]
<1>0. /\ conf \in Buckets \cup {NoBucket} /\ s3 \in Buckets \cup {NoBucket} /\ change \in ChangeRec
      /\ row \in [Recs -> RowRec] /\ stage \in [Recs -> StageRec]
      /\ blob \subseteq Recs \X Places /\ strays \subseteq Recs \X Places
      /\ keep \in [age : Nat, cap : Nat] /\ day \in 0 .. MaxDay
      /\ sweep \in SweepRec /\ move \in MoveRec /\ index \in IndexRec /\ selected \subseteq Recs
  BY DEF RecIInv, RecTypes, RecTypeOK, RowRec
<1>1. /\ sweep.pc \in {"mark", "forget"} => sweep.rec \in Recs
      /\ index.pc = "store" => index.rec \in Recs
      /\ move.pc # "idle" => move.to \in Buckets
      /\ move.pc \in {"copy", "switch", "undo", "drop"} => move.rec \in Recs
  BY DEF RecIInv, RecTypes, MoveKnows
<1>2. NoRow \in RowRec /\ SweepIdle \in SweepRec /\ MoveIdle \in MoveRec /\ IndexIdle \in IndexRec /\ ChangeIdle \in ChangeRec
      /\ SweepIdle.pc = "idle" /\ IndexIdle.pc = "idle"
  BY DEF NoRow, RowRec, SweepIdle, MoveIdle, IndexIdle, ChangeIdle
<1>10. row \in [Recs -> RowRec] /\ stage \in [Recs -> StageRec]
  BY <1>0
<1>11. blob \subseteq Recs \X Places /\ strays \subseteq Recs \X Places
  BY <1>0
<1>12. move \in MoveRec
  BY <1>0
<1>3. SUFFICES /\ conf' \in Buckets \cup {NoBucket} /\ s3' \in Buckets \cup {NoBucket} /\ change' \in ChangeRec
               /\ row' \in [Recs -> RowRec] /\ stage' \in [Recs -> StageRec]
               /\ blob' \subseteq Recs \X Places /\ strays' \subseteq Recs \X Places
               /\ keep' \in [age : Nat, cap : Nat] /\ day' \in 0 .. MaxDay
               /\ sweep' \in SweepRec /\ move' \in MoveRec /\ index' \in IndexRec /\ selected' \subseteq Recs
               /\ sweep'.pc \in {"mark", "forget"} => sweep'.rec \in Recs
               /\ index'.pc = "store" => index'.rec \in Recs
  BY DEF RecTypes, RecTypeOK, RowRec
<1>4. CASE BackendNext
  BY <1>0, <1>1, <1>2, <1>4 DEF BackendNext, ApplyProbe, ApplyPut, ApplySet, ResetDelete, ResetSet, changeOnly
<1>5. CASE RunNext
  <2>1. PICK r \in Recs : \/ Start(r) \/ CloseRecording(r) \/ FinishRecording(r) \/ DiscardDelete(r)
                          \/ DiscardRecording(r) \/ SweepFinish(r)
    BY <1>5 DEF RunNext
  <2>2. row[r] \in RowRec /\ stage[r] \in StageRec
    BY <1>0
  <2>3. /\ conf' = conf /\ s3' = s3 /\ change' = change /\ keep' = keep /\ day' = day /\ sweep' = sweep
        /\ move' = move /\ index' = index /\ selected' = selected /\ strays' = strays
    BY <2>1 DEF Start, CloseRecording, FinishRecording, DiscardDelete, DiscardRecording, SweepFinish, runOnly
  <2>4. CreateAt \in Places
    BY <1>0 DEF CreateAt
  <2>5. row' \in [Recs -> RowRec]
    <3>1. CASE Start(r)
      <4>1. PICK own \in OwnDays :
               row' = [row EXCEPT ![r] = [NoRow EXCEPT !.at = CreateAt, !.there = TRUE, !.until = IF own = 0 THEN 0 ELSE day + own]]
        BY <3>1 DEF Start
      <4>2. (IF own = 0 THEN 0 ELSE day + own) \in Nat
        BY <1>0
      <4> QED BY <1>0, <1>2, <2>4, <4>1, <4>2 DEF RowRec
    <3>2. CASE FinishRecording(r) \/ SweepFinish(r)
      <4> DEFINE w == [row[r] EXCEPT !.finished = TRUE, !.on = day]
      <4>1. day \in 0 .. MaxDay
        BY <1>0
      <4>2. w \in RowRec
        BY <2>2, <4>1 DEF RowRec
      <4>3. row' = [row EXCEPT ![r] = w] \/ row' = row
        BY <3>2, <1>10 DEF FinishRecording, SweepFinish
      <4> HIDE DEF w
      <4> QED BY <1>10, <4>2, <4>3
    <3>3. CASE DiscardRecording(r)
      <4> DEFINE w == [row[r] EXCEPT !.purged = TRUE, !.discarded = TRUE]
      <4>1. w \in RowRec
        BY <2>2 DEF RowRec
      <4>2. row' = [row EXCEPT ![r] = w] \/ row' = row
        BY <3>3, <1>10 DEF DiscardRecording
      <4> HIDE DEF w
      <4> QED BY <1>10, <4>1, <4>2
    <3>4. CASE CloseRecording(r) \/ DiscardDelete(r)
      BY <1>0, <3>4 DEF CloseRecording, DiscardDelete
    <3> QED BY <2>1, <3>1, <3>2, <3>3, <3>4
  <2>6. stage' \in [Recs -> StageRec]
    <3>1. CASE Start(r)
      BY <1>10, <2>4, <3>1 DEF Start
    <3>2. ASSUME NEW pc \in {"closed", "over", "blank", "cleared"}, stage' = [stage EXCEPT ![r].pc = pc]
          PROVE  stage' \in [Recs -> StageRec]
      BY <1>10, <3>2
    <3> QED BY <2>1, <1>10, <3>1, <3>2 DEF CloseRecording, FinishRecording, DiscardDelete, DiscardRecording, SweepFinish
  <2>7. row[r].at \in Places
    BY <2>2 DEF RowRec
  <2>8. blob' \subseteq Recs \X Places
    <3>1. <<r, Local>> \in Recs \X Places /\ <<r, row[r].at>> \in Recs \X Places
      BY <2>7
    <3> QED BY <1>11, <2>1, <3>1 DEF Start, CloseRecording, FinishRecording, DiscardDelete, DiscardRecording, SweepFinish
  <2> QED BY <1>0, <1>1, <2>3, <2>5, <2>6, <2>8
<1>6. CASE SweepNext
  <2>1. /\ conf' = conf /\ s3' = s3 /\ change' = change /\ stage' = stage
        /\ move' = move /\ index' = index /\ keep' \in [age : Nat, cap : Nat] /\ day' \in 0 .. MaxDay
    <3>1. keep \in [age : Nat, cap : Nat] /\ day \in 0 .. MaxDay
      BY <1>0
    <3>2. CASE \E p \in [age : {0, 1}, cap : {0, 1}] : SetRetentionPolicy(p)
      BY <3>1, <3>2 DEF SetRetentionPolicy
    <3>3. CASE DayPasses
      BY <3>1, <3>3 DEF DayPasses
    <3> QED BY <1>6, <3>1, <3>2, <3>3 DEF SweepNext, SweepList, SweepDelete, SweepMark, SweepForget, SweepEnd, sweepOnly
  <2>2. CASE (\E p \in [age : {0, 1}, cap : {0, 1}] : SetRetentionPolicy(p)) \/ DayPasses
    <3>1. row' = row /\ blob' = blob /\ strays' = strays /\ sweep' = sweep /\ selected' = selected
      BY <2>2 DEF SetRetentionPolicy, DayPasses
    <3> QED BY <1>0, <1>1, <2>1, <3>1
  <2>3. CASE SweepList
    <3>1. PICK due \in selectForPurge({r \in Recs : Kept(r)}) :
             /\ sweep' = [SweepIdle EXCEPT !.pc = "each", !.todo = {<<r, row[r].at>> : r \in due}]
             /\ selected' = selected \cup due
      BY <2>3 DEF SweepList
    <3>2. due \subseteq Recs
      BY DEF selectForPurge
    <3>3. {<<r, row[r].at>> : r \in due} \subseteq Recs \X Places
      BY <1>0, <3>2 DEF RowRec
    <3>4. sweep' \in SweepRec /\ sweep'.pc = "each"
      BY <1>2, <3>1, <3>3
    <3>5. row' = row /\ blob' = blob /\ strays' = strays /\ selected' \subseteq Recs
      BY <1>0, <2>3, <3>1, <3>2 DEF SweepList
    <3> QED BY <1>0, <1>1, <2>1, <3>4, <3>5
  <2>4. CASE \E c \in sweep.todo : SweepDelete(c)
    <3>1. PICK c \in sweep.todo : SweepDelete(c)
      BY <2>4
    <3>2. c \in Recs \X Places /\ sweep.todo \in SUBSET (Recs \X Places)
      BY <1>0
    <3>3. c[1] \in Recs /\ c[2] \in Places /\ sweep.todo \ {c} \in SUBSET (Recs \X Places)
      BY <3>2
    <3>4. sweep' \in SweepRec /\ (sweep'.pc \in {"mark", "forget"} => sweep'.rec \in Recs)
      BY <1>0, <1>1, <3>1, <3>3 DEF SweepDelete
    <3> QED BY <1>0, <1>1, <2>1, <3>1, <3>4 DEF SweepDelete
  <2>5. CASE SweepMark
    <3>1. row' \in [Recs -> RowRec]
      <4> DEFINE w == [row[sweep.rec] EXCEPT !.purged = TRUE]
      <4>1. sweep.rec \in Recs /\ (row' = row \/ row' = [row EXCEPT ![sweep.rec] = w])
        BY <1>1, <2>5 DEF SweepMark, markRecordingPurged
      <4>2. row[sweep.rec] \in RowRec
        BY <1>10, <4>1
      <4>3. w \in RowRec
        BY <4>1, <4>2 DEF RowRec
      <4> HIDE DEF w
      <4> QED BY <1>10, <4>1, <4>3
    <3> QED BY <1>0, <1>1, <2>1, <2>5, <3>1 DEF SweepMark
  <2>6. CASE SweepForget
    <3>1. row' \in [Recs -> RowRec]
      <4> DEFINE w == [row[sweep.rec] EXCEPT !.commands = FALSE]
      <4>1. sweep.rec \in Recs /\ (row' = row \/ row' = [row EXCEPT ![sweep.rec] = w])
        BY <1>1, <2>6 DEF SweepForget
      <4>2. row[sweep.rec] \in RowRec
        BY <1>10, <4>1
      <4>3. w \in RowRec
        BY <4>1, <4>2 DEF RowRec
      <4> HIDE DEF w
      <4> QED BY <1>10, <4>1, <4>3
    <3> QED BY <1>0, <1>1, <2>1, <2>6, <3>1 DEF SweepForget
  <2>7. CASE SweepEnd
    BY <1>0, <1>1, <1>2, <2>1, <2>7 DEF SweepEnd
  <2> QED BY <1>6, <2>2, <2>3, <2>4, <2>5, <2>6, <2>7 DEF SweepNext
<1>7. CASE MoveNext
  <2>1. /\ conf' = conf /\ s3' = s3 /\ change' = change /\ stage' = stage /\ keep' = keep /\ day' = day
        /\ sweep' = sweep /\ index' = index /\ selected' = selected
    BY <1>7 DEF MoveNext, StartMove, MoveList, MoveOpen, MoveCopy, DigestDiffers, MoveSwitch, MoveUndo, MoveDrop, MoveBatchEnd, moveOnly
  <2>2. row' \in [Recs -> RowRec]
    <3>1. CASE MoveSwitch
      <4> DEFINE w == [row[move.rec] EXCEPT !.at = move.to]
      <4>1. move.rec \in Recs /\ move.to \in Places /\ (row' = row \/ row' = [row EXCEPT ![move.rec] = w])
        BY <1>1, <3>1 DEF MoveSwitch, UpdateRecordingURI
      <4>2. row[move.rec] \in RowRec
        BY <1>10, <4>1
      <4>3. w \in RowRec
        BY <4>1, <4>2 DEF RowRec
      <4> HIDE DEF w
      <4> QED BY <1>10, <4>1, <4>3
    <3> QED BY <1>0, <1>7, <3>1 DEF MoveNext, StartMove, MoveList, MoveOpen, MoveCopy, DigestDiffers, MoveUndo, MoveDrop, MoveBatchEnd
  <2>3. blob' \subseteq Recs \X Places /\ strays' \subseteq Recs \X Places
    <3>1. CASE MoveCopy \/ MoveUndo \/ MoveDrop
      <4>1. <<move.rec, move.to>> \in Recs \X Places /\ <<move.rec, Local>> \in Recs \X Places
        BY <1>1, <3>1 DEF MoveCopy, MoveUndo, MoveDrop
      <4> QED BY <1>11, <3>1, <4>1 DEF MoveCopy, MoveUndo, MoveDrop
    <3> QED BY <1>11, <1>7, <3>1 DEF MoveNext, StartMove, MoveList, MoveOpen, DigestDiffers, MoveSwitch, MoveBatchEnd
  <2>4. move' \in MoveRec
    <3>1. CASE MoveList
      <4> DEFINE batch == {r \in Recs : Kept(r) /\ row[r].at = Local /\ r > move.after}
      <4>1. batch \in SUBSET Recs
        OBVIOUS
      <4>2. move' = IF batch = {} THEN MoveIdle ELSE [move EXCEPT !.pc = "each", !.batch = batch]
        BY <3>1 DEF MoveList
      <4> HIDE DEF batch
      <4> QED BY <1>0, <1>2, <4>1, <4>2
    <3>2. CASE MoveOpen
      <4>1. PICK r \in move.batch : move' = [move EXCEPT !.batch = @ \ {r}, !.after = r, !.rec = r,
                                                !.pc = IF <<r, Local>> \in blob THEN "copy" ELSE "each"]
        BY <3>2 DEF MoveOpen
      <4>2. r \in Recs /\ move.batch \ {r} \in SUBSET Recs
        BY <1>0
      <4> QED BY <1>0, <4>1, <4>2
    <3>3. CASE StartMove
      <4>1. s3 \in Buckets \cup {NoBucket}
        BY <1>0
      <4> QED BY <1>2, <3>3, <4>1 DEF StartMove
    <3>4. ASSUME NEW pc \in {"list", "each", "switch", "drop", "undo"}, move' = [move EXCEPT !.pc = pc]
          PROVE  move' \in MoveRec
      BY <1>12, <3>4
    <3> QED BY <1>7, <3>1, <3>2, <3>3, <3>4 DEF MoveNext, MoveCopy, DigestDiffers, MoveSwitch, MoveUndo, MoveDrop, MoveBatchEnd
  <2> QED BY <1>0, <1>1, <2>1, <2>2, <2>3, <2>4
<1>8. CASE IndexNext
  <2>1. /\ conf' = conf /\ s3' = s3 /\ change' = change /\ stage' = stage /\ blob' = blob /\ keep' = keep /\ day' = day
        /\ sweep' = sweep /\ move' = move /\ selected' = selected /\ strays' = strays
    BY <1>8 DEF IndexNext, IndexList, IndexRead, IndexStore, IndexEnd, indexOnly
  <2>2. row' \in [Recs -> RowRec]
    <3>1. index.read \in BOOLEAN
      BY <1>0
    <3>2. CASE IndexStore
      <4> DEFINE w == [row[index.rec] EXCEPT !.indexed = TRUE, !.commands = index.read]
      <4>1. index.rec \in Recs /\ row[index.rec] \in RowRec
        BY <1>1, <1>10, <3>2 DEF IndexStore
      <4>2. w \in RowRec
        BY <3>1, <4>1 DEF RowRec
      <4>3. row' = [row EXCEPT ![index.rec] = w] \/ row' = row
        BY <3>2, <1>10 DEF IndexStore
      <4> HIDE DEF w
      <4> QED BY <1>10, <4>1, <4>2, <4>3
    <3> QED BY <1>0, <1>8, <3>2 DEF IndexNext, IndexList, IndexRead, IndexEnd
  <2>3. index' \in IndexRec /\ (index'.pc = "store" => index'.rec \in Recs)
    <3>1. CASE IndexList
      <4> DEFINE todo == {r \in Recs \ Blank : Kept(r) /\ ~row[r].indexed}
                 T == {<<r, row[r].at>> : r \in todo}
      <4>1. T \in SUBSET (Recs \X Places)
        BY <1>0 DEF RowRec
      <4>2. index' = [IndexIdle EXCEPT !.pc = "each", !.todo = T]
        BY <3>1 DEF IndexList
      <4> HIDE DEF T
      <4> QED BY <1>2, <4>1, <4>2
    <3>2. CASE \E c \in index.todo : IndexRead(c)
      <4>1. PICK c \in index.todo : IndexRead(c)
        BY <3>2
      <4>2. PICK read \in {Reachable(c[2]) /\ c \in blob, FALSE} :
               index' = [index EXCEPT !.pc = "store", !.todo = @ \ {c}, !.rec = c[1], !.read = read]
        BY <4>1 DEF IndexRead
      <4>3. read \in BOOLEAN
        BY DEF Reachable
      <4>4. index.todo \ {c} \in SUBSET (Recs \X Places) /\ c \in Recs \X Places
        BY <1>0
      <4>5. c[1] \in Recs
        BY <4>4
      <4> QED BY <1>0, <4>2, <4>3, <4>4, <4>5
    <3>3. CASE IndexStore
      BY <1>0, <1>2, <3>3 DEF IndexStore
    <3>4. CASE IndexEnd
      BY <1>0, <1>2, <3>4 DEF IndexEnd
    <3> QED BY <1>8, <3>1, <3>2, <3>3, <3>4 DEF IndexNext
  <2> QED BY <1>0, <1>1, <2>1, <2>2, <2>3
<1>9. CASE Crash
  <2>1. stage' \in [Recs -> StageRec]
    BY <1>0, <1>9 DEF Crash
  <2>2. strays' \subseteq Recs \X Places
    BY <1>0, <1>1, <1>9 DEF Crash
  <2> QED BY <1>0, <1>2, <1>9, <2>1, <2>2 DEF Crash
<1> QED BY <1>4, <1>5, <1>6, <1>7, <1>8, <1>9 DEF RecNext

\* A step that changes at most what the index and the administrators keep.
LEMMA RecQuiet ==
    ASSUME RecIInv, RecTypes', stage' = stage, blob' = blob, strays' = strays, selected' = selected,
           sweep' = sweep, move' = move,
           \A r \in Recs : /\ row'[r].at = row[r].at /\ row'[r].there = row[r].there
                           /\ row'[r].finished = row[r].finished /\ row'[r].purged = row[r].purged
                           /\ row'[r].discarded = row[r].discarded
    PROVE  RecIInv'
<1>0. /\ sweep.todo \subseteq Recs \X Places /\ move.batch \subseteq Recs
      /\ sweep.pc \in {"mark", "forget"} => sweep.rec \in Recs
  BY DEF RecIInv, RecTypes, RecTypeOK
<1>1. KeptUntilDue'
  BY DEF RecIInv, KeptUntilDue, Kept
<1>2. RunKnows'
  BY DEF RecIInv, RunKnows
<1>3. SweepKnows'
  BY <1>0 DEF RecIInv, SweepKnows, Chosen
<1>4. MoveKnows'
  BY <1>0 DEF RecIInv, MoveKnows
<1>5. CopiesKnown'
  BY DEF RecIInv, CopiesKnown
<1> QED BY <1>1, <1>2, <1>3, <1>4, <1>5 DEF RecIInv

\* What the sweep knows stays known when nothing it chose is unfinished again or moved.
LEMMA SweepStays ==
  ASSUME SweepKnows, \A c \in selected : c \in selected', \A c : c \in blob' \ strays' => c \in blob \ strays,
         \A q \in Recs : row'[q].at = row[q].at /\ (row[q].finished => row'[q].finished),
         sweep'.todo = sweep.todo, sweep'.rec = sweep.rec, sweep'.at = sweep.at,
         sweep'.pc \in {"mark", "forget"} => sweep.pc \in {"mark", "forget"}, sweep'.pc = "mark" => sweep.pc = "mark"
  PROVE  SweepKnows'
<1>1. ASSUME NEW c, Chosen(c) PROVE Chosen(c)'
  <2>1. c \in Recs \X Places /\ c[1] \in Recs
    BY <1>1 DEF Chosen
  <2> QED BY <1>1, <2>1 DEF Chosen
<1>2. \A c \in sweep'.todo : Chosen(c)'
  BY <1>1 DEF SweepKnows
<1>3. sweep'.pc \in {"mark", "forget"} => Chosen(<<sweep.rec, sweep.at>>)'
  <2>1. sweep.pc \in {"mark", "forget"} => Chosen(<<sweep.rec, sweep.at>>)
    BY DEF SweepKnows
  <2> QED BY <1>1, <2>1
<1>4. sweep'.pc = "mark" => sweep.rec \in Recs
  BY DEF SweepKnows, Chosen
<1>5. sweep'.pc = "mark" /\ row'[sweep.rec].at = sweep.at => <<sweep.rec, sweep.at>> \notin blob' \ strays'
  BY <1>4 DEF SweepKnows
<1> QED BY <1>2, <1>3, <1>5 DEF SweepKnows

\* The session's run and the sweeper that finishes what it left.
LEMMA RunStep == ASSUME RecIInv, RecTypes', RunNext PROVE RecIInv'
<1> USE RecAssumption DEF Places
<1>0. /\ row \in [Recs -> RowRec] /\ stage \in [Recs -> [pc : {"none", "recording", "closed", "blank", "cleared", "died", "over"}, at : Places]]
      /\ sweep.todo \subseteq Recs \X Places /\ move.batch \subseteq Recs
      /\ sweep.pc \in {"mark", "forget"} => sweep.rec \in Recs
  BY DEF RecIInv, RecTypes, RecTypeOK, RowRec
<1>1. PICK r \in Recs : \/ Start(r) \/ CloseRecording(r) \/ FinishRecording(r) \/ DiscardDelete(r)
                        \/ DiscardRecording(r) \/ SweepFinish(r)
  BY DEF RunNext
<1>2. sweep' = sweep /\ move' = move /\ selected' = selected /\ strays' = strays
  BY <1>1 DEF Start, CloseRecording, FinishRecording, DiscardDelete, DiscardRecording, SweepFinish, runOnly
<1>3. /\ \A c \in sweep.todo : row[c[1]].finished
      /\ sweep.pc \in {"mark", "forget"} => row[sweep.rec].finished
      /\ \A q \in move.batch : row[q].finished
      /\ move.pc \in {"copy", "switch", "undo", "drop"} => move.rec \in Recs /\ row[move.rec].finished
  BY DEF RecIInv, SweepKnows, Chosen, MoveKnows
<1> DEFINE Alike(q) == /\ row'[q].at = row[q].at /\ row'[q].there = row[q].there
                      /\ row'[q].finished = row[q].finished /\ row'[q].purged = row[q].purged
                      /\ row'[q].discarded = row[q].discarded
<1>4. CASE Start(r)
  <2>1. /\ stage[r].pc = "none" /\ stage' = [stage EXCEPT ![r] = [pc |-> "recording", at |-> CreateAt]]
        /\ blob' = IF s3 = NoBucket THEN blob \cup {<<r, Local>>} ELSE blob
    BY <1>4 DEF Start
  <2>2. ~row[r].finished /\ \A p \in Places : <<r, p>> \notin blob
    BY <2>1 DEF RecIInv, RunKnows
  <2>3. /\ \A q \in Recs \ {r} : Alike(q)
        /\ row'[r].at = CreateAt /\ ~row'[r].finished /\ ~row'[r].purged
    BY <1>0, <1>4 DEF Start, NoRow, RowRec
  <2>4. CreateAt = Local \/ blob' = blob
    BY <2>1 DEF CreateAt
  <2>5. blob \subseteq blob' /\ blob' \subseteq blob \cup {<<r, CreateAt>>}
    BY <2>1 DEF CreateAt
  <2>6. /\ stage'[r].pc = "recording" /\ \A q \in Recs \ {r} : stage'[q] = stage[q]
    BY <1>0, <2>1
  <2> HIDE DEF Alike
  <2>7. KeptUntilDue'
    BY <1>2, <2>3, <2>5 DEF RecIInv, KeptUntilDue, Kept, Alike
  <2>8. RunKnows'
    BY <2>3, <2>5, <2>6 DEF RecIInv, RunKnows, Alike
  <2>9. SweepKnows'
    BY <1>0, <1>2, <1>3, <2>2, <2>3, <2>5 DEF RecIInv, SweepKnows, Chosen, Alike
  <2>10. MoveKnows'
    BY <1>0, <1>2, <1>3, <2>2, <2>3, <2>5 DEF RecIInv, MoveKnows, Alike
  <2>11. CopiesKnown'
    BY <1>2, <2>2, <2>3, <2>5 DEF RecIInv, CopiesKnown, Alike
  <2> QED BY <2>7, <2>8, <2>9, <2>10, <2>11 DEF RecIInv
<1>5. CASE CloseRecording(r)
  <2>1. /\ stage[r].pc = "recording" /\ row' = row
        /\ \/ blob' = blob \cup {<<r, row[r].at>>} /\ stage' = [stage EXCEPT ![r].pc = "closed"]
           \/ blob' = blob /\ stage' = [stage EXCEPT ![r].pc = "over"]
    BY <1>5 DEF CloseRecording
  <2>2. /\ stage'[r].pc \in {"closed", "over"} /\ \A q \in Recs \ {r} : stage'[q] = stage[q]
        /\ stage'[r].pc = "closed" => <<r, row[r].at>> \in blob'
        /\ blob \subseteq blob' /\ blob' \subseteq blob \cup {<<r, row[r].at>>}
    BY <1>0, <2>1
  <2>3. ~row[r].finished
    BY <2>1 DEF RecIInv, RunKnows
  <2>4. ~row[r].purged \/ row[r].discarded
    BY <2>3 DEF RecIInv, RunKnows
  <2>7. KeptUntilDue'
    BY <1>2, <2>1, <2>2 DEF RecIInv, KeptUntilDue, Kept
  <2>8. RunKnows'
    BY <2>1, <2>2, <2>3 DEF RecIInv, RunKnows
  <2>9. SweepKnows'
    BY <1>0, <1>2, <1>3, <2>1, <2>2, <2>3 DEF RecIInv, SweepKnows, Chosen
  <2>10. MoveKnows'
    BY <1>0, <1>2, <2>1, <2>2 DEF RecIInv, MoveKnows
  <2>11. CopiesKnown'
    BY <1>2, <2>1, <2>2, <2>4 DEF RecIInv, CopiesKnown
  <2> QED BY <2>7, <2>8, <2>9, <2>10, <2>11 DEF RecIInv
<1>6. CASE FinishRecording(r) \/ SweepFinish(r)
  <2>1. /\ stage[r].pc \in {"closed", "died", "over"} /\ blob' = blob /\ <<r, row[r].at>> \in blob
    BY <1>6 DEF FinishRecording, SweepFinish, RecIInv, RunKnows
  <2>2. /\ stage'[r].pc \in {"died", "over", "blank"} /\ (stage'[r].pc = "blank" => r \in Blank)
        /\ \A q \in Recs \ {r} : stage'[q] = stage[q]
    BY <1>0, <1>6 DEF FinishRecording, SweepFinish
  <2>3. /\ \A q \in Recs \ {r} : Alike(q)
        /\ row'[r].at = row[r].at /\ row'[r].there = row[r].there /\ row'[r].purged = row[r].purged
        /\ row'[r].discarded = row[r].discarded /\ (row[r].finished => row'[r].finished)
    <3>1. row' = row \/ row' = [row EXCEPT ![r].finished = TRUE, ![r].on = day]
      BY <1>6 DEF FinishRecording, SweepFinish
    <3> QED BY <1>0, <3>1 DEF RowRec
  <2>7. KeptUntilDue'
    BY <1>2, <2>1, <2>3 DEF RecIInv, KeptUntilDue, Kept
  <2>8. RunKnows'
    BY <2>1, <2>2, <2>3 DEF RecIInv, RunKnows
  <2>9. SweepKnows'
    <3>1. \A q \in Recs : row'[q].at = row[q].at /\ (row[q].finished => row'[q].finished)
      BY <2>3
    <3> QED BY <1>2, <2>1, <3>1, SweepStays DEF RecIInv
  <2>10. MoveKnows'
    BY <1>0, <1>2, <2>1, <2>3 DEF RecIInv, MoveKnows
  <2>11. CopiesKnown'
    BY <1>2, <2>1, <2>3 DEF RecIInv, CopiesKnown
  <2> QED BY <2>7, <2>8, <2>9, <2>10, <2>11 DEF RecIInv
<1>7. CASE DiscardDelete(r) \/ DiscardRecording(r)
  <2>1. /\ stage[r].pc \in {"blank", "cleared"} /\ r \in Blank
        /\ blob' \subseteq blob /\ blob \subseteq blob' \cup {<<r, stage[r].at>>}
    BY <1>7 DEF DiscardDelete, DiscardRecording, RecIInv, RunKnows
  <2>2. /\ stage'[r].pc \in {"cleared", "over"} /\ \A q \in Recs \ {r} : stage'[q] = stage[q]
    BY <1>0, <1>7 DEF DiscardDelete, DiscardRecording
  <2>3. /\ \A q \in Recs \ {r} : Alike(q)
        /\ row'[r].at = row[r].at /\ row'[r].there = row[r].there /\ row'[r].finished = row[r].finished
        /\ \/ row'[r].purged = row[r].purged /\ row'[r].discarded = row[r].discarded
           \/ row'[r].discarded
    <3>1. row' = row \/ row' = [row EXCEPT ![r].purged = TRUE, ![r].discarded = TRUE]
      BY <1>7 DEF DiscardDelete, DiscardRecording
    <3> QED BY <1>0, <3>1 DEF RowRec
  <2>7. KeptUntilDue'
    BY <1>2, <2>1, <2>3 DEF RecIInv, KeptUntilDue, Kept
  <2>8. RunKnows'
    BY <2>1, <2>2, <2>3 DEF RecIInv, RunKnows
  <2>9. SweepKnows'
    <3>1. \A q \in Recs : row'[q].at = row[q].at /\ (row[q].finished => row'[q].finished)
      BY <2>3
    <3> QED BY <1>2, <2>1, <3>1, SweepStays DEF RecIInv
  <2>10. MoveKnows'
    BY <1>0, <1>2, <2>1, <2>3 DEF RecIInv, MoveKnows
  <2>11. CopiesKnown'
    BY <1>2, <2>1, <2>3 DEF RecIInv, CopiesKnown
  <2> QED BY <2>7, <2>8, <2>9, <2>10, <2>11 DEF RecIInv
<1> QED BY <1>1, <1>4, <1>5, <1>6, <1>7

\* The sweep.
LEMMA SweepStep == ASSUME RecIInv, RecTypes', SweepNext PROVE RecIInv'
<1> USE RecAssumption DEF Places
<1>0. /\ row \in [Recs -> RowRec] /\ sweep.todo \subseteq Recs \X Places /\ move.batch \subseteq Recs
      /\ sweep \in [pc : {"idle", "each", "mark", "forget"}, todo : SUBSET (Recs \X Places), rec : Recs \cup {0}, at : Places]
      /\ sweep.pc \in {"mark", "forget"} => sweep.rec \in Recs
  BY DEF RecIInv, RecTypes, RecTypeOK, RowRec
<1>1. CASE (\E p \in [age : {0, 1}, cap : {0, 1}] : SetRetentionPolicy(p)) \/ DayPasses
  BY <1>1, RecQuiet DEF SetRetentionPolicy, DayPasses
<1>2. CASE SweepList
  <2>1. PICK due \in selectForPurge({r \in Recs : Kept(r)}) :
           /\ sweep' = [SweepIdle EXCEPT !.pc = "each", !.todo = {<<r, row[r].at>> : r \in due}]
           /\ selected' = selected \cup due
    BY <1>2 DEF SweepList
  <2>2. \A r \in due : r \in Recs /\ row[r].finished /\ row[r].at \in Places
    BY <1>0 DEF selectForPurge, Kept, RowRec
  <2>3. row' = row /\ blob' = blob /\ strays' = strays /\ stage' = stage /\ move' = move
    BY <1>2 DEF SweepList, sweepOnly
  <2>4. sweep'.pc = "each" /\ sweep'.todo = {<<r, row[r].at>> : r \in due}
    BY <2>1 DEF SweepIdle
  <2>5. KeptUntilDue'
    BY <2>1, <2>3 DEF RecIInv, KeptUntilDue, Kept
  <2>6. RunKnows' /\ CopiesKnown'
    BY <2>3 DEF RecIInv, RunKnows, CopiesKnown
  <2>7. SweepKnows'
    BY <2>1, <2>2, <2>3, <2>4 DEF SweepKnows, Chosen
  <2>8. MoveKnows'
    BY <2>1, <2>3 DEF RecIInv, MoveKnows
  <2> QED BY <2>5, <2>6, <2>7, <2>8 DEF RecIInv
<1>3. CASE \E c \in sweep.todo : SweepDelete(c)
  <2>1. PICK c \in sweep.todo : SweepDelete(c)
    BY <1>3
  <2>2. row' = row /\ stage' = stage /\ move' = move /\ selected' = selected
    BY <2>1 DEF SweepDelete, sweepOnly
  <2>3. Chosen(c)
    BY DEF RecIInv, SweepKnows
  <2>4. CASE blob' = blob /\ strays' = strays /\ sweep' = [sweep EXCEPT !.todo = @ \ {c}]
    <3>1. sweep'.pc = sweep.pc /\ sweep'.todo \subseteq sweep.todo /\ sweep'.rec = sweep.rec /\ sweep'.at = sweep.at
      BY <1>0, <2>4
    <3>2. KeptUntilDue' /\ RunKnows' /\ MoveKnows' /\ CopiesKnown'
      BY <2>2, <2>4 DEF RecIInv, KeptUntilDue, Kept, RunKnows, MoveKnows, CopiesKnown
    <3>3. SweepKnows'
      BY <2>2, <2>4, <3>1 DEF RecIInv, SweepKnows, Chosen
    <3> QED BY <3>2, <3>3 DEF RecIInv
  <2>5. CASE /\ blob' = blob \ {c} /\ strays' = strays \ {c}
             /\ sweep' = [sweep EXCEPT !.pc = "mark", !.todo = @ \ {c}, !.rec = c[1], !.at = c[2]]
    <3>1. sweep'.pc = "mark" /\ sweep'.todo \subseteq sweep.todo /\ sweep'.rec = c[1] /\ sweep'.at = c[2]
      BY <1>0, <2>5
    <3>2. c = <<c[1], c[2]>> /\ c[1] \in Recs /\ c[2] \in Places /\ c[1] \in selected /\ row[c[1]].finished
      BY <2>3 DEF Chosen
    <3>3. KeptUntilDue'
      BY <2>2, <2>5, <3>2 DEF RecIInv, KeptUntilDue, Kept
    <3>4. RunKnows'
      BY <2>2, <2>5, <3>2 DEF RecIInv, RunKnows
    <3>5. SweepKnows'
      BY <2>2, <2>3, <2>5, <3>1, <3>2 DEF RecIInv, SweepKnows, Chosen
    <3>6. MoveKnows'
      BY <2>2, <2>5, <3>2 DEF RecIInv, MoveKnows
    <3>7. CopiesKnown'
      BY <2>2, <2>5, <3>2 DEF RecIInv, CopiesKnown
    <3> QED BY <3>3, <3>4, <3>5, <3>6, <3>7 DEF RecIInv
  <2> QED BY <2>1, <2>4, <2>5 DEF SweepDelete
<1>4. CASE SweepMark
  <2>1. /\ sweep.pc = "mark" /\ sweep.rec \in Recs /\ Chosen(<<sweep.rec, sweep.at>>)
        /\ blob' = blob /\ strays' = strays /\ selected' = selected /\ stage' = stage /\ move' = move
    BY <1>0, <1>4 DEF SweepMark, sweepOnly, RecIInv, SweepKnows
  <2>2. sweep.rec \in selected /\ row[sweep.rec].finished
    BY <2>1 DEF Chosen
  <2>3. /\ \A q \in Recs : /\ row'[q].at = row[q].at /\ row'[q].there = row[q].there /\ row'[q].finished = row[q].finished
                           /\ row'[q].discarded = row[q].discarded
        /\ \A q \in Recs : row'[q].purged = row[q].purged \/ (row'[q].purged /\ q = sweep.rec /\ row[q].at = sweep.at)
    <3>1. row' = row \/ (row' = [row EXCEPT ![sweep.rec].purged = TRUE] /\ row[sweep.rec].at = sweep.at)
      BY <1>4 DEF SweepMark, markRecordingPurged
    <3> QED BY <1>0, <3>1 DEF RowRec
  <2>4. sweep'.pc \in {"forget", "each"} /\ sweep'.todo = sweep.todo /\ sweep'.rec = sweep.rec /\ sweep'.at = sweep.at
    BY <1>0, <1>4 DEF SweepMark
  <2>5. KeptUntilDue'
    BY <2>1, <2>2, <2>3 DEF RecIInv, KeptUntilDue, Kept
  <2>6. RunKnows'
    BY <2>1, <2>2, <2>3 DEF RecIInv, RunKnows
  <2>7. SweepKnows'
    <3>1. \A q \in Recs : row'[q].at = row[q].at /\ (row[q].finished => row'[q].finished)
      BY <2>3
    <3> QED BY <2>1, <2>4, <3>1, SweepStays DEF RecIInv
  <2>8. MoveKnows'
    BY <1>0, <2>1, <2>3 DEF RecIInv, MoveKnows
  <2>9. CopiesKnown'
    <3>1. row[sweep.rec].at = sweep.at => <<sweep.rec, sweep.at>> \notin blob \ strays
      BY <2>1 DEF RecIInv, SweepKnows
    <3> QED BY <2>1, <2>3, <3>1 DEF RecIInv, CopiesKnown
  <2> QED BY <2>5, <2>6, <2>7, <2>8, <2>9 DEF RecIInv
<1>5. CASE SweepForget \/ SweepEnd
  <2>1. blob' = blob /\ strays' = strays /\ selected' = selected /\ stage' = stage /\ move' = move
    BY <1>5 DEF SweepForget, SweepEnd, sweepOnly
  <2>2. \A q \in Recs : /\ row'[q].at = row[q].at /\ row'[q].there = row[q].there /\ row'[q].finished = row[q].finished
                        /\ row'[q].purged = row[q].purged /\ row'[q].discarded = row[q].discarded
    <3>1. row' = row \/ row' = [row EXCEPT ![sweep.rec].commands = FALSE]
      BY <1>5 DEF SweepForget, SweepEnd
    <3> QED BY <1>0, <3>1 DEF RowRec
  <2>3. sweep'.pc \in {"each", "idle"} /\ sweep'.todo \subseteq sweep.todo
    BY <1>0, <1>5 DEF SweepForget, SweepEnd, SweepIdle
  <2>4. KeptUntilDue' /\ RunKnows' /\ CopiesKnown'
    BY <2>1, <2>2 DEF RecIInv, KeptUntilDue, Kept, RunKnows, CopiesKnown
  <2>5. SweepKnows'
    BY <1>0, <2>1, <2>2, <2>3 DEF RecIInv, SweepKnows, Chosen
  <2>6. MoveKnows'
    BY <1>0, <2>1, <2>2 DEF RecIInv, MoveKnows
  <2> QED BY <2>4, <2>5, <2>6 DEF RecIInv
<1> QED BY <1>1, <1>2, <1>3, <1>4, <1>5 DEF SweepNext

\* The move.
LEMMA MoveStep == ASSUME RecIInv, RecTypes', MoveNext PROVE RecIInv'
<1> USE RecAssumption DEF Places, Local
<1>0. /\ row \in [Recs -> RowRec] /\ sweep.todo \subseteq Recs \X Places /\ move.batch \subseteq Recs
      /\ move \in [pc : {"idle", "list", "each", "copy", "switch", "drop", "undo"}, to : Buckets \cup {NoBucket},
                   batch : SUBSET Recs, after : Recs \cup {-1}, rec : Recs \cup {0}]
      /\ sweep.pc \in {"mark", "forget"} => sweep.rec \in Recs
      /\ s3 \in Buckets \cup {NoBucket}
  BY DEF RecIInv, RecTypes, RecTypeOK, RowRec
<1>1. stage' = stage /\ sweep' = sweep /\ selected' = selected
  BY DEF MoveNext, StartMove, MoveList, MoveOpen, MoveCopy, DigestDiffers, MoveSwitch, MoveUndo, MoveDrop, MoveBatchEnd, moveOnly
<1>2. ASSUME row' = row, blob' = blob, strays' = strays, MoveKnows', move.pc \notin {"switch", "undo", "drop"}
      PROVE  RecIInv'
  <2>1. KeptUntilDue' /\ RunKnows' /\ CopiesKnown'
    BY <1>1, <1>2 DEF RecIInv, KeptUntilDue, Kept, RunKnows, CopiesKnown
  <2>2. SweepKnows'
    BY <1>1, <1>2 DEF RecIInv, SweepKnows, Chosen
  <2> QED BY <1>2, <2>1, <2>2 DEF RecIInv
<1>3. CASE StartMove
  <2>1. /\ row' = row /\ blob' = blob /\ strays' = strays /\ move.pc = "idle" /\ s3 # NoBucket
        /\ move' = [MoveIdle EXCEPT !.pc = "list", !.to = s3]
    BY <1>3 DEF StartMove
  <2>2. MoveKnows'
    BY <1>0, <2>1 DEF MoveKnows, MoveIdle
  <2> QED BY <1>2, <2>1, <2>2
<1>4. CASE MoveList
  <2> DEFINE batch == {r \in Recs : Kept(r) /\ row[r].at = Local /\ r > move.after}
  <2>1. /\ row' = row /\ blob' = blob /\ strays' = strays /\ move.pc = "list"
        /\ move' = IF batch = {} THEN MoveIdle ELSE [move EXCEPT !.pc = "each", !.batch = batch]
    BY <1>4 DEF MoveList
  <2>2. \A r \in batch : row[r].finished /\ row[r].at = Local
    BY DEF Kept
  <2> HIDE DEF batch
  <2>3. \/ move'.pc = "idle" /\ move'.batch = {}
        \/ move'.pc = "each" /\ move'.batch = batch /\ move'.to = move.to
    BY <1>0, <2>1 DEF MoveIdle
  <2>4. MoveKnows'
    BY <2>1, <2>2, <2>3 DEF RecIInv, MoveKnows
  <2> QED BY <1>2, <2>1, <2>4
<1>5. CASE MoveOpen
  <2>1. PICK r \in move.batch : move' = [move EXCEPT !.batch = @ \ {r}, !.after = r, !.rec = r,
                                            !.pc = IF <<r, Local>> \in blob THEN "copy" ELSE "each"]
    BY <1>5 DEF MoveOpen
  <2>2. row' = row /\ blob' = blob /\ strays' = strays /\ move.pc = "each"
    BY <1>5 DEF MoveOpen
  <2>3. move'.pc \in {"copy", "each"} /\ move'.batch = move.batch \ {r} /\ move'.rec = r /\ move'.to = move.to
    BY <1>0, <2>1
  <2>4. MoveKnows'
    BY <1>0, <2>2, <2>3 DEF RecIInv, MoveKnows
  <2> QED BY <1>2, <2>2, <2>4
<1>6. CASE MoveCopy
  <2>1. /\ row' = row /\ strays' = strays /\ move.pc = "copy"
        /\ \/ blob' = blob \cup {<<move.rec, move.to>>} /\ move' = [move EXCEPT !.pc = "switch"]
           \/ blob' = blob /\ move' = [move EXCEPT !.pc = "each"]
    BY <1>6 DEF MoveCopy
  <2>2. move.rec \in Recs /\ move.to \in Buckets /\ row[move.rec].finished /\ row[move.rec].at = Local /\ move.to # Local
    BY <2>1 DEF RecIInv, MoveKnows
  <2>3. /\ move'.batch = move.batch /\ move'.rec = move.rec /\ move'.to = move.to
        /\ \/ blob' = blob \cup {<<move.rec, move.to>>} /\ move'.pc = "switch"
           \/ blob' = blob /\ move'.pc = "each"
    BY <1>0, <2>1
  <2>4. KeptUntilDue'
    BY <1>1, <2>1, <2>3 DEF RecIInv, KeptUntilDue, Kept
  <2>5. RunKnows'
    BY <1>1, <2>1, <2>2, <2>3 DEF RecIInv, RunKnows
  <2>6. SweepKnows'
    BY <1>1, <2>1, <2>2, <2>3 DEF RecIInv, SweepKnows, Chosen
  <2>7. MoveKnows'
    BY <1>1, <2>1, <2>2, <2>3 DEF RecIInv, MoveKnows
  <2>8. CopiesKnown'
    BY <1>1, <2>1, <2>2, <2>3 DEF RecIInv, CopiesKnown
  <2> QED BY <2>4, <2>5, <2>6, <2>7, <2>8 DEF RecIInv
<1>7. CASE DigestDiffers
  <2>1. /\ row' = row /\ strays' = strays /\ blob' = blob /\ move.pc = "switch"
        /\ move' = [move EXCEPT !.pc = "undo"]
    BY <1>7 DEF DigestDiffers
  <2>2. move'.pc = "undo" /\ move'.batch = move.batch /\ move'.rec = move.rec /\ move'.to = move.to
    BY <1>0, <2>1
  <2>3. KeptUntilDue' /\ RunKnows'
    BY <1>1, <2>1 DEF RecIInv, KeptUntilDue, Kept, RunKnows
  <2>4. SweepKnows'
    BY <1>1, <2>1 DEF RecIInv, SweepKnows, Chosen
  <2>5. MoveKnows' /\ CopiesKnown'
    BY <1>1, <2>1, <2>2 DEF RecIInv, MoveKnows, CopiesKnown
  <2> QED BY <2>3, <2>4, <2>5 DEF RecIInv
<1>8. CASE MoveSwitch
  <2>1. /\ strays' = strays /\ blob' = blob /\ move.pc = "switch"
        /\ \/ /\ row' = [row EXCEPT ![move.rec].at = move.to] /\ ~row[move.rec].purged
              /\ move' = [move EXCEPT !.pc = "drop"]
           \/ row' = row /\ move' = [move EXCEPT !.pc = "undo"]
    BY <1>8 DEF MoveSwitch, UpdateRecordingURI
  <2>2. /\ move.rec \in Recs \ move.batch /\ move.to \in Buckets /\ row[move.rec].finished
        /\ row[move.rec].at = Local /\ move.to # Local
        /\ <<move.rec, move.to>> \in blob \/ move.rec \in selected \cup Blank
    BY <2>1 DEF RecIInv, MoveKnows
  <2>3. /\ move'.batch = move.batch /\ move'.rec = move.rec /\ move'.to = move.to
        /\ \A q \in Recs : /\ row'[q].there = row[q].there /\ row'[q].finished = row[q].finished
                           /\ row'[q].purged = row[q].purged /\ row'[q].discarded = row[q].discarded
                           /\ q # move.rec => row'[q].at = row[q].at
        /\ \/ move'.pc = "drop" /\ row'[move.rec].at = move.to /\ ~row[move.rec].purged
           \/ move'.pc = "undo" /\ row'[move.rec].at = row[move.rec].at
    BY <1>0, <2>1, <2>2 DEF RowRec
  <2>4. KeptUntilDue'
    BY <1>1, <2>1, <2>2, <2>3 DEF RecIInv, KeptUntilDue, Kept
  <2>5. RunKnows'
    BY <1>1, <2>1, <2>2, <2>3 DEF RecIInv, RunKnows
  <2>6. SweepKnows'
    BY <1>0, <1>1, <2>1, <2>2, <2>3 DEF RecIInv, SweepKnows, Chosen
  <2>7. MoveKnows'
    BY <1>0, <1>1, <2>1, <2>2, <2>3 DEF RecIInv, MoveKnows
  <2>8. CopiesKnown'
    BY <1>1, <2>1, <2>2, <2>3 DEF RecIInv, CopiesKnown
  <2> QED BY <2>4, <2>5, <2>6, <2>7, <2>8 DEF RecIInv
<1>9. CASE MoveUndo \/ MoveDrop
  <2> DEFINE c == <<move.rec, IF move.pc = "drop" THEN Local ELSE move.to>>
  <2>1. /\ row' = row /\ move.pc \in {"undo", "drop"} /\ move' = [move EXCEPT !.pc = "each"]
        /\ \/ blob' = blob \ {c} /\ strays' = strays
           \/ blob' = blob /\ strays' = strays \cup ({c} \cap blob)
           \/ blob' = blob /\ strays' = strays \cup {c}
    BY <1>9 DEF MoveUndo, MoveDrop
  <2>2. /\ move.rec \in Recs /\ move.to \in Buckets /\ row[move.rec].finished
        /\ row[move.rec].at = (IF move.pc = "drop" THEN move.to ELSE Local) /\ move.to # Local
    BY <2>1 DEF RecIInv, MoveKnows
  <2>3. move'.pc = "each" /\ move'.batch = move.batch /\ move'.rec = move.rec /\ move'.to = move.to
    BY <1>0, <2>1
  <2>4. c # <<move.rec, row[move.rec].at>>
    BY <2>1, <2>2
  <2>5. KeptUntilDue'
    BY <1>1, <2>1, <2>2, <2>4 DEF RecIInv, KeptUntilDue, Kept
  <2>6. RunKnows'
    BY <1>1, <2>1, <2>2 DEF RecIInv, RunKnows
  <2>7. SweepKnows'
    BY <1>1, <2>1, <2>2 DEF RecIInv, SweepKnows, Chosen
  <2>8. MoveKnows'
    BY <1>1, <2>1, <2>3 DEF RecIInv, MoveKnows
  <2>9. CopiesKnown'
    BY <1>1, <2>1, <2>2, <2>3 DEF RecIInv, CopiesKnown
  <2> QED BY <2>5, <2>6, <2>7, <2>8, <2>9 DEF RecIInv
<1>10. CASE MoveBatchEnd
  <2>1. /\ row' = row /\ strays' = strays /\ blob' = blob /\ move.pc = "each"
        /\ move' = [move EXCEPT !.pc = "list"]
    BY <1>10 DEF MoveBatchEnd
  <2>2. move'.pc = "list" /\ move'.batch = move.batch /\ move'.to = move.to
    BY <1>0, <2>1
  <2>3. MoveKnows'
    BY <2>1, <2>2 DEF RecIInv, MoveKnows
  <2> QED BY <1>2, <2>1, <2>3
<1> QED BY <1>3, <1>4, <1>5, <1>6, <1>7, <1>8, <1>9, <1>10 DEF MoveNext

\* A crash loses what was only in the process.
LEMMA CrashStep == ASSUME RecIInv, RecTypes', Crash PROVE RecIInv'
<1> USE RecAssumption DEF Places
<1>0. stage \in [Recs -> [pc : {"none", "recording", "closed", "blank", "cleared", "died", "over"}, at : Places]]
  BY DEF RecIInv, RecTypes, RecTypeOK
<1>1. /\ row' = row /\ blob' = blob /\ selected' = selected /\ sweep' = SweepIdle /\ move' = MoveIdle
      /\ strays' = strays \cup (IF move.pc \in {"switch", "undo"} THEN {<<move.rec, move.to>>}
                                ELSE IF move.pc = "drop" THEN {<<move.rec, Local>>} \cap blob ELSE {})
  BY DEF Crash
<1>2. \A r \in Recs : stage'[r].pc \in {"died", "over"} \/ (stage'[r].pc = "none" /\ stage[r].pc = "none")
  BY <1>0 DEF Crash
<1>3. KeptUntilDue'
  BY <1>1 DEF RecIInv, KeptUntilDue, Kept
<1>4. RunKnows'
  BY <1>1, <1>2 DEF RecIInv, RunKnows
<1>5. SweepKnows' /\ MoveKnows'
  BY <1>1 DEF SweepKnows, MoveKnows, SweepIdle, MoveIdle
<1>6. CopiesKnown'
  BY <1>1 DEF RecIInv, CopiesKnown, MoveIdle
<1> QED BY <1>3, <1>4, <1>5, <1>6 DEF RecIInv

\* Every step of a recording keeps the invariant.
LEMMA RecNextIInv == RecIInv /\ [RecNext]_recVars => RecIInv'
<1> SUFFICES ASSUME RecIInv, [RecNext]_recVars PROVE RecIInv'
  OBVIOUS
<1>1. CASE UNCHANGED recVars
  <2>1. RecTypes'
    BY <1>1 DEF recVars, RecIInv, RecTypes, RecTypeOK
  <2> QED BY <1>1, <2>1, RecQuiet DEF recVars
<1>2. CASE RecNext
  <2>0. RecTypes'
    BY <1>2, RecTypesStep
  <2>1. CASE BackendNext
    BY <2>0, <2>1, RecQuiet DEF BackendNext, ApplyProbe, ApplyPut, ApplySet, ResetDelete, ResetSet, changeOnly
  <2>2. CASE IndexNext
    <3>1. /\ stage' = stage /\ blob' = blob /\ sweep' = sweep /\ move' = move /\ selected' = selected /\ strays' = strays
          /\ row' = row \/ row' = [row EXCEPT ![index.rec].indexed = TRUE, ![index.rec].commands = index.read]
      BY <2>2 DEF IndexNext, IndexList, IndexRead, IndexStore, IndexEnd, indexOnly
    <3>2. row \in [Recs -> RowRec]
      BY DEF RecIInv, RecTypes, RecTypeOK, RowRec
    <3>3. \A r \in Recs : /\ row'[r].at = row[r].at /\ row'[r].there = row[r].there
                          /\ row'[r].finished = row[r].finished /\ row'[r].purged = row[r].purged
                          /\ row'[r].discarded = row[r].discarded
      BY <3>1, <3>2 DEF RowRec
    <3> QED BY <2>0, <3>1, <3>3, RecQuiet
  <2> QED BY <1>2, <2>0, <2>1, <2>2, RunStep, SweepStep, MoveStep, CrashStep DEF RecNext
<1> QED BY <1>1, <1>2

\* Whatever runs, sweeps, moves and changes of bucket do at once, and wherever the
\* process dies (retention.go, recstorage.go): a finished recording no sweep chose
\* has its file where its row says, and a purged one has none.
THEOREM RecordingsStayKept == RecSpec => []RecordingsKept
<1>1. RecIInv => RecordingsKept
  <2> SUFFICES ASSUME RecIInv PROVE PurgedLeavesNothing
    BY DEF RecIInv, RecTypes, RecordingsKept
  <2> QED BY DEF RecIInv, CopiesKnown, PurgedLeavesNothing
<1> QED BY <1>1, RecInitIInv, RecNextIInv, PTL DEF RecSpec

-----------------------------------------------------------------------------
(* ConfigImport.  Where an import is, and what it has brought in so far.   *)

Active == {"run", "members", "groups2", "targets2", "policies2", "resolve", "store"}
Changes == [action : {"create", "update", "unchanged"}, applied : BOOLEAN, error : BOOLEAN]

\* The import, written out, and where a step leaves it.
ImportRec(p, f, s, a, c, b) == [pc |-> p, file |-> f, seen |-> s, at |-> a, changes |-> c, body |-> b]
IsImport(r) == \E p, f, s, a, c, b : r = ImportRec(p, f, s, a, c, b)
Leaves(w, p, f, s, a, c, b) == IsImport(w) /\ w.pc = p /\ w.file = f /\ w.seen = s /\ w.at = a /\ w.changes = c /\ w.body = b

\* An item behind the import was brought in or needs nothing, one ahead of it is untouched,
\* and from the second reading on only policies are left.
Placed(i) ==
    /\ Item(i).name # NoName /\ ~Twice(import.file, Item(i))
    /\ ~import.changes[i].error
    /\ i < import.at => import.changes[i].applied \/ import.changes[i].action = "unchanged"
    /\ i > import.at => ~import.changes[i].applied
    /\ i = import.at => (import.changes[i].applied <=> import.pc = "members")
    /\ import.pc \notin {"run", "members"} /\ i >= import.at => Item(i).kind = "policy"

\* What the import holds at each of its points.
ImportShape ==
    /\ IsImport(import)
    /\ import.at \in Nat \ {0} /\ (import.pc \in {"groups", "targets", "policies", "plan"} => import.at = 1)
    /\ import.pc # "idle" => import.file \in Documents
    /\ import.pc \in Active \cup {"planned", "done", "failed"} => import.changes \in [DOMAIN Items(import.file) -> Changes]
    /\ import.pc \in Active => \A i \in DOMAIN Items(import.file) : Placed(i)
    /\ import.pc = "members" => import.at \in DOMAIN Items(import.file) /\ Item(import.at).kind = "group"
    /\ import.pc = "store" =>
         /\ import.at \in DOMAIN Items(import.file) /\ ~Unknown(import.seen, Item(import.at))
         /\ import.changes[import.at].action # "unchanged"
         /\ import.body = {BodyOf(import.seen, Item(import.at))}
         /\ BodyOf(import.seen, Item(import.at)).id \in 0 .. issued
    /\ import.pc = "done" =>
         \A i \in DOMAIN import.changes : import.changes[i].applied \/ import.changes[i].action = "unchanged"

\* Another administrator's write is of a policy the tables had.
DeskShape ==
    /\ desk = [pc |-> desk.pc, row |-> desk.row]
    /\ \A p \in desk.row : IsRow(p) /\ p.kind = "policy" /\ p.id \in 1 .. issued

\* Every row is still there under its id and its name.
Grown(s, t) == \A r \in s : \E q \in t : q.kind = r.kind /\ q.id = r.id /\ q.name = r.name

\* The names a policy of the file goes by are names.
Firm(d) == d.kind = "policy" => \A n \in ToSet(d.subjects) \cup ToSet(d.targets) : n # NoName

\* What an import's readings know, while nobody else changes a row.
ReadingsKnow ==
    /\ import.pc = "groups" => import.seen = {}
    /\ import.pc = "targets" => import.seen = OfKind(before, "group")
    /\ import.pc = "policies" => import.seen = OfKind(before, "group") \cup OfKind(before, "target")
    /\ import.pc \in {"plan", "run", "members", "groups2"} => import.seen = before
    /\ import.pc \in {"targets2", "policies2", "resolve", "store"} =>
         OfKind(import.seen, "group") = OfKind(rows, "group") /\ OfKind(import.seen, "policy") = OfKind(before, "policy")
    /\ import.pc \in {"policies2", "resolve", "store"} => OfKind(import.seen, "target") = OfKind(rows, "target")
    /\ import.pc \in Active \ {"resolve", "store"} => OfKind(rows, "policy") = OfKind(before, "policy")
    /\ import.pc \in {"groups", "targets", "policies", "plan", "unread", "planned"} => rows = before

\* What became of an item of the file.
ItemTold(i) ==
    LET d == Item(i)
        c == import.changes[i]
    IN
    /\ ~c.applied => Named(rows, d.kind, d.name) = Named(before, d.kind, d.name)
    /\ c.applied /\ ~c.error /\ ~(import.pc = "members" /\ i = import.at) =>
         \E r \in Named(rows, d.kind, d.name) : Same(rows, r, d)
    /\ c.action = "unchanged" => ~c.applied /\ \E r \in Named(before, d.kind, d.name) : Same(before, r, d)
    /\ c.action = "update" => Named(before, d.kind, d.name) # {}

\* What can be told of an import nobody has interfered with so far.
Told ==
    (quiet /\ import.pc # "idle") =>
        /\ Grown(before, rows) /\ ReadingsKnow
        /\ import.pc \in Active \cup {"done", "failed"} =>
             \A i \in DOMAIN Items(import.file) : Firm(Item(i)) /\ ItemTold(i)
        /\ import.pc = "members" =>
             \E r \in Named(rows, "group", Item(import.at).name) :
                 r.text = Item(import.at).text /\ r.id = IdOf(before, "group", r.name)

\* The inductive invariant of the import.
ImportIInv == ImportTypeOK /\ ImportShape /\ DeskShape /\ IsStore(before, issued) /\ Told

\* The record that is built is where the step leaves the import.
LEMMA RecIs == ASSUME NEW p, NEW f, NEW s, NEW a, NEW c, NEW b PROVE Leaves(ImportRec(p, f, s, a, c, b), p, f, s, a, c, b)
<1>1. IsImport(ImportRec(p, f, s, a, c, b))
  BY DEF IsImport
<1> QED BY <1>1 DEF Leaves, ImportRec

\* What the EXCEPTs of the actions leave of an import.
LEMMA ImportSet ==
  ASSUME NEW r, IsImport(r)
  PROVE  \A p, s, a, c, b :
      /\ Leaves([r EXCEPT !.pc = p], p, r.file, r.seen, r.at, r.changes, r.body)
      /\ Leaves([r EXCEPT !.at = a], r.pc, r.file, r.seen, a, r.changes, r.body)
      /\ Leaves([r EXCEPT !.seen = s, !.pc = p], p, r.file, s, r.at, r.changes, r.body)
      /\ Leaves([r EXCEPT !.pc = p, !.changes = c], p, r.file, r.seen, r.at, c, r.body)
      /\ Leaves([r EXCEPT !.changes = c, !.pc = p], p, r.file, r.seen, r.at, c, r.body)
      /\ Leaves([r EXCEPT !.body = b, !.pc = p], p, r.file, r.seen, r.at, r.changes, b)
      /\ Leaves([r EXCEPT !.changes = c, !.pc = p, !.at = a], p, r.file, r.seen, a, c, r.body)
      /\ Leaves([r EXCEPT !.body = b], r.pc, r.file, r.seen, r.at, r.changes, b)
<1> TAKE p, s, a, c, b
<1>1. PICK p0, f0, s0, a0, c0, b0 : r = ImportRec(p0, f0, s0, a0, c0, b0)
  BY DEF IsImport
<1>2. r.pc = p0 /\ r.file = f0 /\ r.seen = s0 /\ r.at = a0 /\ r.changes = c0 /\ r.body = b0
  BY <1>1 DEF ImportRec
<1>3. /\ [r EXCEPT !.pc = p] = ImportRec(p, f0, s0, a0, c0, b0)
      /\ [r EXCEPT !.at = a] = ImportRec(p0, f0, s0, a, c0, b0)
      /\ [r EXCEPT !.body = b] = ImportRec(p0, f0, s0, a0, c0, b)
  BY <1>1 DEF ImportRec
<1>4. [r EXCEPT !.seen = s, !.pc = p] = ImportRec(p, f0, s, a0, c0, b0)
  <2>1. [r EXCEPT !.seen = s, !.pc = p] = [[r EXCEPT !.seen = s] EXCEPT !.pc = p]
    OBVIOUS
  <2>2. [r EXCEPT !.seen = s] = ImportRec(p0, f0, s, a0, c0, b0) /\ [ImportRec(p0, f0, s, a0, c0, b0) EXCEPT !.pc = p] = ImportRec(p, f0, s, a0, c0, b0)
    BY <1>1 DEF ImportRec
  <2> QED BY <2>1, <2>2, Zenon
<1>5. /\ [r EXCEPT !.pc = p, !.changes = c] = ImportRec(p, f0, s0, a0, c, b0)
      /\ [r EXCEPT !.changes = c, !.pc = p] = ImportRec(p, f0, s0, a0, c, b0)
  <2>1. /\ [r EXCEPT !.pc = p, !.changes = c] = [[r EXCEPT !.pc = p] EXCEPT !.changes = c]
        /\ [r EXCEPT !.changes = c, !.pc = p] = [[r EXCEPT !.changes = c] EXCEPT !.pc = p]
    OBVIOUS
  <2>2. /\ [r EXCEPT !.changes = c] = ImportRec(p0, f0, s0, a0, c, b0)
        /\ [ImportRec(p0, f0, s0, a0, c, b0) EXCEPT !.pc = p] = ImportRec(p, f0, s0, a0, c, b0)
        /\ [ImportRec(p, f0, s0, a0, c0, b0) EXCEPT !.changes = c] = ImportRec(p, f0, s0, a0, c, b0)
    BY <1>1 DEF ImportRec
  <2> QED BY <1>3, <2>1, <2>2, Zenon
<1>6. [r EXCEPT !.body = b, !.pc = p] = ImportRec(p, f0, s0, a0, c0, b)
  <2>1. [r EXCEPT !.body = b, !.pc = p] = [[r EXCEPT !.body = b] EXCEPT !.pc = p]
    OBVIOUS
  <2>2. [ImportRec(p0, f0, s0, a0, c0, b) EXCEPT !.pc = p] = ImportRec(p, f0, s0, a0, c0, b)
    BY <1>1 DEF ImportRec
  <2> QED BY <1>3, <2>1, <2>2, Zenon
<1>7. [r EXCEPT !.changes = c, !.pc = p, !.at = a] = ImportRec(p, f0, s0, a, c, b0)
  <2>1. [r EXCEPT !.changes = c, !.pc = p, !.at = a] = [[r EXCEPT !.changes = c, !.pc = p] EXCEPT !.at = a]
    OBVIOUS
  <2>2. [ImportRec(p, f0, s0, a0, c, b0) EXCEPT !.at = a] = ImportRec(p, f0, s0, a, c, b0)
    BY DEF ImportRec
  <2> QED BY <1>5, <2>1, <2>2, Zenon
<1>8. \A u, v, w, x, y, z : Leaves(ImportRec(u, v, w, x, y, z), u, v, w, x, y, z)
  BY RecIs
<1>9. /\ Leaves([r EXCEPT !.pc = p], p, r.file, r.seen, r.at, r.changes, r.body)
      /\ Leaves([r EXCEPT !.at = a], r.pc, r.file, r.seen, a, r.changes, r.body)
      /\ Leaves([r EXCEPT !.body = b], r.pc, r.file, r.seen, r.at, r.changes, b)
  BY <1>2, <1>3, <1>8
<1>10. /\ Leaves([r EXCEPT !.seen = s, !.pc = p], p, r.file, s, r.at, r.changes, r.body)
       /\ Leaves([r EXCEPT !.body = b, !.pc = p], p, r.file, r.seen, r.at, r.changes, b)
  BY <1>2, <1>4, <1>6, <1>8
<1>11. /\ Leaves([r EXCEPT !.pc = p, !.changes = c], p, r.file, r.seen, r.at, c, r.body)
       /\ Leaves([r EXCEPT !.changes = c, !.pc = p], p, r.file, r.seen, r.at, c, r.body)
  BY <1>2, <1>5, <1>8
<1>12. Leaves([r EXCEPT !.changes = c, !.pc = p, !.at = a], p, r.file, r.seen, a, c, r.body)
  BY <1>2, <1>7, <1>8
<1> QED BY <1>9, <1>10, <1>11, <1>12

\* The items of a document are those of its lists.
LEMMA ItemsTyped ==
  ASSUME NEW f \in Documents
  PROVE  /\ Items(f) \in Seq(Entries)
         /\ DOMAIN Items(f) = 1 .. Len(Items(f))
         /\ \A i \in DOMAIN Items(f) :
              /\ Items(f)[i].kind \in RowKinds
              /\ Items(f)[i].kind = "policy" => Items(f)[i].subjects \in Seq(STRING) /\ Items(f)[i].targets \in Seq(STRING)
         /\ \A d \in ToSet(f.groups \o f.targets) : \E i \in DOMAIN Items(f) : Items(f)[i] = d
<1> DEFINE a == f.groups
           b == f.targets
           c == f.policies
<1>1. a \in Seq(Entries) /\ b \in Seq(Entries) /\ c \in Seq(Entries)
  BY ImportAssumption DEF IsDocument
<1>2. /\ \A i \in DOMAIN a : a[i].kind = "group"
      /\ \A i \in DOMAIN b : b[i].kind = "target"
      /\ \A i \in DOMAIN c : c[i].kind = "policy" /\ c[i].subjects \in Seq(STRING) /\ c[i].targets \in Seq(STRING)
  BY ImportAssumption DEF IsDocument, ToSet
<1> HIDE DEF a, b, c
<1>3. /\ (a \o b) \in Seq(Entries) /\ ((a \o b) \o c) \in Seq(Entries)
      /\ Len(a \o b) = Len(a) + Len(b) /\ Len((a \o b) \o c) = Len(a) + Len(b) + Len(c)
      /\ Len(a) \in Nat /\ Len(b) \in Nat /\ Len(c) \in Nat
  BY <1>1
<1>4. Items(f) = (a \o b) \o c
  BY DEF Items, a, b, c
<1>5. \A i \in 1 .. Len(a) + Len(b) : ((a \o b) \o c)[i] = (a \o b)[i]
  BY <1>1, <1>3
<1>6. \A i \in 1 .. Len(a) + Len(b) + Len(c) :
        \/ i \in 1 .. Len(a) /\ ((a \o b) \o c)[i] = a[i]
        \/ i - Len(a) \in 1 .. Len(b) /\ ((a \o b) \o c)[i] = b[i - Len(a)]
        \/ i - Len(a) - Len(b) \in 1 .. Len(c) /\ ((a \o b) \o c)[i] = c[i - Len(a) - Len(b)]
  BY <1>1, <1>3
<1>7. DOMAIN a = 1 .. Len(a) /\ DOMAIN b = 1 .. Len(b) /\ DOMAIN c = 1 .. Len(c)
      /\ DOMAIN (a \o b) = 1 .. Len(a) + Len(b) /\ DOMAIN ((a \o b) \o c) = 1 .. Len(a) + Len(b) + Len(c)
  BY <1>1, <1>3
<1>8. ASSUME NEW i \in DOMAIN Items(f)
      PROVE  /\ Items(f)[i].kind \in RowKinds
             /\ Items(f)[i].kind = "policy" => Items(f)[i].subjects \in Seq(STRING) /\ Items(f)[i].targets \in Seq(STRING)
  BY <1>2, <1>4, <1>6, <1>7 DEF RowKinds
<1>9. ASSUME NEW d \in ToSet(f.groups \o f.targets) PROVE \E i \in DOMAIN Items(f) : Items(f)[i] = d
  <2>1. PICK i \in DOMAIN (a \o b) : d = (a \o b)[i]
    BY DEF ToSet, a, b
  <2>2. i \in DOMAIN Items(f)
    BY <1>3, <1>4, <1>7, <2>1
  <2> QED BY <1>4, <1>5, <1>7, <2>1, <2>2
<1> QED BY <1>3, <1>4, <1>7, <1>8, <1>9

\* No other item of a file without doubles has an item's name.
LEMMA OtherNames ==
  ASSUME NEW f, NEW i \in DOMAIN Items(f), NEW j \in DOMAIN Items(f), i # j, ~Twice(f, Items(f)[i])
  PROVE  Items(f)[i].kind # Items(f)[j].kind \/ Items(f)[i].name # Items(f)[j].name
BY DEF Twice

\* A name looked up in the tables is still found once they have grown.
LEMMA NamesStay ==
  ASSUME NEW A, NEW C, NEW m, NEW n, IsStore(A, m), IsStore(C, n), Grown(A, C), NEW i, NameOf(A, i) # NoName
  PROVE  NameOf(C, i) = NameOf(A, i)
<1>1. \E r \in A : r.id = i
  BY DEF NameOf
<1>2. PICK r \in A : r.id = i /\ NameOf(A, i) = r.name
  BY <1>1 DEF NameOf
<1>3. PICK q \in C : q.id = i /\ q.name = r.name
  BY <1>2 DEF Grown
<1>4. (CHOOSE x \in C : x.id = i) = q
  BY <1>3 DEF IsStore
<1> QED BY <1>2, <1>3, <1>4 DEF NameOf

\* A row with an id is the one the id is looked up as.
LEMMA NameFound ==
  ASSUME NEW A, NEW n, IsStore(A, n), NEW r \in A
  PROVE  NameOf(A, r.id) = r.name
<1>1. (CHOOSE x \in A : x.id = r.id) = r
  BY DEF IsStore
<1> QED BY <1>1 DEF NameOf

\* The id of a name looked up is the id of the row with that name.
LEMMA IdFound ==
  ASSUME NEW A, NEW n, IsStore(A, n), NEW k, NEW x, NEW r \in Named(A, k, x)
  PROVE  IdOf(A, k, x) = r.id /\ Named(A, k, x) = {r}
<1>1. Named(A, k, x) = {r}
  BY DEF IsStore, Named
<1> QED BY <1>1 DEF IdOf

\* What an entry says a row is, it is once the tables have grown.
LEMMA SameStays ==
  ASSUME NEW A, NEW C, NEW m, NEW n, IsStore(A, m), IsStore(C, n), Grown(A, C),
         NEW r, NEW d, r.kind = d.kind, Firm(d), d.kind = "policy" => d.targets \in Seq(STRING), Same(A, r, d)
  PROVE  Same(C, r, d)
<1>1. CASE r.kind # "policy"
  BY <1>1 DEF Same
<1>2. CASE r.kind = "policy"
  <2>1. ASSUME NEW i \in r.subjects PROVE NameOf(C, i) = NameOf(A, i)
    <3>1. NameOf(A, i) \in ToSet(d.subjects)
      BY <1>2 DEF Same
    <3>2. NameOf(A, i) # NoName
      BY <1>2, <3>1 DEF Firm
    <3> QED BY <3>2, NamesStay
  <2>2. ASSUME NEW i \in 1 .. Len(d.targets) PROVE NameOf(C, r.targets[i]) = NameOf(A, r.targets[i])
    <3>1. NameOf(A, r.targets[i]) = d.targets[i]
      BY <1>2 DEF Same
    <3>2. d.targets[i] \in ToSet(d.targets)
      BY <1>2 DEF ToSet
    <3>3. NameOf(A, r.targets[i]) # NoName
      BY <1>2, <3>1, <3>2 DEF Firm
    <3> QED BY <3>3, NamesStay
  <2>3. {NameOf(C, i) : i \in r.subjects} = {NameOf(A, i) : i \in r.subjects}
    BY <2>1
  <2> QED BY <1>2, <2>2, <2>3 DEF Same
<1> QED BY <1>1, <1>2

\* The tables differ by one row and keep the rest, rows' ids and names too.
Changed(A, C, rec) ==
    /\ rec \in C /\ Grown(A, C)
    /\ \A k, n : (k # rec.kind \/ n # rec.name) => Named(C, k, n) = Named(A, k, n)

\* A new row under a new id and a free name.
LEMMA StoreAdd ==
  ASSUME NEW A, NEW n \in Nat, NEW m \in Nat, m >= n, IsStore(A, n), NEW rec, IsRow(rec), rec.id \in n + 1 .. m,
         Named(A, rec.kind, rec.name) = {}
  PROVE  IsStore(A \cup {rec}, m) /\ Changed(A, A \cup {rec}, rec)
<1>1. \A r \in A : IsRow(r) /\ r.id \in 1 .. n
  BY DEF IsStore
<1>2. \A r \in A : r.id # rec.id /\ (r.kind # rec.kind \/ r.name # rec.name)
  BY <1>1 DEF Named
<1>3. \A r \in A \cup {rec} : IsRow(r) /\ r.id \in 1 .. m
  BY <1>1
<1>4. IsStore(A \cup {rec}, m)
  BY <1>2, <1>3 DEF IsStore
<1>5. Grown(A, A \cup {rec})
  BY DEF Grown
<1>6. Changed(A, A \cup {rec}, rec)
  BY <1>5 DEF Changed, Named
<1> QED BY <1>4, <1>6

\* A row rewritten under its id.
LEMMA StoreSwap ==
  ASSUME NEW A, NEW n \in Nat, NEW m \in Nat, m >= n, IsStore(A, n), NEW old \in A, NEW rec, IsRow(rec), rec.id = old.id,
         rec.kind = old.kind, Named(A, rec.kind, rec.name) \subseteq {old}
  PROVE  IsStore((A \ {old}) \cup {rec}, m) /\ (rec.name = old.name => Changed(A, (A \ {old}) \cup {rec}, rec))
<1> DEFINE C == (A \ {old}) \cup {rec}
<1>1. \A r \in A : IsRow(r) /\ r.id \in 1 .. n
  BY DEF IsStore
<1>2. \A r \in A \ {old} : r.id # rec.id /\ (r.kind # rec.kind \/ r.name # rec.name)
  BY DEF IsStore, Named
<1>3. \A r \in C : IsRow(r) /\ r.id \in 1 .. m
  BY <1>1
<1>4. IsStore(C, m)
  BY <1>2, <1>3 DEF IsStore
<1>5. ASSUME rec.name = old.name PROVE Changed(A, C, rec)
  <2>1. Grown(A, C)
    BY <1>5 DEF Grown
  <2>2. \A k, x : (k # rec.kind \/ x # rec.name) => Named(C, k, x) = Named(A, k, x)
    BY <1>5 DEF Named
  <2> QED BY <2>1, <2>2 DEF Changed
<1> QED BY <1>4, <1>5

\* Tables that grew twice have grown.
LEMMA GrownOn == ASSUME NEW A, NEW C, NEW D, Grown(A, C), Grown(C, D) PROVE Grown(A, D)
BY DEF Grown

\* Tables stay sound as more ids are issued.
LEMMA StoreLater == ASSUME NEW A, NEW n \in Nat, NEW m \in Nat, m >= n, IsStore(A, n) PROVE IsStore(A, m)
BY DEF IsStore

\* A row of the policies, written out.
PolicyRow(i, n, t, s, g, z) ==
    [kind |-> "policy", id |-> i, name |-> n, text |-> t, subjects |-> s, grant |-> g, targets |-> z]
IsPolicy(p) == \E i, n, t, s, g, z : p = PolicyRow(i, n, t, s, g, z) /\ n # NoName

\* A policy of the tables has the fields of one.
LEMMA PolicyRows ==
  ASSUME NEW r PROVE (IsRow(r) /\ r.kind = "policy") <=> IsPolicy(r)
<1>1. ASSUME IsRow(r), r.kind = "policy" PROVE IsPolicy(r)
  <2>1. r = PolicyRow(r.id, r.name, r.text, r.subjects, r.grant, r.targets) /\ r.name # NoName
    BY <1>1, Zenon DEF IsRow, PolicyRow
  <2> QED BY <2>1 DEF IsPolicy
<1>2. ASSUME IsPolicy(r) PROVE IsRow(r) /\ r.kind = "policy"
  <2>1. PICK i, n, t, s, g, z : r = PolicyRow(i, n, t, s, g, z) /\ n # NoName
    BY <1>2, Zenon DEF IsPolicy
  <2> QED BY <2>1 DEF IsRow, RowKinds, PolicyRow
<1> QED BY <1>1, <1>2, Zenon

\* A policy stored: a new row, or the row of its id rewritten; nothing else changes.
LEMMA PolicyStored ==
  ASSUME issued \in 0 .. MaxId, IsStore(rows, issued), NEW p, IsPolicy(p), p.id \in 0 .. issued, Stands(p), StorePolicy(p)
  PROVE  /\ issued' \in 0 .. MaxId /\ issued' >= issued /\ IsStore(rows', issued')
         /\ \E rec \in rows' :
              /\ rec.kind = "policy" /\ rec.name = p.name /\ rec.text = p.text
              /\ rec.subjects = p.subjects /\ rec.targets = p.targets
              /\ (\A b \in OfKind(rows, "policy") : b.id = p.id => b.name = p.name) => Changed(rows, rows', rec)
<1> PICK pid, n, t, s, g, z : p = PolicyRow(pid, n, t, s, g, z) /\ n # NoName
  BY Zenon DEF IsPolicy
<1> DEFINE ids == issued + (IF pid = 0 THEN 1 ELSE 0)
           rid == IF pid = 0 THEN ids ELSE pid
           rec == PolicyRow(rid, n, t, s, IF g = 0 THEN ids + 1 ELSE g, z)
<1>a. p.id = pid /\ p.name = n /\ p.text = t /\ p.subjects = s /\ p.grant = g /\ p.targets = z /\ p.kind = "policy"
  BY DEF PolicyRow
<1>0. issued \in Nat /\ MaxId \in Nat /\ pid \in 0 .. issued
  BY <1>a, ImportAssumption
<1>1. [p EXCEPT !.id = IF @ = 0 THEN ids ELSE @, !.grant = IF @ = 0 THEN ids + 1 ELSE @] = rec
  <2>1. \A x, y : [p EXCEPT !.id = x, !.grant = y] = [[p EXCEPT !.id = x] EXCEPT !.grant = y]
    OBVIOUS
  <2>2. \A x, y : [p EXCEPT !.id = x] = PolicyRow(x, n, t, s, g, z)
                  /\ [PolicyRow(x, n, t, s, g, z) EXCEPT !.grant = y] = PolicyRow(x, n, t, s, y, z)
    BY DEF PolicyRow
  <2>3. \A x, y : [p EXCEPT !.id = x, !.grant = y] = PolicyRow(x, n, t, s, y, z)
    BY <2>1, <2>2, Zenon
  <2>4. [p EXCEPT !.id = rid, !.grant = IF g = 0 THEN ids + 1 ELSE g] = rec
    BY <2>3, Zenon
  <2>5. (IF p.id = 0 THEN ids ELSE p.id) = rid /\ (IF p.grant = 0 THEN ids + 1 ELSE p.grant) = IF g = 0 THEN ids + 1 ELSE g
    BY <1>a, Zenon
  <2> HIDE DEF rec, rid, ids
  <2> QED BY <2>4, <2>5
<1>2. /\ ids + 1 <= MaxId
      /\ rows' = {r \in rows : r.kind # "policy" \/ r.id # pid} \cup {rec}
      /\ issued' = IF g = 0 THEN ids + 1 ELSE ids
  BY <1>a, <1>1, Zenon DEF StorePolicy
<1>3. ids \in Nat /\ ids >= issued /\ issued' \in 0 .. MaxId /\ issued' >= issued /\ issued' >= ids
  BY <1>0, <1>2
<1>4. IsRow(rec) /\ rec.kind = "policy" /\ rec.name = n /\ rec.id = rid /\ rec.text = t /\ rec.subjects = s /\ rec.targets = z
  BY DEF IsRow, RowKinds, PolicyRow
<1> HIDE DEF rec
<1>5. CASE pid = 0
  <2>1. \A r \in rows : r.id # 0
    BY <1>0 DEF IsStore
  <2>2. rows' = rows \cup {rec}
    BY <1>2, <1>5, <2>1
  <2>3. Named(rows, rec.kind, rec.name) = {}
    BY <1>a, <1>4, <1>5, <2>1 DEF Stands, Named
  <2>4. rec.id \in issued + 1 .. issued' /\ issued' \in Nat
    BY <1>0, <1>3, <1>4, <1>5
  <2>5. IsStore(rows \cup {rec}, issued') /\ Changed(rows, rows \cup {rec}, rec)
    BY <1>0, <1>3, <1>4, <2>3, <2>4, StoreAdd
  <2> QED BY <1>a, <1>3, <1>4, <2>2, <2>5
<1>6. CASE pid # 0
  <2>1. PICK b \in OfKind(rows, "policy") : b.id = pid
    BY <1>a, <1>6 DEF Stands
  <2>2. b \in rows /\ b.kind = "policy" /\ rec.id = b.id
    BY <1>4, <1>6, <2>1 DEF OfKind
  <2>3. rows' = (rows \ {b}) \cup {rec}
    BY <1>2, <2>1, <2>2 DEF IsStore
  <2>4. Named(rows, rec.kind, rec.name) \subseteq {b}
    BY <1>a, <1>4, <2>1, <2>2 DEF Stands, Named, IsStore
  <2>7. rec \in rows' /\ issued' \in Nat
    BY <1>0, <1>2, <1>3
  <2>5. /\ IsStore((rows \ {b}) \cup {rec}, issued')
        /\ rec.name = b.name => Changed(rows, (rows \ {b}) \cup {rec}, rec)
    BY <1>0, <1>3, <1>4, <2>2, <2>4, <2>7, StoreSwap
  <2>8. (\A c \in OfKind(rows, "policy") : c.id = pid => c.name = n) => Changed(rows, rows', rec)
    BY <1>4, <2>1, <2>3, <2>5
  <2> QED BY <1>a, <1>3, <1>4, <2>3, <2>5, <2>7, <2>8
<1> QED BY <1>5, <1>6

\* An import that stands still keeps its shape, and ids are never taken back.
LEMMA ShapeStays ==
  ASSUME ImportShape, import' = import, issued \in Nat, issued' \in Nat, issued' >= issued
  PROVE  ImportShape'
<1>1. \A i : Item(i)' = Item(i)
  BY DEF Item
<1>2. BodyOf(import.seen, Item(import.at)).id \in 0 .. issued => BodyOf(import.seen, Item(import.at)).id \in 0 .. issued'
  OBVIOUS
<1>3. \A i : Placed(i)' <=> Placed(i)
  BY <1>1 DEF Placed
<1> QED BY <1>1, <1>2, <1>3 DEF ImportShape

\* Other administrators keep the invariant: from then on the import is not alone.
LEMMA OtherAdminsStep == ImportIInv /\ OtherAdmins => ImportIInv'
<1> SUFFICES ASSUME ImportIInv, OtherAdmins PROVE ImportIInv'
  OBVIOUS
<1> DEFINE Bounds == quiet' = FALSE /\ refused' \in 0 .. MaxRefusals /\ edits' \in 0 .. MaxEdits /\ import' = import /\ before' = before
<1>0. /\ issued \in 0 .. MaxId /\ issued \in Nat /\ MaxId \in Nat /\ MaxEdits \in Nat /\ edits \in Nat
      /\ IsStore(rows, issued) /\ refused \in 0 .. MaxRefusals /\ edits \in 0 .. MaxEdits
  BY ImportAssumption DEF ImportIInv, ImportTypeOK
<1>1. ASSUME Bounds, issued' \in 0 .. MaxId, issued' >= issued, IsStore(rows', issued'),
             DeskShape', (desk.pc \in {"idle", "write"})'
      PROVE  ImportIInv'
  <2>1. issued' \in Nat
    BY <1>0, <1>1
  <2>2. ImportShape'
    BY <1>0, <1>1, <2>1, ShapeStays DEF ImportIInv
  <2>3. IsStore(before, issued)'
    BY <1>0, <1>1, <2>1, StoreLater DEF ImportIInv
  <2>4. ImportTypeOK'
    BY <1>1 DEF ImportTypeOK, ImportIInv
  <2>5. Told'
    BY <1>1 DEF Told
  <2> QED BY <1>1, <2>2, <2>3, <2>4, <2>5 DEF ImportIInv
<1>2. DeskChanges => Bounds
  BY <1>0 DEF DeskChanges
<1>i. ASSUME issued' = issued PROVE issued' \in 0 .. MaxId /\ issued' \in Nat /\ issued' >= issued
  BY <1>0, <1>i
<1>3. ASSUME desk' = desk, issued' \in Nat, issued' >= issued PROVE DeskShape' /\ (desk.pc \in {"idle", "write"})'
  BY <1>0, <1>3 DEF ImportIInv, DeskShape, ImportTypeOK
<1>4. ASSUME NEW r \in OfKind(rows, "policy")
      PROVE  r \in rows /\ IsRow(r) /\ IsPolicy(r) /\ r.kind = "policy" /\ r.id \in 1 .. issued
  BY <1>0, PolicyRows DEF OfKind, IsStore
<1>p. ASSUME NEW r, IsPolicy(r)
      PROVE  \A v : /\ LET w == [r EXCEPT !.text = v]     IN IsPolicy(w) /\ w.id = r.id /\ w.name = r.name
                    /\ LET w == [r EXCEPT !.subjects = v] IN IsPolicy(w) /\ w.id = r.id /\ w.name = r.name
                    /\ LET w == [r EXCEPT !.targets = v]  IN IsPolicy(w) /\ w.id = r.id /\ w.name = r.name
  <2>1. PICK i, n, t, s, g, z : r = PolicyRow(i, n, t, s, g, z) /\ n # NoName
    BY <1>p, Zenon DEF IsPolicy
  <2> TAKE v
  <2>2. /\ [r EXCEPT !.text = v] = PolicyRow(i, n, v, s, g, z)
        /\ [r EXCEPT !.subjects = v] = PolicyRow(i, n, t, v, g, z)
        /\ [r EXCEPT !.targets = v] = PolicyRow(i, n, t, s, g, v)
    BY <2>1 DEF PolicyRow
  <2>3. \A x, y, u : PolicyRow(i, n, x, y, g, u).id = r.id /\ PolicyRow(i, n, x, y, g, u).name = r.name
    BY <2>1 DEF PolicyRow
  <2>4. \A x, y, u : IsPolicy(PolicyRow(i, n, x, y, g, u))
    BY <2>1 DEF IsPolicy
  <2> QED BY <2>2, <2>3, <2>4
<1>5. ASSUME NEW r \in OfKind(rows, "policy"), DeskEdit(r, 2) PROVE ImportIInv'
  <2>0. IsPolicy([r EXCEPT !.text = 2]) /\ [r EXCEPT !.text = 2].id = r.id
    BY <1>4, <1>p, Zenon
  <2>1. IsRow([r EXCEPT !.text = 2]) /\ [r EXCEPT !.text = 2].kind = "policy" /\ [r EXCEPT !.text = 2].id = r.id
    BY <2>0, PolicyRows, Zenon
  <2>2. desk' = [pc |-> "write", row |-> {[r EXCEPT !.text = 2]}] /\ UNCHANGED <<rows, issued>>
    BY <1>5 DEF DeskEdit
  <2>3. DeskShape' /\ (desk.pc \in {"idle", "write"})'
    BY <1>4, <2>1, <2>2 DEF DeskShape
  <2>4. Bounds
    BY <1>2, <1>5 DEF DeskEdit
  <2>5. IsStore(rows', issued')
    BY <1>0, <2>2
  <2> HIDE DEF Bounds
  <2> QED BY <1>1, <1>i, <2>2, <2>3, <2>4, <2>5, Zenon
<1>6. ASSUME NEW r \in OfKind(rows, "policy"), NEW g \in r.subjects, DeskReview(r, g) PROVE ImportIInv'
  <2> DEFINE w == [r EXCEPT !.subjects = @ \ {g}]
  <2>1. IsRow(w) /\ w.kind = "policy" /\ w.id = r.id
    BY <1>4, <1>p, PolicyRows
  <2>2. desk' = [pc |-> "write", row |-> {w}] /\ UNCHANGED <<rows, issued>>
    BY <1>6 DEF DeskReview
  <2>3. DeskShape' /\ (desk.pc \in {"idle", "write"})'
    BY <1>4, <2>1, <2>2 DEF DeskShape
  <2>4. Bounds
    BY <1>2, <1>6 DEF DeskReview
  <2>5. IsStore(rows', issued')
    BY <1>0, <2>2
  <2> HIDE DEF Bounds
  <2> QED BY <1>1, <1>i, <2>2, <2>3, <2>4, <2>5, Zenon
<1>7. CASE DeskWrite
  <2>0. Bounds /\ desk' = NoDesk
    BY <1>0, <1>7 DEF DeskWrite
  <2>1. DeskShape' /\ (desk.pc \in {"idle", "write"})'
    BY <2>0 DEF DeskShape, NoDesk
  <2>2. PICK p \in desk.row : IF Stands(p) THEN StorePolicy(p) ELSE UNCHANGED <<rows, issued>>
    BY <1>7 DEF DeskWrite
  <2>3. IsRow(p) /\ p.kind = "policy" /\ p.id \in 0 .. issued
    BY <1>0, <2>2 DEF ImportIInv, DeskShape
  <2>4. IsPolicy(p)
    BY <2>3, PolicyRows
  <2>5. CASE Stands(p)
    <3>1. issued' \in 0 .. MaxId /\ issued' >= issued /\ IsStore(rows', issued')
      BY <1>0, <2>2, <2>3, <2>4, <2>5, PolicyStored
    <3> QED BY <1>1, <2>0, <2>1, <3>1
  <2>6. CASE ~Stands(p)
    <3>1. issued' = issued /\ IsStore(rows', issued')
      BY <1>0, <2>2, <2>6
    <3> HIDE DEF Bounds
    <3> QED BY <1>1, <1>i, <2>0, <2>1, <3>1, Zenon
  <2> QED BY <2>5, <2>6
<1>8. ASSUME NEW r \in OfKind(rows, "policy"), PolicyGone(r) PROVE ImportIInv'
  <2>1. IsStore(rows', issued') /\ UNCHANGED <<issued, desk>>
    BY <1>0, <1>8 DEF PolicyGone, IsStore
  <2>2. Bounds
    BY <1>2, <1>8 DEF PolicyGone
  <2> HIDE DEF Bounds
  <2> QED BY <1>1, <1>i, <1>3, <2>1, <2>2, Zenon
<1>9. ASSUME NEW t \in OfKind(rows, "target"), TargetGone(t) PROVE ImportIInv'
  <2> DEFINE F(p) == WithoutTarget(p, t.id)
  <2>1. ASSUME NEW p \in OfKind(rows, "policy")
        PROVE  IsRow(F(p)) /\ F(p).kind = "policy" /\ F(p).name = p.name /\ F(p).id = p.id
    <3> DEFINE z == SelectSeq(p.targets, LAMBDA i : i # t.id)
    <3>1. F(p) = [p EXCEPT !.targets = z]
      BY DEF WithoutTarget
    <3> HIDE DEF z, F
    <3>2. IsPolicy([p EXCEPT !.targets = z]) /\ [p EXCEPT !.targets = z].id = p.id /\ [p EXCEPT !.targets = z].name = p.name
      BY <1>4, <1>p, Zenon
    <3> QED BY <3>1, <3>2, PolicyRows, Zenon
  <2>2. rows' = {r \in rows : r.kind = "group"} \cup (OfKind(rows, "target") \ {t}) \cup {F(p) : p \in OfKind(rows, "policy")}
    BY <1>9 DEF TargetGone
  <2> HIDE DEF F
  <2>3. \A q \in rows' : IsRow(q) /\ \E r \in rows : q.kind = r.kind /\ q.name = r.name /\ q.id = r.id /\ (r.kind # "policy" => q = r) /\ (r.kind = "policy" => q = F(r))
    BY <1>0, <1>4, <2>1, <2>2 DEF OfKind, IsStore
  <2>4. IsStore(rows', issued)
    BY <1>0, <2>3 DEF IsStore
  <2>5. UNCHANGED <<issued, desk>>
    BY <1>9 DEF TargetGone
  <2>6. Bounds
    BY <1>2, <1>9 DEF TargetGone
  <2>7. IsStore(rows', issued')
    BY <2>4, <2>5
  <2> HIDE DEF Bounds
  <2> QED BY <1>1, <1>i, <1>3, <2>5, <2>6, <2>7, Zenon
<1>10. ASSUME NEW g \in OfKind(rows, "group"), GroupGone(g) PROVE ImportIInv'
  <2> DEFINE F(p) == [p EXCEPT !.subjects = @ \ {g.id}]
  <2>1. ASSUME NEW p \in OfKind(rows, "policy")
        PROVE  IsRow(F(p)) /\ F(p).kind = "policy" /\ F(p).name = p.name /\ F(p).id = p.id
    BY <1>4, <1>p, PolicyRows
  <2>2. rows' = OfKind(rows, "target") \cup (OfKind(rows, "group") \ {g}) \cup {F(p) : p \in OfKind(rows, "policy")}
    BY <1>10 DEF GroupGone
  <2> HIDE DEF F
  <2>3. \A q \in rows' : IsRow(q) /\ \E r \in rows : q.kind = r.kind /\ q.name = r.name /\ q.id = r.id /\ (r.kind # "policy" => q = r) /\ (r.kind = "policy" => q = F(r))
    BY <1>0, <1>4, <2>1, <2>2 DEF OfKind, IsStore
  <2>4. IsStore(rows', issued)
    BY <1>0, <2>3 DEF IsStore
  <2>5. UNCHANGED <<issued, desk>>
    BY <1>10 DEF GroupGone
  <2>6. Bounds
    BY <1>2, <1>10 DEF GroupGone
  <2>7. IsStore(rows', issued')
    BY <2>4, <2>5
  <2> HIDE DEF Bounds
  <2> QED BY <1>1, <1>i, <1>3, <2>5, <2>6, <2>7, Zenon
<1>11. ASSUME NEW n, TargetAdded(n) PROVE ImportIInv'
  <2> DEFINE rec == [kind |-> "target", id |-> issued + 1, name |-> n, text |-> 1]
  <2>1. /\ n # NoName /\ Named(rows, "target", n) = {} /\ issued < MaxId /\ issued' = issued + 1
        /\ rows' = rows \cup {rec} /\ desk' = desk
    BY <1>11 DEF TargetAdded
  <2>2. IsRow(rec) /\ rec.kind = "target" /\ rec.name = n /\ rec.id = issued + 1
    BY <2>1 DEF IsRow, RowKinds
  <2> HIDE DEF rec
  <2>3. issued' \in 0 .. MaxId /\ issued' \in Nat /\ issued' >= issued /\ rec.id \in issued + 1 .. issued'
    BY <1>0, <2>1, <2>2
  <2>4. IsStore(rows', issued')
    BY <1>0, <2>1, <2>2, <2>3, StoreAdd
  <2> QED BY <1>1, <1>2, <1>3, <1>11, <2>1, <2>3, <2>4 DEF TargetAdded
<1> QED BY <1>5, <1>6, <1>7, <1>8, <1>9, <1>10, <1>11 DEF OtherAdmins

\* A step of the import leaves the desk and what was before.
LEMMA ImportStepSuffices ==
  ASSUME ImportIInv, KeepsDesk, refused' \in 0 .. MaxRefusals, issued' \in 0 .. MaxId, issued' >= issued,
         IsStore(rows, issued)', ImportShape', Told',
         import'.pc \in {"groups", "targets", "policies", "plan", "run", "members", "groups2", "targets2",
                         "policies2", "resolve", "store", "done", "unread", "planned", "failed"}
  PROVE  ImportIInv'
<1>1. issued \in Nat /\ issued' \in Nat
  BY ImportAssumption DEF ImportIInv, ImportTypeOK
<1>2. UNCHANGED <<desk, before, quiet, edits>>
  BY DEF KeepsDesk
<1>3. DeskShape'
  BY <1>1, <1>2 DEF ImportIInv, DeskShape
<1>4. IsStore(before, issued)'
  BY <1>1, <1>2, StoreLater DEF ImportIInv
<1>5. ImportTypeOK'
  BY <1>2 DEF ImportIInv, ImportTypeOK
<1> QED BY <1>3, <1>4, <1>5 DEF ImportIInv

\* The bounds, and a step that touches neither rows nor ids.
LEMMA StillBounds ==
  ASSUME ImportIInv
  PROVE  /\ refused \in 0 .. MaxRefusals /\ issued \in 0 .. MaxId /\ issued \in Nat /\ IsStore(rows, issued)
         /\ IsImport(import) /\ import.at \in Nat /\ import.at >= 1
         /\ (refused < MaxRefusals /\ refused' = refused + 1) => refused' \in 0 .. MaxRefusals
         /\ UNCHANGED <<rows, issued>> => issued' \in 0 .. MaxId /\ issued' >= issued /\ IsStore(rows, issued)'
<1>1. /\ refused \in 0 .. MaxRefusals /\ issued \in 0 .. MaxId /\ issued \in Nat /\ IsStore(rows, issued) /\ MaxRefusals \in Nat
      /\ IsImport(import) /\ import.at \in Nat /\ import.at >= 1
  BY ImportAssumption DEF ImportIInv, ImportTypeOK, ImportShape
<1> QED BY <1>1

\* Steps that move the import along and bring nothing in leave what is told of the items.
LEMMA ItemsStay ==
  ASSUME UNCHANGED <<rows, before>>, import'.file = import.file, import'.changes = import.changes,
         import.pc # "members", import'.pc # "members"
  PROVE  \A i : Item(i)' = Item(i) /\ (ItemTold(i)' <=> ItemTold(i))
<1>1. \A i : Item(i)' = Item(i)
  BY DEF Item
<1> QED BY <1>1 DEF ItemTold

\* importConfig.
LEMMA StartStep == ASSUME ImportIInv, NEW f \in Documents, ImportStart(f) PROVE ImportIInv'
<1>1. IsImport(NoImport)
  BY DEF IsImport, NoImport, ImportRec
<1>2. /\ import' = [NoImport EXCEPT !.pc = "groups", !.file = f] /\ before' = rows /\ quiet' = TRUE
      /\ UNCHANGED <<rows, issued, desk, refused, edits>>
  BY DEF ImportStart
<1>3. import' = ImportRec("groups", f, {}, 1, <<>>, {})
  <2>1. [NoImport EXCEPT !.pc = "groups", !.file = f] = [[NoImport EXCEPT !.pc = "groups"] EXCEPT !.file = f]
    OBVIOUS
  <2>2. NoImport = ImportRec("idle", NoDocument, {}, 1, <<>>, {})
    BY DEF NoImport, ImportRec
  <2>3. \A d, s, e, b : /\ [ImportRec("idle", d, s, 1, e, b) EXCEPT !.pc = "groups"] = ImportRec("groups", d, s, 1, e, b)
                       /\ [ImportRec("groups", d, s, 1, e, b) EXCEPT !.file = f] = ImportRec("groups", f, s, 1, e, b)
    BY DEF ImportRec
  <2>4. [NoImport EXCEPT !.pc = "groups"] = ImportRec("groups", NoDocument, {}, 1, <<>>, {})
    BY <2>2, <2>3
  <2>5. [ImportRec("groups", NoDocument, {}, 1, <<>>, {}) EXCEPT !.file = f] = ImportRec("groups", f, {}, 1, <<>>, {})
    BY <2>3
  <2> QED BY <1>2, <2>1, <2>4, <2>5, Zenon
<1>4. Leaves(import', "groups", f, {}, 1, <<>>, {})
  BY <1>3, RecIs
<1>5. ImportShape'
  BY <1>4 DEF ImportShape, Leaves, Active
<1>6. Told'
  <2>1. Grown(before, rows)'
    BY <1>2 DEF Grown
  <2>2. ReadingsKnow'
    BY <1>2, <1>4 DEF ReadingsKnow, Leaves, Active
  <2> QED BY <1>4, <2>1, <2>2 DEF Told, Leaves, Active
<1>7. ImportTypeOK' /\ DeskShape' /\ IsStore(before, issued)'
  BY <1>2, <1>4 DEF ImportTypeOK, ImportIInv, DeskShape, Leaves
<1> QED BY <1>5, <1>6, <1>7 DEF ImportIInv

\* A list read again replaces the rows of its kind.
LEMMA ReadAgain ==
  ASSUME NEW S, NEW R, NEW k
  PROVE  LET T == {r \in S : r.kind # k} \cup OfKind(R, k)
         IN  OfKind(T, k) = OfKind(R, k) /\ \A j : j # k => OfKind(T, j) = OfKind(S, j)
BY DEF OfKind

\* Tables hold groups, targets and policies.
LEMMA KindsAll ==
  ASSUME NEW S, NEW n, IsStore(S, n)
  PROVE  S = OfKind(S, "group") \cup OfKind(S, "target") \cup OfKind(S, "policy")
BY DEF IsStore, IsRow, RowKinds, OfKind

\* read, list by list.
LEMMA ReadStep == ASSUME ImportIInv, ReadState PROVE ImportIInv'
<1>0. UNCHANGED <<rows, issued, refused, before, quiet>> /\ KeepsDesk
  BY DEF ReadState, ReadList, KeepsDesk
<1> DEFINE Read(from, k, to) ==
             /\ import.pc = from
             /\ Leaves(import', to, import.file, {r \in import.seen : r.kind # k} \cup OfKind(rows, k), import.at, import.changes, import.body)
<1>1. ASSUME NEW from, NEW k, NEW to, ReadList(from, k, to) PROVE Read(from, k, to)
  <2>1. import.pc = from /\ import' = [import EXCEPT !.seen = {r \in import.seen : r.kind # k} \cup OfKind(rows, k), !.pc = to]
    BY <1>1 DEF ReadList
  <2>2. Leaves([import EXCEPT !.seen = {r \in import.seen : r.kind # k} \cup OfKind(rows, k), !.pc = to],
           to, import.file, {r \in import.seen : r.kind # k} \cup OfKind(rows, k), import.at, import.changes, import.body)
    BY StillBounds, ImportSet, Zenon
  <2> QED BY <2>1, <2>2
<1>2. ASSUME NEW from, NEW k, NEW to, Read(from, k, to),
             \/ from \in {"groups", "targets", "policies"} /\ to \in {"targets", "policies", "plan"}
             \/ from \in {"groups2", "targets2", "policies2"} /\ to \in {"targets2", "policies2", "resolve"},
             quiet /\ ReadingsKnow => ReadingsKnow'
      PROVE  ImportIInv'
  <2>1. \A i : Item(i)' = Item(i) /\ (ItemTold(i)' <=> ItemTold(i))
    BY <1>0, <1>2, ItemsStay DEF Leaves
  <2>2. \A i : Placed(i)' <=> Placed(i)
    BY <1>2, <2>1 DEF Placed, Leaves
  <2>3. ImportShape'
    BY <1>0, <1>2, <2>1, <2>2 DEF ImportIInv, ImportShape, Leaves, Active
  <2>4. Told'
    BY <1>0, <1>2, <2>1 DEF ImportIInv, Told, Leaves, Active, Grown, Firm
  <2>5. issued' \in 0 .. MaxId /\ issued' >= issued /\ IsStore(rows, issued)' /\ refused' \in 0 .. MaxRefusals
    BY <1>0, StillBounds
  <2> QED BY <1>0, <1>2, <2>3, <2>4, <2>5, ImportStepSuffices DEF Leaves
<1>3. OfKind(import.seen, "group") \subseteq import.seen
  BY DEF OfKind
<1>4. CASE ReadList("groups", "group", "targets")
  <2>1. Read("groups", "group", "targets")
    BY <1>1, <1>4
  <2>2. ASSUME quiet, ReadingsKnow PROVE ReadingsKnow'
    BY <1>0, <2>1, <2>2 DEF ReadingsKnow, Leaves, Active, OfKind
  <2> QED BY <1>2, <2>1, <2>2
<1>5. CASE ReadList("targets", "target", "policies")
  <2>1. Read("targets", "target", "policies")
    BY <1>1, <1>5
  <2>2. ASSUME quiet, ReadingsKnow PROVE ReadingsKnow'
    BY <1>0, <2>1, <2>2 DEF ReadingsKnow, Leaves, Active, OfKind
  <2> QED BY <1>2, <2>1, <2>2
<1>6. CASE ReadList("policies", "policy", "plan")
  <2>1. Read("policies", "policy", "plan")
    BY <1>1, <1>6
  <2>2. ASSUME quiet, ReadingsKnow PROVE ReadingsKnow'
    <3>1. import.seen = OfKind(before, "group") \cup OfKind(before, "target") /\ rows = before
      BY <2>1, <2>2 DEF ReadingsKnow
    <3>2. import'.seen = OfKind(before, "group") \cup OfKind(before, "target") \cup OfKind(before, "policy")
      BY <2>1, <3>1 DEF Leaves, OfKind
    <3>3. import'.seen = before'
      BY <1>0, <3>2, KindsAll DEF ImportIInv
    <3> QED BY <1>0, <2>1, <3>1, <3>3 DEF ReadingsKnow, Leaves, Active
  <2> QED BY <1>2, <2>1, <2>2
<1>7. CASE ReadList("groups2", "group", "targets2")
  <2>1. Read("groups2", "group", "targets2")
    BY <1>1, <1>7
  <2>2. ASSUME quiet, ReadingsKnow PROVE ReadingsKnow'
    <3>1. import.seen = before /\ OfKind(rows, "policy") = OfKind(before, "policy")
      BY <2>1, <2>2 DEF ReadingsKnow, Active
    <3>2. OfKind(import'.seen, "group") = OfKind(rows, "group") /\ OfKind(import'.seen, "policy") = OfKind(before, "policy")
      BY <2>1, <3>1, ReadAgain DEF Leaves
    <3> QED BY <1>0, <2>1, <3>1, <3>2 DEF ReadingsKnow, Leaves, Active
  <2> QED BY <1>2, <2>1, <2>2
<1>8. CASE ReadList("targets2", "target", "policies2")
  <2>1. Read("targets2", "target", "policies2")
    BY <1>1, <1>8
  <2>2. ASSUME quiet, ReadingsKnow PROVE ReadingsKnow'
    <3>1. /\ OfKind(import.seen, "group") = OfKind(rows, "group") /\ OfKind(import.seen, "policy") = OfKind(before, "policy")
          /\ OfKind(rows, "policy") = OfKind(before, "policy")
      BY <2>1, <2>2 DEF ReadingsKnow, Active
    <3>2. /\ OfKind(import'.seen, "group") = OfKind(rows, "group") /\ OfKind(import'.seen, "policy") = OfKind(before, "policy")
          /\ OfKind(import'.seen, "target") = OfKind(rows, "target")
      BY <2>1, <3>1, ReadAgain DEF Leaves
    <3> QED BY <1>0, <2>1, <3>1, <3>2 DEF ReadingsKnow, Leaves, Active
  <2> QED BY <1>2, <2>1, <2>2
<1>9. CASE ReadList("policies2", "policy", "resolve")
  <2>1. Read("policies2", "policy", "resolve")
    BY <1>1, <1>9
  <2>2. ASSUME quiet, ReadingsKnow PROVE ReadingsKnow'
    <3>1. /\ OfKind(import.seen, "group") = OfKind(rows, "group") /\ OfKind(import.seen, "target") = OfKind(rows, "target")
          /\ OfKind(rows, "policy") = OfKind(before, "policy")
      BY <2>1, <2>2 DEF ReadingsKnow, Active
    <3>2. /\ OfKind(import'.seen, "group") = OfKind(rows, "group") /\ OfKind(import'.seen, "policy") = OfKind(before, "policy")
          /\ OfKind(import'.seen, "target") = OfKind(rows, "target")
      <4> DEFINE T == {r \in import.seen : r.kind # "policy"} \cup OfKind(rows, "policy")
      <4>1. OfKind(T, "policy") = OfKind(rows, "policy") /\ \A j : j # "policy" => OfKind(T, j) = OfKind(import.seen, j)
        BY ReadAgain
      <4>2. import'.seen = T
        BY <2>1 DEF Leaves
      <4> QED BY <3>1, <4>1, <4>2
    <3> QED BY <1>0, <2>1, <3>1, <3>2 DEF ReadingsKnow, Leaves, Active
  <2> QED BY <1>2, <2>1, <2>2
<1> QED BY <1>4, <1>5, <1>6, <1>7, <1>8, <1>9 DEF ReadState

\* A list route that answers 500.
LEMMA ReadFailsStep == ASSUME ImportIInv, ReadFails PROVE ImportIInv'
<1>0. /\ UNCHANGED <<rows, issued, before, quiet>> /\ KeepsDesk
      /\ refused' \in 0 .. MaxRefusals /\ issued' \in 0 .. MaxId /\ issued' >= issued /\ IsStore(rows, issued)'
  BY StillBounds DEF ReadFails, KeepsDesk
<1>1. CASE import.pc \in {"targets", "policies"}
  <2>1. import' = [import EXCEPT !.pc = "unread"]
    BY <1>1 DEF ReadFails
  <2>2. Leaves(import', "unread", import.file, import.seen, import.at, import.changes, import.body)
    BY <2>1, StillBounds, ImportSet, Zenon
  <2>3. ImportShape'
    BY <1>1, <2>2 DEF ImportIInv, ImportShape, Leaves, Active
  <2>4. Told'
    <3>1. quiet => Grown(before, rows)' /\ ReadingsKnow'
      BY <1>0, <1>1, <2>2 DEF ImportIInv, Told, ReadingsKnow, Leaves, Active, Grown
    <3> QED BY <1>0, <2>2, <3>1 DEF Told, Leaves, Active
  <2> QED BY <1>0, <2>2, <2>3, <2>4, ImportStepSuffices DEF Leaves
<1>2. CASE import.pc \in {"targets2", "policies2"}
  <2> DEFINE c == [i \in DOMAIN import.changes |-> IF Items(import.file)[i].kind = "policy"
                                                   THEN [import.changes[i] EXCEPT !.error = TRUE] ELSE import.changes[i]]
  <2>1. import' = [import EXCEPT !.pc = "failed", !.changes = c]
    BY <1>2 DEF ReadFails
  <2>2. Leaves(import', "failed", import.file, import.seen, import.at, c, import.body)
    BY <2>1, StillBounds, ImportSet, Zenon
  <2>3. import.changes \in [DOMAIN Items(import.file) -> Changes]
    BY <1>2 DEF ImportIInv, ImportShape, Active
  <2>4. /\ c \in [DOMAIN Items(import.file) -> Changes]
        /\ \A i \in DOMAIN Items(import.file) :
             /\ c[i].applied = import.changes[i].applied /\ c[i].action = import.changes[i].action
             /\ import.changes[i].error => c[i].error
    BY <2>3 DEF Changes
  <2> HIDE DEF c
  <2>5. ImportShape'
    BY <1>2, <2>2, <2>4 DEF ImportIInv, ImportShape, Leaves, Active
  <2>6. Told'
    <3>1. \A i : Item(i)' = Item(i)
      BY <2>2 DEF Item, Leaves
    <3>2. ASSUME quiet, NEW i \in DOMAIN Items(import.file) PROVE Firm(Item(i)) /\ ItemTold(i)
      BY <1>2, <3>2 DEF ImportIInv, Told, Active
    <3>3. ASSUME NEW i \in DOMAIN Items(import.file), ItemTold(i) PROVE ItemTold(i)'
      BY <1>0, <1>2, <2>2, <2>4, <3>1, <3>3 DEF ItemTold, Leaves
    <3>4. quiet => Grown(before, rows)' /\ ReadingsKnow'
      BY <1>0, <1>2, <2>2 DEF ImportIInv, Told, ReadingsKnow, Leaves, Active, Grown
    <3> QED BY <1>0, <2>2, <3>1, <3>2, <3>3, <3>4 DEF Told, Leaves, Active
  <2> QED BY <1>0, <2>2, <2>5, <2>6, ImportStepSuffices DEF Leaves
<1> QED BY <1>1, <1>2 DEF ReadFails

\* The names a policy goes by are known, so they are names.
LEMMA PlanFirm ==
  ASSUME NEW S, NEW n, IsStore(S, n), NEW f \in Documents,
         \A i \in DOMAIN Items(f) : ~Problem(S, f, Items(f)[i]), NEW d \in ToSet(Items(f))
  PROVE  Firm(d)
<1> SUFFICES ASSUME d.kind = "policy", NEW x \in ToSet(d.subjects) \cup ToSet(d.targets) PROVE x # NoName
  BY DEF Firm
<1>1. PICK i \in DOMAIN Items(f) : d = Items(f)[i]
  BY DEF ToSet
<1>2. ~Unknown(Future(S, f), d)
  BY <1>1 DEF Problem
<1>3. PICK k \in {"group", "target"} : Named(Future(S, f), k, x) # {}
  BY <1>2 DEF Unknown
<1>4. PICK r \in Future(S, f) : r.name = x
  BY <1>3 DEF Named
<1>5. CASE r \in S
  BY <1>4, <1>5 DEF IsStore, IsRow
<1>6. CASE r \notin S
  <2>1. PICK e \in ToSet(f.groups \o f.targets) : r = [kind |-> e.kind, name |-> e.name]
    BY <1>6 DEF Future
  <2>2. PICK j \in DOMAIN Items(f) : Items(f)[j] = e
    BY ItemsTyped
  <2>3. e.name # NoName /\ r.name = e.name
    BY <2>1, <2>2 DEF Problem
  <2> QED BY <1>4, <2>3
<1> QED BY <1>5, <1>6

\* plan.
LEMMA PlanStep == ASSUME ImportIInv, NEW apply \in BOOLEAN, ImportPlan(apply) PROVE ImportIInv'
<1> DEFINE f == import.file
           c == [i \in DOMAIN Items(f) |-> PlanOf(import.seen, Items(f)[i])]
           fine == \A i \in DOMAIN Items(f) : ~Problem(import.seen, f, Items(f)[i])
           pc == IF apply /\ fine THEN "run" ELSE "planned"
<1>0. /\ UNCHANGED <<rows, issued, before, quiet, refused>> /\ KeepsDesk /\ import.pc = "plan"
      /\ refused' \in 0 .. MaxRefusals /\ issued' \in 0 .. MaxId /\ issued' >= issued /\ IsStore(rows, issued)'
  BY StillBounds DEF ImportPlan, KeepsDesk
<1>1. import' = [import EXCEPT !.changes = c, !.pc = pc]
  BY DEF ImportPlan
<1> HIDE DEF pc
<1>2. Leaves(import', pc, f, import.seen, import.at, c, import.body)
  BY <1>1, StillBounds, ImportSet, Zenon
<1>3. f \in Documents
  BY <1>0 DEF ImportIInv, ImportShape
<1>4. /\ c \in [DOMAIN Items(f) -> Changes]
      /\ \A i \in DOMAIN Items(f) : c[i] = PlanOf(import.seen, Items(f)[i]) /\ ~c[i].applied /\ ~c[i].error
  BY DEF PlanOf, Changes
<1> HIDE DEF c
<1>5. pc \in {"run", "planned"} /\ (pc = "run" => fine)
  BY DEF pc
<1>a. \A i : Item(i)' = Items(f)[i]
  BY <1>2 DEF Item, Leaves
<1>b. import.at = 1 /\ DOMAIN Items(f) = 1 .. Len(Items(f)) /\ Len(Items(f)) \in Nat
  BY <1>0, <1>3, ItemsTyped DEF ImportIInv, ImportShape
<1>6. ASSUME pc = "run", NEW i \in DOMAIN Items(f) PROVE Placed(i)'
  <2>1. Item(i)'.name # NoName /\ ~Twice(f, Item(i)')
    BY <1>5, <1>6, <1>a DEF Problem
  <2>2. i >= 1 /\ i \in Nat
    BY <1>b
  <2>3. ~c[i].applied /\ ~c[i].error
    BY <1>4
  <2> QED BY <1>b, <1>2, <1>6, <2>1, <2>2, <2>3 DEF Placed, Leaves
<1>7. ImportShape'
  BY <1>b, <1>2, <1>3, <1>4, <1>5, <1>6 DEF ImportShape, Leaves, Active
<1>8. ASSUME quiet PROVE Grown(before, rows)' /\ ReadingsKnow' /\ rows = before /\ import.seen = before
  BY <1>0, <1>2, <1>5, <1>8 DEF ImportIInv, Told, ReadingsKnow, Leaves, Active, Grown
<1>9. ASSUME quiet, pc = "run", NEW i \in DOMAIN Items(f) PROVE Firm(Item(i)') /\ ItemTold(i)'
  <2> DEFINE d == Items(f)[i]
  <2>1. d \in ToSet(Items(f))
    BY DEF ToSet
  <2>2. Firm(d)
    BY <1>3, <1>5, <1>8, <1>9, <2>1, PlanFirm DEF ImportIInv
  <2>3. /\ c[i].action = "unchanged" => \E r \in Named(before, d.kind, d.name) : Same(before, r, d)
        /\ c[i].action = "update" => Named(before, d.kind, d.name) # {}
    <3> DEFINE old == Named(before, d.kind, d.name)
               says == \E r \in old : Says(before, r, d)
    <3>1. c[i].action = IF old = {} THEN "create" ELSE IF says THEN "unchanged" ELSE "update"
      BY <1>4, <1>8, <1>9 DEF PlanOf
    <3>2. says => \E r \in old : Same(before, r, d)
      BY DEF Says
    <3> HIDE DEF old, says
    <3>3. (c[i].action = "unchanged" => says) /\ (c[i].action = "update" => old # {})
      BY <3>1
    <3> QED BY <3>2, <3>3 DEF old
  <2>4. ~c[i].applied
    BY <1>4
  <2>5. ItemTold(i)'
    BY <1>0, <1>2, <1>8, <1>9, <1>a, <2>3, <2>4 DEF ItemTold, Leaves
  <2> QED BY <1>a, <2>2, <2>5
<1>10. Told'
  BY <1>0, <1>2, <1>5, <1>8, <1>9 DEF Told, Leaves, Active, Firm
<1> QED BY <1>0, <1>2, <1>5, <1>7, <1>10, ImportStepSuffices DEF Leaves

\* A step past an item, or to the next point, that brings nothing in.
LEMMA MovedOn ==
  ASSUME ImportIInv, UNCHANGED <<rows, issued, refused>>, KeepsDesk, NEW pc, NEW at, NEW body,
         Leaves(import', pc, import.file, import.seen, at, import.changes, body),
         \/ import.pc = "run" /\ pc \in {"run", "groups2"}
         \/ import.pc = "resolve" /\ pc \in {"resolve", "store", "done"},
         \/ at = import.at
         \/ at = import.at + 1 /\ at - 1 \in DOMAIN import.changes /\ import.changes[at - 1].action = "unchanged" /\ pc \in {"run", "resolve"},
         pc = "groups2" => \A i \in import.at .. Len(Items(import.file)) : Item(i).kind = "policy",
         pc = "done" => import.at > Len(Items(import.file)),
         pc = "store" =>
           /\ at = import.at /\ at \in DOMAIN Items(import.file) /\ ~Unknown(import.seen, Item(at))
           /\ import.changes[at].action # "unchanged"
           /\ body = {BodyOf(import.seen, Item(at))} /\ BodyOf(import.seen, Item(at)).id \in 0 .. issued
  PROVE  ImportIInv'
<1> DEFINE f == import.file
<1>0. /\ UNCHANGED <<before, quiet>>
      /\ refused' \in 0 .. MaxRefusals /\ issued' \in 0 .. MaxId /\ issued' >= issued /\ IsStore(rows, issued)'
      /\ import.at \in Nat /\ import.at >= 1
  BY StillBounds DEF KeepsDesk
<1>1. /\ f \in Documents /\ import.changes \in [DOMAIN Items(f) -> Changes]
      /\ \A i \in DOMAIN Items(f) : Placed(i)
  BY DEF ImportIInv, ImportShape, Active
<1>2. DOMAIN Items(f) = 1 .. Len(Items(f)) /\ Len(Items(f)) \in Nat /\ DOMAIN import.changes = DOMAIN Items(f)
  BY <1>1, ItemsTyped
<1>3. \A i : Item(i)' = Item(i) /\ (ItemTold(i)' <=> ItemTold(i))
  BY <1>0, ItemsStay DEF Leaves
<1>4. ASSUME pc # "done", NEW i \in DOMAIN Items(f) PROVE Placed(i)'
  <2>1. Placed(i) /\ i \in Nat
    BY <1>1, <1>2
  <2>2. CASE at = import.at
    BY <1>0, <1>2, <1>3, <1>4, <2>1, <2>2 DEF Placed, Leaves
  <2>3. CASE at = import.at + 1
    <3>1. import.at \in DOMAIN Items(f) /\ import.changes[import.at].action = "unchanged" /\ pc = import.pc
      BY <1>0, <1>2, <2>3
    <3>2. i < at => i < import.at \/ i = import.at
      BY <1>0, <2>1, <2>3
    <3>3. (i > at => i > import.at) /\ (i = at => i > import.at) /\ (i >= at => i >= import.at)
      BY <1>0, <2>1, <2>3
    <3> QED BY <1>3, <2>1, <3>1, <3>2, <3>3 DEF Placed, Leaves
  <2> QED BY <2>2, <2>3
<1>5. pc = "done" => \A i \in DOMAIN import.changes : import.changes[i].applied \/ import.changes[i].action = "unchanged"
  BY <1>0, <1>1, <1>2 DEF Placed
<1>6. at \in Nat \ {0}
  BY <1>0
<1>7. ImportShape'
  BY <1>0, <1>1, <1>3, <1>4, <1>5, <1>6 DEF ImportShape, Leaves, Active
<1>8. ASSUME quiet PROVE Grown(before, rows)' /\ ReadingsKnow'
  BY <1>0, <1>8 DEF ImportIInv, Told, ReadingsKnow, Leaves, Active, Grown
<1>9. Told'
  BY <1>0, <1>3, <1>8 DEF ImportIInv, Told, Leaves, Active, Firm
<1> QED BY <1>0, <1>7, <1>9, ImportStepSuffices DEF Leaves

\* A call refused: the rest does not run.
LEMMA RefusedStep ==
  ASSUME ImportIInv, import.pc \in {"run", "members", "resolve", "store"}, import.at \in DOMAIN Items(import.file),
         RefuseCall, KeepsDesk, refused' \in 0 .. MaxRefusals
  PROVE  ImportIInv'
<1> DEFINE f == import.file
           c == [import.changes EXCEPT ![import.at].error = TRUE]
<1>0. /\ UNCHANGED <<before, quiet, rows, issued>>
      /\ issued' \in 0 .. MaxId /\ issued' >= issued /\ IsStore(rows, issued)'
      /\ import.at \in Nat /\ import.at >= 1
  BY StillBounds DEF KeepsDesk, RefuseCall
<1>1. f \in Documents /\ import.changes \in [DOMAIN Items(f) -> Changes]
  BY DEF ImportIInv, ImportShape, Active
<1>2. /\ c \in [DOMAIN Items(f) -> Changes]
      /\ \A i \in DOMAIN Items(f) : /\ c[i].applied = import.changes[i].applied /\ c[i].action = import.changes[i].action
                                    /\ i # import.at => c[i] = import.changes[i]
      /\ c[import.at].error
  BY <1>1 DEF Changes
<1>3. Leaves(import', "failed", f, import.seen, import.at, c, import.body)
  <2>1. import' = [import EXCEPT !.changes = c, !.pc = "failed"]
    BY DEF RefuseCall
  <2> HIDE DEF c
  <2> QED BY <2>1, StillBounds, ImportSet, Zenon
<1> HIDE DEF c
<1>4. ImportShape'
  BY <1>0, <1>1, <1>2, <1>3 DEF ImportShape, Leaves, Active
<1>5. \A i : Item(i)' = Item(i)
  BY <1>3 DEF Item, Leaves
<1>6. ASSUME quiet PROVE Grown(before, rows)' /\ ReadingsKnow'
  BY <1>0, <1>3, <1>6 DEF ImportIInv, Told, ReadingsKnow, Leaves, Active, Grown
<1>7. ASSUME quiet, NEW i \in DOMAIN Items(f) PROVE Firm(Item(i)) /\ ItemTold(i)'
  <2>1. Firm(Item(i)) /\ ItemTold(i)
    BY <1>7 DEF ImportIInv, Told, Active
  <2> QED BY <1>0, <1>2, <1>3, <1>5, <2>1 DEF ItemTold, Leaves
<1>8. Told'
  BY <1>0, <1>3, <1>5, <1>6, <1>7 DEF Told, Leaves, Active, Firm
<1> QED BY <1>0, <1>3, <1>4, <1>8, ImportStepSuffices DEF Leaves

\* A row of one kind leaves the rows of the others.
LEMMA KindsKept ==
  ASSUME NEW A, NEW C, NEW rec, Changed(A, C, rec), NEW k, k # rec.kind
  PROVE  OfKind(C, k) = OfKind(A, k)
<1>1. \A n : Named(C, k, n) = Named(A, k, n)
  BY DEF Changed
<1>2. \A r : (r \in OfKind(C, k) <=> r \in Named(C, k, r.name)) /\ (r \in OfKind(A, k) <=> r \in Named(A, k, r.name))
  BY DEF OfKind, Named
<1>3. \A r : r \in OfKind(C, k) <=> r \in OfKind(A, k)
  BY <1>1, <1>2
<1> QED BY <1>3 DEF OfKind

\* An item brought in: its row is as the file has it, the other items' rows are as they were.
LEMMA BroughtIn ==
  ASSUME ImportIInv, KeepsDesk, refused' = refused, issued' \in 0 .. MaxId, issued' >= issued, IsStore(rows, issued)',
         import.at \in DOMAIN Items(import.file), NEW pc, NEW at, NEW body,
         Leaves(import', pc, import.file, import.seen, at, [import.changes EXCEPT ![import.at].applied = TRUE], body),
         \/ import.pc = "run" /\ pc = "members" /\ at = import.at /\ Item(at).kind = "group"
         \/ import.pc \in {"run", "members"} /\ pc = "run" /\ at = import.at + 1
         \/ import.pc = "store" /\ pc = "resolve" /\ at = import.at + 1,
         import.pc = "run" => Item(import.at).kind # "policy" /\ import.changes[import.at].action # "unchanged",
         quiet => \E rec \in rows' :
                    /\ rec.kind = Item(import.at).kind /\ rec.name = Item(import.at).name /\ Changed(rows, rows', rec)
                    /\ pc # "members" => Same(rows', rec, Item(import.at))
                    /\ pc = "members" => rec.text = Item(import.at).text /\ rec.id = IdOf(before, "group", rec.name)
  PROVE  ImportIInv'
<1> DEFINE f == import.file
           c == [import.changes EXCEPT ![import.at].applied = TRUE]
<1> PICK j : j = import.at
  OBVIOUS
<1>0. /\ UNCHANGED <<before, quiet>> /\ j \in Nat /\ j >= 1 /\ issued \in Nat /\ issued' \in Nat
      /\ refused' \in 0 .. MaxRefusals
  BY StillBounds, ImportAssumption DEF KeepsDesk
<1>1. /\ f \in Documents /\ import.changes \in [DOMAIN Items(f) -> Changes]
      /\ \A i \in DOMAIN Items(f) : Placed(i)
      /\ import.pc = "members" => Item(j).kind = "group"
      /\ import.pc = "store" => import.changes[j].action # "unchanged"
  BY DEF ImportIInv, ImportShape, Active
<1>2. DOMAIN Items(f) = 1 .. Len(Items(f)) /\ Len(Items(f)) \in Nat
  BY <1>1, ItemsTyped
<1>3. /\ c \in [DOMAIN Items(f) -> Changes] /\ c[j].applied
      /\ \A i \in DOMAIN Items(f) : /\ c[i].error = import.changes[i].error /\ c[i].action = import.changes[i].action
                                    /\ i # j => c[i] = import.changes[i]
  BY <1>1 DEF Changes
<1> HIDE DEF c
<1>4. Leaves(import', pc, f, import.seen, at, c, body)
  BY DEF c
<1>5. \A i : Item(i)' = Item(i)
  BY <1>4 DEF Item, Leaves
<1>6. ASSUME NEW i \in DOMAIN Items(f) PROVE Placed(i)'
  <2>1. Placed(i) /\ i \in Nat
    BY <1>1, <1>2
  <2>2. /\ Item(i)'.name # NoName /\ ~Twice(f, Item(i)') /\ ~c[i].error
    BY <1>3, <1>5, <2>1 DEF Placed
  <2>3. CASE at = j
    <3>1. /\ i < j => c[i].applied \/ c[i].action = "unchanged"
          /\ i > j => ~c[i].applied
          /\ i = j => c[i].applied
      BY <1>0, <1>3, <2>1 DEF Placed
    <3>2. pc = "members"
      BY <1>0, <2>3
    <3> QED BY <1>4, <2>2, <2>3, <3>1, <3>2 DEF Placed, Leaves
  <2>4. CASE at = j + 1
    <3>1. /\ i < at => c[i].applied \/ c[i].action = "unchanged"
          /\ i >= at => ~c[i].applied
      BY <1>0, <1>3, <2>1, <2>4 DEF Placed
    <3>2. import.pc = "store" /\ i >= at => Item(i).kind = "policy"
      BY <1>0, <2>1, <2>4 DEF Placed
    <3>3. (i > at => i >= at) /\ (i = at => i >= at)
      BY <1>0, <2>1, <2>4
    <3>4. pc \in {"run", "resolve"} /\ (pc = "resolve" => import.pc = "store")
      BY <1>0, <2>4
    <3> QED BY <1>4, <1>5, <2>2, <3>1, <3>2, <3>3, <3>4 DEF Placed, Leaves
  <2> QED BY <2>3, <2>4
<1>7. ImportShape'
  <2>1. pc \in {"run", "members", "resolve"} /\ (pc = "members" => at = j /\ Item(j).kind = "group") /\ at \in Nat \ {0}
    BY <1>0
  <2>2. /\ IsImport(import') /\ import'.pc = pc /\ import'.file = f /\ import'.at = at /\ import'.changes = c
    BY <1>4 DEF Leaves
  <2>3. /\ import'.pc \in Active /\ \A i \in DOMAIN Items(f) : Placed(i)'
        /\ import'.pc = "members" => import'.at \in DOMAIN Items(f) /\ Item(import.at)'.kind = "group"
    BY <1>5, <1>6, <2>1, <2>2 DEF Active
  <2> QED BY <1>1, <1>3, <2>1, <2>2, <2>3 DEF ImportShape
<1>8. CASE ~quiet
  <2>1. Told'
    BY <1>0, <1>8 DEF Told
  <2> QED BY <1>0, <1>4, <1>7, <2>1, ImportStepSuffices DEF Leaves
<1>9. CASE quiet
  <2>1. PICK rec \in rows' :
                    /\ rec.kind = Item(j).kind /\ rec.name = Item(j).name /\ Changed(rows, rows', rec)
                    /\ pc # "members" => Same(rows', rec, Item(j))
                    /\ pc = "members" => rec.text = Item(j).text /\ rec.id = IdOf(before, "group", rec.name)
    BY <1>9
  <2>2. Grown(before, rows) /\ ReadingsKnow /\ \A i \in DOMAIN Items(f) : Firm(Item(i)) /\ ItemTold(i)
    BY <1>9 DEF ImportIInv, Told, Active
  <2>3. Grown(before, rows)' /\ Grown(rows, rows')
    BY <1>0, <2>1, <2>2, GrownOn DEF Changed
  <2>4. ReadingsKnow'
    <3>1. CASE pc \in {"run", "members"}
      <4>1. rec.kind # "policy"
        BY <1>1, <2>1, <3>1
      <4>2. OfKind(rows', "policy") = OfKind(rows, "policy")
        BY <2>1, <4>1, KindsKept
      <4> QED BY <1>0, <1>4, <2>2, <3>1, <4>2 DEF ReadingsKnow, Leaves, Active
    <3>2. CASE pc = "resolve"
      <4>1. rec.kind = "policy"
        BY <1>0, <1>1, <2>1, <3>2 DEF Placed
      <4>2. OfKind(rows', "group") = OfKind(rows, "group") /\ OfKind(rows', "target") = OfKind(rows, "target")
        BY <2>1, <4>1, KindsKept
      <4> QED BY <1>0, <1>4, <2>2, <3>2, <4>2 DEF ReadingsKnow, Leaves, Active
    <3> QED BY <3>1, <3>2
  <2>5. ASSUME NEW i \in DOMAIN Items(f), i # j PROVE ItemTold(i)'
    <3> DEFINE d == Item(i)
    <3>1. d.kind # rec.kind \/ d.name # rec.name
      BY <1>1, <2>1, <2>5, OtherNames DEF Placed, Item
    <3>2. Named(rows', d.kind, d.name) = Named(rows, d.kind, d.name)
      BY <2>1, <3>1 DEF Changed
    <3>3. d.kind = "policy" => d.targets \in Seq(STRING)
      BY <1>1, ItemsTyped DEF Item
    <3>4. ASSUME NEW r \in Named(rows, d.kind, d.name), Same(rows, r, d) PROVE Same(rows', r, d)
      <4>1. r.kind = d.kind
        BY DEF Named
      <4> HIDE DEF d
      <4>2. Firm(d) /\ IsStore(rows, issued) /\ IsStore(rows', issued')
        BY <2>2, StillBounds DEF d
      <4> QED BY <2>3, <3>3, <3>4, <4>1, <4>2, SameStays
    <3>5. ItemTold(i) /\ c[i] = import.changes[i] /\ ~(import.pc = "members" /\ i = import.at)
      BY <1>3, <2>2, <2>5
    <3> QED BY <1>0, <1>4, <1>5, <2>5, <3>2, <3>4, <3>5 DEF ItemTold, Leaves
  <2>6. ItemTold(j)'
    <3>1. c[j].action # "unchanged"
      <4>1. c[j].action = import.changes[j].action /\ ItemTold(j) /\ Placed(j)
        BY <1>1, <1>3, <2>2
      <4>2. import.pc = "members" => import.changes[j].applied
        BY <1>0, <4>1 DEF Placed
      <4> QED BY <1>1, <4>1, <4>2 DEF ItemTold
    <3>2. c[j].action = "update" => Named(before, Item(j).kind, Item(j).name) # {}
      BY <1>3, <2>2 DEF ItemTold
    <3>3. pc # "members" => \E r \in Named(rows', Item(j).kind, Item(j).name) : Same(rows', r, Item(j))
      BY <2>1 DEF Named
    <3>4. pc = "members" => at = j
      BY <1>0
    <3>5. import'.pc = pc /\ import'.at = at /\ import'.changes = c /\ Item(j)' = Item(j) /\ before' = before
      BY <1>0, <1>4, <1>5 DEF Leaves
    <3>6. c[j].applied
      BY <1>3
    <3> QED BY <3>1, <3>2, <3>3, <3>4, <3>5, <3>6 DEF ItemTold
  <2>7. pc = "members" => \E r \in Named(rows', "group", Item(j).name) :
                             r.text = Item(j).text /\ r.id = IdOf(before, "group", r.name)
    BY <1>0, <2>1 DEF Named
  <2>8. Told'
    <3>1. \A i \in DOMAIN Items(f) : Firm(Item(i))' /\ ItemTold(i)'
      BY <1>5, <2>2, <2>5, <2>6 DEF Firm
    <3>2. import'.pc = pc /\ import'.file = f /\ (pc = "members" => import'.at = j)
      BY <1>0, <1>4 DEF Leaves
    <3>3. pc = "members" => \E r \in Named(rows', "group", Item(import.at)'.name) :
                             r.text = Item(import.at)'.text /\ r.id = IdOf(before', "group", r.name)
      BY <1>0, <1>5, <2>7, <3>2
    <3> QED BY <2>3, <2>4, <3>1, <3>2, <3>3 DEF Told
  <2> QED BY <1>0, <1>4, <1>7, <2>8, ImportStepSuffices DEF Leaves
<1> QED BY <1>8, <1>9

\* Groups and targets, written out; their fields set.
GroupRow(i, n, t, m) == [kind |-> "group", id |-> i, name |-> n, text |-> t, members |-> m]
HostRow(i, n, t) == [kind |-> "target", id |-> i, name |-> n, text |-> t]

\* A group and a target of the tables are their fields.
LEMMA RowForms ==
  ASSUME NEW r, IsRow(r)
  PROVE  /\ r.name # NoName
         /\ r.kind = "group" => \E i, n, t, m : r = GroupRow(i, n, t, m)
         /\ r.kind = "target" => \E i, n, t : r = HostRow(i, n, t)
<1>1. ASSUME r.kind = "group" PROVE \E i, n, t, m : r = GroupRow(i, n, t, m)
  <2>1. r = GroupRow(r.id, r.name, r.text, r.members)
    BY <1>1, Zenon DEF IsRow, GroupRow
  <2> QED BY <2>1
<1>2. ASSUME r.kind = "target" PROVE \E i, n, t : r = HostRow(i, n, t)
  <2>1. r = HostRow(r.id, r.name, r.text)
    BY <1>2, Zenon DEF IsRow, HostRow
  <2> QED BY <2>1
<1>3. r.name # NoName
  BY Zenon DEF IsRow
<1> QED BY <1>1, <1>2, <1>3

\* A record of those fields with a name is a row.
LEMMA FormsAreRows ==
  ASSUME NEW i, NEW n, NEW t, NEW m, n # NoName
  PROVE  /\ IsRow(GroupRow(i, n, t, m)) /\ IsRow(HostRow(i, n, t))
         /\ GroupRow(i, n, t, m).kind = "group" /\ HostRow(i, n, t).kind = "target"
         /\ GroupRow(i, n, t, m).id = i /\ HostRow(i, n, t).id = i
         /\ GroupRow(i, n, t, m).name = n /\ HostRow(i, n, t).name = n
         /\ GroupRow(i, n, t, m).text = t /\ HostRow(i, n, t).text = t
         /\ GroupRow(i, n, t, m).members = m
BY DEF GroupRow, HostRow, IsRow, RowKinds

Retitled(r, n, t) == [r EXCEPT !.name = n, !.text = t]

\* Setting name and text leaves a group a group and a target a target.
LEMMA RowSet ==
  ASSUME NEW r, IsRow(r), NEW n, n # NoName, NEW t, r.kind \in {"group", "target"}
  PROVE  /\ IsRow(Retitled(r, n, t)) /\ Retitled(r, n, t).kind = r.kind /\ Retitled(r, n, t).id = r.id
         /\ Retitled(r, n, t).name = n /\ Retitled(r, n, t).text = t
<1>0. Retitled(r, n, t) = [[r EXCEPT !.name = n] EXCEPT !.text = t]
  BY DEF Retitled
<1>1. CASE r.kind = "group"
  <2>1. PICK i, n0, t0, m : r = GroupRow(i, n0, t0, m)
    BY <1>1, RowForms
  <2>2. [r EXCEPT !.name = n] = GroupRow(i, n, t0, m) /\ [GroupRow(i, n, t0, m) EXCEPT !.text = t] = GroupRow(i, n, t, m)
    BY <2>1 DEF GroupRow
  <2>3. Retitled(r, n, t) = GroupRow(i, n, t, m) /\ r.id = i
    BY <1>0, <2>1, <2>2 DEF GroupRow
  <2> QED BY <1>1, <2>3, FormsAreRows
<1>2. CASE r.kind = "target"
  <2>1. PICK i, n0, t0 : r = HostRow(i, n0, t0)
    BY <1>2, RowForms
  <2>2. [r EXCEPT !.name = n] = HostRow(i, n, t0) /\ [HostRow(i, n, t0) EXCEPT !.text = t] = HostRow(i, n, t)
    BY <2>1 DEF HostRow
  <2>3. Retitled(r, n, t) = HostRow(i, n, t) /\ r.id = i
    BY <1>0, <2>1, <2>2 DEF HostRow
  <2> QED BY <1>2, <2>3, FormsAreRows
<1> QED BY <1>1, <1>2

\* Setting the members leaves a group a group.
LEMMA MembersSet ==
  ASSUME NEW r, IsRow(r), NEW m, r.kind = "group"
  PROVE  LET w == [r EXCEPT !.members = m]
         IN  IsRow(w) /\ w.kind = "group" /\ w.id = r.id /\ w.name = r.name /\ w.text = r.text /\ w.members = m
<1>1. PICK i, n, t, m0 : r = GroupRow(i, n, t, m0)
  BY RowForms
<1>2. [r EXCEPT !.members = m] = GroupRow(i, n, t, m) /\ r.id = i /\ r.name = n /\ r.text = t
  BY <1>1 DEF GroupRow
<1>3. n # NoName
  BY <1>2, RowForms
<1> QED BY <1>2, <1>3, FormsAreRows

\* Where an import that applies a change stands.
LEMMA AtWork ==
  ASSUME ImportIInv, import.pc \in Active, import.at <= Len(Items(import.file))
  PROVE  /\ import.file \in Documents /\ import.at \in DOMAIN Items(import.file) /\ Placed(import.at)
         /\ import.changes \in [DOMAIN Items(import.file) -> Changes]
         /\ Item(import.at).kind \in RowKinds /\ Item(import.at).name # NoName
         /\ import.pc # "members" => ~import.changes[import.at].applied
         /\ Item(import.at).kind = "policy" => Item(import.at).subjects \in Seq(STRING) /\ Item(import.at).targets \in Seq(STRING)
<1>1. /\ import.file \in Documents /\ import.at \in Nat /\ import.at >= 1 /\ \A i \in DOMAIN Items(import.file) : Placed(i)
      /\ import.changes \in [DOMAIN Items(import.file) -> Changes]
  BY DEF ImportIInv, ImportShape, Active
<1>2. DOMAIN Items(import.file) = 1 .. Len(Items(import.file)) /\ Len(Items(import.file)) \in Nat
  BY <1>1, ItemsTyped
<1>3. import.at \in DOMAIN Items(import.file)
  BY <1>1, <1>2
<1>4. Placed(import.at)
  BY <1>1, <1>3
<1>5. /\ Item(import.at).kind \in RowKinds
      /\ Item(import.at).kind = "policy" => Item(import.at).subjects \in Seq(STRING) /\ Item(import.at).targets \in Seq(STRING)
  BY <1>1, <1>3, ItemsTyped DEF Item
<1>6. Item(import.at).name # NoName /\ (import.pc # "members" => ~import.changes[import.at].applied)
  BY <1>4 DEF Placed
<1> QED BY <1>1, <1>3, <1>4, <1>5, <1>6

\* What Onward leaves.
LEMMA OnwardIs ==
  ASSUME ImportIInv, NEW pc
  PROVE  Leaves(Onward(pc), pc, import.file, import.seen, IF pc = "members" THEN import.at ELSE import.at + 1,
                [import.changes EXCEPT ![import.at].applied = TRUE], import.body)
<1> DEFINE c == [import.changes EXCEPT ![import.at].applied = TRUE]
           a == IF pc = "members" THEN import.at ELSE import.at + 1
<1>1. Onward(pc) = [import EXCEPT !.changes = c, !.pc = pc, !.at = a]
  BY DEF Onward
<1> HIDE DEF c, a
<1>2. IsImport(import)
  BY StillBounds
<1>3. Leaves([import EXCEPT !.changes = c, !.pc = pc, !.at = a], pc, import.file, import.seen, a, c, import.body)
  BY <1>2, ImportSet, Zenon
<1>4. Leaves(Onward(pc), pc, import.file, import.seen, a, c, import.body)
  BY <1>1, <1>3, Zenon
<1> QED BY <1>4 DEF c, a

\* A create call answered with success, or refused because the name is taken.
LEMMA CreateStep ==
  ASSUME ImportIInv, KeepsDesk, Applying(Item(import.at).kind), Item(import.at).kind # "policy",
         NEW rec, IsRow(rec), rec.kind = Item(import.at).kind, rec.name = Item(import.at).name, rec.id = issued + 1,
         \A S : Same(S, rec, Item(import.at)), Create(rec)
  PROVE  ImportIInv'
<1>0. import.pc = "run" /\ import.at <= Len(Items(import.file)) /\ import.changes[import.at].action # "unchanged"
  BY DEF Applying
<1>1. import.at \in DOMAIN Items(import.file)
  BY <1>0, AtWork DEF Active
<1>2. issued \in 0 .. MaxId /\ issued \in Nat /\ IsStore(rows, issued) /\ refused \in 0 .. MaxRefusals /\ MaxId \in Nat /\ refused' = refused
  BY StillBounds, ImportAssumption DEF Create
<1>3. CASE RefuseCall
  BY <1>0, <1>1, <1>2, <1>3, RefusedStep
<1>4. CASE ~RefuseCall
  <2>1. /\ Named(rows, rec.kind, rec.name) = {} /\ issued < MaxId /\ issued' = issued + 1
        /\ rows' = rows \cup {rec} /\ import' = Onward("run")
    BY <1>4 DEF Create
  <2>2. issued' \in 0 .. MaxId /\ issued' \in Nat /\ issued' >= issued /\ rec.id \in issued + 1 .. issued'
    BY <1>2, <2>1
  <2>3. IsStore(rows', issued') /\ Changed(rows, rows', rec)
    BY <1>2, <2>1, <2>2, StoreAdd
  <2>4. Leaves(import', "run", import.file, import.seen, import.at + 1, [import.changes EXCEPT ![import.at].applied = TRUE], import.body)
    BY <2>1, OnwardIs
  <2>5. rec \in rows'
    BY <2>1
  <2> QED BY <1>0, <1>1, <1>2, <2>2, <2>3, <2>4, <2>5, BroughtIn
<1> QED BY <1>3, <1>4

\* An update call by the id of the first reading.
LEMMA UpdateStep ==
  ASSUME ImportIInv, KeepsDesk, NEW k, Applying(k), NEW pc, Update(Item(import.at), pc),
         (k = "group" /\ pc = "members") \/ (k = "target" /\ pc = "run")
  PROVE  ImportIInv'
<1> PICK d : d = Item(import.at)
  OBVIOUS
<1> DEFINE id == IdOf(import.seen, d.kind, d.name)
           old == {r \in OfKind(rows, d.kind) : r.id = id}
<1>0. import.pc = "run" /\ import.at <= Len(Items(import.file)) /\ import.changes[import.at].action # "unchanged" /\ d.kind = k
  BY DEF Applying
<1>1. import.at \in DOMAIN Items(import.file) /\ d.name # NoName /\ ~import.changes[import.at].applied
  BY <1>0, AtWork DEF Active
<1>2. /\ issued \in 0 .. MaxId /\ issued \in Nat /\ IsStore(rows, issued) /\ refused \in 0 .. MaxRefusals /\ MaxId \in Nat
      /\ refused' = refused /\ import.changes[import.at].action = "update"
  BY StillBounds, ImportAssumption DEF Update
<1>3. CASE RefuseCall
  BY <1>0, <1>1, <1>2, <1>3, RefusedStep
<1>4. CASE ~RefuseCall
  <2>1. /\ old # {} /\ \A r \in Named(rows, d.kind, d.name) : r.id = id
        /\ rows' = (rows \ old) \cup {[r EXCEPT !.name = d.name, !.text = d.text] : r \in old}
        /\ import' = Onward(pc) /\ issued' = issued
    BY <1>4 DEF Update
  <2>a. issued' = issued /\ import' = Onward(pc)
    BY <2>1, Zenon
  <2>b. \A r \in Named(rows, d.kind, d.name) : r.id = id
    BY <2>1, Zenon
  <2> HIDE DEF id
  <2>2. PICK b \in old : TRUE
    BY <2>1
  <2> DEFINE rec == Retitled(b, d.name, d.text)
  <2>3. b \in rows /\ b.kind = d.kind /\ b.id = id /\ IsRow(b)
    BY <1>2, <2>2 DEF OfKind, IsStore
  <2>4. old = {b}
    BY <1>2, <2>3 DEF OfKind, IsStore
  <2>5. IsRow(rec) /\ rec.kind = b.kind /\ rec.id = b.id /\ rec.name = d.name /\ rec.text = d.text
    <3>1. b.kind \in {"group", "target"}
      BY <1>0, <2>3
    <3> QED BY <1>1, <2>3, <3>1, RowSet
  <2>6. rows' = (rows \ {b}) \cup {rec}
    BY <2>1, <2>4 DEF Retitled
  <2> HIDE DEF rec, old
  <2>7. Named(rows, rec.kind, rec.name) \subseteq {b}
    BY <1>2, <2>b, <2>3, <2>5 DEF IsStore, Named
  <2>8. IsStore(rows', issued') /\ (rec.name = b.name => Changed(rows, rows', rec)) /\ rec \in rows'
    BY <1>2, <2>a, <2>3, <2>5, <2>6, <2>7, StoreSwap
  <2>9. Leaves(import', pc, import.file, import.seen, IF pc = "members" THEN import.at ELSE import.at + 1,
               [import.changes EXCEPT ![import.at].applied = TRUE], import.body)
    BY <2>a, OnwardIs
  <2>10. ASSUME quiet PROVE rec.name = b.name /\ rec.id = IdOf(before, d.kind, rec.name)
    <3>1. /\ import.seen = before /\ IsStore(before, issued)
          /\ Named(before, d.kind, d.name) # {} /\ Named(rows, d.kind, d.name) = Named(before, d.kind, d.name)
      BY <1>0, <1>1, <1>2, <2>10 DEF ImportIInv, Told, ReadingsKnow, ItemTold, Active
    <3>2. PICK x \in Named(before, d.kind, d.name) : TRUE
      BY <3>1
    <3>3. id = x.id
      BY <3>1, <3>2, IdFound DEF id
    <3>4. x \in rows /\ x.name = d.name
      BY <3>1, <3>2 DEF Named
    <3>5. x = b
      BY <1>2, <2>3, <3>3, <3>4 DEF IsStore
    <3> QED BY <2>3, <2>5, <3>1, <3>3, <3>4, <3>5 DEF id
  <2>11. pc = "run" => Same(rows', rec, d)
    BY <1>0, <2>3, <2>5 DEF Same
  <2>12. issued' \in 0 .. MaxId /\ issued' >= issued
    BY <1>2, <2>a
  <2>13. quiet => \E w \in rows' :
                    /\ w.kind = d.kind /\ w.name = d.name /\ Changed(rows, rows', w)
                    /\ pc # "members" => Same(rows', w, d)
                    /\ pc = "members" => w.text = d.text /\ w.id = IdOf(before, "group", w.name)
    BY <1>0, <2>3, <2>5, <2>8, <2>10, <2>11
  <2>14. CASE pc = "members"
    BY <1>0, <1>1, <1>2, <2>8, <2>9, <2>12, <2>13, <2>14, BroughtIn
  <2>15. CASE pc = "run"
    BY <1>0, <1>1, <1>2, <2>8, <2>9, <2>12, <2>13, <2>15, BroughtIn
  <2> QED BY <2>14, <2>15
<1> QED BY <1>3, <1>4

\* run, over the groups.
LEMMA RunGroupStep == ASSUME ImportIInv, RunGroup PROVE ImportIInv'
<1> PICK d : d = Item(import.at)
  OBVIOUS
<1>0. Applying("group") /\ KeepsDesk /\ d.kind = "group" /\ import.pc = "run" /\ import.at <= Len(Items(import.file))
  BY DEF RunGroup, Applying
<1>1. import.at \in DOMAIN Items(import.file) /\ d.name # NoName
  BY <1>0, AtWork DEF Active
<1>2. CASE TurnedDown
  <2>1. RefuseCall /\ refused' \in 0 .. MaxRefusals
    BY <1>2, StillBounds DEF TurnedDown
  <2> QED BY <1>0, <1>1, <2>1, RefusedStep
<1>3. CASE Create([kind |-> "group", id |-> issued + 1, name |-> d.name, text |-> d.text, members |-> d.members])
  <2> DEFINE rec == GroupRow(issued + 1, d.name, d.text, d.members)
  <2>1. Create(rec)
    BY <1>3 DEF GroupRow
  <2>2. IsRow(rec) /\ rec.kind = "group" /\ rec.name = d.name /\ rec.id = issued + 1 /\ rec.text = d.text /\ rec.members = d.members
    BY <1>1, FormsAreRows
  <2> HIDE DEF rec
  <2>3. \A S : Same(S, rec, d)
    BY <2>2 DEF Same
  <2> QED BY <1>0, <2>1, <2>2, <2>3, CreateStep
<1>4. CASE Update(Item(import.at), "members")
  BY <1>0, <1>4, UpdateStep
<1> QED BY <1>2, <1>3, <1>4 DEF RunGroup

\* run, over the targets.
LEMMA RunTargetStep == ASSUME ImportIInv, RunTarget PROVE ImportIInv'
<1> PICK d : d = Item(import.at)
  OBVIOUS
<1>0. Applying("target") /\ KeepsDesk /\ d.kind = "target" /\ import.pc = "run" /\ import.at <= Len(Items(import.file))
  BY DEF RunTarget, Applying
<1>1. import.at \in DOMAIN Items(import.file) /\ d.name # NoName
  BY <1>0, AtWork DEF Active
<1>2. CASE TurnedDown
  <2>1. RefuseCall /\ refused' \in 0 .. MaxRefusals
    BY <1>2, StillBounds DEF TurnedDown
  <2> QED BY <1>0, <1>1, <2>1, RefusedStep
<1>3. CASE Create([kind |-> "target", id |-> issued + 1, name |-> d.name, text |-> d.text])
  <2> DEFINE rec == HostRow(issued + 1, d.name, d.text)
  <2>1. Create(rec)
    BY <1>3 DEF HostRow
  <2>2. IsRow(rec) /\ rec.kind = "target" /\ rec.name = d.name /\ rec.id = issued + 1 /\ rec.text = d.text
    BY <1>1, FormsAreRows
  <2> HIDE DEF rec
  <2>3. \A S : Same(S, rec, d)
    BY <2>2 DEF Same
  <2> QED BY <1>0, <2>1, <2>2, <2>3, CreateStep
<1>4. CASE Update(Item(import.at), "run")
  BY <1>0, <1>4, UpdateStep
<1> QED BY <1>2, <1>3, <1>4 DEF RunTarget

\* The second call of a group's update.
LEMMA RunMembersStep == ASSUME ImportIInv, RunMembers PROVE ImportIInv'
<1> PICK d : d = Item(import.at)
  OBVIOUS
<1> DEFINE id == IdOf(import.seen, "group", d.name)
           old == {r \in OfKind(rows, "group") : r.id = id}
<1>0. KeepsDesk /\ import.pc = "members"
  BY DEF RunMembers
<1>1. import.at \in DOMAIN Items(import.file) /\ d.kind = "group"
  BY <1>0 DEF ImportIInv, ImportShape
<1>2. issued \in 0 .. MaxId /\ issued \in Nat /\ IsStore(rows, issued) /\ refused \in 0 .. MaxRefusals
  BY StillBounds
<1>3. CASE TurnedDown
  <2>1. RefuseCall /\ refused' \in 0 .. MaxRefusals
    BY <1>3, StillBounds DEF TurnedDown
  <2> QED BY <1>0, <1>1, <2>1, RefusedStep
<1>4. CASE ~TurnedDown
  <2>0. /\ refused' = refused
        /\ IF old = {} THEN RefuseCall
           ELSE /\ rows' = (rows \ old) \cup {[r EXCEPT !.members = d.members] : r \in old}
                /\ import' = Onward("run") /\ issued' = issued
    BY <1>4 DEF RunMembers
  <2> HIDE DEF id
  <2>1. CASE old = {}
    BY <1>0, <1>1, <1>2, <2>0, <2>1, RefusedStep
  <2>2. CASE old # {}
    <3>1. PICK b \in old : TRUE
      BY <2>2
    <3>2. b \in rows /\ b.kind = "group" /\ b.id = id /\ IsRow(b)
      BY <1>2, <3>1 DEF OfKind, IsStore
    <3>3. old = {b}
      BY <1>2, <3>2 DEF OfKind, IsStore
    <3> DEFINE rec == [b EXCEPT !.members = d.members]
    <3>4. IsRow(rec) /\ rec.kind = "group" /\ rec.id = b.id /\ rec.name = b.name /\ rec.text = b.text /\ rec.members = d.members
      BY <3>2, MembersSet, Zenon
    <3>5. rows' = (rows \ {b}) \cup {rec}
      BY <2>0, <2>2, <3>3
    <3>6. import' = Onward("run") /\ issued' = issued /\ refused' = refused
      BY <2>0, <2>2
    <3> HIDE DEF rec, old
    <3>7. Named(rows, rec.kind, rec.name) \subseteq {b}
      BY <1>2, <3>2, <3>4 DEF IsStore, Named
    <3>8. IsStore(rows', issued') /\ Changed(rows, rows', rec) /\ rec \in rows'
      BY <1>2, <3>2, <3>4, <3>5, <3>6, <3>7, StoreSwap
    <3>9. Leaves(import', "run", import.file, import.seen, import.at + 1,
                 [import.changes EXCEPT ![import.at].applied = TRUE], import.body)
      BY <3>6, OnwardIs
    <3>10. ASSUME quiet PROVE b.name = d.name /\ b.text = d.text
      <4>1. import.seen = before
        BY <1>0, <3>10 DEF ImportIInv, Told, ReadingsKnow
      <4>2. PICK r \in Named(rows, "group", d.name) : r.text = d.text /\ r.id = IdOf(before, "group", r.name)
        BY <1>0, <3>10 DEF ImportIInv, Told
      <4>3. r \in rows /\ r.name = d.name /\ r.id = id
        BY <4>1, <4>2 DEF Named, id
      <4>4. r = b
        BY <1>2, <3>2, <4>3 DEF IsStore
      <4> QED BY <4>2, <4>3, <4>4
    <3>11. quiet => Same(rows', rec, d) /\ rec.name = d.name
      BY <1>1, <3>4, <3>10 DEF Same
    <3>12. issued' \in 0 .. MaxId /\ issued' >= issued
      BY <1>2, <3>6
    <3>13. quiet => \E w \in rows' :
                    /\ w.kind = d.kind /\ w.name = d.name /\ Changed(rows, rows', w) /\ Same(rows', w, d)
      BY <1>1, <3>4, <3>8, <3>11
    <3> QED BY <1>0, <1>1, <3>6, <3>8, <3>9, <3>12, <3>13, BroughtIn
  <2> QED BY <2>1, <2>2
<1> QED BY <1>3, <1>4

\* run passes over what is unchanged.
LEMMA RunSkipStep == ASSUME ImportIInv, RunSkip PROVE ImportIInv'
<1>0. /\ import.pc = "run" /\ import.at <= Len(Items(import.file)) /\ import.changes[import.at].action = "unchanged"
      /\ import' = [import EXCEPT !.at = import.at + 1] /\ UNCHANGED <<rows, issued, refused>> /\ KeepsDesk
  BY DEF RunSkip
<1>1. Leaves(import', "run", import.file, import.seen, import.at + 1, import.changes, import.body)
  <2>1. Leaves([import EXCEPT !.at = import.at + 1], import.pc, import.file, import.seen, import.at + 1, import.changes, import.body)
    BY StillBounds, ImportSet, Zenon
  <2> QED BY <1>0, <2>1
<1>2. (import.at + 1) - 1 = import.at /\ import.at \in DOMAIN import.changes
  BY <1>0, AtWork, StillBounds DEF Active
<1> QED BY <1>0, <1>1, <1>2, MovedOn

\* run comes to the policies and reads again.
LEMMA RunAgainStep == ASSUME ImportIInv, RunAgain PROVE ImportIInv'
<1>0. /\ import.pc = "run" /\ \A i \in import.at .. Len(Items(import.file)) : Item(i).kind = "policy"
      /\ import' = [import EXCEPT !.pc = "groups2"] /\ UNCHANGED <<rows, issued, refused>> /\ KeepsDesk
  BY DEF RunAgain
<1>1. Leaves(import', "groups2", import.file, import.seen, import.at, import.changes, import.body)
  BY <1>0, StillBounds, ImportSet, Zenon
<1> QED BY <1>0, <1>1, MovedOn

\* run is through.
LEMMA RunEndsStep == ASSUME ImportIInv, RunEnds PROVE ImportIInv'
<1>0. /\ import.pc = "resolve" /\ import.at > Len(Items(import.file))
      /\ import' = [import EXCEPT !.pc = "done"] /\ UNCHANGED <<rows, issued, refused>> /\ KeepsDesk
  BY DEF RunEnds
<1>1. Leaves(import', "done", import.file, import.seen, import.at, import.changes, import.body)
  BY <1>0, StillBounds, ImportSet, Zenon
<1> QED BY <1>0, <1>1, MovedOn

\* writePolicy, and the handler's reads and checks.
LEMMA RunResolveStep == ASSUME ImportIInv, RunResolve PROVE ImportIInv'
<1> PICK d : d = Item(import.at)
  OBVIOUS
<1> PICK body : body = BodyOf(import.seen, d)
  OBVIOUS
<1>0. import.pc = "resolve" /\ import.at <= Len(Items(import.file)) /\ KeepsDesk /\ refused' = refused
  BY DEF RunResolve
<1>1. import.at \in DOMAIN Items(import.file) /\ import.at \in DOMAIN import.changes
  BY <1>0, AtWork DEF Active
<1>2. IsStore(rows, issued) /\ refused \in 0 .. MaxRefusals /\ import.at \in Nat
  BY StillBounds
<1>3. CASE import.changes[import.at].action = "unchanged"
  <2>1. import' = [import EXCEPT !.at = import.at + 1] /\ UNCHANGED <<rows, issued>>
    BY <1>3 DEF RunResolve
  <2>2. Leaves([import EXCEPT !.at = import.at + 1], import.pc, import.file, import.seen, import.at + 1, import.changes, import.body)
    BY StillBounds, ImportSet, Zenon
  <2>3. Leaves(import', "resolve", import.file, import.seen, import.at + 1, import.changes, import.body)
    BY <1>0, <2>1, <2>2
  <2>4. (import.at + 1) - 1 = import.at
    BY <1>2
  <2> QED BY <1>0, <1>1, <1>3, <2>1, <2>3, <2>4, MovedOn
<1>4. CASE import.changes[import.at].action # "unchanged"
  <2>1. CASE RefuseCall
    BY <1>0, <1>1, <1>2, <2>1, RefusedStep
  <2>2. CASE ~RefuseCall
    <3> DEFINE stored == {r \in OfKind(rows, "policy") : r.id = body.id}
    <3>1. /\ ~Unknown(import.seen, d) /\ ~(body.id # 0 /\ stored = {})
          /\ import' = [import EXCEPT !.body = {body}, !.pc = "store"] /\ UNCHANGED <<rows, issued>>
      BY <1>4, <2>2 DEF RunResolve
    <3>2. Leaves(import', "store", import.file, import.seen, import.at, import.changes, {body})
      BY <3>1, StillBounds, ImportSet, Zenon
    <3>3. body.id \in 0 .. issued
      BY <1>2, <3>1, StillBounds DEF OfKind, IsStore
    <3> QED BY <1>0, <1>1, <1>4, <3>1, <3>2, <3>3, MovedOn
  <2> QED BY <2>1, <2>2
<1> QED BY <1>3, <1>4

\* A name of a list that is known by its id is found again under it.
LEMMA IdKnown ==
  ASSUME NEW S, NEW C, NEW A, NEW m, NEW n, IsStore(A, m), IsStore(C, n), NEW k,
         OfKind(S, k) = OfKind(A, k), OfKind(C, k) = OfKind(A, k), NEW x, Named(S, k, x) # {}
  PROVE  NameOf(C, IdOf(S, k, x)) = x
<1>1. Named(S, k, x) = Named(A, k, x) /\ Named(C, k, x) = Named(A, k, x)
  BY DEF Named, OfKind
<1>2. PICK r \in Named(C, k, x) : TRUE
  BY <1>1
<1>3. IdOf(C, k, x) = r.id /\ Named(C, k, x) = {r}
  BY <1>2, IdFound
<1>4. IdOf(S, k, x) = r.id
  BY <1>1, <1>3 DEF IdOf
<1>5. r \in C /\ r.name = x
  BY DEF Named
<1> QED BY <1>4, <1>5, NameFound

\* A row is an entry's, its names looked up in a reading.
Resolved(S, rec, d) ==
    /\ rec.kind = "policy" /\ rec.name = d.name /\ rec.text = d.text
    /\ rec.subjects = {IdOf(S, "group", x) : x \in ToSet(d.subjects)}
    /\ rec.targets = [i \in 1 .. Len(d.targets) |-> IdOf(S, "target", d.targets[i])]

\* A policy of the file, resolved in a reading of the rows, is what the file says.
LEMMA BodySame ==
  ASSUME NEW S, NEW C, NEW A, NEW m, NEW n, IsStore(A, m), IsStore(C, n), NEW d, d.kind = "policy",
         d.targets \in Seq(STRING), d.subjects \in Seq(STRING), ~Unknown(S, d),
         OfKind(S, "group") = OfKind(A, "group"), OfKind(C, "group") = OfKind(A, "group"),
         OfKind(S, "target") = OfKind(A, "target"), OfKind(C, "target") = OfKind(A, "target"),
         NEW rec, Resolved(S, rec, d)
  PROVE  Same(C, rec, d)
<1>1. (\A x \in ToSet(d.subjects) : Named(S, "group", x) # {}) /\ (\A x \in ToSet(d.targets) : Named(S, "target", x) # {})
  BY DEF Unknown
<1>2. \A x \in ToSet(d.subjects) : NameOf(C, IdOf(S, "group", x)) = x
  BY <1>1, IdKnown
<1>3. \A x \in ToSet(d.targets) : NameOf(C, IdOf(S, "target", x)) = x
  BY <1>1, IdKnown
<1>4. {NameOf(C, i) : i \in rec.subjects} = ToSet(d.subjects)
  <2>1. {NameOf(C, i) : i \in {IdOf(S, "group", x) : x \in ToSet(d.subjects)}} = {NameOf(C, IdOf(S, "group", x)) : x \in ToSet(d.subjects)}
    OBVIOUS
  <2>2. {NameOf(C, IdOf(S, "group", x)) : x \in ToSet(d.subjects)} = ToSet(d.subjects)
    BY <1>2
  <2> QED BY <2>1, <2>2 DEF Resolved
<1>5. Len(d.targets) \in Nat /\ DOMAIN d.targets = 1 .. Len(d.targets)
  OBVIOUS
<1>6. ASSUME NEW i \in 1 .. Len(d.targets) PROVE NameOf(C, rec.targets[i]) = d.targets[i]
  <2>1. d.targets[i] \in ToSet(d.targets)
    BY <1>5 DEF ToSet
  <2>2. rec.targets[i] = IdOf(S, "target", d.targets[i])
    BY DEF Resolved
  <2> QED BY <1>3, <2>1, <2>2
<1>7. Len(rec.targets) = Len(d.targets)
  BY <1>5 DEF Resolved
<1> QED BY <1>4, <1>6, <1>7 DEF Same, Resolved

\* The policy's transaction.
LEMMA RunStoreStep == ASSUME ImportIInv, RunStore PROVE ImportIInv'
<1> PICK d : d = Item(import.at)
  OBVIOUS
<1> PICK seen0 : seen0 = import.seen
  OBVIOUS
<1>0. /\ KeepsDesk /\ import.pc = "store" /\ import.at \in DOMAIN Items(import.file) /\ ~Unknown(seen0, d)
      /\ import.body = {BodyOf(seen0, d)} /\ BodyOf(seen0, d).id \in 0 .. issued
      /\ import.file \in Documents
  BY DEF RunStore, ImportIInv, ImportShape
<1>1. issued \in 0 .. MaxId /\ issued \in Nat /\ IsStore(rows, issued) /\ refused \in 0 .. MaxRefusals
  BY StillBounds
<1>2. import.at \in Nat /\ import.at <= Len(Items(import.file)) /\ Len(Items(import.file)) \in Nat
  BY <1>0, ItemsTyped
<1>3. d.name # NoName /\ Placed(import.at) /\ ~import.changes[import.at].applied
  BY <1>0, <1>2, AtWork DEF Active
<1>4. d.kind = "policy" /\ d.subjects \in Seq(STRING) /\ d.targets \in Seq(STRING)
  <2>1. d.kind = "policy"
    BY <1>0, <1>2, <1>3 DEF Placed
  <2> QED BY <1>0, <1>2, <2>1, AtWork DEF Active
<1>5. PICK p : /\ p = BodyOf(seen0, d)
               /\ \/ TurnedDown
                  \/ /\ Stands(p) /\ StorePolicy(p)
                     /\ import' = [Onward("resolve") EXCEPT !.body = {}] /\ UNCHANGED refused
                  \/ ~Stands(p) /\ RefuseCall /\ UNCHANGED refused
  BY <1>0 DEF RunStore
<1>6. CASE TurnedDown
  <2>1. RefuseCall /\ refused' \in 0 .. MaxRefusals
    BY <1>6, StillBounds DEF TurnedDown
  <2> QED BY <1>0, <2>1, RefusedStep
<1>7. CASE RefuseCall /\ UNCHANGED refused
  BY <1>0, <1>1, <1>7, RefusedStep
<1>8. CASE /\ Stands(p) /\ StorePolicy(p)
           /\ import' = [Onward("resolve") EXCEPT !.body = {}] /\ UNCHANGED refused
  <2> DEFINE old == Named(seen0, "policy", d.name)
             pid == IF old = {} THEN 0 ELSE IdOf(seen0, "policy", d.name)
             grant == IF \E r \in old : r.targets # <<>> THEN (CHOOSE r \in old : TRUE).grant ELSE 0
             subjects == {IdOf(seen0, "group", x) : x \in ToSet(d.subjects)}
             targets == [i \in 1 .. Len(d.targets) |-> IdOf(seen0, "target", d.targets[i])]
  <2>1. p = [kind |-> "policy", name |-> d.name, text |-> d.text, id |-> pid, grant |-> grant, subjects |-> subjects, targets |-> targets]
    BY <1>5 DEF BodyOf
  <2> HIDE DEF grant, subjects, targets, pid
  <2>2. p = PolicyRow(pid, d.name, d.text, subjects, grant, targets)
    BY <2>1 DEF PolicyRow
  <2>3. IsPolicy(p) /\ p.id = pid /\ p.name = d.name /\ p.text = d.text /\ p.subjects = subjects /\ p.targets = targets
    <3>1. IsPolicy(p)
      BY <1>3, <2>2 DEF IsPolicy
    <3> QED BY <2>1, <3>1
  <2>4. PICK rec \in rows' :
          /\ rec.kind = "policy" /\ rec.name = p.name /\ rec.text = p.text
          /\ rec.subjects = p.subjects /\ rec.targets = p.targets
          /\ (\A b \in OfKind(rows, "policy") : b.id = p.id => b.name = p.name) => Changed(rows, rows', rec)
    <3>1. p.id \in 0 .. issued
      BY <1>0, <1>5
    <3> QED BY <1>1, <1>8, <2>3, <3>1, PolicyStored
  <2>5. issued' \in 0 .. MaxId /\ issued' >= issued /\ IsStore(rows', issued')
    <3>1. p.id \in 0 .. issued
      BY <1>0, <1>5
    <3> QED BY <1>1, <1>8, <2>3, <3>1, PolicyStored
  <2>6. Leaves(import', "resolve", import.file, import.seen, import.at + 1, [import.changes EXCEPT ![import.at].applied = TRUE], {})
    <3> DEFINE o == Onward("resolve")
    <3>1. Leaves(o, "resolve", import.file, import.seen, import.at + 1, [import.changes EXCEPT ![import.at].applied = TRUE], import.body)
      BY OnwardIs
    <3> HIDE DEF o
    <3>2. IsImport(o)
      BY <3>1 DEF Leaves
    <3>3. Leaves([o EXCEPT !.body = {}], o.pc, o.file, o.seen, o.at, o.changes, {})
      BY <3>2, ImportSet, Zenon
    <3>4. import' = [o EXCEPT !.body = {}]
      BY <1>8 DEF o
    <3> QED BY <3>1, <3>3, <3>4 DEF Leaves
  <2>7. ASSUME quiet PROVE Changed(rows, rows', rec) /\ Same(rows', rec, d)
    <3>1. /\ OfKind(seen0, "group") = OfKind(rows, "group") /\ OfKind(seen0, "policy") = OfKind(before, "policy")
          /\ OfKind(seen0, "target") = OfKind(rows, "target") /\ IsStore(before, issued)
      BY <1>0, <2>7 DEF ImportIInv, Told, ReadingsKnow
    <3>2. Named(rows, "policy", d.name) = Named(before, "policy", d.name)
      BY <1>0, <1>3, <1>4, <2>7 DEF ImportIInv, Told, ItemTold, Active
    <3>3. old = Named(rows, "policy", d.name)
      BY <3>1, <3>2 DEF Named, OfKind
    <3>4. ASSUME NEW b \in OfKind(rows, "policy"), b.id = pid PROVE b.name = d.name
      <4>1. b \in rows /\ b.id # 0
        BY <1>1 DEF OfKind, IsStore
      <4>2. old # {} /\ pid = IdOf(seen0, "policy", d.name)
        BY <3>4, <4>1 DEF pid
      <4>3. PICK x \in Named(rows, "policy", d.name) : TRUE
        BY <3>3, <4>2
      <4>4. IdOf(rows, "policy", d.name) = x.id /\ IdOf(seen0, "policy", d.name) = IdOf(rows, "policy", d.name)
        BY <1>1, <3>3, <4>3, IdFound DEF IdOf
      <4>5. x \in rows /\ x.name = d.name
        BY DEF Named
      <4>6. b = x
        BY <1>1, <3>4, <4>1, <4>2, <4>4, <4>5 DEF IsStore
      <4> QED BY <4>5, <4>6
    <3>5. Changed(rows, rows', rec)
      BY <2>3, <2>4, <3>4
    <3>6. OfKind(rows', "group") = OfKind(rows, "group") /\ OfKind(rows', "target") = OfKind(rows, "target")
      BY <2>4, <3>5, KindsKept
    <3>7. Resolved(seen0, rec, d)
      BY <2>3, <2>4 DEF subjects, targets, Resolved
    <3>8. Same(rows', rec, d)
      BY <1>0, <1>1, <1>4, <2>5, <3>1, <3>6, <3>7, BodySame
    <3> QED BY <3>5, <3>8
  <2>8. rec.kind = d.kind /\ rec.name = d.name
    BY <1>4, <2>3, <2>4
  <2> QED BY <1>0, <1>8, <2>5, <2>6, <2>7, <2>8, BroughtIn
<1> QED BY <1>5, <1>6, <1>7, <1>8

\* The invariant holds before any import.
LEMMA ImportInitIInv == ImportInit => ImportIInv
<1> SUFFICES ASSUME ImportInit PROVE ImportIInv
  OBVIOUS
<1>1. PICK s \in Stores : rows = s.rows /\ issued = s.issued
  BY DEF ImportInit
<1>2. /\ import = NoImport /\ desk = NoDesk /\ before = {} /\ quiet = TRUE /\ refused = 0 /\ edits = 0
      /\ issued \in 0 .. MaxId /\ IsStore(rows, issued) /\ MaxRefusals \in Nat /\ MaxEdits \in Nat
  BY <1>1, ImportAssumption DEF ImportInit
<1>3. Leaves(import, "idle", NoDocument, {}, 1, <<>>, {})
  <2>1. import = ImportRec("idle", NoDocument, {}, 1, <<>>, {})
    BY <1>2 DEF NoImport, ImportRec
  <2> QED BY <2>1, RecIs
<1>4. ImportTypeOK
  BY <1>2, <1>3 DEF ImportTypeOK, NoDesk, Leaves
<1>5. ImportShape
  BY <1>3 DEF ImportShape, Leaves, Active
<1>6. DeskShape
  BY <1>2 DEF DeskShape, NoDesk
<1>7. IsStore(before, issued) /\ Told
  BY <1>2, <1>3 DEF IsStore, Told, Leaves
<1> QED BY <1>4, <1>5, <1>6, <1>7 DEF ImportIInv

\* Every step of an import, or beside it, keeps the invariant.
LEMMA ImportNextIInv == ImportIInv /\ [ImportNext]_importVars => ImportIInv'
<1> SUFFICES ASSUME ImportIInv, [ImportNext]_importVars PROVE ImportIInv'
  OBVIOUS
<1>1. CASE UNCHANGED importVars
  <2>0. UNCHANGED <<rows, issued, import, desk, before, quiet, refused, edits>>
    BY <1>1 DEF importVars
  <2>1. ImportShape'
    BY <2>0, StillBounds, ShapeStays DEF ImportIInv
  <2>2. \A i : Item(i)' = Item(i) /\ (ItemTold(i)' <=> ItemTold(i))
    BY <2>0 DEF Item, ItemTold
  <2>3. Told'
    BY <2>0, <2>2 DEF ImportIInv, Told, Grown, ReadingsKnow, Firm
  <2>4. ImportTypeOK' /\ DeskShape' /\ IsStore(before, issued)'
    BY <2>0 DEF ImportIInv, ImportTypeOK, DeskShape
  <2> QED BY <2>1, <2>3, <2>4 DEF ImportIInv
<1>2. CASE OtherAdmins
  BY <1>2, OtherAdminsStep
<1>3. CASE Import
  <2>1. CASE \E f \in Documents : ImportStart(f)
    BY <2>1, StartStep
  <2>2. CASE \E apply \in BOOLEAN : ImportPlan(apply)
    BY <2>2, PlanStep
  <2>3. CASE ReadState \/ ReadFails
    BY <2>3, ReadStep, ReadFailsStep
  <2>4. CASE RunSkip \/ RunGroup \/ RunMembers \/ RunTarget
    BY <2>4, RunSkipStep, RunGroupStep, RunMembersStep, RunTargetStep
  <2>5. CASE RunAgain \/ RunResolve \/ RunStore \/ RunEnds
    BY <2>5, RunAgainStep, RunResolveStep, RunStoreStep, RunEndsStep
  <2> QED BY <1>3, <2>1, <2>2, <2>3, <2>4, <2>5 DEF Import
<1> QED BY <1>1, <1>2, <1>3 DEF ImportNext

\* The invariant gives what the answer of an import tells.
LEMMA ImportIInvTells == ImportIInv => ImportTypeOK /\ AnswerTells
<1> SUFFICES ASSUME ImportIInv PROVE AnswerTells
  BY DEF ImportIInv
<1>1. ASSUME quiet, import.pc \in {"planned", "unread"} PROVE rows = before
  BY <1>1 DEF ImportIInv, Told, ReadingsKnow
<1>2. ASSUME quiet, import.pc \in {"done", "failed"}, NEW i \in DOMAIN import.changes
      PROVE  LET d == Item(i)
                 c == import.changes[i]
                 now == Named(rows, d.kind, d.name)
             IN /\ (c.applied \/ c.action = "unchanged") /\ ~c.error => \E r \in now : Same(rows, r, d)
                /\ ~c.applied => now = Named(before, d.kind, d.name)
                /\ import.pc = "done" => c.applied \/ c.action = "unchanged"
  <2> DEFINE d == Item(i)
             c == import.changes[i]
  <2>1. import.file \in Documents /\ i \in DOMAIN Items(import.file) /\ (import.pc = "done" => c.applied \/ c.action = "unchanged")
    BY <1>2 DEF ImportIInv, ImportShape
  <2>2. Firm(d) /\ ItemTold(i) /\ Grown(before, rows) /\ IsStore(before, issued) /\ IsStore(rows, issued)
    BY <1>2, <2>1, StillBounds DEF ImportIInv, Told, Active
  <2>3. d.kind = "policy" => d.targets \in Seq(STRING)
    BY <2>1, ItemsTyped DEF Item
  <2>4. ~c.applied => Named(rows, d.kind, d.name) = Named(before, d.kind, d.name)
    BY <2>2 DEF ItemTold
  <2>5. ASSUME c.action = "unchanged" PROVE \E r \in Named(rows, d.kind, d.name) : Same(rows, r, d)
    <3>1. ~c.applied /\ \E r \in Named(before, d.kind, d.name) : Same(before, r, d)
      BY <2>2, <2>5 DEF ItemTold
    <3>2. PICK r \in Named(before, d.kind, d.name) : Same(before, r, d)
      BY <3>1
    <3>3. r.kind = d.kind
      BY DEF Named
    <3> HIDE DEF d
    <3>4. Same(rows, r, d)
      BY <2>2, <2>3, <3>2, <3>3, SameStays
    <3> QED BY <2>4, <3>1, <3>2, <3>4
  <2>6. c.applied /\ ~c.error => \E r \in Named(rows, d.kind, d.name) : Same(rows, r, d)
    BY <1>2, <2>2 DEF ItemTold
  <2> QED BY <2>1, <2>4, <2>5, <2>6
<1> QED BY <1>1, <1>2 DEF AnswerTells

-----------------------------------------------------------------------------
(* Conversion.  What a policy of the shape before becomes.                 *)

\* What a grant of a converted policy holds of it.
LEMMA ConvertedIs ==
  ASSUME NEW p, NEW g \in convert(p)
  PROVE  /\ g.of = p /\ g.cond = p.cond /\ g.kind \in DOMAIN Serves
         /\ \/ \E k \in DOMAIN Serves : NamedOf(p, k) # {} /\ g = ForNames(p, k)
            \/ \E k \in DOMAIN Serves : \E t \in TagsOf(p, k) : g = ForTag(p, k, t)
<1>1. CASE \E k \in DOMAIN Serves : NamedOf(p, k) # {} /\ g = ForNames(p, k)
  <2>1. PICK k \in DOMAIN Serves : NamedOf(p, k) # {} /\ g = ForNames(p, k)
    BY <1>1
  <2>2. g.of = p /\ g.cond = p.cond /\ g.kind = k
    BY <2>1 DEF ForNames
  <2> QED BY <1>1, <2>1, <2>2
<1>2. CASE \E k \in DOMAIN Serves : \E t \in TagsOf(p, k) : g = ForTag(p, k, t)
  <2>1. PICK k \in DOMAIN Serves : \E t \in TagsOf(p, k) : g = ForTag(p, k, t)
    BY <1>2
  <2>2. g.of = p /\ g.cond = p.cond /\ g.kind = k
    BY <2>1 DEF ForTag
  <2> QED BY <1>2, <2>1, <2>2
<1> QED BY <1>1, <1>2 DEF convert

\* A machine's id says its kind.
LEMMA KindIs == ASSUME NEW m \in Machines PROVE KindOf(m.id) = m.kind /\ m.id \in Inventory /\ m.kind \in DOMAIN Serves
<1> DEFINE c == CHOOSE n \in Machines : n.id = m.id
<1>1. c \in Machines /\ c.id = m.id
  OBVIOUS
<1>2. c = m
  BY <1>1, ConversionAssumption
<1> QED BY <1>2, ConversionAssumption DEF KindOf, Inventory

\* The grants of a policy cover, of what a machine can serve, what the policy covered.
LEMMA ConvertCovers ==
  ASSUME NEW p, NEW m \in Machines, NEW pr \in Serves[m.kind]
  PROVE  legacyCovers(p, m, pr) <=> \E g \in convert(p) : grantCovers(g, m, pr)
<1> DEFINE k == m.kind
<1>1. KindOf(m.id) = k /\ m.id \in Inventory /\ k \in DOMAIN Serves
  BY KindIs
<1>2. legacyCovers(p, m, pr) <=> \E q \in Pairs(p) : matches(q, m) /\ pr \in q.protos
  BY DEF legacyCovers, Pairs, matches
<1>3. ASSUME NEW q \in Pairs(p), m.id \in q.ids, pr \in q.protos
      PROVE  \E g \in convert(p) : grantCovers(g, m, pr)
  <2>1. pr \in servable(k, q.protos)
    BY <1>3 DEF servable
  <2>2. m.id \in NamedOf(p, k)
    BY <1>1, <1>3, <2>1 DEF NamedOf
  <2>3. ForNames(p, k) \in convert(p)
    BY <1>1, <2>2 DEF convert
  <2>4. pr \in Union(k, {x \in Pairs(p) : m.id \in x.ids})
    BY <1>3, <2>1 DEF Union
  <2>5. grantCovers(ForNames(p, k), m, pr)
    BY <2>2, <2>4 DEF grantCovers, ForNames
  <2> QED BY <2>3, <2>5
<1>4. ASSUME NEW q \in Pairs(p), q.tag # NoTag, m.tag = q.tag, pr \in q.protos
      PROVE  \E g \in convert(p) : grantCovers(g, m, pr)
  <2>1. pr \in servable(k, q.protos)
    BY <1>4 DEF servable
  <2>2. pr \in Union(k, {x \in Pairs(p) : x.tag = q.tag})
    BY <1>4, <2>1 DEF Union
  <2>3. q.tag \in TagsOf(p, k)
    BY <1>4, <2>2 DEF TagsOf
  <2>4. ForTag(p, k, q.tag) \in convert(p)
    BY <1>1, <2>3 DEF convert
  <2>5. grantCovers(ForTag(p, k, q.tag), m, pr)
    BY <1>4, <2>2 DEF grantCovers, ForTag
  <2> QED BY <2>4, <2>5
<1>5. ASSUME NEW g \in convert(p), grantCovers(g, m, pr) PROVE \E q \in Pairs(p) : matches(q, m) /\ pr \in q.protos
  <2>1. CASE \E x \in DOMAIN Serves : NamedOf(p, x) # {} /\ g = ForNames(p, x)
    <3>1. PICK x : g = ForNames(p, x)
      BY <2>1
    <3>2. m.id \in NamedOf(p, x) /\ pr \in Union(x, {q \in Pairs(p) : m.id \in q.ids})
      BY <1>5, <3>1 DEF grantCovers, ForNames
    <3> QED BY <3>2 DEF Union, servable, matches
  <2>2. CASE \E x \in DOMAIN Serves : \E t \in TagsOf(p, x) : g = ForTag(p, x, t)
    <3>1. PICK x, t : t \in TagsOf(p, x) /\ g = ForTag(p, x, t)
      BY <2>2
    <3>2. t # NoTag /\ m.tag = t /\ pr \in Union(x, {q \in Pairs(p) : q.tag = t})
      BY <1>5, <3>1 DEF grantCovers, ForTag, TagsOf
    <3> QED BY <3>2 DEF Union, servable, matches
  <2> QED BY <2>1, <2>2, ConvertedIs
<1> QED BY <1>2, <1>3, <1>4, <1>5 DEF matches

\* A grant covers a machine only with what its kind serves.
LEMMA OnlyServed ==
  ASSUME NEW p, NEW m \in Machines, NEW pr, NEW g \in convert(p), grantCovers(g, m, pr)
  PROVE  pr \in Serves[m.kind]
<1>1. CASE \E x \in DOMAIN Serves : NamedOf(p, x) # {} /\ g = ForNames(p, x)
  <2>1. PICK x : g = ForNames(p, x)
    BY <1>1
  <2>2. m.kind = x /\ pr \in Union(x, {q \in Pairs(p) : m.id \in q.ids})
    BY <2>1 DEF grantCovers, ForNames
  <2> QED BY <2>2 DEF Union, servable
<1>2. CASE \E x \in DOMAIN Serves : \E t \in TagsOf(p, x) : g = ForTag(p, x, t)
  <2>1. PICK x, t : t \in TagsOf(p, x) /\ g = ForTag(p, x, t)
    BY <1>2
  <2>2. m.kind = x /\ pr \in Union(x, {q \in Pairs(p) : q.tag = t})
    BY <2>1 DEF grantCovers, ForTag
  <2> QED BY <2>2 DEF Union, servable
<1> QED BY <1>1, <1>2, ConvertedIs

\* What the step leaves: every policy converted, or none.
ConvertInv ==
    /\ legacy \subseteq LegacyChoices
    /\ \/ step = "stored" /\ grants = {}
       \/ step = "converted" /\ grants = UNION {convert(p) : p \in legacy}

\* Grants that are exactly those of the stored policies admit whom they admitted.
LEMMA ConvertInvSuffices == ConvertInv => ConvertTypeOK /\ ConversionKeepsAccess
<1> SUFFICES ASSUME ConvertInv PROVE ConvertTypeOK /\ ConversionKeepsAccess
  OBVIOUS
<1>1. ASSUME NEW g \in grants
      PROVE  /\ g.kind \in DOMAIN Serves /\ g.cond \in Conditions /\ g.of \in legacy
             /\ \A i \in DOMAIN g.named : g.named[i] \subseteq Protos
             /\ g.protos \subseteq Protos
  <2>1. PICK p \in legacy : g \in convert(p)
    BY <1>1 DEF ConvertInv
  <2>2. g.of = p /\ g.cond = p.cond /\ g.kind \in DOMAIN Serves /\ p.cond \in Conditions
    BY <2>1, ConvertedIs, ConversionAssumption DEF ConvertInv
  <2>3. \A k \in DOMAIN Serves : \A Q : Union(k, Q) \subseteq Protos
    BY ConversionAssumption DEF Union, servable
  <2>4. CASE \E k \in DOMAIN Serves : NamedOf(p, k) # {} /\ g = ForNames(p, k)
    BY <2>2, <2>3, <2>4 DEF ForNames
  <2>5. CASE \E k \in DOMAIN Serves : \E t \in TagsOf(p, k) : g = ForTag(p, k, t)
    BY <2>2, <2>3, <2>5 DEF ForTag
  <2> QED BY <2>1, <2>4, <2>5, ConvertedIs
<1>2. ConvertTypeOK
  BY <1>1, ConversionAssumption DEF ConvertTypeOK, ConvertInv
<1>3. ASSUME step = "converted", NEW m \in Machines, NEW pr \in Protos, pr \notin Serves[m.kind]
      PROVE  grantSet(m, pr) = {}
  <2>1. Admitting(m, pr) = {}
    BY <1>3, OnlyServed DEF ConvertInv, Admitting
  <2> QED BY <2>1 DEF grantSet, Tier
<1>4. ASSUME step = "converted", NEW m \in Machines, NEW pr \in Protos, pr \in Serves[m.kind]
      PROVE  grantSet(m, pr) = legacySet(m, pr)
  <2> DEFINE A == {p.cond : p \in {x \in legacy : legacyCovers(x, m, pr)}}
             B == {g.cond : g \in Admitting(m, pr)}
  <2>1. ASSUME NEW c \in A PROVE c \in B
    <3>1. PICK p \in legacy : legacyCovers(p, m, pr) /\ c = p.cond
      BY <2>1
    <3>2. PICK g \in convert(p) : grantCovers(g, m, pr)
      BY <1>4, <3>1, ConvertCovers
    <3>3. g \in Admitting(m, pr) /\ g.cond = c
      BY <1>4, <3>1, <3>2, ConvertedIs DEF Admitting, ConvertInv
    <3> QED BY <3>3
  <2>2. ASSUME NEW c \in B PROVE c \in A
    <3>1. PICK g \in grants : grantCovers(g, m, pr) /\ c = g.cond
      BY <2>2 DEF Admitting
    <3>2. PICK p \in legacy : g \in convert(p)
      BY <1>4, <3>1 DEF ConvertInv
    <3>3. legacyCovers(p, m, pr) /\ g.cond = p.cond
      BY <1>4, <3>1, <3>2, ConvertCovers, ConvertedIs
    <3> QED BY <3>1, <3>3
  <2>3. A = B
    BY <2>1, <2>2
  <2> QED BY <2>3 DEF grantSet, legacySet
<1>5. \A m, pr : \A c \in legacySet(m, pr) : c \in Conditions
  BY ConversionAssumption DEF legacySet, Tier, ConvertInv
<1>6. \A m, pr : \A c \in legacySet(m, pr) : c.idle <= c.idle /\ c.keep >= c.keep
  BY <1>5 DEF Conditions
<1>7. ConversionKeepsAccess
  BY <1>3, <1>4, <1>6 DEF ConversionKeepsAccess
<1> QED BY <1>2, <1>7

\* The step converts every policy at once.
LEMMA ConvertKeeps ==
  /\ ConvertInit => ConvertInv
  /\ ConvertInv /\ [ConvertNext]_convertVars => ConvertInv'
<1>1. ConvertInit => ConvertInv
  BY ConversionAssumption DEF ConvertInit, ConvertInv
<1>2. ConvertInv /\ [ConvertNext]_convertVars => ConvertInv'
  <2> SUFFICES ASSUME ConvertInv, [ConvertNext]_convertVars PROVE ConvertInv'
    OBVIOUS
  <2>1. CASE convertStored
    BY <2>1 DEF convertStored, ConvertInv
  <2>2. CASE UNCHANGED convertVars
    BY <2>2 DEF ConvertInv, convertVars
  <2> QED BY <2>1, <2>2 DEF ConvertNext
<1> QED BY <1>1, <1>2

\* An import nobody interferes with (configio/handler.go) leaves each row its answer says it
\* changed as the file has it and those of its other entries as they were, and a plan with a
\* problem changes nothing; the grants made of the stored policies (policy/convert.go) admit whom they admitted.
THEOREM ImportStaysSound == ImportSpec /\ ConvertSpec => []ImportSound
<1>1. ImportSpec => []ImportIInv
  BY ImportInitIInv, ImportNextIInv, PTL DEF ImportSpec
<1>2. ConvertSpec => []ConvertInv
  BY ConvertKeeps, PTL DEF ConvertSpec
<1>3. ImportIInv /\ ConvertInv => ImportSound
  BY ImportIInvTells, ConvertInvSuffices DEF ImportSound
<1> QED BY <1>1, <1>2, <1>3, PTL

=============================================================================
