------------------------------ MODULE KeyRing ------------------------------
(***************************************************************************)
(* Envelope encryption (internal/keyring, internal/crypto) and the command *)
(* that changes the master key (cmd/zanskar/key.go).                       *)
(*                                                                         *)
(* Secrets are sealed under data keys; the row of a data key's version     *)
(* holds it wrapped under the master key.  A data key is named by its      *)
(* version, which is never given out twice, a wrapping by the master key   *)
(* that opens it.  Every process holds the data keys it unwrapped when it  *)
(* loaded the table and the master key it was started with, which may be   *)
(* older than the one on disk.  A process may stop at any step.            *)
(***************************************************************************)
EXTENDS Naturals, Sequences, FiniteSets

CONSTANTS
    Gateways,    \* zanskar serve processes on one database
    Commands,    \* runs of `zanskar key rotate`
    Master,      \* the run of `zanskar key rotate-master`
    Keys,        \* master keys
    NoKey,
    Secrets,     \* sealed columns (sealedTables)
    MaxVersion,  \* bound: key versions created
    Overlap      \* may `key rotate` and `key rotate-master` run at once?

Rings == Gateways \cup Commands \cup {Master}

ASSUME KeyAssumption ==
    /\ NoKey \notin Keys
    /\ Master \notin Gateways \cup Commands
    /\ Gateways \cap Commands = {}
    /\ MaxVersion \in Nat
    /\ Overlap \in BOOLEAN

VARIABLES
    wrapped, \* key_versions: the master key each version's wrapped_dek opens with
    ring,    \* per process: where it is, its master key, the versions it holds
    sealed,  \* per secret: the version it is sealed under, 0 when not stored
    keyFile, \* the master key in the file or environment the service reads
    next,    \* the key staged in <file>.next
    seen,    \* keys a person has: typed in, or printed
    km       \* the rotate-master command

keyVars == <<wrapped, ring, sealed, keyFile, next, seen, km>>

Down == [pc |-> "down", kek |-> NoKey, held |-> {}]
KmIdle == [pc |-> "idle", to |-> "none", generate |-> FALSE, old |-> NoKey, new |-> NoKey]

KeyTypeOK ==
    /\ wrapped \in Seq(Keys)
    /\ ring \in [Rings -> [pc : {"down", "empty", "created", "up"},
                           kek : Keys \cup {NoKey}, held : SUBSET Nat]]
    /\ sealed \in [Secrets -> Nat]
    /\ keyFile \in Keys
    /\ next \in Keys \cup {NoKey}
    /\ seen \in SUBSET Keys
    /\ km \in [pc : {"idle", "chosen", "staged", "rewrapped", "resigned", "filed"},
               to : {"file", "none"}, generate : BOOLEAN, old : Keys \cup {NoKey}, new : Keys \cup {NoKey}]

KeyInit ==
    /\ wrapped = <<>>
    /\ ring = [p \in Rings |-> Down]
    /\ sealed = [s \in Secrets |-> 0]
    /\ keyFile \in Keys
    /\ next = NoKey
    /\ seen = {}
    /\ km = KmIdle

-----------------------------------------------------------------------------
(* Ring.                                                                   *)

\* load: one wrapping the key does not open fails the whole read, and what the
\* process held stays.
Loads(kek) == \A v \in DOMAIN wrapped : wrapped[v] = kek
active(p) == CHOOSE v \in ring[p].held \cup {0} : \A u \in ring[p].held : u <= v

\* Loaded, or the process ends with "cannot unwrap key version".
loadOrStop(p) ==
    ring' = [ring EXCEPT ![p] = IF Loads(@.kek)
                                THEN [pc |-> "up", kek |-> @.kek, held |-> DOMAIN wrapped]
                                ELSE Down]

\* One key command at a time, unless Overlap.
Alone(p) ==
    \/ p \in Gateways \/ Overlap
    \/ \A q \in (Commands \cup {Master}) \ {p} : ring[q].pc = "down"

\* openRing, Open: the key is read from the file, the table is read.
Open(p) ==
    /\ ring[p].pc = "down"
    /\ Alone(p)
    /\ ring' = [ring EXCEPT ![p] =
                   IF wrapped = <<>> THEN [pc |-> "empty", kek |-> keyFile, held |-> {}]
                   ELSE IF Loads(keyFile)
                   THEN [pc |-> "up", kek |-> keyFile, held |-> DOMAIN wrapped]
                   ELSE Down]
    /\ UNCHANGED <<wrapped, sealed, keyFile, next, seen, km>>

\* createVersion: under the lock, the next id, wrapped with the process's own key.
createVersion(p, onlyIfEmpty) ==
    wrapped' = IF onlyIfEmpty /\ wrapped # <<>> THEN wrapped ELSE Append(wrapped, ring[p].kek)

\* The table was empty when it was read: version 1, unless another process made it since.
Bootstrap(p) ==
    /\ ring[p].pc = "empty"
    /\ MaxVersion > 0
    /\ createVersion(p, TRUE)
    /\ ring' = [ring EXCEPT ![p].pc = "created"]
    /\ UNCHANGED <<sealed, keyFile, next, seen, km>>

Load(p) ==
    /\ ring[p].pc = "created"
    /\ loadOrStop(p)
    /\ UNCHANGED <<wrapped, sealed, keyFile, next, seen, km>>

\* runKeyRotate, Rotate: a new version, then the load of Load above.
Rotate(p) ==
    /\ p \in Commands
    /\ ring[p].pc = "up"
    /\ Len(wrapped) < MaxVersion
    /\ createVersion(p, FALSE)
    /\ ring' = [ring EXCEPT ![p].pc = "created"]
    /\ UNCHANGED <<sealed, keyFile, next, seen, km>>

\* Encrypt: under the newest version the process knows of.
Encrypt(p, s) ==
    /\ p \in Gateways
    /\ ring[p].pc = "up"
    /\ sealed' = [sealed EXCEPT ![s] = active(p)]
    /\ UNCHANGED <<wrapped, ring, keyFile, next, seen, km>>

\* Decrypt meets a version it does not hold and reads the table again; with a
\* wrapping its key does not open nothing changes and the secret stays unread.
Decrypt(p, s) ==
    /\ p \in Gateways
    /\ ring[p].pc = "up"
    /\ sealed[s] \notin ring[p].held \cup {0}
    /\ Loads(ring[p].kek)
    /\ ring' = [ring EXCEPT ![p].held = DOMAIN wrapped]
    /\ UNCHANGED <<wrapped, sealed, keyFile, next, seen, km>>

\* Close, the end of the process, or its crash.
Close(p) ==
    /\ p # Master
    /\ ring[p].pc # "down"
    /\ ring' = [ring EXCEPT ![p] = Down]
    /\ UNCHANGED <<wrapped, sealed, keyFile, next, seen, km>>

-----------------------------------------------------------------------------
(* runKeyRotateMaster.                                                     *)

\* The checks: the file must hold the key the command runs with and be
\* replaceable.  The new key is generated, or typed in and so known.
KmChoose(to, generate, k) ==
    /\ ring[Master].pc = "up" /\ km.pc = "idle"
    /\ to = "file" => keyFile = ring[Master].kek
    /\ km' = [pc |-> "chosen", to |-> to, generate |-> generate, old |-> ring[Master].kek, new |-> k]
    /\ seen' = IF generate THEN seen ELSE seen \cup {k}
    /\ generate => k \notin seen \cup {keyFile, next} \cup {wrapped[v] : v \in DOMAIN wrapped}
    /\ UNCHANGED <<wrapped, ring, sealed, keyFile, next>>

KmStageSkipped ==          \* mutant: the generated key is only in memory until the file is written
    /\ km.pc = "chosen"
    /\ km' = [km EXCEPT !.pc = "staged"]
    /\ UNCHANGED <<wrapped, ring, sealed, keyFile, next, seen>>

\* A generated key is put beside the file, or printed, before anything changes.
KmStage ==
    /\ km.pc = "chosen"
    /\ km' = [km EXCEPT !.pc = "staged"]
    /\ next' = IF km.generate /\ km.to = "file" THEN km.new ELSE next
    /\ seen' = IF km.generate /\ km.to = "none" THEN seen \cup {km.new} ELSE seen
    /\ UNCHANGED <<wrapped, ring, sealed, keyFile>>

\* Rewrap, one transaction.
KmRewrap ==
    /\ km.pc = "staged"
    /\ wrapped # <<>>
    /\ km.new \notin {wrapped[v] : v \in DOMAIN wrapped}
    /\ Loads(ring[Master].kek)
    /\ wrapped' = [v \in DOMAIN wrapped |-> km.new]
    /\ ring' = [ring EXCEPT ![Master].kek = km.new]
    /\ km' = [km EXCEPT !.pc = "rewrapped"]
    /\ UNCHANGED <<sealed, keyFile, next, seen>>

\* ResignAnchors and the audit event; failing is a warning only.
KmResign ==
    /\ km.pc = "rewrapped"
    /\ km' = [km EXCEPT !.pc = "resigned"]
    /\ UNCHANGED <<wrapped, ring, sealed, keyFile, next, seen>>

\* replaceKeyFile, replaceEnvMasterKey: a rename, all or nothing.
replaceFile(k) == keyFile' = k

KmFile ==
    /\ km.pc = "resigned" /\ km.to = "file"
    /\ replaceFile(km.new)
    /\ km' = [km EXCEPT !.pc = "filed"]
    /\ UNCHANGED <<wrapped, ring, sealed, next, seen>>

\* The file cannot be written, or there is none: the key is printed, or was
\* given by who must now set it; the stage stays.
KmPrint ==
    /\ km.pc = "resigned"
    /\ seen' = seen \cup {km.new}
    /\ km' = KmIdle
    /\ ring' = [ring EXCEPT ![Master] = Down]
    /\ UNCHANGED <<wrapped, sealed, keyFile, next>>

KmUnstage ==
    /\ km.pc = "filed"
    /\ next' = IF km.generate THEN NoKey ELSE next
    /\ km' = KmIdle
    /\ ring' = [ring EXCEPT ![Master] = Down]
    /\ UNCHANGED <<wrapped, sealed, keyFile, seen>>

\* An error return, or the command dies, at any step.
KmStop ==
    /\ ring[Master].pc # "down"
    /\ km' = KmIdle
    /\ ring' = [ring EXCEPT ![Master] = Down]
    /\ UNCHANGED <<wrapped, sealed, keyFile, next, seen>>

\* The operator gives the service a key found in the stage file or kept.
OperatorSetsKey(k) ==
    /\ ring[Master].pc = "down"
    /\ ~Loads(keyFile)
    /\ k \in (seen \cup {next}) \ {NoKey}
    /\ Loads(k)
    /\ keyFile' = k
    /\ UNCHANGED <<wrapped, ring, sealed, next, seen, km>>

KeyNext ==
    \/ \E p \in Rings : Open(p) \/ Bootstrap(p) \/ Load(p) \/ Rotate(p) \/ Close(p)
    \/ \E p \in Rings, s \in Secrets : Encrypt(p, s) \/ Decrypt(p, s)
    \/ \E to \in {"file", "none"}, g \in BOOLEAN, k \in Keys : KmChoose(to, g, k)
    \/ KmStage \/ KmRewrap \/ KmResign \/ KmFile \/ KmPrint \/ KmUnstage \/ KmStop
    \/ \E k \in Keys : OperatorSetsKey(k)

KeySpec == KeyInit /\ [][KeyNext]_keyVars

-----------------------------------------------------------------------------
\* Wherever a command or a gateway stops, every data key still opens with a
\* master key somebody can reach: the one in the file the service reads, the
\* one staged beside it, or one a person was given (key.go:280, "A crash in
\* between would leave the database under a key nobody holds").
MasterKeyReachable ==
    \A v \in DOMAIN wrapped : wrapped[v] \in {keyFile, next} \cup seen

\* "the table is never left half under one key and half under another"
\* (ring.go:284): one master key opens every version.
OneMasterKey ==
    \A u, v \in DOMAIN wrapped : wrapped[u] = wrapped[v]

\* The data keys (ring.go, key.go), wherever a process stops: one master key
\* opens them all, and somebody can reach it.
KeysSound == KeyTypeOK /\ OneMasterKey /\ MasterKeyReachable
=============================================================================
