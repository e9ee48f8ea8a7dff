----------------------------- MODULE OpsProofs ------------------------------
(***************************************************************************)
(* Proofs about what keeps the gateway running: the restart drain, the     *)
(* migrations, backups and first start of Upkeep, the configuration and    *)
(* certificate it serves with, the notifications and the actions on the    *)
(* host.  Each part has an inductive invariant of its own.                 *)
(***************************************************************************)
EXTENDS Drain, Notify, HostActions, Certificates, Upkeep, WellFoundedInduction, TLAPS

-----------------------------------------------------------------------------
(* Drain, for any set of sessions and any number of drains: the drain in   *)
(* progress misses nothing but the sessions that were on their way at its  *)
(* second sweep.                                                           *)


\* The inductive invariant holds before any drain.
LEMMA InitIInv == Init => IInv
  BY DrainAssumption DEF Init, IInv, TypeOK, DrainIsCurrent, SweptAfterSecond, Drains

\* Each step of a session, of the Controller's calls and of a drain's goroutine
\* keeps the inductive invariant.
LEMMA NextIInv == IInv /\ [Next]_vars => IInv'
<1> SUFFICES ASSUME IInv, [Next]_vars PROVE IInv'
  OBVIOUS
<1> USE DrainAssumption DEF IInv, Running, Drains
<1>1. ASSUME NEW s \in Sessions, Redeem(s) PROVE IInv'
  BY <1>1 DEF Redeem, TypeOK, DrainIsCurrent, SweptAfterSecond
<1>2. ASSUME NEW s \in Sessions, Register(s) PROVE IInv'
  BY <1>2 DEF Register, TypeOK, DrainIsCurrent, SweptAfterSecond
<1>3. ASSUME NEW s \in Sessions, Leave(s) PROVE IInv'
  BY <1>3 DEF Leave, TypeOK, DrainIsCurrent, SweptAfterSecond
<1>4. CASE Restart
  <2>1. TypeOK'
    BY <1>4 DEF Restart, TypeOK
  <2>2. DrainIsCurrent'
    BY <1>4 DEF Restart, TypeOK, DrainIsCurrent
  <2>3. SweptAfterSecond'
    BY <1>4 DEF Restart, TypeOK, SweptAfterSecond
  <2> QED BY <2>1, <2>2, <2>3
<1>5. CASE Cancel
  BY <1>5 DEF Cancel, TypeOK, DrainIsCurrent, SweptAfterSecond
<1>6. ASSUME NEW d \in Drains, Deadline(d) PROVE IInv'
  BY <1>6 DEF Deadline, TypeOK, DrainIsCurrent, SweptAfterSecond
<1>7. ASSUME NEW d \in Drains, Run(d) PROVE IInv'
  <2> USE DEF Goto
  <2>1. CASE RunWait(d)
    BY <2>1 DEF RunWait, TypeOK, DrainIsCurrent, SweptAfterSecond
  <2>2. CASE RunCheck(d)
    BY <2>2 DEF RunCheck, TypeOK, DrainIsCurrent, SweptAfterSecond
  <2>3. CASE RunFirst(d)
    BY <2>3 DEF RunFirst, CutAll, TypeOK, DrainIsCurrent, SweptAfterSecond
  <2>4. CASE RunSecond(d)
    <3>1. TypeOK'
      BY <2>4 DEF RunSecond, CutAll, TypeOK
    <3>2. DrainIsCurrent'
      BY <2>4 DEF RunSecond, TypeOK, DrainIsCurrent
    <3>3. SweptAfterSecond'
      BY <2>4 DEF RunSecond, CutAll, TypeOK, SweptAfterSecond
    <3> QED BY <3>1, <3>2, <3>3
  <2>5. CASE RunGrace(d)
    BY <2>5 DEF RunGrace, TypeOK, DrainIsCurrent, SweptAfterSecond
  <2>6. CASE RunExit(d)
    BY <2>6 DEF RunExit, TypeOK, DrainIsCurrent, SweptAfterSecond
  <2> QED BY <1>7, <2>1, <2>2, <2>3, <2>4, <2>5, <2>6 DEF Run
<1>8. CASE UNCHANGED vars
  BY <1>8 DEF vars, TypeOK, DrainIsCurrent, SweptAfterSecond
<1> QED BY <1>1, <1>2, <1>3, <1>4, <1>5, <1>6, <1>7, <1>8 DEF Next

\* The inductive invariant holds throughout.
LEMMA Inductive == Spec => []IInv
  BY InitIInv, NextIInv, PTL DEF Spec

\* The Controller's state and the sessions keep their types.
THEOREM Typing == Spec => []TypeOK
<1>1. IInv => TypeOK
  BY DEF IInv
<1> QED BY <1>1, Inductive, PTL

\* The drain in progress exits with every session ended or told to end, but
\* for those between their redemption and the registry at its second sweep.
THEOREM MissesOnlyLate == Spec => []DrainMissesOnlyLate
<1>1. IInv => DrainMissesOnlyLate
  BY DEF IInv, TypeOK, DrainIsCurrent, SweptAfterSecond, DrainMissesOnlyLate
<1> QED BY <1>1, Inductive, PTL
-----------------------------------------------------------------------------
(* Upkeep.  Migrations, copies and the file init writes.                   *)

\* A non-empty set of numbers has a least member.
LEMMA Smallest ==
    ASSUME NEW S \in SUBSET Nat, S # {}
    PROVE  \E n \in S : \A m \in S : n <= m
<1>1. PICK n \in S : \A m \in S : <<m, n>> \notin OpToRel(<, Nat)
  BY WFMin, NatLessThanWellFounded, Zenon
<1>2. \A m \in S : ~(m < n)
  BY <1>1, Zenon DEF OpToRel
<1> QED BY <1>2

StarterRec == [pc : {"idle", "off", "tx", "run", "done", "on", "check", "ready", "failed"},
               version : 0 .. Latest, seen : SUBSET Versions]
BackupRec == [pc : {"idle", "copy", "pack"}, rows : Rows, files : SUBSET Tapes, todo : SUBSET Tapes]
ArchiveRec == [rows : Rows, files : SUBSET Tapes, whole : BOOLEAN, lost : SUBSET Tapes]
RestoreRec == [pc : {"idle", "extracted", "beside", "nolog", "placed", "failed"}, rows : Rows, files : SUBSET Tapes]

\* What a process that migrates knows: what it read as applied is, and up to the version
\* it is at everything is recorded, itself included once its transaction committed.
AtVersion(x, done) ==
    /\ x.seen \subseteq done
    /\ x.pc \in {"off", "tx"} => x.version \in Versions /\ \A u \in Versions : u < x.version => u \in done
    /\ x.pc \in {"run", "on", "check"} => \A u \in Versions : u <= x.version => u \in done

MigrateTyping == effects \in [Versions -> 0 .. 2] /\ recorded \subseteq Versions /\ starter \in [Starters -> StarterRec]
MigrateIInv == MigrateTyping /\ MigratedOnce /\ \A p \in Starters : AtVersion(starter[p], recorded)

\* What is stored in the snapshot is copied, gone, or still to be copied.
CopyKnown ==
    /\ backup.pc = "copy" =>
          \A t \in Tapes : backup.rows[t] = "stored" => t \in backup.files \cup purged \/ (t \in backup.todo /\ t \in tapes)
    /\ backup.pc = "pack" => \A t \in Tapes : backup.rows[t] = "stored" => t \in backup.files \cup purged

\* A service that was stopped left no log, and does not run beside a restore.
RestoreKnown ==
    /\ gateway = "stopped" => db.main = db.log
    /\ restore.pc # "idle" => gateway # "runs"

CopyTyping ==
    /\ db \in [main : Rows, log : Rows] /\ tapes \subseteq Tapes /\ gateway \in {"runs", "stopped", "killed"}
    /\ backup \in BackupRec /\ archive \in ArchiveRec /\ restore \in RestoreRec /\ old \in Rows /\ purged \subseteq Tapes

CopyIInv == CopyTyping /\ ArchiveWhole /\ RestoreKeepsOne /\ CopyKnown /\ RestoreKnown

UpkeepIInv == MigrateIInv /\ CopyIInv /\ kills \in 0 .. MaxKills /\ broken \in 0 .. MaxBroken

\* A step of one starting process leaves the others as they were.
LEMMA OneStarter ==
    ASSUME MigrateIInv, NEW p \in Starters, NEW x \in StarterRec, AtVersion(x, recorded),
           starter' = [starter EXCEPT ![p] = x], UNCHANGED <<effects, recorded>>
    PROVE  MigrateIInv'
<1>1. starter' \in [Starters -> StarterRec]
  BY DEF MigrateIInv, MigrateTyping
<1>2. \A q \in Starters : AtVersion(starter'[q], recorded)
  BY DEF MigrateIInv, MigrateTyping
<1> QED BY <1>1, <1>2 DEF MigrateIInv, MigrateTyping, MigratedOnce

\* loop of runMigrations: the next version that is not applied.
LEMMA NextVersionKeeps == ASSUME MigrateIInv, NEW p \in Starters, NextVersion(p) PROVE MigrateIInv'
<1> USE UpkeepAssumption
<1> DEFINE x == starter[p]
           left == {v \in Versions : v > x.version /\ v \notin x.seen}
           v == CHOOSE v \in left : \A u \in left : v <= u
<1>1. /\ starter \in [Starters -> StarterRec] /\ x \in StarterRec /\ AtVersion(x, recorded) /\ x.pc = "run"
      /\ UNCHANGED <<effects, recorded>>
  BY DEF MigrateIInv, MigrateTyping, NextVersion
<1>2. starter' = IF left = {} THEN [starter EXCEPT ![p].pc = "ready"]
                 ELSE [starter EXCEPT ![p].pc = IF v \in Rebuilds THEN "off" ELSE "tx", ![p].version = v]
  BY Zenon DEF NextVersion
<1>3. CASE left = {}
  <2> DEFINE y == [x EXCEPT !.pc = "ready"]
  <2>1. starter' = [starter EXCEPT ![p] = y]
    BY <1>1, <1>2, <1>3
  <2>2. y \in StarterRec /\ y.pc = "ready" /\ y.seen = x.seen
    BY <1>1 DEF StarterRec
  <2> HIDE DEF y
  <2>3. AtVersion(y, recorded)
    BY <1>1, <2>2 DEF AtVersion
  <2> QED BY <1>1, <2>1, <2>2, <2>3, OneStarter
<1>4. CASE left # {}
  <2>1. left \in SUBSET Nat
    BY DEF Versions
  <2> HIDE DEF left
  <2>2. \E n \in left : \A m \in left : n <= m
    BY <1>4, <2>1, Smallest
  <2>3. v \in left /\ \A u \in left : v <= u
    BY <2>2, Zenon
  <2>4. v \in Versions /\ v > x.version
    BY <2>3 DEF left
  <2> DEFINE w == IF v \in Rebuilds THEN "off" ELSE "tx"
             y == [x EXCEPT !.pc = w, !.version = v]
  <2>5. starter' = [starter EXCEPT ![p].pc = w, ![p].version = v]
    BY <1>2, <1>4
  <2>6. w \in {"off", "tx"}
    OBVIOUS
  <2> HIDE DEF v, w
  <2>7. starter' = [starter EXCEPT ![p] = y]
    BY <1>1, <2>5
  <2>8. v \in 0 .. Latest
    BY <2>4 DEF Versions
  <2>9. y \in StarterRec /\ y.pc = w /\ y.version = v /\ y.seen = x.seen
    BY <1>1, <2>6, <2>8 DEF StarterRec
  <2> HIDE DEF y
  <2>10. ASSUME NEW u \in Versions, u < v PROVE u \in recorded
    <3>1. u \notin left
      BY <2>3, <2>4, <2>10 DEF Versions
    <3>2. x.version \in Nat
      BY <1>1 DEF StarterRec
    <3>3. u \in x.seen \/ u <= x.version
      BY <3>1, <3>2 DEF left, Versions
    <3> QED BY <1>1, <3>3 DEF AtVersion
  <2>11. AtVersion(y, recorded)
    BY <1>1, <2>4, <2>6, <2>9, <2>10 DEF AtVersion
  <2> QED BY <1>1, <2>7, <2>9, <2>11, OneStarter
<1> QED BY <1>3, <1>4

\* The transaction of a migration.
LEMMA ApplyKeeps == ASSUME MigrateIInv, NEW p \in Starters, Apply(p) PROVE MigrateIInv'
<1> USE UpkeepAssumption
<1> DEFINE x == starter[p]
           v == x.version
<1>1. /\ starter \in [Starters -> StarterRec] /\ x \in StarterRec /\ AtVersion(x, recorded) /\ x.pc = "tx"
      /\ effects \in [Versions -> 0 .. 2] /\ recorded \subseteq Versions
  BY DEF MigrateIInv, MigrateTyping, Apply
<1>2. v \in Versions /\ \A u \in Versions : u < v => u \in recorded
  BY <1>1 DEF AtVersion
<1>3. CASE starter' = [starter EXCEPT ![p].pc = "failed"] /\ UNCHANGED <<effects, recorded>>
  <2> DEFINE y == [x EXCEPT !.pc = "failed"]
  <2>1. starter' = [starter EXCEPT ![p] = y]
    BY <1>1, <1>3
  <2>2. y \in StarterRec /\ y.pc = "failed" /\ y.seen = x.seen
    BY <1>1 DEF StarterRec
  <2> HIDE DEF y
  <2>3. AtVersion(y, recorded)
    BY <1>1, <2>2 DEF AtVersion
  <2> QED BY <1>1, <1>3, <2>1, <2>2, <2>3, OneStarter
<1>4. CASE /\ v \notin recorded /\ recorded' = recorded \cup {v} /\ effects' = [effects EXCEPT ![v] = @ + 1]
           /\ starter' = [starter EXCEPT ![p].pc = IF v \in Rebuilds THEN "on" ELSE "run"]
  <2> DEFINE w == IF v \in Rebuilds THEN "on" ELSE "run"
             y == [x EXCEPT !.pc = w]
  <2>1. starter' = [starter EXCEPT ![p] = y]
    BY <1>1, <1>4
  <2>2. y \in StarterRec /\ y.pc \in {"on", "run"} /\ y.seen = x.seen /\ y.version = v
    BY <1>1 DEF StarterRec
  <2> HIDE DEF y
  <2>3. effects[v] = 0
    BY <1>2, <1>4 DEF MigrateIInv, MigratedOnce
  <2>4. effects' = [effects EXCEPT ![v] = 1]
    BY <1>4, <2>3
  <2> HIDE DEF v
  <2>5. effects' \in [Versions -> 0 .. 2] /\ recorded' \subseteq Versions /\ starter' \in [Starters -> StarterRec]
    BY <1>1, <1>2, <1>4, <2>1, <2>2, <2>4
  <2>6. \A u \in Versions : effects'[u] = IF u \in recorded' THEN 1 ELSE 0
    BY <1>1, <1>2, <1>4, <2>4 DEF MigrateIInv, MigratedOnce
  <2>7. \A u \in Versions : u <= v => u \in recorded'
    BY <1>2, <1>4 DEF Versions
  <2>8. 1 .. v \subseteq recorded'
    BY <1>2, <2>7 DEF Versions
  <2>9. MigratedOnce'
    BY <1>4, <2>6, <2>8 DEF MigrateIInv, MigratedOnce
  <2>10. AtVersion(y, recorded')
    BY <1>1, <1>4, <2>2, <2>7 DEF AtVersion
  <2>11. \A q \in Starters : AtVersion(starter[q], recorded')
    BY <1>4 DEF MigrateIInv, AtVersion
  <2>12. \A q \in Starters : AtVersion(starter'[q], recorded')
    BY <1>1, <2>1, <2>10, <2>11
  <2> QED BY <2>5, <2>9, <2>12 DEF MigrateIInv, MigrateTyping
<1> QED BY <1>3, <1>4 DEF Apply

\* Every step of the migrations keeps the invariant.
LEMMA MigrateKeeps == MigrateIInv /\ MigrateNext => MigrateIInv'
<1> SUFFICES ASSUME MigrateIInv, NEW p \in Starters,
                    \/ ReadApplied(p) \/ KeysOff(p) \/ KeysOn(p) \/ KeyCheck(p) \/ StartsAgain(p) \/ KillStarter(p)
             PROVE  MigrateIInv'
  BY NextVersionKeeps, ApplyKeeps DEF MigrateNext
<1> USE UpkeepAssumption
<1> DEFINE x == starter[p]
<1>1. /\ starter \in [Starters -> StarterRec] /\ x \in StarterRec /\ AtVersion(x, recorded)
      /\ UNCHANGED <<effects, recorded>> /\ recorded \subseteq Versions
  BY DEF MigrateIInv, MigrateTyping, ReadApplied, KeysOff, KeysOn, KeyCheck, StartsAgain, KillStarter
<1>2. CASE ReadApplied(p)
  <2> DEFINE y == [pc |-> "run", version |-> 0, seen |-> recorded]
  <2>1. starter' = [starter EXCEPT ![p] = y]
    BY <1>2 DEF ReadApplied
  <2>2. y \in StarterRec /\ y.pc = "run" /\ y.seen = recorded /\ y.version = 0
    BY <1>1 DEF StarterRec
  <2> HIDE DEF y
  <2>3. AtVersion(y, recorded)
    BY <2>2 DEF AtVersion, Versions
  <2> QED BY <1>1, <2>1, <2>2, <2>3, OneStarter
<1>3. ASSUME NEW w \in {"tx", "failed", "check", "run"}, starter' = [starter EXCEPT ![p].pc = w],
             w = "tx" => x.pc = "off", w \in {"check", "run"} => x.pc \in {"on", "check"}
      PROVE  MigrateIInv'
  <2> DEFINE y == [x EXCEPT !.pc = w]
  <2>1. starter' = [starter EXCEPT ![p] = y]
    BY <1>1, <1>3
  <2>2. y \in StarterRec /\ y.pc = w /\ y.seen = x.seen /\ y.version = x.version
    BY <1>1 DEF StarterRec
  <2> HIDE DEF y
  <2>3. AtVersion(y, recorded)
    BY <1>1, <1>3, <2>2 DEF AtVersion
  <2> QED BY <1>1, <2>1, <2>2, <2>3, OneStarter
<1>4. CASE KeysOff(p) \/ KeysOn(p) \/ KeyCheck(p)
  BY <1>3, <1>4 DEF KeysOff, KeysOn, KeyCheck
<1>5. CASE StartsAgain(p) \/ KillStarter(p)
  <2>1. starter' = [starter EXCEPT ![p] = Idle]
    BY <1>5 DEF StartsAgain, KillStarter
  <2>2. Idle \in StarterRec /\ AtVersion(Idle, recorded)
    BY DEF Idle, StarterRec, AtVersion
  <2> QED BY <1>1, <2>1, <2>2, OneStarter
<1> QED BY <1>2, <1>4, <1>5

\* The steps of the gateway beside a backup or a restore.
LEMMA GatewayKeeps ==
    ASSUME CopyIInv, (\E t \in Tapes : Finish(t) \/ Purge(t)) \/ Stop \/ KillGateway
    PROVE  CopyIInv'
<1>0. CopyTyping /\ restore.pc = "idle" /\ gateway = "runs" /\ UNCHANGED <<backup, archive, restore, old>>
  BY DEF CopyIInv, RestoreKnown, Finish, Purge, Stop, KillGateway
<1>1. ASSUME NEW t \in Tapes, NEW state \in {"stored", "purged"}, Write(t, state) PROVE db' \in [main : Rows, log : Rows]
  <2> DEFINE l == [db.log EXCEPT ![t] = state]
  <2>1. db' = [db EXCEPT !.log = l]
    BY <1>1 DEF Write, Seen
  <2>2. l \in Rows
    BY <1>0 DEF CopyTyping, Rows
  <2> HIDE DEF l
  <2> QED BY <1>0, <2>1, <2>2 DEF CopyTyping
<1>2. ASSUME NEW t \in Tapes, Finish(t) PROVE CopyIInv'
  <2>1. CopyTyping'
    BY <1>0, <1>1, <1>2 DEF Finish, CopyTyping
  <2>2. CopyKnown'
    BY <1>2 DEF Finish, CopyIInv, CopyKnown
  <2> QED BY <1>0, <1>2, <2>1, <2>2 DEF Finish, CopyIInv, ArchiveWhole, RestoreKeepsOne, RestoreKnown
<1>3. ASSUME NEW t \in Tapes, Purge(t) PROVE CopyIInv'
  <2>1. purged' \subseteq Tapes
    BY <1>0, <1>3 DEF Purge, CopyTyping
  <2>2. CopyTyping'
    BY <1>0, <1>1, <1>3, <2>1 DEF Purge, CopyTyping
  <2>3. CopyKnown'
    <3>1. CASE backup = NoBackup
      BY <1>0, <3>1 DEF NoBackup, CopyKnown
    <3>2. CASE backup # NoBackup
      BY <1>3, <3>2 DEF Purge, CopyIInv, CopyKnown
    <3> QED BY <3>1, <3>2
  <2> QED BY <1>0, <1>3, <2>2, <2>3 DEF Purge, CopyIInv, ArchiveWhole, RestoreKeepsOne, RestoreKnown
<1>4. CASE Stop
  <2>1. CopyTyping'
    BY <1>0, <1>4 DEF Stop, CopyTyping, Settled, Seen
  <2>2. RestoreKnown'
    BY <1>0, <1>4 DEF Stop, RestoreKnown, Settled
  <2> QED BY <1>0, <1>4, <2>1, <2>2 DEF Stop, CopyIInv, ArchiveWhole, RestoreKeepsOne, CopyKnown
<1>5. CASE KillGateway
  BY <1>0, <1>5 DEF KillGateway, CopyIInv, CopyTyping, ArchiveWhole, RestoreKeepsOne, CopyKnown, RestoreKnown
<1> QED BY <1>2, <1>3, <1>4, <1>5

\* No backup under way is a state of the backup.
LEMMA NothingBackedUp == NoBackup \in BackupRec /\ NoBackup.pc = "idle"
  BY DEF NoBackup, BackupRec, NoRows, Rows

\* Every step of a backup keeps the invariant.
LEMMA BackupKeeps ==
    ASSUME CopyIInv, Snapshot \/ (\E t \in Tapes : CopyTape(t)) \/ CopyEnds \/ BackupFails \/ Pack
    PROVE  CopyIInv'
<1>0. CopyTyping /\ UNCHANGED <<db, tapes, gateway, restore, old>>
  BY DEF CopyIInv, Snapshot, CopyTape, CopyEnds, BackupFails, Pack
<1>1. RestoreKeepsOne' /\ RestoreKnown'
  BY <1>0 DEF CopyIInv, RestoreKeepsOne, RestoreKnown, Seen
<1>2. CASE Snapshot
  <2>1. CASE /\ backup' = [pc |-> "copy", rows |-> Seen, files |-> {}, todo |-> tapes]
             /\ purged' = {t \in Tapes : Seen[t] = "stored" /\ t \notin tapes}
    <3>0. Seen \in Rows
      BY <1>0 DEF Seen, CopyTyping
    <3>1. backup' \in BackupRec /\ purged' \subseteq Tapes
      BY <1>0, <2>1, <3>0 DEF CopyTyping, BackupRec
    <3>2. CopyKnown'
      BY <1>0, <2>1 DEF CopyKnown
    <3>3. CopyTyping' /\ ArchiveWhole'
      BY <1>0, <1>2, <3>1 DEF Snapshot, CopyTyping, CopyIInv, ArchiveWhole
    <3> QED BY <1>1, <3>2, <3>3 DEF CopyIInv
  <2>2. CASE UNCHANGED <<backup, purged>>
    BY <1>0, <1>1, <1>2, <2>2 DEF Snapshot, CopyIInv, CopyTyping, ArchiveWhole, CopyKnown
  <2> QED BY <1>2, <2>1, <2>2 DEF Snapshot
<1>3. ASSUME NEW t \in Tapes, CopyTape(t) PROVE CopyIInv'
  <2> DEFINE fs == backup.files \cup {t}
             td == backup.todo \ {t}
  <2>1. backup' = [backup EXCEPT !.files = fs, !.todo = td]
    BY <1>3 DEF CopyTape
  <2>2. fs \subseteq Tapes /\ td \subseteq Tapes
    BY <1>0 DEF CopyTyping, BackupRec
  <2>s. \A u \in Tapes : (u \in fs <=> u \in backup.files \/ u = t) /\ (u \in td <=> u \in backup.todo /\ u # t)
    OBVIOUS
  <2> HIDE DEF fs, td
  <2>3. backup' \in BackupRec /\ backup'.files = fs /\ backup'.todo = td /\ backup'.rows = backup.rows /\ backup'.pc = "copy"
    BY <1>0, <1>3, <2>1, <2>2 DEF CopyTyping, BackupRec, CopyTape
  <2>4. CopyKnown'
    BY <1>0, <1>3, <2>3, <2>s DEF CopyTape, CopyIInv, CopyKnown
  <2>5. CopyTyping' /\ ArchiveWhole'
    BY <1>0, <1>3, <2>3 DEF CopyTape, CopyTyping, CopyIInv, ArchiveWhole
  <2> QED BY <1>1, <2>4, <2>5 DEF CopyIInv
<1>4. CASE CopyEnds
  <2>1. backup' \in BackupRec /\ backup'.pc = "pack" /\ backup'.files = backup.files /\ backup'.rows = backup.rows
    BY <1>0, <1>4 DEF CopyEnds, CopyTyping, BackupRec
  <2>2. CopyKnown'
    BY <1>0, <1>4, <2>1 DEF CopyEnds, CopyIInv, CopyKnown
  <2>3. CopyTyping' /\ ArchiveWhole'
    BY <1>0, <1>4, <2>1 DEF CopyEnds, CopyTyping, CopyIInv, ArchiveWhole
  <2> QED BY <1>1, <2>2, <2>3 DEF CopyIInv
<1>5. CASE BackupFails
  <2>1. backup' \in BackupRec /\ backup'.pc = "idle" /\ purged' = {}
    BY <1>5, NothingBackedUp DEF BackupFails
  <2> QED BY <1>0, <1>1, <1>5, <2>1 DEF BackupFails, CopyTyping, CopyIInv, ArchiveWhole, CopyKnown
<1>6. CASE Pack
  <2>1. backup' \in BackupRec /\ backup'.pc = "idle" /\ purged' = {}
    BY <1>6, NothingBackedUp DEF Pack
  <2>2. archive' \in ArchiveRec /\ archive'.rows = backup.rows /\ archive'.files = backup.files /\ archive'.lost = purged
    BY <1>0, <1>6 DEF Pack, Packed, CopyTyping, ArchiveRec, BackupRec
  <2>3. ArchiveWhole'
    BY <1>6, <2>2 DEF Pack, CopyIInv, CopyKnown, ArchiveWhole
  <2> QED BY <1>0, <1>1, <2>1, <2>2, <2>3 DEF CopyTyping, CopyIInv, CopyKnown
<1> QED BY <1>2, <1>3, <1>4, <1>5, <1>6

\* A restore that moves on with what it extracted.
LEMMA RestoreStage ==
    ASSUME CopyIInv, NEW stage \in {"beside", "nolog", "placed", "failed"}, RestoreAt(stage)
    PROVE  restore' \in RestoreRec /\ restore'.pc = stage /\ restore'.rows = restore.rows
  BY DEF CopyIInv, CopyTyping, RestoreAt, RestoreRec

\* Every step of a restore keeps the invariant.
LEMMA RestoreKeeps ==
    ASSUME CopyIInv, Extract \/ CopyBeside \/ RemoveLog \/ Place \/ RestoreTapes \/ KillRestore
    PROVE  CopyIInv'
<1>0. CopyTyping /\ UNCHANGED <<backup, archive, purged>>
  BY DEF CopyIInv, Extract, CopyBeside, RemoveLog, Place, RestoreTapes, KillRestore
<1>1. ArchiveWhole'
  BY <1>0 DEF CopyIInv, ArchiveWhole
<1>2. CASE Extract
  <2>1. restore' \in RestoreRec /\ restore'.pc = "extracted" /\ old' = Seen /\ Seen \in Rows
    BY <1>0, <1>2 DEF Extract, Unpacked, CopyTyping, RestoreRec, ArchiveRec, Seen
  <2>2. CopyTyping' /\ CopyKnown'
    BY <1>0, <1>2, <2>1 DEF Extract, CopyTyping, CopyIInv, CopyKnown
  <2>3. RestoreKnown' /\ RestoreKeepsOne'
    BY <1>2, <2>1 DEF Extract, CopyIInv, RestoreKnown, RestoreKeepsOne, Seen
  <2> QED BY <1>1, <2>2, <2>3 DEF CopyIInv
<1>3. CASE CopyBeside \/ KillRestore
  <2>1. /\ UNCHANGED <<db, tapes, gateway, old>> /\ restore.pc # "idle"
        /\ RestoreAt("beside") \/ RestoreAt("failed")
    BY <1>3 DEF CopyBeside, KillRestore
  <2>2. restore' \in RestoreRec /\ restore'.rows = restore.rows /\ restore'.pc # "idle"
    BY <2>1, RestoreStage
  <2> QED BY <1>0, <1>1, <2>1, <2>2 DEF CopyTyping, CopyIInv, CopyKnown, RestoreKnown, RestoreKeepsOne, Seen
<1>4. CASE RemoveLog
  <2>1. restore' \in RestoreRec /\ restore'.rows = restore.rows /\ restore'.pc # "idle" /\ restore.pc # "idle"
    BY <1>4, RestoreStage DEF RemoveLog
  <2>2. db' = Settled(db.main) /\ UNCHANGED <<tapes, gateway, old>>
    BY <1>4 DEF RemoveLog
  <2>3. db' \in [main : Rows, log : Rows] /\ db'.main = db'.log /\ db'.log = db.main
    BY <1>0, <2>2 DEF Settled, CopyTyping
  <2>4. CopyTyping' /\ CopyKnown'
    BY <1>0, <2>1, <2>2, <2>3 DEF CopyTyping, CopyIInv, CopyKnown
  <2>5. RestoreKnown' /\ RestoreKeepsOne'
    BY <2>1, <2>2, <2>3 DEF CopyIInv, RestoreKnown, RestoreKeepsOne, Seen
  <2> QED BY <1>1, <2>4, <2>5 DEF CopyIInv
<1>5. CASE Place
  <2>1. restore' \in RestoreRec /\ restore'.rows = restore.rows /\ restore'.pc # "idle" /\ restore.pc # "idle"
    BY <1>5, RestoreStage DEF Place
  <2>2. (db' = Settled(restore.rows) \/ UNCHANGED db) /\ UNCHANGED <<tapes, gateway, old>>
    BY <1>5 DEF Place
  <2>3. CASE db' = Settled(restore.rows)
    <3>1. db' \in [main : Rows, log : Rows] /\ db'.main = db'.log /\ db'.log = restore.rows
      BY <1>0, <2>3 DEF Settled, CopyTyping, RestoreRec
    <3>2. CopyTyping' /\ CopyKnown'
      BY <1>0, <2>1, <2>2, <3>1 DEF CopyTyping, CopyIInv, CopyKnown
    <3>3. RestoreKnown' /\ RestoreKeepsOne'
      BY <2>1, <2>2, <3>1 DEF CopyIInv, RestoreKnown, RestoreKeepsOne, Seen
    <3> QED BY <1>1, <3>2, <3>3 DEF CopyIInv
  <2>4. CASE UNCHANGED db
    BY <1>0, <1>1, <2>1, <2>2, <2>4 DEF CopyTyping, CopyIInv, CopyKnown, RestoreKnown, RestoreKeepsOne, Seen
  <2> QED BY <2>2, <2>3, <2>4
<1>6. CASE RestoreTapes
  <2>1. CASE tapes' = tapes \cup restore.files /\ restore' = NoRestore /\ gateway' = "runs" /\ old' = NoRows
    <3>1. restore' \in RestoreRec /\ restore'.pc = "idle" /\ old' \in Rows
      BY <2>1 DEF NoRestore, RestoreRec, NoRows, Rows
    <3>2. tapes' \subseteq Tapes /\ tapes \subseteq tapes'
      BY <1>0, <2>1 DEF CopyTyping, RestoreRec
    <3>3. CopyTyping' /\ CopyKnown'
      BY <1>0, <1>6, <2>1, <3>1, <3>2 DEF RestoreTapes, CopyTyping, CopyIInv, CopyKnown
    <3> QED BY <1>1, <2>1, <3>1, <3>3 DEF CopyIInv, RestoreKnown, RestoreKeepsOne
  <2>2. CASE RestoreAt("failed") /\ UNCHANGED <<tapes, gateway, old>>
    <3>1. restore' \in RestoreRec /\ restore'.rows = restore.rows /\ restore'.pc # "idle" /\ restore.pc # "idle" /\ UNCHANGED db
      BY <1>6, <2>2, RestoreStage DEF RestoreTapes
    <3> QED BY <1>0, <1>1, <2>2, <3>1 DEF CopyTyping, CopyIInv, CopyKnown, RestoreKnown, RestoreKeepsOne, Seen
  <2> QED BY <1>6, <2>1, <2>2 DEF RestoreTapes
<1> QED BY <1>2, <1>3, <1>4, <1>5, <1>6

\* What one side's steps leave alone.
LEMMA UpkeepNextIInv == UpkeepIInv /\ [MigrateNext \/ CopyNext]_upkeepVars => UpkeepIInv'
<1> SUFFICES ASSUME UpkeepIInv, [MigrateNext \/ CopyNext]_upkeepVars PROVE UpkeepIInv'
  OBVIOUS
<1>1. UNCHANGED copyVars => CopyIInv'
  BY DEF UpkeepIInv, copyVars, CopyIInv, CopyTyping, ArchiveWhole, RestoreKeepsOne, CopyKnown, RestoreKnown, Seen
<1>2. UNCHANGED migrateVars => MigrateIInv'
  BY DEF UpkeepIInv, migrateVars, MigrateIInv, MigrateTyping, MigratedOnce, AtVersion
<1>3. kills' \in 0 .. MaxKills /\ broken' \in 0 .. MaxBroken
  <2>1. (kills' = kills \/ (kills < MaxKills /\ kills' = kills + 1)) /\ (broken' = broken \/ (broken < MaxBroken /\ broken' = broken + 1))
    <3>1. CASE MigrateNext
      BY <3>1 DEF MigrateNext, ReadApplied, NextVersion, KeysOff, Apply, KeysOn, KeyCheck, StartsAgain, KillStarter, Breaks, Holds
    <3>2. CASE CopyNext
      BY <3>2 DEF CopyNext, Finish, Purge, CopyTape, Stop, KillGateway, Snapshot, CopyEnds, BackupFails, Pack,
                  Extract, CopyBeside, RemoveLog, Place, RestoreTapes, KillRestore, Breaks, Holds
    <3>3. CASE UNCHANGED upkeepVars
      BY <3>3 DEF upkeepVars
    <3> QED BY <3>1, <3>2, <3>3
  <2> QED BY <2>1, UpkeepAssumption DEF UpkeepIInv
<1>4. CASE MigrateNext
  <2>1. UNCHANGED copyVars
    BY <1>4 DEF MigrateNext, ReadApplied, NextVersion, KeysOff, Apply, KeysOn, KeyCheck, StartsAgain, KillStarter
  <2> QED BY <1>1, <1>3, <1>4, <2>1, MigrateKeeps DEF UpkeepIInv
<1>5. CASE CopyNext
  <2>1. UNCHANGED migrateVars
    BY <1>5 DEF CopyNext, Finish, Purge, CopyTape, Stop, KillGateway, Snapshot, CopyEnds, BackupFails, Pack,
                Extract, CopyBeside, RemoveLog, Place, RestoreTapes, KillRestore
  <2>2. CopyIInv'
    BY <1>5, GatewayKeeps, BackupKeeps, RestoreKeeps DEF CopyNext, UpkeepIInv
  <2> QED BY <1>2, <1>3, <2>1, <2>2 DEF UpkeepIInv
<1>6. CASE UNCHANGED upkeepVars
  BY <1>1, <1>2, <1>3, <1>6 DEF upkeepVars, UpkeepIInv
<1> QED BY <1>4, <1>5, <1>6

\* The upkeep invariant holds at the start.
LEMMA UpkeepInitIInv == UpkeepInit => UpkeepIInv
<1> SUFFICES ASSUME UpkeepInit PROVE UpkeepIInv
  OBVIOUS
<1> USE UpkeepAssumption DEF UpkeepInit
<1>1. NoRows \in Rows
  BY DEF NoRows, Rows
<1>2. MigrateTyping /\ \A p \in Starters : starter[p] = Idle
  BY DEF MigrateTyping, StarterRec, Idle, Versions
<1>3. MigratedOnce /\ AtVersion(Idle, {})
  BY DEF MigratedOnce, AtVersion, Idle
<1>4. CopyTyping
  BY <1>1 DEF CopyTyping, Settled, NoBackup, NoArchive, NoRestore, BackupRec, ArchiveRec, RestoreRec
<1>5. ArchiveWhole /\ RestoreKeepsOne /\ CopyKnown /\ RestoreKnown
  BY DEF ArchiveWhole, NoArchive, RestoreKeepsOne, CopyKnown, RestoreKnown, NoBackup, NoRestore, Settled
<1> QED BY <1>2, <1>3, <1>4, <1>5 DEF UpkeepIInv, MigrateIInv, CopyIInv

\* The file names a key whenever it says how; a file about to be written names the key
\* of the one there is.
FileKnown ==
    /\ envFile.key # NoKey <=> envFile.how \notin {"absent", "none"}
    /\ initRun.pc # "idle" => /\ initRun.content.key # NoKey /\ initRun.content.how # "absent"
                              /\ envFile.key # NoKey => initRun.content.key = envFile.key

InstallIInv == InstallTypeOK /\ KeyPreserved /\ FileKnown

\* Every step of zanskar init keeps its invariant.
LEMMA InstallNextIInv == InstallIInv /\ [InstallNext]_installVars => InstallIInv'
<1> SUFFICES ASSUME InstallIInv, [InstallNext]_installVars PROVE InstallIInv'
  OBVIOUS
<1> USE UpkeepAssumption DEF InstallIInv
<1> DEFINE IdleRun == initRun' = NotRunning
<1>0. NotRunning \in [pc : {"idle", "temp", "written"}, content : [how : {"absent", "key", "file"}, key : MasterKeys \cup {NoKey}]]
      /\ NotRunning.pc = "idle"
  BY DEF NotRunning, NoFile
<1>1. ASSUME NEW force \in BOOLEAN, InitStart(force) PROVE InstallIInv'
  <2>1. PICK k \in IF envFile.how \in {"key", "file"} THEN {envFile.key} ELSE newMasterKey :
            initRun' = [pc |-> "temp", content |-> renderEnv(k)]
    BY <1>1 DEF InitStart
  <2>2. envFile.how \in {"absent", "none", "key", "file"} /\ UNCHANGED <<envFile, sealedBy>>
    BY <1>1 DEF InitStart, inTheWay, InstallTypeOK, Hows
  <2>3. k \in MasterKeys /\ (envFile.key # NoKey => k = envFile.key)
    BY <2>1, <2>2 DEF newMasterKey, InstallTypeOK, FileKnown
  <2>4. renderEnv(k) \in [how : {"absent", "key", "file"}, key : MasterKeys \cup {NoKey}]
    BY <2>2, <2>3 DEF renderEnv, InstallTypeOK
  <2>5. renderEnv(k).key = k /\ renderEnv(k).how # "absent"
    BY <2>2, <2>3 DEF renderEnv, InstallTypeOK, FileKnown
  <2> QED BY <2>1, <2>2, <2>3, <2>4, <2>5 DEF InstallTypeOK, KeyPreserved, FileKnown
<1>2. CASE writeTemp
  <2>1. CASE initRun' = NotRunning
    BY <1>0, <1>2, <2>1 DEF writeTemp, InstallTypeOK, KeyPreserved, FileKnown
  <2>2. CASE initRun' = [initRun EXCEPT !.pc = "written"]
    BY <1>2, <2>2 DEF writeTemp, InstallTypeOK, KeyPreserved, FileKnown
  <2> QED BY <1>2, <2>1, <2>2 DEF writeTemp
<1>3. CASE writeRename
  <2>1. initRun' = NotRunning /\ sealedBy' = sealedBy /\ initRun.pc # "idle" /\ (envFile' = initRun.content \/ envFile' = envFile)
    BY <1>3 DEF writeRename
  <2>2. envFile' \in [how : Hows, key : MasterKeys \cup {NoKey}]
    BY <2>1 DEF InstallTypeOK, Hows
  <2>3. KeyPreserved' /\ FileKnown'
    BY <1>0, <2>1 DEF InstallTypeOK, KeyPreserved, FileKnown
  <2> QED BY <1>0, <2>1, <2>2, <2>3 DEF InstallTypeOK
<1>4. CASE InitStops
  BY <1>0, <1>4 DEF InitStops, InstallTypeOK, KeyPreserved, FileKnown
<1>5. CASE ServeStarts
  BY <1>5 DEF ServeStarts, InstallTypeOK, KeyPreserved, FileKnown
<1>6. CASE OperatorEdits
  <2>1. PICK how \in {"key", "odd", "file", "both"} : envFile' = [envFile EXCEPT !.how = how]
    BY <1>6 DEF OperatorEdits
  <2>2. envFile' \in [how : Hows, key : MasterKeys \cup {NoKey}] /\ envFile'.key = envFile.key /\ envFile'.how = how
    BY <2>1 DEF InstallTypeOK, Hows
  <2> QED BY <1>6, <2>2 DEF OperatorEdits, InstallTypeOK, KeyPreserved, FileKnown
<1>7. CASE UNCHANGED installVars
  BY <1>7 DEF installVars, InstallTypeOK, KeyPreserved, FileKnown
<1> QED BY <1>1, <1>2, <1>3, <1>4, <1>5, <1>6, <1>7 DEF InstallNext

\* For any number of migrations, processes and recordings (migrate.go, backup.go, init.go),
\* whatever fails or is killed in between: a migration is in the schema once and exactly
\* when it is recorded, an archive has the file of every recording its snapshot calls
\* stored, a restore leaves one database entire, and init keeps the master key.
THEOREM UpkeepStaysSound == UpkeepSpec /\ InstallSpec => []UpkeepSound
<1>1. InstallInit => InstallIInv
  BY UpkeepAssumption DEF InstallInit, InstallIInv, InstallTypeOK, KeyPreserved, FileKnown, NoFile, NotRunning, Hows
<1>2. UpkeepIInv /\ InstallIInv => UpkeepSound
  BY DEF UpkeepIInv, MigrateIInv, MigrateTyping, CopyIInv, CopyTyping, InstallIInv, UpkeepSound, UpkeepTypeOK,
         StarterRec, BackupRec, ArchiveRec, RestoreRec
<1> QED BY <1>1, <1>2, UpkeepInitIInv, UpkeepNextIInv, InstallNextIInv, PTL DEF UpkeepSpec, InstallSpec
-----------------------------------------------------------------------------
(* Settings.  What a change the console answered is in force as.           *)

CallerRec == [op : {"none", "set", "reset"}, pc : {"idle", "write", "read", "cache", "tell"},
              value : Values \cup {Unset}, row : Values \cup {Unset}]

\* One request is under way at a time; while it is, nothing counts as answered.
OneCaller ==
    /\ \A c, d \in SetCallers : caller[c] # Free /\ caller[d] # Free => c = d
    /\ \A c \in SetCallers : caller[c] # Free => answered = "other"

\* A request on its way: what it wrote is stored, what it read back is that, and what is
\* cached when the subscriber is told is that too.
Underway(x, st, ca) ==
    /\ x.pc # "idle" => \/ x.op = "set" /\ x.value \in Values
                        \/ x.op = "reset" /\ x.value = Unset /\ x.row = Unset /\ x.pc # "read"
    /\ x.pc \in {"read", "cache", "tell"} => st = x.value
    /\ x.pc \in {"cache", "tell"} => x.row = x.value
    /\ x.pc = "tell" => ca = x.value

AnsweredStands == answered # "other" => level = Effective(answered) /\ cached = answered /\ LoadRow = answered

SettingIInv == SettingTypeOK /\ OneCaller /\ AnsweredStands /\ \A c \in SetCallers : Underway(caller[c], stored, cached)

\* What a setting reads as is a value of it.
LEMMA EffectiveIsValue ==
    ASSUME SettingTypeOK, NEW row \in Values \cup {Unset} PROVE Effective(row) \in Values
  BY SettingsAssumption DEF SettingTypeOK, Effective

\* A caller with nothing to do.
LEMMA FreeKnown == Free \in CallerRec /\ Free.pc = "idle" /\ Free.op = "none"
  BY DEF Free, CallerRec

\* A step of the request that is under way, or of one that begins.
LEMMA OneCallerStep ==
    ASSUME SettingIInv, NEW c \in SetCallers, NEW x \in CallerRec, caller' = [caller EXCEPT ![c] = x],
           \A d \in SetCallers : d # c => caller[d] = Free,
           Underway(x, stored', cached'), x # Free => answered' = "other"
    PROVE  /\ caller' \in [SetCallers -> CallerRec] /\ OneCaller'
           /\ \A d \in SetCallers : Underway(caller'[d], stored', cached')
<1>1. caller \in [SetCallers -> CallerRec]
  BY DEF SettingIInv, SettingTypeOK, CallerRec
<1>2. caller' \in [SetCallers -> CallerRec] /\ caller'[c] = x /\ \A d \in SetCallers : d # c => caller'[d] = Free
  BY <1>1
<1>3. \A d \in SetCallers : Underway(caller'[d], stored', cached')
  BY <1>2, FreeKnown DEF Underway
<1>4. OneCaller'
  BY <1>2 DEF OneCaller
<1> QED BY <1>2, <1>3, <1>4

\* Every step on the settings keeps the invariant, changes one at a time.
LEMMA SettingNextIInv == ASSUME ~Overlapping PROVE SettingIInv /\ [SettingNext]_settingVars => SettingIInv'
<1> SUFFICES ASSUME SettingIInv, [SettingNext]_settingVars PROVE SettingIInv'
  OBVIOUS
<1> USE SettingsAssumption
<1>0. /\ caller \in [SetCallers -> CallerRec] /\ environ \in Values \cup {Unset} /\ stored \in Values \cup {Unset, Stale}
      /\ cached \in Values \cup {Unset} /\ level \in Values /\ answered \in Values \cup {Unset, "other"} /\ errors \in 0 .. MaxErrors
  BY DEF SettingIInv, SettingTypeOK, CallerRec
<1>n. MaxErrors \in Nat
  OBVIOUS
<1>e. ASSUME Err PROVE errors' \in 0 .. MaxErrors
  BY <1>0, <1>e DEF Err
<1>b. ASSUME NEW c \in SetCallers, caller[c].pc # "idle"
      PROVE  /\ \A d \in SetCallers : d # c => caller[d] = Free
             /\ answered = "other" /\ Underway(caller[c], stored, cached) /\ caller[c] \in CallerRec
  <2>1. caller[c] # Free
    BY <1>b, FreeKnown
  <2> QED BY <1>0, <2>1 DEF SettingIInv, OneCaller
<1>1. ASSUME NEW c \in SetCallers, NEW x \in CallerRec, caller[c] = Free, \A d \in SetCallers : caller[d] = Free,
             caller' = [caller EXCEPT ![c] = x], answered' = "other", UNCHANGED <<environ, stored, cached, level, errors>>,
             x.pc = "write", \/ x.op = "set" /\ x.value \in Values
                             \/ x.op = "reset" /\ x.value = Unset /\ x.row = Unset
      PROVE  SettingIInv'
  <2>1. Underway(x, stored', cached')
    BY <1>1 DEF Underway
  <2>2. /\ caller' \in [SetCallers -> CallerRec] /\ OneCaller'
        /\ \A d \in SetCallers : Underway(caller'[d], stored', cached')
    BY <1>1, <2>1, OneCallerStep
  <2>3. SettingTypeOK' /\ AnsweredStands'
    BY <1>0, <1>1, <2>2 DEF SettingTypeOK, CallerRec, AnsweredStands
  <2> QED BY <2>2, <2>3 DEF SettingIInv
<1>2. ASSUME NEW c \in SetCallers, ResetStart(c) PROVE SettingIInv'
  <2> DEFINE x == [op |-> "reset", pc |-> "write", value |-> Unset, row |-> Unset]
  <2>1. x \in CallerRec /\ x.pc = "write" /\ x.op = "reset" /\ x.value = Unset /\ x.row = Unset
    BY DEF CallerRec
  <2>2. caller' = [caller EXCEPT ![c] = x]
    BY <1>2 DEF ResetStart
  <2> HIDE DEF x
  <2> QED BY <1>1, <1>2, <2>1, <2>2 DEF ResetStart
<1>3. ASSUME NEW c \in SetCallers, NEW v \in Values, SetStart(c, v) PROVE SettingIInv'
  <2> DEFINE x == [op |-> "set", pc |-> "write", value |-> v, row |-> Unset]
  <2>1. x \in CallerRec /\ x.pc = "write" /\ x.op = "set" /\ x.value = v
    BY DEF CallerRec
  <2>2. caller' = [caller EXCEPT ![c] = x]
    BY <1>3 DEF SetStart
  <2> HIDE DEF x
  <2> QED BY <1>1, <1>3, <2>1, <2>2 DEF SetStart
<1>4. ASSUME NEW c \in SetCallers, caller[c].pc # "idle", Ends(c), UNCHANGED <<environ, stored, cached, level, answered>>, Err
      PROVE  SettingIInv'
  <2>1. caller' = [caller EXCEPT ![c] = Free] /\ Underway(Free, stored', cached')
    BY <1>4, FreeKnown DEF Ends, Underway
  <2>2. /\ caller' \in [SetCallers -> CallerRec] /\ OneCaller'
        /\ \A d \in SetCallers : Underway(caller'[d], stored', cached')
    BY <1>4, <1>b, <2>1, FreeKnown, OneCallerStep
  <2>3. SettingTypeOK' /\ AnsweredStands'
    BY <1>0, <1>e, <1>b, <1>4, <2>2 DEF SettingTypeOK, CallerRec, AnsweredStands
  <2> QED BY <2>2, <2>3 DEF SettingIInv
<1>5. ASSUME NEW c \in SetCallers, NEW x \in CallerRec, caller[c].pc # "idle", caller' = [caller EXCEPT ![c] = x],
             UNCHANGED <<environ, level, answered, errors>>, Underway(x, stored', cached'),
             stored' \in Values \cup {Unset, Stale}, cached' \in Values \cup {Unset}
      PROVE  SettingIInv'
  <2>2. /\ caller' \in [SetCallers -> CallerRec] /\ OneCaller'
        /\ \A d \in SetCallers : Underway(caller'[d], stored', cached')
    BY <1>5, <1>b, OneCallerStep
  <2>3. SettingTypeOK' /\ AnsweredStands'
    BY <1>0, <1>b, <1>5, <2>2 DEF SettingTypeOK, CallerRec, AnsweredStands
  <2> QED BY <2>2, <2>3 DEF SettingIInv
<1>6. ASSUME NEW c \in SetCallers, RepoWrite(c) PROVE SettingIInv'
  <2>0. caller[c].pc = "write" /\ caller[c] \in CallerRec /\ Underway(caller[c], stored, cached)
    BY <1>6, <1>b DEF RepoWrite
  <2>1. CASE stored' = caller[c].value /\ Hold(c, IF caller[c].op = "set" THEN "read" ELSE "cache") /\ UNCHANGED errors
    <3> DEFINE w == IF caller[c].op = "set" THEN "read" ELSE "cache"
               x == [caller[c] EXCEPT !.pc = w]
    <3>1. caller' = [caller EXCEPT ![c] = x]
      BY <1>0, <2>1 DEF Hold
    <3>2. /\ x \in CallerRec /\ x.pc = w /\ x.op = caller[c].op /\ x.value = caller[c].value /\ x.row = caller[c].row
          /\ w \in {"read", "cache"} /\ (w = "read" <=> caller[c].op = "set")
      BY <2>0 DEF CallerRec
    <3>3. caller[c].value \in Values \cup {Unset}
      BY <2>0 DEF CallerRec
    <3> HIDE DEF x, w
    <3>4. Underway(x, stored', cached')
      BY <2>0, <2>1, <3>2 DEF Underway
    <3> QED BY <1>0, <1>5, <1>6, <2>0, <2>1, <3>1, <3>2, <3>3, <3>4 DEF RepoWrite
  <2>2. CASE Err /\ Ends(c) /\ UNCHANGED stored
    BY <1>4, <1>6, <2>0, <2>2 DEF RepoWrite
  <2> QED BY <1>6, <2>1, <2>2 DEF RepoWrite
<1>7. ASSUME NEW c \in SetCallers, RepoGet(c) PROVE SettingIInv'
  <2>0. caller[c].pc = "read" /\ caller[c] \in CallerRec /\ Underway(caller[c], stored, cached)
    BY <1>7, <1>b DEF RepoGet
  <2>1. CASE caller' = [caller EXCEPT ![c].pc = "cache", ![c].row = stored] /\ UNCHANGED errors
    <3> DEFINE x == [caller[c] EXCEPT !.pc = "cache", !.row = stored]
    <3>1. caller' = [caller EXCEPT ![c] = x]
      BY <1>0, <2>1
    <3>2. stored = caller[c].value /\ stored \in Values
      BY <2>0 DEF Underway
    <3>3. x \in CallerRec /\ x.pc = "cache" /\ x.op = caller[c].op /\ x.value = caller[c].value /\ x.row = stored
      BY <2>0, <3>2 DEF CallerRec
    <3> HIDE DEF x
    <3>4. Underway(x, stored, cached)
      BY <2>0, <3>2, <3>3 DEF Underway
    <3> QED BY <1>0, <1>5, <1>7, <2>0, <2>1, <3>1, <3>3, <3>4 DEF RepoGet
  <2>2. CASE Err /\ Ends(c)
    BY <1>4, <1>7, <2>0, <2>2 DEF RepoGet
  <2> QED BY <1>7, <2>1, <2>2 DEF RepoGet
<1>8. ASSUME NEW c \in SetCallers, CacheRow(c) PROVE SettingIInv'
  <2>0. caller[c].pc = "cache" /\ caller[c] \in CallerRec /\ Underway(caller[c], stored, cached)
    BY <1>8, <1>b DEF CacheRow
  <2> DEFINE x == [caller[c] EXCEPT !.pc = "tell"]
  <2>1. caller' = [caller EXCEPT ![c] = x] /\ cached' = caller[c].row
    BY <1>0, <1>8 DEF CacheRow, Hold
  <2>2. /\ x \in CallerRec /\ x.pc = "tell" /\ x.op = caller[c].op /\ x.value = caller[c].value /\ x.row = caller[c].row
        /\ caller[c].row \in Values \cup {Unset}
    BY <2>0 DEF CallerRec
  <2> HIDE DEF x
  <2>3. Underway(x, stored, cached')
    BY <2>0, <2>1, <2>2 DEF Underway
  <2> QED BY <1>0, <1>5, <1>8, <2>0, <2>1, <2>2, <2>3 DEF CacheRow
<1>9. ASSUME NEW c \in SetCallers, Tell(c) PROVE SettingIInv'
  <2>0. caller[c].pc = "tell" /\ caller[c] \in CallerRec /\ Underway(caller[c], stored, cached)
    BY <1>9, <1>b DEF Tell
  <2>1. /\ caller' = [caller EXCEPT ![c] = Free] /\ level' = Told(c) /\ answered' = caller[c].value
        /\ UNCHANGED <<environ, stored, cached, errors>> /\ Underway(Free, stored', cached')
    BY <1>9, FreeKnown DEF Tell, Ends, Underway
  <2>2. /\ caller' \in [SetCallers -> CallerRec] /\ OneCaller'
        /\ \A d \in SetCallers : Underway(caller'[d], stored', cached')
    BY <1>b, <2>0, <2>1, FreeKnown, OneCallerStep
  <2>3. caller[c].value \in Values \cup {Unset} /\ cached = caller[c].value /\ stored = caller[c].value
    BY <2>0 DEF CallerRec, Underway
  <2>4. level' = Effective(cached) /\ LoadRow = stored
    BY <2>0, <2>1, <2>3 DEF Told, Underway, Effective, LoadRow
  <2>5. level' \in Values
    BY <2>3, <2>4, EffectiveIsValue DEF SettingIInv
  <2>6. AnsweredStands'
    BY <2>1, <2>3, <2>4 DEF AnsweredStands, Effective, LoadRow
  <2>7. SettingTypeOK'
    BY <1>0, <2>1, <2>2, <2>3, <2>5 DEF SettingTypeOK, CallerRec
  <2> QED BY <2>2, <2>6, <2>7 DEF SettingIInv
<1>10. CASE StartOver
  <2>1. /\ caller' = [c \in SetCallers |-> Free] /\ cached' = LoadRow /\ level' = Effective(LoadRow)
        /\ UNCHANGED <<environ, stored, errors>> /\ (answered' = "other" \/ answered' = answered)
    BY <1>10 DEF StartOver
  <2>2. LoadRow \in Values \cup {Unset}
    BY <1>0 DEF LoadRow
  <2>3. level' \in Values
    BY <2>1, <2>2, EffectiveIsValue DEF SettingIInv
  <2>4. caller' \in [SetCallers -> CallerRec] /\ OneCaller' /\ \A d \in SetCallers : Underway(caller'[d], stored', cached')
    BY <2>1, FreeKnown DEF OneCaller, Underway
  <2>5. AnsweredStands'
    BY <2>1 DEF AnsweredStands, SettingIInv, LoadRow, Effective
  <2>6. SettingTypeOK'
    BY <1>0, <2>1, <2>2, <2>3, <2>4 DEF SettingTypeOK, CallerRec
  <2> QED BY <2>4, <2>5, <2>6 DEF SettingIInv
<1>11. CASE UNCHANGED settingVars
  BY <1>11 DEF settingVars, SettingIInv, SettingTypeOK, OneCaller, AnsweredStands, LoadRow, Effective
<1> QED BY <1>2, <1>3, <1>6, <1>7, <1>8, <1>9, <1>10, <1>11 DEF SettingNext

\* The settings invariant holds at the start.
LEMMA SettingInitIInv == SettingInit => SettingIInv
<1> SUFFICES ASSUME SettingInit PROVE SettingIInv
  OBVIOUS
<1> USE SettingsAssumption DEF SettingInit
<1>1. LoadRow = Unset
  BY DEF LoadRow
<1>2. Effective(Unset) \in Values
  BY DEF Effective
<1>3. SettingTypeOK
  BY <1>1, <1>2, FreeKnown DEF SettingTypeOK, CallerRec
<1> QED BY <1>3, FreeKnown DEF SettingIInv, OneCaller, AnsweredStands, Underway

-----------------------------------------------------------------------------
(* Certificates.  Which certificate serves.                                *)

JobRec == [op : {"none", "upload", "reset", "regenerate", "renew", "start"},
           pc : {"idle", "put", "set", "delete", "make", "look"} \cup Loading,
           cert : 0 .. MaxCert, replace : BOOLEAN]

\* The stored upload cannot serve; nor can a file.
NoUpload == slot["uploaded"] \in aged \cup {0}
Dark == NoUpload /\ ~file
Precedes == ~NoUpload => active = [source |-> "uploaded", cert |-> slot["uploaded"]]
FileFirst == file => active.source # "generated"

\* A goroutine on its way: one that will make a generated certificate serve knows that no
\* upload can and there is no file; only an upload not yet served, or a start, may find
\* that what serves is not what should.
JobKnown(x, dark, good, upload) ==
    /\ x.op # "none" /\ x.pc # "idle"
    /\ x.op = "upload" => x.pc \in {"put", "set"} /\ x.replace = TRUE /\ (x.pc = "set" => upload = x.cert)
    /\ x.op = "regenerate" => x.pc \in {"make", "put", "look", "set"} /\ x.replace = FALSE
    /\ x.op \in {"reset", "renew", "start"} =>
          /\ x.pc # "look"
          /\ x.pc \in {"make", "put"} => x.replace = TRUE
          /\ x.pc \in {"generated_row", "make", "put"} => dark
    /\ (x.op # "upload" /\ x.pc = "set") => dark
    /\ (x.op # "start" /\ (x.op = "upload" => x.pc # "set")) => good

CertTyping ==
    /\ file \in BOOLEAN
    /\ slot \in [{"uploaded", "generated"} -> 0 .. MaxCert]
    /\ active \in [source : {"uploaded", "file", "generated"}, cert : 0 .. MaxCert]
    /\ aged \subseteq Certs /\ issued \in 0 .. MaxCert
    /\ slips \in 0 .. MaxTlsErrors /\ years \in 0 .. MaxYears
Jobs ==
    /\ tls \in [TlsJobs -> JobRec]
    /\ \A j, k \in TlsJobs : tls[j] # NoJob /\ tls[k] # NoJob => j = k
    /\ (\A j \in TlsJobs : tls[j] = NoJob) => Precedes
    /\ \A j \in TlsJobs : tls[j] # NoJob => JobKnown(tls[j], Dark, Precedes, slot["uploaded"])

CertIInv == CertTyping /\ FileFirst /\ Jobs

\* No job on the certificate.
LEMMA NoJobKnown == NoJob \in JobRec /\ NoJob.pc = "idle" /\ NoJob.op = "none"
  BY CertificatesAssumption DEF NoJob, JobRec

\* The start's job on the certificate.
LEMMA StartingKnown == Starting \in JobRec /\ Starting.pc = "upload_row" /\ Starting.op = "start"
  BY NoJobKnown DEF JobRec, Starting, Loading

\* The goroutine that is at work is the only one.
LEMMA AtWork ==
    ASSUME Jobs, NEW j \in TlsJobs, tls[j].pc # "idle"
    PROVE  /\ \A k \in TlsJobs : k # j => tls[k] = NoJob
           /\ JobKnown(tls[j], Dark, Precedes, slot["uploaded"]) /\ tls[j] \in JobRec /\ tls[j] # NoJob
<1>1. tls[j] # NoJob
  BY NoJobKnown
<1> QED BY <1>1 DEF Jobs

\* A step of one job leaves the others as they were.
LEMMA OneJobStep ==
    ASSUME Jobs, NEW j \in TlsJobs, NEW x \in JobRec, tls' = [tls EXCEPT ![j] = x],
           \A k \in TlsJobs : k # j => tls[k] = NoJob,
           x = NoJob => Precedes', x # NoJob => JobKnown(x, Dark', Precedes', slot'["uploaded"])
    PROVE  Jobs'
<1>1. tls' \in [TlsJobs -> JobRec] /\ tls'[j] = x /\ \A k \in TlsJobs : k # j => tls'[k] = NoJob
  BY DEF Jobs
<1> HIDE DEF Precedes, Dark
<1> QED BY <1>1 DEF Jobs

\* Every step on the certificate keeps the invariant, jobs one at a time.
LEMMA CertNextIInv == ASSUME ~TLSOverlap PROVE CertIInv /\ [CertNext]_certVars => CertIInv'
<1> SUFFICES ASSUME CertIInv, [CertNext]_certVars PROVE CertIInv'
  OBVIOUS
<1> USE CertificatesAssumption
<1>0. CertTyping /\ FileFirst /\ Jobs /\ tls \in [TlsJobs -> JobRec]
  BY DEF CertIInv, Jobs
\* A goroutine that begins.
<1>1. ASSUME NEW j \in TlsJobs, NEW x \in JobRec, Begin(j, x), issued' \in 0 .. MaxCert, x.pc # "idle",
             \/ x.op = "upload" /\ x.pc = "put" /\ x.replace = TRUE
             \/ x.op = "regenerate" /\ x.pc = "make" /\ x.replace = FALSE
             \/ x.op = "reset" /\ x.pc = "delete"
             \/ x.op = "renew" /\ x.pc = "upload_row"
      PROVE  CertIInv'
  <2>1. /\ \A k \in TlsJobs : tls[k] = NoJob
        /\ tls' = [tls EXCEPT ![j] = x] /\ UNCHANGED <<file, slot, active, aged, slips, years>>
    BY <1>1 DEF Begin
  <2>2. Precedes /\ Precedes' /\ FileFirst'
    BY <1>0, <2>1 DEF Jobs, Precedes, NoUpload, FileFirst
  <2>3. JobKnown(x, Dark', Precedes', slot'["uploaded"])
    BY <1>1, <2>2 DEF JobKnown
  <2>4. Jobs'
    BY <1>0, <2>1, <2>2, <2>3, OneJobStep
  <2>5. CertTyping'
    BY <1>0, <1>1, <2>1 DEF CertTyping
  <2> QED BY <2>2, <2>4, <2>5 DEF CertIInv
<1>2. ASSUME NEW j \in TlsJobs, Upload(j) PROVE CertIInv'
  <2> DEFINE c == issued + 1
             x == [op |-> "upload", pc |-> "put", cert |-> c, replace |-> TRUE]
  <2>1. c \in 0 .. MaxCert /\ issued' = c
    BY <1>0, <1>2 DEF Upload, CertTyping
  <2>2. Begin(j, x)
    BY <1>2 DEF Upload
  <2> HIDE DEF c
  <2>3. x \in JobRec /\ x.op = "upload" /\ x.pc = "put" /\ x.replace = TRUE
    BY <2>1 DEF JobRec
  <2> HIDE DEF x
  <2> QED BY <1>1, <2>1, <2>2, <2>3
<1>3. ASSUME NEW j \in TlsJobs, Reset(j) PROVE CertIInv'
  <2> DEFINE x == [NoJob EXCEPT !.op = "reset", !.pc = "delete"]
  <2>1. x \in JobRec /\ x.op = "reset" /\ x.pc = "delete"
    BY NoJobKnown DEF JobRec
  <2>2. Begin(j, x) /\ issued' \in 0 .. MaxCert
    BY <1>0, <1>3 DEF Reset, CertTyping
  <2> HIDE DEF x
  <2> QED BY <1>1, <2>1, <2>2
<1>4. ASSUME NEW j \in TlsJobs, Regenerate(j) PROVE CertIInv'
  <2> DEFINE x == [NoJob EXCEPT !.op = "regenerate", !.pc = "make"]
  <2>1. x \in JobRec /\ x.op = "regenerate" /\ x.pc = "make" /\ x.replace = FALSE
    BY NoJobKnown DEF JobRec, NoJob
  <2>2. Begin(j, x) /\ issued' \in 0 .. MaxCert
    BY <1>0, <1>4 DEF Regenerate, CertTyping
  <2> HIDE DEF x
  <2> QED BY <1>1, <2>1, <2>2
<1>5. ASSUME NEW j \in TlsJobs, Renew(j) PROVE CertIInv'
  <2> DEFINE x == [NoJob EXCEPT !.op = "renew", !.pc = "upload_row"]
  <2>1. x \in JobRec /\ x.op = "renew" /\ x.pc = "upload_row"
    BY NoJobKnown DEF JobRec, Loading
  <2>2. Begin(j, x) /\ issued' \in 0 .. MaxCert
    BY <1>0, <1>5 DEF Renew, CertTyping
  <2> HIDE DEF x
  <2> QED BY <1>1, <2>1, <2>2
<1>6. ASSUME NEW j \in TlsJobs, Starts(j) PROVE CertIInv'
  <2>1. /\ tls' = [k \in TlsJobs |-> IF k = j THEN Starting ELSE NoJob]
        /\ UNCHANGED <<file, slot, active, aged, issued, slips, years>>
    BY <1>6 DEF Starts
  <2>2. JobKnown(Starting, Dark', Precedes', slot'["uploaded"]) /\ Starting # NoJob
    BY StartingKnown, NoJobKnown DEF JobKnown
  <2>3. Jobs'
    BY <2>1, <2>2, StartingKnown, NoJobKnown DEF Jobs
  <2> QED BY <1>0, <2>1, <2>3 DEF CertIInv, CertTyping, FileFirst
\* A statement that fails: the goroutine ends, or the start begins again.
<1>7. ASSUME NEW j \in TlsJobs, tls[j].pc # "idle", tls[j].pc # "set", Slip(j), UNCHANGED <<file, slot, active, aged, issued, years>>
      PROVE  CertIInv'
  <2> DEFINE x == IF tls[j].op = "start" THEN Starting ELSE NoJob
  <2>1. tls' = [tls EXCEPT ![j] = x] /\ slips' \in 0 .. MaxTlsErrors
    BY <1>0, <1>7 DEF Slip, CertTyping
  <2>2. /\ \A k \in TlsJobs : k # j => tls[k] = NoJob
        /\ JobKnown(tls[j], Dark, Precedes, slot["uploaded"])
    BY <1>0, <1>7, AtWork
  <2>3. Precedes' = Precedes
    BY <1>7 DEF Precedes, NoUpload
  <2>4. tls[j].op # "start" => Precedes'
    BY <1>7, <2>2, <2>3 DEF JobKnown
  <2>5. JobKnown(Starting, Dark', Precedes', slot'["uploaded"]) /\ Starting # NoJob
    BY StartingKnown, NoJobKnown DEF JobKnown
  <2>6. x \in JobRec /\ (x = NoJob => Precedes') /\ (x # NoJob => JobKnown(x, Dark', Precedes', slot'["uploaded"]))
    BY <2>4, <2>5, StartingKnown, NoJobKnown
  <2> HIDE DEF x
  <2>7. Jobs'
    BY <1>0, <2>1, <2>2, <2>6, OneJobStep
  <2> QED BY <1>0, <1>7, <2>1, <2>7 DEF CertIInv, CertTyping, FileFirst
\* A goroutine that ends, with what serves in place.
<1>8. ASSUME NEW j \in TlsJobs, tls[j].pc # "idle", Off(j), UNCHANGED <<file, slot, aged, issued, slips, years>>,
             active' \in [source : {"uploaded", "file", "generated"}, cert : 0 .. MaxCert], Precedes', FileFirst'
      PROVE  CertIInv'
  <2>1. tls' = [tls EXCEPT ![j] = NoJob]
    BY <1>8 DEF Off
  <2>2. \A k \in TlsJobs : k # j => tls[k] = NoJob
    BY <1>0, <1>8, AtWork
  <2>3. Jobs'
    BY <1>0, <1>8, <2>1, <2>2, NoJobKnown, OneJobStep
  <2> QED BY <1>0, <1>8, <2>3 DEF CertIInv, CertTyping
\* A goroutine that goes on, with the same certificate serving.
<1>9. ASSUME NEW j \in TlsJobs, tls[j].pc # "idle", NEW x \in JobRec, tls' = [tls EXCEPT ![j] = x],
             UNCHANGED <<file, active, aged, slips, years>>, issued' \in 0 .. MaxCert,
             slot' \in [{"uploaded", "generated"} -> 0 .. MaxCert],
             x.pc # "idle", JobKnown(x, Dark', Precedes', slot'["uploaded"])
      PROVE  CertIInv'
  <2>2. \A k \in TlsJobs : k # j => tls[k] = NoJob
    BY <1>0, <1>9, AtWork
  <2>3. Jobs'
    BY <1>0, <1>9, <2>2, NoJobKnown, OneJobStep
  <2> QED BY <1>0, <1>9, <2>3 DEF CertIInv, CertTyping, FileFirst
<1>10. ASSUME NEW j \in TlsJobs, Put(j) PROVE CertIInv'
  <2>0. /\ tls[j].pc = "put" /\ tls[j] \in JobRec /\ JobKnown(tls[j], Dark, Precedes, slot["uploaded"])
        /\ UNCHANGED <<file, active, aged, issued, years>>
    BY <1>0, <1>10, AtWork DEF Put
  <2>1. CASE slot' = [slot EXCEPT ![Kind(j)] = tls[j].cert] /\ On(j, IF tls[j].replace THEN "set" ELSE "look") /\ UNCHANGED slips
    <3> DEFINE w == IF tls[j].replace THEN "set" ELSE "look"
               x == [tls[j] EXCEPT !.pc = w]
    <3>1. tls' = [tls EXCEPT ![j] = x]
      BY <1>0, <2>1 DEF On
    <3>2. /\ x \in JobRec /\ x.pc = w /\ x.op = tls[j].op /\ x.cert = tls[j].cert /\ x.replace = tls[j].replace
          /\ w \in {"set", "look"} /\ (tls[j].replace = TRUE => w = "set") /\ (tls[j].replace = FALSE => w = "look")
      BY <2>0 DEF JobRec
    <3>3. slot' \in [{"uploaded", "generated"} -> 0 .. MaxCert] /\ tls[j].cert \in 0 .. MaxCert
      BY <1>0, <2>0, <2>1 DEF CertTyping, JobRec, Kind
    <3> HIDE DEF x, w
    <3>4. CASE tls[j].op = "upload"
      <4>1. slot'["uploaded"] = tls[j].cert
        BY <1>0, <2>1, <3>4 DEF Kind, CertTyping
      <4>2. JobKnown(x, Dark', Precedes', slot'["uploaded"])
        BY <2>0, <3>2, <3>4, <4>1 DEF JobKnown
      <4> QED BY <1>0, <1>9, <2>0, <2>1, <3>1, <3>2, <3>3, <4>2 DEF CertTyping
    <3>5. CASE tls[j].op # "upload"
      <4>1. slot'["uploaded"] = slot["uploaded"]
        BY <1>0, <2>1, <3>5 DEF Kind, CertTyping
      <4>2. Dark' = Dark /\ Precedes' = Precedes
        BY <2>0, <4>1 DEF Dark, Precedes, NoUpload
      <4>3. tls[j].op \in {"regenerate", "reset", "renew", "start"}
        BY <2>0, <3>5 DEF JobRec, JobKnown
      <4>4. JobKnown(x, Dark, Precedes, slot["uploaded"])
        BY <2>0, <3>2, <4>3 DEF JobKnown
      <4> QED BY <1>0, <1>9, <2>0, <2>1, <3>1, <3>2, <3>3, <4>1, <4>2, <4>4 DEF CertTyping
    <3> QED BY <3>4, <3>5
  <2>2. CASE Slip(j) /\ UNCHANGED slot
    BY <1>7, <2>0, <2>2
  <2> QED BY <1>10, <2>1, <2>2 DEF Put
<1>11. ASSUME NEW j \in TlsJobs, Serve(j) PROVE CertIInv'
  <2>0. /\ tls[j].pc = "set" /\ tls[j] \in JobRec /\ JobKnown(tls[j], Dark, Precedes, slot["uploaded"])
        /\ UNCHANGED <<file, slot, aged, issued, slips, years>> /\ Off(j)
        /\ active' = [source |-> Kind(j), cert |-> tls[j].cert]
    BY <1>0, <1>11, AtWork DEF Serve
  <2>1. active' \in [source : {"uploaded", "file", "generated"}, cert : 0 .. MaxCert]
    BY <2>0 DEF JobRec, Kind
  <2>2. Precedes' /\ FileFirst'
    BY <2>0 DEF JobKnown, Precedes, FileFirst, Dark, NoUpload, Kind
  <2> QED BY <1>8, <2>0, <2>1, <2>2
<1>12. ASSUME NEW j \in TlsJobs, Delete(j) PROVE CertIInv'
  <2>0. /\ tls[j].pc = "delete" /\ tls[j] \in JobRec /\ JobKnown(tls[j], Dark, Precedes, slot["uploaded"])
        /\ UNCHANGED <<file, active, aged, issued, years>>
    BY <1>0, <1>12, AtWork DEF Delete
  <2>1. CASE slot' = [slot EXCEPT !["uploaded"] = 0] /\ On(j, "upload_row") /\ UNCHANGED slips
    <3> DEFINE x == [tls[j] EXCEPT !.pc = "upload_row"]
    <3>1. tls' = [tls EXCEPT ![j] = x]
      BY <1>0, <2>1 DEF On
    <3>2. x \in JobRec /\ x.pc = "upload_row" /\ x.op = tls[j].op
      BY <2>0 DEF JobRec, Loading
    <3>3. slot' \in [{"uploaded", "generated"} -> 0 .. MaxCert] /\ slot'["uploaded"] = 0
      BY <1>0, <2>1 DEF CertTyping
    <3> HIDE DEF x
    <3>4. Precedes'
      BY <3>3 DEF Precedes, NoUpload
    <3>5. JobKnown(x, Dark', Precedes', slot'["uploaded"])
      BY <2>0, <3>2, <3>4 DEF JobKnown
    <3> QED BY <1>0, <1>9, <2>0, <2>1, <3>1, <3>2, <3>3, <3>5 DEF CertTyping
  <2>2. CASE Slip(j) /\ UNCHANGED slot
    BY <1>7, <2>0, <2>2
  <2> QED BY <1>12, <2>1, <2>2 DEF Delete
<1>13. ASSUME NEW j \in TlsJobs, LoadUpload(j) PROVE CertIInv'
  <2>0. /\ tls[j].pc = "upload_row" /\ tls[j] \in JobRec /\ JobKnown(tls[j], Dark, Precedes, slot["uploaded"])
        /\ UNCHANGED <<file, slot, aged, issued, slips, years>>
    BY <1>0, <1>13, AtWork DEF LoadUpload
  <2>1. CASE ~NoUpload
    <3>1. active' = [source |-> "uploaded", cert |-> slot["uploaded"]] /\ Off(j)
      BY <1>13, <2>1 DEF LoadUpload, NoUpload
    <3>2. active' \in [source : {"uploaded", "file", "generated"}, cert : 0 .. MaxCert]
      BY <1>0, <3>1 DEF CertTyping
    <3>3. Precedes' /\ FileFirst'
      BY <2>0, <3>1 DEF Precedes, FileFirst
    <3> QED BY <1>8, <2>0, <3>1, <3>2, <3>3
  <2>2. CASE NoUpload /\ file
    <3>1. active' = [source |-> "file", cert |-> 0] /\ Off(j)
      BY <1>13, <2>2 DEF LoadUpload, NoUpload
    <3>2. active' \in [source : {"uploaded", "file", "generated"}, cert : 0 .. MaxCert]
      BY <3>1
    <3>3. Precedes' /\ FileFirst'
      BY <2>0, <2>2, <3>1 DEF Precedes, FileFirst, NoUpload
    <3> QED BY <1>8, <2>0, <3>1, <3>2, <3>3
  <2>3. CASE Dark
    <3> DEFINE x == [tls[j] EXCEPT !.pc = "generated_row"]
    <3>1. tls' = [tls EXCEPT ![j] = x] /\ UNCHANGED active
      BY <1>0, <1>13, <2>3 DEF LoadUpload, NoUpload, Dark, On
    <3>2. x \in JobRec /\ x.pc = "generated_row" /\ x.op = tls[j].op
      BY <2>0 DEF JobRec, Loading
    <3> HIDE DEF x
    <3>3. Dark' = Dark /\ Precedes' = Precedes
      BY <2>0, <3>1 DEF Dark, Precedes, NoUpload
    <3>4. JobKnown(x, Dark, Precedes, slot["uploaded"])
      BY <2>0, <2>3, <3>2 DEF JobKnown
    <3> QED BY <1>0, <1>9, <2>0, <3>1, <3>2, <3>3, <3>4 DEF CertTyping
  <2> QED BY <2>1, <2>2, <2>3 DEF Dark
<1>14. ASSUME NEW j \in TlsJobs, LoadGenerated(j) PROVE CertIInv'
  <2>0. /\ tls[j].pc = "generated_row" /\ tls[j] \in JobRec /\ JobKnown(tls[j], Dark, Precedes, slot["uploaded"])
        /\ UNCHANGED <<file, slot, aged, issued, slips, years>>
    BY <1>0, <1>14, AtWork DEF LoadGenerated
  <2>1. tls[j].op \in {"reset", "renew", "start"} /\ Dark
    BY <2>0 DEF JobRec, JobKnown
  <2>2. CASE active' = [source |-> "generated", cert |-> slot["generated"]] /\ Off(j)
    <3>2. active' \in [source : {"uploaded", "file", "generated"}, cert : 0 .. MaxCert]
      BY <1>0, <2>2 DEF CertTyping
    <3>3. Precedes' /\ FileFirst'
      BY <2>0, <2>1 DEF Precedes, FileFirst, Dark, NoUpload
    <3> QED BY <1>8, <2>0, <2>2, <3>2, <3>3
  <2>3. CASE tls' = [tls EXCEPT ![j].pc = "make", ![j].replace = TRUE] /\ UNCHANGED active
    <3> DEFINE x == [tls[j] EXCEPT !.pc = "make", !.replace = TRUE]
    <3>1. tls' = [tls EXCEPT ![j] = x]
      BY <1>0, <2>3
    <3>2. x \in JobRec /\ x.pc = "make" /\ x.op = tls[j].op /\ x.replace = TRUE
      BY <2>0 DEF JobRec
    <3> HIDE DEF x
    <3>3. Dark' = Dark /\ Precedes' = Precedes
      BY <2>0, <2>3 DEF Dark, Precedes, NoUpload
    <3>4. JobKnown(x, Dark, Precedes, slot["uploaded"])
      BY <2>0, <2>1, <3>2 DEF JobKnown
    <3> QED BY <1>0, <1>9, <2>0, <2>3, <3>1, <3>2, <3>3, <3>4 DEF CertTyping
  <2> QED BY <1>14, <2>2, <2>3 DEF LoadGenerated
<1>15. ASSUME NEW j \in TlsJobs, LoadFails(j) PROVE CertIInv'
  BY <1>7, <1>15 DEF LoadFails, Loading
<1>16. ASSUME NEW j \in TlsJobs, Make(j) PROVE CertIInv'
  <2>0. /\ tls[j].pc = "make" /\ tls[j] \in JobRec /\ JobKnown(tls[j], Dark, Precedes, slot["uploaded"])
        /\ UNCHANGED <<file, slot, active, aged, slips, years>>
    BY <1>0, <1>16, AtWork DEF Make
  <2> DEFINE c == issued + 1
             x == [tls[j] EXCEPT !.pc = "put", !.cert = c]
  <2>1. c \in 0 .. MaxCert /\ issued' = c /\ tls' = [tls EXCEPT ![j].pc = "put", ![j].cert = c]
    BY <1>0, <1>16 DEF Make, CertTyping
  <2> HIDE DEF c
  <2>2. tls' = [tls EXCEPT ![j] = x]
    BY <1>0, <2>1
  <2>3. x \in JobRec /\ x.pc = "put" /\ x.op = tls[j].op /\ x.replace = tls[j].replace
    BY <2>0, <2>1 DEF JobRec
  <2> HIDE DEF x
  <2>4. Dark' = Dark /\ Precedes' = Precedes
    BY <2>0 DEF Dark, Precedes, NoUpload
  <2>5. JobKnown(x, Dark, Precedes, slot["uploaded"])
    BY <2>0, <2>3 DEF JobKnown
  <2> QED BY <1>0, <1>9, <2>0, <2>1, <2>2, <2>3, <2>4, <2>5 DEF CertTyping
<1>17. ASSUME NEW j \in TlsJobs, Look(j) PROVE CertIInv'
  <2>0. /\ tls[j].pc = "look" /\ tls[j] \in JobRec /\ JobKnown(tls[j], Dark, Precedes, slot["uploaded"])
        /\ UNCHANGED <<file, slot, active, aged, issued, slips, years>>
    BY <1>0, <1>17, AtWork DEF Look
  <2>1. tls[j].op = "regenerate" /\ Precedes
    BY <2>0 DEF JobRec, JobKnown
  <2>2. CASE active.source = "generated"
    <3>1. Dark
      BY <1>0, <2>1, <2>2 DEF Dark, Precedes, FileFirst
    <3> DEFINE x == [tls[j] EXCEPT !.pc = "set"]
    <3>2. tls' = [tls EXCEPT ![j] = x]
      BY <1>0, <1>17, <2>2 DEF Look, On
    <3>3. x \in JobRec /\ x.pc = "set" /\ x.op = tls[j].op /\ x.replace = tls[j].replace
      BY <2>0 DEF JobRec
    <3> HIDE DEF x
    <3>4. Dark' = Dark /\ Precedes' = Precedes
      BY <2>0 DEF Dark, Precedes, NoUpload
    <3>5. JobKnown(x, Dark, Precedes, slot["uploaded"])
      BY <2>0, <2>1, <3>1, <3>3 DEF JobKnown
    <3> QED BY <1>0, <1>9, <2>0, <3>2, <3>3, <3>4, <3>5 DEF CertTyping
  <2>3. CASE active.source # "generated"
    <3>1. Off(j)
      BY <1>17, <2>3 DEF Look
    <3>2. Precedes' /\ FileFirst' /\ active' \in [source : {"uploaded", "file", "generated"}, cert : 0 .. MaxCert]
      BY <1>0, <2>0, <2>1 DEF Precedes, FileFirst, NoUpload, CertTyping
    <3> QED BY <1>8, <2>0, <3>1, <3>2
  <2> QED BY <2>2, <2>3
<1>18. ASSUME NEW c \in Certs, Age(c) PROVE CertIInv'
  <2>1. aged' = aged \cup {c} /\ years' \in 0 .. MaxYears /\ UNCHANGED <<file, slot, active, issued, tls, slips>>
    BY <1>0, <1>18 DEF Age, CertTyping
  <2>2. NoUpload => NoUpload'
    BY <2>1 DEF NoUpload
  <2>3. (Precedes => Precedes') /\ (Dark => Dark')
    BY <2>1, <2>2 DEF Precedes, Dark
  <2>4. ASSUME NEW j \in TlsJobs, tls[j] # NoJob PROVE JobKnown(tls[j], Dark', Precedes', slot["uploaded"])
    <3>1. JobKnown(tls[j], Dark, Precedes, slot["uploaded"])
      BY <1>0, <2>4 DEF Jobs
    <3> HIDE DEF Dark, Precedes
    <3> QED BY <2>3, <3>1 DEF JobKnown
  <2>5. Jobs'
    BY <1>0, <2>1, <2>3, <2>4 DEF Jobs
  <2> QED BY <1>0, <2>1, <2>5 DEF CertIInv, CertTyping, FileFirst
<1>19. CASE UNCHANGED certVars
  BY <1>0, <1>19 DEF certVars, CertIInv, CertTyping, FileFirst, Jobs, Dark, Precedes, NoUpload
<1> QED BY <1>2, <1>3, <1>4, <1>5, <1>6, <1>10, <1>11, <1>12, <1>13, <1>14, <1>15, <1>16, <1>17, <1>18, <1>19 DEF CertNext

\* The certificate invariant holds at the start.
LEMMA CertInitIInv == CertInit => CertIInv
<1> SUFFICES ASSUME CertInit PROVE CertIInv
  OBVIOUS
<1> USE CertificatesAssumption DEF CertInit
<1>1. 0 \in 0 .. MaxCert /\ 1 \in 0 .. MaxCert /\ 0 \in 0 .. MaxTlsErrors /\ 0 \in 0 .. MaxYears
  OBVIOUS
<1>2. CertTyping
  BY <1>1 DEF CertTyping
<1>3. slot["uploaded"] = 0 /\ FileFirst
  BY DEF FileFirst
<1>4. Precedes
  BY <1>3 DEF Precedes, NoUpload
<1> QED BY <1>2, <1>3, <1>4, NoJobKnown DEF CertIInv, Jobs

\* Where no two changes of a setting, or of the certificate, overlap (settings.go and
\* tlscert.go serialise nothing): a change of a setting that was answered is what the row,
\* the cache and the subscriber say, and a stored upload that can serve is what serves,
\* through failures, renewals and restarts.
THEOREM ConfigStaysServed ==
    ASSUME ~Overlapping, ~TLSOverlap PROVE SettingSpec /\ CertSpec => []ConfigServed
<1>1. SettingIInv /\ CertIInv => ConfigServed
  <2> SUFFICES ASSUME SettingIInv, CertIInv PROVE ConfigServed
    OBVIOUS
  <2>1. ChangeApplies
    BY DEF SettingIInv, AnsweredStands, ChangeApplies
  <2>2. CertTypeOK
    BY DEF CertIInv, CertTyping, Jobs, CertTypeOK, JobRec
  <2>3. UploadTakesPrecedence
    BY DEF CertIInv, Jobs, FileFirst, UploadTakesPrecedence, Precedes, NoUpload
  <2> QED BY <2>1, <2>2, <2>3 DEF SettingIInv, ConfigServed
<1> QED BY <1>1, SettingInitIInv, SettingNextIInv, CertInitIInv, CertNextIInv, PTL DEF SettingSpec, CertSpec
-----------------------------------------------------------------------------
(* Notify.  What a channel's checkpoint has passed was told to it.         *)

CallRec == [pc : {"idle", "started", "newest", "read"}, c : Channels \cup {NoChannel}, row : ChannelRows, newest : Nat]
PassRec == [pc : {"idle", "channels", "list", "send", "save"}, list : SUBSET (Channels \X ChannelRows),
            c : Channels \cup {NoChannel}, row : ChannelRows, last : Nat, due : SUBSET Nat, upto : Nat, sent : 0 .. maxPerPass]

\* Up to event n, what a channel asked for since it was started was told to it or is due.
Heard(c, n, due) == \A e \in Nat : (since[c] < e /\ e <= n /\ Wanted(c, e)) => e \in told[c] \/ e \in due

ChannelKnown(c) ==
    /\ ckpt[c] <= Len(entries) /\ since[c] <= Len(entries)
    /\ Heard(c, ckpt[c], {})
    /\ channel[c].state = "stored" => steady[c] \subseteq channel[c].events
    /\ channel[c].state = "unborn" => ckpt[c] = 0

\* A request on its way is about a channel that was made; what it will store as the
\* checkpoint is no later than where the channel starts.
CallKnown(x) ==
    x.pc # "idle" =>
        /\ x.c \in Channels /\ channel[x.c].state # "unborn"
        /\ x.pc = "newest" => x.newest <= since[x.c]
        /\ x.pc = "read" => x.row.state = "stored"

\* The pass works from rows as they were listed: each asks for at least what its channel
\* has asked for all along.
Listed(c, row) == c \in Channels /\ channel[c].state # "unborn" /\ steady[c] \subseteq row.events
PassKnown(p) ==
    /\ \A l \in p.list : Listed(l[1], l[2])
    /\ p.pc \in {"list", "send", "save"} => Listed(p.c, p.row) /\ p.last <= Len(entries) /\ Heard(p.c, p.last, {})
    /\ p.pc \in {"send", "save"} => /\ p.upto <= Len(entries) /\ Heard(p.c, p.upto, p.due)
                                    /\ \A e \in p.due : e <= p.upto
    /\ p.pc = "save" => p.due = {}

NotifyTyping ==
    /\ entries \in Seq(EventKinds) /\ Len(entries) \in Nat /\ channel \in [Channels -> ChannelRows]
    /\ ckpt \in [Channels -> Nat] /\ retry \subseteq Channels /\ mail \in BOOLEAN
    /\ call \in [Callers -> CallRec] /\ pass \in PassRec
    /\ told \in [Channels -> SUBSET Nat] /\ since \in [Channels -> Nat]
    /\ steady \in [Channels -> SUBSET EventKinds]
    /\ unsent \in 0 .. MaxUnsent /\ edits \in 0 .. MaxEdits

NotifyIInv ==
    /\ NotifyTyping
    /\ \A c \in Channels : ChannelKnown(c)
    /\ \A a \in Callers : CallKnown(call[a])
    /\ PassKnown(pass)

\* The rows that are none.
LEMMA RowsTyped == Absent \in ChannelRows /\ Dead \in ChannelRows /\ Dead.state = "deleted" /\ Absent.state = "unborn"
<1>1. Absent \in ChannelRows /\ Absent.state = "unborn"
  BY DEF Absent, ChannelRows
<1> QED BY <1>1 DEF Dead, ChannelRows

\* No request and no pass.
LEMMA NothingUnderway == NoCall \in CallRec /\ NoCall.pc = "idle" /\ NoPass \in PassRec /\ NoPass.pc = "idle" /\ NoPass.list = {}
<1>1. NoCall \in CallRec /\ NoCall.pc = "idle"
  BY RowsTyped DEF NoCall, CallRec
<1>2. 0 \in 0 .. maxPerPass
  BY NotifyAssumption
<1>3. NoPass \in PassRec /\ NoPass.pc = "idle" /\ NoPass.list = {}
  BY <1>2, RowsTyped DEF NoPass, PassRec
<1> QED BY <1>1, <1>3

\* What no step takes back: the log, where a channel starts, what it was told, and that a
\* channel that was made asks for no more than it has asked for all along.
Onward ==
    /\ Len(entries) <= Len(entries')
    /\ \A e \in 1 .. Len(entries) : (e \in DOMAIN entries' => e \in DOMAIN entries) /\ entries'[e] = entries[e]
    /\ \A c \in Channels : since[c] <= since'[c] /\ told[c] \subseteq told'[c]
    /\ \A c \in Channels : channel[c].state # "unborn" => channel'[c].state # "unborn" /\ steady'[c] \subseteq steady[c]

\* What was heard stays heard.
LEMMA HeardOnward ==
    ASSUME NotifyTyping, NotifyTyping', Onward, NEW c \in Channels, channel[c].state # "unborn",
           NEW n \in Nat, n <= Len(entries), NEW due, Heard(c, n, due)
    PROVE  Heard(c, n, due)'
<1> SUFFICES ASSUME NEW e \in Nat, since'[c] < e, e <= n, Wanted(c, e)'
             PROVE  e \in told'[c] \/ e \in due
  BY DEF Heard
<1>1. since[c] \in Nat /\ since'[c] \in Nat /\ Len(entries) \in Nat
  BY DEF NotifyTyping
<1>2. since[c] < e /\ e \in 1 .. Len(entries)
  BY <1>1 DEF Onward
<1>3. Wanted(c, e)
  BY <1>2 DEF Onward, Wanted
<1> QED BY <1>2, <1>3 DEF Heard, Onward

\* An event is recorded.
LEMMA LogSteps == ASSUME NotifyTyping, NEW k \in EventKinds, Happens(k) PROVE Onward /\ NotifyTyping'
<1>1. entries' = Append(entries, k) /\ UNCHANGED <<channel, ckpt, retry, mail, call, pass, told, since, steady, unsent, edits>>
  BY DEF Happens
<1>2. entries' \in Seq(EventKinds) /\ Len(entries') = Len(entries) + 1 /\ \A e \in 1 .. Len(entries) : entries'[e] = entries[e]
  BY <1>1 DEF NotifyTyping
<1>3. \A e \in 1 .. Len(entries) : e \in DOMAIN entries
  BY DEF NotifyTyping
<1>4. Len(entries') \in Nat /\ Len(entries) <= Len(entries')
  BY <1>2 DEF NotifyTyping
<1>5. NotifyTyping'
  BY <1>1, <1>2, <1>4 DEF NotifyTyping
<1>6. \A c \in Channels : since[c] <= since[c]
  BY DEF NotifyTyping
<1> QED BY <1>1, <1>2, <1>3, <1>4, <1>5, <1>6 DEF Onward

\* A step that leaves the log, the start and the requests of a channel alone.
LEMMA Stays ==
    ASSUME NotifyTyping, UNCHANGED <<entries, since, steady>>, \A c \in Channels : told[c] \subseteq told'[c],
           \A c \in Channels : channel[c].state # "unborn" => channel'[c].state # "unborn"
    PROVE  Onward
<1>1. \A c \in Channels : since[c] <= since[c]
  BY DEF NotifyTyping
<1>2. Len(entries) <= Len(entries)
  BY DEF NotifyTyping
<1> QED BY <1>1, <1>2 DEF Onward

\* The channels, the requests and the pass through a step that is onward.
LEMMA CallOnward ==
    ASSUME NotifyTyping, NotifyTyping', Onward, NEW x \in CallRec, CallKnown(x) PROVE CallKnown(x)'
<1> SUFFICES ASSUME x.pc # "idle" PROVE CallKnown(x)'
  BY DEF CallKnown
<1>1. x.c \in Channels /\ channel[x.c].state # "unborn" /\ (x.pc = "read" => x.row.state = "stored")
  BY DEF CallKnown
<1>2. x.pc = "newest" => x.newest <= since'[x.c]
  <2>1. x.newest \in Nat /\ since[x.c] \in Nat /\ since'[x.c] \in Nat /\ since[x.c] <= since'[x.c]
    BY <1>1 DEF CallRec, NotifyTyping, Onward
  <2> QED BY <2>1 DEF CallKnown
<1> QED BY <1>1, <1>2 DEF CallKnown, Onward

\* What the pass knows stays so through a step that is onward.
LEMMA PassOnward ==
    ASSUME NotifyTyping, NotifyTyping', Onward, NEW p \in PassRec, PassKnown(p) PROVE PassKnown(p)'
<1>0. /\ p.last \in Nat /\ p.upto \in Nat /\ p.list \subseteq Channels \X ChannelRows
      /\ Len(entries) \in Nat /\ Len(entries') \in Nat /\ Len(entries) <= Len(entries')
  BY DEF PassRec, NotifyTyping, Onward
<1>1. ASSUME NEW c, NEW row, Listed(c, row) PROVE Listed(c, row)'
  BY <1>1 DEF Listed, Onward
<1>2. \A l \in p.list : Listed(l[1], l[2])'
  BY <1>1 DEF PassKnown
<1>3. p.pc \in {"list", "send", "save"} => Listed(p.c, p.row)' /\ p.last <= Len(entries') /\ Heard(p.c, p.last, {})'
  <2> SUFFICES ASSUME p.pc \in {"list", "send", "save"}
               PROVE  Listed(p.c, p.row)' /\ p.last <= Len(entries') /\ Heard(p.c, p.last, {})'
    OBVIOUS
  <2>1. Listed(p.c, p.row) /\ p.last <= Len(entries) /\ Heard(p.c, p.last, {})
    BY DEF PassKnown
  <2>2. Heard(p.c, p.last, {})'
    BY <1>0, <2>1, HeardOnward DEF Listed
  <2> QED BY <1>0, <1>1, <2>1, <2>2
<1>4. p.pc \in {"send", "save"} => p.upto <= Len(entries') /\ Heard(p.c, p.upto, p.due)'
  <2> SUFFICES ASSUME p.pc \in {"send", "save"} PROVE p.upto <= Len(entries') /\ Heard(p.c, p.upto, p.due)'
    OBVIOUS
  <2>1. Listed(p.c, p.row) /\ p.upto <= Len(entries) /\ Heard(p.c, p.upto, p.due)
    BY DEF PassKnown
  <2>2. Heard(p.c, p.upto, p.due)'
    BY <1>0, <2>1, HeardOnward DEF Listed
  <2> QED BY <1>0, <2>1, <2>2
<1> QED BY <1>2, <1>3, <1>4 DEF PassKnown

\* A channel whose checkpoint a step leaves alone.
LEMMA ChannelOnward ==
    ASSUME NotifyTyping, NotifyTyping', Onward, NEW c \in Channels, ChannelKnown(c), channel[c].state # "unborn",
           ckpt'[c] = ckpt[c], since'[c] <= Len(entries'),
           channel'[c].state = "stored" => steady'[c] \subseteq channel'[c].events
    PROVE  ChannelKnown(c)'
<1>1. ckpt[c] \in Nat /\ Len(entries) \in Nat /\ Len(entries') \in Nat /\ ckpt[c] <= Len(entries) /\ Heard(c, ckpt[c], {})
  BY DEF NotifyTyping, ChannelKnown
<1>2. Heard(c, ckpt[c], {})'
  BY <1>1, HeardOnward
<1>3. ckpt[c] <= Len(entries')
  BY <1>1 DEF Onward
<1> QED BY <1>2, <1>3 DEF ChannelKnown, Onward, Heard

\* Requests: none of them but a start's save and a removal moves a checkpoint.
LEMMA RequestTypes ==
    ASSUME NotifyTyping, NEW a \in Callers, NEW x \in CallRec, call' = [call EXCEPT ![a] = x]
    PROVE  call' \in [Callers -> CallRec]
  BY DEF NotifyTyping

\* A request's step that is onward: what is left to show is about its own call and channel.
LEMMA RequestOnward ==
    ASSUME NotifyIInv, NotifyTyping', Onward, pass' = pass,
           \A a \in Callers : call'[a] = call[a] \/ CallKnown(call[a])',
           \A c \in Channels : \/ ChannelKnown(c)'
                               \/ /\ ckpt'[c] = ckpt[c] /\ channel'[c] = channel[c] /\ since'[c] = since[c] /\ steady'[c] = steady[c]
                                  /\ entries' = entries /\ told' = told
    PROVE  NotifyIInv'
<1>0. NotifyTyping
  BY DEF NotifyIInv
<1>1. \A a \in Callers : CallKnown(call[a])'
  <2> SUFFICES ASSUME NEW a \in Callers, call'[a] = call[a] PROVE CallKnown(call[a])'
    OBVIOUS
  <2>1. call[a] \in CallRec /\ CallKnown(call[a])
    BY <1>0 DEF NotifyTyping, NotifyIInv
  <2>2. PICK x \in CallRec : x = call[a] /\ CallKnown(x)
    BY <2>1
  <2>3. CallKnown(x)'
    BY <1>0, <2>2, CallOnward
  <2>4. x = call'[a]
    BY <2>2
  <2> QED BY <2>3, <2>4 DEF CallKnown
<1>2. PassKnown(pass)'
  <2>1. PICK p \in PassRec : p = pass /\ PassKnown(p)
    BY <1>0 DEF NotifyTyping, NotifyIInv
  <2>2. PassKnown(p)'
    BY <1>0, <2>1, PassOnward
  <2>3. p = pass'
    BY <2>1
  <2> QED BY <2>2, <2>3 DEF PassKnown, Listed, Heard, Wanted
<1>3. \A c \in Channels : ChannelKnown(c)'
  <2> SUFFICES ASSUME NEW c \in Channels, ckpt'[c] = ckpt[c], channel'[c] = channel[c], since'[c] = since[c],
                      steady'[c] = steady[c], entries' = entries, told' = told
               PROVE  ChannelKnown(c)'
    OBVIOUS
  <2>1. ChannelKnown(c)
    BY DEF NotifyIInv
  <2> QED BY <2>1 DEF ChannelKnown, Heard, Wanted
<1> QED BY <1>1, <1>2, <1>3 DEF NotifyIInv

\* A new channel, or one whose row is written: the rest of it is as it was.
LEMMA CreateKeeps == ASSUME NotifyIInv, NEW a \in Callers, NEW c \in Channels, Create(a, c) PROVE NotifyIInv'
<1>0. NotifyTyping /\ ChannelKnown(c) /\ ckpt[c] = 0 /\ channel[c].state = "unborn"
  BY DEF NotifyIInv, Create, ChannelKnown
<1>1. PICK k \in {"webhook", "email"}, ev \in SUBSET EventKinds :
          channel' = [channel EXCEPT ![c] = [state |-> "stored", kind |-> k, events |-> ev, enabled |-> TRUE, own |-> FALSE]]
  BY DEF Create
<1> DEFINE r == [state |-> "stored", kind |-> k, events |-> ev, enabled |-> TRUE, own |-> FALSE]
           x == [NoCall EXCEPT !.pc = "started", !.c = c]
           n == Len(entries)
<1>2. r \in ChannelRows /\ r.state = "stored" /\ r.events = ev
  BY DEF ChannelRows
<1>3. x \in CallRec /\ x.pc = "started" /\ x.c = c
  BY NothingUnderway DEF CallRec
<1>n. n \in Nat
  BY <1>0 DEF NotifyTyping
<1>4. /\ channel' = [channel EXCEPT ![c] = r] /\ call' = [call EXCEPT ![a] = x]
      /\ since' = [since EXCEPT ![c] = n] /\ steady' = [steady EXCEPT ![c] = channel'[c].events]
      /\ UNCHANGED <<ckpt, mail, entries, retry, pass, told, unsent>> /\ edits < MaxEdits /\ edits' = edits + 1
  BY <1>1 DEF Create, Edit, following
<1> HIDE DEF r, x, n
<1>5. channel'[c] = r /\ steady' = [steady EXCEPT ![c] = ev]
  BY <1>0, <1>2, <1>4 DEF NotifyTyping
<1>6. edits' \in 0 .. MaxEdits
  BY <1>0, <1>4, NotifyAssumption DEF NotifyTyping
<1>7. NotifyTyping'
  BY <1>0, <1>2, <1>3, <1>n, <1>4, <1>5, <1>6 DEF NotifyTyping
<1>8. Onward
  <2>1. \A d \in Channels : since[d] <= since'[d]
    <3>1. since[c] <= n
      BY <1>0 DEF ChannelKnown, n
    <3> QED BY <1>0, <1>4, <3>1 DEF NotifyTyping
  <2>2. Len(entries) <= Len(entries)
    BY <1>0 DEF NotifyTyping
  <2>3. \A d \in Channels : channel[d].state # "unborn" => channel'[d].state # "unborn" /\ steady'[d] \subseteq steady[d]
    BY <1>0, <1>4, <1>5 DEF NotifyTyping
  <2> QED BY <1>4, <2>1, <2>2, <2>3 DEF Onward
<1>9. ChannelKnown(c)'
  <2>1. ckpt'[c] = 0 /\ since'[c] = n /\ entries' = entries
    BY <1>0, <1>4 DEF NotifyTyping
  <2>2. 0 <= n /\ n <= n
    BY <1>n
  <2>3. Heard(c, 0, {})'
    <3>1. \A e \in Nat : ~(n < e /\ e <= 0)
      BY <1>n
    <3> QED BY <2>1, <3>1 DEF Heard
  <2>4. steady'[c] = ev
    BY <1>0, <1>5 DEF NotifyTyping
  <2> QED BY <1>2, <1>5, <2>1, <2>2, <2>3, <2>4 DEF ChannelKnown, n, Heard
<1>10. CallKnown(call[a])'
  <2>1. call'[a] = x
    BY <1>0, <1>4 DEF NotifyTyping
  <2> QED BY <1>2, <1>3, <1>5, <2>1 DEF CallKnown
<1>11. \A b \in Callers : call'[b] = call[b] \/ CallKnown(call[b])'
  BY <1>0, <1>4, <1>10 DEF NotifyTyping
<1>12. \A d \in Channels : d # c => /\ ckpt'[d] = ckpt[d] /\ channel'[d] = channel[d] /\ since'[d] = since[d] /\ steady'[d] = steady[d]
  BY <1>0, <1>4 DEF NotifyTyping
<1> QED BY <1>4, <1>7, <1>8, <1>9, <1>11, <1>12, RequestOnward

\* Start: the newest event becomes the checkpoint.
LEMMA StartKeeps == ASSUME NotifyIInv, NEW a \in Callers, StartNewest(a) \/ StartSave(a) PROVE NotifyIInv'
<1>z. /\ NotifyTyping /\ call[a] \in CallRec /\ CallKnown(call[a]) /\ call[a].pc # "idle"
      /\ UNCHANGED <<channel, mail, steady, edits, entries, retry, pass, told, unsent>>
  BY DEF NotifyIInv, NotifyTyping, StartNewest, StartSave, following
<1>y. PICK c \in Channels : c = call[a].c
  BY <1>z DEF CallKnown
<1>x. PICK n \in Nat : n = Len(entries)
  BY <1>z DEF NotifyTyping
<1>0. /\ NotifyTyping /\ call[a] \in CallRec /\ CallKnown(call[a]) /\ call[a].pc # "idle" /\ n \in Nat
      /\ UNCHANGED <<channel, mail, steady, edits, entries, retry, pass, told, unsent>>
  BY <1>z
<1>1. c \in Channels /\ channel[c].state # "unborn" /\ (call[a].pc = "newest" => call[a].newest <= since[c])
  BY <1>0, <1>y DEF CallKnown
<1>2. ChannelKnown(c)
  BY <1>1 DEF NotifyIInv
<1>3. CASE StartNewest(a)
  <2> DEFINE x == [call[a] EXCEPT !.pc = "newest", !.newest = n]
  <2>1. call' = [call EXCEPT ![a].pc = "newest", ![a].newest = n] /\ since' = [since EXCEPT ![c] = n] /\ ckpt' = ckpt
    BY <1>3, <1>x, <1>y DEF StartNewest
  <2>2. call' = [call EXCEPT ![a] = x]
    BY <1>0, <2>1 DEF NotifyTyping
  <2>3. x \in CallRec /\ x.pc = "newest" /\ x.c = call[a].c /\ x.newest = n
    BY <1>0 DEF CallRec
  <2> HIDE DEF x
  <2>4. NotifyTyping'
    BY <1>0, <1>1, <2>1, <2>2, <2>3 DEF NotifyTyping
  <2>5. since'[c] = n /\ since[c] <= n
    BY <1>0, <1>x, <1>1, <1>2, <2>1 DEF NotifyTyping, ChannelKnown
  <2>6. Onward
    <3>1. \A d \in Channels : since[d] <= since'[d]
      BY <1>0, <2>1, <2>5 DEF NotifyTyping
    <3>2. Len(entries) <= Len(entries)
      BY <1>0, <1>x
    <3> QED BY <1>0, <3>1, <3>2 DEF Onward
  <2>7. ChannelKnown(c)'
    <3>1. n <= n /\ entries' = entries
      BY <1>0
    <3>2. since'[c] <= Len(entries')
      BY <1>x, <2>5, <3>1
    <3>3. ckpt'[c] = ckpt[c] /\ (channel'[c].state = "stored" => steady'[c] \subseteq channel'[c].events)
      BY <1>0, <1>2, <2>1 DEF ChannelKnown
    <3> QED BY <1>0, <1>1, <1>2, <2>4, <2>6, <3>2, <3>3, ChannelOnward
  <2>8. CallKnown(call[a])'
    <3>1. call'[a] = x /\ n <= n
      BY <1>0, <2>2 DEF NotifyTyping
    <3> QED BY <1>0, <1>y, <1>1, <2>3, <2>5, <3>1 DEF CallKnown
  <2>9. \A b \in Callers : call'[b] = call[b] \/ CallKnown(call[b])'
    BY <1>0, <2>2, <2>8 DEF NotifyTyping
  <2>10. \A d \in Channels : d # c => /\ ckpt'[d] = ckpt[d] /\ channel'[d] = channel[d] /\ since'[d] = since[d] /\ steady'[d] = steady[d]
    BY <1>0, <2>1 DEF NotifyTyping
  <2> QED BY <1>0, <2>4, <2>6, <2>7, <2>9, <2>10, RequestOnward
<1>4. CASE StartSave(a)
  <2>0. PICK m \in Nat : m = call[a].newest
    BY <1>0 DEF CallRec
  <2>1. call' = [call EXCEPT ![a] = NoCall] /\ ckpt' = [ckpt EXCEPT ![c] = m] /\ since' = since /\ call[a].pc = "newest"
    BY <1>4, <1>y, <2>0 DEF StartSave
  <2>2. m \in Nat /\ m <= since[c]
    BY <1>1, <2>0, <2>1
  <2>4. NotifyTyping'
    BY <1>0, <1>1, <2>1, <2>2, NothingUnderway DEF NotifyTyping
  <2>6. Onward
    BY <1>0, <2>1, Stays
  <2>7. ChannelKnown(c)'
    <3>1. ckpt'[c] = m /\ since'[c] = since[c] /\ entries' = entries /\ since[c] \in Nat
      BY <1>0, <1>1, <2>1 DEF NotifyTyping
    <3>2. since[c] <= n /\ m <= n
      BY <1>0, <1>x, <1>2, <2>2, <3>1 DEF ChannelKnown
    <3>3. \A e \in Nat : ~(since[c] < e /\ e <= m)
      BY <2>2, <3>1
    <3>4. Heard(c, m, {})'
      BY <3>1, <3>3 DEF Heard
    <3> QED BY <1>0, <1>x, <1>1, <1>2, <3>1, <3>2, <3>4 DEF ChannelKnown, Heard
  <2>8. CallKnown(call[a])'
    <3>1. call'[a] = NoCall
      BY <1>0, <2>1 DEF NotifyTyping
    <3> QED BY <3>1, NothingUnderway DEF CallKnown
  <2>9. \A b \in Callers : call'[b] = call[b] \/ CallKnown(call[b])'
    BY <1>0, <2>1, <2>8 DEF NotifyTyping
  <2>10. \A d \in Channels : d # c => /\ ckpt'[d] = ckpt[d] /\ channel'[d] = channel[d] /\ since'[d] = since[d] /\ steady'[d] = steady[d]
    BY <1>0, <2>1 DEF NotifyTyping
  <2> QED BY <1>0, <2>4, <2>6, <2>7, <2>9, <2>10, RequestOnward
<1> QED BY <1>3, <1>4

\* update: the row is read, then written whole.
LEMMA UpdateKeeps ==
    ASSUME NotifyIInv, NEW a \in Callers, UpdateWrite(a) \/ (\E c \in Channels : UpdateRead(a, c)) PROVE NotifyIInv'
<1>0. NotifyTyping /\ call[a] \in CallRec /\ CallKnown(call[a]) /\ UNCHANGED <<ckpt, mail, since, entries, retry, pass, told, unsent>>
  BY DEF NotifyIInv, NotifyTyping, UpdateWrite, UpdateRead, following
<1>1. ASSUME NEW c \in Channels, UpdateRead(a, c) PROVE NotifyIInv'
  <2> DEFINE x == [NoCall EXCEPT !.pc = "read", !.c = c, !.row = channel[c]]
  <2>1. call' = [call EXCEPT ![a] = x] /\ UNCHANGED <<channel, steady, edits>> /\ channel[c].state = "stored"
    BY <1>1 DEF UpdateRead
  <2>2. channel[c] \in ChannelRows
    BY <1>0 DEF NotifyTyping
  <2>3. x \in CallRec /\ x.pc = "read" /\ x.c = c /\ x.row = channel[c]
    BY <2>2, NothingUnderway DEF CallRec
  <2> HIDE DEF x
  <2>4. NotifyTyping'
    BY <1>0, <2>1, <2>3 DEF NotifyTyping
  <2>5. Onward
    BY <1>0, <2>1, Stays
  <2>6. CallKnown(call[a])'
    <3>1. call'[a] = x
      BY <1>0, <2>1 DEF NotifyTyping
    <3> QED BY <2>1, <2>3, <3>1 DEF CallKnown
  <2>7. \A b \in Callers : call'[b] = call[b] \/ CallKnown(call[b])'
    BY <1>0, <2>1, <2>6 DEF NotifyTyping
  <2> QED BY <1>0, <2>1, <2>4, <2>5, <2>7, RequestOnward
<1>2. CASE UpdateWrite(a)
  <2>0. PICK c \in Channels : c = call[a].c
    BY <1>0, <1>2 DEF UpdateWrite, CallKnown
  <2>1. call[a].pc = "read" /\ c \in Channels /\ channel[c].state # "unborn" /\ call[a].row.state = "stored" /\ call[a].row \in ChannelRows
    BY <1>0, <1>2, <2>0 DEF UpdateWrite, CallKnown, CallRec
  <2>2. PICK on \in BOOLEAN, ev \in SUBSET EventKinds :
           channel' = IF channel[c].state # "stored" THEN channel
                      ELSE [channel EXCEPT ![c] = [call[a].row EXCEPT !.enabled = on, !.events = ev, !.own = FALSE]]
    BY <1>2, <2>0 DEF UpdateWrite
  <2>3. /\ steady' = [steady EXCEPT ![c] = @ \cap channel'[c].events] /\ call' = [call EXCEPT ![a] = NoCall]
        /\ edits < MaxEdits /\ edits' = edits + 1
    BY <1>2, <2>0 DEF UpdateWrite, Edit
  <2> DEFINE r == [call[a].row EXCEPT !.enabled = on, !.events = ev, !.own = FALSE]
  <2>4. r \in ChannelRows /\ r.state = "stored"
    BY <2>1 DEF ChannelRows
  <2>5. channel' = channel \/ channel' = [channel EXCEPT ![c] = r]
    BY <2>2
  <2> HIDE DEF r
  <2>6. /\ channel' \in [Channels -> ChannelRows] /\ channel'[c].state # "unborn" /\ \A d \in Channels : d # c => channel'[d] = channel[d]
    BY <1>0, <2>1, <2>4, <2>5 DEF NotifyTyping
  <2> DEFINE st == steady[c] \cap channel'[c].events
  <2>7. steady' = [steady EXCEPT ![c] = st]
    BY <1>0, <2>1, <2>3 DEF NotifyTyping
  <2>8. st \subseteq steady[c] /\ st \subseteq channel'[c].events
    OBVIOUS
  <2> HIDE DEF st
  <2>9. /\ steady' \in [Channels -> SUBSET EventKinds] /\ steady'[c] = st /\ \A d \in Channels : d # c => steady'[d] = steady[d]
    BY <1>0, <2>1, <2>7, <2>8 DEF NotifyTyping
  <2>10. edits' \in 0 .. MaxEdits
    BY <1>0, <2>3, NotifyAssumption DEF NotifyTyping
  <2>11. NotifyTyping'
    BY <1>0, <2>3, <2>6, <2>9, <2>10, NothingUnderway DEF NotifyTyping
  <2>12. Onward
    <3>1. \A d \in Channels : since[d] <= since'[d]
      BY <1>0 DEF NotifyTyping
    <3>2. Len(entries) <= Len(entries)
      BY <1>0 DEF NotifyTyping
    <3>3. \A d \in Channels : channel[d].state # "unborn" => channel'[d].state # "unborn" /\ steady'[d] \subseteq steady[d]
      BY <2>6, <2>8, <2>9
    <3> QED BY <1>0, <3>1, <3>2, <3>3 DEF Onward
  <2>13. ChannelKnown(c)'
    <3>1. ChannelKnown(c) /\ since'[c] <= Len(entries') /\ steady'[c] \subseteq channel'[c].events /\ ckpt'[c] = ckpt[c]
      BY <1>0, <2>1, <2>8, <2>9 DEF NotifyIInv, ChannelKnown
    <3> QED BY <1>0, <2>1, <2>11, <2>12, <3>1, ChannelOnward
  <2>14. CallKnown(call[a])'
    <3>1. call'[a] = NoCall
      BY <1>0, <2>3 DEF NotifyTyping
    <3> QED BY <3>1, NothingUnderway DEF CallKnown
  <2>15. \A b \in Callers : call'[b] = call[b] \/ CallKnown(call[b])'
    BY <1>0, <2>3, <2>14 DEF NotifyTyping
  <2>16. \A d \in Channels : d # c => /\ ckpt'[d] = ckpt[d] /\ channel'[d] = channel[d] /\ since'[d] = since[d] /\ steady'[d] = steady[d]
    BY <1>0, <2>6, <2>9
  <2> QED BY <1>0, <2>11, <2>12, <2>13, <2>15, <2>16, RequestOnward
<1> QED BY <1>1, <1>2

\* The mail server, a restart, and a channel removed.
LEMMA ServerKeeps ==
    ASSUME NotifyIInv, SetServer \/ ClearServer \/ AdoptServer \/ (\E c \in Channels : Remove(c)) PROVE NotifyIInv'
<1>0. NotifyTyping /\ edits < MaxEdits /\ edits' = edits + 1 /\ UNCHANGED <<entries, since, steady, told, unsent>>
  BY DEF NotifyIInv, SetServer, ClearServer, AdoptServer, Remove, Edit, following
<1>1. edits' \in 0 .. MaxEdits
  BY <1>0, NotifyAssumption DEF NotifyTyping
<1>2. CASE SetServer \/ ClearServer
  <2>1. mail' \in BOOLEAN /\ UNCHANGED <<channel, ckpt, call, retry, pass>>
    BY <1>2 DEF SetServer, ClearServer, following
  <2>2. NotifyTyping' /\ Onward
    BY <1>0, <1>1, <2>1, Stays DEF NotifyTyping
  <2> QED BY <1>0, <2>1, <2>2, RequestOnward
<1>3. CASE AdoptServer
  <2>1. /\ mail' \in BOOLEAN /\ call' = [a \in Callers |-> NoCall] /\ pass' = NoPass /\ retry' = {} /\ ckpt' = ckpt
    BY <1>3 DEF AdoptServer
  <2>2. /\ channel' \in [Channels -> ChannelRows]
        /\ \A c \in Channels : channel'[c].state = channel[c].state /\ channel'[c].events = channel[c].events
    <3>1. CASE mail
      BY <1>0, <1>3, <3>1 DEF AdoptServer, NotifyTyping
    <3>2. CASE ~mail
      <4>1. channel' = [c \in Channels |-> IF c \in Carrying THEN [channel[c] EXCEPT !.own = FALSE] ELSE channel[c]]
        BY <1>3, <3>2 DEF AdoptServer
      <4>2. ASSUME NEW c \in Channels
            PROVE  /\ [channel[c] EXCEPT !.own = FALSE] \in ChannelRows
                   /\ [channel[c] EXCEPT !.own = FALSE].state = channel[c].state
                   /\ [channel[c] EXCEPT !.own = FALSE].events = channel[c].events
        <5>1. channel[c] \in ChannelRows
          BY <1>0 DEF NotifyTyping
        <5> QED BY <5>1 DEF ChannelRows
      <4> QED BY <1>0, <4>1, <4>2 DEF NotifyTyping
    <3> QED BY <3>1, <3>2
  <2>3. NotifyTyping'
    BY <1>0, <1>1, <2>1, <2>2, NothingUnderway DEF NotifyTyping
  <2>4. \A c \in Channels : ChannelKnown(c)'
    <3> SUFFICES ASSUME NEW c \in Channels PROVE ChannelKnown(c)'
      OBVIOUS
    <3>1. ChannelKnown(c)
      BY DEF NotifyIInv
    <3> QED BY <1>0, <2>1, <2>2, <3>1 DEF ChannelKnown, Heard, Wanted
  <2>5. \A a \in Callers : CallKnown(call[a])'
    BY <2>1, NothingUnderway DEF CallKnown
  <2>6. PassKnown(pass)'
    BY <2>1, NothingUnderway DEF PassKnown
  <2> QED BY <2>3, <2>4, <2>5, <2>6 DEF NotifyIInv
<1>4. ASSUME NEW c \in Channels, Remove(c) PROVE NotifyIInv'
  <2>1. channel' = [channel EXCEPT ![c] = Dead] /\ ckpt' = [ckpt EXCEPT ![c] = 0] /\ UNCHANGED <<mail, call, retry, pass>>
    BY <1>4 DEF Remove, following
  <2>2. NotifyTyping'
    BY <1>0, <1>1, <2>1, RowsTyped DEF NotifyTyping
  <2>3. /\ channel'[c].state = "deleted" /\ ckpt'[c] = 0
        /\ \A d \in Channels : d # c => channel'[d] = channel[d] /\ ckpt'[d] = ckpt[d]
    BY <1>0, <2>1, RowsTyped DEF NotifyTyping
  <2>4. Onward
    BY <1>0, <2>3, Stays
  <2>5. ChannelKnown(c)'
    <3>1. since[c] \in Nat /\ Len(entries) \in Nat /\ since[c] <= Len(entries)
      BY <1>0 DEF NotifyTyping, NotifyIInv, ChannelKnown
    <3>2. \A e \in Nat : ~(since[c] < e /\ e <= 0)
      BY <3>1
    <3>3. Heard(c, 0, {})'
      BY <1>0, <3>2 DEF Heard
    <3>4. 0 <= Len(entries)
      BY <3>1
    <3> QED BY <1>0, <2>3, <3>1, <3>3, <3>4 DEF ChannelKnown, Heard
  <2> QED BY <1>0, <2>1, <2>2, <2>3, <2>4, <2>5, RequestOnward
<1> QED BY <1>2, <1>3, <1>4

\* An event recorded beside the pass and the requests.
LEMMA HappensKeeps == ASSUME NotifyIInv, NEW k \in EventKinds, Happens(k) PROVE NotifyIInv'
<1>0. NotifyTyping /\ NotifyTyping' /\ Onward /\ UNCHANGED <<channel, ckpt, call, pass, since, steady>>
  BY LogSteps DEF NotifyIInv, Happens
<1>1. ASSUME NEW c \in Channels PROVE ChannelKnown(c)'
  <2>0. ChannelKnown(c) /\ ckpt[c] \in Nat /\ since[c] \in Nat /\ Len(entries) \in Nat /\ Len(entries') \in Nat
    BY <1>0 DEF NotifyIInv, NotifyTyping
  <2>1. since'[c] <= Len(entries')
    BY <1>0, <2>0 DEF ChannelKnown, Onward
  <2>2. CASE channel[c].state # "unborn"
    BY <1>0, <2>0, <2>1, <2>2, ChannelOnward DEF ChannelKnown
  <2>3. CASE channel[c].state = "unborn"
    <3>1. ckpt'[c] = 0
      BY <1>0, <2>0, <2>3 DEF ChannelKnown
    <3>2. \A e \in Nat : ~(since[c] < e /\ e <= 0)
      BY <2>0
    <3>3. Heard(c, 0, {})'
      BY <1>0, <3>2 DEF Heard
    <3>4. 0 <= Len(entries')
      BY <2>0
    <3> QED BY <1>0, <2>1, <2>3, <3>1, <3>3, <3>4 DEF ChannelKnown, Heard
  <2> QED BY <2>2, <2>3
<1>2. \A c \in Channels : ChannelKnown(c)'
  BY <1>1
<1> QED BY <1>0, <1>2, RequestOnward

\* A step of the pass: the log, the rows and the requests stay; what is left to show is
\* about the checkpoint it moves and the pass itself.
LEMMA PassMoves ==
    ASSUME NotifyIInv, asked, \A c \in Channels : told[c] \subseteq told'[c],
           ckpt' \in [Channels -> Nat], retry' \subseteq Channels, pass' \in PassRec, told' \in [Channels -> SUBSET Nat],
           unsent' \in 0 .. MaxUnsent,
           \A c \in Channels : ckpt'[c] = ckpt[c] \/ (ckpt'[c] <= Len(entries) /\ Heard(c, ckpt[c], {})' /\ channel[c].state # "unborn"),
           PassKnown(pass)'
    PROVE  NotifyIInv'
<1>0. NotifyTyping /\ UNCHANGED <<entries, channel, mail, call, since, steady, edits>>
  BY DEF NotifyIInv, asked
<1>1. NotifyTyping'
  BY <1>0 DEF NotifyTyping
<1>2. Onward
  BY <1>0, Stays
<1>3. \A c \in Channels : ChannelKnown(c)'
  <2> SUFFICES ASSUME NEW c \in Channels PROVE ChannelKnown(c)'
    OBVIOUS
  <2>1. ChannelKnown(c)
    BY DEF NotifyIInv
  <2>2. CASE ckpt'[c] = ckpt[c]
    <3>1. Heard(c, ckpt[c], {})'
      BY <1>0, <2>1, <2>2 DEF ChannelKnown, Heard, Wanted
    <3> QED BY <1>0, <2>1, <2>2, <3>1 DEF ChannelKnown
  <2>3. CASE ckpt'[c] <= Len(entries) /\ Heard(c, ckpt[c], {})' /\ channel[c].state # "unborn"
    BY <1>0, <2>1, <2>3 DEF ChannelKnown
  <2> QED BY <2>2, <2>3
<1>4. \A a \in Callers : CallKnown(call[a])'
  BY <1>0 DEF NotifyIInv, CallKnown
<1> QED BY <1>1, <1>3, <1>4 DEF NotifyIInv

\* What the pass knows is kept by a step that leaves the log and the rows alone.
LEMMA PassStays ==
    ASSUME NotifyIInv, asked, \A c \in Channels : told[c] \subseteq told'[c], NEW p \in PassRec, PassKnown(p)
    PROVE  PassKnown(p)'
<1>0. NotifyTyping /\ UNCHANGED <<entries, channel, mail, call, since, steady, edits>>
  BY DEF NotifyIInv, asked
<1>1. ASSUME NEW c \in Channels, NEW n, NEW due, Heard(c, n, due) PROVE Heard(c, n, due)'
  BY <1>0, <1>1 DEF Heard, Wanted
<1>2. ASSUME NEW c, NEW row, Listed(c, row) PROVE Listed(c, row)'
  BY <1>0, <1>2 DEF Listed
<1>3. \A l \in p.list : Listed(l[1], l[2])'
  BY <1>2 DEF PassKnown
<1>4. p.pc \in {"list", "send", "save"} => p.c \in Channels
  BY DEF PassKnown, Listed
<1>5. p.pc \in {"list", "send", "save"} => Listed(p.c, p.row)' /\ p.last <= Len(entries') /\ Heard(p.c, p.last, {})'
  BY <1>0, <1>1, <1>2, <1>4 DEF PassKnown
<1>6. p.pc \in {"send", "save"} => p.upto <= Len(entries') /\ Heard(p.c, p.upto, p.due)'
  BY <1>0, <1>1, <1>4 DEF PassKnown
<1> QED BY <1>3, <1>5, <1>6 DEF PassKnown

\* The steps of the pass between channels.
LEMMA BetweenKeeps ==
    ASSUME NotifyIInv, PassList \/ PassEnd \/ (\E l \in pass.list : PassSkip(l) \/ FlushStart(l)) \/ (\E c \in Channels : BackoffOver(c))
    PROVE  NotifyIInv'
<1>0. NotifyTyping /\ PassKnown(pass) /\ UNCHANGED <<ckpt, told, unsent>> /\ asked /\ pass \in PassRec /\ retry' \subseteq Channels
  BY DEF NotifyIInv, NotifyTyping, PassList, PassEnd, PassSkip, FlushStart, BackoffOver
<1>1. /\ \A c \in Channels : told[c] \subseteq told'[c] /\ ckpt'[c] = ckpt[c]
      /\ ckpt' \in [Channels -> Nat] /\ told' \in [Channels -> SUBSET Nat] /\ unsent' \in 0 .. MaxUnsent
  BY <1>0 DEF NotifyTyping
<1>2. SUFFICES ASSUME NEW q \in PassRec, q = pass', PassKnown(q) PROVE NotifyIInv'
  <2>1. CASE PassList
    <3> DEFINE l == {<<c, channel[c]>> : c \in {d \in Channels : channel[d].state = "stored"}}
               q == [NoPass EXCEPT !.pc = "channels", !.list = l]
    <3>1. l \in SUBSET (Channels \X ChannelRows) /\ \A x \in l : Listed(x[1], x[2])
      BY <1>0 DEF NotifyTyping, NotifyIInv, ChannelKnown, Listed
    <3>2. pass' = q
      BY <2>1 DEF PassList, Step
    <3> HIDE DEF l
    <3>3. q \in PassRec /\ q.pc = "channels" /\ q.list = l
      BY <3>1, NothingUnderway DEF PassRec
    <3> HIDE DEF q
    <3>4. PassKnown(q)
      BY <3>1, <3>3 DEF PassKnown
    <3>5. PICK r \in PassRec : r = q /\ PassKnown(r)
      BY <3>3, <3>4
    <3> QED BY <3>2, <3>5
  <2>2. CASE PassEnd
    <3>1. NoPass = pass' /\ NoPass \in PassRec /\ PassKnown(NoPass)
      BY <2>2, NothingUnderway DEF PassEnd, Step, PassKnown
    <3> QED BY <3>1
  <2>3. ASSUME NEW l \in pass.list, PassSkip(l) PROVE NotifyIInv'
    <3> DEFINE rest == pass.list \ {l}
               q == [pass EXCEPT !.list = rest]
    <3>1. pass' = q
      BY <2>3 DEF PassSkip, Step
    <3>2. rest \subseteq pass.list /\ rest \in SUBSET (Channels \X ChannelRows)
      BY <1>0 DEF PassRec
    <3> HIDE DEF rest
    <3>3. q \in PassRec /\ q.list = rest /\ q.pc = "channels"
      BY <1>0, <2>3, <3>2 DEF PassRec, PassSkip
    <3> HIDE DEF q
    <3>4. PassKnown(q)
      BY <1>0, <3>2, <3>3 DEF PassKnown
    <3>5. PICK r \in PassRec : r = q /\ PassKnown(r)
      BY <3>3, <3>4
    <3> QED BY <3>1, <3>5
  <2>4. ASSUME NEW l \in pass.list, FlushStart(l) PROVE NotifyIInv'
    <3> DEFINE rest == pass.list \ {l}
    <3>1. PICK c \in Channels, row \in ChannelRows : c = l[1] /\ row = l[2] /\ Listed(c, row)
      <4>1. l \in Channels \X ChannelRows /\ Listed(l[1], l[2])
        BY <1>0 DEF PassRec, PassKnown
      <4> QED BY <4>1
    <3>2. PICK n \in Nat : n = ckpt[c] /\ n <= Len(entries) /\ Heard(c, n, {})
      BY <1>0 DEF NotifyTyping, NotifyIInv, ChannelKnown
    <3> DEFINE q == [pass EXCEPT !.pc = "list", !.list = rest, !.c = c, !.row = row, !.last = n, !.sent = 0]
    <3>3. pass' = q
      BY <2>4, <3>1, <3>2 DEF FlushStart, Step
    <3>4. rest \subseteq pass.list /\ rest \in SUBSET (Channels \X ChannelRows)
      BY <1>0 DEF PassRec
    <3>5. 0 \in 0 .. maxPerPass
      BY NotifyAssumption
    <3> HIDE DEF rest
    <3>6. q \in PassRec /\ q.list = rest /\ q.pc = "list" /\ q.c = c /\ q.row = row /\ q.last = n
      BY <1>0, <3>4, <3>5 DEF PassRec
    <3> HIDE DEF q
    <3>7. PassKnown(q)
      BY <1>0, <3>1, <3>2, <3>4, <3>6 DEF PassKnown
    <3>8. PICK r \in PassRec : r = q /\ PassKnown(r)
      BY <3>6, <3>7
    <3> QED BY <3>3, <3>8
  <2>5. ASSUME NEW c \in Channels, BackoffOver(c) PROVE NotifyIInv'
    <3>1. PICK r \in PassRec : r = pass /\ PassKnown(r)
      BY <1>0
    <3>2. r = pass'
      BY <2>5, <3>1 DEF BackoffOver
    <3> QED BY <3>1, <3>2
  <2> QED BY <2>1, <2>2, <2>3, <2>4, <2>5
<1>3. PassKnown(q)'
  BY <1>0, <1>1, <1>2, PassStays
<1>4. PassKnown(pass)'
  BY <1>2, <1>3 DEF PassKnown, Listed, Heard, Wanted
<1> QED BY <1>0, <1>1, <1>2, <1>4, PassMoves

\* A batch is read: what it holds for the channel is due.
LEMMA FlushListKeeps == ASSUME NotifyIInv, FlushList PROVE NotifyIInv'
<1>0. /\ NotifyTyping /\ PassKnown(pass) /\ UNCHANGED <<ckpt, told, unsent>> /\ asked /\ pass \in PassRec /\ retry' \subseteq Channels
      /\ pass.pc = "list" /\ Len(entries) \in Nat
  BY DEF NotifyIInv, NotifyTyping, FlushList
<1>1. /\ \A c \in Channels : told[c] \subseteq told'[c] /\ ckpt'[c] = ckpt[c]
      /\ ckpt' \in [Channels -> Nat] /\ told' \in [Channels -> SUBSET Nat] /\ unsent' \in 0 .. MaxUnsent
  BY <1>0 DEF NotifyTyping
<1>2. PICK c \in Channels, row \in ChannelRows, last \in Nat :
          c = pass.c /\ row = pass.row /\ last = pass.last /\ Listed(c, row) /\ last <= Len(entries) /\ Heard(c, last, {})
  BY <1>0 DEF PassKnown, PassRec, Listed
<1> DEFINE m == Least(last + batch, Len(entries))
<1>3. m \in Nat /\ last <= m /\ m <= Len(entries)
  BY <1>0, <1>2, NotifyAssumption DEF Least
<1>4. PICK n \in Nat : n = m /\ last <= n /\ n <= Len(entries)
  BY <1>3
<1> DEFINE due == Due(last, n, row.events)
<1>5. due \in SUBSET Nat /\ (\A e \in due : e <= n)
  BY DEF Due
<1>6. Heard(c, n, due)
  <2> SUFFICES ASSUME NEW e \in Nat, since[c] < e, e <= n, Wanted(c, e) PROVE e \in told[c] \/ e \in due
    BY DEF Heard
  <2>1. CASE e <= last
    BY <1>2, <2>1 DEF Heard
  <2>2. CASE last < e
    <3>1. e \in last + 1 .. n
      BY <2>2
    <3>2. entries[e] \in row.events
      BY <1>2 DEF Wanted, Listed
    <3> QED BY <3>1, <3>2 DEF Due
  <2> QED BY <2>1, <2>2
<1> HIDE DEF m, due
<1>7. SUFFICES ASSUME NEW q \in PassRec, q = pass', PassKnown(q) PROVE NotifyIInv'
  <2>1. pass' = IF n = last THEN [pass EXCEPT !.pc = "channels"] ELSE [pass EXCEPT !.pc = "send", !.upto = n, !.due = due]
    BY <1>2, <1>4 DEF FlushList, Step, m, due
  <2>2. CASE n = last
    <3> DEFINE q == [pass EXCEPT !.pc = "channels"]
    <3>1. q \in PassRec /\ q.pc = "channels" /\ q.list = pass.list
      BY <1>0 DEF PassRec
    <3> HIDE DEF q
    <3>2. PassKnown(q)
      BY <1>0, <3>1 DEF PassKnown
    <3>3. PICK r \in PassRec : r = q /\ PassKnown(r)
      BY <3>1, <3>2
    <3> QED BY <2>1, <2>2, <3>3 DEF q
  <2>3. CASE n # last
    <3> DEFINE q == [pass EXCEPT !.pc = "send", !.upto = n, !.due = due]
    <3>1. q \in PassRec /\ q.pc = "send" /\ q.list = pass.list /\ q.c = c /\ q.row = row /\ q.last = last /\ q.upto = n /\ q.due = due
      BY <1>0, <1>2, <1>5 DEF PassRec
    <3> HIDE DEF q
    <3>2. PassKnown(q)
      BY <1>0, <1>2, <1>4, <1>5, <1>6, <3>1 DEF PassKnown
    <3>3. PICK r \in PassRec : r = q /\ PassKnown(r)
      BY <3>1, <3>2
    <3> QED BY <2>1, <2>3, <3>3 DEF q
  <2> QED BY <2>2, <2>3
<1>8. PassKnown(q)'
  BY <1>0, <1>1, <1>7, PassStays
<1>9. PassKnown(pass)'
  BY <1>7, <1>8 DEF PassKnown, Listed, Heard, Wanted
<1> QED BY <1>0, <1>1, <1>7, <1>9, PassMoves

\* What is due first is due.
LEMMA FirstDue == ASSUME pass \in PassRec, pass.due # {}
                  PROVE  Earliest \in pass.due /\ Earliest \in Nat /\ \A e \in pass.due : Earliest <= e
<1>1. pass.due \in SUBSET Nat
  BY DEF PassRec
<1>2. \E e \in pass.due : \A f \in pass.due : e <= f
  BY <1>1, Smallest
<1>3. Earliest \in pass.due /\ \A e \in pass.due : Earliest <= e
  BY <1>2, Zenon DEF Earliest
<1> QED BY <1>1, <1>3

\* A message or a summary is sent: the checkpoint moves no further than what was told.
LEMMA SendKeeps == ASSUME NotifyIInv, Send PROVE NotifyIInv'
<1>0. /\ NotifyTyping /\ PassKnown(pass) /\ asked /\ pass \in PassRec /\ pass.pc = "send" /\ pass.due # {}
      /\ UNCHANGED <<retry, unsent>> /\ UNCHANGED <<entries, channel, since, steady>> /\ retry' \subseteq Channels /\ unsent' \in 0 .. MaxUnsent
  BY DEF NotifyIInv, NotifyTyping, Send, asked
<1>1. PICK c \in Channels, n \in Nat, due \in SUBSET Nat, first \in Nat :
          /\ c = pass.c /\ n = pass.upto /\ due = pass.due /\ first = Earliest /\ n <= Len(entries) /\ Heard(c, n, due)
          /\ \A e \in due : e <= n
  BY <1>0, FirstDue DEF PassKnown, PassRec, Listed
<1>2. first \in due /\ first <= n /\ \A e \in due : first <= e
  BY <1>0, <1>1, FirstDue
<1>3. channel[c].state # "unborn"
  BY <1>0, <1>1 DEF PassKnown, Listed
<1> DEFINE said == IF pass.sent = maxPerPass THEN due ELSE {first}
           tells == told[c] \cup said
<1>4. told' = [told EXCEPT ![c] = tells]
  BY <1>0, <1>1 DEF Send, Said, NotifyTyping
<1>5. tells \in SUBSET Nat /\ told[c] \subseteq tells /\ said \subseteq tells
  BY <1>0, <1>1 DEF NotifyTyping
<1> HIDE DEF tells
<1>6. /\ told' \in [Channels -> SUBSET Nat] /\ told'[c] = tells /\ \A d \in Channels : told[d] \subseteq told'[d]
  BY <1>0, <1>4, <1>5 DEF NotifyTyping
<1>7. CASE pass.sent = maxPerPass
  <2> DEFINE q == [pass EXCEPT !.due = {}, !.pc = "save"]
  <2>1. pass' = q /\ ckpt' = ckpt
    BY <1>7 DEF Send, Step
  <2>2. /\ q \in PassRec /\ q.pc = "save" /\ q.list = pass.list /\ q.c = c /\ q.row = pass.row /\ q.last = pass.last
        /\ q.upto = n /\ q.due = {}
    BY <1>0, <1>1 DEF PassRec
  <2> HIDE DEF q
  <2>3. Heard(c, n, {})'
    BY <1>0, <1>1, <1>5, <1>6, <1>7 DEF Heard, Wanted
  <2>4. PICK p \in PassRec : p = pass /\ PassKnown(p)
    BY <1>0
  <2>5. PassKnown(p)'
    BY <1>0, <1>6, <2>4, PassStays
  <2>6. PICK r \in PassRec : r = q
    BY <2>2
  <2>7. PassKnown(r)'
    BY <1>0, <1>1, <2>2, <2>3, <2>4, <2>5, <2>6 DEF PassKnown
  <2>8. PassKnown(pass)'
    BY <2>1, <2>6, <2>7 DEF PassKnown, Listed, Heard, Wanted
  <2> QED BY <1>0, <1>6, <2>1, <2>2, <2>8, PassMoves DEF NotifyTyping
<1>8. CASE pass.sent # maxPerPass
  <2> DEFINE left == due \ {first}
             q == [pass EXCEPT !.due = left, !.sent = pass.sent + 1]
  <2>1. pass' = q /\ ckpt' = [ckpt EXCEPT ![c] = first]
    BY <1>1, <1>8 DEF Send, Step
  <2>2. left \in SUBSET Nat /\ left \subseteq due
    OBVIOUS
  <2>3. pass.sent + 1 \in 0 .. maxPerPass
    BY <1>0, <1>8, NotifyAssumption DEF PassRec
  <2>4. \A e \in due : e \in left \/ e = first
    OBVIOUS
  <2> HIDE DEF left
  <2>5. /\ q \in PassRec /\ q.pc = "send" /\ q.list = pass.list /\ q.c = c /\ q.row = pass.row /\ q.last = pass.last
        /\ q.upto = n /\ q.due = left
    BY <1>0, <1>1, <2>2, <2>3 DEF PassRec
  <2> HIDE DEF q
  <2>6. first \in told'[c]
    BY <1>5, <1>6, <1>8
  <2>7. Heard(c, n, left)'
    BY <1>0, <1>1, <1>6, <2>4, <2>6 DEF Heard, Wanted
  <2>8. Heard(c, first, {})'
    <3> SUFFICES ASSUME NEW e \in Nat, since'[c] < e, e <= first, Wanted(c, e)' PROVE e \in told'[c]
      BY DEF Heard
    <3>1. e <= n /\ Wanted(c, e) /\ since[c] < e
      BY <1>0, <1>2 DEF Wanted
    <3>2. e \in told[c] \/ e \in due
      BY <1>1, <3>1 DEF Heard
    <3>3. e \in due => e = first
      BY <1>2
    <3> QED BY <1>6, <2>6, <3>2, <3>3
  <2>9. PICK p \in PassRec : p = pass /\ PassKnown(p)
    BY <1>0
  <2>10. PassKnown(p)'
    BY <1>0, <1>6, <2>9, PassStays
  <2>11. PICK r \in PassRec : r = q
    BY <2>5
  <2>12. PassKnown(r)'
    BY <1>0, <1>1, <2>2, <2>5, <2>7, <2>9, <2>10, <2>11 DEF PassKnown
  <2>13. PassKnown(pass)'
    BY <2>1, <2>11, <2>12 DEF PassKnown, Listed, Heard, Wanted
  <2>14. ckpt' \in [Channels -> Nat] /\ ckpt'[c] = first /\ \A d \in Channels : d # c => ckpt'[d] = ckpt[d]
    BY <1>0, <2>1 DEF NotifyTyping
  <2>15. first <= Len(entries)
    BY <1>0, <1>1, <1>2 DEF NotifyTyping
  <2>16. Heard(c, ckpt[c], {})'
    BY <2>8, <2>14 DEF Heard
  <2> QED BY <1>0, <1>3, <1>6, <2>1, <2>5, <2>13, <2>14, <2>15, <2>16, PassMoves
<1> QED BY <1>7, <1>8

\* A delivery fails: the checkpoint stays.
LEMMA SendFailsKeeps == ASSUME NotifyIInv, SendFails PROVE NotifyIInv'
<1>0. /\ NotifyTyping /\ PassKnown(pass) /\ asked /\ pass \in PassRec /\ pass.pc = "send" /\ pass.due # {} /\ ckpt' = ckpt
      /\ retry' = retry \cup {pass.c} /\ (unsent' = unsent \/ (unsent < MaxUnsent /\ unsent' = unsent + 1))
      /\ (told' = told \/ told' = [told EXCEPT ![pass.c] = @ \cup Said])
  BY DEF NotifyIInv, NotifyTyping, SendFails
<1>1. PICK c \in Channels : c = pass.c
  BY <1>0 DEF PassKnown, Listed
<1>2. unsent' \in 0 .. MaxUnsent /\ retry' \subseteq Channels
  BY <1>0, <1>1, NotifyAssumption DEF NotifyTyping
<1>3. Said \in SUBSET Nat
  BY <1>0, FirstDue DEF Said, PassRec
<1>4. told' \in [Channels -> SUBSET Nat] /\ \A d \in Channels : told[d] \subseteq told'[d]
  BY <1>0, <1>1, <1>3 DEF NotifyTyping
<1> DEFINE q == [pass EXCEPT !.pc = "channels", !.due = {}]
<1>5. pass' = q
  BY DEF SendFails, Step
<1>6. q \in PassRec /\ q.pc = "channels" /\ q.list = pass.list
  BY <1>0 DEF PassRec
<1> HIDE DEF q
<1>7. PICK r \in PassRec : r = q /\ PassKnown(r)
  BY <1>0, <1>6 DEF PassKnown
<1>8. PassKnown(r)'
  BY <1>0, <1>4, <1>7, PassStays
<1>9. PassKnown(pass)'
  BY <1>5, <1>7, <1>8 DEF PassKnown, Listed, Heard, Wanted
<1> QED BY <1>0, <1>2, <1>4, <1>5, <1>6, <1>9, PassMoves DEF NotifyTyping

\* The batch is behind: its end is the checkpoint.
LEMMA FlushSaveKeeps == ASSUME NotifyIInv, FlushSave PROVE NotifyIInv'
<1>0. /\ NotifyTyping /\ PassKnown(pass) /\ asked /\ pass \in PassRec /\ pass.pc \in {"send", "save"} /\ pass.due = {}
      /\ UNCHANGED <<told, unsent>> /\ UNCHANGED <<entries, channel, since, steady>> /\ retry' \subseteq Channels
  BY DEF NotifyIInv, NotifyTyping, FlushSave, asked
<1>1. PICK c \in Channels, n \in Nat :
          c = pass.c /\ n = pass.upto /\ n <= Len(entries) /\ Heard(c, n, {}) /\ channel[c].state # "unborn"
  BY <1>0 DEF PassKnown, PassRec, Listed
<1> DEFINE w == IF pass.upto - pass.last = batch /\ pass.sent < maxPerPass THEN "list" ELSE "channels"
           q == [pass EXCEPT !.pc = w, !.last = n]
<1>2. pass' = q /\ ckpt' = [ckpt EXCEPT ![c] = n] /\ w \in {"list", "channels"}
  BY <1>1 DEF FlushSave, Step
<1> HIDE DEF w
<1>3. q \in PassRec /\ q.pc = w /\ q.list = pass.list /\ q.c = c /\ q.row = pass.row /\ q.last = n
  BY <1>0, <1>1, <1>2 DEF PassRec
<1> HIDE DEF q
<1>4. PassKnown(q)
  BY <1>0, <1>1, <1>2, <1>3 DEF PassKnown
<1>5. PICK r \in PassRec : r = q /\ PassKnown(r)
  BY <1>3, <1>4
<1>6. /\ ckpt' \in [Channels -> Nat] /\ ckpt'[c] = n /\ (\A d \in Channels : d # c => ckpt'[d] = ckpt[d])
      /\ (\A d \in Channels : told[d] \subseteq told'[d]) /\ told' \in [Channels -> SUBSET Nat] /\ unsent' \in 0 .. MaxUnsent
  BY <1>0, <1>2 DEF NotifyTyping
<1>7. PassKnown(r)'
  BY <1>0, <1>5, <1>6, PassStays
<1>8. PassKnown(pass)'
  BY <1>2, <1>5, <1>7 DEF PassKnown, Listed, Heard, Wanted
<1>9. Heard(c, ckpt[c], {})'
  BY <1>0, <1>1, <1>6 DEF Heard, Wanted
<1> QED BY <1>0, <1>1, <1>2, <1>3, <1>6, <1>8, <1>9, PassMoves

\* The notification invariant holds at the start.
LEMMA NotifyStart == NotifyInit => NotifyIInv
<1> SUFFICES ASSUME NotifyInit PROVE NotifyIInv
  OBVIOUS
<1>1. PICK k \in EventKinds : entries = <<k>>
  BY DEF NotifyInit
<1>2. entries \in Seq(EventKinds) /\ Len(entries) = 1
  BY <1>1
<1>3. PICK c \in Channels \cup {NoChannel} : \E m \in {"webhook", "email"} : \E own \in BOOLEAN :
           /\ channel = [d \in Channels |-> IF d = c
                 THEN [state |-> "stored", kind |-> m, events |-> EventKinds, enabled |-> TRUE, own |-> own] ELSE Absent]
           /\ ckpt = [d \in Channels |-> IF d = c THEN 1 ELSE 0]
           /\ since = ckpt
           /\ steady = [d \in Channels |-> channel[d].events]
  BY DEF NotifyInit
<1>w. PICK m \in {"webhook", "email"}, own \in BOOLEAN :
           channel = [d \in Channels |-> IF d = c
                 THEN [state |-> "stored", kind |-> m, events |-> EventKinds, enabled |-> TRUE, own |-> own] ELSE Absent]
  BY <1>3
<1>v. ckpt = [d \in Channels |-> IF d = c THEN 1 ELSE 0] /\ since = ckpt /\ steady = [d \in Channels |-> channel[d].events]
  BY <1>3
<1> DEFINE r == [state |-> "stored", kind |-> m, events |-> EventKinds, enabled |-> TRUE, own |-> own]
<1>4. r \in ChannelRows /\ r.events = EventKinds /\ r.state = "stored" /\ Absent.events = {}
  BY DEF ChannelRows, Absent
<1>5. channel = [d \in Channels |-> IF d = c THEN r ELSE Absent]
  BY <1>w
<1> HIDE DEF r
<1>6. channel \in [Channels -> ChannelRows]
  BY <1>4, <1>5, RowsTyped
<1>7. steady \in [Channels -> SUBSET EventKinds] /\ \A d \in Channels : steady[d] = channel[d].events
  BY <1>v, <1>4, <1>5, RowsTyped
<1>8. ckpt \in [Channels -> Nat] /\ since \in [Channels -> Nat] /\ \A d \in Channels : ckpt[d] = since[d] /\ ckpt[d] <= 1
  BY <1>v
<1>n. /\ retry = {} /\ mail = FALSE /\ call = [a \in Callers |-> NoCall] /\ pass = NoPass
      /\ told = [d \in Channels |-> {}] /\ unsent = 0 /\ edits = 0
  BY DEF NotifyInit
<1>u. unsent \in 0 .. MaxUnsent /\ edits \in 0 .. MaxEdits /\ Len(entries) \in Nat
  BY <1>2, <1>n, NotifyAssumption
<1>t. told \in [Channels -> SUBSET Nat] /\ call \in [Callers -> CallRec] /\ mail \in BOOLEAN /\ retry \subseteq Channels /\ pass \in PassRec
  BY <1>n, NothingUnderway
<1>9. NotifyTyping
  BY <1>2, <1>6, <1>7, <1>8, <1>u, <1>t DEF NotifyTyping
<1>10. ASSUME NEW d \in Channels PROVE ChannelKnown(d)
  <2>1. channel[d].state = "unborn" => ckpt[d] = 0
    BY <1>v, <1>4, <1>5
  <2>2. \A e \in Nat : ~(since[d] < e /\ e <= ckpt[d])
    BY <1>8
  <2> QED BY <1>2, <1>7, <1>8, <2>1, <2>2 DEF ChannelKnown, Heard
<1>11. \A a \in Callers : CallKnown(call[a])
  BY NothingUnderway DEF NotifyInit, CallKnown
<1>12. PassKnown(pass)
  BY NothingUnderway DEF NotifyInit, PassKnown
<1> QED BY <1>9, <1>10, <1>11, <1>12 DEF NotifyIInv

\* Every step keeps the notification invariant.
LEMMA NotifyStep == NotifyIInv /\ [NotifyNext]_notifyVars => NotifyIInv'
<1> SUFFICES ASSUME NotifyIInv, [NotifyNext]_notifyVars PROVE NotifyIInv'
  OBVIOUS
<1>1. CASE Passes
  BY <1>1, BetweenKeeps, FlushListKeeps, SendKeeps, SendFailsKeeps, FlushSaveKeeps DEF Passes
<1>2. CASE Requests
  BY <1>2, CreateKeeps, StartKeeps, UpdateKeeps, ServerKeeps DEF Requests
<1>3. CASE \E k \in EventKinds : Happens(k)
  BY <1>3, HappensKeeps
<1>4. CASE \E c \in Channels : BackoffOver(c)
  BY <1>4, BetweenKeeps
<1>5. CASE UNCHANGED notifyVars
  BY <1>5 DEF notifyVars, NotifyIInv, NotifyTyping, ChannelKnown, CallKnown, PassKnown, Listed, Heard, Wanted
<1> QED BY <1>1, <1>2, <1>3, <1>4, <1>5 DEF NotifyNext

\* What a channel asked for and its checkpoint has passed was told to it (notifier.go, flush:
\* the checkpoint moves only past what was delivered), for every interleaving of a pass with the
\* requests that create, change and remove channels, with failing deliveries and restarts.
THEOREM NotifyStaysSound == NotifySpec => []NotifySound
<1>1. NotifyIInv => NotifySound
  <2> SUFFICES ASSUME NotifyIInv PROVE NotifySound
    OBVIOUS
  <2>1. NotifyTypeOK
    BY DEF NotifyIInv, NotifyTyping, NotifyTypeOK, CallRec, PassRec
  <2>2. PassedIsTold
    <3> SUFFICES ASSUME NEW c \in Channels, NEW e \in since[c] + 1 .. ckpt[c], Wanted(c, e) PROVE e \in told[c]
      BY DEF PassedIsTold
    <3>1. since[c] \in Nat /\ ckpt[c] \in Nat /\ Heard(c, ckpt[c], {})
      BY DEF NotifyIInv, NotifyTyping, ChannelKnown
    <3>2. e \in Nat /\ since[c] < e /\ e <= ckpt[c]
      BY <3>1
    <3> QED BY <3>1, <3>2 DEF Heard
  <2> QED BY <2>1, <2>2 DEF NotifySound
<1> QED BY <1>1, NotifyStart, NotifyStep, PTL DEF NotifySpec
-----------------------------------------------------------------------------
(* HostActions.  A request is carried out once, by a helper that leaves a  *)
(* file a gateway has listened with.                                       *)

RequestedRec == [verb : Verbs, change : Changes \cup {Nothing}]
ResultRec == [id : 0 .. MaxRequests, state : Outcomes, acked : BOOLEAN]
StatusRec == [id : 0 .. MaxRequests, state : {"none", "running", "failed", "done"}]
HelperRec == [pc : HelperStages, id : 0 .. MaxRequests, cur : Files, state : Outcomes]
GatewayRec == [pc : {"up", "starting", "acked", "failed", "off"}, drain : 0 .. MaxRequests]

HostTyping ==
    /\ host \in [loads : BOOLEAN, held : BOOLEAN, units : BOOLEAN] /\ env \in Files
    /\ requested \in Seq(RequestedRec) /\ Len(requested) \in Nat /\ Len(requested) <= MaxRequests
    /\ request \in [{"config", "update"} -> 0 .. MaxRequests]
    /\ result \in ResultRec /\ (~result.acked => result.id \in Ids)
    /\ status \in StatusRec /\ helper \in HelperRec /\ installer \in 0 .. MaxRequests /\ gw \in GatewayRec
    /\ course \in [Ids -> {"none", "waiting", "ending", "over"}] /\ watch \subseteq Ids /\ failed \subseteq Ids /\ audited \subseteq Ids
    /\ losses \in 0 .. MaxLosses /\ failures \in 0 .. MaxFailures
    /\ written \in [Ids -> 0 .. 2] /\ served \subseteq Files /\ outcome \in [Ids -> Outcomes]

\* A request no helper has had in its hands.
Untouched(r) == written[r] = 0 /\ outcome[r] = "none" /\ helper.id # r
BeforeHandOver ==
    /\ \A r \in Ids : r > Len(requested) => course[r] = "none"
    /\ \A r \in Ids : course[r] # "over" => Untouched(r) /\ request["config"] # r
HandedOver == request["config"] # 0 => request["config"] <= Len(requested) /\ Untouched(request["config"])
InHand == IF helper.pc = "idle" THEN helper.id = 0
          ELSE /\ helper.id \in Ids /\ helper.id <= Len(requested) /\ outcome[helper.id] = "none"
               /\ helper.pc \in {"taken", "kept"} => written[helper.id] = 0

\* While neither power nor a file that cannot be put back gets in the way, the helper has
\* a file that was served: in place, or kept for putting back.
InForce == losses = 0 /\ (\A r \in Ids : outcome[r] # "by_hand")
               /\ \A r \in 1 .. Len(requested) : Verb(r) \notin {"reboot", "poweroff"}
Serving ==
    /\ helper.pc \in {"idle", "taken", "kept", "back"} => env \in served
    /\ helper.pc = "kept" => helper.cur = env
    /\ helper.pc \in {"renamed", "waiting", "lost"} => helper.cur \in served
    /\ helper.pc = "waiting" /\ gw.pc = "up" => env \in served
    /\ helper.pc = "answer" /\ helper.state # "by_hand" => env \in served

HostIInv == HostTyping /\ BeforeHandOver /\ HandedOver /\ InHand /\ AppliedOnce /\ (InForce => Serving)

\* The helper at rest is a state of it.
LEMMA HelperAtRest == AtRest \in HelperRec /\ AtRest.pc = "idle" /\ AtRest.id = 0 /\ 0 \in 0 .. MaxRequests
  BY HostAssumption DEF AtRest, HelperRec, HelperStages, Files, Outcomes

\* The courses of a process: each goes on towards its end, and the requests not made have none.
CoursesGoOn ==
    /\ \A r \in Ids : course'[r] # "over" => course[r] # "over"
    /\ \A r \in Ids : r > Len(requested') => course'[r] = "none"

\* Endings of drains, with the process or one by one.
LEMMA EndsTyped ==
    ASSUME HostIInv, NEW stage \in {"up", "starting", "acked", "failed", "off"}, ProcessEnds(stage), requested' = requested
    PROVE  /\ gw' \in GatewayRec /\ gw'.pc = stage /\ watch' \subseteq Ids /\ CoursesGoOn
           /\ course' \in [Ids -> {"none", "waiting", "ending", "over"}]
<1>1. HostTyping /\ BeforeHandOver
  BY DEF HostIInv
<1>2. gw' \in GatewayRec /\ gw'.pc = stage /\ watch' = {}
  BY HelperAtRest DEF ProcessEnds, GatewayRec
<1>3. course' = [r \in Ids |-> IF course[r] = "none" THEN "none" ELSE "over"]
  BY DEF ProcessEnds
<1>4. course' \in [Ids -> {"none", "waiting", "ending", "over"}]
  BY <1>3
<1>5. CoursesGoOn
  BY <1>1, <1>3 DEF CoursesGoOn, BeforeHandOver
<1> QED BY <1>2, <1>4, <1>5

\* A drain that is replaced or cancelled ends the courses that wait.
LEMMA StoppedTyped ==
    ASSUME HostIInv
    PROVE  /\ stopped \in [Ids -> {"none", "waiting", "ending", "over"}]
           /\ \A r \in Ids : (stopped[r] # "over" => course[r] # "over") /\ (course[r] = "none" => stopped[r] = "none")
  BY DEF HostIInv, HostTyping, stopped

\* The drain is dropped, and this request's course with it where there is one.
LEMMA CancelTyped ==
    ASSUME HostIInv, requested' = requested, gw' = [gw EXCEPT !.drain = 0],
           course' = stopped \/ (\E r \in Ids : course[r] # "none" /\ course' = [stopped EXCEPT ![r] = "over"])
    PROVE  gw' \in GatewayRec /\ gw'.pc = gw.pc /\ CoursesGoOn /\ course' \in [Ids -> {"none", "waiting", "ending", "over"}]
<1>1. HostTyping /\ BeforeHandOver
  BY DEF HostIInv
<1>2. gw' \in GatewayRec /\ gw'.pc = gw.pc
  BY <1>1, HelperAtRest DEF HostTyping, GatewayRec
<1>3. course' \in [Ids -> {"none", "waiting", "ending", "over"}]
  BY StoppedTyped
<1>4. CoursesGoOn
  BY <1>1, StoppedTyped DEF CoursesGoOn, BeforeHandOver
<1> QED BY <1>2, <1>3, <1>4

\* A step beside the helper: it leaves the file, the helper and what it has done alone.
LEMMA Beside ==
    ASSUME HostIInv, HostTyping', UNCHANGED <<env, helper, losses, written, outcome>>, request'["config"] = request["config"],
           Len(requested) <= Len(requested'), \A r \in 1 .. Len(requested) : requested'[r] = requested[r],
           CoursesGoOn, served \subseteq served', gw'.pc = "up" => gw.pc = "up" \/ env \in served'
    PROVE  HostIInv'
<1>0. HostTyping /\ BeforeHandOver /\ HandedOver /\ InHand /\ AppliedOnce /\ (InForce => Serving)
  BY DEF HostIInv
<1>1. /\ Len(requested) \in Nat /\ Len(requested') \in Nat /\ helper.id \in 0 .. MaxRequests /\ request["config"] \in 0 .. MaxRequests
  BY <1>0 DEF HostTyping, HelperRec
<1>2. BeforeHandOver'
  BY <1>0 DEF BeforeHandOver, CoursesGoOn, Untouched
<1>3. HandedOver'
  BY <1>0, <1>1 DEF HandedOver, Untouched
<1>4. InHand'
  BY <1>0, <1>1 DEF InHand
<1>5. AppliedOnce'
  BY <1>0 DEF AppliedOnce
<1>6. InForce' => InForce
  <2> SUFFICES ASSUME InForce' PROVE InForce
    OBVIOUS
  <2>1. \A r \in 1 .. Len(requested) : r \in 1 .. Len(requested')
    BY <1>1
  <2> QED BY <2>1 DEF InForce, Verb
<1>7. InForce' => Serving'
  BY <1>0, <1>6 DEF Serving
<1> QED BY <1>2, <1>3, <1>4, <1>5, <1>7 DEF HostIInv

\* A request is made and its drain begins.
LEMMA RestartThenKeeps ==
    ASSUME HostIInv, NEW verb \in Verbs, NEW change \in Changes \cup {Nothing}, RestartThen(verb, change) PROVE HostIInv'
<1>0. HostTyping /\ BeforeHandOver
  BY DEF HostIInv
<1>1. PICK n \in Nat : n = Len(requested)
  BY <1>0 DEF HostTyping
<1> DEFINE x == [verb |-> verb, change |-> change]
<1>2. /\ n < MaxRequests /\ requested' = Append(requested, x) /\ gw' = [gw EXCEPT !.drain = n + 1]
      /\ course' = [stopped EXCEPT ![n + 1] = "waiting"]
      /\ UNCHANGED <<host, env, request, result, status, helper, installer, watch, failed, audited, losses, failures, history>>
  BY <1>1 DEF RestartThen
<1>3. x \in RequestedRec
  BY DEF RequestedRec
<1> HIDE DEF x
<1>4. /\ requested' \in Seq(RequestedRec) /\ Len(requested') = n + 1 /\ \A r \in 1 .. n : requested'[r] = requested[r]
  BY <1>0, <1>1, <1>2, <1>3 DEF HostTyping
<1>5. n + 1 \in Ids /\ n + 1 \in 0 .. MaxRequests /\ n + 1 \in Nat /\ n <= n + 1 /\ n + 1 <= MaxRequests
  BY <1>2, HostAssumption DEF Ids
<1>6. course' \in [Ids -> {"none", "waiting", "ending", "over"}]
  BY <1>2, StoppedTyped
<1>7. gw' \in GatewayRec /\ gw'.pc = gw.pc
  BY <1>0, <1>2, <1>5 DEF HostTyping, GatewayRec
<1>8. HostTyping'
  BY <1>0, <1>2, <1>4, <1>5, <1>6, <1>7 DEF HostTyping, history
<1>9. CoursesGoOn
  <2>1. course[n + 1] = "none"
    BY <1>0, <1>1, <1>5 DEF BeforeHandOver
  <2>2. ASSUME NEW r \in Ids, r > n + 1 PROVE course'[r] = "none"
    <3>1. course[r] = "none" /\ r # n + 1
      BY <1>0, <1>1, <2>2 DEF BeforeHandOver, Ids
    <3> QED BY <1>2, <3>1, StoppedTyped
  <2>3. ASSUME NEW r \in Ids, course'[r] # "over" PROVE course[r] # "over"
    BY <1>2, <2>1, <2>3, StoppedTyped
  <2> QED BY <1>4, <2>2, <2>3 DEF CoursesGoOn
<1> QED BY <1>1, <1>2, <1>4, <1>5, <1>7, <1>8, <1>9, Beside DEF history

\* A failure is counted, or none.
LEMMA Counted == ASSUME HostTyping, Works \/ Fails PROVE failures' \in 0 .. MaxFailures
  BY HostAssumption DEF HostTyping, Works, Fails

\* The drains and their watches, up to what is left for the update script.
LEMMA DrainKeeps ==
    ASSUME HostIInv, ConsoleCancel \/ (\E r \in Ids : DrainOver(r) \/ HandUpdate(r) \/ WatchConfig(r) \/ WatchInstall(r) \/ WatchLimit(r))
    PROVE  HostIInv'
<1>0. HostTyping /\ BeforeHandOver /\ Len(requested) <= Len(requested)
  BY DEF HostIInv, HostTyping
<1>1. CASE ConsoleCancel
  <2>1. /\ UNCHANGED <<host, env, requested, request, result, status, helper, installer, watch, failed, audited, losses, failures, history>>
        /\ gw' = [gw EXCEPT !.drain = 0] /\ course' = stopped
    BY <1>1 DEF ConsoleCancel, CancelDrain
  <2>2. gw' \in GatewayRec /\ gw'.pc = gw.pc /\ CoursesGoOn /\ course' \in [Ids -> {"none", "waiting", "ending", "over"}]
    BY <2>1, CancelTyped
  <2>3. HostTyping'
    BY <1>0, <2>1, <2>2 DEF HostTyping, history
  <2> QED BY <1>0, <2>1, <2>2, <2>3, Beside DEF history
<1>2. ASSUME NEW r \in Ids, DrainOver(r) PROVE HostIInv'
  <2>1. /\ UNCHANGED <<host, env, requested, request, result, status, helper, installer, gw, watch, failed, audited, losses, failures, history>>
        /\ course' = [course EXCEPT ![r] = "ending"] /\ course[r] = "waiting"
    BY <1>2 DEF DrainOver
  <2>2. CoursesGoOn /\ course' \in [Ids -> {"none", "waiting", "ending", "over"}]
    BY <1>0, <2>1 DEF CoursesGoOn, HostTyping, BeforeHandOver
  <2>3. HostTyping'
    BY <1>0, <2>1, <2>2 DEF HostTyping, history
  <2> QED BY <1>0, <2>1, <2>2, <2>3, Beside DEF history
<1>3. ASSUME NEW r \in Ids, HandUpdate(r) PROVE HostIInv'
  <2>1. /\ UNCHANGED <<host, env, requested, result, status, helper, installer, audited, losses, history>>
        /\ course[r] = "ending" /\ failures' \in 0 .. MaxFailures
    BY <1>0, <1>3, Counted DEF HandUpdate, HandOver
  <2>2. CASE /\ request' = [request EXCEPT !["update"] = r] /\ watch' = watch \cup {r}
             /\ course' = [course EXCEPT ![r] = "over"] /\ UNCHANGED <<gw, failed>>
    <3>1. request' \in [{"config", "update"} -> 0 .. MaxRequests] /\ request'["config"] = request["config"]
      BY <1>0, <2>2, HostAssumption DEF HostTyping, Ids
    <3>2. CoursesGoOn /\ course' \in [Ids -> {"none", "waiting", "ending", "over"}]
      BY <1>0, <2>1, <2>2 DEF CoursesGoOn, HostTyping, BeforeHandOver
    <3>3. HostTyping'
      BY <1>0, <2>1, <2>2, <3>1, <3>2 DEF HostTyping, history
    <3> QED BY <1>0, <2>1, <2>2, <3>1, <3>2, <3>3, Beside DEF history
  <2>3. CASE /\ failed' = failed \cup {r} /\ gw' = [gw EXCEPT !.drain = 0] /\ course' = [stopped EXCEPT ![r] = "over"]
             /\ UNCHANGED <<request, watch>>
    <3>1. gw' \in GatewayRec /\ gw'.pc = gw.pc /\ CoursesGoOn /\ course' \in [Ids -> {"none", "waiting", "ending", "over"}]
      BY <2>1, <2>3, CancelTyped
    <3>2. HostTyping'
      BY <1>0, <2>1, <2>3, <3>1 DEF HostTyping, history
    <3> QED BY <1>0, <2>1, <2>3, <3>1, <3>2, Beside DEF history
  <2> QED BY <1>3, <2>2, <2>3 DEF HandUpdate, HandOver
<1>4. ASSUME NEW r \in Ids, WatchConfig(r) \/ WatchInstall(r) \/ WatchLimit(r) PROVE HostIInv'
  <2>1. /\ UNCHANGED <<host, env, requested, request, result, status, helper, installer, audited, losses, failures, history>>
        /\ watch' = watch \ {r}
        /\ (UNCHANGED <<gw, course, failed>> \/ (failed' = failed \cup {r} /\ gw' = [gw EXCEPT !.drain = 0] /\ course' = stopped))
    BY <1>4 DEF WatchConfig, WatchInstall, WatchLimit, Poll, Abandon, CancelDrain
  <2>2. failed' \subseteq Ids /\ watch' \subseteq Ids
    BY <1>0, <2>1 DEF HostTyping
  <2>3. gw' \in GatewayRec /\ gw'.pc = gw.pc /\ CoursesGoOn /\ course' \in [Ids -> {"none", "waiting", "ending", "over"}]
    <3>1. CASE UNCHANGED <<gw, course, failed>>
      BY <1>0, <2>1, <3>1 DEF CoursesGoOn, HostTyping, BeforeHandOver
    <3>2. CASE gw' = [gw EXCEPT !.drain = 0] /\ course' = stopped
      BY <2>1, <3>2, CancelTyped
    <3> QED BY <2>1, <3>1, <3>2
  <2>4. HostTyping'
    BY <1>0, <2>1, <2>2, <2>3 DEF HostTyping, history
  <2> QED BY <1>0, <2>1, <2>3, <2>4, Beside DEF history
<1> QED BY <1>1, <1>2, <1>3, <1>4

\* The request is left for the helper: nothing has touched it.
LEMMA HandConfigKeeps == ASSUME HostIInv, NEW r \in Ids, HandConfig(r) PROVE HostIInv'
<1>0. HostTyping /\ BeforeHandOver /\ HandedOver /\ InHand /\ AppliedOnce /\ (InForce => Serving) /\ Len(requested) <= Len(requested)
  BY DEF HostIInv, HostTyping
<1>1. /\ UNCHANGED <<host, env, requested, result, status, helper, installer, audited, losses, history>>
      /\ course[r] = "ending" /\ failures' \in 0 .. MaxFailures
  BY <1>0, Counted DEF HandConfig, HandOver
<1>2. CASE /\ failed' = failed \cup {r} /\ gw' = [gw EXCEPT !.drain = 0] /\ course' = [stopped EXCEPT ![r] = "over"]
           /\ UNCHANGED <<request, watch>>
  <2>1. gw' \in GatewayRec /\ gw'.pc = gw.pc /\ CoursesGoOn /\ course' \in [Ids -> {"none", "waiting", "ending", "over"}]
    BY <1>1, <1>2, CancelTyped
  <2>2. HostTyping'
    BY <1>0, <1>1, <1>2, <2>1 DEF HostTyping, history
  <2> QED BY <1>0, <1>1, <1>2, <2>1, <2>2, Beside DEF history
<1>3. CASE /\ request' = [request EXCEPT !["config"] = r] /\ watch' = watch \cup {r}
           /\ course' = [course EXCEPT ![r] = "over"] /\ UNCHANGED <<gw, failed>>
  <2>1. request' \in [{"config", "update"} -> 0 .. MaxRequests] /\ request'["config"] = r
    BY <1>0, <1>3, HostAssumption DEF HostTyping, Ids
  <2>2. course' \in [Ids -> {"none", "waiting", "ending", "over"}] /\ course'[r] = "over" /\ \A q \in Ids : q # r => course'[q] = course[q]
    BY <1>0, <1>3 DEF HostTyping
  <2>3. HostTyping'
    BY <1>0, <1>1, <1>3, <2>1, <2>2 DEF HostTyping, history
  <2>4. Untouched(r) /\ r <= Len(requested)
    <3>1. r \in Nat /\ Len(requested) \in Nat
      BY <1>0, HostAssumption DEF HostTyping, Ids
    <3> QED BY <1>0, <1>1, <3>1 DEF BeforeHandOver
  <2>5. BeforeHandOver'
    BY <1>0, <1>1, <2>1, <2>2, <2>4 DEF BeforeHandOver, Untouched, history
  <2>6. HandedOver'
    BY <1>1, <2>1, <2>4 DEF HandedOver, Untouched, history
  <2>7. InHand' /\ AppliedOnce'
    BY <1>0, <1>1 DEF InHand, AppliedOnce, history
  <2>8. InForce' => Serving'
    BY <1>0, <1>1, <1>3 DEF InForce, Serving, Verb, history
  <2> QED BY <2>3, <2>5, <2>6, <2>7, <2>8 DEF HostIInv
<1> QED BY <1>2, <1>3 DEF HandConfig, HandOver

\* The host goes down under the helper: the request it had stays as it was.
LEMMA GoesDown ==
    ASSUME HostIInv, HostTyping', UNCHANGED <<requested, request, written, outcome>>, CoursesGoOn, helper' = AtRest, ~InForce'
    PROVE  HostIInv'
<1>0. HostTyping /\ BeforeHandOver /\ HandedOver /\ InHand /\ AppliedOnce /\ \A r \in Ids : r # 0
  BY HostAssumption DEF HostIInv, Ids
<1>1. \A r \in Ids : Untouched(r) => Untouched(r)'
  BY <1>0, HelperAtRest DEF Untouched
<1>2. BeforeHandOver'
  BY <1>0, <1>1 DEF BeforeHandOver, CoursesGoOn
<1>3. HandedOver'
  BY <1>0, HelperAtRest DEF HandedOver, Untouched
<1>4. InHand' /\ AppliedOnce'
  BY <1>0, HelperAtRest DEF InHand, AppliedOnce
<1> QED BY <1>2, <1>3, <1>4 DEF HostIInv

\* A reboot, a power-off or a plain restart.
LEMMA ActKeeps == ASSUME HostIInv, NEW r \in Ids, Act(r) PROVE HostIInv'
<1>0. HostTyping /\ BeforeHandOver /\ Len(requested) <= Len(requested) /\ r \in Nat /\ Len(requested) \in Nat
  BY HostAssumption DEF HostIInv, HostTyping, Ids
<1>1. /\ UNCHANGED <<host, env, requested, request, result, status, audited, losses, history>>
      /\ course[r] = "ending" /\ failures' \in 0 .. MaxFailures
  BY <1>0, Counted DEF Act
<1>2. r \in 1 .. Len(requested)
  BY <1>0, <1>1 DEF BeforeHandOver, Ids
<1>3. CASE /\ ProcessEnds(IF Verb(r) = "poweroff" THEN "off" ELSE "starting")
           /\ helper' = IF Verb(r) = "restart" THEN helper ELSE AtRest
           /\ installer' = IF Verb(r) = "restart" THEN installer ELSE 0
           /\ UNCHANGED failed
  <2> DEFINE stage == IF Verb(r) = "poweroff" THEN "off" ELSE "starting"
  <2>1. stage \in {"off", "starting"} /\ ProcessEnds(stage)
    BY <1>3
  <2> HIDE DEF stage
  <2>2. /\ gw' \in GatewayRec /\ gw'.pc = stage /\ watch' \subseteq Ids /\ CoursesGoOn
        /\ course' \in [Ids -> {"none", "waiting", "ending", "over"}]
    BY <1>1, <2>1, EndsTyped
  <2>3. helper' \in HelperRec /\ installer' \in 0 .. MaxRequests
    BY <1>0, <1>3, HelperAtRest DEF HostTyping
  <2>4. HostTyping'
    BY <1>0, <1>1, <1>3, <2>2, <2>3 DEF HostTyping, history
  <2>5. CASE Verb(r) = "restart"
    BY <1>0, <1>1, <1>3, <2>1, <2>2, <2>4, <2>5, Beside DEF history
  <2>6. CASE Verb(r) # "restart"
    <3>1. Verb(r)' \in {"reboot", "poweroff"}
      BY <1>1, <2>6 DEF Act, Verb
    <3>2. ~InForce'
      BY <1>1, <1>2, <3>1 DEF InForce
    <3> QED BY <1>1, <1>3, <2>2, <2>4, <2>6, <3>2, GoesDown DEF history
  <2> QED BY <2>5, <2>6
<1>4. CASE /\ failed' = failed \cup {r} /\ gw' = [gw EXCEPT !.drain = 0] /\ course' = [stopped EXCEPT ![r] = "over"]
           /\ UNCHANGED <<helper, installer, watch>>
  <2>1. gw' \in GatewayRec /\ gw'.pc = gw.pc /\ CoursesGoOn /\ course' \in [Ids -> {"none", "waiting", "ending", "over"}]
    BY <1>1, <1>4, CancelTyped
  <2>2. HostTyping'
    BY <1>0, <1>1, <1>4, <2>1 DEF HostTyping, history
  <2> QED BY <1>0, <1>1, <1>4, <2>1, <2>2, Beside DEF history
<1> QED BY <1>3, <1>4 DEF Act

\* The power goes.
LEMMA PowerLossKeeps == ASSUME HostIInv, PowerLoss PROVE HostIInv'
<1>0. HostTyping
  BY DEF HostIInv
<1>1. /\ UNCHANGED <<host, env, requested, request, result, status, failed, audited, failures, history>>
      /\ losses < MaxLosses /\ losses' = losses + 1 /\ ProcessEnds("starting") /\ helper' = AtRest /\ installer' = 0
  BY DEF PowerLoss
<1>2. losses' \in 0 .. MaxLosses /\ losses' # 0
  BY <1>0, <1>1, HostAssumption DEF HostTyping
<1>3. gw' \in GatewayRec /\ watch' \subseteq Ids /\ CoursesGoOn /\ course' \in [Ids -> {"none", "waiting", "ending", "over"}]
  BY <1>1, EndsTyped
<1>4. HostTyping'
  BY <1>0, <1>1, <1>2, <1>3, HelperAtRest DEF HostTyping, history
<1> QED BY <1>1, <1>2, <1>3, <1>4, GoesDown DEF history, InForce

\* The gateway's start, the update script and systemd: beside the helper.
LEMMA StartKeepsHost ==
    ASSUME HostIInv, Ack \/ Listen \/ StartAgain \/ InstallTake \/ Install PROVE HostIInv'
<1>0. HostTyping /\ BeforeHandOver /\ Len(requested) <= Len(requested) /\ gw \in GatewayRec /\ status \in StatusRec
  BY DEF HostIInv, HostTyping
<1>1. CASE Ack
  <2>1. /\ UNCHANGED <<host, env, requested, request, status, helper, installer, course, watch, failed, losses, history>>
        /\ gw' = [gw EXCEPT !.pc = "acked"] /\ (Works \/ Fails)
        /\ (UNCHANGED <<audited, result>> \/ (audited' = audited \cup {result.id} /\ ~result.acked /\ result' = [result EXCEPT !.acked = TRUE]))
    BY <1>1 DEF Ack, Works
  <2>2. gw' \in GatewayRec /\ gw'.pc = "acked" /\ failures' \in 0 .. MaxFailures
    BY <1>0, <2>1, Counted DEF GatewayRec
  <2>3. audited' \subseteq Ids /\ result' \in ResultRec /\ (~result'.acked => result'.id \in Ids)
    BY <1>0, <2>1 DEF HostTyping, ResultRec
  <2>4. HostTyping' /\ CoursesGoOn
    BY <1>0, <2>1, <2>2, <2>3 DEF HostTyping, history, CoursesGoOn, BeforeHandOver
  <2> QED BY <1>0, <2>1, <2>2, <2>4, Beside DEF history
<1>2. CASE Listen
  <2>1. /\ UNCHANGED <<host, env, requested, request, result, status, helper, installer, course, watch, failed, audited, losses, failures, written, outcome>>
        /\ \/ gw' = [gw EXCEPT !.pc = "up"] /\ served' = served \cup {env}
           \/ gw' = [gw EXCEPT !.pc = "failed"] /\ UNCHANGED served
    BY <1>2 DEF Listen
  <2>2. gw' \in GatewayRec /\ served' \subseteq Files /\ served \subseteq served' /\ (gw'.pc = "up" => env \in served')
    BY <1>0, <2>1 DEF GatewayRec, HostTyping
  <2>3. HostTyping' /\ CoursesGoOn
    BY <1>0, <2>1, <2>2 DEF HostTyping, CoursesGoOn, BeforeHandOver
  <2> QED BY <1>0, <2>1, <2>2, <2>3, Beside
<1>3. CASE StartAgain
  <2>1. /\ UNCHANGED <<host, env, requested, request, result, status, helper, installer, course, watch, failed, audited, losses, failures, history>>
        /\ gw' = [gw EXCEPT !.pc = "starting"]
    BY <1>3 DEF StartAgain
  <2>2. gw' \in GatewayRec /\ gw'.pc = "starting"
    BY <1>0, <2>1 DEF GatewayRec
  <2>3. HostTyping' /\ CoursesGoOn
    BY <1>0, <2>1, <2>2 DEF HostTyping, CoursesGoOn, BeforeHandOver, history
  <2> QED BY <1>0, <2>1, <2>2, <2>3, Beside DEF history
<1>4. CASE InstallTake
  <2>1. /\ UNCHANGED <<host, env, requested, result, helper, gw, course, watch, failed, audited, losses, failures, history>>
        /\ installer' = request["update"] /\ request' = [request EXCEPT !["update"] = 0]
        /\ status' = [id |-> request["update"], state |-> "running"]
    BY <1>4 DEF InstallTake
  <2>2. request["update"] \in 0 .. MaxRequests
    BY <1>0 DEF HostTyping
  <2>3. status' \in StatusRec /\ installer' \in 0 .. MaxRequests
    BY <2>1, <2>2 DEF StatusRec
  <2>4. request' \in [{"config", "update"} -> 0 .. MaxRequests] /\ request'["config"] = request["config"]
    BY <1>0, <2>1, HelperAtRest DEF HostTyping
  <2>5. HostTyping' /\ CoursesGoOn
    BY <1>0, <2>1, <2>3, <2>4 DEF HostTyping, CoursesGoOn, BeforeHandOver, history
  <2> QED BY <1>0, <2>1, <2>4, <2>5, Beside DEF history
<1>5. CASE Install
  <2>1. /\ UNCHANGED <<host, env, requested, request, result, helper, failed, audited, losses, history>>
        /\ installer' = 0 /\ (Works \/ Fails)
        /\ (status' = [status EXCEPT !.state = "done"] \/ status' = [status EXCEPT !.state = "failed"])
        /\ (ProcessEnds("starting") \/ UNCHANGED <<gw, watch, course>>)
    BY <1>5 DEF Install
  <2>2. status' \in StatusRec /\ installer' \in 0 .. MaxRequests /\ failures' \in 0 .. MaxFailures
    BY <1>0, <2>1, HelperAtRest, Counted DEF StatusRec
  <2>3. /\ gw' \in GatewayRec /\ (gw'.pc = "up" => gw.pc = "up") /\ watch' \subseteq Ids /\ CoursesGoOn
        /\ course' \in [Ids -> {"none", "waiting", "ending", "over"}]
    <3>1. CASE ProcessEnds("starting")
      BY <2>1, <3>1, EndsTyped
    <3>2. CASE UNCHANGED <<gw, watch, course>>
      BY <1>0, <2>1, <3>2 DEF HostTyping, CoursesGoOn, BeforeHandOver
    <3> QED BY <2>1, <3>1, <3>2
  <2>4. HostTyping'
    BY <1>0, <2>1, <2>2, <2>3 DEF HostTyping, history
  <2> QED BY <1>0, <2>1, <2>3, <2>4, Beside DEF history
<1> QED BY <1>1, <1>2, <1>3, <1>4, <1>5

\* A step of the helper that goes on with the request it has.
LEMMA Onwards ==
    ASSUME HostIInv, HostTyping', UNCHANGED <<requested, request, losses, outcome, served>>, CoursesGoOn,
           helper.pc # "idle", helper'.pc # "idle", helper'.id = helper.id,
           \A r \in Ids : r # helper.id => written'[r] = written[r], written'[helper.id] <= 1,
           helper'.pc \in {"taken", "kept"} => written'[helper.id] = 0,
           Serving => Serving'
    PROVE  HostIInv'
<1>0. HostTyping /\ BeforeHandOver /\ HandedOver /\ InHand /\ AppliedOnce /\ (InForce => Serving)
  BY DEF HostIInv
<1>1. request["config"] \in 0 .. MaxRequests /\ Ids = 1 .. MaxRequests /\ MaxRequests \in Nat
  BY <1>0, HostAssumption DEF HostTyping, Ids
<1>2. request["config"] # 0 => request["config"] \in Ids
  BY <1>1
<1>3. \A r \in Ids : Untouched(r) => Untouched(r)'
  BY DEF Untouched
<1>4. BeforeHandOver'
  BY <1>0, <1>3 DEF BeforeHandOver, CoursesGoOn
<1>5. HandedOver'
  BY <1>0, <1>2 DEF HandedOver, Untouched
<1>6. InHand'
  BY <1>0 DEF InHand
<1>7. AppliedOnce'
  BY <1>0 DEF AppliedOnce
<1>8. InForce' => Serving'
  BY <1>0 DEF InForce, Verb
<1> QED BY <1>4, <1>5, <1>6, <1>7, <1>8 DEF HostIInv

\* The request is taken out of the file: no helper will read it again.
LEMMA TakeKeeps == ASSUME HostIInv, Take PROVE HostIInv'
<1>0. HostTyping /\ BeforeHandOver /\ HandedOver /\ InHand /\ AppliedOnce /\ (InForce => Serving)
  BY DEF HostIInv
<1>1. PICK n \in 0 .. MaxRequests : n = request["config"]
  BY <1>0 DEF HostTyping
<1> DEFINE x == [AtRest EXCEPT !.pc = "taken", !.id = n]
<1>2. /\ UNCHANGED <<host, env, requested, result, status, installer, gw, course, watch, failed, audited, losses, failures, history>>
      /\ helper.pc = "idle" /\ n # 0 /\ helper' = x /\ request' = [request EXCEPT !["config"] = 0]
  BY <1>1 DEF Take
<1>3. x \in HelperRec /\ x.pc = "taken" /\ x.id = n
  BY HelperAtRest DEF HelperRec, HelperStages
<1> HIDE DEF x
<1>4. request' \in [{"config", "update"} -> 0 .. MaxRequests] /\ request'["config"] = 0
  BY <1>0, <1>2, HelperAtRest DEF HostTyping
<1>5. HostTyping'
  BY <1>0, <1>2, <1>3, <1>4 DEF HostTyping, history
<1>6. n \in Ids /\ Untouched(n) /\ n <= Len(requested) /\ 0 \notin Ids
  BY <1>0, <1>1, <1>2, HostAssumption DEF HandedOver, Ids
<1>7. BeforeHandOver'
  <2>1. ASSUME NEW r \in Ids, course[r] # "over" PROVE Untouched(r)' /\ r # 0
    BY <1>0, <1>1, <1>2, <1>3, <1>6, <2>1 DEF BeforeHandOver, Untouched, history
  <2> QED BY <1>0, <1>2, <1>4, <2>1 DEF BeforeHandOver
<1>8. HandedOver'
  BY <1>4 DEF HandedOver
<1>9. InHand'
  BY <1>2, <1>3, <1>6 DEF InHand, Untouched, history
<1>10. AppliedOnce'
  BY <1>0, <1>2 DEF AppliedOnce, history
<1>11. InForce' => Serving'
  BY <1>0, <1>2, <1>3 DEF InForce, Serving, Verb, history
<1> QED BY <1>5, <1>7, <1>8, <1>9, <1>10, <1>11 DEF HostIInv

\* The file is replaced: once for a request.
LEMMA ReplaceKeeps == ASSUME HostIInv, Replace PROVE HostIInv'
<1>0. /\ HostTyping /\ BeforeHandOver /\ helper \in HelperRec /\ helper.pc = "kept" /\ written[helper.id] = 0 /\ helper.id \in Ids
      /\ helper.id <= Len(requested)
  BY DEF HostIInv, HostTyping, InHand, Replace
<1>1. PICK i \in Ids : i = helper.id /\ i \in 1 .. Len(requested)
  BY <1>0, HostAssumption DEF Ids, HostTyping
<1>2. /\ UNCHANGED <<host, requested, request, result, status, installer, gw, course, watch, failed, audited, losses, failures, served, outcome>>
      /\ env' = Merge(helper.cur, requested[i].change) /\ written' = [written EXCEPT ![i] = @ + 1]
      /\ helper' = [helper EXCEPT !.pc = "renamed"]
  BY <1>1 DEF Replace, At
<1>3. helper' \in HelperRec /\ helper'.pc = "renamed" /\ helper'.id = i /\ helper'.cur = helper.cur
  BY <1>0, <1>1, <1>2 DEF HelperRec, HelperStages
<1>4. env' \in Files
  <2>1. requested[i] \in RequestedRec
    BY <1>0, <1>1 DEF HostTyping
  <2>2. PICK f \in Files, c \in Changes \cup {Nothing} : f = helper.cur /\ c = requested[i].change
    BY <1>0, <2>1 DEF HelperRec, RequestedRec
  <2>3. c.mode \in {"", "managed"} /\ c.site \in {"keep", "set"}
    <3>1. CASE c \in [mode : {"", "managed"}, site : {"keep", "set"}]
      BY <3>1
    <3>2. CASE c = Nothing
      BY <3>2 DEF Nothing
    <3> QED BY <3>1, <3>2 DEF Changes
  <2>4. f.mode \in {"proxy", "managed"} /\ f.site \in {"", "set"}
    BY DEF Files
  <2> DEFINE m == IF c.mode = "" THEN f.mode ELSE c.mode
             t == IF c.site = "keep" THEN f.site ELSE c.site
  <2>5. m \in {"proxy", "managed"} /\ t \in {"", "set"}
    BY <2>3, <2>4
  <2>6. env' = [mode |-> m, site |-> t]
    BY <1>2, <2>2 DEF Merge
  <2> HIDE DEF m, t
  <2> QED BY <2>5, <2>6 DEF Files
<1>5. written' \in [Ids -> 0 .. 2] /\ written'[i] = 1 /\ \A r \in Ids : r # i => written'[r] = written[r]
  BY <1>0, <1>1, <1>2 DEF HostTyping
<1>6. HostTyping' /\ CoursesGoOn
  BY <1>0, <1>2, <1>3, <1>4, <1>5 DEF HostTyping, CoursesGoOn, BeforeHandOver
<1>7. Serving => Serving'
  BY <1>0, <1>2, <1>3 DEF Serving
<1> QED BY <1>0, <1>1, <1>2, <1>3, <1>5, <1>6, <1>7, Onwards

\* The helper's other steps leave what was written alone.
LEMMA HelperKeeps ==
    ASSUME HostIInv, Candidate \/ RestartNew \/ Health \/ HealthTimeout \/ PutBack \/ RestartOld PROVE HostIInv'
<1>0. /\ HostTyping /\ BeforeHandOver /\ helper \in HelperRec /\ helper.pc # "idle" /\ (Works \/ Fails)
      /\ helper.id \in Ids /\ written[helper.id] <= 1 /\ (helper.pc \in {"taken", "kept"} => written[helper.id] = 0)
      /\ UNCHANGED <<host, requested, request, result, status, installer, failed, audited, losses, history>>
  BY DEF HostIInv, HostTyping, InHand, AppliedOnce, Candidate, RestartNew, Health, HealthTimeout, PutBack, RestartOld, Works
<1>1. failures' \in 0 .. MaxFailures
  BY <1>0, Counted
<1>2. SUFFICES ASSUME /\ helper' \in HelperRec /\ helper'.id = helper.id /\ env' \in Files
                      /\ helper'.pc # "idle" /\ (helper'.pc \in {"taken", "kept"} => helper.pc \in {"taken", "kept"})
                      /\ Serving => Serving'
                      /\ ProcessEnds("starting") \/ UNCHANGED <<gw, watch, course>>
               PROVE  HostIInv'
  <2>0. env \in Files /\ helper.cur \in Files
    BY <1>0 DEF HostTyping, HelperRec
  <2>1. CASE Candidate
    <3>1. /\ helper.pc = "taken" /\ UNCHANGED <<env, gw, course, watch>>
          /\ \/ helper' = [helper EXCEPT !.pc = "kept", !.cur = env]
             \/ helper' = [helper EXCEPT !.pc = "answer", !.state = "refused"]
      BY <2>1 DEF Candidate, Answer
    <3>2. CASE helper' = [helper EXCEPT !.pc = "kept", !.cur = env]
      <4>1. helper' \in HelperRec /\ helper'.id = helper.id /\ helper'.pc = "kept" /\ helper'.cur = env
        BY <1>0, <2>0, <3>2 DEF HelperRec, HelperStages
      <4>2. Serving => Serving'
        BY <1>0, <3>1, <4>1 DEF Serving, history
      <4> QED BY <2>0, <3>1, <4>1, <4>2
    <3>3. CASE helper' = [helper EXCEPT !.pc = "answer", !.state = "refused"]
      <4>1. helper' \in HelperRec /\ helper'.id = helper.id /\ helper'.pc = "answer"
        BY <1>0, <3>3 DEF HelperRec, HelperStages, Outcomes
      <4>2. Serving => Serving'
        BY <1>0, <3>1, <4>1 DEF Serving, history
      <4> QED BY <2>0, <3>1, <4>1, <4>2
    <3> QED BY <3>1, <3>2, <3>3
  <2>2. CASE RestartNew
    <3>1. /\ helper.pc = "renamed" /\ env' = env
          /\ \/ ProcessEnds("starting") /\ helper' = [helper EXCEPT !.pc = "waiting"]
             \/ helper' = [helper EXCEPT !.pc = "lost"] /\ UNCHANGED <<gw, watch, course>>
      BY <2>2 DEF RestartNew, At
    <3>2. helper' \in HelperRec /\ helper'.id = helper.id /\ helper'.pc \in {"waiting", "lost"} /\ helper'.cur = helper.cur
      BY <1>0, <3>1 DEF HelperRec, HelperStages
    <3>3. helper'.pc = "waiting" => gw'.pc = "starting"
      BY <1>0, <3>1 DEF ProcessEnds, HelperRec, HelperStages
    <3>4. Serving => Serving'
      BY <1>0, <3>1, <3>2, <3>3 DEF Serving, history
    <3> QED BY <2>0, <3>1, <3>2, <3>4
  <2>3. CASE Health
    <3>1. helper.pc = "waiting" /\ gw.pc = "up" /\ UNCHANGED <<env, gw, course, watch>> /\ helper' = [helper EXCEPT !.pc = "answer", !.state = "applied"]
      BY <2>3 DEF Health, Answer
    <3>2. helper' \in HelperRec /\ helper'.id = helper.id /\ helper'.pc = "answer"
      BY <1>0, <3>1 DEF HelperRec, HelperStages, Outcomes
    <3>3. Serving => Serving'
      BY <1>0, <3>1, <3>2 DEF Serving, history
    <3> QED BY <2>0, <3>1, <3>2, <3>3
  <2>4. CASE HealthTimeout
    <3>1. helper.pc = "waiting" /\ UNCHANGED <<env, gw, course, watch>> /\ helper' = [helper EXCEPT !.pc = "lost"]
      BY <2>4 DEF HealthTimeout, At
    <3>2. helper' \in HelperRec /\ helper'.id = helper.id /\ helper'.pc = "lost" /\ helper'.cur = helper.cur
      BY <1>0, <3>1 DEF HelperRec, HelperStages
    <3>3. Serving => Serving'
      BY <1>0, <3>1, <3>2 DEF Serving, history
    <3> QED BY <2>0, <3>1, <3>2, <3>3
  <2>5. CASE PutBack
    <3>1. /\ helper.pc = "lost" /\ UNCHANGED <<gw, course, watch>>
          /\ \/ env' = helper.cur /\ helper' = [helper EXCEPT !.pc = "back"]
             \/ env' = env /\ helper' = [helper EXCEPT !.pc = "answer", !.state = "by_hand"]
      BY <2>5 DEF PutBack, At, Answer
    <3>2. /\ helper' \in HelperRec /\ helper'.id = helper.id
          /\ (helper'.pc = "back" /\ env' = helper.cur) \/ (helper'.pc = "answer" /\ helper'.state = "by_hand" /\ env' = env)
      BY <1>0, <3>1 DEF HelperRec, HelperStages, Outcomes
    <3>3. Serving => Serving'
      BY <1>0, <3>1, <3>2 DEF Serving, history
    <3> QED BY <2>0, <3>1, <3>2, <3>3
  <2>6. CASE RestartOld
    <3>1. /\ helper.pc = "back" /\ env' = env /\ helper' = [helper EXCEPT !.pc = "answer", !.state = "rolled_back"]
          /\ ProcessEnds("starting") \/ UNCHANGED <<gw, watch, course>>
      BY <2>6 DEF RestartOld, Answer
    <3>2. helper' \in HelperRec /\ helper'.id = helper.id /\ helper'.pc = "answer"
      BY <1>0, <3>1 DEF HelperRec, HelperStages, Outcomes
    <3>3. Serving => Serving'
      BY <1>0, <3>1, <3>2 DEF Serving, history
    <3> QED BY <2>0, <3>1, <3>2, <3>3
  <2> QED BY <2>1, <2>2, <2>3, <2>4, <2>5, <2>6
<1>3. gw' \in GatewayRec /\ watch' \subseteq Ids /\ CoursesGoOn /\ course' \in [Ids -> {"none", "waiting", "ending", "over"}]
  <2>1. CASE ProcessEnds("starting")
    BY <1>0, <2>1, EndsTyped
  <2>2. CASE UNCHANGED <<gw, watch, course>>
    BY <1>0, <2>2 DEF HostTyping, CoursesGoOn, BeforeHandOver
  <2> QED BY <1>2, <2>1, <2>2
<1>4. HostTyping'
  BY <1>0, <1>1, <1>2, <1>3 DEF HostTyping, history
<1> QED BY <1>0, <1>2, <1>3, <1>4, Onwards DEF history

\* The result is written and the helper ends.
LEMMA WriteResultKeeps == ASSUME HostIInv, WriteResult PROVE HostIInv'
<1>0. HostTyping /\ BeforeHandOver /\ HandedOver /\ InHand /\ AppliedOnce /\ (InForce => Serving) /\ helper \in HelperRec
  BY DEF HostIInv, HostTyping
<1>1. PICK i \in Ids, s \in Outcomes : i = helper.id /\ s = helper.state /\ outcome[i] = "none" /\ i \in 0 .. MaxRequests
  BY <1>0 DEF InHand, WriteResult, HelperRec
<1>2. /\ UNCHANGED <<host, env, requested, request, status, installer, gw, course, watch, failed, audited, losses, failures, written, served>>
      /\ helper.pc = "answer" /\ helper' = AtRest /\ outcome' = [outcome EXCEPT ![i] = s]
      /\ result' = [id |-> i, state |-> s, acked |-> FALSE]
  BY <1>1 DEF WriteResult
<1>3. result' \in ResultRec /\ result'.id = i
  BY <1>1, <1>2 DEF ResultRec
<1>4. outcome' \in [Ids -> Outcomes] /\ outcome'[i] = s /\ \A r \in Ids : r # i => outcome'[r] = outcome[r]
  BY <1>0, <1>2 DEF HostTyping
<1>5. HostTyping'
  BY <1>0, <1>2, <1>3, <1>4, HelperAtRest DEF HostTyping
<1>6. \A r \in Ids : r # 0 /\ (Untouched(r) => Untouched(r)')
  BY <1>1, <1>2, <1>4, HelperAtRest, HostAssumption DEF Untouched, Ids
<1>7. BeforeHandOver'
  BY <1>0, <1>2, <1>6 DEF BeforeHandOver
<1>8. HandedOver'
  <2>1. request["config"] # 0 => request["config"] \in Ids
    BY <1>0, HostAssumption DEF HostTyping, Ids
  <2> QED BY <1>0, <1>1, <1>2, <1>4, <2>1, HelperAtRest DEF HandedOver, Untouched
<1>9. InHand' /\ AppliedOnce'
  BY <1>0, <1>2, HelperAtRest DEF InHand, AppliedOnce
<1>10. InForce' => InForce /\ s # "by_hand"
  BY <1>1, <1>2, <1>4 DEF InForce, Verb
<1>11. InForce' => Serving'
  BY <1>0, <1>1, <1>2, <1>10, HelperAtRest DEF Serving
<1> QED BY <1>5, <1>7, <1>8, <1>9, <1>11 DEF HostIInv

\* The host invariant holds at the start.
LEMMA HostStart == HostInit => HostIInv
<1> SUFFICES ASSUME HostInit PROVE HostIInv
  OBVIOUS
<1>1. env \in Files /\ served = {env}
  BY DEF HostInit, Files
<1>2. NoResult \in ResultRec /\ NoResult.acked /\ NoStatus \in StatusRec
  BY HelperAtRest DEF NoResult, NoStatus, ResultRec, StatusRec, Outcomes
<1>i. /\ requested = <<>> /\ request = [f \in {"config", "update"} |-> 0] /\ result = NoResult /\ status = NoStatus
      /\ helper = AtRest /\ installer = 0 /\ course = [r \in Ids |-> "none"] /\ watch = {} /\ failed = {} /\ audited = {}
      /\ losses = 0 /\ failures = 0 /\ written = [r \in Ids |-> 0] /\ outcome = [r \in Ids |-> "none"]
      /\ host \in [loads : BOOLEAN, held : BOOLEAN, units : BOOLEAN]
  BY DEF HostInit
<1>3. requested = <<>> /\ requested \in Seq(RequestedRec) /\ Len(requested) = 0
  BY <1>i
<1>4. gw = [pc |-> "up", drain |-> 0]
  BY DEF HostInit
<1>5. gw \in GatewayRec
  BY <1>4, HelperAtRest DEF GatewayRec
<1>6. losses \in 0 .. MaxLosses /\ failures \in 0 .. MaxFailures /\ losses = 0 /\ installer \in 0 .. MaxRequests /\ 0 <= MaxRequests
  BY <1>i, HostAssumption
<1>7. written \in [Ids -> 0 .. 2] /\ outcome \in [Ids -> Outcomes] /\ course \in [Ids -> {"none", "waiting", "ending", "over"}]
  BY <1>i DEF Outcomes
<1>8. request \in [{"config", "update"} -> 0 .. MaxRequests] /\ request["config"] = 0
  BY <1>i, HelperAtRest
<1>9. HostTyping
  BY <1>1, <1>2, <1>3, <1>5, <1>6, <1>7, <1>8, <1>i, HelperAtRest DEF HostTyping
<1>10. \A r \in Ids : r # 0 /\ written[r] = 0 /\ outcome[r] = "none" /\ course[r] = "none" /\ helper = AtRest
  BY <1>i, HostAssumption DEF Ids
<1>11. BeforeHandOver /\ HandedOver
  BY <1>8, <1>10, HelperAtRest DEF BeforeHandOver, HandedOver, Untouched
<1>12. helper = AtRest
  BY <1>i
<1>13. InHand /\ AppliedOnce /\ Serving
  BY <1>1, <1>10, <1>12, HelperAtRest DEF InHand, AppliedOnce, Serving
<1> QED BY <1>9, <1>11, <1>13 DEF HostIInv

\* Every step keeps the host invariant.
LEMMA HostStep == HostIInv /\ [HostNext]_hostVars => HostIInv'
<1> SUFFICES ASSUME HostIInv, [HostNext]_hostVars PROVE HostIInv'
  OBVIOUS
<1>1. CASE Gateway
  <2>1. ASSUME NEW change \in Changes, BootChange(change) PROVE HostIInv'
    BY <2>1, RestartThenKeeps DEF BootChange, RestartThen
  <2>2. ASSUME NEW verb \in Verbs, HostAction(verb) PROVE HostIInv'
    BY <2>2, RestartThenKeeps DEF HostAction
  <2>3. CASE InstallUpdate \/ RestartVerb
    BY <2>3, RestartThenKeeps DEF InstallUpdate, RestartVerb, RestartThen
  <2> QED BY <1>1, <2>1, <2>2, <2>3, DrainKeeps, HandConfigKeeps, ActKeeps, StartKeepsHost DEF Gateway
<1>2. CASE Helpers
  BY <1>2, TakeKeeps, ReplaceKeeps, HelperKeeps, WriteResultKeeps, StartKeepsHost DEF Helpers
<1>3. CASE StartAgain \/ PowerLoss
  BY <1>3, StartKeepsHost, PowerLossKeeps
<1>4. CASE UNCHANGED hostVars
  BY <1>4 DEF hostVars, HostIInv, HostTyping, BeforeHandOver, HandedOver, InHand, Untouched, AppliedOnce, InForce, Serving, Verb
<1> QED BY <1>1, <1>2, <1>3, <1>4 DEF HostNext

\* An action on the host (internal/lifecycle, cmd/zanskar/config.go) replaces the environment
\* file at most once for a request, whatever fails or loses power, and a helper that ran to its
\* end leaves a file a gateway has listened with, for any number of requests and failures.
THEOREM HostStaysSound == HostSpec => []HostSound
<1>1. HostIInv => HostSound
  <2> SUFFICES ASSUME HostIInv PROVE HostSound
    OBVIOUS
  <2>1. HostTypeOK
    BY DEF HostIInv, HostTyping, HostTypeOK, RequestedRec, ResultRec, StatusRec, HelperRec, GatewayRec
  <2>2. LeavesServing
    BY DEF HostIInv, LeavesServing, InForce, Serving
  <2> QED BY <2>1, <2>2 DEF HostSound, HostIInv
<1> QED BY <1>1, HostStart, HostStep, PTL DEF HostSpec
=============================================================================
