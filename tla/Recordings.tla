---------------------------- MODULE Recordings ----------------------------
(***************************************************************************)
(* Where recordings are kept and for how long: the backend an              *)
(* administrator chooses (internal/recstorage), the router every session   *)
(* records through (internal/recording), the move of local recordings to a *)
(* bucket, the retention sweep and the command index (internal/session).   *)
(*                                                                         *)
(* The move, the sweep, the indexer and each session run are goroutines of *)
(* one process; they meet only at the recordings table and at the files.   *)
(* A step is one statement on the table or one operation on a store.       *)
(* Every call on a store may fail; a crash loses what is in memory and in  *)
(* the spool.                                                              *)
(***************************************************************************)
EXTENDS Integers, FiniteSets

CONSTANTS
    Recs,        \* recordings, in the order of their ids
    Buckets,
    NoBucket,
    EnvBucket,   \* ZANSKAR_RECORDINGS_S3_*, or NoBucket
    Blank,       \* desktop recordings that draw no frame
    OwnDays,     \* retention a session's policy or target may fix, in days; 0: none
    MaxDay,      \* bound: days that pass
    MaxCrash,    \* bound: crashes
    MaxReads     \* bound: passes of the indexer

ASSUME RecAssumption ==
    /\ Recs \subseteq Nat /\ IsFiniteSet(Recs) /\ Blank \subseteq Recs
    /\ NoBucket \notin Buckets /\ "local" \notin Buckets /\ EnvBucket \in Buckets \cup {NoBucket}
    /\ OwnDays \subseteq Nat /\ MaxDay \in Nat /\ MaxCrash \in Nat /\ MaxReads \in Nat

VARIABLES
    conf,     \* recording_storage: the console's bucket, or NoBucket
    s3,       \* Router.s3: the active bucket, NoBucket for the local directory
    change,   \* an administrator's Apply or Reset under way
    row,      \* recordings
    stage,    \* where the session that makes the recording is
    blob,     \* <<recording, place>> a store holds
    keep,     \* retention_policy
    day,
    sweep,    \* RetentionSweeper.Sweep
    move,     \* Manager.run
    index,    \* CommandIndexer.Pass
    reads,    \* passes so far
    crashes,
    selected, \* recordings a sweep chose under a policy of its time
    strays    \* copies a failed delete or a crash left without a row

recVars == <<conf, s3, change, row, stage, blob, keep, day, sweep, move, index, reads, crashes, selected, strays>>

Local == "local"
Places == Buckets \cup {Local}
NoRow == [at |-> Local, there |-> FALSE, finished |-> FALSE, on |-> 0, until |-> 0, purged |-> FALSE, discarded |-> FALSE,
          indexed |-> FALSE, commands |-> FALSE]
SweepIdle == [pc |-> "idle", todo |-> {}, rec |-> 0, at |-> Local]
MoveIdle == [pc |-> "idle", to |-> NoBucket, batch |-> {}, after |-> -1, rec |-> 0]
IndexIdle == [pc |-> "idle", todo |-> {}, rec |-> 0, read |-> FALSE]
ChangeIdle == [pc |-> "idle", to |-> NoBucket]

RecTypeOK ==
    /\ conf \in Buckets \cup {NoBucket} /\ s3 \in Buckets \cup {NoBucket}
    /\ change \in [pc : {"idle", "probed", "stored", "cleared"}, to : Buckets \cup {NoBucket}]
    /\ row \in [Recs -> [at : Places, there : BOOLEAN, finished : BOOLEAN, on : 0 .. MaxDay, until : Nat,
                         purged : BOOLEAN, discarded : BOOLEAN, indexed : BOOLEAN, commands : BOOLEAN]]
    /\ stage \in [Recs -> [pc : {"none", "recording", "closed", "blank", "cleared", "died", "over"}, at : Places]]
    /\ blob \subseteq Recs \X Places /\ strays \subseteq Recs \X Places
    /\ keep \in [age : Nat, cap : Nat] /\ day \in 0 .. MaxDay
    /\ sweep \in [pc : {"idle", "each", "mark", "forget"}, todo : SUBSET (Recs \X Places), rec : Recs \cup {0}, at : Places]
    /\ move \in [pc : {"idle", "list", "each", "copy", "switch", "drop", "undo"}, to : Buckets \cup {NoBucket},
                 batch : SUBSET Recs, after : Recs \cup {-1}, rec : Recs \cup {0}]
    /\ index \in [pc : {"idle", "each", "store"}, todo : SUBSET (Recs \X Places), rec : Recs \cup {0}, read : BOOLEAN]
    /\ selected \subseteq Recs

RecInit ==
    /\ conf \in Buckets \cup {NoBucket}
    /\ s3 = IF conf # NoBucket THEN conf ELSE EnvBucket
    /\ change = ChangeIdle
    /\ row = [r \in Recs |-> NoRow]
    /\ stage = [r \in Recs |-> [pc |-> "none", at |-> Local]]
    /\ blob = {} /\ strays = {} /\ selected = {}
    /\ keep \in [age : {0, 1}, cap : {0, 1}]
    /\ day = 0 /\ reads = 0 /\ crashes = 0
    /\ sweep = SweepIdle /\ move = MoveIdle /\ index = IndexIdle

-----------------------------------------------------------------------------
(* Router and stores.                                                      *)

\* Router.Open and Delete by the URI; S3Storage serves its own bucket only.
Reachable(p) == p = Local \/ p = s3
\* Router.Create.
CreateAt == IF s3 # NoBucket THEN s3 ELSE Local
Kept(r) == row[r].there /\ row[r].finished /\ ~row[r].purged

-----------------------------------------------------------------------------
(* Manager: the backend.                                                   *)

changeOnly == UNCHANGED <<row, stage, blob, keep, day, sweep, move, index, reads, crashes, selected, strays>>

\* Apply: valid, built, and an object written, read back and deleted with it.
ApplyProbe(b) ==
    /\ change.pc = "idle" /\ change' = [pc |-> "probed", to |-> b]
    /\ UNCHANGED <<conf, s3>> /\ changeOnly
\* Repo.Put, which may fail.
ApplyPut ==
    /\ change.pc = "probed"
    /\ \/ conf' = change.to /\ change' = [change EXCEPT !.pc = "stored"]
       \/ conf' = conf /\ change' = ChangeIdle
    /\ UNCHANGED s3 /\ changeOnly
\* set: the router serves it from the next recording on.
ApplySet ==
    /\ change.pc = "stored"
    /\ s3' = change.to /\ change' = ChangeIdle
    /\ UNCHANGED conf /\ changeOnly
\* Reset builds the environment's bucket, then deletes the row.
ResetDelete ==
    /\ change.pc = "idle" /\ conf # NoBucket
    /\ conf' = NoBucket /\ change' = [pc |-> "cleared", to |-> EnvBucket]
    /\ UNCHANGED s3 /\ changeOnly
ResetSet ==
    /\ change.pc = "cleared"
    /\ s3' = change.to /\ change' = ChangeIdle
    /\ UNCHANGED conf /\ changeOnly

-----------------------------------------------------------------------------
(* A session's recording (connect/run.go).                                 *)

runOnly == UNCHANGED <<conf, s3, change, keep, day, sweep, move, index, reads, crashes, selected>>

\* NewAsciicast or NewGuacStream, then register with the retention its policy fixed.
Start(r) ==
    /\ stage[r].pc = "none"
    /\ \E own \in OwnDays :
          row' = [row EXCEPT ![r] = [NoRow EXCEPT !.at = CreateAt, !.there = TRUE, !.until = IF own = 0 THEN 0 ELSE day + own]]
    /\ blob' = IF s3 = NoBucket THEN blob \cup {<<r, Local>>} ELSE blob
    /\ stage' = [stage EXCEPT ![r] = [pc |-> "recording", at |-> CreateAt]]
    /\ UNCHANGED strays /\ runOnly
\* finishRecording: Close, which uploads a spool with the backend the recording
\* was opened with; a failed close leaves the row unfinished.
CloseRecording(r) ==
    /\ stage[r].pc = "recording"
    /\ \/ blob' = blob \cup {<<r, row[r].at>>} /\ stage' = [stage EXCEPT ![r].pc = "closed"]
       \/ blob' = blob /\ stage' = [stage EXCEPT ![r].pc = "over"]
    /\ UNCHANGED <<row, strays>> /\ runOnly
\* FinishRecording; after it a desktop that drew nothing is discarded.
FinishRecording(r) ==
    /\ stage[r].pc = "closed"
    /\ \/ row' = [row EXCEPT ![r].finished = TRUE, ![r].on = day]
       \/ row' = row
    /\ stage' = [stage EXCEPT ![r].pc = IF r \in Blank THEN "blank" ELSE "over"]
    /\ UNCHANGED <<blob, strays>> /\ runOnly
\* discardIfBlank deletes the file at the URI the run started with.
DiscardDelete(r) ==
    /\ stage[r].pc = "blank"
    /\ \/ /\ Reachable(stage[r].at)
          /\ blob' = blob \ {<<r, stage[r].at>>}
          /\ stage' = [stage EXCEPT ![r].pc = "cleared"]
       \/ blob' = blob /\ stage' = [stage EXCEPT ![r].pc = "over"]
    /\ UNCHANGED <<row, strays>> /\ runOnly
\* DiscardRecording, which may fail.
DiscardRecording(r) ==
    /\ stage[r].pc = "cleared"
    /\ \/ row[r].purged /\ row' = row
       \/ ~row[r].purged /\ row' = [row EXCEPT ![r].purged = TRUE, ![r].discarded = TRUE]
       \/ row' = row
    /\ stage' = [stage EXCEPT ![r].pc = "over"]
    /\ UNCHANGED <<blob, strays>> /\ runOnly
\* Sweeper.finishRecording: a row its session left unfinished is measured from
\* what storage holds; a blob that cannot be read is lost and stays unfinished.
SweepFinish(r) ==
    /\ stage[r].pc \in {"died", "over"} /\ row[r].there /\ ~row[r].finished /\ ~row[r].purged
    /\ Reachable(row[r].at) /\ <<r, row[r].at>> \in blob
    /\ row' = [row EXCEPT ![r].finished = TRUE, ![r].on = day]
    /\ UNCHANGED <<stage, blob, strays>> /\ runOnly

-----------------------------------------------------------------------------
(* RetentionSweeper.                                                       *)

\* setRetention.
SetRetentionPolicy(p) ==
    /\ p # keep /\ keep' = p
    /\ UNCHANGED <<conf, s3, change, row, stage, blob, day, sweep, move, index, reads, crashes, selected, strays>>
DayPasses ==
    /\ day < MaxDay /\ day' = day + 1
    /\ UNCHANGED <<conf, s3, change, row, stage, blob, keep, sweep, move, index, reads, crashes, selected, strays>>

\* selectForPurge: a recording's own date, else the policy's age; then the
\* oldest of the rest, as many as the cap is exceeded by (each of size 1).
Aged(r) == IF row[r].until # 0 THEN day > row[r].until ELSE keep.age > 0 /\ row[r].on < day - keep.age
selectForPurge(cands) ==
    LET aged == {r \in cands : Aged(r)}
        rest == cands \ aged
        over == IF keep.cap > 0 /\ Cardinality(rest) > keep.cap THEN Cardinality(rest) - keep.cap ELSE 0
    IN  {aged \cup old : old \in {o \in SUBSET rest : /\ Cardinality(o) = over
                                                     /\ \A r \in o, q \in rest \ o : row[r].on <= row[q].on}}

sweepOnly == UNCHANGED <<conf, s3, change, stage, keep, day, move, index, reads, crashes>>

\* Sweep: the policy and listPurgeCandidates.  A sweep with nothing to do is no step.
SweepList ==
    /\ sweep.pc = "idle"
    /\ \E due \in selectForPurge({r \in Recs : Kept(r)}) :
          /\ due # {}
          /\ sweep' = [SweepIdle EXCEPT !.pc = "each", !.todo = {<<r, row[r].at>> : r \in due}]
          /\ selected' = selected \cup due
    /\ UNCHANGED <<row, blob, strays>> /\ sweepOnly
\* Storage.Delete; a failure leaves the row for the next sweep.
SweepDelete(c) ==
    /\ sweep.pc = "each" /\ c \in sweep.todo
    /\ \/ /\ Reachable(c[2])
          /\ blob' = blob \ {c} /\ strays' = strays \ {c}
          /\ sweep' = [sweep EXCEPT !.pc = "mark", !.todo = @ \ {c}, !.rec = c[1], !.at = c[2]]
       \/ /\ sweep' = [sweep EXCEPT !.todo = @ \ {c}]
          /\ UNCHANGED <<blob, strays>>
    /\ UNCHANGED <<row, selected>> /\ sweepOnly
\* Mutant: the row is marked whatever it names now (B17).
markRecordingPurgedMut(r, uri) ==
    /\ ~row[r].purged
    /\ row' = [row EXCEPT ![r].purged = TRUE]
\* markRecordingPurged: only while the row names the copy that was deleted.
markRecordingPurged(r, uri) ==
    /\ row[r].at = uri /\ ~row[r].purged
    /\ row' = [row EXCEPT ![r].purged = TRUE]
SweepMark ==
    /\ sweep.pc = "mark"
    /\ \/ /\ markRecordingPurged(sweep.rec, sweep.at)
          /\ sweep' = [sweep EXCEPT !.pc = "forget"]
       \/ row' = row /\ sweep' = [sweep EXCEPT !.pc = "each"]
    /\ UNCHANGED <<blob, strays, selected>> /\ sweepOnly
\* forgetCommands, which may fail.
SweepForget ==
    /\ sweep.pc = "forget"
    /\ \/ row' = [row EXCEPT ![sweep.rec].commands = FALSE]
       \/ row' = row
    /\ sweep' = [sweep EXCEPT !.pc = "each"]
    /\ UNCHANGED <<blob, strays, selected>> /\ sweepOnly
SweepEnd ==
    /\ sweep.pc = "each" /\ sweep.todo = {}
    /\ sweep' = SweepIdle
    /\ UNCHANGED <<row, blob, strays, selected>> /\ sweepOnly

-----------------------------------------------------------------------------
(* Manager: the move of local recordings to the bucket.                    *)

moveOnly == UNCHANGED <<conf, s3, change, stage, keep, day, sweep, index, reads, crashes, selected>>

\* StartMove: one at a time, to the bucket active now.
StartMove ==
    /\ move.pc = "idle" /\ s3 # NoBucket
    /\ \E r \in Recs : Kept(r) /\ row[r].at = Local
    /\ move' = [MoveIdle EXCEPT !.pc = "list", !.to = s3]
    /\ UNCHANGED <<row, blob, strays>> /\ moveOnly
\* ListRecordingsByURIPrefix: the next batch after the last one; none is the end.
MoveList ==
    /\ move.pc = "list"
    /\ LET batch == {r \in Recs : Kept(r) /\ row[r].at = Local /\ r > move.after}
       IN  move' = IF batch = {} THEN MoveIdle ELSE [move EXCEPT !.pc = "each", !.batch = batch]
    /\ UNCHANGED <<row, blob, strays>> /\ moveOnly
\* moveOne opens the local file, which a sweep may have deleted since.
MoveOpen ==
    /\ move.pc = "each"
    /\ \E r \in move.batch :
          /\ \A q \in move.batch : r <= q
          /\ move' = [move EXCEPT !.batch = @ \ {r}, !.after = r, !.rec = r,
                                  !.pc = IF <<r, Local>> \in blob THEN "copy" ELSE "each"]
    /\ UNCHANGED <<row, blob, strays>> /\ moveOnly
\* Mutant: the local file goes once it is copied, before the row is switched.
MoveCopyMut ==
    /\ move.pc = "copy"
    /\ \/ /\ blob' = (blob \cup {<<move.rec, move.to>>}) \ {<<move.rec, Local>>}
          /\ move' = [move EXCEPT !.pc = "switch"]
       \/ blob' = blob /\ move' = [move EXCEPT !.pc = "each"]
    /\ UNCHANGED <<row, strays>> /\ moveOnly
\* The copy: an open file is read to its end though it be deleted meanwhile.  A
\* failed upload leaves nothing; a copy whose digest differs is deleted.
MoveCopy ==
    /\ move.pc = "copy"
    /\ \/ /\ blob' = blob \cup {<<move.rec, move.to>>}
          /\ move' = [move EXCEPT !.pc = "switch"]
       \/ blob' = blob /\ move' = [move EXCEPT !.pc = "each"]
    /\ UNCHANGED <<row, strays>> /\ moveOnly
DigestDiffers ==
    /\ move.pc = "switch"
    /\ move' = [move EXCEPT !.pc = "undo"]
    /\ UNCHANGED <<row, blob, strays>> /\ moveOnly
\* Mutant: the row is switched though a purge marked it meanwhile.
UpdateRecordingURIMut(r, from, to) ==
    /\ row[r].at = from
    /\ row' = [row EXCEPT ![r].at = to]
\* UpdateRecordingURI: only a row that still names the file that was copied.
UpdateRecordingURI(r, from, to) ==
    /\ row[r].at = from /\ ~row[r].purged
    /\ row' = [row EXCEPT ![r].at = to]
MoveSwitch ==
    /\ move.pc = "switch"
    /\ \/ /\ UpdateRecordingURI(move.rec, Local, move.to)
          /\ move' = [move EXCEPT !.pc = "drop"]
       \/ row' = row /\ move' = [move EXCEPT !.pc = "undo"]
    /\ UNCHANGED <<blob, strays>> /\ moveOnly
\* A copy no row was switched to is deleted again.
MoveUndo ==
    /\ move.pc = "undo"
    /\ \/ blob' = blob \ {<<move.rec, move.to>>} /\ strays' = strays
       \/ blob' = blob /\ strays' = strays \cup {<<move.rec, move.to>>}
    /\ move' = [move EXCEPT !.pc = "each"]
    /\ UNCHANGED row /\ moveOnly
\* The local file goes last; one that cannot be removed is logged and left.
MoveDrop ==
    /\ move.pc = "drop"
    /\ \/ blob' = blob \ {<<move.rec, Local>>} /\ strays' = strays
       \/ blob' = blob /\ strays' = strays \cup ({<<move.rec, Local>>} \cap blob)
    /\ move' = [move EXCEPT !.pc = "each"]
    /\ UNCHANGED row /\ moveOnly
MoveBatchEnd ==
    /\ move.pc = "each" /\ move.batch = {}
    /\ move' = [move EXCEPT !.pc = "list"]
    /\ UNCHANGED <<row, blob, strays>> /\ moveOnly

-----------------------------------------------------------------------------
(* CommandIndexer.                                                         *)

indexOnly == UNCHANGED <<conf, s3, change, stage, blob, keep, day, sweep, move, crashes, selected, strays>>

\* unindexedCasts.
IndexList ==
    /\ index.pc = "idle" /\ reads < MaxReads
    /\ LET todo == {r \in Recs \ Blank : Kept(r) /\ ~row[r].indexed}
       IN  /\ todo # {}
           /\ index' = [IndexIdle EXCEPT !.pc = "each", !.todo = {<<r, row[r].at>> : r \in todo}]
    /\ reads' = reads + 1
    /\ UNCHANGED row /\ indexOnly
\* Storage.Open and recording.Index; a file that cannot be read counts as empty.
IndexRead(c) ==
    /\ index.pc = "each" /\ c \in index.todo
    /\ \E read \in {Reachable(c[2]) /\ c \in blob, FALSE} :
          index' = [index EXCEPT !.pc = "store", !.todo = @ \ {c}, !.rec = c[1], !.read = read]
    /\ UNCHANGED <<row, reads>> /\ indexOnly
\* IndexCommands (and IndexOutput); a failure ends the pass.
IndexStore ==
    /\ index.pc = "store"
    /\ \/ /\ row' = [row EXCEPT ![index.rec].indexed = TRUE, ![index.rec].commands = index.read]
          /\ index' = [index EXCEPT !.pc = "each"]
       \/ row' = row /\ index' = IndexIdle
    /\ UNCHANGED reads /\ indexOnly
IndexEnd ==
    /\ index.pc = "each" /\ index.todo = {}
    /\ index' = IndexIdle
    /\ UNCHANGED <<row, reads>> /\ indexOnly

-----------------------------------------------------------------------------
\* The process dies and starts again: Load takes the console's row, else the
\* environment's.  A local file keeps what was written; a spool is never uploaded.
Crash ==
    /\ crashes < MaxCrash /\ crashes' = crashes + 1
    /\ s3' = IF conf # NoBucket THEN conf ELSE EnvBucket
    /\ change' = ChangeIdle /\ sweep' = SweepIdle /\ move' = MoveIdle /\ index' = IndexIdle
    /\ stage' = [r \in Recs |-> IF stage[r].pc \in {"none", "over"} THEN stage[r] ELSE [stage[r] EXCEPT !.pc = "died"]]
    /\ strays' = strays \cup (IF move.pc \in {"switch", "undo"} THEN {<<move.rec, move.to>>}
                              ELSE IF move.pc = "drop" THEN {<<move.rec, Local>>} \cap blob ELSE {})
    /\ UNCHANGED <<conf, row, blob, keep, day, reads, selected>>

BackendNext == (\E b \in Buckets : ApplyProbe(b)) \/ ApplyPut \/ ApplySet \/ ResetDelete \/ ResetSet
RunNext ==
    \E r \in Recs : Start(r) \/ CloseRecording(r) \/ FinishRecording(r) \/ DiscardDelete(r) \/ DiscardRecording(r) \/ SweepFinish(r)
SweepNext ==
    \/ \E p \in [age : {0, 1}, cap : {0, 1}] : SetRetentionPolicy(p)
    \/ SweepList \/ SweepMark \/ SweepForget \/ SweepEnd \/ DayPasses
    \/ \E c \in sweep.todo : SweepDelete(c)
MoveNext ==
    \/ StartMove \/ MoveList \/ MoveOpen \/ MoveCopy \/ DigestDiffers
    \/ MoveSwitch \/ MoveUndo \/ MoveDrop \/ MoveBatchEnd
IndexNext == IndexList \/ IndexStore \/ IndexEnd \/ (\E c \in index.todo : IndexRead(c))
RecNext == BackendNext \/ RunNext \/ SweepNext \/ MoveNext \/ IndexNext \/ Crash
RecSpec == RecInit /\ [][RecNext]_recVars

-----------------------------------------------------------------------------
(* Properties.                                                             *)

\* A finished recording that no sweep ever chose and no run discards has its file
\* where its row says, whatever the move was doing when it failed or crashed.
KeptUntilDue ==
    \A r \in Recs \ (selected \cup Blank) : Kept(r) => <<r, row[r].at>> \in blob

\* Retention leaves nothing behind: of a recording it marked purged no copy is in
\* any store, but the one the move is about to delete again and those whose delete
\* failed or was cut by a crash (markRecordingPurged and UpdateRecordingURI each
\* refuse a row the other has changed).
PurgedLeavesNothing ==
    \A r \in Recs, p \in Places :
       (row[r].purged /\ ~row[r].discarded /\ <<r, p>> \in blob \ strays)
          => move.rec = r /\ move.pc \in {"switch", "undo", "drop"}

\* Recordings under moves, sweeps, changes of bucket and crashes (retention.go,
\* recstorage.go): kept and findable until due, and nothing left once purged.
RecordingsKept == RecTypeOK /\ KeptUntilDue /\ PurgedLeavesNothing
=============================================================================
