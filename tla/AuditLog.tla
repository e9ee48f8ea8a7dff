------------------------------ MODULE AuditLog ------------------------------
(***************************************************************************)
(* The audit log (internal/audit): writers link events into a hash chain,  *)
(* one at a time, and the exporter ships the events to its sinks, at least *)
(* once, from a checkpoint it stores.                                      *)
(*                                                                         *)
(* A hash is modelled by what it stands for: the sequence of the events it *)
(* covers, its own last (two hashes are equal only if what they cover is). *)
(* Log.mu and, between processes, the advisory lock or the database's own  *)
(* write lock are one lock.  Deleting or editing rows outside the gateway, *)
(* anchors, verification and resealing are not part of this module.        *)
(***************************************************************************)
EXTENDS Naturals, Sequences, FiniteSets

CONSTANTS
    Writers,    \* calls of Record in flight at once, of any process
    Events,     \* what an event says
    Sinks,      \* the exporter's sinks
    None,       \* no writer, no event, no sink
    BatchSize,  \* Exporter.BatchSize
    MaxId,      \* bound: ids handed out
    MaxCrashes, \* bound: crashes and restarts
    MaxFaults   \* bound: failed statements, commits and deliveries

ASSUME AuditAssumption ==
    /\ None \notin Writers
    /\ None \notin Events
    /\ None \notin Sinks
    /\ BatchSize \in Nat \ {0}
    /\ MaxId \in Nat
    /\ MaxCrashes \in Nat
    /\ MaxFaults \in Nat

VARIABLES
    driver,     \* the database: sqlite or postgres
    rows,       \* committed rows of audit_events
    high,       \* the id sequence
    lock,       \* who holds the writers' lock
    writer,     \* per writer: its step, its event, the hash it read, its id
    checkpoint, \* per sink: audit_export_state.last_id
    exp,        \* the exporter's goroutine
    got,        \* per sink: ids of the events it has accepted (syslog: taken by its connection)
    crashes, faults

table == <<driver, rows, high>>
export == <<checkpoint, exp, got>>
vars == <<table, lock, writer, export, crashes, faults>>

Hash == Seq(Events)
GenesisHash == <<>>
Row == [id : Nat, ev : Events, prev : Hash, hash : Hash]

Idle == [pc |-> "idle", ev |-> None, prev |-> GenesisHash, id |-> 0]
ExpIdle == [pc |-> "idle", sink |-> None, last |-> 0, batch |-> {}]

TypeOK ==
    /\ driver \in {"sqlite", "postgres"}
    /\ rows \in SUBSET Row
    /\ high \in Nat
    /\ lock \in Writers \cup {None}
    /\ writer \in [Writers -> [pc : {"idle", "linked", "inserted"}, ev : Events \cup {None},
                               prev : Hash, id : Nat]]
    /\ checkpoint \in [Sinks -> Nat]
    /\ exp \in [pc : {"idle", "list", "send", "save"}, sink : Sinks \cup {None},
                last : Nat, batch : SUBSET Row]
    /\ got \in [Sinks -> SUBSET Nat]
    /\ crashes \in Nat
    /\ faults \in Nat

Init ==
    /\ driver \in {"sqlite", "postgres"}
    /\ rows = {} /\ high = 0
    /\ lock = None
    /\ writer = [w \in Writers |-> Idle]
    /\ checkpoint = [s \in Sinks |-> 0]
    /\ exp = ExpIdle
    /\ got = [s \in Sinks |-> {}]
    /\ crashes = 0 /\ faults = 0

Fault == faults < MaxFaults /\ faults' = faults + 1

-----------------------------------------------------------------------------
(* Log.Record.                                                             *)

\* ORDER BY id DESC LIMIT 1: the hash of the newest row.
IsHead(h) ==
    \/ rows = {} /\ h = GenesisHash
    \/ \E r \in rows : h = r.hash /\ \A q \in rows : q.id <= r.id

RecordBeginMut(w, e) ==      \* mutant: neither the mutex nor the advisory lock
    /\ writer[w].pc = "idle"
    /\ lock' = w
    /\ \E h \in {GenesisHash} \cup {r.hash : r \in rows} :
           /\ IsHead(h)
           /\ writer' = [writer EXCEPT ![w] = [pc |-> "linked", ev |-> e, prev |-> h, id |-> 0]]
    /\ UNCHANGED <<table, export, crashes, faults>>

\* Locked, the head read and the event linked to it.
RecordBegin(w, e) ==
    /\ writer[w].pc = "idle"
    /\ lock = None
    /\ lock' = w
    /\ \E h \in {GenesisHash} \cup {r.hash : r \in rows} :
           /\ IsHead(h)
           /\ writer' = [writer EXCEPT ![w] = [pc |-> "linked", ev |-> e, prev |-> h, id |-> 0]]
    /\ UNCHANGED <<table, export, crashes, faults>>

\* The INSERT takes an id.  A PostgreSQL sequence keeps it whatever follows;
\* SQLite's is part of the transaction.
RecordInsert(w) ==
    /\ writer[w].pc = "linked"
    /\ high < MaxId
    /\ writer' = [writer EXCEPT ![w].pc = "inserted", ![w].id = high + 1]
    /\ high' = IF driver = "postgres" THEN high + 1 ELSE high
    /\ UNCHANGED <<driver, rows, lock, export, crashes, faults>>

LinkedBlank(v) == [id |-> v.id, ev |-> None, prev |-> v.prev, hash |-> Append(v.prev, None)]
                             \* mutant: linked and stored before the event is filled in

\* Link, ComputeHash.
Linked(v) == [id |-> v.id, ev |-> v.ev, prev |-> v.prev, hash |-> Append(v.prev, v.ev)]

RecordCommit(w) ==
    /\ writer[w].pc = "inserted"
    /\ rows' = rows \cup {Linked(writer[w])}
    /\ high' = IF driver = "postgres" THEN high ELSE writer[w].id
    /\ writer' = [writer EXCEPT ![w] = Idle]
    /\ lock' = None
    /\ UNCHANGED <<driver, export, crashes, faults>>

\* A statement or the commit fails: rolled back, unlocked, the event is not stored.
\* (A commit that took effect although its answer was lost is RecordCommit.)
RecordFail(w) ==
    /\ writer[w].pc # "idle"
    /\ Fault
    /\ writer' = [writer EXCEPT ![w] = Idle]
    /\ lock' = None
    /\ UNCHANGED <<table, export, crashes>>

-----------------------------------------------------------------------------
(* Exporter.Run and Flush, one sink after the other.                       *)

FlushStart(s) ==
    /\ exp.pc = "idle"
    /\ \E r \in rows : r.id > checkpoint[s]
    /\ exp' = [pc |-> "list", sink |-> s, last |-> checkpoint[s], batch |-> {}]
    /\ UNCHANGED <<table, lock, writer, checkpoint, got, crashes, faults>>

Later(n) == {r \in rows : r.id > n}
\* B is a beginning of A, in the order of ids.
Begins(B, A) == B \subseteq A /\ \A b \in B, a \in A : a.id < b.id => a \in B

ListAfterMut(n) == {B \in SUBSET Later(n) : Cardinality(B) <= BatchSize /\ (Later(n) # {} => B # {})}
                             \* mutant: without ORDER BY id

\* Log.ListAfter: ORDER BY id LIMIT size.
ListAfter(n) == {B \in SUBSET Later(n) : /\ Begins(B, Later(n))
                                         /\ Cardinality(B) <= BatchSize
                                         /\ Cardinality(B) < BatchSize => B = Later(n)}

FlushList ==
    /\ exp.pc = "list"
    /\ \E B \in ListAfter(exp.last) :
           exp' = IF B = {} THEN ExpIdle ELSE [exp EXCEPT !.pc = "send", !.batch = B]
    /\ UNCHANGED <<table, lock, writer, checkpoint, got, crashes, faults>>

Ids(B) == {r.id : r \in B}
Receive(B) == got' = [got EXCEPT ![exp.sink] = @ \cup Ids(B)]

\* Sink.Send accepts the batch.
FlushSend ==
    /\ exp.pc = "send"
    /\ Receive(exp.batch)
    /\ exp' = [exp EXCEPT !.pc = "save"]
    /\ UNCHANGED <<table, lock, writer, checkpoint, crashes, faults>>

\* It fails, although the sink may have all or a beginning of the batch; the
\* whole batch is sent again later.
FlushSendFails ==
    /\ exp.pc = "send"
    /\ Fault
    /\ \E B \in SUBSET exp.batch : Begins(B, exp.batch) /\ Receive(B)
    /\ exp' = ExpIdle
    /\ UNCHANGED <<table, lock, writer, checkpoint, crashes>>

FlushSaveNewest ==           \* mutant: the checkpoint is the newest event, not the batch's
    /\ exp.pc = "save"
    /\ \E r \in rows :
           /\ \A q \in rows : q.id <= r.id
           /\ checkpoint' = [checkpoint EXCEPT ![exp.sink] = r.id]
           /\ exp' = IF Cardinality(exp.batch) < BatchSize THEN ExpIdle
                     ELSE [exp EXCEPT !.pc = "list", !.last = r.id, !.batch = {}]
    /\ UNCHANGED <<table, lock, writer, got, crashes, faults>>

\* SaveExportCheckpoint; a full batch is followed by another.
FlushSave ==
    /\ exp.pc = "save"
    /\ \E r \in exp.batch :
           /\ \A q \in exp.batch : q.id <= r.id
           /\ checkpoint' = [checkpoint EXCEPT ![exp.sink] = r.id]
           /\ exp' = IF Cardinality(exp.batch) < BatchSize THEN ExpIdle
                     ELSE [exp EXCEPT !.pc = "list", !.last = r.id, !.batch = {}]
    /\ UNCHANGED <<table, lock, writer, got, crashes, faults>>

\* Reading the checkpoint or the events, or writing the checkpoint, fails.
FlushFails ==
    /\ exp.pc \in {"list", "save"}
    /\ Fault
    /\ exp' = ExpIdle
    /\ UNCHANGED <<table, lock, writer, checkpoint, got, crashes>>

-----------------------------------------------------------------------------
\* Transactions are rolled back and the exporter starts from its checkpoint.
Crash ==
    /\ crashes < MaxCrashes
    /\ crashes' = crashes + 1
    /\ writer' = [w \in Writers |-> Idle]
    /\ lock' = None
    /\ exp' = ExpIdle
    /\ UNCHANGED <<table, checkpoint, got, faults>>

Export == FlushList \/ FlushSend \/ FlushSendFails \/ FlushSave \/ FlushFails

Next ==
    \/ \E w \in Writers : \/ \E e \in Events : RecordBegin(w, e)
                          \/ RecordInsert(w) \/ RecordCommit(w) \/ RecordFail(w)
    \/ \E s \in Sinks : FlushStart(s)
    \/ Export
    \/ Crash

Spec == Init /\ [][Next]_vars

\* Exporter.Run goes through all its sinks every few seconds; a failed delivery
\* is tried again.
Fairness == WF_vars(Export) /\ \A s \in Sinks : SF_vars(FlushStart(s))
LiveSpec == Spec /\ Fairness

-----------------------------------------------------------------------------
(* Properties.                                                             *)

\* "So the chain can never fork" (Log.Record): in the order of their ids every
\* row links to the one before it, and the first to the genesis hash.
Follows(r) ==
    \/ r.prev = GenesisHash /\ \A q \in rows : r.id <= q.id
    \/ \E p \in rows : /\ p.id < r.id /\ r.prev = p.hash
                       /\ \A q \in rows : q.id < r.id => q.id <= p.id
ChainUnbroken ==
    \A r \in rows : Follows(r) /\ r.hash = Append(r.prev, r.ev)

\* A sink that has an event has every event before it, those that commit later
\* included: no crash, failed delivery or slow writer makes the exporter pass
\* over one (Flush "stops at the first failure so order is preserved").
NothingSkipped ==
    \A s \in Sinks, r \in rows : \A i \in got[s] : r.id < i => r.id \in got[s]

\* The log is one chain, and every sink has it without a gap (Log.Record, Flush).
LogKept == ChainUnbroken /\ NothingSkipped

\* The inductive invariant behind them.
OneWriter == \A w \in Writers : writer[w].pc # "idle" => lock = w
IdsAreUnique ==
    /\ \A r \in rows : 0 < r.id /\ r.id <= high
    /\ \A r, q \in rows : r.id = q.id => r = q
WriterIsNext ==
    \A w \in Writers : writer[w].pc # "idle" =>
        /\ IsHead(writer[w].prev)
        /\ writer[w].ev \in Events
        /\ writer[w].pc = "inserted" => 0 < writer[w].id /\ \A r \in rows : r.id < writer[w].id
        /\ writer[w].pc = "inserted" => writer[w].id = (IF driver = "postgres" THEN high ELSE high + 1)
\* n is no id, or that of a row, and sink s has every row up to it.
Reached(s, n) ==
    /\ n = 0 \/ \E r \in rows : r.id = n
    /\ \A r \in rows : r.id <= n => r.id \in got[s]
SinksHaveRows ==
    \A s \in Sinks : Reached(s, checkpoint[s]) /\ \A i \in got[s] : \E r \in rows : r.id = i
ExporterIsNext ==
    exp.pc # "idle" =>
        /\ exp.sink \in Sinks
        /\ Reached(exp.sink, exp.last)
        /\ Begins(exp.batch, Later(exp.last))
        /\ exp.pc = "save" => Ids(exp.batch) \subseteq got[exp.sink]
IInv ==
    /\ TypeOK /\ OneWriter /\ IdsAreUnique /\ WriterIsNext /\ SinksHaveRows /\ ExporterIsNext
    /\ ChainUnbroken /\ NothingSkipped

=============================================================================
