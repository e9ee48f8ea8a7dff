--------------------------- MODULE AuditLogProofs ---------------------------
(***************************************************************************)
(* Proofs about AuditLog, for any writers, events and sinks, any batch     *)
(* size and any number of crashes and failures: its type invariant, that   *)
(* the chain never forks, that the exporter passes over no event, and that *)
(* the log implements EventLog, its fairness aside.                        *)
(***************************************************************************)
EXTENDS MCAuditLog, FiniteSetTheorems, TLAPS

\* The inductive invariant holds of an empty log.
LEMMA InitIInv == Init => IInv
  BY AuditAssumption
  DEF Init, IInv, TypeOK, OneWriter, IdsAreUnique, WriterIsNext, SinksHaveRows, Reached,
      ExporterIsNext, ChainUnbroken, NothingSkipped, Idle, ExpIdle, Hash, GenesisHash, Row

\* What a writer in hand and the exporter's goroutine are.
WriterState == [pc : {"idle", "linked", "inserted"}, ev : Events \cup {None}, prev : Hash, id : Nat]
ExpState == [pc : {"idle", "list", "send", "save"}, sink : Sinks \cup {None}, last : Nat, batch : SUBSET Row]

\* The states in which they have nothing in hand are such states.
LEMMA IdleStates == Idle \in WriterState /\ ExpIdle \in ExpState /\ GenesisHash \in Hash
<1>1. <<>> \in Seq(Events)
  OBVIOUS
<1> QED BY <1>1 DEF Idle, ExpIdle, WriterState, ExpState, Hash, GenesisHash

\* The hash of the newest row, and of none, is a hash.
LEMMA HeadIsHash == ASSUME TypeOK, NEW h, h \in {GenesisHash} \cup {r.hash : r \in rows} PROVE h \in Hash
<1>1. \A r \in rows : r \in Row /\ r.hash \in Hash /\ r.id \in Nat
  BY DEF TypeOK, Row
<1> QED BY <1>1, IdleStates

\* Every step keeps the types, given that a writer has an event and the exporter
\* a sink in hand.
LEMMA TypeNext == IInv /\ [Next]_vars => TypeOK'
<1> SUFFICES ASSUME IInv, [Next]_vars PROVE TypeOK'
  OBVIOUS
<1> USE AuditAssumption DEF table, export
<1>a. /\ TypeOK
      /\ \A w \in Writers : writer[w] \in WriterState
      /\ writer \in [Writers -> WriterState]
      /\ exp \in ExpState
      /\ exp.pc # "idle" => exp.sink \in Sinks
  BY DEF IInv, TypeOK, ExporterIsNext, WriterState, ExpState
<1>b. \A r \in rows : r \in Row /\ r.id \in Nat
  BY <1>a DEF TypeOK, Row
<1>c. \A r \in exp.batch : r \in Row /\ r.id \in Nat
  BY <1>a DEF ExpState, Row
<1>w. ASSUME writer' \in [Writers -> WriterState], rows' \in SUBSET Row, high' \in Nat,
             lock' \in Writers \cup {None}, faults' \in Nat, UNCHANGED <<driver, export, crashes>>
      PROVE  TypeOK'
  BY <1>a, <1>w DEF TypeOK, WriterState
<1>e. ASSUME exp' \in ExpState, checkpoint' \in [Sinks -> Nat], got' \in [Sinks -> SUBSET Nat],
             faults' \in Nat, UNCHANGED <<table, lock, writer, crashes>>
      PROVE  TypeOK'
  BY <1>a, <1>e DEF TypeOK, ExpState
<1>1. ASSUME NEW w \in Writers, NEW e \in Events, RecordBegin(w, e) PROVE TypeOK'
  <2>1. PICK h \in {GenesisHash} \cup {r.hash : r \in rows} :
          writer' = [writer EXCEPT ![w] = [pc |-> "linked", ev |-> e, prev |-> h, id |-> 0]]
    BY <1>1 DEF RecordBegin
  <2>2. [pc |-> "linked", ev |-> e, prev |-> h, id |-> 0] \in WriterState
    BY <1>a, HeadIsHash DEF WriterState
  <2>3. writer' \in [Writers -> WriterState]
    BY <1>a, <2>1, <2>2
  <2> QED BY <1>1, <1>a, <1>w, <2>3 DEF RecordBegin, TypeOK
<1>2. ASSUME NEW w \in Writers, RecordInsert(w) PROVE TypeOK'
  <2>1. high \in Nat /\ high + 1 \in Nat
    BY <1>a DEF TypeOK
  <2>2. [writer[w] EXCEPT !.pc = "inserted", !.id = high + 1] \in WriterState
    BY <1>a, <2>1 DEF WriterState
  <2>3. writer' = [writer EXCEPT ![w] = [writer[w] EXCEPT !.pc = "inserted", !.id = high + 1]]
    BY <1>2, <1>a DEF RecordInsert
  <2>4. writer' \in [Writers -> WriterState]
    BY <1>a, <2>2, <2>3
  <2> QED BY <1>2, <1>a, <1>w, <2>1, <2>4 DEF RecordInsert, TypeOK
<1>3. ASSUME NEW w \in Writers, RecordCommit(w) PROVE TypeOK'
  <2>1. Linked(writer[w]) \in Row
    BY <1>3, <1>a DEF RecordCommit, IInv, WriterIsNext, Linked, Row, Hash, WriterState
  <2>2. writer' \in [Writers -> WriterState] /\ writer[w].id \in Nat
    BY <1>3, <1>a, IdleStates DEF RecordCommit, WriterState
  <2> QED BY <1>3, <1>a, <1>w, <2>1, <2>2 DEF RecordCommit, TypeOK
<1>4. ASSUME NEW w \in Writers, RecordFail(w) PROVE TypeOK'
  <2>2. writer' \in [Writers -> WriterState]
    BY <1>4, <1>a, IdleStates DEF RecordFail
  <2> QED BY <1>4, <1>a, <1>w, <2>2 DEF RecordFail, Fault, TypeOK
<1>5. ASSUME NEW s \in Sinks, FlushStart(s) PROVE TypeOK'
  BY <1>5, <1>a, <1>e DEF FlushStart, TypeOK, ExpState
<1>6. CASE FlushList
  <2>1. PICK B \in ListAfter(exp.last) :
          exp' = IF B = {} THEN ExpIdle ELSE [exp EXCEPT !.pc = "send", !.batch = B]
    BY <1>6, Zenon DEF FlushList
  <2>2. B \in SUBSET Row
    BY <2>1, <1>b DEF ListAfter, Later
  <2>3. [exp EXCEPT !.pc = "send", !.batch = B] \in ExpState
    BY <1>a, <2>2 DEF ExpState
  <2>4. exp' \in ExpState
    BY <2>1, <2>3, IdleStates
  <2> QED BY <1>6, <1>a, <1>e, <2>4 DEF FlushList, TypeOK
<1>r. ASSUME NEW B \in SUBSET exp.batch, exp.pc # "idle", Receive(B) PROVE got' \in [Sinks -> SUBSET Nat]
  <2>1. Ids(B) \in SUBSET Nat
    BY <1>c DEF Ids
  <2>2. exp.sink \in Sinks /\ got \in [Sinks -> SUBSET Nat]
    BY <1>r, <1>a DEF TypeOK
  <2> QED BY <1>r, <2>1, <2>2 DEF Receive
<1>7. CASE FlushSend
  <2>1. exp' \in ExpState
    BY <1>7, <1>a DEF FlushSend, ExpState
  <2>2. got' \in [Sinks -> SUBSET Nat]
    BY <1>7, <1>r DEF FlushSend
  <2> QED BY <1>7, <1>a, <1>e, <2>1, <2>2 DEF FlushSend, TypeOK
<1>8. CASE FlushSendFails
  <2>2. got' \in [Sinks -> SUBSET Nat]
    BY <1>8, <1>r DEF FlushSendFails
  <2> QED BY <1>8, <1>a, <1>e, <2>2, IdleStates DEF FlushSendFails, Fault, TypeOK
<1>9. CASE FlushSave
  <2>1. PICK r \in exp.batch :
          /\ checkpoint' = [checkpoint EXCEPT ![exp.sink] = r.id]
          /\ exp' = IF Cardinality(exp.batch) < BatchSize THEN ExpIdle
                    ELSE [exp EXCEPT !.pc = "list", !.last = r.id, !.batch = {}]
    BY <1>9, Zenon DEF FlushSave
  <2>2. [exp EXCEPT !.pc = "list", !.last = r.id, !.batch = {}] \in ExpState
    BY <1>a, <1>c DEF ExpState
  <2>3. exp' \in ExpState
    BY <2>1, <2>2, IdleStates
  <2>4. checkpoint' \in [Sinks -> Nat]
    BY <1>9, <1>a, <1>c, <2>1 DEF TypeOK
  <2> QED BY <1>9, <1>a, <1>e, <2>3, <2>4 DEF FlushSave, TypeOK
<1>10. CASE FlushFails
  BY <1>10, <1>a, <1>e, IdleStates DEF FlushFails, Fault, TypeOK
<1>11. CASE Crash
  <2>1. writer' \in [Writers -> WriterState] /\ exp' \in ExpState
    BY <1>11, IdleStates DEF Crash
  <2> QED BY <1>11, <1>a, <2>1 DEF Crash, TypeOK, WriterState, ExpState
<1>12. CASE UNCHANGED vars
  BY <1>12, <1>a DEF vars, TypeOK
<1> QED BY <1>1, <1>2, <1>3, <1>4, <1>5, <1>6, <1>7, <1>8, <1>9, <1>10, <1>11, <1>12
        DEF Next, Export

\* What the writers' side of the invariant says.
Written == OneWriter /\ IdsAreUnique /\ WriterIsNext /\ ChainUnbroken
\* And the exporter's.
Exported == SinksHaveRows /\ ExporterIsNext /\ NothingSkipped

\* Every step keeps the writers' side: under the lock nothing moves the head
\* between its reading and the commit.
LEMMA WrittenNext == IInv /\ [Next]_vars => Written'
<1> SUFFICES ASSUME IInv, [Next]_vars PROVE Written'
  OBVIOUS
<1> USE AuditAssumption DEF IInv, table, export
<1>0. TypeOK'
  BY TypeNext
<1>r. \A r \in rows : r.id \in Nat
  BY DEF TypeOK, Row
<1>1. ASSUME NEW w \in Writers, NEW e \in Events, RecordBegin(w, e) PROVE Written'
  <2>1. PICK h : /\ IsHead(h)
                 /\ writer' = [writer EXCEPT ![w] = [pc |-> "linked", ev |-> e, prev |-> h, id |-> 0]]
    BY <1>1, Zenon DEF RecordBegin
  <2>2. lock = None /\ lock' = w /\ UNCHANGED <<driver, rows, high>>
    BY <1>1 DEF RecordBegin
  <2>3. \A v \in Writers : v # w => writer[v].pc = "idle" /\ writer'[v] = writer[v]
    BY <2>1, <2>2 DEF OneWriter, TypeOK
  <2>4. writer'[w] = [pc |-> "linked", ev |-> e, prev |-> h, id |-> 0]
    BY <2>1 DEF TypeOK
  <2>5. OneWriter'
    BY <2>2, <2>3, <2>4 DEF OneWriter
  <2>6. IsHead(h)'
    BY <2>1, <2>2 DEF IsHead
  <2>7. WriterIsNext'
    BY <2>2, <2>3, <2>4, <2>6 DEF WriterIsNext
  <2> QED BY <2>2, <2>5, <2>7 DEF Written, IdsAreUnique, ChainUnbroken, Follows
<1>2. ASSUME NEW w \in Writers, RecordInsert(w) PROVE Written'
  <2>1. /\ writer[w].pc = "linked" /\ UNCHANGED <<driver, rows, lock>>
        /\ high' = IF driver = "postgres" THEN high + 1 ELSE high
        /\ high \in Nat
    BY <1>2 DEF RecordInsert, TypeOK
  <2>2. /\ \A v \in Writers : v # w => writer[v].pc = "idle" /\ writer'[v] = writer[v]
        /\ writer'[w] = [writer[w] EXCEPT !.pc = "inserted", !.id = high + 1]
    BY <1>2, <2>1 DEF RecordInsert, OneWriter, TypeOK
  <2>3. /\ writer'[w].pc = "inserted" /\ writer'[w].id = high + 1
        /\ writer'[w].prev = writer[w].prev /\ writer'[w].ev = writer[w].ev
    BY <2>2 DEF TypeOK
  <2>4. OneWriter'
    BY <2>1, <2>2 DEF OneWriter
  <2>5. IdsAreUnique'
    BY <2>1, <1>r DEF IdsAreUnique
  <2>6. IsHead(writer[w].prev) /\ writer[w].ev \in Events
    BY <2>1 DEF WriterIsNext
  <2>7. \A r \in rows : r.id < high + 1
    BY <2>1, <1>r DEF IdsAreUnique
  <2>8. WriterIsNext'
    <3>1. IsHead(writer[w].prev)'
      BY <2>1, <2>3, <2>6 DEF IsHead
    <3>2. writer'[w].ev \in Events
      BY <2>3, <2>6
    <3>3. 0 < writer'[w].id /\ \A r \in rows' : r.id < writer'[w].id
      BY <2>1, <2>3, <2>7
    <3>4. writer'[w].id = IF driver' = "postgres" THEN high' ELSE high' + 1
      BY <2>1, <2>3
    <3> QED BY <2>2, <3>1, <3>2, <3>3, <3>4 DEF WriterIsNext
  <2> QED BY <2>1, <2>4, <2>5, <2>8 DEF Written, ChainUnbroken, Follows
<1>3. ASSUME NEW w \in Writers, RecordCommit(w) PROVE Written'
  <2>1. PICK n : n = Linked(writer[w])
    BY Zenon
  <2>2. /\ rows' = rows \cup {n}
        /\ n.id = writer[w].id /\ n.ev = writer[w].ev /\ n.prev = writer[w].prev
        /\ n.hash = Append(n.prev, n.ev)
    BY <1>3, <2>1 DEF RecordCommit, Linked
  <2>3. \A r \in rows : r.id < n.id /\ r.id \in Nat
    BY <1>3, <2>2, <1>r DEF RecordCommit, WriterIsNext
  <2>4. IsHead(n.prev) /\ n.id \in Nat /\ n.id = high' /\ 0 < n.id
    BY <1>3, <2>2 DEF RecordCommit, WriterIsNext, TypeOK
  <2>5. OneWriter'
    BY <1>3 DEF RecordCommit, OneWriter, TypeOK, Idle
  <2>6. WriterIsNext'
    BY <1>3 DEF RecordCommit, OneWriter, WriterIsNext, TypeOK, Idle
  <2>7. IdsAreUnique'
    BY <2>2, <2>3, <2>4 DEF IdsAreUnique
  <2>8. Follows(n)'
    <3>1. CASE rows = {} /\ n.prev = GenesisHash
      BY <2>2, <2>4, <3>1 DEF Follows
    <3>2. CASE \E r \in rows : n.prev = r.hash /\ \A q \in rows : q.id <= r.id
      BY <2>2, <2>3, <2>4, <3>2 DEF Follows
    <3> QED BY <2>4, <3>1, <3>2 DEF IsHead
  <2>9. ASSUME NEW r \in rows PROVE Follows(r)'
    <3>1. CASE r.prev = GenesisHash /\ \A q \in rows : r.id <= q.id
      BY <2>2, <2>3, <2>4, <3>1 DEF Follows
    <3>2. CASE \E p \in rows : /\ p.id < r.id /\ r.prev = p.hash
                                /\ \A q \in rows : q.id < r.id => q.id <= p.id
      BY <2>2, <2>3, <2>4, <3>2 DEF Follows
    <3> QED BY <3>1, <3>2 DEF ChainUnbroken, Follows
  <2>10. ChainUnbroken'
    BY <2>2, <2>8, <2>9 DEF ChainUnbroken
  <2> QED BY <2>5, <2>6, <2>7, <2>10 DEF Written
<1>4. ASSUME NEW w \in Writers, RecordFail(w) PROVE Written'
  BY <1>4 DEF RecordFail, TypeOK, Written, OneWriter, IdsAreUnique, WriterIsNext, ChainUnbroken,
       Follows, IsHead, Idle
<1>5. ASSUME UNCHANGED <<table, lock, writer>> PROVE Written'
  BY <1>5 DEF Written, OneWriter, IdsAreUnique, WriterIsNext, ChainUnbroken, Follows, IsHead
<1>6. CASE Crash
  BY <1>6 DEF Crash, Written, OneWriter, IdsAreUnique, WriterIsNext, ChainUnbroken, Follows, Idle
<1> QED BY <1>1, <1>2, <1>3, <1>4, <1>5, <1>6
        DEF Next, Export, FlushStart, FlushList, FlushSend, FlushSendFails, FlushSave, FlushFails, vars

\* Every step keeps the exporter's side: a row that commits has an id beyond all
\* that any sink has reached.
LEMMA ExportedNext == IInv /\ [Next]_vars => Exported'
<1> SUFFICES ASSUME IInv, [Next]_vars PROVE Exported'
  OBVIOUS
<1> USE AuditAssumption DEF IInv, table, export
<1>1. ASSUME NEW w \in Writers, RecordCommit(w) PROVE Exported'
  <2>0. PICK n : n = Linked(writer[w])
    BY Zenon
  <2>1. /\ rows' = rows \cup {n}
        /\ n.id = writer[w].id
    BY <1>1, <2>0 DEF RecordCommit, Linked
  <2>2. n.id \in Nat /\ \A r \in rows : r.id < n.id /\ r.id \in Nat
    BY <1>1, <2>1 DEF RecordCommit, WriterIsNext, TypeOK, Row
  <2>3. UNCHANGED export
    BY <1>1 DEF RecordCommit
  <2>4. n.id > 0
    BY <1>1, <2>1 DEF RecordCommit, WriterIsNext, TypeOK
  <2>5. ASSUME NEW s \in Sinks, NEW k \in Nat, Reached(s, k) PROVE Reached(s, k)' /\ k < n.id
    BY <2>1, <2>2, <2>3, <2>4, <2>5 DEF Reached, TypeOK
  <2>6. SinksHaveRows'
    BY <2>1, <2>3, <2>5 DEF SinksHaveRows, TypeOK
  <2>7. ExporterIsNext'
    BY <2>1, <2>2, <2>3, <2>5 DEF ExporterIsNext, Begins, Later, TypeOK, Ids
  <2>8. NothingSkipped'
    BY <2>1, <2>2, <2>3 DEF NothingSkipped, SinksHaveRows, TypeOK
  <2> QED BY <2>6, <2>7, <2>8 DEF Exported
<1>2. ASSUME NEW s \in Sinks, FlushStart(s) PROVE Exported'
  BY <1>2 DEF FlushStart, TypeOK, Exported, SinksHaveRows, Reached, ExporterIsNext, NothingSkipped,
       Begins, Later, Ids
<1>3. CASE FlushList
  <2>1. SinksHaveRows' /\ NothingSkipped'
    BY <1>3 DEF FlushList, SinksHaveRows, Reached, NothingSkipped
  <2>2. ExporterIsNext'
    BY <1>3 DEF FlushList, ListAfter, ExporterIsNext, Reached, Begins, Later, ExpIdle, TypeOK
  <2> QED BY <2>1, <2>2 DEF Exported
<1>4. ASSUME NEW B \in SUBSET exp.batch, exp.pc = "send", Begins(B, exp.batch), Receive(B),
             UNCHANGED <<rows, checkpoint>>
      PROVE  SinksHaveRows' /\ NothingSkipped'
  <2>1. /\ exp.sink \in Sinks /\ exp.batch \subseteq rows
        /\ got' = [got EXCEPT ![exp.sink] = got[exp.sink] \cup Ids(B)]
        /\ got \in [Sinks -> SUBSET Nat]
        /\ \A r \in rows : r.id \in Nat
    BY <1>4 DEF ExporterIsNext, Begins, Later, Receive, TypeOK, Row
  <2>2. SinksHaveRows'
    BY <1>4, <2>1 DEF SinksHaveRows, Reached, Ids
  <2>3. ASSUME NEW r \in rows, NEW b \in B, r.id < b.id PROVE r.id \in got'[exp.sink]
    <3>1. CASE r.id <= exp.last
      BY <1>4, <2>1, <3>1 DEF ExporterIsNext, Reached
    <3>2. CASE r.id > exp.last
      BY <1>4, <2>1, <2>3, <3>2 DEF ExporterIsNext, Begins, Later, Ids
    <3> QED BY <3>1, <3>2, <2>1 DEF TypeOK
  <2>4. NothingSkipped'
    BY <1>4, <2>1, <2>3, ZenonT(40) DEF NothingSkipped, Ids
  <2> QED BY <2>2, <2>4
<1>5. CASE FlushSend
  <2>1. Begins(exp.batch, exp.batch)
    BY DEF Begins
  <2>2. SinksHaveRows' /\ NothingSkipped'
    BY <1>4, <1>5, <2>1 DEF FlushSend
  <2>3. ExporterIsNext'
    BY <1>5 DEF FlushSend, Receive, ExporterIsNext, Reached, Begins, Later, Ids, TypeOK
  <2> QED BY <2>2, <2>3 DEF Exported
<1>6. CASE FlushSendFails
  <2>1. SinksHaveRows' /\ NothingSkipped'
    BY <1>4, <1>6 DEF FlushSendFails
  <2> QED BY <1>6, <2>1 DEF FlushSendFails, Exported, ExporterIsNext, ExpIdle
<1>7. CASE FlushSave
  <2>1. PICK r \in exp.batch :
          /\ \A q \in exp.batch : q.id <= r.id
          /\ checkpoint' = [checkpoint EXCEPT ![exp.sink] = r.id]
          /\ exp' = IF Cardinality(exp.batch) < BatchSize THEN ExpIdle
                    ELSE [exp EXCEPT !.pc = "list", !.last = r.id, !.batch = {}]
    BY <1>7 DEF FlushSave
  <2>2. /\ exp.sink \in Sinks /\ exp.batch \subseteq rows /\ r \in rows
        /\ exp.last \in Nat /\ \A q \in rows : q.id \in Nat
        /\ UNCHANGED <<rows, got>>
    BY <1>7 DEF FlushSave, ExporterIsNext, Begins, Later, TypeOK, Row
  <2>3. Reached(exp.sink, r.id)
    <3>1. ASSUME NEW q \in rows, q.id <= r.id PROVE q.id \in got[exp.sink]
      <4>1. CASE q.id <= exp.last
        BY <1>7, <2>2, <4>1 DEF FlushSave, ExporterIsNext, Reached
      <4>2. CASE q.id > exp.last /\ q.id < r.id
        BY <1>7, <2>2, <4>2 DEF FlushSave, ExporterIsNext, Begins, Later, Ids
      <4>3. CASE q.id = r.id
        BY <1>7, <2>2, <4>3 DEF FlushSave, ExporterIsNext, Ids
      <4> QED BY <3>1, <2>2, <4>1, <4>2, <4>3
    <3> QED BY <2>2, <3>1 DEF Reached
  <2>4. SinksHaveRows'
    BY <2>1, <2>2, <2>3 DEF SinksHaveRows, Reached, TypeOK
  <2>5. ExporterIsNext'
    BY <2>1, <2>2, <2>3 DEF ExporterIsNext, Reached, Begins, ExpIdle, TypeOK
  <2>6. NothingSkipped'
    BY <2>2 DEF NothingSkipped
  <2> QED BY <2>4, <2>5, <2>6 DEF Exported
<1>8. ASSUME UNCHANGED <<rows, export>> PROVE Exported'
  BY <1>8 DEF Exported, SinksHaveRows, Reached, ExporterIsNext, NothingSkipped, Begins, Later
<1>9. ASSUME UNCHANGED <<rows, checkpoint, got>>, exp' = ExpIdle PROVE Exported'
  BY <1>9 DEF Exported, SinksHaveRows, Reached, ExporterIsNext, NothingSkipped, ExpIdle
<1> QED BY <1>1, <1>2, <1>3, <1>5, <1>6, <1>7, <1>8, <1>9
        DEF Next, Export, RecordBegin, RecordInsert, RecordFail, FlushFails, Crash, vars

\* The inductive invariant holds throughout.
LEMMA Inductive == Spec => []IInv
<1>1. IInv /\ [Next]_vars => IInv'
  BY TypeNext, WrittenNext, ExportedNext DEF IInv, Written, Exported
<1> QED BY InitIInv, <1>1, PTL DEF Spec

\* Rows, writers and exporter keep their types.
THEOREM Typing == Spec => []TypeOK
<1>1. IInv => TypeOK
  BY DEF IInv
<1> QED BY <1>1, Inductive, PTL

\* The chain never forks: every row links to the row before it in the order of
\* ids, whatever writers, failed transactions and crashes (Log.Record).
THEOREM NeverForks == Spec => []ChainUnbroken
<1>1. IInv => ChainUnbroken
  BY DEF IInv
<1> QED BY <1>1, Inductive, PTL

\* A sink that has an event has all events before it (Exporter.Flush).
THEOREM NeverSkips == Spec => []NothingSkipped
<1>1. IInv => NothingSkipped
  BY DEF IInv
<1> QED BY <1>1, Inductive, PTL

\* The log is one chain, and every sink has it without a gap (Log.Record, Flush).
THEOREM Kept == Spec => []LogKept
<1> QED BY NeverForks, NeverSkips, PTL DEF LogKept

-----------------------------------------------------------------------------
(* What a reader of the log sees: EventLog, through the positions of rows. *)

\* What the mapping needs of the rows: finitely many ids, one row each, and no
\* position without a row.
Ranked(R) ==
    /\ \A r \in R : r.id \in Nat
    /\ IsFiniteSet(Ids(R))
    /\ \A r, q \in R : r.id = q.id => r = q
    /\ \A n \in 1..Cardinality(Ids(R)) : \E r \in R : Rank(Ids(R), r.id) = n
Prefix(G, I) == G \subseteq I /\ \A g \in G, i \in I : i < g => i \in G

\* An id's position is a number that does not exceed how many there are.
LEMMA RankIs ==
  ASSUME NEW I \in SUBSET Nat, IsFiniteSet(I), NEW i \in I
  PROVE  Rank(I, i) \in 1..Cardinality(I)
<1> DEFINE S == {j \in I : j <= i}
<1>1. S \in SUBSET I /\ i \in S
  OBVIOUS
<1>2. IsFiniteSet(S) /\ Cardinality(S) <= Cardinality(I)
  BY <1>1, FS_Subset
<1>3. Cardinality(S) # 0
  BY <1>1, <1>2, FS_EmptySet
<1> QED BY <1>2, <1>3, FS_CardinalityType DEF Rank

\* A later id has a later position.
LEMMA RankGrows ==
  ASSUME NEW I \in SUBSET Nat, IsFiniteSet(I), NEW i \in I, NEW k \in I, i < k
  PROVE  Rank(I, i) < Rank(I, k)
<1> DEFINE S == {j \in I : j <= i}
           T == {j \in I : j <= k}
<1>0. i \in Nat /\ k \in Nat /\ \A j \in I : j \in Nat
  OBVIOUS
<1>1. T \in SUBSET I /\ S \in SUBSET T /\ k \in T /\ k \notin S
  <2>1. k \notin S /\ k \in T
    BY <1>0
  <2>2. ASSUME NEW j \in S PROVE j \in T
    BY <1>0
  <2> QED BY <2>1, <2>2
<1>2. IsFiniteSet(T)
  BY <1>1, FS_Subset
<1>3. IsFiniteSet(S) /\ Cardinality(S) <= Cardinality(T) /\ Cardinality(T) # Cardinality(S)
  BY <1>1, <1>2, FS_Subset
<1> QED BY <1>2, <1>3, FS_CardinalityType DEF Rank

\* The row at a position is the one the mapping chooses.
LEMMA Chosen ==
  ASSUME NEW R, Ranked(R), NEW I, I \subseteq Ids(R), NEW r \in R, r.id \in I
  PROVE  InOrder(R, I)[Rank(I, r.id)] = r.ev /\ Rank(I, r.id) \in 1..Cardinality(I)
<1> DEFINE n == Rank(I, r.id)
           P(q) == q \in R /\ q.id \in I /\ Rank(I, q.id) = n
<1>1. I \in SUBSET Nat /\ IsFiniteSet(I)
  BY FS_Subset DEF Ranked, Ids
<1>2. n \in 1..Cardinality(I)
  BY <1>1, RankIs
<1>3. ASSUME NEW q, P(q) PROVE q = r
  <2>1. q.id \in Nat /\ r.id \in Nat
    BY <1>3, <1>1
  <2>2. ~(q.id < r.id)
    <3> SUFFICES ASSUME q.id < r.id PROVE FALSE
      OBVIOUS
    <3>1. Rank(I, q.id) < Rank(I, r.id)
      BY <1>1, <1>3, RankGrows
    <3> QED BY <3>1, <1>2, <1>3
  <2>3. ~(r.id < q.id)
    <3> SUFFICES ASSUME r.id < q.id PROVE FALSE
      OBVIOUS
    <3>1. Rank(I, r.id) < Rank(I, q.id)
      BY <1>1, <1>3, RankGrows
    <3> QED BY <3>1, <1>2, <1>3
  <2> QED BY <1>3, <2>1, <2>2, <2>3 DEF Ranked
<1>4. (CHOOSE q \in R : q.id \in I /\ Rank(I, q.id) = n) = r
  <2>1. \E q \in R : q.id \in I /\ Rank(I, q.id) = n
    OBVIOUS
  <2> DEFINE c == CHOOSE q \in R : q.id \in I /\ Rank(I, q.id) = n
  <2>2. c \in R /\ c.id \in I /\ Rank(I, c.id) = n
    BY <2>1
  <2> QED BY <1>3, <2>2
<1> QED BY <1>2, <1>4 DEF InOrder

\* A beginning of the ids keeps their positions, and holds those up to its size.
LEMMA PrefixRanks ==
  ASSUME NEW R, Ranked(R), NEW G, Prefix(G, Ids(R))
  PROVE  /\ IsFiniteSet(G) /\ Cardinality(G) <= Cardinality(Ids(R))
         /\ Cardinality(G) \in Nat /\ Cardinality(Ids(R)) \in Nat
         /\ \A i \in G : Rank(G, i) = Rank(Ids(R), i)
         /\ \A n \in 1..Cardinality(G) :
                \E r \in R : r.id \in G /\ Rank(G, r.id) = n /\ Rank(Ids(R), r.id) = n
<1> DEFINE I == Ids(R)
<1>1. I \in SUBSET Nat /\ IsFiniteSet(I) /\ G \in SUBSET I
  BY DEF Ranked, Ids, Prefix
<1>2. IsFiniteSet(G) /\ Cardinality(G) <= Cardinality(I)
  BY <1>1, FS_Subset
<1>3. Cardinality(G) \in Nat /\ Cardinality(I) \in Nat
  BY <1>1, <1>2, FS_CardinalityType
<1>4. ASSUME NEW i \in G PROVE Rank(G, i) = Rank(I, i)
  <2>1. {j \in G : j <= i} = {j \in I : j <= i}
    BY <1>1 DEF Prefix
  <2> QED BY <2>1 DEF Rank
<1>5. ASSUME NEW n \in 1..Cardinality(G)
      PROVE  \E r \in R : r.id \in G /\ Rank(G, r.id) = n /\ Rank(I, r.id) = n
  <2>1. PICK r \in R : Rank(I, r.id) = n
    BY <1>2, <1>3 DEF Ranked
  <2>2. r.id \in I /\ r.id \in Nat
    BY DEF Ids, Ranked
  <2>3. r.id \in G
    <3> SUFFICES ASSUME r.id \notin G PROVE FALSE
      OBVIOUS
    <3> DEFINE S == {j \in I : j <= r.id}
    <3>1. G \cup {r.id} \in SUBSET S
      BY <1>1, <2>2 DEF Prefix
    <3>2. IsFiniteSet(S)
      BY <1>1, FS_Subset
    <3>3. Cardinality(G \cup {r.id}) = Cardinality(G) + 1
      BY <1>2, FS_AddElement
    <3>4. Cardinality(G \cup {r.id}) <= Cardinality(S)
      BY <3>1, <3>2, FS_Subset
    <3> QED BY <2>1, <3>3, <3>4, <1>3 DEF Rank
  <2> QED BY <2>1, <2>3, <1>4
<1> QED BY <1>2, <1>3, <1>4, <1>5

\* So a sink that has a beginning of the ids has received a beginning of the log.
LEMMA PrefixInOrder ==
  ASSUME NEW R, Ranked(R), NEW G, Prefix(G, Ids(R))
  PROVE  /\ InOrder(R, G) = SubSeq(InOrder(R, Ids(R)), 1, Cardinality(G))
         /\ Len(InOrder(R, G)) = Cardinality(G)
         /\ Len(InOrder(R, Ids(R))) = Cardinality(Ids(R))
<1> DEFINE I == Ids(R)
           L == InOrder(R, I)
<1>1. /\ Cardinality(G) \in Nat /\ Cardinality(I) \in Nat /\ Cardinality(G) <= Cardinality(I)
  BY PrefixRanks
<1>2. Len(L) = Cardinality(I) /\ DOMAIN L = 1..Cardinality(I)
  BY <1>1 DEF InOrder
<1>3. Len(InOrder(R, G)) = Cardinality(G) /\ DOMAIN InOrder(R, G) = 1..Cardinality(G)
  BY <1>1 DEF InOrder
<1>4. ASSUME NEW n \in 1..Cardinality(G) PROVE InOrder(R, G)[n] = L[n]
  <2>1. PICK r \in R : r.id \in G /\ Rank(G, r.id) = n /\ Rank(I, r.id) = n
    BY PrefixRanks
  <2>2. G \subseteq I
    BY DEF Prefix
  <2> QED BY <2>1, <2>2, Chosen
<1>5. SubSeq(L, 1, Cardinality(G)) = [n \in 1..Cardinality(G) |-> L[n]]
  BY <1>1, <1>2
<1>6. InOrder(R, G) = [n \in 1..Cardinality(G) |-> InOrder(R, G)[n]]
  BY <1>3 DEF InOrder
<1> QED BY <1>2, <1>3, <1>4, <1>5, <1>6

\* A row after all others comes last, and moves none of them.
LEMMA Appended ==
  ASSUME NEW R, Ranked(R), NEW x, x.id \in Nat, \A r \in R : r.id < x.id
  PROVE  /\ Ranked(R \cup {x})
         /\ InOrder(R \cup {x}, Ids(R \cup {x})) = Append(InOrder(R, Ids(R)), x.ev)
         /\ \A G : Prefix(G, Ids(R)) => InOrder(R \cup {x}, G) = InOrder(R, G)
<1> DEFINE I == Ids(R)
           Q == R \cup {x}
           J == Ids(Q)
<1>1. J = I \cup {x.id} /\ I \in SUBSET Nat /\ IsFiniteSet(I)
  BY DEF Ids, Ranked
<1>2. \A i \in I : i < x.id
  BY DEF Ids
<1>3. x.id \notin I
  BY <1>1, <1>2
<1>4. IsFiniteSet(J) /\ Cardinality(J) = Cardinality(I) + 1 /\ Cardinality(I) \in Nat
  <2>1. /\ IsFiniteSet(I \cup {x.id}) /\ Cardinality(I \cup {x.id}) = Cardinality(I) + 1
    BY <1>1, <1>3, FS_AddElement, Zenon
  <2> QED BY <2>1, <1>1, FS_CardinalityType, Zenon
<1>5. Rank(J, x.id) = Cardinality(J)
  <2>1. {j \in J : j <= x.id} = J
    <3>1. \A j \in I \cup {x.id} : j <= x.id
      BY <1>1, <1>2
    <3> QED BY <3>1, <1>1, Zenon
  <2> QED BY <2>1 DEF Rank
<1>6. ASSUME NEW i \in I PROVE Rank(J, i) = Rank(I, i)
  <2>1. {j \in J : j <= i} = {j \in I : j <= i}
    BY <1>1, <1>2
  <2> QED BY <2>1 DEF Rank
<1>7. Ranked(Q)
  <2>1. \A r \in Q : r.id \in Nat
    BY DEF Ranked
  <2>2. \A r, q \in Q : r.id = q.id => r = q
    BY <2>1 DEF Ranked
  <2>3. ASSUME NEW n \in 1..Cardinality(J) PROVE \E r \in Q : Rank(J, r.id) = n
    <3>1. CASE n = Cardinality(J)
      BY <3>1, <1>5
    <3>2. CASE n # Cardinality(J)
      <4>1. n \in 1..Cardinality(I)
        BY <3>2, <1>4
      <4>2. PICK r \in R : Rank(I, r.id) = n
        BY <4>1 DEF Ranked
      <4> QED BY <4>2, <1>6 DEF Ids
    <3> QED BY <3>1, <3>2
  <2> QED BY <2>1, <2>2, <2>3, <1>4 DEF Ranked
<1>9. ASSUME NEW G, Prefix(G, I) PROVE InOrder(Q, G) = InOrder(R, G)
  <2>1. ASSUME NEW n \in 1..Cardinality(G) PROVE InOrder(Q, G)[n] = InOrder(R, G)[n]
    <3>1. PICK r \in R : r.id \in G /\ Rank(G, r.id) = n
      BY <1>9, PrefixRanks
    <3>2. G \subseteq I /\ G \subseteq J /\ r \in Q
      BY <1>9, <1>1 DEF Prefix
    <3>3. InOrder(Q, G)[n] = r.ev
      BY <3>1, <3>2, <1>7, Chosen, Zenon
    <3>4. InOrder(R, G)[n] = r.ev
      BY <3>1, <3>2, Chosen, Zenon
    <3> QED BY <3>3, <3>4
  <2>2. /\ InOrder(Q, G) = [n \in 1..Cardinality(G) |-> InOrder(Q, G)[n]]
        /\ InOrder(R, G) = [n \in 1..Cardinality(G) |-> InOrder(R, G)[n]]
    BY DEF InOrder
  <2> QED BY <2>1, <2>2
<1>10. InOrder(Q, J) = Append(InOrder(R, I), x.ev)
  <2> DEFINE L == InOrder(R, I)
             K == InOrder(Q, J)
  <2>1. /\ K = [n \in 1..(Cardinality(I) + 1) |-> K[n]] /\ Len(L) = Cardinality(I)
        /\ L = [n \in 1..Cardinality(I) |-> L[n]]
    BY <1>4 DEF InOrder
  <2>2. K[Cardinality(I) + 1] = x.ev
    <3>1. J \subseteq J /\ x \in Q /\ x.id \in J
      BY <1>1
    <3>2. K[Rank(J, x.id)] = x.ev
      BY <3>1, <1>7, Chosen, Zenon
    <3> QED BY <3>2, <1>4, <1>5
  <2>3. ASSUME NEW n \in 1..Cardinality(I) PROVE K[n] = L[n]
    <3>1. PICK r \in R : Rank(I, r.id) = n
      BY <2>3 DEF Ranked
    <3>2. r.id \in I /\ r.id \in J /\ Rank(J, r.id) = n /\ r \in Q /\ I \subseteq I /\ J \subseteq J
      BY <3>1, <1>1, <1>6 DEF Ids
    <3>3. K[n] = r.ev
      BY <3>2, <1>7, Chosen, Zenon
    <3>4. L[Rank(I, r.id)] = r.ev
      BY <3>2, Chosen, Zenon
    <3> QED BY <3>1, <3>3, <3>4
  <2> DEFINE S == {L[n] : n \in 1..Cardinality(I)} \cup {x.ev}
  <2> HIDE DEF K, L
  <2>4. L \in Seq(S)
    BY <2>1, <1>4
  <2>5. Append(L, x.ev) = [n \in 1..(Cardinality(I) + 1) |-> IF n = Cardinality(I) + 1 THEN x.ev ELSE L[n]]
    BY <2>1, <2>4, <1>4
  <2>6. ASSUME NEW n \in 1..(Cardinality(I) + 1) PROVE K[n] = IF n = Cardinality(I) + 1 THEN x.ev ELSE L[n]
    BY <2>2, <2>3, <1>4
  <2>7. K = Append(L, x.ev)
    BY <2>1, <2>5, <2>6
  <2> QED BY <2>7 DEF K, L
<1> QED BY <1>7, <1>9, <1>10

\* Every step keeps a row at every position.
LEMMA RankedNext == IInv /\ Ranked(rows) /\ [Next]_vars => Ranked(rows)'
<1> SUFFICES ASSUME IInv, Ranked(rows), [Next]_vars PROVE Ranked(rows)'
  OBVIOUS
<1>1. ASSUME NEW w \in Writers, RecordCommit(w) PROVE Ranked(rows)'
  <2>1. Linked(writer[w]).id \in Nat /\ \A r \in rows : r.id < Linked(writer[w]).id
    BY <1>1 DEF IInv, TypeOK, WriterIsNext, RecordCommit, Linked
  <2>2. Ranked(rows \cup {Linked(writer[w])})
    BY <2>1, Appended, Zenon
  <2> QED BY <1>1, <2>2 DEF RecordCommit
<1>2. CASE UNCHANGED rows
  BY <1>2
<1> QED BY <1>1, <1>2 DEF Next, Export, RecordBegin, RecordInsert, RecordFail, FlushStart, FlushList, FlushSend,
        FlushSendFails, FlushSave, FlushFails, Crash, vars, table

\* A sink has a beginning of the ids.
LEMMA SinkPrefix == IInv => \A s \in Sinks : Prefix(got[s], Ids(rows))
  BY DEF IInv, NothingSkipped, SinksHaveRows, Prefix, Ids

\* A step of the writers, the exporter or a crash appends an event, delivers more of
\* the log to one sink, or changes nothing a reader of the log could see.
LEMMA StepsKeepPromise ==
  ASSUME IInv, IInv', Ranked(rows), Ranked(rows)', [Next]_vars
  PROVE  [Promise!Next]_(Promise!vars)
<1> DEFINE log == InOrder(rows, Ids(rows))
           received == [s \in Sinks |-> InOrder(rows, got[s])]
<1>1. ASSUME NEW w \in Writers, RecordCommit(w) PROVE Promise!Next
  <2> DEFINE x == Linked(writer[w])
  <2>1. x.id \in Nat /\ (\A r \in rows : r.id < x.id) /\ x.ev \in Events
    BY <1>1 DEF IInv, TypeOK, WriterIsNext, RecordCommit, Linked
  <2>2. rows' = rows \cup {x} /\ got' = got
    BY <1>1 DEF RecordCommit, export
  <2>3. /\ InOrder(rows \cup {x}, Ids(rows \cup {x})) = Append(log, x.ev)
        /\ \A G : Prefix(G, Ids(rows)) => InOrder(rows \cup {x}, G) = InOrder(rows, G)
    BY <2>1, Appended, Zenon
  <2>4. log' = Append(log, x.ev)
    BY <2>2, <2>3, Zenon
  <2>5. \A s \in Sinks : InOrder(rows', got'[s]) = InOrder(rows, got[s])
    BY <2>2, <2>3, SinkPrefix, Zenon
  <2>6. received' = received
    BY <2>5
  <2> QED BY <2>1, <2>4, <2>6 DEF Promise!Next, Promise!Record
<1>2. ASSUME UNCHANGED rows, exp.sink \in Sinks, NEW B \in SUBSET exp.batch, Receive(B)
      PROVE  Promise!Next \/ UNCHANGED Promise!vars
  <2> DEFINE s == exp.sink
             m == Cardinality(got[s])
             n == Cardinality(got'[s])
  <2>1. got' = [got EXCEPT ![s] = got'[s]] /\ got[s] \subseteq got'[s] /\ got \in [Sinks -> SUBSET Nat]
    BY <1>2 DEF Receive, IInv, TypeOK
  <2>2. Prefix(got[s], Ids(rows)) /\ Prefix(got'[s], Ids(rows))
    <3>1. Prefix(got[s], Ids(rows))
      BY <1>2, SinkPrefix
    <3>2. Prefix(got'[s], Ids(rows))
      BY <1>2 DEF IInv, NothingSkipped, SinksHaveRows, Prefix, Ids
    <3> QED BY <3>1, <3>2
  <2>3. log' = log
    BY <1>2
  <2>4. IsFiniteSet(got[s]) /\ IsFiniteSet(got'[s]) /\ m \in Nat /\ n \in Nat /\ n <= Cardinality(Ids(rows))
    BY <2>2, PrefixRanks
  <2>5. /\ InOrder(rows, got[s]) = SubSeq(log, 1, m) /\ Len(InOrder(rows, got[s])) = m
        /\ InOrder(rows, got'[s]) = SubSeq(log, 1, n)
        /\ Len(log) = Cardinality(Ids(rows))
    BY <2>2, PrefixInOrder
  <2>6. received' = [received EXCEPT ![s] = InOrder(rows, got'[s])]
    BY <1>2, <2>1
  <2>7. m <= n /\ (m = n => got'[s] = got[s])
    BY <2>1, <2>4, FS_Subset
  <2>8. CASE m = n
    <3>1. got' = got
      BY <2>1, <2>7, <2>8
    <3> QED BY <3>1, <1>2 DEF Promise!vars
  <2>9. CASE m # n
    <3>1. received[s] = InOrder(rows, got[s])
      BY <1>2
    <3>2. n \in (Len(received[s]) + 1)..Len(log)
      BY <3>1, <2>4, <2>5, <2>7, <2>9
    <3>3. received' = [received EXCEPT ![s] = SubSeq(log, 1, n)]
      BY <2>5, <2>6
    <3> QED BY <1>2, <2>3, <3>2, <3>3 DEF Promise!Next, Promise!Deliver
  <2> QED BY <2>8, <2>9
<1>3. CASE FlushSend
  <2>1. exp.sink \in Sinks /\ UNCHANGED rows /\ Receive(exp.batch) /\ exp.batch \in SUBSET exp.batch
    BY <1>3 DEF FlushSend, IInv, ExporterIsNext, table
  <2> QED BY <2>1, <1>2
<1>4. CASE FlushSendFails
  <2>1. exp.sink \in Sinks /\ UNCHANGED rows
    BY <1>4 DEF FlushSendFails, IInv, ExporterIsNext, table
  <2>2. PICK B \in SUBSET exp.batch : Receive(B)
    BY <1>4 DEF FlushSendFails
  <2> QED BY <2>1, <2>2, <1>2
<1>5. CASE UNCHANGED <<rows, got>>
  BY <1>5 DEF Promise!vars
<1> QED BY <1>1, <1>3, <1>4, <1>5 DEF Next, Export, RecordBegin, RecordInsert, RecordFail, FlushStart, FlushList,
        FlushSave, FlushFails, Crash, vars, table, export

\* The log with its writers, failed transactions, crashes and deliveries implements an
\* append-only sequence of which every sink receives a beginning that only grows, in
\* order and without a gap (Log.Record, Exporter.Flush).
THEOREM ImplementsEventLog == Spec => Promise!Safe
<1>1. Init => Promise!Init /\ Ranked(rows)
  <2> SUFFICES ASSUME Init PROVE Promise!Init /\ Ranked(rows)
    OBVIOUS
  <2>1. Ids(rows) = {} /\ rows = {} /\ \A s \in Sinks : got[s] = {}
    BY DEF Init, Ids
  <2>2. IsFiniteSet({}) /\ Cardinality({}) = 0
    BY FS_EmptySet
  <2>3. InOrder({}, {}) = <<>>
    BY <2>2 DEF InOrder
  <2>4. Ranked(rows)
    BY <2>1, <2>2 DEF Ranked
  <2> QED BY <2>1, <2>3, <2>4 DEF Promise!Init
<1>2. Spec => []IInv
  BY Inductive
<1>3. IInv /\ Ranked(rows) /\ [Next]_vars => Ranked(rows)'
  BY RankedNext
<1>4. IInv /\ IInv' /\ Ranked(rows) /\ Ranked(rows)' /\ [Next]_vars => [Promise!Next]_(Promise!vars)
  BY StepsKeepPromise
<1> QED BY <1>1, <1>2, <1>3, <1>4, PTL DEF Spec, Promise!Safe
=============================================================================
