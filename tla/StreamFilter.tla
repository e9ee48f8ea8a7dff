---------------------------- MODULE StreamFilter ----------------------------
(***************************************************************************)
(* The policy on a desktop's streams (guac/bridge.go): clipboard and files *)
(* travel as an opening instruction naming a stream index, then "blob"s    *)
(* and an "end" of that index.  Each direction of the relay has a filter,  *)
(* which remembers the index of every stream it refused.                   *)
(*                                                                         *)
(* The sender is guacd or the browser.  It may give an index to a new      *)
(* stream with no "end" of the one before; guacd does so when a stream is  *)
(* declined.                                                               *)
(***************************************************************************)
EXTENDS FiniteSets

CONSTANTS
    Indexes,     \* stream indexes
    Opening,     \* opcodes that open a stream
    Plain,       \* opcodes that open none
    Refused,     \* those the policy does not allow
    Idle         \* no stream

ASSUME FilterAssumption ==
    /\ Idle \notin Opening /\ Refused \subseteq Opening \cup Plain
    /\ "blob" \notin Opening \cup Plain /\ "end" \notin Opening \cup Plain

VARIABLES
    blocked,   \* streamFilter.blocked
    stream,    \* what the sender's index carries now
    opened,    \* what the receiver was told its index carries
    declined,  \* "ack"s the bridge answered guacd with: streams refused and not yet known to be
    last       \* the instruction just judged, and whether it was relayed

filterVars == <<blocked, stream, opened, declined, last>>

FilterTypeOK ==
    /\ blocked \subseteq Indexes /\ declined \subseteq Indexes
    /\ stream \in [Indexes -> Opening \cup {Idle}] /\ opened \in [Indexes -> Opening \cup {Idle}]
    /\ last \in [op : Opening \cup Plain \cup {"none", "blob", "end", "malformed"}, pass : BOOLEAN,
                 of : Opening \cup {Idle}]

FilterInit ==
    /\ blocked = {} /\ declined = {}
    /\ stream = [i \in Indexes |-> Idle] /\ opened = [i \in Indexes |-> Idle]
    /\ last = [op |-> "none", pass |-> TRUE, of |-> Idle]

allows(op) == op \notin Refused

\* Mutant: an index refused once stays blocked when another stream takes it.
FilterOpenMut(op, i) ==
    /\ last' = [op |-> op, pass |-> allows(op), of |-> op]
    /\ stream' = [stream EXCEPT ![i] = op]
    /\ IF allows(op)
       THEN opened' = [opened EXCEPT ![i] = op] /\ UNCHANGED <<blocked, declined>>
       ELSE blocked' = blocked \cup {i} /\ declined' = declined \cup {i} /\ UNCHANGED opened
\* check, an opening instruction: the index is in use again, whatever it was before.
\* A stream refused is declined towards the sender.
FilterOpen(op, i) ==
    /\ last' = [op |-> op, pass |-> allows(op), of |-> op]
    /\ stream' = [stream EXCEPT ![i] = op]
    /\ IF allows(op)
       THEN opened' = [opened EXCEPT ![i] = op] /\ blocked' = blocked \ {i} /\ UNCHANGED declined
       ELSE blocked' = blocked \cup {i} /\ declined' = declined \cup {i} /\ UNCHANGED opened
\* check, "blob" of a stream.
FilterBlob(i) ==
    /\ stream[i] # Idle
    /\ last' = [op |-> "blob", pass |-> i \notin blocked, of |-> stream[i]]
    /\ UNCHANGED <<blocked, stream, opened, declined>>
\* check, "end": the index is free again.
FilterEnd(i) ==
    /\ stream[i] # Idle
    /\ last' = [op |-> "end", pass |-> i \notin blocked, of |-> stream[i]]
    /\ stream' = [stream EXCEPT ![i] = Idle]
    /\ opened' = IF i \in blocked THEN opened ELSE [opened EXCEPT ![i] = Idle]
    /\ blocked' = blocked \ {i}
    /\ UNCHANGED declined
\* An instruction whose index is malformed is dropped, as is a message that is not
\* exactly one instruction.
FilterMalformed ==
    /\ last' = [op |-> "malformed", pass |-> FALSE, of |-> Idle]
    /\ UNCHANGED <<blocked, stream, opened, declined>>
\* An instruction that opens nothing is judged by its opcode alone.
FilterPlain(op) ==
    /\ last' = [op |-> op, pass |-> allows(op), of |-> Idle]
    /\ UNCHANGED <<blocked, stream, opened, declined>>
\* The sender hears that a stream was declined and frees the index with no "end".
Declined(i) ==
    /\ i \in declined /\ declined' = declined \ {i}
    /\ stream' = IF stream[i] \in Refused THEN [stream EXCEPT ![i] = Idle] ELSE stream
    /\ UNCHANGED <<blocked, opened, last>>

FilterNext ==
    \/ \E op \in Opening, i \in Indexes : FilterOpen(op, i)
    \/ \E i \in Indexes : FilterBlob(i) \/ FilterEnd(i) \/ Declined(i)
    \/ \E op \in Plain : FilterPlain(op)
    \/ FilterMalformed

FilterSpec == FilterInit /\ [][FilterNext]_filterVars

\* The data of a stream is relayed exactly when the policy allows the stream: none
\* of a refused clipboard or file passes, and none of the display that reuses a
\* refused stream's index is lost (streamFilter).
FilterExact == last.op \in {"blob", "end"} => (last.pass <=> allows(last.of))

\* The data of a desktop's stream passes (guac/bridge.go, streamFilter) exactly
\* when the policy allows the stream.
StreamsSound == FilterTypeOK /\ FilterExact
=============================================================================
