----------------------------- MODULE MCAuditLog -----------------------------
(* AuditLog for TLC, with what it promises: EventLog. *)
EXTENDS AuditLog

\* The position of id i among the ids I, and the events of the rows of R whose
\* ids are in I, oldest first.
Rank(I, i) == Cardinality({j \in I : j <= i})
InOrder(R, I) == [n \in 1..Cardinality(I) |-> (CHOOSE r \in R : r.id \in I /\ Rank(I, r.id) = n).ev]

Promise == INSTANCE EventLog WITH
               log <- InOrder(rows, Ids(rows)),
               received <- [s \in Sinks |-> InOrder(rows, got[s])]

\* The log implements an append-only sequence of which each sink receives a
\* beginning, in order, until it has all of it: no event is inserted before
\* another, none is delivered out of turn and none stays behind for ever
\* (Log.Record, Exporter.Flush and Run).
KeepsPromise == Promise!Spec
=============================================================================
