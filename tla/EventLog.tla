------------------------------ MODULE EventLog ------------------------------
(***************************************************************************)
(* What the audit log promises (internal/audit), with no writers, no chain *)
(* and no exporter: events are appended and never change, and each sink    *)
(* has seen a beginning of the log, which grows until it is the whole.     *)
(***************************************************************************)
EXTENDS Naturals, Sequences

CONSTANTS Events, Sinks

VARIABLES
    log,      \* the events, oldest first
    received  \* per sink: what it has been sent, duplicates dropped

vars == <<log, received>>

Init ==
    /\ log = <<>>
    /\ received = [s \in Sinks |-> <<>>]

Record(e) ==
    /\ log' = Append(log, e)
    /\ UNCHANGED received

Deliver(s) ==
    /\ \E n \in (Len(received[s]) + 1)..Len(log) :
           received' = [received EXCEPT ![s] = SubSeq(log, 1, n)]
    /\ UNCHANGED log

Next == (\E e \in Events : Record(e)) \/ (\E s \in Sinks : Deliver(s))

Safe == Init /\ [][Next]_vars
Spec == Safe /\ \A s \in Sinks : WF_vars(Deliver(s))
=============================================================================
