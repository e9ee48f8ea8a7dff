----------------------------- MODULE MCSession ------------------------------
(***************************************************************************)
(* Session for TLC.  A behaviour has one desktop session, which meets      *)
(* crashes, faults and two calls of administrators; or two terminal        *)
(* sessions beside each other with one call and no fault; or a terminal    *)
(* session that runs and is failed over to another with one call and a     *)
(* fault.                                                                  *)
(***************************************************************************)
EXTENDS Session, TLC

Terminals == Sessions \ Desktops

\* Sessions nobody will run any more (their tickets were never redeemed), and
\* sessions that run.
Begin(spent, live) ==
    /\ run = [s \in Sessions |-> IF s \in spent THEN "gone" ELSE IF s \in live THEN "live" ELSE "none"]
    /\ row = [s \in Sessions |-> IF s \in live THEN "open" ELSE "none"]
    /\ rec = [s \in Sessions |-> IF s \in live THEN "open" ELSE "none"]
    /\ registry = live

MCInit ==
    /\ \/ Begin(Terminals, {}) /\ crashes = 0 /\ faults = 0 /\ calls = 0
       \/ Begin(Desktops, {}) /\ crashes = MaxCrashes /\ faults = MaxFaults /\ calls = MaxCalls - 1
       \/ /\ \E s \in Terminals : Begin(Desktops, {s})
          /\ crashes = MaxCrashes /\ faults = 0 /\ calls = MaxCalls - 1
    /\ from = [s \in Sessions |-> None]
    /\ why = [s \in Sessions |-> "error"]
    /\ starting = {} /\ cause = [s \in Sessions |-> "none"]
    /\ said = {} /\ lost = {} /\ allowed = TRUE
    /\ api = [p \in Procs |-> Idle] /\ sweep = SweepIdle
    /\ escaped = {} /\ stranded = {}

MCSpec == MCInit /\ [][Next]_vars

\* The terminal sessions are alike, and so are the administrators' calls.
Symmetry == Permutations(Procs) \cup Permutations(Terminals)
=============================================================================
