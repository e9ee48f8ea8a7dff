------------------------------ MODULE Session -------------------------------
(***************************************************************************)
(* The life of a session (internal/connect, internal/session,              *)
(* internal/gateway): a ticket is redeemed, the row is written, the target *)
(* is dialled, the recording is registered, the bridge joins the registry, *)
(* runs, and its end closes the recording, the row and the registry entry. *)
(* Meanwhile administrators terminate it or withdraw the access behind it, *)
(* the user fails it over to another instance, the sweep ends the rows     *)
(* nobody runs, and the process crashes and starts again.                  *)
(*                                                                         *)
(* A run is cut at every write to the database and at every access to the  *)
(* registry or to the set of starting sessions, the state others share.    *)
(* One user and one target: `allowed' is what the gate (access.Gate) would *)
(* answer now.                                                             *)
(***************************************************************************)
EXTENDS Naturals

CONSTANTS
    Sessions,   \* ids of access_sessions rows
    Desktops,   \* those drawn by guacd, whose recording counts its frames
    Procs,      \* API requests in flight at once
    None,       \* no session
    MaxCrashes, \* bound: crashes and restarts of the process
    MaxFaults,  \* bound: database writes that fail
    MaxCalls    \* bound: API requests made

ASSUME SessionAssumption ==
    /\ None \notin Sessions
    /\ Desktops \subseteq Sessions
    /\ MaxCrashes \in Nat
    /\ MaxFaults \in Nat
    /\ MaxCalls \in Nat

VARIABLES
    run,      \* per session: how far its handler is
    from,     \* per session: the session its ticket fails over from
    why,      \* per session: the reason its handler ends with
    row,      \* the row: none, open, open for longer than the grace, or why it ended
    rec,      \* its recording's row
    starting, \* Handler.starting
    registry, \* Registry.live
    cause,    \* per session: why its bridge's context was cancelled
    said,     \* sessions whose session.end was recorded
    lost,     \* sessions whose recording.lost was recorded
    allowed,  \* the gate admits the user
    api,      \* API requests in flight
    sweep,    \* the sweep of open rows
    escaped,  \* history: sessions being set up as a withdrawal listed the live ones,
              \* and live ones it could not check
    stranded, \* history: sessions whose closing was cut off after their row's end
    crashes, faults, calls

memory == <<run, from, why, starting, registry, cause, allowed, api, sweep>>
store == <<row, rec, said, lost>>
bounds == <<escaped, stranded, crashes, faults, calls>>
vars == <<memory, store, bounds>>

Phase == {"none", "ticket", "admitted", "setup", "recorded", "added", "live",
          "left", "closed", "ending", "saying", "leaving", "gone"}
Cause == {"none", "admin", "policy", "lost"}
Reason == {"exit", "error", "admin", "policy", "lost", "failover", "swept", "restart"}
ApiStep == {"idle", "terminate", "closerow", "list", "check", "cut",
            "failend", "failcut", "failissue"}
SweepStep == {"idle", "each", "ask", "end", "say"}

TypeOK ==
    /\ run \in [Sessions -> Phase]
    /\ from \in [Sessions -> Sessions \cup {None}]
    /\ why \in [Sessions -> Reason]
    /\ row \in [Sessions -> {"none", "open", "aged"} \cup Reason]
    /\ rec \in [Sessions -> {"none", "open", "finished", "discarded"}]
    /\ starting \in SUBSET Sessions
    /\ registry \in SUBSET Sessions
    /\ cause \in [Sessions -> Cause]
    /\ said \in SUBSET Sessions
    /\ lost \in SUBSET Sessions
    /\ allowed \in BOOLEAN
    /\ api \in [Procs -> [pc : ApiStep, ids : SUBSET Sessions]]
    /\ sweep \in [pc : SweepStep, todo : SUBSET Sessions, cur : Sessions \cup {None},
                  ended : SUBSET Sessions, why : {"swept", "restart"}]
    /\ escaped \in SUBSET Sessions
    /\ stranded \in SUBSET Sessions
    /\ crashes \in Nat
    /\ faults \in Nat
    /\ calls \in Nat

Idle == [pc |-> "idle", ids |-> {}]
SweepIdle == [pc |-> "idle", todo |-> {}, cur |-> None, ended |-> {}, why |-> "swept"]

Init ==
    /\ run = [s \in Sessions |-> "none"]
    /\ from = [s \in Sessions |-> None]
    /\ why = [s \in Sessions |-> "error"]
    /\ row = [s \in Sessions |-> "none"]
    /\ rec = [s \in Sessions |-> "none"]
    /\ starting = {} /\ registry = {}
    /\ cause = [s \in Sessions |-> "none"]
    /\ said = {} /\ lost = {}
    /\ allowed = TRUE
    /\ api = [p \in Procs |-> Idle]
    /\ sweep = SweepIdle
    /\ escaped = {} /\ stranded = {}
    /\ crashes = 0 /\ faults = 0 /\ calls = 0

\* The process serves once Sweeper.Startup has returned.
Up == sweep.why = "restart" => sweep.pc = "idle"

-----------------------------------------------------------------------------
(* The statements and registry calls the handlers share.                   *)

\* ended_at IS NULL.
IsOpen(s) == row[s] \in {"open", "aged"}

\* A database write that fails.
Fault == faults < MaxFaults /\ faults' = faults + 1

\* Repo.endRow: only a row still open is ended.
EndRowMut(s, reason) == row' = [row EXCEPT ![s] = reason]
                        \* mutant: without AND ended_at IS NULL

EndRow(s, reason) == row' = [row EXCEPT ![s] = IF IsOpen(s) THEN reason ELSE @]

\* A row ended with no run left to close its recording.
Stranded(s) == IF run[s] = "gone" /\ IsOpen(s) THEN stranded \cup {s} ELSE stranded

\* Registry.Terminate and TerminateWithCause: the first cause is kept.
Cancel(s, c) ==
    cause' = IF s \in registry /\ cause[s] = "none" THEN [cause EXCEPT ![s] = c] ELSE cause

-----------------------------------------------------------------------------
(* Handler.connect and Handler.redeem.                                     *)

Connect(s) ==
    /\ Up /\ run[s] = "none"
    /\ allowed
    /\ run' = [run EXCEPT ![s] = "ticket"]
    /\ UNCHANGED <<from, why, starting, registry, cause, allowed, api, sweep, store, bounds>>

RedeemMut(s) ==              \* mutant: the policies are not asked again
    /\ run[s] = "ticket"
    /\ run' = [run EXCEPT ![s] = "admitted"]
    /\ UNCHANGED <<from, why, starting, registry, cause, allowed, api, sweep, store, bounds>>

\* A ticket is spent by its first use; the gate is asked again.
Redeem(s) ==
    /\ run[s] = "ticket"
    /\ run' = [run EXCEPT ![s] = IF allowed THEN "admitted" ELSE "gone"]
    /\ UNCHANGED <<from, why, starting, registry, cause, allowed, api, sweep, store, bounds>>

\* Unused for thirty seconds, or refused before the socket opens (the target or
\* the credential is no longer there).
TicketWasted(s) ==
    /\ run[s] \in {"ticket", "admitted"}
    /\ run' = [run EXCEPT ![s] = "gone"]
    /\ UNCHANGED <<from, why, starting, registry, cause, allowed, api, sweep, store, bounds>>

-----------------------------------------------------------------------------
(* sessionRun: set-up.                                                     *)

StartRunMut(s) ==            \* mutant: the session replaced is marked, not unmarked
    /\ run[s] = "admitted"
    /\ run' = [run EXCEPT ![s] = "setup"]
    /\ starting' = starting \cup {s, from[s]}
    /\ row' = [q \in Sessions |-> IF q = s THEN "open"
                                  ELSE IF q = from[s] /\ IsOpen(q) THEN "failover"
                                  ELSE row[q]]
    /\ UNCHANGED <<from, why, registry, cause, allowed, api, sweep,
                   rec, said, lost, bounds>>

\* startRun: the row, the mark, and the close of the session failed over from.
StartRun(s) ==
    /\ run[s] = "admitted"
    /\ run' = [run EXCEPT ![s] = "setup"]
    /\ starting' = (starting \ {from[s]}) \cup {s}
    /\ row' = [q \in Sessions |-> IF q = s THEN "open"
                                  ELSE IF q = from[s] /\ IsOpen(q) THEN "failover"
                                  ELSE row[q]]
    /\ stranded' = IF from[s] = None THEN stranded ELSE Stranded(from[s])
    /\ UNCHANGED <<from, why, registry, cause, allowed, api, sweep,
                   rec, said, lost, escaped, crashes, faults, calls>>

\* The row could not be written, so there is no session; or the close of the
\* session failed over from could not.
StartRunFault(s) ==
    /\ run[s] = "admitted"
    /\ Fault
    /\ \/ run' = [run EXCEPT ![s] = "gone"] /\ UNCHANGED <<starting, row>>
       \/ /\ from[s] # None
          /\ run' = [run EXCEPT ![s] = "setup"]
          /\ starting' = (starting \ {from[s]}) \cup {s}
          /\ row' = [row EXCEPT ![s] = "open"]
    /\ UNCHANGED <<from, why, registry, cause, allowed, api, sweep,
                   rec, said, lost, escaped, stranded, crashes, calls>>

\* The dial, the image pull or the start of the recording failed: run.end(EndError).
SetupFails(s) ==
    /\ run[s] = "setup"
    /\ run' = [run EXCEPT ![s] = "ending"]
    /\ why' = [why EXCEPT ![s] = "error"]
    /\ UNCHANGED <<from, starting, registry, cause, allowed, api, sweep, store, bounds>>

\* asciicast, guacStream and register: the recording's row, before any byte flows.
Record(s) ==
    /\ run[s] = "setup"
    /\ run' = [run EXCEPT ![s] = "recorded"]
    /\ rec' = [rec EXCEPT ![s] = "open"]
    /\ UNCHANGED <<from, why, starting, registry, cause, allowed, api, sweep,
                   row, said, lost, bounds>>

\* serveGuac: the flags could not be sent; the recording is closed and the run ended.
FlagsFail(s) ==
    /\ run[s] = "recorded" /\ s \in Desktops
    /\ run' = [run EXCEPT ![s] = "left"]
    /\ why' = [why EXCEPT ![s] = "error"]
    /\ UNCHANGED <<from, starting, registry, cause, allowed, api, sweep, store, bounds>>

AddMut(s) ==                 \* mutant: registered before its recording
    /\ run[s] \in {"setup", "recorded"}
    /\ run' = [run EXCEPT ![s] = "added"]
    /\ registry' = registry \cup {s}
    /\ UNCHANGED <<from, why, starting, cause, allowed, api, sweep, store, bounds>>

\* live: Registry.Add, then the session is no longer starting.
Add(s) ==
    /\ run[s] = "recorded"
    /\ run' = [run EXCEPT ![s] = "added"]
    /\ registry' = registry \cup {s}
    /\ UNCHANGED <<from, why, starting, cause, allowed, api, sweep, store, bounds>>

Unmark(s) ==
    /\ run[s] = "added"
    /\ run' = [run EXCEPT ![s] = "live"]
    /\ starting' = starting \ {s}
    /\ UNCHANGED <<from, why, registry, cause, allowed, api, sweep, store, bounds>>

-----------------------------------------------------------------------------
(* sessionRun: the bridge and its end.                                     *)

\* The bridge returns of itself (the user leaves, a timeout, an error) ...
BridgeEnds(s) ==
    /\ run[s] = "live" /\ cause[s] = "none"
    /\ run' = [run EXCEPT ![s] = "left"]
    /\ why' \in {[why EXCEPT ![s] = w] : w \in {"exit", "error"}}
    /\ UNCHANGED <<from, starting, registry, cause, allowed, api, sweep, store, bounds>>

\* ... or because its context was cancelled: CancelReason.
BridgeCancelled(s) ==
    /\ run[s] = "live" /\ cause[s] # "none"
    /\ run' = [run EXCEPT ![s] = "left"]
    /\ why' = [why EXCEPT ![s] = cause[s]]
    /\ UNCHANGED <<from, starting, registry, cause, allowed, api, sweep, store, bounds>>

\* finishRecording: closed and its row finished; or its close failed, which is
\* said and leaves the row; or the row could not be written, which is logged.
FinishRecording(s) ==
    /\ run[s] = "left"
    /\ run' = [run EXCEPT ![s] = "closed"]
    /\ \/ rec' = [rec EXCEPT ![s] = "finished"] /\ UNCHANGED <<lost, bounds>>
       \/ lost' = lost \cup {s} /\ UNCHANGED <<rec, bounds>>
       \/ /\ Fault
          /\ stranded' = stranded \cup {s}
          /\ UNCHANGED <<rec, lost, escaped, crashes, calls>>
    /\ UNCHANGED <<from, why, starting, registry, cause, allowed, api, sweep, row, said>>

\* discardIfBlank: a desktop that drew nothing loses its recording.  A run that
\* never went live does not come here, nor does a delete that fails.
DiscardIfBlank(s) ==
    /\ run[s] = "closed"
    /\ run' = [run EXCEPT ![s] = "ending"]
    /\ \/ UNCHANGED rec
       \/ s \in Desktops \cap registry /\ rec' = [rec EXCEPT ![s] = "discarded"]
    /\ UNCHANGED <<from, why, starting, registry, cause, allowed, api, sweep,
                   row, said, lost, bounds>>

\* run.endRow: no longer starting, then the row's end, which may fail.
EndRun(s) ==
    /\ run[s] = "ending"
    /\ run' = [run EXCEPT ![s] = "saying"]
    /\ starting' = starting \ {s}
    /\ why' = [why EXCEPT ![s] = "error"]
    /\ \/ EndRow(s, why[s]) /\ UNCHANGED bounds
       \/ Fault /\ UNCHANGED <<row, escaped, stranded, crashes, calls>>
    /\ UNCHANGED <<from, registry, cause, allowed, api, sweep, rec, said, lost>>

\* run.end: the event, whoever ended the row.
SayEnd(s) ==
    /\ run[s] = "saying"
    /\ run' = [run EXCEPT ![s] = "leaving"]
    /\ said' = said \cup {s}
    /\ UNCHANGED <<from, why, starting, registry, cause, allowed, api, sweep,
                   row, rec, lost, bounds>>

LeaveMut(s) ==               \* mutant: the deferred done() does not run
    /\ run[s] = "leaving"
    /\ run' = [run EXCEPT ![s] = "gone"]
    /\ UNCHANGED <<from, why, starting, registry, cause, allowed, api, sweep, store, bounds>>

\* The deferred done(): Registry.Remove.
Leave(s) ==
    /\ run[s] = "leaving"
    /\ run' = [run EXCEPT ![s] = "gone"]
    /\ registry' = registry \ {s}
    /\ cause' = [cause EXCEPT ![s] = "none"]
    /\ escaped' = escaped \ {s}
    /\ UNCHANGED <<from, why, starting, allowed, api, sweep, store,
                   stranded, crashes, faults, calls>>

-----------------------------------------------------------------------------
(* API requests.                                                           *)

\* A request arrives.
Call(p) == Up /\ api[p].pc = "idle" /\ calls < MaxCalls /\ calls' = calls + 1
Goto(p, pc, ids) == api' = [api EXCEPT ![p] = [pc |-> pc, ids |-> ids]]

\* Session handler terminate: read the row, cancel the live session, and only
\* when there is none close the row.
TerminateRead(p, s) ==
    /\ Call(p) /\ IsOpen(s)
    /\ Goto(p, "terminate", {s})
    /\ UNCHANGED <<run, from, why, starting, registry, cause, allowed, sweep, store,
                   escaped, stranded, crashes, faults>>

Terminate(p, s) ==
    /\ api[p].pc = "terminate" /\ s \in api[p].ids
    /\ Cancel(s, "admin")
    /\ IF s \in registry THEN Goto(p, "idle", {}) ELSE Goto(p, "closerow", {s})
    /\ UNCHANGED <<run, from, why, starting, registry, allowed, sweep, store, bounds>>

TerminateRow(p, s) ==
    /\ api[p].pc = "closerow" /\ s \in api[p].ids
    /\ EndRow(s, "admin")
    /\ stranded' = Stranded(s)
    /\ Goto(p, "idle", {})
    /\ UNCHANGED <<run, from, why, starting, registry, cause, allowed, sweep,
                   rec, said, lost, escaped, crashes, faults, calls>>

\* A change withdraws the user's access; Revoker.Recheck then lists the live
\* sessions, asks the gate about them, and cancels those it refuses.
Withdraw(p) ==
    /\ Call(p) /\ allowed
    /\ allowed' = FALSE
    /\ Goto(p, "list", {})
    /\ UNCHANGED <<run, from, why, starting, registry, cause, sweep, store,
                   escaped, stranded, crashes, faults>>

RecheckList(p) ==
    /\ api[p].pc = "list"
    /\ Goto(p, "check", registry)
    /\ escaped' = escaped \cup {s \in Sessions : run[s] \in {"admitted", "setup", "recorded"}}
    /\ UNCHANGED <<run, from, why, starting, registry, cause, allowed, sweep, store,
                   stranded, crashes, faults, calls>>

\* A session that cannot be checked (its row, its target or the policies cannot
\* be read) is kept.
RecheckGate(p) ==
    /\ api[p].pc = "check"
    /\ \/ /\ IF allowed \/ api[p].ids = {} THEN Goto(p, "idle", {}) ELSE Goto(p, "cut", api[p].ids)
          /\ UNCHANGED bounds
       \/ /\ Fault
          /\ \E s \in api[p].ids : /\ Goto(p, "check", api[p].ids \ {s})
                                   /\ escaped' = escaped \cup {s}
          /\ UNCHANGED <<stranded, crashes, calls>>
    /\ UNCHANGED <<run, from, why, starting, registry, cause, allowed, sweep, store>>

RecheckCut(p, s) ==
    /\ api[p].pc = "cut" /\ s \in api[p].ids
    /\ Cancel(s, "policy")
    /\ IF api[p].ids = {s} THEN Goto(p, "idle", {}) ELSE Goto(p, "cut", api[p].ids \ {s})
    /\ UNCHANGED <<run, from, why, starting, registry, allowed, sweep, store, bounds>>

\* Access is given again.
Restore ==
    /\ Up /\ ~allowed
    /\ allowed' = TRUE
    /\ UNCHANGED <<run, from, why, starting, registry, cause, api, sweep, store, bounds>>

\* Handler.failover: a session on an instance found unhealthy is closed as
\* lost, then a ticket is issued for another instance.
FailoverRead(p, s) ==
    /\ Call(p)
    /\ \/ IsOpen(s) /\ Goto(p, "failend", {s})
       \/ row[s] = "lost" /\ Goto(p, "failissue", {s})
    /\ UNCHANGED <<run, from, why, starting, registry, cause, allowed, sweep, store,
                   escaped, stranded, crashes, faults>>

FailoverEnd(p, s) ==
    /\ api[p].pc = "failend" /\ s \in api[p].ids
    /\ \/ EndRow(s, "lost") /\ stranded' = Stranded(s) /\ UNCHANGED faults
       \/ Fault /\ UNCHANGED <<row, stranded>>
    /\ Goto(p, "failcut", {s})
    /\ UNCHANGED <<run, from, why, starting, registry, cause, allowed, sweep,
                   rec, said, lost, escaped, crashes, calls>>

FailoverCut(p, s) ==
    /\ api[p].pc = "failcut" /\ s \in api[p].ids
    /\ Cancel(s, "lost")
    /\ Goto(p, "failissue", {s})
    /\ UNCHANGED <<run, from, why, starting, registry, allowed, sweep, store, bounds>>

FailoverIssue(p, s, n) ==
    /\ api[p].pc = "failissue" /\ s \in api[p].ids
    /\ run[n] = "none"
    /\ Goto(p, "idle", {})
    /\ IF allowed THEN /\ run' = [run EXCEPT ![n] = "ticket"]
                       /\ from' = [from EXCEPT ![n] = s]
                  ELSE UNCHANGED <<run, from>>
    /\ UNCHANGED <<why, starting, registry, cause, allowed, sweep, store, bounds>>

\* Every instance is unhealthy, or the gate refuses.
FailoverRefused(p) ==
    /\ api[p].pc = "failissue"
    /\ Goto(p, "idle", {})
    /\ UNCHANGED <<run, from, why, starting, registry, cause, allowed, sweep, store, bounds>>

-----------------------------------------------------------------------------
(* Sweeper.                                                                *)

\* openBefore: the rows open for longer than the grace.
SweepOpen ==
    /\ sweep.pc = "idle"
    /\ \E s \in Sessions : row[s] = "aged"
    /\ sweep' = [SweepIdle EXCEPT !.pc = "each", !.todo = {s \in Sessions : row[s] = "aged"}]
    /\ UNCHANGED <<run, from, why, starting, registry, cause, allowed, api, store, bounds>>

\* live, the first half: registry.Get.
SweepGet(s) ==
    /\ sweep.pc = "each" /\ s \in sweep.todo
    /\ sweep' = IF s \in registry THEN [sweep EXCEPT !.todo = @ \ {s}]
                                  ELSE [sweep EXCEPT !.pc = "ask", !.cur = s]
    /\ UNCHANGED <<run, from, why, starting, registry, cause, allowed, api, store, bounds>>

SweepAskMut ==               \* mutant: sessions being set up are not asked about
    /\ sweep.pc = "ask"
    /\ sweep' = [sweep EXCEPT !.pc = "end"]
    /\ UNCHANGED <<run, from, why, starting, registry, cause, allowed, api, store, bounds>>

\* live, the second half: Handler.Starting.
SweepAsk ==
    /\ sweep.pc = "ask"
    /\ sweep' = IF sweep.cur \in starting
                THEN [sweep EXCEPT !.pc = "each", !.todo = @ \ {sweep.cur}, !.cur = None]
                ELSE [sweep EXCEPT !.pc = "end"]
    /\ UNCHANGED <<run, from, why, starting, registry, cause, allowed, api, store, bounds>>

\* endRow; a write that fails ends the pass with what it has closed.
SweepEnd ==
    /\ sweep.pc = "end"
    /\ \/ /\ EndRow(sweep.cur, sweep.why)
          /\ sweep' = [sweep EXCEPT !.pc = "each", !.todo = @ \ {sweep.cur}, !.cur = None,
                         !.ended = IF IsOpen(sweep.cur) THEN @ \cup {sweep.cur} ELSE @]
          /\ UNCHANGED bounds
       \/ /\ Fault
          /\ sweep' = [sweep EXCEPT !.pc = "each", !.todo = {}, !.cur = None]
          /\ UNCHANGED <<row, escaped, stranded, crashes, calls>>
    /\ UNCHANGED <<run, from, why, starting, registry, cause, allowed, api, rec, said, lost>>

SweepClosed ==
    /\ sweep.pc = "each" /\ sweep.todo = {}
    /\ sweep' = IF sweep.ended = {} THEN SweepIdle ELSE [sweep EXCEPT !.pc = "say"]
    /\ UNCHANGED <<run, from, why, starting, registry, cause, allowed, api, store, bounds>>

SweepSayMut(s) ==            \* mutant: the swept recording is left as it is
    /\ sweep.pc = "say" /\ s \in sweep.ended
    /\ said' = said \cup {s}
    /\ sweep' = IF sweep.ended = {s} THEN SweepIdle ELSE [sweep EXCEPT !.ended = @ \ {s}]
    /\ UNCHANGED <<run, from, why, starting, registry, cause, allowed, api, row, rec, lost, bounds>>

\* said: the recording is finished from what storage holds, or its loss is said,
\* or its row cannot be written; then the event.
SweepSay(s) ==
    /\ sweep.pc = "say" /\ s \in sweep.ended
    /\ \/ rec[s] # "open" /\ UNCHANGED <<rec, lost, bounds>>
       \/ rec[s] = "open" /\ rec' = [rec EXCEPT ![s] = "finished"] /\ UNCHANGED <<lost, bounds>>
       \/ rec[s] = "open" /\ lost' = lost \cup {s} /\ UNCHANGED <<rec, bounds>>
       \/ /\ rec[s] = "open" /\ Fault
          /\ stranded' = stranded \cup {s}
          /\ UNCHANGED <<rec, lost, escaped, crashes, calls>>
    /\ said' = said \cup {s}
    /\ sweep' = IF sweep.ended = {s} THEN SweepIdle ELSE [sweep EXCEPT !.ended = @ \ {s}]
    /\ UNCHANGED <<run, from, why, starting, registry, cause, allowed, api, row>>

\* A row has been open for longer than the grace.
Age(s) ==
    /\ row[s] = "open"
    /\ row' = [row EXCEPT ![s] = "aged"]
    /\ UNCHANGED <<memory, rec, said, lost, bounds>>

\* The process dies; the next one first sweeps every row left open.
Crash ==
    /\ crashes < MaxCrashes
    /\ crashes' = crashes + 1
    /\ run' = [s \in Sessions |-> IF run[s] = "none" THEN "none" ELSE "gone"]
    /\ starting' = {} /\ registry' = {}
    /\ cause' = [s \in Sessions |-> "none"]
    /\ api' = [p \in Procs |-> Idle]
    /\ sweep' = [SweepIdle EXCEPT !.pc = "each", !.why = "restart",
                   !.todo = {s \in Sessions : IsOpen(s)}]
    /\ escaped' = {}
    /\ stranded' = stranded \cup {s \in Sessions :
                       /\ row[s] \in Reason
                       /\ run[s] \notin {"none", "gone"} \/ s \in sweep.ended}
    /\ UNCHANGED <<from, why, allowed, store, faults, calls>>

-----------------------------------------------------------------------------
RunStep(s) ==
    \/ Redeem(s) \/ TicketWasted(s) \/ StartRun(s) \/ StartRunFault(s) \/ SetupFails(s)
    \/ Record(s) \/ FlagsFail(s) \/ Add(s) \/ Unmark(s)
    \/ BridgeCancelled(s) \/ FinishRecording(s) \/ DiscardIfBlank(s)
    \/ EndRun(s) \/ SayEnd(s) \/ Leave(s)

ApiNext(p) ==
    \/ \E s \in Sessions : \/ TerminateRead(p, s) \/ Terminate(p, s) \/ TerminateRow(p, s)
                           \/ RecheckCut(p, s)
                           \/ FailoverRead(p, s) \/ FailoverEnd(p, s) \/ FailoverCut(p, s)
                           \/ \E n \in Sessions : FailoverIssue(p, s, n)
    \/ Withdraw(p) \/ RecheckList(p) \/ RecheckGate(p) \/ FailoverRefused(p)

SweepNext ==
    \/ SweepOpen \/ SweepAsk \/ SweepEnd \/ SweepClosed
    \/ \E s \in Sessions : SweepGet(s) \/ SweepSay(s)

Next ==
    \/ \E s \in Sessions : Connect(s) \/ RunStep(s) \/ BridgeEnds(s) \/ Age(s)
    \/ \E p \in Procs : ApiNext(p)
    \/ Restore
    \/ SweepNext
    \/ Crash

Spec == Init /\ [][Next]_vars

\* A handler goes on until its bridge runs; a bridge whose context is cancelled
\* returns; the sweep runs every minute and rows age.
Fairness ==
    /\ \A s \in Sessions : WF_vars(RunStep(s)) /\ WF_vars(Age(s))
    /\ WF_vars(SweepNext)
LiveSpec == Spec /\ Fairness

-----------------------------------------------------------------------------
(* Properties.                                                             *)

\* The inductive invariant behind the safety properties: what a phase of a run
\* says about the shared state.
SweepKnowsItsRow == sweep.pc \in {"ask", "end"} => sweep.cur \in Sessions
NoRowBeforeSetup ==
    \A s \in Sessions : run[s] \in {"none", "ticket", "admitted"} => row[s] = "none"
BridgesAreRecorded ==
    \A s \in Sessions : run[s] \in {"recorded", "added", "live", "left", "closed"} => rec[s] # "none"
RegisteredRun ==
    \A s \in registry : run[s] \in {"added", "live", "left", "closed", "ending", "saying", "leaving"}
StartingRun ==
    \A s \in starting : run[s] \in {"setup", "recorded", "added", "left", "closed", "ending"}
\* A withdrawal under way will still list, check or cut the sessions it has not
\* reached.
Listing == \E p \in Procs : api[p].pc = "list"
Reaching(s) == \E p \in Procs : api[p].pc \in {"check", "cut"} /\ s \in api[p].ids
WithdrawalGoesOn ==
    ~allowed /\ ~Listing =>
        /\ \A s \in registry : cause[s] # "none" \/ s \in escaped \/ Reaching(s)
        /\ \A s \in Sessions : run[s] \in {"admitted", "setup", "recorded"} => s \in escaped

\* No session runs unrecorded: what is in the registry has a recording's row,
\* through failed writes, crashes and restarts (register, live).
NoUnrecordedSession == \A s \in registry : rec[s] # "none"

\* A row ends once: whoever is first (the run, the sweep, an administrator, a
\* failover) fixes the reason and nothing reopens it (Repo.endRow).
FirstEndWins ==
    [][\A s \in Sessions : /\ row[s] \in Reason => row'[s] = row[s]
                           /\ IsOpen(s) => row'[s] # "none"]_vars

\* Once Recheck has returned, a session of a user without access is being ended,
\* or was being set up while Recheck listed the registry, or could not be
\* checked: the re-check at redemption leaves no other way through.
RevocationReaches ==
    (~allowed /\ \A p \in Procs : api[p].pc \notin {"list", "check", "cut"})
        => \A s \in registry : cause[s] # "none" \/ s \in escaped

\* A session that is over has its recording finished, discarded or its loss
\* said, and its end recorded, unless its closing was cut off (stranded).
ClosedIsAccounted ==
    \A s \in Sessions : row[s] \in Reason /\ run[s] = "gone" /\ s \notin sweep.ended
        => \/ s \in stranded
           \/ (rec[s] # "open" \/ s \in lost) /\ s \in said

\* The sweep ends no row whose session is still being set up, however long that
\* takes, other than one failed over meanwhile (Handler.Starting).
SweepSparesSetup ==
    \A s \in Sessions : row[s] = "swept" /\ run[s] \in {"setup", "recorded", "added"}
        => \E n \in Sessions : from[n] = s

\* Nothing is left of a run that is gone: not a registry entry a drain would
\* wait for, nor a mark the sweep would take for a set-up.
GoneLeavesNothing ==
    \A s \in registry \cup starting : run[s] \notin {"none", "ticket", "admitted", "gone"}

\* What the sweep closes was not being set up, and is accounted for (Sweeper.pass).
SweepSound == ClosedIsAccounted /\ SweepSparesSetup

\* A session's end is one: nothing of it is left behind, and the reason first
\* given stands (done, Repo.endRow).
EndsOnce == []GoneLeavesNothing /\ FirstEndWins

IInv ==
    /\ TypeOK
    /\ SweepKnowsItsRow
    /\ NoRowBeforeSetup
    /\ BridgesAreRecorded
    /\ NoUnrecordedSession
    /\ RegisteredRun
    /\ StartingRun
    /\ WithdrawalGoesOn

\* What SweepSound needs beside it: a run past its recording's close has closed it, the
\* sweep holds rows that exist and has none in hand when it is idle, and a session being
\* set up is marked until one it is failed over to takes the mark.
NotRecordedYet == \A s \in Sessions : run[s] \in {"none", "ticket", "admitted", "setup"} => rec[s] = "none"
EndsAreTold ==
    \A s \in Sessions :
        /\ run[s] \in {"closed", "ending", "saying", "leaving"} => rec[s] # "open" \/ s \in lost \cup stranded
        /\ run[s] = "leaving" => s \in said
FailedOver(s) == \E n \in Sessions : from[n] = s
SetupIsMarked == \A s \in Sessions : run[s] \in {"setup", "recorded", "added"} => s \in starting \/ FailedOver(s)
SweepHolds ==
    /\ sweep.pc = "idle" => sweep.ended = {}
    /\ \A s \in sweep.todo : row[s] # "none"
    /\ sweep.pc \in {"ask", "end"} => row[sweep.cur] # "none"
    /\ sweep.pc = "end" /\ run[sweep.cur] \in {"setup", "recorded", "added"} => FailedOver(sweep.cur)
NoTicketNoOrigin == \A s \in Sessions : run[s] = "none" => from[s] = None
SweepIInv ==
    NotRecordedYet /\ EndsAreTold /\ SetupIsMarked /\ SweepHolds /\ NoTicketNoOrigin
    /\ ClosedIsAccounted /\ SweepSparesSetup

\* A row nobody runs is ended, although the write that should have ended it
\* failed or the process crashed (Sweeper).
OpenRowsEnd ==
    \A s \in Sessions : (IsOpen(s) /\ run[s] = "gone") ~> ~IsOpen(s)

\* A cancelled session leaves the registry (done, deferred).
CancelledLeave == \A s \in Sessions : (cause[s] # "none") ~> (s \notin registry)

\* However it is left, a session ends: its row is closed (Sweeper), and once
\* cancelled it leaves the registry (done).
SessionsEnd == OpenRowsEnd /\ CancelledLeave
=============================================================================
