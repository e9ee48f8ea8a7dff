------------------------------- MODULE Drain --------------------------------
(***************************************************************************)
(* The restart of the gateway (internal/lifecycle/restart.go): a drain     *)
(* stops new sessions, waits for the live ones, ends those left at its     *)
(* deadline, lets their bridges finish and then exits, or runs a host      *)
(* action.  Every Restart starts a goroutine of its own; a later Restart   *)
(* or a Cancel cancels the context of the one before.  Sessions are seen   *)
(* as the registry sees them; Session has their life in full.              *)
(***************************************************************************)
EXTENDS Naturals

CONSTANTS
    Sessions,
    MaxDrains   \* bound: calls of Restart

ASSUME DrainAssumption == MaxDrains \in Nat

Drains == 1..MaxDrains

VARIABLES
    sess,      \* per session: none, passed redeem, live, cut, gone
    drain,     \* Controller.drain: the drain in progress, or 0
    count,     \* drains begun so far
    pc,        \* per drain: where its goroutine is
    cancelled, \* drains whose context is cancelled
    expired,   \* drains whose deadline has passed
    exitBy,    \* the drain that ended the process, or 0
    late       \* history, per drain: sessions on their way at its last sweep

vars == <<sess, drain, count, pc, cancelled, expired, exitBy, late>>

TypeOK ==
    /\ sess \in [Sessions -> {"none", "passed", "live", "cut", "gone"}]
    /\ drain \in Drains \cup {0}
    /\ count \in Drains \cup {0}
    /\ pc \in [Drains -> {"none", "wait", "check", "first", "second", "grace", "exit", "stopped"}]
    /\ cancelled \in SUBSET Drains
    /\ expired \in SUBSET Drains
    /\ exitBy \in Drains \cup {0}
    /\ late \in [Drains -> SUBSET Sessions]

Init ==
    /\ sess = [s \in Sessions |-> "none"]
    /\ drain = 0
    /\ count = 0
    /\ pc = [d \in Drains |-> "none"]
    /\ cancelled = {}
    /\ expired = {}
    /\ exitBy = 0
    /\ late = [d \in Drains |-> {}]

Running == exitBy = 0

\* Registry.Waiting counts a bridge until it leaves, cut or not.
Registered == {s \in Sessions : sess[s] \in {"live", "cut"}}

-----------------------------------------------------------------------------
(* Sessions.                                                               *)

RedeemMut(s) ==              \* mutant: redeem does not ask whether it drains
    /\ Running /\ sess[s] = "none"
    /\ sess' = [sess EXCEPT ![s] = "passed"]
    /\ UNCHANGED <<drain, count, pc, cancelled, expired, exitBy, late>>

\* Handler.redeem refuses while the gateway drains.
Redeem(s) ==
    /\ Running /\ sess[s] = "none"
    /\ drain = 0
    /\ sess' = [sess EXCEPT ![s] = "passed"]
    /\ UNCHANGED <<drain, count, pc, cancelled, expired, exitBy, late>>

\* Its set-up done, seconds or minutes later, a session joins the registry.
Register(s) ==
    /\ Running /\ sess[s] = "passed"
    /\ sess' = [sess EXCEPT ![s] = "live"]
    /\ UNCHANGED <<drain, count, pc, cancelled, expired, exitBy, late>>

\* Its end recorded, a session leaves the registry.
Leave(s) ==
    /\ Running /\ sess[s] \in {"live", "cut"}
    /\ sess' = [sess EXCEPT ![s] = "gone"]
    /\ UNCHANGED <<drain, count, pc, cancelled, expired, exitBy, late>>

-----------------------------------------------------------------------------
(* Controller.                                                             *)

\* Restart and RestartThen: replaces the drain in progress.
Restart ==
    /\ Running /\ count < MaxDrains
    /\ count' = count + 1
    /\ drain' = count + 1
    /\ cancelled' = IF drain = 0 THEN cancelled ELSE cancelled \cup {drain}
    /\ pc' = [pc EXCEPT ![count + 1] = "wait"]
    /\ UNCHANGED <<sess, expired, exitBy, late>>

CancelMut ==                 \* mutant: Cancel without its check that a drain is in progress
    /\ Running
    /\ cancelled' = cancelled \cup {drain}
    /\ drain' = 0
    /\ UNCHANGED <<sess, count, pc, expired, exitBy, late>>

\* Cancel: there is a drain to abandon; its goroutine is told through its context.
Cancel ==
    /\ Running /\ drain # 0
    /\ cancelled' = cancelled \cup {drain}
    /\ drain' = 0
    /\ UNCHANGED <<sess, count, pc, expired, exitBy, late>>

Deadline(d) ==
    /\ Running /\ pc[d] = "wait" /\ d \notin expired
    /\ expired' = expired \cup {d}
    /\ UNCHANGED <<sess, drain, count, pc, cancelled, exitBy, late>>

Goto(d, step) == pc' = [pc EXCEPT ![d] = step]

\* run, the wait: until the registry is empty or the deadline has passed, or
\* the context is cancelled meanwhile.
RunWaitMut(d) ==             \* mutant: the deadline is not looked at
    /\ Running /\ pc[d] = "wait"
    /\ \/ Registered = {} /\ Goto(d, "check")
       \/ Registered # {} /\ d \in cancelled /\ Goto(d, "stopped")
    /\ UNCHANGED <<sess, drain, count, cancelled, expired, exitBy, late>>

RunWait(d) ==
    /\ Running /\ pc[d] = "wait"
    /\ \/ (Registered = {} \/ d \in expired) /\ Goto(d, "check")
       \/ Registered # {} /\ d \notin expired /\ d \in cancelled /\ Goto(d, "stopped")
    /\ UNCHANGED <<sess, drain, count, cancelled, expired, exitBy, late>>

\* if ctx.Err() != nil: the one look at the context outside a wait.
RunCheck(d) ==
    /\ Running /\ pc[d] = "check"
    /\ Goto(d, IF d \in cancelled THEN "stopped" ELSE "first")
    /\ UNCHANGED <<sess, drain, count, cancelled, expired, exitBy, late>>

\* TerminateWithCause(ErrGatewayRestart) on every registered session.
CutAll == [s \in Sessions |-> IF sess[s] = "live" THEN "cut" ELSE sess[s]]

RunFirst(d) ==
    /\ Running /\ pc[d] = "first"
    /\ sess' = CutAll
    /\ Goto(d, "second")
    /\ UNCHANGED <<drain, count, cancelled, expired, exitBy, late>>

RunSecondMut(d) ==           \* mutant: no second pass
    /\ Running /\ pc[d] = "second"
    /\ late' = [late EXCEPT ![d] = {s \in Sessions : sess[s] = "passed"}]
    /\ Goto(d, "grace")
    /\ UNCHANGED <<sess, drain, count, cancelled, expired, exitBy>>

\* The second pass, two polls later, for bridges registered since.
RunSecond(d) ==
    /\ Running /\ pc[d] = "second"
    /\ sess' = CutAll
    /\ late' = [late EXCEPT ![d] = {s \in Sessions : sess[s] = "passed"}]
    /\ Goto(d, "grace")
    /\ UNCHANGED <<drain, count, cancelled, expired, exitBy>>

\* The wait for the bridges: until none is registered, for Grace at most, or
\* until the context is cancelled.
RunGrace(d) ==
    /\ Running /\ pc[d] = "grace"
    /\ \/ Goto(d, "exit")
       \/ Registered # {} /\ d \in cancelled /\ Goto(d, "stopped")
    /\ UNCHANGED <<sess, drain, count, cancelled, expired, exitBy, late>>

\* Exit, or the host action that takes its place.
RunExit(d) ==
    /\ Running /\ pc[d] = "exit"
    /\ exitBy' = d
    /\ UNCHANGED <<sess, drain, count, pc, cancelled, expired, late>>

Run(d) == RunWait(d) \/ RunCheck(d) \/ RunFirst(d) \/ RunSecond(d) \/ RunGrace(d) \/ RunExit(d)

Next ==
    \/ \E s \in Sessions : Redeem(s) \/ Register(s) \/ Leave(s)
    \/ Restart \/ Cancel
    \/ \E d \in Drains : Deadline(d) \/ Run(d)

Spec == Init /\ [][Next]_vars

\* A goroutine runs on and time passes; a session need not end of itself.
Fairness == \A d \in Drains : WF_vars(Run(d)) /\ WF_vars(Deadline(d))
LiveSpec == Spec /\ Fairness

-----------------------------------------------------------------------------
(* Properties.                                                             *)

\* At the exit of the drain in progress, a session still running or on its way
\* and not told to end had redeemed its ticket before the drain began and was
\* not in the registry at the drain's second sweep: nothing else escapes it.
DrainMissesOnlyLate ==
    exitBy # 0 /\ exitBy = drain =>
        \A s \in Sessions : sess[s] \in {"passed", "live"} => s \in late[exitBy]

\* What the above rests on: while a drain lasts, every session not told to end
\* is one that was on its way at its second sweep.
SweptAfterSecond ==
    \A d \in Drains : d = drain /\ pc[d] \in {"grace", "exit", "stopped"} /\ d \notin cancelled =>
        \A s \in Sessions : sess[s] \in {"passed", "live"} => s \in late[d]
DrainIsCurrent ==
    /\ drain \notin cancelled
    /\ \A d \in cancelled : d <= count
    /\ drain <= count
    /\ \A d \in Drains : d > count => pc[d] = "none"
    /\ exitBy # 0 => pc[exitBy] = "exit"
IInv == TypeOK /\ DrainIsCurrent /\ SweptAfterSecond

\* A drain ends: the gateway exits, or the drain is cancelled; sessions that
\* never end do not hold it past its deadline (Controller.run).
DrainEnds == (drain # 0) ~> (drain = 0 \/ exitBy # 0)
=============================================================================
