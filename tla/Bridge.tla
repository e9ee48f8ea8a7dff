------------------------------- MODULE Bridge -------------------------------
(***************************************************************************)
(* The bridge of one running session: sshgw, winrmgw and dbgw (terminals)  *)
(* and guac (desktops) relay between the browser's socket and the target   *)
(* until one of them ends, a limit is reached or the registry cancels the  *)
(* session; connect/watch.go pings the browser meanwhile.                  *)
(*                                                                         *)
(* The goroutines of a bridge are out (target to browser, or winrm's       *)
(* executor), in (browser to target) and the select loop, which share the  *)
(* end reason.  The contents relayed are left out.                         *)
(***************************************************************************)
EXTENDS Naturals

CONSTANTS
    Kinds,       \* the bridges checked, of "ssh", "db", "winrm", "guac"
    MaxStalls    \* bound: times the browser stops reading

ASSUME BridgeAssumption == Kinds \subseteq {"ssh", "db", "winrm", "guac"} /\ MaxStalls \in Nat

VARIABLES
    kind,
    browser,  \* reading, stalled (neither reads nor answers) or left
    socket,   \* whether the gateway still holds it open
    target,   \* up, exited (the shell or client ended) or lost
    cause,    \* why the registry cancelled the session, "none" while it has not
    reason,   \* the end reason; user_exit until one is set
    out,      \* the goroutine that reads the target
    in,       \* the goroutine that reads the browser
    main,     \* the select loop
    next,     \* the reason finish was called with
    result,   \* what Bridge returned
    told,     \* the reason in the end frame the browser received
    missed,   \* pings in a row without an answer
    stalls,
    own       \* what happened besides a cancellation

bridgeVars == <<kind, browser, socket, target, cause, reason, out, in, main, next, result, told, missed, stalls, own>>

pingMissed == 2
Reasons == {"user_exit", "target_lost", "error", "limit", "terminated"}
NotYet == "none"

BridgeTypeOK ==
    /\ kind \in Kinds /\ browser \in {"reading", "stalled", "left"} /\ socket \in {"open", "closed"}
    /\ target \in {"up", "exited", "lost"} /\ cause \in {NotYet, "terminated"}
    /\ reason \in Reasons /\ out \in {"read", "write", "done"} /\ in \in {"read", "done"}
    /\ main \in {"select", "drain", "grace", "finish", "returned"}
    /\ next \in Reasons /\ result \in Reasons \cup {NotYet} /\ told \in Reasons \cup {NotYet}
    /\ missed \in 0 .. pingMissed /\ stalls \in 0 .. MaxStalls
    /\ own \subseteq {"browser", "target", "recording", "limit", "input"}

BridgeInit ==
    /\ kind \in Kinds
    /\ browser = "reading" /\ socket = "open" /\ target = "up"
    /\ cause = NotYet /\ reason = "user_exit"
    /\ out = "read" /\ in = "read" /\ main = "select" /\ next = "user_exit"
    /\ result = NotYet /\ told = NotYet
    /\ missed = 0 /\ stalls = 0 /\ own = {}

setEnd(r) == IF reason = "user_exit" THEN r ELSE reason

-----------------------------------------------------------------------------
(* What the bridge does not decide.                                        *)

others == UNCHANGED <<kind, reason, out, in, main, next, result, told, missed>>

BrowserLeaves ==
    /\ browser # "left" /\ main # "returned"
    /\ browser' = "left" /\ own' = own \cup {"browser"}
    /\ UNCHANGED <<socket, target, cause, stalls>> /\ others
BrowserStalls ==
    /\ browser = "reading" /\ stalls < MaxStalls /\ main # "returned"
    /\ browser' = "stalled" /\ stalls' = stalls + 1 /\ own' = own \cup {"browser"}
    /\ UNCHANGED <<socket, target, cause>> /\ others
BrowserResumes ==
    /\ browser = "stalled" /\ browser' = "reading"
    /\ UNCHANGED <<socket, target, cause, stalls, own>> /\ others
TargetEnds ==
    /\ target = "up" /\ main # "returned"
    /\ target' \in {"exited", "lost"} /\ own' = own \cup {"target"}
    /\ UNCHANGED <<browser, socket, cause, stalls>> /\ others
\* Registry: an administrator, a policy change, a restart or the sync loop.
Cancel ==
    /\ cause = NotYet /\ main # "returned"
    /\ cause' = "terminated"
    /\ UNCHANGED <<browser, socket, target, stalls, own>> /\ others
\* dbgw starts the client under the session's context: a cancellation kills it.
ClientKilled ==
    /\ kind = "db" /\ cause # NotYet /\ target = "up"
    /\ target' = "exited"
    /\ UNCHANGED <<browser, socket, cause, stalls, own>> /\ others

-----------------------------------------------------------------------------
(* The goroutines.                                                         *)

goroutine == UNCHANGED <<kind, browser, target, cause, next, result, told, stalls>>

\* Output: recorded first, then relayed; a recording that fails ends the session.
OutData ==
    /\ out = "read" /\ target = "up"
    /\ \/ out' = "write" /\ UNCHANGED <<reason, own>>
       \/ out' = "done" /\ reason' = setEnd("error") /\ own' = own \cup {"recording"}
    /\ UNCHANGED <<socket, in, main, missed>> /\ goroutine
\* The target is gone.  sshgw: lost, unless its stream ended in order or the
\* session was cancelled.
SshOutEnds ==
    /\ kind = "ssh" /\ out = "read" /\ target # "up"
    /\ out' = "done"
    /\ reason' = IF target = "lost" /\ cause = NotYet THEN setEnd("target_lost") ELSE reason
    /\ UNCHANGED <<socket, in, main, missed, own>> /\ goroutine
\* dbgw's reader of the pty sets nothing.
DbOutEnds ==
    /\ kind = "db" /\ out = "read" /\ target # "up"
    /\ out' = "done"
    /\ UNCHANGED <<socket, reason, in, main, missed, own>> /\ goroutine
\* guac: as ssh; an "error" instruction of guacd is a lost target whatever the context.
GuacOutEnds ==
    /\ kind = "guac" /\ out = "read" /\ target # "up"
    /\ out' = "done"
    /\ \/ reason' = IF target = "lost" /\ cause = NotYet THEN setEnd("target_lost") ELSE reason
       \/ target = "lost" /\ reason' = setEnd("target_lost")
    /\ UNCHANGED <<socket, in, main, missed, own>> /\ goroutine
\* winrm's executor: "exit" typed, or a command that failed because the target is
\* gone; the context is asked first.
ExecutorEnds ==
    /\ kind = "winrm" /\ out = "read" /\ target # "up"
    /\ out' = "done"
    /\ reason' = IF target = "lost" /\ cause = NotYet THEN setEnd("target_lost") ELSE reason
    /\ UNCHANGED <<socket, in, main, missed, own>> /\ goroutine
\* winrm's executor stops when the session is cancelled.
ExecutorCancelled ==
    /\ kind = "winrm" /\ out = "read" /\ cause # NotYet
    /\ out' = "done"
    /\ UNCHANGED <<socket, reason, in, main, missed, own>> /\ goroutine
\* A write to a browser that stopped reading blocks; one to a closed socket fails.
OutWrite ==
    /\ out = "write"
    /\ \/ socket = "open" /\ browser = "reading" /\ out' = "read"
       \/ (socket = "closed" \/ browser = "left") /\ out' = "done"
    /\ UNCHANGED <<socket, reason, in, main, missed, own>> /\ goroutine
\* Mutant: the browser is read under the session's context, whose cancellation
\* drops the socket.
InReadMut ==
    /\ in = "read" /\ (browser = "left" \/ socket = "closed" \/ cause # NotYet)
    /\ in' = "done" /\ socket' = "closed"
    /\ UNCHANGED <<reason, out, main, missed, own>> /\ goroutine
\* ws.Read fails once the socket is gone, and under no other context.
InRead ==
    /\ in = "read" /\ (browser = "left" \/ socket = "closed")
    /\ in' = "done" /\ UNCHANGED socket
    /\ UNCHANGED <<reason, out, main, missed, own>> /\ goroutine
\* What the browser typed cannot be handed to a target that is gone; guac calls
\* it lost.  winrm's reader only queues lines.
InWriteFails ==
    /\ in = "read" /\ kind # "winrm" /\ target # "up"
    /\ in' = "done"
    /\ reason' = IF kind = "guac" THEN setEnd("target_lost") ELSE reason
    /\ own' = own \cup {"input"}
    /\ UNCHANGED <<socket, out, main, missed>> /\ goroutine

\* Mutant: the watch counts the pings missed and leaves the socket.
WatchPingMut ==
    /\ main # "returned" /\ socket = "open" /\ missed < pingMissed
    /\ missed' = IF browser = "reading" /\ in = "read" THEN 0 ELSE missed + 1
    /\ UNCHANGED <<socket, reason, out, in, main, own>> /\ goroutine
\* watchClient: the pong is read by the bridge's own read of the socket; after
\* pingMissed without one the socket is closed.
WatchPing ==
    /\ main # "returned" /\ socket = "open"
    /\ missed' = IF browser = "reading" /\ in = "read" THEN 0 ELSE missed + 1
    /\ socket' = IF missed' = pingMissed THEN "closed" ELSE socket
    /\ UNCHANGED <<reason, out, in, main, own>> /\ goroutine

-----------------------------------------------------------------------------
(* The select loop.                                                        *)

loop == UNCHANGED <<kind, browser, target, cause, out, in, missed, stalls>>
finishWith(r) == main' = "finish" /\ next' = r

SelectCancelled ==
    /\ main = "select" /\ cause # NotYet
    /\ finishWith(cause)
    /\ UNCHANGED <<socket, reason, result, told, own>> /\ loop
\* The browser went away, or could not be read on: nothing is sent.
SelectIn ==
    /\ main = "select" /\ in = "done"
    /\ main' = "returned" /\ result' = reason /\ socket' = "closed"
    /\ UNCHANGED <<reason, next, told, own>> /\ loop
\* ssh, db: the shell or client exited; the output left is drained first.
SelectWait ==
    /\ main = "select" /\ kind \in {"ssh", "db"} /\ target # "up"
    /\ reason' = IF kind = "ssh" /\ target = "lost" THEN setEnd("target_lost") ELSE reason
    /\ main' = "drain"
    /\ UNCHANGED <<socket, next, result, told, own>> /\ loop
\* Mutant: a client the cancellation killed reads as one that exited.
DrainedMut ==
    /\ main = "drain" /\ out = "done"
    /\ finishWith("user_exit")
    /\ UNCHANGED <<socket, reason, result, told, own>> /\ loop
Drained ==
    /\ main = "drain" /\ out = "done"
    /\ finishWith(IF kind = "db" /\ cause # NotYet THEN cause ELSE "user_exit")
    /\ UNCHANGED <<socket, reason, result, told, own>> /\ loop
\* Output ended.  winrm and dbgw ask first whether the cancellation ended it; guac
\* and winrm end with the reason set so far.
SelectExecutor ==
    /\ main = "select" /\ kind = "winrm" /\ out = "done"
    /\ finishWith(IF cause # NotYet THEN cause ELSE reason)
    /\ UNCHANGED <<socket, reason, result, told, own>> /\ loop
SelectGuacd ==
    /\ main = "select" /\ kind = "guac" /\ out = "done"
    /\ finishWith(reason)
    /\ UNCHANGED <<socket, reason, result, told, own>> /\ loop
\* ssh and dbgw give the exit two seconds to be reported when no reason is set.
SelectSshOut ==
    /\ main = "select" /\ kind = "ssh" /\ out = "done"
    /\ IF reason # "user_exit" THEN finishWith(reason) ELSE main' = "grace" /\ next' = next
    /\ UNCHANGED <<socket, reason, result, told, own>> /\ loop
SelectDbOut ==
    /\ main = "select" /\ kind = "db" /\ out = "done"
    /\ IF cause # NotYet THEN finishWith(cause)
       ELSE IF reason # "user_exit" THEN finishWith(reason) ELSE main' = "grace" /\ next' = next
    /\ UNCHANGED <<socket, reason, result, told, own>> /\ loop
Grace ==
    /\ main = "grace"
    /\ \/ target # "up" /\ reason' = reason
       \/ reason' = IF kind = "ssh" THEN setEnd("target_lost") ELSE reason
    /\ finishWith("user_exit")
    /\ UNCHANGED <<socket, result, told, own>> /\ loop
\* The ticker: the idle timeout or the policy's maximum duration.
SelectTick ==
    /\ main = "select"
    /\ finishWith("limit") /\ own' = own \cup {"limit"}
    /\ UNCHANGED <<socket, reason, result, told>> /\ loop
\* finish: the first reason set stands; the end frame has a deadline of its own,
\* and CloseAfterEnd closes the socket after it.
Finish ==
    /\ main = "finish"
    /\ reason' = setEnd(next) /\ result' = reason'
    /\ told' = IF socket = "open" /\ browser = "reading" THEN reason' ELSE told
    /\ socket' = "closed" /\ main' = "returned"
    /\ UNCHANGED <<next, own>> /\ loop

OutEnds == SshOutEnds \/ DbOutEnds \/ GuacOutEnds \/ ExecutorEnds \/ ExecutorCancelled
Environment == BrowserLeaves \/ BrowserStalls \/ BrowserResumes \/ TargetEnds \/ Cancel
Loop == SelectCancelled \/ SelectIn \/ SelectWait \/ Drained \/ SelectExecutor \/ SelectGuacd \/ SelectSshOut \/ SelectDbOut \/ Grace \/ Finish
BridgeNext ==
    \/ Environment \/ ClientKilled
    \/ OutData \/ OutEnds \/ OutWrite \/ InRead \/ InWriteFails \/ WatchPing
    \/ Loop \/ SelectTick

BridgeSpec == BridgeInit /\ [][BridgeNext]_bridgeVars

\* Each goroutine runs when it can, the watch pings on; nothing is assumed of the
\* browser, the target or the administrator.
BridgeFairness ==
    /\ WF_bridgeVars(OutEnds) /\ WF_bridgeVars(OutWrite) /\ WF_bridgeVars(InRead)
    /\ WF_bridgeVars(WatchPing) /\ WF_bridgeVars(Loop) /\ WF_bridgeVars(ClientKilled)

-----------------------------------------------------------------------------
(* Properties.                                                             *)

\* A session that ends because it was cancelled, nothing else having happened to
\* it, ends with the cancellation's cause and its browser reads that cause,
\* whichever goroutine noticed first (the comments on wsCtx and on execDone).
\* Input typed after dbgw's client was killed is one of the other things: see the
\* README.
CauseKeptAndTold ==
    (main = "returned" /\ cause # NotYet /\ own = {}) => result = cause /\ told = cause

\* A bridge whose session was cancelled, or whose target is gone, returns, though
\* the browser has stopped reading what is written to it (watchClient).
BridgeReturns == (cause # NotYet \/ target # "up") ~> (main = "returned")

\* A cancelled session's cause is kept and told (sshgw, winrmgw, dbgw, guac).
BridgeSound == BridgeTypeOK /\ CauseKeptAndTold
=============================================================================
