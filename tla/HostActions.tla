---------------------------- MODULE HostActions -----------------------------
(***************************************************************************)
(* What the console asks of the host (internal/lifecycle, ADR 0020, 0032): *)
(* a change to the environment file, an update, a reboot, a power-off or a *)
(* restart.  The gateway drains, then acts itself or leaves a request file *)
(* that a path unit hands to a root helper: `zanskar config apply`         *)
(* (cmd/zanskar/config.go) or the zanskar-update script.  The helper       *)
(* restarts the gateway, so nobody who asked is there to hear the answer;  *)
(* a watch ends the drain of a request nothing came of.  Drain has the     *)
(* drain itself; here it only begins, passes the point of no return, ends. *)
(*                                                                         *)
(* The environment file is its TLS preset and one variable the console may *)
(* set; the rest of it either loads or does not.  systemd is external.     *)
(***************************************************************************)
EXTENDS Naturals, Sequences

CONSTANTS
    MaxRequests,  \* bound: requests made of the console
    MaxLosses,    \* bound: the host loses power
    MaxFailures,  \* bound: writes and commands that fail
    Verbs         \* the actions asked for, of those below

ASSUME HostAssumption == /\ MaxRequests \in Nat /\ MaxLosses \in Nat /\ MaxFailures \in Nat
                         /\ Verbs \subseteq {"config", "update", "reboot", "poweroff", "restart"}

VARIABLES
    host,      \* what the host is like: its file loads, port 443 is taken, the path units are enabled
    env,       \* /etc/zanskar/env
    requested,     \* the requests made so far
    request,   \* config-request and update-request: the request in each, or 0
    result,    \* config-result
    status,    \* update-status.json
    helper,    \* zanskar config apply
    installer, \* the request zanskar-update works on, or 0
    gw,        \* the gateway's process: its stage, the drain in progress
    course,    \* per request, its drain goroutine: waiting, past its last look at the context, over
    watch,     \* watchConfig and watchInstall goroutines, by request
    failed,    \* requests whose failure is audited
    audited,   \* requests whose outcome the gateway audited at its start
    losses, failures,
    written,   \* history, per request: how often the file was replaced for it
    served,    \* history: files a gateway has listened with
    outcome    \* history, per request: the result the helper wrote

hostVars == <<host, env, requested, request, result, status, helper, installer, gw, course, watch, failed,
              audited, losses, failures, written, served, outcome>>

Ids == 1 .. MaxRequests
Files == [mode : {"proxy", "managed"}, site : {"", "set"}]
Nothing == [mode |-> "", site |-> "keep"]
Changes == [mode : {"", "managed"}, site : {"keep", "set"}] \ {Nothing}
Outcomes == {"none", "applied", "refused", "rolled_back", "by_hand"}
NoResult == [id |-> 0, state |-> "none", acked |-> TRUE]
NoStatus == [id |-> 0, state |-> "none"]
HelperStages == {"idle", "taken", "kept", "renamed", "waiting", "lost", "back", "answer"}
AtRest == [pc |-> "idle", id |-> 0, cur |-> [mode |-> "proxy", site |-> ""], state |-> "none"]

HostTypeOK ==
    /\ host \in [loads : BOOLEAN, held : BOOLEAN, units : BOOLEAN]
    /\ env \in Files
    /\ requested \in Seq([verb : Verbs, change : Changes \cup {Nothing}]) /\ Len(requested) <= MaxRequests
    /\ request \in [{"config", "update"} -> 0 .. MaxRequests]
    /\ result \in [id : 0 .. MaxRequests, state : Outcomes, acked : BOOLEAN]
    /\ status \in [id : 0 .. MaxRequests, state : {"none", "running", "failed", "done"}]
    /\ helper \in [pc : HelperStages, id : 0 .. MaxRequests, cur : Files, state : Outcomes]
    /\ installer \in 0 .. MaxRequests
    /\ gw \in [pc : {"up", "starting", "acked", "failed", "off"}, drain : 0 .. MaxRequests]
    /\ course \in [Ids -> {"none", "waiting", "ending", "over"}] /\ watch \subseteq Ids /\ failed \subseteq Ids /\ audited \subseteq Ids
    /\ losses \in 0 .. MaxLosses /\ failures \in 0 .. MaxFailures
    /\ written \in [Ids -> 0 .. 2] /\ served \subseteq Files
    /\ outcome \in [Ids -> Outcomes]

HostInit ==
    /\ host \in [loads : BOOLEAN, held : BOOLEAN, units : BOOLEAN]
    /\ env = [mode |-> "proxy", site |-> ""]
    /\ requested = <<>> /\ request = [f \in {"config", "update"} |-> 0]
    /\ result = NoResult /\ status = NoStatus /\ helper = AtRest /\ installer = 0
    /\ gw = [pc |-> "up", drain |-> 0] /\ course = [r \in Ids |-> "none"] /\ watch = {}
    /\ failed = {} /\ audited = {}
    /\ losses = 0 /\ failures = 0
    /\ written = [r \in Ids |-> 0] /\ served = {env} /\ outcome = [r \in Ids |-> "none"]

Verb(r) == requested[r].verb
Fails == failures < MaxFailures /\ failures' = failures + 1
Works == UNCHANGED failures
history == <<written, served, outcome>>

-----------------------------------------------------------------------------
(* The gateway: the requests, their drains and their watches.              *)

(* RestartThen replaces the drain in progress.                             *)
stopped == [r \in Ids |-> IF course[r] = "waiting" THEN "over" ELSE course[r]]
RestartThen(verb, change) ==
    /\ gw.pc = "up" /\ Len(requested) < MaxRequests /\ verb \in Verbs
    /\ LET r == Len(requested) + 1
       IN /\ requested' = Append(requested, [verb |-> verb, change |-> change])
          /\ gw' = [gw EXCEPT !.drain = r]
          /\ course' = [stopped EXCEPT ![r] = "waiting"]
    /\ UNCHANGED <<host, env, request, result, status, helper, installer, watch, failed, audited, losses, failures, history>>

(* The handlers, past their guards (a systemd host, a fresh authenticator  *)
(* code, the host's name typed back, a change that names something).       *)
BootChange(change) == change # Nothing /\ RestartThen("config", change)
InstallUpdate == RestartThen("update", Nothing)
HostAction(verb) == verb \in {"reboot", "poweroff"} /\ RestartThen(verb, Nothing)
RestartVerb == RestartThen("restart", Nothing)

(* Controller.Cancel: nothing, when there is no drain.                     *)
CancelDrain == gw' = [gw EXCEPT !.drain = 0] /\ course' = stopped
ConsoleCancel ==
    /\ gw.pc = "up" /\ gw.drain # 0
    /\ CancelDrain
    /\ UNCHANGED <<host, env, requested, request, result, status, helper, installer, watch, failed, audited, losses, failures, history>>

(* Controller.run has looked at its context for the last time.             *)
DrainOver(r) ==
    /\ gw.pc = "up" /\ course[r] = "waiting"
    /\ course' = [course EXCEPT ![r] = "ending"]
    /\ UNCHANGED <<host, env, requested, request, result, status, helper, installer, gw, watch, failed, audited, losses, failures, history>>

(* The ending of a drain that leaves a request for a helper: the file and  *)
(* its watch, or the failure audited and the drain cancelled.              *)
Abandon(r) == failed' = failed \cup {r} /\ CancelDrain
HandOver(r, verb) ==
    /\ gw.pc = "up" /\ course[r] = "ending" /\ Verb(r) = verb
    /\ \/ /\ request' = [request EXCEPT ![verb] = r] /\ watch' = watch \cup {r}
          /\ course' = [course EXCEPT ![r] = "over"]
          /\ Works /\ UNCHANGED <<gw, failed>>
       \/ /\ Fails /\ failed' = failed \cup {r}
          /\ gw' = [gw EXCEPT !.drain = 0] /\ course' = [stopped EXCEPT ![r] = "over"]
          /\ UNCHANGED <<request, watch>>
    /\ UNCHANGED <<host, env, requested, result, status, helper, installer, audited, losses, history>>
HandConfig(r) == HandOver(r, "config")
HandUpdate(r) == HandOver(r, "update")

(* Every goroutine of the process ends with it.                            *)
ProcessEnds(stage) ==
    /\ gw' = [pc |-> stage, drain |-> 0] /\ watch' = {}
    /\ course' = [r \in Ids |-> IF course[r] = "none" THEN "none" ELSE "over"]

(* systemctl reboot or poweroff, and Exit of a plain restart.              *)
Act(r) ==
    /\ gw.pc = "up" /\ course[r] = "ending" /\ Verb(r) \in {"reboot", "poweroff", "restart"}
    /\ \/ /\ ProcessEnds(IF Verb(r) = "poweroff" THEN "off" ELSE "starting")
          /\ helper' = IF Verb(r) = "restart" THEN helper ELSE AtRest
          /\ installer' = IF Verb(r) = "restart" THEN installer ELSE 0
          /\ Works /\ UNCHANGED failed
       \/ /\ Verb(r) # "restart" /\ Fails /\ failed' = failed \cup {r}
          /\ gw' = [gw EXCEPT !.drain = 0] /\ course' = [stopped EXCEPT ![r] = "over"]
          /\ UNCHANGED <<helper, installer, watch>>
    /\ UNCHANGED <<host, env, requested, request, result, status, audited, losses, history>>

(* A poll of a watch: another action drains, or none, and it ends.  It     *)
(* ends the drain when the helper refused this request, or the installer   *)
(* reported that it failed.                                                *)
Replaced(r) == IF gw.drain = 0 THEN TRUE ELSE Verb(gw.drain) # Verb(r)
Poll(r, bad) ==
    /\ r \in watch /\ (Replaced(r) \/ bad)
    /\ watch' = watch \ {r}
    /\ IF Replaced(r) THEN UNCHANGED <<gw, course, failed>> ELSE Abandon(r)
    /\ UNCHANGED <<host, env, requested, request, result, status, helper, installer, audited, losses, failures, history>>
WatchConfig(r) == r \in watch /\ Verb(r) = "config" /\ Poll(r, result.id = r /\ result.state = "refused")
WatchInstall(r) == r \in watch /\ Verb(r) = "update" /\ Poll(r, status.id = r /\ status.state = "failed")

(* The limit of a watch: the drain is cancelled, whichever that is by now. *)
WatchLimitMut(r) == FALSE /\ UNCHANGED hostVars
WatchLimit(r) ==
    /\ r \in watch /\ watch' = watch \ {r} /\ Abandon(r)
    /\ UNCHANGED <<host, env, requested, request, result, status, helper, installer, audited, losses, failures, history>>

(* serve at its start: AckConfigResult comes first, long before it listens. *)
Ack ==
    /\ gw.pc = "starting"
    /\ gw' = [gw EXCEPT !.pc = "acked"]
    /\ IF result.acked \/ result.state = "refused" THEN UNCHANGED <<audited, result, failures>>
       ELSE \/ audited' = audited \cup {result.id} /\ result' = [result EXCEPT !.acked = TRUE] /\ Works
            \/ Fails /\ UNCHANGED <<audited, result>>
    /\ UNCHANGED <<host, env, requested, request, status, helper, installer, course, watch, failed, losses, history>>

Loads == host.loads
Binds(f) == Loads /\ (f.mode = "managed" => ~host.held)
Listen ==
    /\ gw.pc = "acked"
    /\ IF Binds(env) THEN gw' = [gw EXCEPT !.pc = "up"] /\ served' = served \cup {env}
       ELSE gw' = [gw EXCEPT !.pc = "failed"] /\ UNCHANGED served
    /\ UNCHANGED <<host, env, requested, request, result, status, helper, installer, course, watch, failed, audited, losses, failures, written, outcome>>

-----------------------------------------------------------------------------
(* zanskar config apply.                                                   *)

At(pc) == helper' = [helper EXCEPT !.pc = pc]
Answer(state) == helper' = [helper EXCEPT !.pc = "answer", !.state = state]

(* The request is read and removed before anything else.                   *)
TakeMut ==
    /\ helper.pc = "idle" /\ request["config"] # 0 /\ host.units
    /\ helper' = [AtRest EXCEPT !.pc = "taken", !.id = request["config"]]
    /\ UNCHANGED <<host, env, requested, request, result, status, installer, gw, course, watch, failed, audited, losses, failures, history>>
Take ==
    /\ helper.pc = "idle" /\ request["config"] # 0 /\ host.units
    /\ helper' = [AtRest EXCEPT !.pc = "taken", !.id = request["config"]]
    /\ request' = [request EXCEPT !["config"] = 0]
    /\ UNCHANGED <<host, env, requested, result, status, installer, gw, course, watch, failed, audited, losses, failures, history>>

(* The file is read, merged, written beside it and loaded as serve would;  *)
(* the old one is kept.  Any of it may fail: refused, nothing changed.     *)
Merge(f, c) == [mode |-> IF c.mode = "" THEN f.mode ELSE c.mode, site |-> IF c.site = "keep" THEN f.site ELSE c.site]
Candidate ==
    /\ helper.pc = "taken"
    /\ \/ Loads /\ helper' = [helper EXCEPT !.pc = "kept", !.cur = env] /\ Works
       \/ ~Loads /\ Answer("refused") /\ Works
       \/ Fails /\ Answer("refused")
    /\ UNCHANGED <<host, env, requested, request, result, status, installer, gw, course, watch, failed, audited, losses, history>>
Replace ==
    /\ helper.pc = "kept"
    /\ env' = Merge(helper.cur, requested[helper.id].change)
    /\ written' = [written EXCEPT ![helper.id] = @ + 1]
    /\ At("renamed")
    /\ UNCHANGED <<host, requested, request, result, status, installer, gw, course, watch, failed, audited, losses, failures, served, outcome>>

(* restartAndWait: systemctl restart, then a process that listens, or none *)
(* in time - a gateway slower than the wait counts as none.                *)
RestartNew ==
    /\ helper.pc = "renamed" /\ gw.pc # "off"
    /\ \/ ProcessEnds("starting") /\ At("waiting") /\ Works
       \/ Fails /\ At("lost") /\ UNCHANGED <<gw, watch, course>>
    /\ UNCHANGED <<host, env, requested, request, result, status, installer, failed, audited, losses, history>>
Health ==
    /\ helper.pc = "waiting" /\ gw.pc = "up" /\ Answer("applied")
    /\ UNCHANGED <<host, env, requested, request, result, status, installer, gw, course, watch, failed, audited, losses, failures, history>>
HealthTimeout ==
    /\ helper.pc = "waiting" /\ At("lost")
    /\ \/ gw.pc \in {"failed", "off"} /\ Works
       \/ gw.pc \notin {"failed", "off"} /\ Fails
    /\ UNCHANGED <<host, env, requested, request, result, status, installer, gw, course, watch, failed, audited, losses, history>>

(* The previous file goes back; when it cannot, it is rolled_back too and  *)
(* the message says to restore it by hand.                                 *)
PutBackMut ==
    /\ helper.pc = "lost" /\ At("back")
    /\ UNCHANGED <<host, env, requested, request, result, status, installer, gw, course, watch, failed, audited, losses, failures, history>>
PutBack ==
    /\ helper.pc = "lost"
    /\ \/ env' = helper.cur /\ At("back") /\ Works
       \/ Fails /\ Answer("by_hand") /\ UNCHANGED env
    /\ UNCHANGED <<host, requested, request, result, status, installer, gw, course, watch, failed, audited, losses, history>>
RestartOld ==
    /\ helper.pc = "back" /\ Answer("rolled_back") /\ gw.pc # "off"
    /\ \/ ProcessEnds("starting") /\ Works
       \/ Fails /\ UNCHANGED <<gw, watch, course>>
    /\ UNCHANGED <<host, env, requested, request, result, status, installer, failed, audited, losses, history>>
WriteResult ==
    /\ helper.pc = "answer" /\ helper' = AtRest
    /\ outcome' = [outcome EXCEPT ![helper.id] = helper.state]
    /\ result' = [id |-> helper.id, state |-> helper.state, acked |-> FALSE]
    /\ UNCHANGED <<host, env, requested, request, status, installer, gw, course, watch, failed, audited, losses, failures, written, served>>

-----------------------------------------------------------------------------
(* zanskar-update, and what systemd and the power do.                      *)

InstallTake ==
    /\ installer = 0 /\ request["update"] # 0 /\ host.units
    /\ installer' = request["update"] /\ request' = [request EXCEPT !["update"] = 0]
    /\ status' = [id |-> request["update"], state |-> "running"]
    /\ UNCHANGED <<host, env, requested, result, helper, gw, course, watch, failed, audited, losses, failures, history>>
Install ==
    /\ installer # 0 /\ gw.pc # "off"
    /\ installer' = 0
    /\ \/ status' = [status EXCEPT !.state = "done"] /\ ProcessEnds("starting") /\ Works
       \/ Fails /\ status' = [status EXCEPT !.state = "failed"] /\ UNCHANGED <<gw, watch, course>>
    /\ UNCHANGED <<host, env, requested, request, result, helper, failed, audited, losses, history>>

(* systemd starts a process that failed again.                             *)
StartAgain ==
    /\ gw.pc = "failed" /\ gw' = [gw EXCEPT !.pc = "starting"]
    /\ UNCHANGED <<host, env, requested, request, result, status, helper, installer, course, watch, failed, audited, losses, failures, history>>
PowerLoss ==
    /\ losses < MaxLosses /\ losses' = losses + 1
    /\ ProcessEnds("starting") /\ helper' = AtRest /\ installer' = 0
    /\ UNCHANGED <<host, env, requested, request, result, status, failed, audited, failures, history>>

Gateway == \/ \E change \in Changes : BootChange(change)
           \/ \E verb \in Verbs : HostAction(verb)
           \/ InstallUpdate \/ RestartVerb \/ ConsoleCancel \/ Ack \/ Listen
           \/ \E r \in Ids : DrainOver(r) \/ HandConfig(r) \/ HandUpdate(r) \/ Act(r)
                                \/ WatchConfig(r) \/ WatchInstall(r) \/ WatchLimit(r)
Helpers == Take \/ Candidate \/ Replace \/ RestartNew \/ Health \/ HealthTimeout \/ PutBack \/ RestartOld \/ WriteResult
             \/ InstallTake \/ Install
HostNext == Gateway \/ Helpers \/ StartAgain \/ PowerLoss
HostSpec == HostInit /\ [][HostNext]_hostVars

(* Goroutines and a starting process run on; a helper may never come.      *)
HostFairness == /\ WF_hostVars(Ack) /\ WF_hostVars(Listen)
                /\ \A r \in Ids : /\ WF_hostVars(DrainOver(r)) /\ WF_hostVars(HandConfig(r)) /\ WF_hostVars(HandUpdate(r)) /\ WF_hostVars(Act(r))
                                   /\ WF_hostVars(WatchLimit(r))

-----------------------------------------------------------------------------

(* "It is never read twice": whatever fails or loses power, the file is    *)
(* replaced at most once for a request, so a change that took the gateway  *)
(* down is not made again at the next boot.                                *)
AppliedOnce == \A r \in Ids : written[r] <= 1

(* A helper that ran to its end leaves a file some gateway has served      *)
(* with: the new one it saw listening, or the one that was there - unless  *)
(* the result says the old one could not be put back.                      *)
LeavesServing ==
    helper.pc = "idle" /\ losses = 0 /\ (\A r \in Ids : outcome[r] # "by_hand")
        /\ (\A r \in 1 .. Len(requested) : Verb(r) \notin {"reboot", "poweroff"}) => env \in served

(* A gateway that drains for the host serves again or is gone: no helper   *)
(* that is missing, refuses or dies leaves it refusing sessions for ever.  *)
ServesAgain == (gw.drain # 0) ~> (gw.drain = 0)

\* An action on the host (lifecycle, cmd/zanskar/config.go) is carried out once
\* and leaves a configuration that serves.
HostSound == HostTypeOK /\ AppliedOnce /\ LeavesServing
=============================================================================
