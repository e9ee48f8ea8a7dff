--------------------------- MODULE ScalingGroups ---------------------------
(***************************************************************************)
(* Auto scaling groups (internal/asg): the poll that follows a group's     *)
(* instances, their pinned keys and health, the schedule with its backoff, *)
(* and the administrator's handlers.                                       *)
(*                                                                         *)
(* One gateway process polls: the loop of Syncer.Run, and the sync handler *)
(* of the API, which may be asked to at the same time.  What the cloud and *)
(* the machines answer is arbitrary.  Two reads with nothing between them  *)
(* that another step could tell apart are one step.                        *)
(***************************************************************************)
EXTENDS Targets

CONSTANTS
    Groups,      \* group ids, which are Holders
    Insts,       \* cloud instance ids
    Interval,    \* poll interval
    MaxBackoff   \* maxBackoff

ASSUME GroupAssumption ==
    /\ Groups \subseteq Holders /\ Groups \cap Targets = {}
    /\ Interval \in Nat \ {0} /\ MaxBackoff \in Nat

Pollers == {"loop", "api"}

VARIABLES
    group,     \* autoscaling_groups: status
    inst,      \* asg_instances
    poll,      \* per poller: the SyncGroup it is in
    sched,     \* schedule: the wait failures in a row double to, and how long until the next poll
    reported,  \* mismatches already recorded
    ilive,     \* instances with a session in the registry
    areq,      \* an administrator's delete or setCredential under way
    adrift     \* history: instances with a session that a marking which failed had marked

groupVars == <<group, inst, poll, sched, reported, ilive, areq, adrift>>

NoInst == [state |-> "absent", cloud |-> FALSE, probe |-> "unknown", hostKey |-> None, source |-> "none",
           pin |-> NoPins]
InstRow == [state : {"absent", "present", "terminated"}, cloud : BOOLEAN,
            probe : {"unknown", "healthy", "unhealthy"}, hostKey : FP,
            source : {"none", "console", "tofu"}, pin : [Listeners -> FP]]
PollIdle == [pc |-> "idle", group |-> None, snap |-> [i \in {} |-> FALSE], todo |-> {}, prev |-> [i \in Insts |-> NoInst]]
AdminIdle == [pc |-> "idle", group |-> None, ids |-> {}, cred |-> None]

\* The longest wait between two polls.
Limit == IF MaxBackoff > Interval THEN MaxBackoff ELSE Interval

GroupTypeOK ==
    /\ group \in [Groups -> {"free", "active", "disabled", "deleted"}]
    /\ inst \in [Groups -> [Insts -> InstRow]]
    /\ poll \in [Pollers -> [pc : {"idle", "started", "each"}, group : Groups \cup {None},
                             snap : UNION {[ids -> BOOLEAN] : ids \in SUBSET Insts},
                             todo : SUBSET Insts, prev : [Insts -> InstRow]]]
    /\ sched \in [Groups -> [running : BOOLEAN, doubled : Nat, wait : 0 .. Limit]]
    /\ ilive \subseteq Groups \X Insts
    /\ areq \in [pc : {"idle", "delete", "bind"}, group : Groups \cup {None}, ids : SUBSET Insts,
                 cred : Creds \cup {None}]
    /\ adrift \subseteq Groups \X Insts

GroupInit ==
    /\ group = [g \in Groups |-> "free"]
    /\ inst = [g \in Groups |-> [i \in Insts |-> NoInst]]
    /\ poll = [p \in Pollers |-> PollIdle]
    /\ sched = [g \in Groups |-> [running |-> FALSE, doubled |-> Interval, wait |-> 0]]
    /\ reported = {}
    /\ ilive = {}
    /\ areq = AdminIdle
    /\ adrift = {}

GroupEnrolled(g) == group[g] \in {"active", "disabled"}
\* derive: there, probed healthy, and healthy for the cloud (cloud.Healthy).
Healthy(r) == r.state = "present" /\ r.probe = "healthy" /\ r.cloud

-----------------------------------------------------------------------------
(* schedule.                                                               *)

\* done: after each failure in a row the wait doubles, while it is below the limit,
\* and is the limit at most.  The failures are kept as the wait they double to.
Backoff(d) == IF d < Limit THEN d ELSE Limit
scheduleDone(g, failed) ==
    LET d == IF sched[g].doubled < Limit THEN 2 * sched[g].doubled ELSE sched[g].doubled
    IN  sched' = [sched EXCEPT ![g] =
                     IF failed THEN [running |-> FALSE, doubled |-> d, wait |-> Backoff(d)]
                     ELSE [running |-> FALSE, doubled |-> Interval, wait |-> Interval]]

Elapse(g) ==
    /\ sched[g].wait > 0
    /\ sched' = [sched EXCEPT ![g].wait = @ - 1]
    /\ UNCHANGED <<group, inst, poll, reported, ilive, areq, adrift>>

\* The end of SyncGroup in the loop or in the handler.
PollEnds(p, g, failed) ==
    /\ poll' = [poll EXCEPT ![p] = PollIdle]
    /\ IF p = "loop" THEN scheduleDone(g, failed) ELSE UNCHANGED sched

-----------------------------------------------------------------------------
(* Syncer.SyncGroup.                                                       *)

running(g) == \E p \in Pollers : poll[p].group = g

\* Who starts a poll: the loop when the group is active and due, the handler at will.
Called(p, g) ==
    /\ poll[p].pc = "idle"
    /\ IF p = "loop" THEN group[g] = "active" /\ sched[g].wait = 0 ELSE GroupEnrolled(g)

PollStartMut(p, g) ==      \* mutant: nothing keeps the loop and the handler apart
    /\ Called(p, g)
    /\ poll' = [poll EXCEPT ![p] = [PollIdle EXCEPT !.pc = "started", !.group = g]]
    /\ sched' = IF p = "loop" THEN [sched EXCEPT ![g].running = TRUE] ELSE sched
    /\ UNCHANGED <<group, inst, reported, ilive, areq, adrift>>

\* The running guard: a second poll of the group ends at once with an error.
PollStart(p, g) ==
    /\ Called(p, g)
    /\ IF running(g) THEN PollEnds(p, g, TRUE)
       ELSE /\ poll' = [poll EXCEPT ![p] = [PollIdle EXCEPT !.pc = "started", !.group = g]]
            /\ sched' = IF p = "loop" THEN [sched EXCEPT ![g].running = TRUE] ELSE sched
    /\ UNCHANGED <<group, inst, reported, ilive, areq, adrift>>

\* The provider, the description, a read or a write fails: RecordSync, no more.
PollFail(p) ==
    /\ poll[p].pc # "idle"
    /\ PollEnds(p, poll[p].group, TRUE)
    /\ UNCHANGED <<group, inst, reported, ilive, areq, adrift>>

\* DescribeGroup, then what was stored last time.
PollDescribe(p, snap) ==
    /\ poll[p].pc = "started"
    /\ poll' = [poll EXCEPT ![p].pc = "each", ![p].snap = snap, ![p].todo = DOMAIN snap,
                            ![p].prev = inst[poll[p].group]]
    /\ UNCHANGED <<group, inst, sched, reported, ilive, areq, adrift>>

KeptPinMut(prev, seen) == IF seen = None THEN prev ELSE seen   \* mutant: the newest seen is pinned

\* pinCertificates, for one listener: the first certificate seen is kept.
KeptPin(prev, seen) == IF prev = None THEN seen ELSE prev
Mismatch(prev, seen) == prev # None /\ seen # None /\ seen # prev

\* probe: what is stored of an instance the cloud calls healthy; the console
\* publishes the key seen, another, or nothing.
probed(prev, res, reachable, console) ==
    LET certBad == \E l \in Listeners : Mismatch(prev.pin[l], res.certs[l])
        keyBad == Mismatch(prev.hostKey, res.hostKey)
        refused == prev.hostKey = None /\ res.hostKey # None /\ console = "another"
    IN  [NoInst EXCEPT
           !.state = "present", !.cloud = TRUE,
           !.probe = IF reachable /\ ~certBad /\ ~keyBad /\ ~refused THEN "healthy" ELSE "unhealthy",
           !.pin = [l \in Listeners |-> KeptPin(prev.pin[l], res.certs[l])],
           !.hostKey = IF refused THEN None ELSE KeptPin(prev.hostKey, res.hostKey),
           !.source = IF prev.hostKey # None THEN prev.source
                      ELSE IF refused \/ res.hostKey = None THEN "none"
                      ELSE IF console = "match" THEN "console" ELSE "tofu"]

\* firstSighting and cleared.
Sightings(i, prev, res, console) ==
    LET bad == {<<i, l, res.certs[l]>> : l \in {m \in Listeners : Mismatch(prev.pin[m], res.certs[m])}}
               \cup (IF Mismatch(prev.hostKey, res.hostKey) THEN {<<i, "hostkey", res.hostKey>>} ELSE {})
               \cup (IF prev.hostKey = None /\ res.hostKey # None /\ console = "another"
                     THEN {<<i, "console", res.hostKey>>} ELSE {})
        good == {l \in Listeners : prev.pin[l] # None /\ res.certs[l] = prev.pin[l]}
                \cup (IF prev.hostKey # None /\ res.hostKey = prev.hostKey THEN {"hostkey"} ELSE {})
                \cup (IF prev.hostKey = None /\ res.hostKey # None /\ console = "match" THEN {"console"} ELSE {})
    IN  {m \in reported : m[1] # i \/ m[2] \notin good} \cup bad

\* UpsertInstance: a pin the poll has none of is kept from the row.
Upserted(old, new) ==
    [new EXCEPT !.hostKey = IF @ = None THEN old.hostKey ELSE @,
                !.source = IF new.hostKey = None THEN old.source ELSE @,
                !.pin = [l \in Listeners |-> IF new.pin[l] = None THEN old.pin[l] ELSE new.pin[l]]]

\* The session of an instance that was healthy at the last poll and no more is retired.
Store(p, i, new) ==
    LET g == poll[p].group
        row == Upserted(inst[g][i], new)
    IN
    /\ inst' = [inst EXCEPT ![g][i] = row]
    /\ poll' = [poll EXCEPT ![p].todo = @ \ {i}]
    /\ ilive' = IF Healthy(poll[p].prev[i]) /\ ~Healthy(row) THEN ilive \ {<<g, i>>} ELSE ilive
    /\ UNCHANGED <<group, sched, areq, adrift>>

PollInstance(p, i, res, reachable, console) ==
    /\ poll[p].pc = "each" /\ i \in poll[p].todo
    /\ poll[p].snap[i]
    /\ Store(p, i, probed(poll[p].prev[i], res, reachable, console))
    /\ reported' = Sightings(i, poll[p].prev[i], res, console)

\* Not healthy for the cloud, or without an address: not probed.
PollUnhealthy(p, i) ==
    /\ poll[p].pc = "each" /\ i \in poll[p].todo
    /\ Store(p, i, [NoInst EXCEPT !.state = "present", !.cloud = poll[p].snap[i], !.probe = "unhealthy"])
    /\ UNCHANGED reported

\* MarkTerminated: what the cloud no longer names; the sessions of what was marked end.
Gone(p) == {i \in Insts \ DOMAIN poll[p].snap : inst[poll[p].group][i].state = "present"}
Terminated(g, ids) ==
    [inst EXCEPT ![g] = [i \in Insts |-> IF i \in ids THEN [@[i] EXCEPT !.state = "terminated", !.probe = "unhealthy"]
                                         ELSE @[i]]]

PollMark(p) ==
    LET g == poll[p].group IN
    /\ poll[p].pc = "each" /\ poll[p].todo = {}
    /\ inst' = Terminated(g, Gone(p))
    /\ ilive' = ilive \ {<<g, i>> : i \in Gone(p)}
    /\ reported' = {m \in reported : m[1] \notin Gone(p)}
    /\ PollEnds(p, g, FALSE)
    /\ UNCHANGED <<group, areq, adrift>>

\* An UPDATE fails after others succeeded: the rows marked are not returned.
PollMarkFails(p, marked) ==
    LET g == poll[p].group IN
    /\ poll[p].pc = "each" /\ poll[p].todo = {}
    /\ marked \subseteq Gone(p) /\ marked # Gone(p)
    /\ inst' = Terminated(g, marked)
    /\ adrift' = adrift \cup (ilive \cap ({g} \X marked))
    /\ PollEnds(p, g, TRUE)
    /\ UNCHANGED <<group, reported, ilive, areq>>

\* A session is admitted to a healthy instance of an active group.
InstConnect(g, i) ==
    /\ group[g] = "active" /\ Healthy(inst[g][i])
    /\ ilive' = ilive \cup {<<g, i>>}
    /\ UNCHANGED <<group, inst, poll, sched, reported, areq, adrift>>

GroupSteps ==
    \/ \E g \in Groups : Elapse(g) \/ \E p \in Pollers : PollStart(p, g)
    \/ \E p \in Pollers : PollFail(p) \/ PollMark(p) \/ \E marked \in SUBSET Insts : PollMarkFails(p, marked)
    \/ \E p \in Pollers, ids \in SUBSET Insts : \E snap \in [ids -> BOOLEAN] : PollDescribe(p, snap)
    \/ \E p \in Pollers, i \in Insts :
          \/ PollUnhealthy(p, i)
          \/ \E res \in Probe, ok \in BOOLEAN, console \in {"match", "another", "none"} :
                PollInstance(p, i, res, ok, console)
    \/ \E g \in Groups, i \in Insts : InstConnect(g, i)

-----------------------------------------------------------------------------
(* AdminHandler.                                                           *)

GroupCreate(g, status, c) ==
    /\ group[g] = "free"
    /\ group' = [group EXCEPT ![g] = status]
    /\ BindSlot(g, c)
    /\ UNCHANGED <<inst, poll, sched, reported, ilive, areq, adrift, cred, creq>>

\* update: taken out of service, it keeps no session on any instance.
GroupUpdate(g, status, c) ==
    /\ GroupEnrolled(g)
    /\ group' = [group EXCEPT ![g] = status]
    /\ BindSlot(g, c)
    /\ ilive' = IF group[g] = "active" /\ status = "disabled" THEN ilive \ ({g} \X Insts) ELSE ilive
    /\ UNCHANGED <<inst, poll, sched, reported, areq, adrift, cred, creq>>

\* delete: the instances are listed, then the transaction, then the sessions of those listed.
GroupDeleteRead(g) ==
    /\ GroupEnrolled(g) /\ areq.pc = "idle"
    /\ areq' = [AdminIdle EXCEPT !.pc = "delete", !.group = g,
                                 !.ids = {i \in Insts : inst[g][i].state # "absent"}]
    /\ UNCHANGED <<group, inst, poll, sched, reported, ilive, adrift, credVars>>

GroupDelete ==
    /\ areq.pc = "delete"
    /\ areq' = AdminIdle
    /\ group' = [group EXCEPT ![areq.group] = "deleted"]
    /\ BindSlot(areq.group, None)
    /\ ilive' = ilive \ ({areq.group} \X areq.ids)
    /\ UNCHANGED <<inst, poll, sched, reported, adrift, cred, creq>>

\* setCredential: the old binding goes in one statement, the new one comes in another.
GroupUnbind(g, c) ==
    /\ GroupEnrolled(g) /\ areq.pc = "idle"
    /\ BindSlot(g, None)
    /\ areq' = IF c = None THEN areq ELSE [AdminIdle EXCEPT !.pc = "bind", !.group = g, !.cred = c]
    /\ UNCHANGED <<group, inst, poll, sched, reported, ilive, adrift, cred, creq>>

GroupBind ==
    /\ areq.pc = "bind"
    /\ areq' = AdminIdle
    /\ IF Stored(areq.cred) THEN BindSlot(areq.group, areq.cred) ELSE UNCHANGED bound
    /\ UNCHANGED <<group, inst, poll, sched, reported, ilive, adrift, cred, creq>>

GroupAdmin ==
    \/ \E g \in Groups, st \in {"active", "disabled"}, c \in Creds \cup {None} :
          GroupCreate(g, st, c) \/ GroupUpdate(g, st, c)
    \/ \E g \in Groups, c \in Creds \cup {None} : GroupUnbind(g, c)
    \/ \E g \in Groups : GroupDeleteRead(g)
    \/ GroupDelete \/ GroupBind

\* Credentials, targets and groups together.
estateVars == <<credVars, targetVars, groupVars>>
EstateInit == CredInit /\ TargetInit /\ GroupInit
EstateNext ==
    \/ CredNext /\ UNCHANGED <<targetVars, groupVars>>
    \/ TargetNext /\ UNCHANGED groupVars
    \/ GroupSteps /\ UNCHANGED <<credVars, targetVars>>
    \/ GroupAdmin /\ UNCHANGED targetVars
EstateSpec == EstateInit /\ [][EstateNext]_estateVars

-----------------------------------------------------------------------------
\* A key or certificate pinned for an instance stays: polls of the loop and
\* of the handler, failures and restarts of the instance never put another in
\* its place (sync.go:183, "the key is never pinned in that case").
PinsKept ==
    [][\A g \in Groups, i \in Insts :
          /\ inst[g][i].hostKey # None => inst'[g][i].hostKey = inst[g][i].hostKey
          /\ \A l \in Listeners : inst[g][i].pin[l] # None => inst'[g][i].pin[l] = inst[g][i].pin[l]]_inst

\* No session stays on an instance that is stored as unhealthy or terminated: it
\* was healthy when the session was admitted, and the poll that saw it turn or go
\* ended it.  Only a marking that fails after its first rows leaves the sessions
\* of those behind: MarkTerminated returns none of them and does not meet them again.
UnhealthyKeepsNone ==
    \A g \in Groups, i \in Insts : <<g, i>> \in ilive => Healthy(inst[g][i]) \/ <<g, i>> \in adrift

\* The estate under concurrent administrators and probes (credential/repo.go,
\* target/repo.go, asg/sync.go): a slot never names a credential that is gone,
\* only a fingerprint that was approved is trusted, and an instance stored as
\* unhealthy keeps no session.
EstateSound ==
    /\ CredTypeOK /\ TargetTypeOK /\ GroupTypeOK
    /\ BoundCredentialExists /\ ApprovedTrustOnly /\ UnhealthyKeepsNone
=============================================================================
