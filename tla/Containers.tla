----------------------------- MODULE Containers -----------------------------
(***************************************************************************)
(* The containers of application and database sessions: what browsergw's   *)
(* Start and dbgw's Bridge make for one session (a network, a helper - the *)
(* relay or the sidecar - and a guest - the browser or the client), how    *)
(* they take it down, and the reaper that removes what a crash or a failed *)
(* removal left behind, by label and age.                                  *)
(*                                                                         *)
(* The daemon is external: an object exists or not, a network with a       *)
(* container attached is not removed, and a command whose deadline passed  *)
(* may or may not have done its work.  A tick is one minute; set-up and    *)
(* the dial of guacd after it have budgets below one tick together.        *)
(***************************************************************************)
EXTENDS Naturals, FiniteSets

CONSTANTS
    Runs,         \* session ids; never used twice
    AppsMax,      \* AppsMaxSessions and DBMaxSessions, one cap for either kind
    MaxFaults,    \* bound: docker commands that fail
    MaxDeaths     \* bound: crashes of the gateway

ASSUME ContainersAssumption == AppsMax \in Nat \ {0} /\ MaxFaults \in Nat /\ MaxDeaths \in Nat

VARIABLES
    job,       \* [Runs -> what the session is, how far it is]
    made,      \* [Runs -> the docker objects that exist, each with its age in ticks]
    starting,  \* startingSet
    registry,  \* the sessions whose bridge is registered
    reap,      \* the pass of the reaper
    faults, deaths

containerVars == <<job, made, starting, registry, reap, faults, deaths>>

Parts == {"network", "helper", "guest"}
ReapMinAge == 2
Gone == 9            \* the age of an object that does not exist
Ages == (0 .. ReapMinAge) \cup {Gone}
NoRun == "none"
Resting == [pc |-> "idle", todo |-> {}, read |-> NoRun, doomed |-> {}]

(* The stages of a session.  "waiting" has no row yet, "close" takes down  *)
(* its objects; a database session registers before its images, an         *)
(* application after guacd answered.                                       *)
Stages == {"waiting", "admitted", "images", "network", "helper", "guest", "ready", "bridge", "close", "over", "dead"}
SettingUp == {"network", "helper", "guest", "ready"}

ContainerTypeOK ==
    /\ job \in [Runs -> [kind : {"app", "db"}, pc : Stages, undo : SUBSET Parts]]
    /\ made \in [Runs -> [Parts -> Ages]]
    /\ starting \subseteq Runs /\ registry \subseteq Runs
    /\ reap \in [pc : {"idle", "containers", "networks"}, todo : SUBSET Runs,
                 read : Runs \cup {NoRun}, doomed : SUBSET (Runs \X Parts)]
    /\ faults \in 0 .. MaxFaults /\ deaths \in 0 .. MaxDeaths

ContainerInit ==
    /\ \E kind \in [Runs -> {"app", "db"}] :
           job = [s \in Runs |-> [kind |-> kind[s], pc |-> "waiting", undo |-> {}]]
    /\ made = [s \in Runs |-> [p \in Parts |-> Gone]]
    /\ starting = {} /\ registry = {} /\ reap = Resting
    /\ faults = 0 /\ deaths = 0

Exists(s) == {p \in Parts : made[s][p] # Gone}
To(s, pc) == job' = [job EXCEPT ![s].pc = pc]
rest == UNCHANGED <<reap, deaths>>

-----------------------------------------------------------------------------
(* The session: connect/browser.go and connect/database.go.                *)

(* The cap is counted over the registry, not reserved.                     *)
Admit(s) ==
    /\ job[s].pc = "waiting"
    /\ Cardinality({l \in registry : job[l].kind = job[s].kind}) < AppsMax
    /\ To(s, "admitted")
    /\ UNCHANGED <<made, starting, registry, faults>> /\ rest

(* startRun marks the session as starting; a database session's live() then *)
(* registers it before anything is made.                                   *)
StartRun(s) ==
    /\ job[s].pc = "admitted"
    /\ To(s, "images")
    /\ IF job[s].kind = "db"
       THEN registry' = registry \cup {s} /\ UNCHANGED starting
       ELSE starting' = starting \cup {s} /\ UNCHANGED registry
    /\ UNCHANGED <<made, faults>> /\ rest

(* EnsureImage, under a deadline of its own: nothing is made yet.          *)
EnsureImages(s) ==
    /\ job[s].pc = "images"
    /\ \/ To(s, "network") /\ UNCHANGED faults
       \/ faults < MaxFaults /\ faults' = faults + 1 /\ To(s, "close")
    /\ UNCHANGED <<made, starting, registry>> /\ rest

After(p) == CASE p = "network" -> "helper" [] p = "helper" -> "guest" [] p = "guest" -> "ready"

(* One docker command of the set-up.  Its removal is kept once it worked;  *)
(* one that failed may have left its object, which nobody will remove here. *)
Make(s, p) ==
    /\ job[s].pc = p
    /\ job' = [job EXCEPT ![s].pc = After(p), ![s].undo = @ \cup {p}]
    /\ made' = [made EXCEPT ![s][p] = 0]
    /\ UNCHANGED <<starting, registry, faults>> /\ rest
MakeFails(s, p) ==
    /\ job[s].pc = p /\ faults < MaxFaults /\ faults' = faults + 1
    /\ To(s, "close")
    /\ \/ made' = [made EXCEPT ![s][p] = 0]
       \/ UNCHANGED made
    /\ UNCHANGED <<starting, registry>> /\ rest

(* Egress, addresses and readiness failed, or guacd did not answer.        *)
ReadyFails(s) ==
    /\ job[s].pc = "ready" /\ faults < MaxFaults /\ faults' = faults + 1
    /\ To(s, "close")
    /\ starting' \in {starting, starting \ {s}}
    /\ UNCHANGED <<made, registry>> /\ rest

(* run.live(): the registry first, then the session is starting no longer. *)
Register(s) ==
    /\ job[s].pc = "ready"
    /\ registry' = registry \cup {s}
    /\ To(s, "bridge")
    /\ UNCHANGED <<made, starting, faults>> /\ rest
Unmark(s) ==
    /\ job[s].pc = "bridge" /\ s \in starting
    /\ starting' = starting \ {s}
    /\ UNCHANGED <<job, made, registry, faults>> /\ rest

(* The bridge returns; an application's done() runs before its objects go. *)
BridgeEnds(s) ==
    /\ job[s].pc = "bridge" /\ s \notin starting
    /\ To(s, "close")
    /\ registry' = IF job[s].kind = "app" THEN registry \ {s} ELSE registry
    /\ UNCHANGED <<made, starting, faults>> /\ rest

(* The removals, newest first; a failure is ignored.  The daemon refuses a *)
(* network a container is attached to.                                     *)
NewestMut(undo) == IF "network" \in undo THEN "network" ELSE IF "helper" \in undo THEN "helper" ELSE "guest"
Newest(undo) == IF "guest" \in undo THEN "guest" ELSE IF "helper" \in undo THEN "helper" ELSE "network"
Removable(s, p) == made[s][p] # Gone /\ (p = "network" => Exists(s) = {"network"})
Undo(s) ==
    /\ job[s].pc = "close" /\ job[s].undo # {}
    /\ LET p == Newest(job[s].undo)
       IN /\ job' = [job EXCEPT ![s].undo = @ \ {p}]
          /\ \/ /\ made' = IF Removable(s, p) THEN [made EXCEPT ![s][p] = Gone] ELSE made
                /\ UNCHANGED faults
             \/ faults < MaxFaults /\ faults' = faults + 1 /\ UNCHANGED made
    /\ UNCHANGED <<starting, registry>> /\ rest
Over(s) ==
    /\ job[s].pc = "close" /\ job[s].undo = {}
    /\ To(s, "over")
    /\ starting' = starting \ {s} /\ registry' = registry \ {s}
    /\ UNCHANGED <<made, faults>> /\ rest

-----------------------------------------------------------------------------
(* The reaper: ReapWith and the live function it is given.                 *)

ofKindMut(pc) == {"helper", "guest"}
ofKind(pc) == IF pc = "containers" THEN {"helper", "guest"} ELSE {"network"}
OldMut(s, p) == made[s][p] # Gone
Old(s, p) == made[s][p] = ReapMinAge

(* A listing by label; one that fails ends the pass.                       *)
ReapList(pc) ==
    /\ \/ pc = "containers" /\ reap.pc = "idle"
       \/ pc = "networks" /\ reap.pc = "containers" /\ reap.todo = {} /\ reap.read = NoRun /\ reap.doomed = {}
    /\ \/ /\ reap' = [pc |-> pc, todo |-> {s \in Runs : \E p \in ofKind(pc) : Old(s, p)},
                      read |-> NoRun, doomed |-> {}]
          /\ UNCHANGED faults
       \/ faults < MaxFaults /\ faults' = faults + 1 /\ reap' = Resting
    /\ UNCHANGED <<job, made, starting, registry, deaths>>

(* live(id): the registry is read, then the set of starting sessions.      *)
AskRegistry(s) ==
    /\ s \in reap.todo /\ reap.read = NoRun
    /\ reap' = [reap EXCEPT !.todo = @ \ {s}, !.read = IF s \in registry THEN NoRun ELSE s]
    /\ UNCHANGED <<job, made, starting, registry, faults, deaths>>
AskStarting ==
    /\ reap.read # NoRun
    /\ reap' = [reap EXCEPT !.read = NoRun,
                            !.doomed = IF reap.read \in starting THEN @
                                       ELSE @ \cup {<<reap.read, p>> : p \in {q \in ofKind(reap.pc) : Old(reap.read, q)}}]
    /\ UNCHANGED <<job, made, starting, registry, faults, deaths>>
ReapRemove(s, p) ==
    /\ <<s, p>> \in reap.doomed /\ reap.todo = {} /\ reap.read = NoRun
    /\ reap' = [reap EXCEPT !.doomed = @ \ {<<s, p>>}]
    /\ \/ /\ made' = IF Removable(s, p) THEN [made EXCEPT ![s][p] = Gone] ELSE made
          /\ UNCHANGED faults
       \/ faults < MaxFaults /\ faults' = faults + 1 /\ UNCHANGED made
    /\ UNCHANGED <<job, starting, registry, deaths>>
ReapDone ==
    /\ reap.pc = "networks" /\ reap.todo = {} /\ reap.read = NoRun /\ reap.doomed = {}
    /\ reap' = Resting
    /\ UNCHANGED <<job, made, starting, registry, faults, deaths>>

ReaperPass == AskStarting \/ ReapDone \/ \E pc \in {"containers", "networks"} : ReapList(pc)
                \/ \E s \in Runs : AskRegistry(s) \/ \E p \in Parts : ReapRemove(s, p)

-----------------------------------------------------------------------------
(* Time and crashes.                                                       *)

(* A minute passes; a set-up that began before the last one has ended.     *)
Minute ==
    /\ \E s \in Runs : \E p \in Parts : made[s][p] < ReapMinAge
    /\ \A s \in Runs : job[s].pc \in SettingUp => \A p \in Parts : made[s][p] \in {0, Gone}
    /\ made' = [s \in Runs |-> [p \in Parts |-> IF made[s][p] < ReapMinAge THEN made[s][p] + 1 ELSE made[s][p]]]
    /\ UNCHANGED <<job, starting, registry, reap, faults, deaths>>

(* The process dies and its successor starts with nothing in memory.       *)
Dies ==
    /\ deaths < MaxDeaths /\ deaths' = deaths + 1
    /\ job' = [s \in Runs |-> IF job[s].pc \in {"waiting", "over"} THEN job[s] ELSE [job[s] EXCEPT !.pc = "dead", !.undo = {}]]
    /\ starting' = {} /\ registry' = {} /\ reap' = Resting
    /\ UNCHANGED <<made, faults>>

RunSteps(s) == Admit(s) \/ StartRun(s) \/ EnsureImages(s) \/ ReadyFails(s) \/ Register(s) \/ Unmark(s)
                 \/ BridgeEnds(s) \/ Undo(s) \/ Over(s) \/ \E p \in Parts : Make(s, p) \/ MakeFails(s, p)

ContainerNext == Minute \/ Dies \/ ReaperPass \/ \E s \in Runs : RunSteps(s)
ContainerSpec == ContainerInit /\ [][ContainerNext]_containerVars

(* The commands of a set-up and of a removal have deadlines.               *)
Deadlines(s) == ReadyFails(s) \/ Register(s) \/ Undo(s) \/ Over(s) \/ \E p \in Parts : Make(s, p) \/ MakeFails(s, p)

(* The reaper's ticker and the clock do not stop, and no session is stuck  *)
(* in a command.                                                           *)
ContainerFairness == WF_containerVars(ReaperPass) /\ WF_containerVars(Minute)
                       /\ \A s \in Runs : WF_containerVars(Deadlines(s))

-----------------------------------------------------------------------------

(* "A session this process still runs is never touched": no step of the    *)
(* reaper takes an object from a session that is setting up or bridging,   *)
(* although live() reads the registry and the starting set one after the   *)
(* other and the session moves from one to the other in between - the age  *)
(* an object must have covers that.                                        *)
ReaperSparesRunning ==
    [][\A s \in Runs : \A p \in Parts :
           ReapRemove(s, p) /\ made[s][p] # Gone => job[s].pc \notin SettingUp \cup {"images", "bridge"}]_containerVars

(* The removals are ordered so that a session whose docker commands all    *)
(* worked leaves no container and no network.                              *)
TeardownLeavesNothing ==
    \A s \in Runs : job[s].pc = "over" /\ faults = 0 => Exists(s) = {}

(* What a crash or a failed removal left is gone in the end: the containers *)
(* first, then the network they held.                                      *)
LeftoversGo == \A s \in Runs : (job[s].pc \in {"over", "dead"} /\ Exists(s) # {}) ~> Exists(s) = {}

\* The containers of a session that ends go (browsergw Close, dbgw), nothing
\* staying when each removal works, and those of a session that runs stay
\* (reaper.go).
ContainersSound == [](ContainerTypeOK /\ TeardownLeavesNothing) /\ ReaperSparesRunning
=============================================================================
