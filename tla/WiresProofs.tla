----------------------------- MODULE WiresProofs ----------------------------
(***************************************************************************)
(* What carries a running session, proved for every value of the           *)
(* constants: the policy on a desktop's streams, the bridge between a      *)
(* browser and a target, the containers of application and database        *)
(* sessions, the relays beside them, and what a watcher of a terminal      *)
(* sees.  Each part has its inductive invariant, what that says beyond the *)
(* property being what the steps in between rely on.                       *)
(***************************************************************************)
EXTENDS MCWires, TLAPS

-----------------------------------------------------------------------------
(* StreamFilter.  The policy on a desktop's streams.                       *)

\* While an index carries a stream the filter has it blocked exactly when the stream is
\* one the policy refuses; of an index that carries none it may remember anything.
BlockedIsRefused ==
    \A i \in Indexes : stream[i] # Idle => (i \in blocked <=> stream[i] \in Refused)

FilterIInv == FilterTypeOK /\ BlockedIsRefused /\ FilterExact

\* Every step of the filter keeps its invariant.
LEMMA FilterNextIInv == FilterIInv /\ [FilterNext]_filterVars => FilterIInv'
<1> SUFFICES ASSUME FilterIInv, [FilterNext]_filterVars PROVE FilterIInv'
  OBVIOUS
<1> USE FilterAssumption DEF FilterIInv
<1>1. ASSUME NEW op \in Opening, NEW i \in Indexes, FilterOpen(op, i) PROVE FilterIInv'
  <2>1. FilterTypeOK'
    BY <1>1 DEF FilterOpen, FilterTypeOK, allows
  <2>2. BlockedIsRefused'
    BY <1>1 DEF FilterOpen, FilterTypeOK, BlockedIsRefused, allows
  <2>3. FilterExact'
    BY <1>1 DEF FilterOpen, FilterExact
  <2> QED BY <2>1, <2>2, <2>3
<1>2. ASSUME NEW i \in Indexes, FilterBlob(i) \/ FilterEnd(i) PROVE FilterIInv'
  <2>1. \E op \in {"blob", "end"} : last' = [op |-> op, pass |-> i \notin blocked, of |-> stream[i]]
    BY <1>2 DEF FilterBlob, FilterEnd
  <2>2. \E op \in {"blob", "end"}, b \in BOOLEAN :
           /\ last' = [op |-> op, pass |-> b, of |-> stream[i]]
           /\ b <=> i \notin blocked
    <3>1. CASE i \in blocked
      <4>1. (i \notin blocked) = FALSE
        BY <3>1
      <4> QED BY <2>1, <4>1, Zenon
    <3>2. CASE i \notin blocked
      <4>1. (i \notin blocked) = TRUE
        BY <3>2
      <4> QED BY <2>1, <4>1, Zenon
    <3> QED BY <3>1, <3>2
  <2>3. stream[i] \in Opening /\ (i \in blocked <=> stream[i] \in Refused)
    BY <1>2 DEF FilterBlob, FilterEnd, FilterTypeOK, BlockedIsRefused
  <2>4. FilterTypeOK'
    BY <1>2, <2>2, <2>3 DEF FilterBlob, FilterEnd, FilterTypeOK
  <2>5. BlockedIsRefused'
    BY <1>2 DEF FilterBlob, FilterEnd, FilterTypeOK, BlockedIsRefused
  <2>6. FilterExact'
    BY <2>2, <2>3 DEF FilterExact, allows
  <2> QED BY <2>4, <2>5, <2>6
<1>3. ASSUME NEW i \in Indexes, Declined(i) PROVE FilterIInv'
  BY <1>3 DEF Declined, FilterTypeOK, BlockedIsRefused, FilterExact, allows
<1>4. ASSUME NEW op \in Plain, FilterPlain(op) PROVE FilterIInv'
  BY <1>4 DEF FilterPlain, FilterTypeOK, BlockedIsRefused, FilterExact, allows
<1>5. CASE FilterMalformed
  BY <1>5 DEF FilterMalformed, FilterTypeOK, BlockedIsRefused, FilterExact, allows
<1>6. CASE UNCHANGED filterVars
  BY <1>6 DEF filterVars, FilterTypeOK, BlockedIsRefused, FilterExact, allows
<1> QED BY <1>1, <1>2, <1>3, <1>4, <1>5, <1>6 DEF FilterNext

\* Whatever streams the sender opens, ends, abandons or has declined, and however it
\* reuses their indexes (guac/bridge.go, streamFilter): a stream's data passes exactly
\* when the policy allows the stream.
THEOREM StreamsStaySound == FilterSpec => []StreamsSound
<1>1. FilterInit => FilterIInv
  BY FilterAssumption DEF FilterInit, FilterIInv, FilterTypeOK, BlockedIsRefused, FilterExact
<1>2. FilterIInv => StreamsSound
  BY DEF FilterIInv, StreamsSound
<1> QED BY <1>1, <1>2, FilterNextIInv, PTL DEF FilterSpec

-----------------------------------------------------------------------------
(* Bridge.  The end of a session.                                          *)

\* The watch closes the socket at the second ping missed.
PingsBelow == socket = "open" => missed < pingMissed

\* While nothing but a cancellation has happened, the browser reads, its socket is open
\* and read, no goroutine has set a reason, and only a client or executor that the
\* cancellation itself stopped has ended.
OnlyCancelled == own = {} =>
    /\ browser = "reading"
    /\ target # "up" => kind = "db" /\ cause # NotYet
    /\ main # "returned" => in = "read" /\ socket = "open" /\ missed = 0 /\ reason = "user_exit"
    /\ main # "returned" /\ out = "done" => kind \in {"db", "winrm"} /\ cause # NotYet
    /\ main # "grace"
    /\ main = "drain" => kind = "db" /\ cause # NotYet
    /\ main = "finish" => next = cause /\ cause # NotYet
    /\ main = "returned" => result = cause /\ told = cause

BridgeIInv == BridgeTypeOK /\ PingsBelow /\ OnlyCancelled

\* Steps of the peers and of the session manager.
LEMMA BridgeEnvironment ==
    ASSUME BridgeIInv, Environment \/ ClientKilled
    PROVE  BridgeIInv'
<1> USE BridgeAssumption DEF BridgeIInv
<1>1. BridgeTypeOK'
  <2>1. CASE BrowserLeaves
    BY <2>1 DEF BrowserLeaves, others, BridgeTypeOK, Reasons, NotYet
  <2>2. CASE BrowserStalls
    BY <2>2 DEF BrowserStalls, others, BridgeTypeOK, Reasons, NotYet
  <2>3. CASE BrowserResumes
    BY <2>3 DEF BrowserResumes, others, BridgeTypeOK, Reasons, NotYet
  <2>4. CASE TargetEnds
    BY <2>4 DEF TargetEnds, others, BridgeTypeOK, Reasons, NotYet
  <2>5. CASE Cancel
    BY <2>5 DEF Cancel, others, BridgeTypeOK, Reasons, NotYet
  <2>6. CASE ClientKilled
    BY <2>6 DEF ClientKilled, others, BridgeTypeOK, Reasons, NotYet
  <2> QED BY <2>1, <2>2, <2>3, <2>4, <2>5, <2>6 DEF Environment
<1>2. PingsBelow'
  BY DEF PingsBelow, Environment, BrowserLeaves, BrowserStalls, BrowserResumes, TargetEnds, Cancel, ClientKilled, others
<1>3. OnlyCancelled'
  BY DEF OnlyCancelled, BridgeTypeOK, Environment, BrowserLeaves, BrowserStalls, BrowserResumes, TargetEnds, Cancel, ClientKilled, others, NotYet
<1> QED BY <1>1, <1>2, <1>3

\* Steps of the pumps and the watcher.
LEMMA BridgeGoroutines ==
    ASSUME BridgeIInv, OutData \/ OutEnds \/ OutWrite \/ InRead \/ InWriteFails \/ WatchPing
    PROVE  BridgeIInv'
<1> USE BridgeAssumption DEF BridgeIInv
<1>1. BridgeTypeOK'
  <2>1. CASE OutData
    <3>1. /\ reason' \in {reason, "error"} /\ own' \in {own, own \cup {"recording"}} /\ out' \in {"write", "done"}
          /\ UNCHANGED <<socket, in, main, missed, kind, browser, target, cause, next, result, told, stalls>>
      BY <2>1 DEF OutData, goroutine, setEnd
    <3>2. own' \subseteq {"browser", "target", "recording", "limit", "input"}
      BY <3>1 DEF BridgeTypeOK
    <3> QED BY <3>1, <3>2 DEF BridgeTypeOK, Reasons
  <2>2. CASE SshOutEnds
    BY <2>2 DEF SshOutEnds, goroutine, setEnd, PingsBelow, pingMissed, BridgeTypeOK, Reasons, NotYet
  <2>3. CASE DbOutEnds
    BY <2>3 DEF DbOutEnds, goroutine, setEnd, PingsBelow, pingMissed, BridgeTypeOK, Reasons, NotYet
  <2>4. CASE GuacOutEnds
    BY <2>4 DEF GuacOutEnds, goroutine, setEnd, PingsBelow, pingMissed, BridgeTypeOK, Reasons, NotYet
  <2>5. CASE ExecutorEnds
    BY <2>5 DEF ExecutorEnds, goroutine, setEnd, PingsBelow, pingMissed, BridgeTypeOK, Reasons, NotYet
  <2>6. CASE ExecutorCancelled
    BY <2>6 DEF ExecutorCancelled, goroutine, setEnd, PingsBelow, pingMissed, BridgeTypeOK, Reasons, NotYet
  <2>7. CASE OutWrite
    BY <2>7 DEF OutWrite, goroutine, setEnd, PingsBelow, pingMissed, BridgeTypeOK, Reasons, NotYet
  <2>8. CASE InRead
    BY <2>8 DEF InRead, goroutine, setEnd, PingsBelow, pingMissed, BridgeTypeOK, Reasons, NotYet
  <2>9. CASE InWriteFails
    BY <2>9 DEF InWriteFails, goroutine, setEnd, PingsBelow, pingMissed, BridgeTypeOK, Reasons, NotYet
  <2>10. CASE WatchPing
    BY <2>10 DEF WatchPing, goroutine, setEnd, PingsBelow, pingMissed, BridgeTypeOK, Reasons, NotYet
  <2> QED BY <2>1, <2>2, <2>3, <2>4, <2>5, <2>6, <2>7, <2>8, <2>9, <2>10 DEF OutEnds
<1>2. PingsBelow'
  BY DEF BridgeTypeOK, PingsBelow, pingMissed, OutData, OutEnds, SshOutEnds, DbOutEnds, GuacOutEnds, ExecutorEnds, ExecutorCancelled,
         OutWrite, InRead, InWriteFails, WatchPing, goroutine
<1>3. OnlyCancelled'
  BY DEF BridgeTypeOK, OnlyCancelled, pingMissed, OutData, OutEnds, SshOutEnds, DbOutEnds, GuacOutEnds, ExecutorEnds, ExecutorCancelled,
         OutWrite, InRead, InWriteFails, WatchPing, goroutine
<1> QED BY <1>1, <1>2, <1>3

\* Steps of the loop of the bridge.
LEMMA BridgeLoop ==
    ASSUME BridgeIInv, Loop \/ SelectTick
    PROVE  BridgeIInv'
<1> USE BridgeAssumption DEF BridgeIInv
<1>1. BridgeTypeOK'
  <2>1. CASE SelectCancelled
    BY <2>1 DEF SelectCancelled, loop, finishWith, setEnd, BridgeTypeOK, Reasons, NotYet
  <2>2. CASE SelectIn
    BY <2>2 DEF SelectIn, loop, finishWith, setEnd, BridgeTypeOK, Reasons, NotYet
  <2>3. CASE SelectWait
    BY <2>3 DEF SelectWait, loop, finishWith, setEnd, BridgeTypeOK, Reasons, NotYet
  <2>4. CASE Drained
    BY <2>4 DEF Drained, loop, finishWith, setEnd, BridgeTypeOK, Reasons, NotYet
  <2>5. CASE SelectExecutor
    BY <2>5 DEF SelectExecutor, loop, finishWith, setEnd, BridgeTypeOK, Reasons, NotYet
  <2>6. CASE SelectGuacd
    BY <2>6 DEF SelectGuacd, loop, finishWith, setEnd, BridgeTypeOK, Reasons, NotYet
  <2>7. CASE SelectSshOut
    BY <2>7 DEF SelectSshOut, loop, finishWith, setEnd, BridgeTypeOK, Reasons, NotYet
  <2>8. CASE SelectDbOut
    BY <2>8 DEF SelectDbOut, loop, finishWith, setEnd, BridgeTypeOK, Reasons, NotYet
  <2>9. CASE Grace
    BY <2>9 DEF Grace, loop, finishWith, setEnd, BridgeTypeOK, Reasons, NotYet
  <2>10. CASE Finish
    BY <2>10 DEF Finish, loop, finishWith, setEnd, BridgeTypeOK, Reasons, NotYet
  <2>11. CASE SelectTick
    BY <2>11 DEF SelectTick, loop, finishWith, setEnd, BridgeTypeOK, Reasons, NotYet
  <2> QED BY <2>1, <2>2, <2>3, <2>4, <2>5, <2>6, <2>7, <2>8, <2>9, <2>10, <2>11 DEF Loop
<1>2. PingsBelow'
  BY DEF PingsBelow, Loop, SelectCancelled, SelectIn, SelectWait, Drained, SelectExecutor, SelectGuacd, SelectSshOut, SelectDbOut,
         Grace, Finish, SelectTick, loop
<1>3. OnlyCancelled'
  BY DEF BridgeTypeOK, OnlyCancelled, Loop, SelectCancelled, SelectIn, SelectWait, Drained, SelectExecutor, SelectGuacd, SelectSshOut,
         SelectDbOut, Grace, Finish, SelectTick, loop, finishWith, setEnd, NotYet
<1> QED BY <1>1, <1>2, <1>3

\* In every interleaving of a bridge's goroutines with the browser, the target and the
\* registry (sshgw, winrmgw, dbgw, guac): a session that only a cancellation touched
\* returns with its cause, and the browser has read that cause.
THEOREM BridgeStaysSound == BridgeSpec => []BridgeSound
<1>1. BridgeInit => BridgeIInv
  BY BridgeAssumption DEF BridgeInit, BridgeIInv, BridgeTypeOK, PingsBelow, OnlyCancelled, pingMissed, Reasons, NotYet
<1>2. BridgeIInv /\ [BridgeNext]_bridgeVars => BridgeIInv'
  <2> SUFFICES ASSUME BridgeIInv, [BridgeNext]_bridgeVars PROVE BridgeIInv'
    OBVIOUS
  <2>1. CASE UNCHANGED bridgeVars
    BY <2>1 DEF bridgeVars, BridgeIInv, BridgeTypeOK, PingsBelow, OnlyCancelled
  <2> QED BY <2>1, BridgeEnvironment, BridgeGoroutines, BridgeLoop DEF BridgeNext
<1>3. BridgeIInv => BridgeSound
  BY DEF BridgeIInv, BridgeSound, OnlyCancelled, CauseKeptAndTold
<1> QED BY <1>1, <1>2, <1>3, PTL DEF BridgeSpec

-----------------------------------------------------------------------------
(* Containers.  What a session makes, takes down and loses to the reaper.  *)

Running == SettingUp \cup {"images", "bridge"}
Leaving == {"close", "over", "dead"}

\* Where a session is, what it has made and which process state names it.  A session
\* that has made nothing has no object; one setting up has none older than a minute.
MadeKnown ==
    \A s \in Runs :
        /\ job[s].pc \in {"waiting", "admitted", "images"} => \A p \in Parts : made[s][p] = Gone
        /\ job[s].pc \in SettingUp => \A p \in Parts : made[s][p] \in {0, 1, Gone}
        /\ job[s].pc = "bridge" => s \in registry
        /\ faults = 0 /\ job[s].pc # "dead" => \A p \in Parts : made[s][p] # Gone => p \in job[s].undo
        /\ job[s].pc = "over" => job[s].undo = {}

\* What the reaper listed was old enough, so its session's set-up is over; what it found
\* in neither map belongs to a session that is leaving.
ReaperKnows ==
    /\ \A s \in reap.todo : job[s].pc \in Leaving \cup {"bridge"}
    /\ reap.read # NoRun => job[reap.read].pc \in Leaving
    /\ \A x \in reap.doomed : job[x[1]].pc \in Leaving

ContainerIInv == ContainerTypeOK /\ MadeKnown /\ ReaperKnows

\* A step that leaves the reaper alone, and no session the reaper has named goes back.
LEMMA ReaperUndisturbed ==
    ASSUME ContainerIInv, ContainerTypeOK', reap' = reap,
           \A s \in Runs : /\ job[s].pc \in Leaving => job'[s].pc \in Leaving
                           /\ job[s].pc = "bridge" => job'[s].pc \in Leaving \cup {"bridge"}
    PROVE  ReaperKnows'
<1>1. /\ reap.todo \subseteq Runs /\ reap.read \in Runs \cup {NoRun} /\ \A x \in reap.doomed : x[1] \in Runs
  BY DEF ContainerIInv, ContainerTypeOK
<1> QED BY <1>1 DEF ContainerIInv, ReaperKnows

\* One object made or removed.
LEMMA OneObject ==
    ASSUME NEW s \in Runs, NEW p \in Parts, NEW v \in Ages, made \in [Runs -> [Parts -> Ages]],
           made' = [made EXCEPT ![s][p] = v]
    PROVE  /\ made' \in [Runs -> [Parts -> Ages]]
           /\ \A r \in Runs : \A q \in Parts : made'[r][q] = IF r = s /\ q = p THEN v ELSE made[r][q]
<1> DEFINE g == [made[s] EXCEPT ![p] = v]
<1>1. g \in [Parts -> Ages] /\ \A q \in Parts : g[q] = IF q = p THEN v ELSE made[s][q]
  OBVIOUS
<1>2. made' = [made EXCEPT ![s] = g]
  OBVIOUS
<1> HIDE DEF g
<1>3. made' \in [Runs -> [Parts -> Ages]] /\ \A r \in Runs : made'[r] = IF r = s THEN g ELSE made[r]
  BY <1>1, <1>2
<1> QED BY <1>1, <1>3

\* The steps of a session.
LEMMA RunStepsKeep ==
    ASSUME ContainerIInv, NEW s \in Runs, RunSteps(s)
    PROVE  ContainerIInv'
<1> USE ContainersAssumption DEF ContainerIInv
<1> DEFINE J == [kind : {"app", "db"}, pc : Stages, undo : SUBSET Parts]
<1>0. /\ job \in [Runs -> J] /\ made \in [Runs -> [Parts -> Ages]] /\ starting \subseteq Runs /\ registry \subseteq Runs
      /\ faults \in 0 .. MaxFaults /\ 0 \in Ages /\ Gone \in Ages /\ MadeKnown /\ reap' = reap /\ deaths' = deaths
  <2>1. reap' = reap /\ deaths' = deaths
    BY DEF RunSteps, rest, Admit, StartRun, EnsureImages, ReadyFails, Register, Unmark, BridgeEnds, Undo, Over, Make, MakeFails
  <2>2. 0 \in Ages /\ Gone \in Ages
    BY DEF Ages, ReapMinAge
  <2> QED BY <2>1, <2>2 DEF ContainerTypeOK
<1>1. Parts = {"network", "helper", "guest"} /\ SettingUp = {"network", "helper", "guest", "ready"}
  BY DEF Parts, SettingUp
\* What a step may do, action by action.
<1>2. CASE Admit(s) \/ StartRun(s) \/ EnsureImages(s) \/ ReadyFails(s) \/ Register(s) \/ Unmark(s) \/ BridgeEnds(s) \/ Over(s)
  <2>1. /\ made' = made
        /\ job' \in [Runs -> J]
        /\ \A r \in Runs : /\ job'[r].undo = job[r].undo
                           /\ r # s => job'[r] = job[r] /\ (r \in registry' <=> r \in registry)
        /\ starting' \subseteq Runs /\ registry' \subseteq Runs
        /\ faults' \in 0 .. MaxFaults /\ (faults' = 0 => faults = 0)
    <3>1. made' = made
      BY <1>2 DEF Admit, StartRun, EnsureImages, ReadyFails, Register, Unmark, BridgeEnds, Over
    <3>2. job' = job \/ \E pc \in Stages : job' = [job EXCEPT ![s].pc = pc]
      BY <1>2 DEF Admit, StartRun, EnsureImages, ReadyFails, Register, Unmark, BridgeEnds, Over, To, Stages
    <3>3. job' \in [Runs -> J] /\ \A r \in Runs : job'[r].undo = job[r].undo /\ (r # s => job'[r] = job[r])
      <4>1. CASE job' = job
        BY <1>0, <4>1
      <4>2. ASSUME NEW pc \in Stages, job' = [job EXCEPT ![s].pc = pc] PROVE job' \in [Runs -> J]
        BY <1>0, <4>2
      <4>3. ASSUME NEW pc \in Stages, job' = [job EXCEPT ![s].pc = pc], NEW r \in Runs
            PROVE  job'[r].undo = job[r].undo /\ (r # s => job'[r] = job[r])
        BY <1>0, <4>3
      <4> QED BY <3>2, <4>1, <4>2, <4>3
    <3>4. starting' \in {starting, starting \ {s}, starting \cup {s}} /\ registry' \in {registry, registry \ {s}, registry \cup {s}}
      BY <1>2 DEF Admit, StartRun, EnsureImages, ReadyFails, Register, Unmark, BridgeEnds, Over
    <3>5. faults' = faults \/ (faults < MaxFaults /\ faults' = faults + 1)
      BY <1>2 DEF Admit, StartRun, EnsureImages, ReadyFails, Register, Unmark, BridgeEnds, Over
    <3>6. faults' \in 0 .. MaxFaults /\ (faults' = 0 => faults = 0)
      BY <1>0, <3>5
    <3>7. starting' \subseteq Runs /\ registry' \subseteq Runs /\ \A r \in Runs \ {s} : r \in registry' <=> r \in registry
      BY <1>0, <3>4
    <3> QED BY <3>1, <3>3, <3>6, <3>7
  <2>2. /\ job'[s].pc \in {"waiting", "admitted", "images"} => job[s].pc \in {"waiting", "admitted", "images"}
        /\ job'[s].pc \in SettingUp => job[s].pc \in {"images"} \cup SettingUp
        /\ job'[s].pc = "bridge" => s \in registry'
        /\ job'[s].pc # "dead" /\ (job[s].pc # "dead")
        /\ job'[s].pc = "over" => job[s].undo = {}
        /\ job[s].pc \in Leaving => job'[s].pc \in Leaving
        /\ job[s].pc = "bridge" => job'[s].pc \in Leaving \cup {"bridge"}
    BY <1>0, <1>1, <1>2 DEF Admit, StartRun, EnsureImages, ReadyFails, Register, Unmark, BridgeEnds, Over, To, rest, MadeKnown, Leaving
  <2>3. ContainerTypeOK'
    BY <1>0, <2>1 DEF ContainerTypeOK
  <2>4. MadeKnown'
    BY <1>0, <1>1, <2>1, <2>2 DEF MadeKnown
  <2>5. ReaperKnows'
    BY <1>0, <2>1, <2>2, <2>3, ReaperUndisturbed
  <2> QED BY <2>3, <2>4, <2>5
<1>3. ASSUME NEW p \in Parts, Make(s, p) \/ MakeFails(s, p) PROVE ContainerIInv'
  <2>1. /\ job[s].pc = p
        /\ UNCHANGED <<starting, registry>>
        /\ faults' \in 0 .. MaxFaults
        /\ made' = made \/ made' = [made EXCEPT ![s][p] = 0]
    BY <1>0, <1>3 DEF Make, MakeFails
  <2>2. /\ job' \in [Runs -> J] /\ \A r \in Runs \ {s} : job'[r] = job[r]
        /\ \/ faults' = faults /\ job'[s].pc \in {"helper", "guest", "ready"} /\ job'[s].undo = job[s].undo \cup {p}
           \/ faults' # 0 /\ job'[s].pc = "close" /\ job'[s].undo = job[s].undo
    <3>1. CASE Make(s, p)
      <4> DEFINE w == [job[s] EXCEPT !.pc = After(p), !.undo = @ \cup {p}]
      <4>1. After(p) \in {"helper", "guest", "ready"} /\ After(p) \in Stages
        BY <1>1 DEF After, Stages
      <4>2. w \in J /\ w.pc = After(p) /\ w.undo = job[s].undo \cup {p}
        BY <1>0, <4>1
      <4>3. job' = [job EXCEPT ![s] = w]
        BY <1>0, <3>1 DEF Make
      <4> HIDE DEF w
      <4>4. job' \in [Runs -> J] /\ job'[s] = w /\ \A r \in Runs \ {s} : job'[r] = job[r]
        <5> HIDE DEF J
        <5> QED BY <1>0, <4>2, <4>3
      <4>5. faults' = faults
        BY <3>1 DEF Make
      <4> QED BY <4>1, <4>2, <4>4, <4>5
    <3>2. CASE MakeFails(s, p)
      <4>1. job' = [job EXCEPT ![s].pc = "close"] /\ faults' = faults + 1
        BY <3>2 DEF MakeFails, To
      <4>2. faults' # 0
        BY <1>0, <4>1
      <4>3. job' \in [Runs -> J]
        BY <1>0, <4>1 DEF Stages
      <4> QED BY <1>0, <4>1, <4>2, <4>3
    <3> QED BY <1>3, <3>1, <3>2
  <2>3. made' \in [Runs -> [Parts -> Ages]] /\ \A r \in Runs : \A q \in Parts : made'[r][q] = made[r][q] \/ (r = s /\ q = p /\ made'[r][q] = 0)
    BY <1>0, <2>1, OneObject
  <2>4. ContainerTypeOK'
    BY <1>0, <2>1, <2>2, <2>3 DEF ContainerTypeOK
  <2>5. ASSUME NEW r \in Runs
        PROVE  /\ job'[r].pc \in {"waiting", "admitted", "images"} => \A q \in Parts : made'[r][q] = Gone
               /\ job'[r].pc \in SettingUp => \A q \in Parts : made'[r][q] \in {0, 1, Gone}
               /\ job'[r].pc = "bridge" => r \in registry'
               /\ faults' = 0 /\ job'[r].pc # "dead" => \A q \in Parts : made'[r][q] # Gone => q \in job'[r].undo
               /\ job'[r].pc = "over" => job'[r].undo = {}
    <3>1. CASE r # s
      <4>1. job'[r] = job[r] /\ \A q \in Parts : made'[r][q] = made[r][q]
        BY <2>2, <2>3, <3>1
      <4>2. faults' = 0 => faults = 0
        BY <2>2
      <4> QED BY <1>0, <2>1, <4>1, <4>2 DEF MadeKnown
    <3>2. CASE r = s
      <4>1. job[s].pc \in SettingUp /\ job[s].pc # "dead"
        BY <1>1, <2>1
      <4>2. job'[s].pc \in {"helper", "guest", "ready", "close"}
        BY <2>2
      <4> QED BY <1>0, <1>1, <2>2, <2>3, <3>2, <4>1, <4>2 DEF MadeKnown
    <3> QED BY <3>1, <3>2
  <2>6. MadeKnown'
    BY <2>5 DEF MadeKnown
  <2>7. ReaperKnows'
    <3>1. job[s].pc \notin Leaving /\ job[s].pc # "bridge"
      BY <1>1, <2>1 DEF Leaving
    <3> QED BY <1>0, <2>2, <2>4, <3>1, ReaperUndisturbed
  <2> QED BY <2>4, <2>6, <2>7
<1>4. CASE Undo(s)
  <2> DEFINE p == Newest(job[s].undo)
  <2>1. /\ job[s].pc = "close" /\ job[s].undo # {} /\ UNCHANGED <<starting, registry>>
        /\ job' = [job EXCEPT ![s].undo = job[s].undo \ {p}]
        /\ \/ faults' = faults /\ made' = IF Removable(s, p) THEN [made EXCEPT ![s][p] = Gone] ELSE made
           \/ faults < MaxFaults /\ faults' = faults + 1 /\ made' = made
    BY <1>4 DEF Undo
  <2>2. job[s].undo \subseteq Parts /\ p \in job[s].undo
    BY <1>0, <1>1, <2>1 DEF Newest
  <2>3. p = "network" => job[s].undo = {"network"}
    BY <1>1, <2>2 DEF Newest
  <2> HIDE DEF p
  <2>4. /\ job' \in [Runs -> J] /\ \A r \in Runs : job'[r].pc = job[r].pc /\ (r # s => job'[r].undo = job[r].undo)
        /\ job'[s].undo = job[s].undo \ {p}
    BY <1>0, <2>1
  <2>a. faults' \in 0 .. MaxFaults /\ (faults' = 0 => faults = 0)
    BY <1>0, <2>1
  <2>b. made' = made \/ made' = [made EXCEPT ![s][p] = Gone]
    BY <2>1
  <2>5. /\ made' \in [Runs -> [Parts -> Ages]]
        /\ \A r \in Runs : \A q \in Parts : made'[r][q] = made[r][q] \/ (r = s /\ q = p /\ made'[r][q] = Gone)
    BY <1>0, <2>2, <2>b, OneObject
  <2>6. faults' = 0 => made'[s][p] = Gone
    <3> SUFFICES ASSUME faults' = 0 PROVE made'[s][p] = Gone
      OBVIOUS
    <3>1. faults = 0 /\ made' = IF Removable(s, p) THEN [made EXCEPT ![s][p] = Gone] ELSE made
      BY <1>0, <2>1
    <3>2. \A q \in Parts : made[s][q] # Gone => q \in job[s].undo
      BY <1>0, <2>1, <3>1 DEF MadeKnown
    <3>3. made[s][p] # Gone => Removable(s, p)
      BY <2>2, <2>3, <3>2, <1>1 DEF Removable, Exists
    <3> QED BY <1>0, <2>2, <3>1, <3>3
  <2>7. ContainerTypeOK'
    BY <1>0, <2>1, <2>4, <2>5, <2>a DEF ContainerTypeOK
  <2>8. MadeKnown'
    BY <1>0, <1>1, <2>1, <2>4, <2>5, <2>6, <2>a DEF MadeKnown
  <2>9. ReaperKnows'
    BY <1>0, <2>4, <2>7, ReaperUndisturbed
  <2> QED BY <2>7, <2>8, <2>9
<1> QED BY <1>2, <1>3, <1>4 DEF RunSteps

\* The steps of the reaper.
LEMMA ReaperKeeps ==
    ASSUME ContainerIInv, ReaperPass
    PROVE  ContainerIInv'
<1> USE ContainersAssumption DEF ContainerIInv
<1> DEFINE R == [pc : {"idle", "containers", "networks"}, todo : SUBSET Runs, read : Runs \cup {NoRun}, doomed : SUBSET (Runs \X Parts)]
<1>0. /\ MadeKnown /\ ReaperKnows /\ reap \in R /\ made \in [Runs -> [Parts -> Ages]] /\ Gone \in Ages /\ faults \in 0 .. MaxFaults
      /\ \A s \in Runs : job[s].pc \in Stages
  BY DEF ContainerTypeOK, Ages
<1>1. /\ UNCHANGED <<job, starting, registry, deaths>>
      /\ faults' \in 0 .. MaxFaults /\ (faults' = 0 => faults = 0)
  <2>1. UNCHANGED <<job, starting, registry, deaths>> /\ (faults' = faults \/ (faults < MaxFaults /\ faults' = faults + 1))
    BY DEF ReaperPass, ReapList, AskRegistry, AskStarting, ReapRemove, ReapDone
  <2> QED BY <1>0, <2>1
<1>2. /\ made' \in [Runs -> [Parts -> Ages]]
      /\ \A s \in Runs : \A p \in Parts : made'[s][p] \in {made[s][p], Gone}
  <2>1. made' = made \/ \E s \in Runs, p \in Parts : made' = [made EXCEPT ![s][p] = Gone]
    BY DEF ReaperPass, ReapList, AskRegistry, AskStarting, ReapRemove, ReapDone
  <2> QED BY <1>0, <2>1, OneObject
<1>3. MadeKnown'
  BY <1>0, <1>1, <1>2 DEF MadeKnown
<1>4. reap' \in R /\ ReaperKnows'
  <2>1. Resting \in R /\ Resting.todo = {} /\ Resting.read = NoRun /\ Resting.doomed = {}
    BY DEF Resting
  <2>2. CASE reap' = Resting
    BY <2>1, <2>2 DEF ReaperKnows
  <2>3. ASSUME NEW pc \in {"containers", "networks"},
               reap' = [pc |-> pc, todo |-> {s \in Runs : \E p \in ofKind(pc) : Old(s, p)}, read |-> NoRun, doomed |-> {}]
        PROVE  reap' \in R /\ ReaperKnows'
    <3>1. ASSUME NEW s \in Runs, NEW p \in ofKind(pc), Old(s, p) PROVE job[s].pc \in Leaving \cup {"bridge"}
      <4>1. p \in Parts /\ made[s][p] = 2
        BY <3>1 DEF ofKind, Parts, Old, ReapMinAge
      <4>2. job[s].pc \notin {"waiting", "admitted", "images"} /\ job[s].pc \notin SettingUp
        BY <1>0, <4>1 DEF MadeKnown, Gone
      <4> QED BY <1>0, <4>2 DEF Stages, SettingUp, Leaving
    <3>2. reap'.todo = {s \in Runs : \E p \in ofKind(pc) : Old(s, p)} /\ reap'.read = NoRun /\ reap'.doomed = {}
      BY <2>3
    <3>3. \A s \in reap'.todo : job[s].pc \in Leaving \cup {"bridge"}
      BY <3>1, <3>2
    <3>4. reap' \in R
      BY <2>3
    <3> QED BY <1>1, <3>2, <3>3, <3>4 DEF ReaperKnows
  <2>4. ASSUME NEW s \in Runs, AskRegistry(s) PROVE reap' \in R /\ ReaperKnows'
    <3> DEFINE rd == IF s \in registry THEN NoRun ELSE s
    <3>1. reap' = [reap EXCEPT !.todo = reap.todo \ {s}, !.read = rd] /\ s \in reap.todo /\ rd \in Runs \cup {NoRun}
      BY <1>0, <2>4 DEF AskRegistry
    <3>2. rd # NoRun => job[rd].pc \in Leaving
      BY <1>0, <3>1 DEF ReaperKnows, MadeKnown
    <3> HIDE DEF rd
    <3>3. reap' \in R /\ reap'.todo = reap.todo \ {s} /\ reap'.read = rd /\ reap'.doomed = reap.doomed
      BY <1>0, <3>1
    <3> QED BY <1>0, <1>1, <3>2, <3>3 DEF ReaperKnows
  <2>5. CASE AskStarting
    <3> DEFINE d == IF reap.read \in starting THEN reap.doomed
                    ELSE reap.doomed \cup {<<reap.read, p>> : p \in {q \in ofKind(reap.pc) : Old(reap.read, q)}}
    <3>1. reap' = [reap EXCEPT !.read = NoRun, !.doomed = d] /\ reap.read # NoRun /\ reap.read \in Runs
      BY <1>0, <2>5 DEF AskStarting
    <3>2. d \in SUBSET (Runs \X Parts) /\ \A x \in d : x \in reap.doomed \/ x[1] = reap.read
      BY <1>0, <3>1 DEF ofKind, Parts
    <3> HIDE DEF d
    <3>3. reap' \in R /\ reap'.todo = reap.todo /\ reap'.read = NoRun /\ reap'.doomed = d
      BY <1>0, <3>1, <3>2
    <3> QED BY <1>0, <1>1, <3>1, <3>2, <3>3 DEF ReaperKnows
  <2>6. ASSUME NEW s \in Runs, NEW p \in Parts, ReapRemove(s, p) PROVE reap' \in R /\ ReaperKnows'
    <3>1. reap' \in R /\ reap'.todo = reap.todo /\ reap'.read = reap.read /\ reap'.doomed \subseteq reap.doomed
      BY <1>0, <2>6 DEF ReapRemove
    <3> QED BY <1>0, <1>1, <3>1 DEF ReaperKnows
  <2> QED BY <2>2, <2>3, <2>4, <2>5, <2>6 DEF ReaperPass, ReapList, ReapDone
<1>5. ContainerTypeOK'
  BY <1>1, <1>2, <1>4 DEF ContainerTypeOK
<1> QED BY <1>3, <1>4, <1>5

\* What the reaper removes is never a running session's.
SparesStep ==
    \A s \in Runs : \A p \in Parts :
        ReapRemove(s, p) /\ made[s][p] # Gone => job[s].pc \notin SettingUp \cup {"images", "bridge"}

\* Every step of the containers keeps the invariant.
LEMMA ContainerNextIInv ==
    ContainerIInv /\ [ContainerNext]_containerVars => ContainerIInv' /\ [SparesStep]_containerVars
<1> SUFFICES ASSUME ContainerIInv, [ContainerNext]_containerVars PROVE ContainerIInv' /\ SparesStep
  OBVIOUS
<1> USE ContainersAssumption
<1>1. SparesStep
  <2>1. ASSUME NEW s \in Runs, NEW p \in Parts, ReapRemove(s, p) PROVE job[s].pc \in Leaving
    <3>1. <<s, p>> \in reap.doomed
      BY <2>1 DEF ReapRemove
    <3> QED BY <3>1 DEF ContainerIInv, ReaperKnows
  <2> QED BY <2>1 DEF SparesStep, Leaving, SettingUp
<1>2. CASE UNCHANGED containerVars
  BY <1>1, <1>2 DEF containerVars, ContainerIInv, ContainerTypeOK, MadeKnown, ReaperKnows
<1>3. CASE Minute
  <2>1. UNCHANGED <<job, starting, registry, reap, faults, deaths>>
    BY <1>3 DEF Minute
  <2>2. \A s \in Runs : \A p \in Parts : made[s][p] \in Ages
    BY DEF ContainerIInv, ContainerTypeOK
  <2>3. made' = [s \in Runs |-> [p \in Parts |-> IF made[s][p] < ReapMinAge THEN made[s][p] + 1 ELSE made[s][p]]]
    BY <1>3 DEF Minute
  <2>4. \A s \in Runs : \A p \in Parts : /\ made'[s][p] \in Ages
                                         /\ made'[s][p] = Gone <=> made[s][p] = Gone
                                         /\ made[s][p] = 0 => made'[s][p] = 1
    BY <2>2, <2>3 DEF Ages, ReapMinAge, Gone
  <2>5. made' \in [Runs -> [Parts -> Ages]]
    BY <2>3, <2>4
  <2>6. ContainerTypeOK'
    BY <2>1, <2>5 DEF ContainerIInv, ContainerTypeOK
  <2>7. \A s \in Runs : job[s].pc \in SettingUp => \A p \in Parts : made[s][p] \in {0, Gone}
    BY <1>3 DEF Minute
  <2>8. MadeKnown'
    BY <2>1, <2>4, <2>7 DEF ContainerIInv, MadeKnown
  <2> QED BY <1>1, <2>1, <2>6, <2>8 DEF ContainerIInv, ReaperKnows
<1>4. CASE Dies
  <2>1. /\ starting' = {} /\ registry' = {} /\ reap' = Resting /\ UNCHANGED <<made, faults>>
        /\ job' = [s \in Runs |-> IF job[s].pc \in {"waiting", "over"} THEN job[s] ELSE [job[s] EXCEPT !.pc = "dead", !.undo = {}]]
        /\ deaths' \in 0 .. MaxDeaths
    <3>1. deaths \in 0 .. MaxDeaths /\ deaths < MaxDeaths /\ deaths' = deaths + 1
      BY <1>4 DEF Dies, ContainerIInv, ContainerTypeOK
    <3>2. deaths' \in 0 .. MaxDeaths
      BY <3>1
    <3> QED BY <1>4, <3>2 DEF Dies
  <2>2. \A s \in Runs : job[s] \in [kind : {"app", "db"}, pc : Stages, undo : SUBSET Parts]
    BY DEF ContainerIInv, ContainerTypeOK
  <2>3. \A s \in Runs : /\ job'[s] \in [kind : {"app", "db"}, pc : Stages, undo : SUBSET Parts]
                        /\ job'[s] = job[s] \/ job'[s].pc = "dead"
                        /\ job'[s].pc \in {"waiting", "over", "dead"}
    BY <2>1, <2>2 DEF Stages
  <2>4. job' \in [Runs -> [kind : {"app", "db"}, pc : Stages, undo : SUBSET Parts]]
    BY <2>1, <2>3
  <2>5. Resting \in [pc : {"idle", "containers", "networks"}, todo : SUBSET Runs, read : Runs \cup {NoRun}, doomed : SUBSET (Runs \X Parts)]
    BY DEF Resting
  <2>6. ContainerTypeOK'
    BY <2>1, <2>4, <2>5 DEF ContainerIInv, ContainerTypeOK
  <2>7. MadeKnown'
    BY <2>1, <2>3 DEF ContainerIInv, MadeKnown, SettingUp
  <2>8. ReaperKnows'
    BY <2>1 DEF ReaperKnows, Resting
  <2> QED BY <1>1, <2>6, <2>7, <2>8 DEF ContainerIInv
<1> QED BY <1>1, <1>2, <1>3, <1>4, RunStepsKeep, ReaperKeeps DEF ContainerNext

\* The containers invariant holds at the start.
LEMMA ContainerInitIInv == ContainerInit => ContainerIInv
<1> SUFFICES ASSUME ContainerInit PROVE ContainerIInv
  OBVIOUS
<1>1. PICK k \in [Runs -> {"app", "db"}] : job = [s \in Runs |-> [kind |-> k[s], pc |-> "waiting", undo |-> {}]]
  BY DEF ContainerInit
<1>2. ContainerTypeOK
  BY <1>1, ContainersAssumption DEF ContainerInit, ContainerTypeOK, Stages, Resting, Ages
<1> QED BY <1>1, <1>2 DEF ContainerInit, ContainerIInv, MadeKnown, ReaperKnows, Resting, SettingUp

\* Whatever docker commands fail and whenever the gateway dies (browsergw, dbgw,
\* reaper.go): a session whose commands all worked leaves nothing, and the reaper, which
\* reads two maps one after the other, takes nothing from a session that runs.
THEOREM ContainersStaySound == ContainerSpec => ContainersSound
<1>1. ContainerIInv => ContainerTypeOK /\ TeardownLeavesNothing
  BY DEF ContainerIInv, MadeKnown, TeardownLeavesNothing, Exists
<1>2. [SparesStep]_containerVars =>
         [\A s \in Runs : \A p \in Parts :
             ReapRemove(s, p) /\ made[s][p] # Gone => job[s].pc \notin SettingUp \cup {"images", "bridge"}]_containerVars
  BY DEF SparesStep
<1> QED BY <1>1, <1>2, ContainerInitIInv, ContainerNextIInv, PTL DEF ContainerSpec, ContainersSound, ReaperSparesRunning

-----------------------------------------------------------------------------
(* AppRelay.  Where a request of an application's browser goes.            *)

\* The destinations: an origin is kept at its pinned address alone, another host at
\* addresses a lookup cleared; what a kept decision allows has such a pin.
DestinationsKnown ==
    \A h \in Hosts :
        /\ cleared[h] \subseteq Public \cup Allowed
        /\ h \in Origins => pool[h] \subseteq {Pinned} /\ pins[h] \in {NoAddress, Pinned} /\ decided[h].kind = "none"
        /\ h \in Sites => pool[h] \subseteq cleared[h]
        /\ decided[h].kind # "origin"
        /\ decided[h].kind \in {"public", "private"} => pins[h] \in cleared[h]

\* The requests: what each has found out about where it goes.
AskKnows(r, m, pin, clear) ==
    /\ r.pc # "idle" => r.dest \in Hosts
    /\ r.pc \in {"looked", "ready"} => m = "proxy"
    /\ r.pc = "looked" => r.dest \in Sites /\ r.d.kind \in {"public", "private", "refused"}
    /\ r.pc = "looked" /\ r.d.kind # "refused" => r.d.to \in clear[r.dest]
    /\ r.pc = "ready" => \/ r.d.kind = "refused"
                         \/ r.d.kind = "origin" /\ r.dest \in Origins /\ pin[r.dest] = Pinned
                         \/ r.d.kind \in {"public", "private"} /\ r.dest \in Sites /\ pin[r.dest] \in clear[r.dest]
AsksKnow == \A a \in Asks : AskKnows(ask[a], mode, pins, cleared)

RelayIInv == RelayTypeOK /\ DestinationsKnown /\ AsksKnow /\ ReachesChecked

\* A request takes a step of its own; of the rest only what is allowed grows, and a pin
\* moves to an address that is.
LEMMA OneAskStep ==
    ASSUME RelayIInv, NEW a \in Asks, NEW r \in AskRec, ask' = [ask EXCEPT ![a] = r], AskKnows(r, mode', pins', cleared'),
           mode' = mode,
           \A h \in Hosts : cleared[h] \subseteq cleared'[h],
           \A h \in Hosts : \/ pins'[h] = pins[h]
                            \/ h \in Origins /\ pins'[h] = Pinned
                            \/ h \in Sites /\ pins'[h] \in cleared'[h]
    PROVE  ask' \in [Asks -> AskRec] /\ AsksKnow'
<1> USE RelayAssumption
<1>0. ask \in [Asks -> AskRec]
  BY DEF RelayIInv, RelayTypeOK
<1>1. ask' \in [Asks -> AskRec] /\ ask'[a] = r /\ \A b \in Asks \ {a} : ask'[b] = ask[b]
  BY <1>0
<1>2. ASSUME NEW b \in Asks \ {a} PROVE AskKnows(ask'[b], mode', pins', cleared')
  <2>1. AskKnows(ask[b], mode, pins, cleared) /\ ask[b] \in AskRec
    BY <1>0 DEF RelayIInv, AsksKnow
  <2>2. \A h \in Origins : h \in Hosts /\ h \notin Sites
    BY DEF Hosts
  <2>3. \A h \in Sites : h \in Hosts /\ h \notin Origins
    BY DEF Hosts
  <2>4. ask'[b] = ask[b]
    BY <1>1
  <2> QED BY <2>1, <2>2, <2>3, <2>4 DEF AskKnows
<1> QED BY <1>1, <1>2 DEF AsksKnow

\* The steps that change no table: a request begins, is answered or finds a kept decision.
LEMMA AskQuiet ==
    ASSUME RelayIInv, NEW a \in Asks,
           (\E h \in Hosts, page \in BOOLEAN : Ask(a, h, page)) \/ socksConn(a) \/ Cached(a) \/ Blocked(a)
    PROVE  RelayIInv'
<1> USE RelayAssumption
<1>0. /\ RelayTypeOK /\ ask \in [Asks -> AskRec] /\ AskKnows(ask[a], mode, pins, cleared) /\ DestinationsKnown /\ ReachesChecked
      /\ UNCHANGED <<mode, World, decided, pins, pool, cleared, open>>
  BY DEF RelayIInv, AsksKnow, RelayTypeOK, Ask, socksConn, Cached, Blocked
<1>n. NoAsk \in AskRec /\ NoAsk.pc = "idle"
  BY DEF NoAsk, AskRec, NoDecision, Decision
<1>1. \E r \in AskRec : ask' = [ask EXCEPT ![a] = r] /\ AskKnows(r, mode', pins', cleared')
  <2>1. ASSUME NEW h \in Hosts, NEW page \in BOOLEAN, Ask(a, h, page) PROVE \E r \in AskRec : ask' = [ask EXCEPT ![a] = r] /\ AskKnows(r, mode', pins', cleared')
    <3> DEFINE r == [NoAsk EXCEPT !.pc = "asked", !.dest = h, !.page = page]
    <3>1. r \in AskRec /\ r.pc = "asked" /\ r.dest = h
      BY DEF NoAsk, AskRec, NoDecision, Decision
    <3>2. ask' = [ask EXCEPT ![a] = r]
      BY <2>1 DEF Ask
    <3> HIDE DEF r
    <3> QED BY <3>1, <3>2 DEF AskKnows
  <2>2. CASE ask' = [ask EXCEPT ![a] = NoAsk]
    BY <1>n, <2>2 DEF AskKnows
  <2>3. CASE Cached(a)
    <3> DEFINE h == ask[a].dest
               r == [ask[a] EXCEPT !.pc = "ready", !.d = decided[h]]
    <3>1. h \in Sites /\ h \in Hosts /\ decided[h].kind # "none" /\ mode = "proxy" /\ ask' = [ask EXCEPT ![a] = r]
      BY <1>0, <2>3 DEF Cached, Hosts
    <3>2. decided[h] \in Decision /\ decided[h].kind \in {"public", "private", "refused"}
          /\ (decided[h].kind # "refused" => pins[h] \in cleared[h])
      BY <1>0, <3>1 DEF RelayTypeOK, DestinationsKnown, Decision
    <3>3. r \in AskRec /\ r.pc = "ready" /\ r.dest = h /\ r.d = decided[h]
      BY <1>0, <3>2 DEF AskRec
    <3> HIDE DEF r, h
    <3> QED BY <1>0, <3>1, <3>2, <3>3 DEF AskKnows
  <2> QED BY <2>1, <2>2, <2>3 DEF socksConn, Blocked
<1>2. ask' \in [Asks -> AskRec] /\ AsksKnow'
  BY <1>0, <1>1, OneAskStep
<1>3. /\ reached' \subseteq [dest : Hosts, to : Addresses \cup {Pinned}, page : BOOLEAN]
      /\ \A r \in reached' : r \in reached \/ (r.dest \in Origins /\ r.to = Pinned)
  <2>1. CASE reached' = reached
    BY <1>0, <2>1 DEF RelayTypeOK
  <2>2. CASE socksConn(a)
    <3> DEFINE n == [dest |-> ask[a].dest, to |-> Pinned, page |-> ask[a].page]
    <3>1. reached' = reached \/ (ask[a].dest \in Origins /\ reached' = reached \cup {n})
      BY <2>2 DEF socksConn
    <3>2. ask[a].dest \in Origins => n \in [dest : Hosts, to : Addresses \cup {Pinned}, page : BOOLEAN]
      BY <1>0 DEF Hosts, AskRec
    <3>3. n.dest = ask[a].dest /\ n.to = Pinned
      OBVIOUS
    <3> HIDE DEF n
    <3> QED BY <1>0, <3>1, <3>2, <3>3 DEF RelayTypeOK
  <2> QED BY <2>1, <2>2 DEF Ask, Cached, Blocked
<1>4. RelayTypeOK'
  BY <1>0, <1>2, <1>3 DEF RelayTypeOK, World
<1>5. DestinationsKnown'
  BY <1>0 DEF DestinationsKnown
<1>6. ReachesChecked'
  BY <1>0, <1>3 DEF ReachesChecked
<1> QED BY <1>2, <1>4, <1>5, <1>6 DEF RelayIInv

\* destination: the route's pin, the lookup, and the two maps stored after it.
LEMMA AskLooks ==
    ASSUME RelayIInv, NEW a \in Asks, Route(a) \/ Lookup(a) \/ Decided(a)
    PROVE  RelayIInv'
<1> USE RelayAssumption
<1> DEFINE h == ask[a].dest
<1>0. /\ RelayTypeOK /\ ask \in [Asks -> AskRec] /\ ask[a] \in AskRec /\ AskKnows(ask[a], mode, pins, cleared) /\ DestinationsKnown /\ ReachesChecked
      /\ UNCHANGED <<mode, World, pool, reached, open>> /\ minute \in Nat
      /\ decided \in [Hosts -> Decision] /\ pins \in [Hosts -> Addresses \cup {NoAddress, Pinned}] /\ cleared \in [Hosts -> SUBSET Addresses]
  BY DEF RelayIInv, AsksKnow, RelayTypeOK, Route, Lookup, Decided
<1>1. CASE Route(a)
  <2> DEFINE o == [kind |-> "origin", to |-> Pinned, at |-> minute]
             r == [ask[a] EXCEPT !.pc = "ready", !.d = o]
  <2>1. /\ h \in Origins /\ h \in Hosts /\ h \notin Sites /\ mode = "proxy" /\ decided' = decided /\ cleared' = cleared
        /\ pins' = [pins EXCEPT ![h] = Pinned] /\ ask' = [ask EXCEPT ![a] = r]
    BY <1>0, <1>1 DEF Route, Hosts
  <2>2. o \in Decision /\ o.kind = "origin"
    BY <1>0 DEF Decision
  <2> HIDE DEF o
  <2>3. r \in AskRec /\ r.pc = "ready" /\ r.dest = h /\ r.d = o
    BY <1>0, <2>2 DEF AskRec
  <2> HIDE DEF r, h
  <2>4. pins'[h] = Pinned /\ pins' \in [Hosts -> Addresses \cup {NoAddress, Pinned}] /\ \A g \in Hosts \ {h} : pins'[g] = pins[g]
    BY <1>0, <2>1
  <2>5. AskKnows(r, mode', pins', cleared')
    BY <1>0, <2>1, <2>2, <2>3, <2>4 DEF AskKnows
  <2>6. ask' \in [Asks -> AskRec] /\ AsksKnow'
    BY <1>0, <2>1, <2>3, <2>4, <2>5, OneAskStep
  <2>7. RelayTypeOK'
    BY <1>0, <2>1, <2>4, <2>6 DEF RelayTypeOK, World
  <2>8. \A g \in Hosts : decided[g].kind \in {"public", "private"} => pins'[g] \in cleared[g] \/ g = h
    BY <1>0, <2>4 DEF DestinationsKnown
  <2>9. decided[h].kind = "none"
    BY <1>0, <2>1 DEF DestinationsKnown
  <2>10. DestinationsKnown'
    BY <1>0, <2>1, <2>4, <2>8, <2>9 DEF DestinationsKnown
  <2> QED BY <1>0, <2>1, <2>6, <2>7, <2>10 DEF RelayIInv, ReachesChecked
<1>2. CASE Lookup(a)
  <2>1. PICK d \in decide(dns[h]) :
           /\ ask' = [ask EXCEPT ![a].pc = "looked", ![a].d = d]
           /\ cleared' = [cleared EXCEPT ![h] = IF d.kind = "refused" THEN @ ELSE @ \cup {d.to}]
    BY <1>2 DEF Lookup
  <2>2. h \in Sites /\ h \in Hosts /\ h \notin Origins /\ mode = "proxy" /\ decided' = decided /\ pins' = pins /\ dns[h] \in SUBSET Addresses
    BY <1>0, <1>2 DEF Lookup, Hosts, RelayTypeOK
  <2> DEFINE r == [ask[a] EXCEPT !.pc = "looked", !.d = d]
             c == IF d.kind = "refused" THEN cleared[h] ELSE cleared[h] \cup {d.to}
  <2>3. /\ d \in Decision /\ d.kind \in {"refused", "public", "private"}
        /\ d.kind # "refused" => d.to \in Addresses /\ d.to \in Public \cup Allowed
    <3>1. CASE ~Fits(dns[h])
      <4>1. d = [kind |-> "refused", to |-> NoAddress, at |-> 0]
        BY <3>1 DEF decide
      <4> QED BY <4>1 DEF Decision
    <3>2. CASE Fits(dns[h])
      <4>1. PICK ip \in dns[h] : d = [kind |-> IF dns[h] \subseteq Public THEN "public" ELSE "private", to |-> ip, at |-> 0]
        BY <3>2 DEF decide
      <4>2. ip \in Public \cup Allowed /\ ip \in Addresses
        BY <2>2, <3>2 DEF Fits
      <4>3. CASE dns[h] \subseteq Public
        BY <4>1, <4>2, <4>3 DEF Decision
      <4>4. CASE ~(dns[h] \subseteq Public)
        BY <4>1, <4>2, <4>4 DEF Decision
      <4> QED BY <4>3, <4>4
    <3> QED BY <3>1, <3>2
  <2>4. r \in AskRec /\ r.pc = "looked" /\ r.dest = h /\ r.d = d /\ ask' = [ask EXCEPT ![a] = r]
    BY <1>0, <2>1, <2>3 DEF AskRec
  <2>5. cleared' = [cleared EXCEPT ![h] = c]
    BY <1>0, <2>1, <2>2
  <2>6. /\ c \in SUBSET Addresses /\ cleared[h] \subseteq c /\ (d.kind # "refused" => d.to \in c)
        /\ c \subseteq Public \cup Allowed
    BY <1>0, <2>2, <2>3 DEF DestinationsKnown
  <2> HIDE DEF r, c, h
  <2>7. /\ cleared' \in [Hosts -> SUBSET Addresses] /\ cleared'[h] = c
        /\ \A g \in Hosts \ {h} : cleared'[g] = cleared[g]
    BY <1>0, <2>2, <2>5, <2>6
  <2>8. AskKnows(r, mode', pins', cleared')
    BY <1>0, <2>2, <2>3, <2>4, <2>6, <2>7 DEF AskKnows
  <2>9. \A g \in Hosts : cleared[g] \subseteq cleared'[g]
    BY <2>6, <2>7
  <2>10. ask' \in [Asks -> AskRec] /\ AsksKnow'
    BY <1>0, <2>2, <2>4, <2>8, <2>9, OneAskStep
  <2>11. RelayTypeOK'
    BY <1>0, <2>2, <2>7, <2>10 DEF RelayTypeOK, World
  <2>12. DestinationsKnown'
    BY <1>0, <2>2, <2>6, <2>7, <2>9 DEF DestinationsKnown
  <2>13. ReachesChecked'
    BY <1>0, <2>9 DEF ReachesChecked, Hosts
  <2> QED BY <2>10, <2>11, <2>12, <2>13 DEF RelayIInv
<1>3. CASE Decided(a)
  <2> DEFINE d == [ask[a].d EXCEPT !.at = minute]
             r == [ask[a] EXCEPT !.pc = "ready", !.d = d]
  <2>1. /\ ask[a].pc = "looked" /\ cleared' = cleared
        /\ decided' = [decided EXCEPT ![h] = d]
        /\ pins' = IF d.kind = "refused" THEN pins ELSE [pins EXCEPT ![h] = d.to]
        /\ ask' = [ask EXCEPT ![a] = r]
    BY <1>0, <1>3 DEF Decided
  <2>2. /\ h \in Sites /\ h \in Hosts /\ h \notin Origins /\ mode = "proxy"
        /\ ask[a].d \in Decision /\ ask[a].d.kind \in {"public", "private", "refused"}
        /\ ask[a].d.kind # "refused" => ask[a].d.to \in cleared[h]
    BY <1>0, <2>1 DEF AskKnows, AskRec, Hosts
  <2>3. d \in Decision /\ d.kind = ask[a].d.kind /\ d.to = ask[a].d.to
    BY <1>0, <2>2 DEF Decision
  <2> HIDE DEF d
  <2>4. r \in AskRec /\ r.pc = "ready" /\ r.dest = h /\ r.d = d
    BY <1>0, <2>3 DEF AskRec
  <2> HIDE DEF r, h
  <2>5. /\ decided' \in [Hosts -> Decision] /\ decided'[h] = d /\ \A g \in Hosts \ {h} : decided'[g] = decided[g]
        /\ \A g \in Hosts \ {h} : pins'[g] = pins[g]
        /\ d.kind = "refused" => pins'[h] = pins[h]
        /\ d.kind # "refused" => pins'[h] \in cleared[h]
        /\ pins' \in [Hosts -> Addresses \cup {NoAddress, Pinned}]
    <3>1. d.to \in Addresses \cup {NoAddress, Pinned}
      BY <2>3 DEF Decision
    <3> QED BY <1>0, <2>1, <2>2, <2>3, <3>1
  <2>6. AskKnows(r, mode', pins', cleared')
    BY <1>0, <2>1, <2>2, <2>3, <2>4, <2>5 DEF AskKnows
  <2>7. \A g \in Hosts : pins'[g] = pins[g] \/ (g \in Sites /\ pins'[g] \in cleared'[g])
    BY <2>1, <2>2, <2>5
  <2>8. ask' \in [Asks -> AskRec] /\ AsksKnow'
    BY <1>0, <2>1, <2>4, <2>6, <2>7, OneAskStep
  <2>9. RelayTypeOK'
    BY <1>0, <2>1, <2>5, <2>8 DEF RelayTypeOK, World
  <2>10. DestinationsKnown'
    BY <1>0, <2>1, <2>2, <2>3, <2>5 DEF DestinationsKnown
  <2>11. ReachesChecked'
    BY <1>0, <2>1 DEF ReachesChecked
  <2> QED BY <2>8, <2>9, <2>10, <2>11 DEF RelayIInv
<1> QED BY <1>1, <1>2, <1>3

\* handle: the request goes out over a kept connection or a new one.
LEMMA AskForwards ==
    ASSUME RelayIInv, NEW a \in Asks, Forward(a)
    PROVE  RelayIInv'
<1> USE RelayAssumption
<1> DEFINE h == ask[a].dest
<1>0. /\ RelayTypeOK /\ ask \in [Asks -> AskRec] /\ ask[a] \in AskRec /\ AskKnows(ask[a], mode, pins, cleared) /\ DestinationsKnown /\ ReachesChecked
      /\ UNCHANGED <<mode, World, decided, pins, cleared, open>>
      /\ pool \in [Hosts -> SUBSET (Addresses \cup {Pinned})] /\ cleared \in [Hosts -> SUBSET Addresses]
  BY DEF RelayIInv, AsksKnow, RelayTypeOK, Forward
<1>1. PICK to \in {pins[h]} \cup pool[h] :
         /\ reached' = reached \cup {[dest |-> h, to |-> to, page |-> ask[a].page]}
         /\ pool' = [pool EXCEPT ![h] = @ \cup {to}]
  BY DEF Forward, dial
<1>2. /\ ask[a].pc = "ready" /\ ask[a].d.kind # "refused" /\ (ask[a].page => ask[a].d.kind = "origin")
      /\ ask' = [ask EXCEPT ![a] = NoAsk]
  BY DEF Forward
<1>3. /\ h \in Hosts /\ mode = "proxy" /\ ask[a].page \in BOOLEAN
      /\ \/ h \in Origins /\ h \notin Sites /\ to = Pinned
         \/ h \in Sites /\ h \notin Origins /\ ~ask[a].page /\ to \in cleared[h] /\ to \in Public \cup Allowed
  BY <1>0, <1>1, <1>2 DEF AskKnows, DestinationsKnown, Hosts, AskRec
<1>4. to \in Addresses \cup {Pinned}
  BY <1>3 DEF Addresses
<1> DEFINE n == [dest |-> h, to |-> to, page |-> ask[a].page]
<1>5. n \in [dest : Hosts, to : Addresses \cup {Pinned}, page : BOOLEAN] /\ n.dest = h /\ n.to = to /\ n.page = ask[a].page
  BY <1>3, <1>4
<1>6. NoAsk \in AskRec /\ AskKnows(NoAsk, mode', pins', cleared')
  BY DEF NoAsk, AskRec, NoDecision, Decision, AskKnows
<1>7. ask' \in [Asks -> AskRec] /\ AsksKnow'
  BY <1>0, <1>2, <1>6, OneAskStep
<1>8. reached' = reached \cup {n}
  BY <1>1
<1> HIDE DEF n, h
<1>9. /\ pool' \in [Hosts -> SUBSET (Addresses \cup {Pinned})] /\ pool'[h] = pool[h] \cup {to}
      /\ \A g \in Hosts \ {h} : pool'[g] = pool[g]
  <2>1. pool[h] \cup {to} \in SUBSET (Addresses \cup {Pinned})
    BY <1>0, <1>3, <1>4
  <2> QED BY <1>0, <1>1, <1>3, <2>1
<1>10. RelayTypeOK'
  BY <1>0, <1>5, <1>7, <1>8, <1>9 DEF RelayTypeOK, World
<1>11. DestinationsKnown'
  BY <1>0, <1>3, <1>9 DEF DestinationsKnown
<1>12. ReachesChecked'
  BY <1>0, <1>3, <1>5, <1>8 DEF ReachesChecked
<1> QED BY <1>7, <1>10, <1>11, <1>12 DEF RelayIInv

\* Time, the names' owners, idle connections and the session's end.
LEMMA RelayWorld ==
    ASSUME RelayIInv,
           \/ \E h \in Hosts, to \in Addresses \cup {Pinned} : Idles(h, to)
           \/ \E h \in Sites, ips \in SUBSET Addresses : Rebind(h, ips)
           \/ MinutePasses \/ SessionOver
    PROVE  RelayIInv'
<1> USE RelayAssumption
<1>0. /\ RelayTypeOK /\ AsksKnow /\ DestinationsKnown /\ ReachesChecked
      /\ pool \in [Hosts -> SUBSET (Addresses \cup {Pinned})] /\ ask \in [Asks -> AskRec]
      /\ UNCHANGED <<mode, decided, pins, cleared, reached>>
  BY DEF RelayIInv, AsksKnow, RelayTypeOK, Idles, Rebind, MinutePasses, SessionOver
<1>1. pool' \in [Hosts -> SUBSET (Addresses \cup {Pinned})] /\ \A h \in Hosts : pool'[h] \subseteq pool[h]
  <2>1. pool' = pool \/ pool' = [h \in Hosts |-> {}] \/ \E h \in Hosts, to \in Addresses \cup {Pinned} : pool' = [pool EXCEPT ![h] = @ \ {to}]
    BY DEF Idles, Rebind, MinutePasses, SessionOver
  <2> QED BY <1>0, <2>1
<1>2. ask' = ask \/ ask' = [a \in Asks |-> NoAsk]
  BY DEF Idles, Rebind, MinutePasses, SessionOver
<1>3. NoAsk \in AskRec /\ AskKnows(NoAsk, mode', pins', cleared')
  BY DEF NoAsk, AskRec, NoDecision, Decision, AskKnows
<1>4. ask' \in [Asks -> AskRec] /\ \A a \in Asks : ask'[a] = ask[a] \/ ask'[a] = NoAsk
  BY <1>0, <1>2, <1>3
<1>5. ASSUME NEW a \in Asks PROVE AskKnows(ask'[a], mode', pins', cleared')
  <2>1. CASE ask'[a] = NoAsk
    BY <1>3, <2>1 DEF AskKnows
  <2>2. CASE ask'[a] = ask[a]
    <3>1. AskKnows(ask[a], mode, pins, cleared)
      BY <1>0 DEF AsksKnow
    <3> QED BY <1>0, <2>2, <3>1 DEF AskKnows
  <2> QED BY <1>4, <2>1, <2>2
<1>6. dns' \in [Sites -> SUBSET Addresses] /\ minute' \in 0 .. MaxMinutes /\ flips' \in 0 .. MaxLookups /\ open' \in BOOLEAN
  <2>1. dns' = dns \/ \E h \in Sites, ips \in SUBSET Addresses : dns' = [dns EXCEPT ![h] = ips]
    BY DEF Idles, Rebind, MinutePasses, SessionOver, World
  <2>2. minute' = minute \/ (minute < MaxMinutes /\ minute' = minute + 1)
    BY DEF Idles, Rebind, MinutePasses, SessionOver, World
  <2>3. flips' = flips \/ (flips < MaxLookups /\ flips' = flips + 1)
    BY DEF Idles, Rebind, MinutePasses, SessionOver, World
  <2>4. open' = open \/ open' = FALSE
    BY DEF Idles, Rebind, MinutePasses, SessionOver
  <2>5. dns \in [Sites -> SUBSET Addresses] /\ minute \in 0 .. MaxMinutes /\ flips \in 0 .. MaxLookups /\ open \in BOOLEAN
    BY <1>0 DEF RelayTypeOK
  <2>6. dns' \in [Sites -> SUBSET Addresses]
    BY <2>1, <2>5
  <2>7. minute' \in 0 .. MaxMinutes /\ flips' \in 0 .. MaxLookups
    BY <2>2, <2>3, <2>5
  <2> QED BY <2>4, <2>5, <2>6, <2>7
<1>7. RelayTypeOK'
  BY <1>0, <1>1, <1>4, <1>6 DEF RelayTypeOK
<1>8. DestinationsKnown'
  BY <1>0, <1>1 DEF DestinationsKnown
<1>9. ReachesChecked'
  BY <1>0 DEF ReachesChecked
<1> QED BY <1>5, <1>7, <1>8, <1>9 DEF RelayIInv, AsksKnow

\* The relay invariant holds at the start.
LEMMA RelayInitIInv == RelayInit => RelayIInv
<1> SUFFICES ASSUME RelayInit PROVE RelayIInv
  OBVIOUS
<1> USE RelayAssumption
<1>1. NoDecision \in Decision /\ NoAsk \in AskRec /\ NoDecision.kind = "none" /\ NoAsk.pc = "idle"
  BY DEF NoDecision, Decision, NoAsk, AskRec
<1>2. RelayTypeOK
  BY <1>1 DEF RelayInit, RelayTypeOK, Addresses
<1>3. DestinationsKnown
  BY <1>1 DEF RelayInit, DestinationsKnown
<1> QED BY <1>1, <1>2, <1>3 DEF RelayInit, RelayIInv, AsksKnow, AskKnows, ReachesChecked

\* Every step of the application relay keeps the invariant.
LEMMA RelayNextIInv == RelayIInv /\ [RelayNext]_relayVars => RelayIInv'
<1> SUFFICES ASSUME RelayIInv, [RelayNext]_relayVars PROVE RelayIInv'
  OBVIOUS
<1>1. CASE UNCHANGED relayVars
  BY <1>1 DEF relayVars, RelayIInv, RelayTypeOK, DestinationsKnown, AsksKnow, AskKnows, ReachesChecked
<1> QED BY <1>1, AskQuiet, AskLooks, AskForwards, RelayWorld DEF RelayNext

-----------------------------------------------------------------------------
(* DatabaseRelay.  The vaulted credential and the client's packets.        *)

\* The plain retry is prefer's alone, and with TLS off the credential goes in plain.
ExposureKnown ==
    /\ hop.pc = "again" => tlsMode = "prefer"
    /\ tlsMode = "disable" => exposed \subseteq {"plain"}

DatabaseIInv == DatabaseTypeOK /\ CredentialGuarded /\ RelayedFaithfully /\ ExposureKnown

\* A step that reads no packet: the packets read so far are the first of those sent.
LEMMA NothingRead ==
    ASSUME DatabaseIInv, UNCHANGED <<taken, relayed, answeredHere>>,
           packets' \in Seq(Packet), Len(packets) <= Len(packets'),
           \A i \in 1 .. Len(packets) : packets'[i] = packets[i],
           hop'.pc \in {"relaying", "closing"} => hop'.client = hop'.flags
    PROVE  RelayedFaithfully' /\ taken' \in 0 .. Len(packets')
<1>0. packets \in Seq(Packet) /\ taken \in 0 .. Len(packets) /\ relayed \in Seq(Packet) /\ Len(packets) \in Nat /\ Len(packets') \in Nat
  BY DEF DatabaseIInv, DatabaseTypeOK
<1>1. \A i \in 1 .. taken : packets'[i] = packets[i]
  BY <1>0
<1>2. PICK at \in [1 .. Len(relayed) -> 1 .. taken] : Follows(at, relayed, packets, taken)
  BY DEF DatabaseIInv, RelayedFaithfully, InOrder
<1>3. /\ \A i, j \in DOMAIN at : i < j => at[i] < at[j]
      /\ {at[i] : i \in DOMAIN at} = {i \in 1 .. taken : ~isChange(packets[i])}
      /\ \A i \in DOMAIN at : relayed[i] = packets[at[i]] /\ at[i] \in 1 .. taken
  BY <1>2 DEF Follows
<1>4. {i \in 1 .. taken : ~isChange(packets[i])} = {i \in 1 .. taken' : ~isChange(packets'[i])}
  BY <1>1
<1>5. /\ \A i, j \in DOMAIN at : i < j => at[i] < at[j]
      /\ {at[i] : i \in DOMAIN at} = {i \in 1 .. taken' : ~isChange(packets'[i])}
      /\ \A i \in DOMAIN at : relayed'[i] = packets'[at[i]]
  BY <1>1, <1>3, <1>4
<1>6. InOrder'
  <2>1. at \in [1 .. Len(relayed') -> 1 .. taken'] /\ Follows(at, relayed', packets', taken')
    BY <1>2, <1>5 DEF Follows
  <2> QED BY <2>1 DEF InOrder
<1>7. Len(relayed') + answeredHere' = taken'
  BY DEF DatabaseIInv, RelayedFaithfully
<1>8. taken' \in 0 .. Len(packets')
  BY <1>0
<1> QED BY <1>6, <1>7, <1>8 DEF RelayedFaithfully

\* dial: the link the credential goes over.
LEMMA DialKeeps == ASSUME DatabaseIInv, DialUp PROVE DatabaseIInv'
<1> USE DatabaseAssumption
<1>0. /\ DatabaseTypeOK /\ CredentialGuarded /\ ExposureKnown /\ tlsMode \in TLSModes /\ database \in Databases /\ hop \in HopRec
      /\ UNCHANGED <<tlsMode, database, packets, taken, relayed, answeredHere>>
      /\ packets \in Seq(Packet) /\ Len(packets) \in Nat /\ exposed \subseteq {"plain", "tls", "verified"}
  BY DEF DatabaseIInv, DatabaseTypeOK, DialUp
<1>1. PICK useTLS \in BOOLEAN, otherwise \in {"again", "failed"} :
         /\ connect(useTLS, otherwise)
         /\ \/ hop.pc = "accepted" /\ (useTLS <=> tlsMode # "disable") /\ (otherwise = "again" => tlsMode = "prefer")
            \/ hop.pc = "again" /\ useTLS = FALSE /\ otherwise = "failed"
  <2>1. CASE hop.pc = "accepted" /\ connect(tlsMode # "disable", IF tlsMode = "prefer" THEN "again" ELSE "failed")
    <3>1. CASE tlsMode = "disable"
      <4>1. (tlsMode # "disable") = FALSE /\ (IF tlsMode = "prefer" THEN "again" ELSE "failed") = "failed"
        BY <3>1
      <4>2. connect(FALSE, "failed")
        BY <2>1, <4>1, Zenon
      <4> QED BY <2>1, <3>1, <4>2
    <3>2. CASE tlsMode = "prefer"
      <4>1. (tlsMode # "disable") = TRUE /\ (IF tlsMode = "prefer" THEN "again" ELSE "failed") = "again"
        BY <3>2
      <4>2. connect(TRUE, "again")
        BY <2>1, <4>1, Zenon
      <4> QED BY <2>1, <3>2, <4>2
    <3>3. CASE tlsMode \notin {"disable", "prefer"}
      <4>1. (tlsMode # "disable") = TRUE /\ (IF tlsMode = "prefer" THEN "again" ELSE "failed") = "failed"
        BY <3>3
      <4>2. connect(TRUE, "failed")
        BY <2>1, <4>1, Zenon
      <4> QED BY <2>1, <3>3, <4>2
    <3> QED BY <3>1, <3>2, <3>3
  <2>2. CASE hop.pc = "again" /\ connect(FALSE, "failed")
    BY <2>2
  <2> QED BY <2>1, <2>2 DEF DialUp, dialUp
<1>2. /\ hop' \in HopRec /\ hop'.pc \in {"dialled", "refused", otherwise}
  <2>1. negotiated \in SUBSET Framing
    BY DEF negotiated
  <2>2. linkOf(useTLS) \in {"plain", "tls", "verified"}
    BY DEF linkOf
  <2>3. \A pc \in {"refused", otherwise} : [HungUp EXCEPT !.pc = pc] \in HopRec /\ [HungUp EXCEPT !.pc = pc].pc = pc
    BY DEF HungUp, HopRec
  <2> DEFINE l == linkOf(useTLS)
             n == negotiated
  <2> HIDE DEF l, n
  <2>4. l \in {"plain", "tls", "verified"} /\ n \in SUBSET Framing
    BY <2>1, <2>2 DEF l, n
  <2>5. [HungUp EXCEPT !.pc = "dialled", !.link = l, !.flags = n] \in HopRec /\ [HungUp EXCEPT !.pc = "dialled", !.link = l, !.flags = n].pc = "dialled"
    BY <2>4 DEF HungUp, HopRec
  <2>6. \/ hop' = [HungUp EXCEPT !.pc = "dialled", !.link = l, !.flags = n]
        \/ \E pc \in {"refused", otherwise} : hop' = [HungUp EXCEPT !.pc = pc]
    BY <1>1 DEF connect, l, n
  <2> QED BY <2>3, <2>5, <2>6
<1>3. /\ exposed' = exposed \/ (admits(useTLS) /\ exposed' = exposed \cup {linkOf(useTLS)})
  BY <1>1 DEF connect
<1>4. /\ exposed' \subseteq {"plain", "tls", "verified"} /\ CredentialGuarded' /\ ExposureKnown'
  <2>1. hop'.pc = "again" => tlsMode = "prefer"
    BY <1>1, <1>2
  <2>2. CASE exposed' = exposed
    BY <1>0, <2>1, <2>2 DEF CredentialGuarded, ExposureKnown
  <2>3. CASE admits(useTLS) /\ exposed' = exposed \cup {linkOf(useTLS)}
    <3>1. CASE useTLS = FALSE
      <4>1. tlsMode \in {"prefer", "disable"} /\ linkOf(useTLS) = "plain"
        BY <1>0, <1>1, <3>1 DEF linkOf, ExposureKnown, TLSModes
      <4> QED BY <1>0, <2>1, <2>3, <4>1 DEF CredentialGuarded, ExposureKnown
    <3>2. CASE useTLS = TRUE
      <4>1. tlsMode # "disable" /\ linkOf(useTLS) = (IF tlsMode = "verify-full" THEN "verified" ELSE "tls")
            /\ (tlsMode = "verify-full" => database.certified)
        BY <1>1, <2>3, <3>2 DEF linkOf, admits
      <4> QED BY <1>0, <2>1, <2>3, <4>1 DEF CredentialGuarded, ExposureKnown, TLSModes
    <3> QED BY <3>1, <3>2
  <2> QED BY <1>3, <2>2, <2>3
<1>5. RelayedFaithfully' /\ taken' \in 0 .. Len(packets')
  BY <1>0, <1>1, <1>2, NothingRead
<1>6. DatabaseTypeOK'
  BY <1>0, <1>2, <1>4, <1>5 DEF DatabaseTypeOK
<1> QED BY <1>4, <1>5, <1>6 DEF DatabaseIInv

\* The client's sign-in, what it sends, and the end of the connection.
LEMMA ClientKeeps ==
    ASSUME DatabaseIInv,
           \/ HangUp
           \/ \E u \in BOOLEAN, f \in SUBSET Framing : ClientSignsIn(u, f)
           \/ \E p \in Packet : ClientSends(p)
    PROVE  DatabaseIInv'
<1> USE DatabaseAssumption
<1>0. /\ DatabaseTypeOK /\ CredentialGuarded /\ ExposureKnown /\ RelayedFaithfully /\ hop \in HopRec
      /\ UNCHANGED <<tlsMode, database, taken, relayed, answeredHere, exposed>>
      /\ packets \in Seq(Packet) /\ Len(packets) \in Nat
  <2>1. UNCHANGED <<tlsMode, database, taken, relayed, answeredHere, exposed>>
    BY DEF HangUp, ClientSignsIn, ClientSends
  <2> QED BY <2>1 DEF DatabaseIInv, DatabaseTypeOK
<1>1. /\ packets' \in Seq(Packet) /\ Len(packets) <= Len(packets')
      /\ \A i \in 1 .. Len(packets) : packets'[i] = packets[i]
  <2>1. packets' = packets \/ \E p \in Packet : packets' = Append(packets, p)
    BY DEF HangUp, ClientSignsIn, ClientSends
  <2> QED BY <1>0, <2>1
<1>2. /\ hop'.pc # "again" \/ hop' = hop
      /\ hop' \in HopRec
      /\ hop'.pc \in {"relaying", "closing"} => hop'.client = hop'.flags
  <2>1. HungUp \in HopRec /\ HungUp.pc = "closed"
    BY DEF HungUp, HopRec
  <2>2. CASE HangUp
    <3>1. CASE hop' = HungUp
      BY <2>1, <3>1
    <3>2. CASE hop.pc = "relaying" /\ hop' = [hop EXCEPT !.pc = "closing"]
      <4>1. hop' \in HopRec /\ hop'.pc = "closing" /\ hop'.client = hop.client /\ hop'.flags = hop.flags
        BY <1>0, <3>2 DEF HopRec
      <4> QED BY <1>0, <3>2, <4>1 DEF RelayedFaithfully
    <3> QED BY <2>2, <3>1, <3>2 DEF HangUp
  <2>3. ASSUME NEW u \in BOOLEAN, NEW f \in SUBSET Framing, ClientSignsIn(u, f)
        PROVE  hop' \in HopRec /\ hop'.pc # "again" /\ (hop'.pc \in {"relaying", "closing"} => hop'.client = hop'.flags)
    <3>1. CASE hop' = HungUp
      BY <2>1, <3>1
    <3>2. CASE f \cap Requested = hop.flags /\ hop' = [hop EXCEPT !.pc = "relaying", !.client = f \cap Requested]
      <4> DEFINE c == f \cap Requested
      <4>1. c \in SUBSET Framing /\ c = hop.flags
        BY <3>2
      <4> HIDE DEF c
      <4>2. hop' = [hop EXCEPT !.pc = "relaying", !.client = c]
        BY <3>2 DEF c
      <4>3. hop' \in HopRec /\ hop'.pc = "relaying" /\ hop'.client = c /\ hop'.flags = hop.flags
        BY <1>0, <4>1, <4>2 DEF HopRec
      <4> QED BY <4>1, <4>3
    <3> QED BY <2>3, <3>1, <3>2 DEF ClientSignsIn
  <2>4. ASSUME NEW p \in Packet, ClientSends(p) PROVE hop' = hop
    BY <2>4 DEF ClientSends
  <2> QED BY <1>0, <2>2, <2>3, <2>4 DEF RelayedFaithfully
<1>3. RelayedFaithfully' /\ taken' \in 0 .. Len(packets')
  BY <1>0, <1>1, <1>2, NothingRead
<1>4. DatabaseTypeOK'
  BY <1>0, <1>1, <1>2, <1>3 DEF DatabaseTypeOK
<1>5. CredentialGuarded' /\ ExposureKnown'
  BY <1>0, <1>2 DEF CredentialGuarded, ExposureKnown
<1> QED BY <1>3, <1>4, <1>5 DEF DatabaseIInv

\* relayCommands: one packet answered here or passed on.
LEMMA PacketKeeps == ASSUME DatabaseIInv, RelayPacket PROVE DatabaseIInv'
<1>0. /\ DatabaseTypeOK /\ CredentialGuarded /\ ExposureKnown /\ RelayedFaithfully
      /\ UNCHANGED <<tlsMode, database, hop, packets, exposed>>
      /\ packets \in Seq(Packet) /\ Len(packets) \in Nat /\ relayed \in Seq(Packet) /\ Len(relayed) \in Nat
      /\ taken \in Nat /\ taken < Len(packets) /\ taken' = taken + 1 /\ answeredHere \in Nat
  BY DEF DatabaseIInv, DatabaseTypeOK, RelayPacket
<1> DEFINE p == packets[taken + 1]
           n == Len(relayed)
<1>1. p \in Packet
  BY <1>0
<1>2. PICK at \in [1 .. Len(relayed) -> 1 .. taken] : Follows(at, relayed, packets, taken)
  BY <1>0 DEF RelayedFaithfully, InOrder
<1>3. /\ DOMAIN at = 1 .. n
      /\ \A i, j \in 1 .. n : i < j => at[i] < at[j]
      /\ {at[i] : i \in 1 .. n} = {i \in 1 .. taken : ~isChange(packets[i])}
      /\ \A i \in 1 .. n : relayed[i] = packets[at[i]] /\ at[i] \in 1 .. taken
  BY <1>2 DEF Follows
<1>4. 1 .. (taken + 1) = (1 .. taken) \cup {taken + 1} /\ taken + 1 \notin 1 .. taken /\ 1 .. (n + 1) = (1 .. n) \cup {n + 1} /\ n + 1 \notin 1 .. n
  BY <1>0
<1>5. CASE isChange(p)
  <2>1. answeredHere' = answeredHere + 1 /\ relayed' = relayed
    BY <1>5 DEF RelayPacket
  <2>2. {i \in 1 .. (taken + 1) : ~isChange(packets[i])} = {i \in 1 .. taken : ~isChange(packets[i])}
    BY <1>4, <1>5
  <2>3. at \in [1 .. n -> 1 .. (taken + 1)]
    BY <1>2, <1>4
  <2>4. Follows(at, relayed', packets', taken')
    BY <1>0, <1>3, <2>1, <2>2 DEF Follows
  <2>5. Len(relayed') + answeredHere' = taken'
    BY <1>0, <2>1 DEF RelayedFaithfully
  <2>6. RelayedFaithfully'
    BY <1>0, <2>1, <2>3, <2>4, <2>5 DEF RelayedFaithfully, InOrder
  <2>7. DatabaseTypeOK'
    BY <1>0, <2>1 DEF DatabaseTypeOK
  <2> QED BY <1>0, <2>6, <2>7 DEF DatabaseIInv, CredentialGuarded, ExposureKnown
<1>6. CASE ~isChange(p)
  <2>1. answeredHere' = answeredHere /\ relayed' = Append(relayed, p)
    BY <1>6 DEF RelayPacket
  <2>2. /\ relayed' \in Seq(Packet) /\ Len(relayed') = n + 1 /\ relayed'[n + 1] = p
        /\ \A i \in 1 .. n : relayed'[i] = relayed[i]
    BY <1>0, <1>1, <2>1
  <2> DEFINE b == [i \in 1 .. (n + 1) |-> IF i = n + 1 THEN taken + 1 ELSE at[i]]
  <2>3. b \in [1 .. (n + 1) -> 1 .. (taken + 1)]
    BY <1>0, <1>3, <1>4
  <2>4. DOMAIN b = 1 .. (n + 1) /\ b[n + 1] = taken + 1 /\ \A i \in 1 .. n : b[i] = at[i]
    BY <1>4
  <2> HIDE DEF b
  <2>5. \A i, j \in 1 .. (n + 1) : i < j => b[i] < b[j]
    <3>1. ASSUME NEW i \in 1 .. n, NEW j \in 1 .. n, i < j PROVE b[i] < b[j]
      BY <1>3, <2>4, <3>1
    <3>2. ASSUME NEW i \in 1 .. n PROVE b[i] < b[n + 1]
      BY <1>0, <1>3, <2>4
    <3>3. ASSUME NEW i \in 1 .. (n + 1), NEW j \in 1 .. (n + 1), i < j PROVE i \in 1 .. n /\ (j \in 1 .. n \/ j = n + 1)
      <4>1. n \in Nat
        BY <1>0
      <4> HIDE DEF n
      <4> QED BY <3>3, <4>1
    <3> QED BY <3>1, <3>2, <3>3
  <2>6. {b[i] : i \in 1 .. (n + 1)} = {i \in 1 .. (taken + 1) : ~isChange(packets[i])}
    <3>1. {b[i] : i \in 1 .. (n + 1)} = {at[i] : i \in 1 .. n} \cup {taken + 1}
      BY <1>4, <2>4
    <3>2. {i \in 1 .. (taken + 1) : ~isChange(packets[i])} = {i \in 1 .. taken : ~isChange(packets[i])} \cup {taken + 1}
      BY <1>4, <1>6
    <3> QED BY <1>3, <3>1, <3>2
  <2>7. \A i \in 1 .. (n + 1) : relayed'[i] = packets[b[i]]
    BY <1>3, <1>4, <2>2, <2>4
  <2>8. Follows(b, relayed', packets', taken')
    BY <1>0, <2>4, <2>5, <2>6, <2>7 DEF Follows
  <2>9. Len(relayed') + answeredHere' = taken'
    BY <1>0, <2>1, <2>2 DEF RelayedFaithfully
  <2>10. RelayedFaithfully'
    <3>1. InOrder'
      BY <1>0, <2>2, <2>3, <2>8 DEF InOrder
    <3> QED BY <1>0, <2>9, <3>1 DEF RelayedFaithfully
  <2>11. DatabaseTypeOK'
    BY <1>0, <2>1, <2>2 DEF DatabaseTypeOK
  <2> QED BY <1>0, <2>10, <2>11 DEF DatabaseIInv, CredentialGuarded, ExposureKnown
<1> QED BY <1>5, <1>6

\* The database relay invariant holds at the start.
LEMMA DatabaseInitIInv == DatabaseInit => DatabaseIInv
<1> SUFFICES ASSUME DatabaseInit PROVE DatabaseIInv
  OBVIOUS
<1>1. hop \in HopRec /\ hop.pc = "accepted"
  BY DEF DatabaseInit, HungUp, HopRec
<1>2. DatabaseTypeOK
  BY <1>1 DEF DatabaseInit, DatabaseTypeOK
<1>3. 1 .. 0 = {} /\ Len(relayed) = 0 /\ taken = 0
  BY DEF DatabaseInit
<1> DEFINE at == [i \in 1 .. 0 |-> 0]
<1>4. at \in [1 .. Len(relayed) -> 1 .. taken] /\ DOMAIN at = {}
  BY <1>3
<1> HIDE DEF at
<1>5. Follows(at, relayed, packets, taken)
  BY <1>3, <1>4 DEF Follows
<1>6. InOrder
  BY <1>4, <1>5 DEF InOrder
<1>7. RelayedFaithfully
  BY <1>1, <1>3, <1>6 DEF DatabaseInit, RelayedFaithfully
<1> QED BY <1>1, <1>2, <1>7 DEF DatabaseInit, DatabaseIInv, CredentialGuarded, ExposureKnown

\* Every step of the database relay keeps the invariant.
LEMMA DatabaseNextIInv == DatabaseIInv /\ [DatabaseNext]_databaseVars => DatabaseIInv'
<1> SUFFICES ASSUME DatabaseIInv, [DatabaseNext]_databaseVars PROVE DatabaseIInv'
  OBVIOUS
<1>1. CASE UNCHANGED databaseVars
  BY <1>1 DEF databaseVars, DatabaseIInv, DatabaseTypeOK, CredentialGuarded, RelayedFaithfully, InOrder, ExposureKnown
<1> QED BY <1>1, DialKeeps, ClientKeeps, PacketKeeps DEF DatabaseNext

\* Whatever the names an application's page asks for resolve to, and whenever their answers
\* change between the check and the dial (apprelay/proxy.go), a request reaches the pinned
\* origin or an address that was checked and allowed; whatever the client and the database
\* do (mysqlrelay/relay.go), the credential crosses as the target's TLS mode says and the
\* packets relayed are those the client sent, in order.
THEOREM RelaysStaySound == RelaySpec /\ DatabaseSpec => []RelaySound
<1>1. RelayIInv /\ DatabaseIInv => RelaySound
  BY DEF RelayIInv, DatabaseIInv, RelaySound
<1> QED BY <1>1, RelayInitIInv, RelayNextIInv, DatabaseInitIInv, DatabaseNextIInv, PTL DEF RelaySpec, DatabaseSpec

-----------------------------------------------------------------------------
(* Shadow.  What a watcher of a terminal sees.                             *)

FirstSeen(W) == IF W.from > RingSize THEN W.from - RingSize + 1 ELSE 1

\* The ring holds the last chunks written.
RingKnown ==
    /\ Len(ring) = IF written > RingSize THEN RingSize ELSE written
    /\ \A i \in 1 .. Len(ring) : ring[i] = written - Len(ring) + i

\* Where a watcher is: its channel is open while it follows and the tap is not closed,
\* and until the replay is sent its browser has nothing.
Knows(W, n, c) ==
    /\ W.from <= n
    /\ W.open => W.pc \in {"joined", "following"} /\ c = FALSE
    /\ W.pc \in {"joined", "following"} /\ ~W.open => c
    /\ W.pc = "told" => c
    /\ W.pc \notin {"joined", "following"} => W.ch = <<>>
    /\ W.pc = "away" => W.got = <<>>
    /\ W.pc = "joined" => /\ W.got = <<>>
                          /\ Len(W.replay) = W.from - FirstSeen(W) + 1
                          /\ \A i \in 1 .. Len(W.replay) : W.replay[i] = FirstSeen(W) + i - 1

\* What it received and what waits in its channel, in the order written.
Ordered(W, n) ==
    /\ \A i, j \in 1 .. Len(W.got) : i < j => W.got[i] < W.got[j]
    /\ \A i \in 1 .. Len(W.got) : W.got[i] <= n
    /\ \A i, j \in 1 .. Len(W.ch) : i < j => W.ch[i] < W.ch[j]
    /\ \A j \in 1 .. Len(W.ch) : W.from < W.ch[j] /\ W.ch[j] <= n
    /\ W.pc = "following" => \A i \in 1 .. Len(W.got), j \in 1 .. Len(W.ch) : W.got[i] < W.ch[j]

\* With nothing dropped, the replay, what was received and what waits are all there is.
Whole(W, n) == W.dropped = 0 =>
    /\ \A i \in 1 .. Len(W.got) : W.got[i] = FirstSeen(W) + i - 1
    /\ W.pc = "joined" => Len(W.ch) = n - W.from /\ \A j \in 1 .. Len(W.ch) : W.ch[j] = W.from + j
    /\ W.pc = "following" => /\ Len(W.got) + Len(W.ch) = n - FirstSeen(W) + 1
                             /\ \A j \in 1 .. Len(W.ch) : W.ch[j] = FirstSeen(W) + Len(W.got) + j - 1
    /\ W.pc = "told" => Len(W.got) = n - FirstSeen(W) + 1

Sees(W, n, c) == W \in WatchRec /\ Len(W.ch) <= ChanSize /\ Knows(W, n, c) /\ Ordered(W, n) /\ Whole(W, n)

ShadowIInv == ShadowTypeOK /\ RingKnown /\ \A w \in Watchers : Sees(watch[w], written, closed)

\* An element of a sequence over S is in S.
LEMMA Element == ASSUME NEW S, NEW s \in Seq(S), NEW i \in 1 .. Len(s) PROVE s[i] \in S
  OBVIOUS

\* A watcher that has not joined.
LEMMA AwayKnown ==
    /\ Away \in WatchRec /\ Away.pc = "away" /\ Away.ch = <<>> /\ Away.got = <<>> /\ Away.open = FALSE
    /\ Away.from = 0 /\ Away.dropped = 0
<1>1. <<>> \in Seq(1 .. MaxOut)
  OBVIOUS
<1> QED BY <1>1, ShadowAssumption DEF Away, WatchRec

\* What the type of a watcher gives.
LEMMA FirstKnown ==
    ASSUME NEW W \in WatchRec
    PROVE  /\ FirstSeen(W) \in Nat /\ 1 <= FirstSeen(W) /\ FirstSeen(W) <= W.from + 1 /\ W.from \in Nat
           /\ W.ch \in Seq(1 .. MaxOut) /\ W.got \in Seq(1 .. MaxOut) /\ Len(W.ch) \in Nat /\ Len(W.got) \in Nat
           /\ \A i \in 1 .. Len(W.ch) : W.ch[i] \in 1 .. MaxOut
           /\ \A i \in 1 .. Len(W.got) : W.got[i] \in 1 .. MaxOut
<1>1. W.from \in 0 .. MaxOut /\ W.ch \in Seq(1 .. MaxOut) /\ W.got \in Seq(1 .. MaxOut)
  BY DEF WatchRec
<1>2. FirstSeen(W) \in Nat /\ 1 <= FirstSeen(W) /\ FirstSeen(W) <= W.from + 1 /\ W.from \in Nat
  BY <1>1, ShadowAssumption DEF FirstSeen
<1>3. /\ \A i \in 1 .. Len(W.ch) : W.ch[i] \in 1 .. MaxOut
      /\ \A i \in 1 .. Len(W.got) : W.got[i] \in 1 .. MaxOut
  <2> DEFINE c == W.ch
             g == W.got
  <2>1. c \in Seq(1 .. MaxOut) /\ g \in Seq(1 .. MaxOut)
    BY <1>1
  <2> HIDE DEF c, g
  <2>2. \A i \in 1 .. Len(c) : c[i] \in 1 .. MaxOut
    BY <2>1, Element
  <2>3. \A i \in 1 .. Len(g) : g[i] \in 1 .. MaxOut
    BY <2>1, Element
  <2> QED BY <2>2, <2>3 DEF c, g
<1>4. Len(W.ch) \in Nat /\ Len(W.got) \in Nat
  BY <1>1
<1> QED BY <1>1, <1>2, <1>3, <1>4

\* The positions of a sequence that grew by one element.
LEMMA Position == ASSUME NEW k \in Nat PROVE \A i \in 1 .. (k + 1) : (i \in 1 .. k) \/ i = k + 1
  OBVIOUS

\* One watcher's step.
LEMMA OneWatcher ==
    ASSUME ShadowIInv, NEW w \in Watchers, NEW W, Sees(W, written, closed),
           watch' = [watch EXCEPT ![w] = W], UNCHANGED <<written, ring, closed>>
    PROVE  ShadowIInv'
<1>1. watch \in [Watchers -> WatchRec]
  BY DEF ShadowIInv, ShadowTypeOK
<1>2. watch' \in [Watchers -> WatchRec]
  BY <1>1 DEF Sees
<1>3. \A v \in Watchers : Sees(watch'[v], written, closed)
  BY <1>1 DEF ShadowIInv
<1>4. ShadowTypeOK'
  BY <1>2, <1>3 DEF ShadowIInv, ShadowTypeOK, Sees
<1> QED BY <1>3, <1>4 DEF ShadowIInv, RingKnown

\* A chunk written, for a watcher whose channel takes it, is full, or is not open.
LEMMA ChunkWritten ==
    ASSUME NEW n \in Nat, n < MaxOut, NEW W, Sees(W, n, FALSE), NEW V,
           V = IF ~W.open THEN W
               ELSE IF Len(W.ch) < ChanSize THEN [W EXCEPT !.ch = Append(W.ch, n + 1)]
               ELSE [W EXCEPT !.dropped = W.dropped + 1]
    PROVE  Sees(V, n + 1, FALSE)
<1> USE ShadowAssumption
<1>0. W \in WatchRec /\ Len(W.ch) <= ChanSize /\ Knows(W, n, FALSE) /\ Ordered(W, n) /\ Whole(W, n)
  BY DEF Sees
<1>1. CASE ~W.open
  <2>1. V = W /\ W.pc \in {"away", "gone"} /\ W.ch = <<>> /\ W.from <= n + 1
    BY <1>0, <1>1, FirstKnown DEF Knows, WatchRec
  <2>2. Knows(W, n + 1, FALSE)
    BY <1>0, <1>1, <2>1 DEF Knows
  <2>3. Ordered(W, n + 1)
    BY <1>0, <2>1, FirstKnown DEF Ordered
  <2>4. Whole(W, n + 1)
    BY <1>0, <2>1 DEF Whole
  <2> QED BY <1>0, <2>1, <2>2, <2>3, <2>4 DEF Sees
<1>2. CASE W.open /\ Len(W.ch) < ChanSize
  <2> DEFINE s == Append(W.ch, n + 1)
  <2>1. V = [W EXCEPT !.ch = s]
    BY <1>2
  <2>2. /\ s \in Seq(1 .. MaxOut) /\ Len(s) = Len(W.ch) + 1 /\ s[Len(W.ch) + 1] = n + 1
        /\ \A i \in 1 .. Len(W.ch) : s[i] = W.ch[i]
    BY <1>0, FirstKnown
  <2> HIDE DEF s
  <2>3. /\ V \in WatchRec /\ V.ch = s /\ V.pc = W.pc /\ V.open = W.open /\ V.from = W.from /\ V.got = W.got
        /\ V.replay = W.replay /\ V.dropped = W.dropped
    BY <1>0, <2>1, <2>2 DEF WatchRec
  <2>4. FirstSeen(V) = FirstSeen(W)
    BY <2>3 DEF FirstSeen
  <2>5. W.pc \in {"joined", "following"}
    BY <1>0, <1>2 DEF Knows
  <2>6. Knows(V, n + 1, FALSE)
    <3>1. V.from <= n + 1
      BY <1>0, <2>3, FirstKnown DEF Knows
    <3> QED BY <1>0, <1>2, <2>3, <2>4, <2>5, <3>1 DEF Knows
  <2> DEFINE c == W.ch
             g == W.got
             k == Len(W.ch)
             m == Len(W.got)
             a == W.from
             f == FirstSeen(W)
  <2>f. /\ k \in Nat /\ m \in Nat /\ a \in Nat /\ f \in Nat
        /\ \A i \in 1 .. k : c[i] \in Int
        /\ \A i \in 1 .. m : g[i] \in Int
    <3>1. /\ k \in Nat /\ m \in Nat /\ a \in Nat /\ f \in Nat
          /\ \A i \in 1 .. k : c[i] \in 1 .. MaxOut
          /\ \A i \in 1 .. m : g[i] \in 1 .. MaxOut
      BY <1>0, FirstKnown
    <3> QED BY <3>1
  <2>s. /\ Len(s) = k + 1 /\ s[k + 1] = n + 1 /\ \A i \in 1 .. k : s[i] = c[i]
        /\ \A i \in 1 .. (k + 1) : (i \in 1 .. k) \/ i = k + 1
    BY <2>2, <2>f, Position
  <2>o. /\ \A i, j \in 1 .. m : i < j => g[i] < g[j]
        /\ \A i \in 1 .. m : g[i] <= n
        /\ \A i, j \in 1 .. k : i < j => c[i] < c[j]
        /\ \A j \in 1 .. k : a < c[j] /\ c[j] <= n
        /\ W.pc = "following" => \A i \in 1 .. m, j \in 1 .. k : g[i] < c[j]
        /\ a <= n
    BY <1>0 DEF Ordered, Knows
  <2>w. W.dropped = 0 =>
          /\ \A i \in 1 .. m : g[i] = f + i - 1
          /\ W.pc = "joined" => k = n - a /\ \A j \in 1 .. k : c[j] = a + j
          /\ W.pc = "following" => m + k = n - f + 1 /\ \A j \in 1 .. k : c[j] = f + m + j - 1
    BY <1>0 DEF Whole
  <2>v. V.got = g /\ V.from = a /\ FirstSeen(V) = f /\ Len(V.got) = m /\ V.ch = s /\ V.pc = W.pc
    BY <2>3, <2>4
  <2> HIDE DEF c, g, k, m, a, f
  <2>7. Ordered(V, n + 1)
    <3>1. \A i, j \in 1 .. (k + 1) : i < j => s[i] < s[j]
      <4>1. ASSUME NEW i \in 1 .. (k + 1), NEW j \in 1 .. (k + 1), i < j PROVE s[i] < s[j]
        <5>1. (i \in 1 .. k) /\ ((j \in 1 .. k) \/ j = k + 1)
          BY <2>f, <4>1
        <5>2. CASE j \in 1 .. k
          BY <2>s, <2>o, <4>1, <5>1, <5>2
        <5>3. CASE j = k + 1
          <6>1. s[i] = c[i] /\ c[i] <= n /\ c[i] \in Int
            BY <2>s, <2>o, <2>f, <5>1
          <6> QED BY <2>s, <5>3, <6>1
        <5> QED BY <5>1, <5>2, <5>3
      <4> QED BY <4>1
    <3>2. \A i \in 1 .. m : g[i] < n + 1 /\ g[i] <= n + 1
      BY <2>f, <2>o
    <3>4. \A j \in 1 .. (k + 1) : a < s[j] /\ s[j] <= n + 1
      <4>1. ASSUME NEW j \in 1 .. (k + 1) PROVE a < s[j] /\ s[j] <= n + 1
        <5>1. CASE j \in 1 .. k
          <6>1. s[j] = c[j] /\ a < c[j] /\ c[j] <= n /\ c[j] \in Int
            BY <2>s, <2>o, <2>f, <5>1
          <6> QED BY <6>1
        <5>2. CASE j = k + 1
          BY <2>s, <2>f, <2>o, <5>2
        <5> QED BY <2>s, <5>1, <5>2
      <4> QED BY <4>1
    <3>6. W.pc = "following" => \A i \in 1 .. m, j \in 1 .. (k + 1) : g[i] < s[j]
      BY <2>s, <2>o, <3>2
    <3> QED BY <2>v, <2>s, <2>o, <3>1, <3>2, <3>4, <3>6 DEF Ordered
  <2>8. Whole(V, n + 1)
    <3> SUFFICES ASSUME W.dropped = 0 PROVE Whole(V, n + 1)
      BY <2>3 DEF Whole
    <3>2. W.pc = "joined" => k + 1 = (n + 1) - a /\ \A j \in 1 .. (k + 1) : s[j] = a + j
      <4> SUFFICES ASSUME W.pc = "joined" PROVE k + 1 = (n + 1) - a /\ \A j \in 1 .. (k + 1) : s[j] = a + j
        OBVIOUS
      <4>1. k = n - a /\ \A j \in 1 .. k : c[j] = a + j
        BY <2>w
      <4>2. k + 1 = (n + 1) - a /\ n + 1 = a + (k + 1)
        BY <2>f, <4>1
      <4> QED BY <2>s, <4>1, <4>2
    <3>3. W.pc = "following" => m + (k + 1) = (n + 1) - f + 1 /\ \A j \in 1 .. (k + 1) : s[j] = f + m + j - 1
      <4> SUFFICES ASSUME W.pc = "following"
                   PROVE m + (k + 1) = (n + 1) - f + 1 /\ \A j \in 1 .. (k + 1) : s[j] = f + m + j - 1
        OBVIOUS
      <4>1. m + k = n - f + 1 /\ \A j \in 1 .. k : c[j] = f + m + j - 1
        BY <2>w
      <4>2. m + (k + 1) = (n + 1) - f + 1 /\ n + 1 = f + m + (k + 1) - 1
        BY <2>f, <4>1
      <4> QED BY <2>s, <4>1, <4>2
    <3>4. Len(V.ch) = k + 1 /\ V.got = g /\ \A i \in 1 .. m : g[i] = f + i - 1
      BY <2>v, <2>s, <2>w
    <3>5. W.pc # "told"
      BY <2>5
    <3>6. \A i \in 1 .. Len(V.got) : V.got[i] = FirstSeen(V) + i - 1
      BY <2>v, <3>4
    <3>7. V.pc = "joined" => Len(V.ch) = (n + 1) - V.from /\ \A j \in 1 .. Len(V.ch) : V.ch[j] = V.from + j
      BY <2>v, <3>2, <3>4
    <3>8. V.pc = "following" => /\ Len(V.got) + Len(V.ch) = (n + 1) - FirstSeen(V) + 1
                               /\ \A j \in 1 .. Len(V.ch) : V.ch[j] = FirstSeen(V) + Len(V.got) + j - 1
      BY <2>v, <3>3, <3>4
    <3> QED BY <2>v, <3>5, <3>6, <3>7, <3>8 DEF Whole
  <2>9. Len(V.ch) <= ChanSize
    BY <1>0, <1>2, <2>2, <2>3, FirstKnown
  <2> QED BY <2>3, <2>6, <2>7, <2>8, <2>9 DEF Sees
<1>3. CASE W.open /\ ~(Len(W.ch) < ChanSize)
  <2> DEFINE d == W.dropped + 1
  <2>1. V = [W EXCEPT !.dropped = d]
    BY <1>3
  <2>d. d \in Nat /\ d # 0
    <3>1. W.dropped \in Nat
      BY <1>0 DEF WatchRec
    <3> QED BY <3>1
  <2> HIDE DEF d
  <2>2. /\ V \in WatchRec /\ V.ch = W.ch /\ V.pc = W.pc /\ V.open = W.open /\ V.from = W.from /\ V.got = W.got
        /\ V.replay = W.replay /\ V.dropped # 0
    BY <1>0, <2>1, <2>d DEF WatchRec
  <2>3. FirstSeen(V) = FirstSeen(W)
    BY <2>2 DEF FirstSeen
  <2>4. V.from <= n + 1
    BY <1>0, <2>2, FirstKnown DEF Knows
  <2>5. Knows(V, n + 1, FALSE)
    BY <1>0, <1>3, <2>2, <2>3, <2>4 DEF Knows
  <2>6. Ordered(V, n + 1)
    <3>1. \A j \in 1 .. Len(W.ch) : W.ch[j] <= n + 1
      BY <1>0, FirstKnown DEF Ordered
    <3>2. \A i \in 1 .. Len(W.got) : W.got[i] <= n + 1
      BY <1>0, FirstKnown DEF Ordered
    <3> QED BY <1>0, <2>2, <3>1, <3>2 DEF Ordered
  <2>7. Whole(V, n + 1)
    BY <2>2 DEF Whole
  <2> QED BY <1>0, <2>2, <2>5, <2>6, <2>7 DEF Sees
<1> QED BY <1>1, <1>2, <1>3

\* Tap.Write: a chunk reaches the watchers.
LEMMA TapWriteKeeps == ASSUME ShadowIInv, TapWrite PROVE ShadowIInv'
<1> USE ShadowAssumption
<1>0. /\ closed = FALSE /\ written \in Nat /\ written < MaxOut /\ written' = written + 1 /\ closed' = closed
      /\ ring \in Seq(1 .. MaxOut) /\ Len(ring) \in Nat /\ RingKnown
  BY DEF ShadowIInv, ShadowTypeOK, TapWrite
<1>1. ASSUME NEW w \in Watchers PROVE Sees(watch'[w], written', closed')
  <2>1. watch'[w] = IF ~watch[w].open THEN watch[w]
                    ELSE IF Len(watch[w].ch) < ChanSize THEN [watch[w] EXCEPT !.ch = Append(watch[w].ch, written + 1)]
                    ELSE [watch[w] EXCEPT !.dropped = watch[w].dropped + 1]
    <3>1. watch[w] \in WatchRec
      BY DEF ShadowIInv, ShadowTypeOK
    <3> QED BY <3>1 DEF TapWrite, WatchRec
  <2>2. Sees(watch[w], written, FALSE)
    BY <1>0 DEF ShadowIInv
  <2>3. Sees(watch'[w], written + 1, FALSE)
    BY <1>0, <2>1, <2>2, ChunkWritten
  <2> QED BY <1>0, <2>3
<1>2. ring' \in Seq(1 .. MaxOut) /\ Len(ring') <= RingSize /\ RingKnown'
  <2> DEFINE s == Append(ring, written + 1)
  <2>1. /\ s \in Seq(1 .. MaxOut) /\ Len(s) = Len(ring) + 1 /\ s[Len(ring) + 1] = written + 1
        /\ \A i \in 1 .. Len(ring) : s[i] = ring[i]
    BY <1>0
  <2>2. ring' = IF Len(s) > RingSize THEN Tail(s) ELSE s
    BY DEF TapWrite, Recent
  <2> HIDE DEF s
  <2>3. \A i \in 1 .. Len(s) : s[i] = (written + 1) - Len(s) + i
    <3> DEFINE k == Len(ring)
    <3>1. /\ k \in Nat /\ Len(s) = k + 1 /\ s[k + 1] = written + 1 /\ \A i \in 1 .. k : s[i] = ring[i]
          /\ \A i \in 1 .. k : ring[i] = written - k + i
          /\ \A i \in 1 .. (k + 1) : (i \in 1 .. k) \/ i = k + 1
      BY <1>0, <2>1, Position DEF RingKnown
    <3> HIDE DEF k
    <3>2. \A i \in 1 .. (k + 1) : s[i] = (written + 1) - (k + 1) + i
      <4>1. ASSUME NEW i \in 1 .. (k + 1) PROVE s[i] = (written + 1) - (k + 1) + i
        <5>1. CASE i \in 1 .. k
          <6>1. s[i] = written - k + i
            BY <3>1, <5>1
          <6> QED BY <1>0, <3>1, <6>1
        <5>2. CASE i = k + 1
          BY <1>0, <3>1, <5>2
        <5> QED BY <3>1, <5>1, <5>2
      <4> QED BY <4>1
    <3> QED BY <3>1, <3>2
  <2>4. CASE Len(s) > RingSize
    <3>1. ring' = Tail(s) /\ s # <<>>
      BY <1>0, <2>1, <2>2, <2>4
    <3>2. ring' \in Seq(1 .. MaxOut) /\ Len(ring') = Len(ring) /\ \A i \in 1 .. Len(ring) : ring'[i] = s[i + 1]
      BY <1>0, <2>1, <3>1
    <3>3. Len(ring) = RingSize /\ written + 1 > RingSize
      BY <1>0, <2>1, <2>4 DEF RingKnown
    <3>4. \A i \in 1 .. Len(ring) : i + 1 \in 1 .. Len(s)
      BY <1>0, <2>1
    <3>5. \A i \in 1 .. Len(ring) : s[i + 1] = (written + 1) - Len(ring) + i
      BY <1>0, <2>1, <2>3, <3>4
    <3> QED BY <1>0, <3>2, <3>3, <3>5 DEF RingKnown
  <2>5. CASE ~(Len(s) > RingSize)
    <3>1. ring' = s /\ Len(s) = Len(ring) + 1 /\ Len(s) <= RingSize
      BY <1>0, <2>1, <2>2, <2>5
    <3>2. Len(ring) = written
      BY <1>0, <3>1 DEF RingKnown
    <3> QED BY <1>0, <2>1, <2>3, <3>1, <3>2 DEF RingKnown
  <2> QED BY <2>4, <2>5
<1>3. watch' \in [Watchers -> WatchRec] /\ \A w \in Watchers : Len(watch'[w].ch) <= ChanSize
  <2>1. DOMAIN watch' = Watchers /\ watch' = [w \in Watchers |-> watch'[w]]
    BY DEF TapWrite
  <2> QED BY <1>1, <2>1 DEF Sees
<1>4. written' \in 0 .. MaxOut
  BY <1>0
<1>5. ShadowTypeOK'
  BY <1>0, <1>2, <1>3, <1>4 DEF ShadowTypeOK
<1> QED BY <1>1, <1>2, <1>5 DEF ShadowIInv

\* Tap.Close: the watchers are told.
LEMMA TapCloseKeeps == ASSUME ShadowIInv, TapClose PROVE ShadowIInv'
<1>0. closed' = TRUE /\ written' = written /\ ring' = ring
      /\ watch' = [w \in Watchers |-> [watch[w] EXCEPT !.open = FALSE]] /\ watch \in [Watchers -> WatchRec]
  BY DEF ShadowIInv, ShadowTypeOK, TapClose
<1>1. ASSUME NEW w \in Watchers PROVE Sees(watch'[w], written', closed')
  <2> DEFINE W == watch[w]
             V == [W EXCEPT !.open = FALSE]
  <2>1. Sees(W, written, closed) /\ W \in WatchRec
    BY <1>0 DEF ShadowIInv
  <2>2. /\ V \in WatchRec /\ V.ch = W.ch /\ V.pc = W.pc /\ V.open = FALSE /\ V.from = W.from /\ V.got = W.got
        /\ V.replay = W.replay /\ V.dropped = W.dropped
    BY <2>1 DEF WatchRec
  <2>3. watch'[w] = V
    BY <1>0
  <2> HIDE DEF V
  <2>4. FirstSeen(V) = FirstSeen(W)
    BY <2>2 DEF FirstSeen
  <2>5. Knows(V, written, TRUE)
    BY <2>1, <2>2, <2>4 DEF Sees, Knows
  <2>6. Ordered(V, written) /\ Whole(V, written) /\ Len(V.ch) <= ChanSize
    BY <2>1, <2>2, <2>4 DEF Sees, Ordered, Whole
  <2> QED BY <1>0, <2>2, <2>3, <2>5, <2>6 DEF Sees
<1>2. watch' \in [Watchers -> WatchRec] /\ \A w \in Watchers : Len(watch'[w].ch) <= ChanSize
  <2>1. watch' = [w \in Watchers |-> watch'[w]]
    BY <1>0
  <2> QED BY <1>1, <2>1 DEF Sees
<1>3. ShadowTypeOK'
  BY <1>0, <1>2 DEF ShadowIInv, ShadowTypeOK
<1> QED BY <1>0, <1>1, <1>3 DEF ShadowIInv, RingKnown

\* The watcher's own steps.
LEMMA WatcherKeeps ==
    ASSUME ShadowIInv, NEW w \in Watchers,
           Subscribe(w) \/ SendReplay(w) \/ SendChunk(w) \/ SendEnd(w) \/ Unsubscribe(w)
    PROVE  ShadowIInv'
<1> USE ShadowAssumption
<1> DEFINE W == watch[w]
           n == written
<1>0. /\ watch \in [Watchers -> WatchRec] /\ W \in WatchRec /\ Len(W.ch) <= ChanSize
      /\ Knows(W, n, closed) /\ Ordered(W, n) /\ Whole(W, n) /\ n \in 0 .. MaxOut /\ n \in Nat /\ closed \in BOOLEAN
      /\ UNCHANGED <<written, ring, closed>> /\ RingKnown /\ ring \in Seq(1 .. MaxOut) /\ Len(ring) \in Nat
  BY DEF ShadowIInv, ShadowTypeOK, Sees, Subscribe, SendReplay, SendChunk, SendEnd, Unsubscribe
<1>1. SUFFICES \E V : watch' = [watch EXCEPT ![w] = V] /\ Sees(V, n, closed)
  BY <1>0, OneWatcher
<1>2. CASE Subscribe(w)
  <2> DEFINE o == ~closed
             V == [Away EXCEPT !.pc = "joined", !.open = o, !.replay = ring, !.from = n]
  <2>1. watch' = [watch EXCEPT ![w] = V]
    BY <1>2 DEF Subscribe
  <2>2. o \in BOOLEAN /\ (o <=> ~closed)
    BY <1>0
  <2> HIDE DEF o
  <2>3. /\ V \in WatchRec /\ V.pc = "joined" /\ V.open = o /\ V.replay = ring /\ V.from = n /\ V.ch = <<>> /\ V.got = <<>> /\ V.dropped = 0
    BY <1>0, <2>2, AwayKnown DEF WatchRec
  <2> HIDE DEF V
  <2>4. Len(ring) = n - FirstSeen(V) + 1 /\ \A i \in 1 .. Len(ring) : ring[i] = FirstSeen(V) + i - 1
    <3> DEFINE k == Len(ring)
               f == FirstSeen(V)
    <3>1. /\ k \in Nat /\ n \in Nat /\ k = (IF n > RingSize THEN RingSize ELSE n)
          /\ f = IF n > RingSize THEN n - RingSize + 1 ELSE 1
          /\ \A i \in 1 .. k : ring[i] = n - k + i
      BY <1>0, <2>3 DEF RingKnown, FirstSeen
    <3> HIDE DEF k, f, n
    <3>2. f \in Nat /\ k = n - f + 1 /\ \A i \in 1 .. k : n - k + i = f + i - 1
      BY <3>1
    <3> QED BY <3>1, <3>2 DEF k, f
  <2>5. Knows(V, n, closed)
    BY <1>0, <2>2, <2>3, <2>4 DEF Knows
  <2>6. Len(<<>>) = 0 /\ 1 .. 0 = {}
    OBVIOUS
  <2>7. Ordered(V, n)
    BY <2>3, <2>6 DEF Ordered
  <2>8. Whole(V, n)
    <3>1. n - n = 0
      BY <1>0
    <3>2. \A i \in 1 .. Len(V.got) : FALSE
      BY <2>3, <2>6
    <3>3. \A i \in 1 .. Len(V.ch) : FALSE
      BY <2>3, <2>6
    <3>4. Len(V.ch) = n - V.from
      BY <2>3, <2>6, <3>1
    <3> QED BY <2>3, <3>2, <3>3, <3>4 DEF Whole
  <2>9. Len(V.ch) <= ChanSize
    BY <2>3, <2>6
  <2> QED BY <2>1, <2>3, <2>5, <2>7, <2>8, <2>9 DEF Sees
<1>3. CASE SendReplay(w)
  <2> DEFINE V == [W EXCEPT !.pc = "following", !.got = W.replay]
  <2>1. watch' = [watch EXCEPT ![w] = V] /\ W.pc = "joined"
    BY <1>0, <1>3 DEF SendReplay
  <2>2. W.replay \in Seq(1 .. MaxOut) /\ Len(W.replay) \in Nat
    BY <1>0 DEF WatchRec
  <2>3. /\ V \in WatchRec /\ V.pc = "following" /\ V.got = W.replay /\ V.ch = W.ch /\ V.open = W.open
        /\ V.from = W.from /\ V.dropped = W.dropped
    BY <1>0, <2>2 DEF WatchRec
  <2> HIDE DEF V
  <2>4. FirstSeen(V) = FirstSeen(W)
    BY <2>3 DEF FirstSeen
  <2>5. Knows(V, n, closed)
    BY <1>0, <2>1, <2>3, <2>4 DEF Knows
  <2>6. /\ Len(W.replay) = W.from - FirstSeen(W) + 1
        /\ \A i \in 1 .. Len(W.replay) : W.replay[i] = FirstSeen(W) + i - 1
    BY <1>0, <2>1 DEF Knows
  <2>8. Ordered(V, n)
    <3> DEFINE r == W.replay
               k == Len(W.replay)
               f == FirstSeen(W)
               a == W.from
    <3>0. /\ k \in Nat /\ f \in Nat /\ a \in Nat /\ k = a - f + 1 /\ a <= n
          /\ \A i \in 1 .. k : r[i] = f + i - 1
      <4>1. f \in Nat /\ a \in Nat
        BY <1>0, FirstKnown
      <4> QED BY <1>0, <2>2, <2>6, <4>1 DEF Knows
    <3>w. \A j \in 1 .. Len(W.ch) : a < W.ch[j] /\ W.ch[j] \in Int
      <4>1. \A j \in 1 .. Len(W.ch) : W.ch[j] \in 1 .. MaxOut
        BY <1>0, FirstKnown
      <4> QED BY <1>0, <4>1 DEF Ordered
    <3>n. n \in Nat
      BY <1>0
    <3>v. V.got = r /\ Len(V.got) = k
      BY <2>3
    <3> HIDE DEF r, k, f, a, n
    <3>1. \A i, j \in 1 .. k : i < j => r[i] < r[j]
      BY <3>0
    <3>2. \A i \in 1 .. k : r[i] <= a /\ r[i] <= n /\ r[i] \in Int
      BY <3>0, <3>n
    <3>4. \A i \in 1 .. k, j \in 1 .. Len(W.ch) : r[i] < W.ch[j]
      BY <3>0, <3>w, <3>2
    <3> QED BY <1>0, <2>3, <3>v, <3>1, <3>2, <3>4 DEF Ordered
  <2>9. Whole(V, n)
    <3> SUFFICES ASSUME W.dropped = 0 PROVE Whole(V, n)
      BY <2>3 DEF Whole
    <3>1. Len(W.ch) = n - W.from /\ \A j \in 1 .. Len(W.ch) : W.ch[j] = W.from + j
      BY <1>0, <2>1 DEF Whole
    <3>2. Len(W.replay) + Len(W.ch) = n - FirstSeen(W) + 1
      BY <1>0, <2>6, <3>1, FirstKnown
    <3>3. \A j \in 1 .. Len(W.ch) : W.ch[j] = FirstSeen(W) + Len(W.replay) + j - 1
      BY <1>0, <2>6, <3>1, FirstKnown
    <3> QED BY <2>3, <2>4, <2>6, <3>2, <3>3 DEF Whole
  <2> QED BY <1>0, <2>1, <2>3, <2>5, <2>8, <2>9 DEF Sees
<1>4. CASE SendChunk(w)
  <2> DEFINE t == Tail(W.ch)
             g == Append(W.got, Head(W.ch))
             V == [W EXCEPT !.ch = t, !.got = g]
  <2>1. watch' = [watch EXCEPT ![w] = V] /\ W.pc = "following" /\ W.ch # <<>>
    BY <1>0, <1>4 DEF SendChunk
  <2>2. /\ W.ch \in Seq(1 .. MaxOut) /\ W.got \in Seq(1 .. MaxOut) /\ Len(W.ch) \in Nat /\ Len(W.got) \in Nat /\ Len(W.ch) >= 1
        /\ W.ch[1] \in 1 .. MaxOut
    BY <1>0, <2>1, FirstKnown
  <2>3. t \in Seq(1 .. MaxOut) /\ Len(t) = Len(W.ch) - 1 /\ \A i \in 1 .. Len(t) : t[i] = W.ch[i + 1]
    <3> DEFINE c == W.ch
    <3>1. c \in Seq(1 .. MaxOut) /\ c # <<>>
      BY <2>1, <2>2
    <3> HIDE DEF c
    <3>2. /\ Tail(c) \in Seq(1 .. MaxOut) /\ Len(Tail(c)) = Len(c) - 1
          /\ \A i \in 1 .. Len(Tail(c)) : Tail(c)[i] = c[i + 1]
      BY <3>1
    <3> QED BY <3>2 DEF c
  <2>4. /\ g \in Seq(1 .. MaxOut) /\ Len(g) = Len(W.got) + 1 /\ g[Len(W.got) + 1] = W.ch[1]
        /\ \A i \in 1 .. Len(W.got) : g[i] = W.got[i]
    <3>1. Head(W.ch) = W.ch[1]
      BY <2>1, <2>2
    <3> QED BY <2>2, <3>1
  <2> HIDE DEF t, g
  <2>6. /\ V \in WatchRec /\ V.ch = t /\ V.got = g /\ V.pc = "following" /\ V.open = W.open /\ V.from = W.from
        /\ V.dropped = W.dropped
    BY <1>0, <2>1, <2>3, <2>4 DEF WatchRec
  <2> HIDE DEF V
  <2>7. FirstSeen(V) = FirstSeen(W)
    BY <2>6 DEF FirstSeen
  <2>8. Knows(V, n, closed)
    BY <1>0, <2>1, <2>6 DEF Knows
  <2> DEFINE c == W.ch
             h == W.got
             k == Len(t)
             m == Len(W.got)
             a == W.from
             f == FirstSeen(W)
  <2>a. /\ k \in Nat /\ m \in Nat /\ a \in Nat /\ f \in Nat /\ Len(W.ch) = k + 1 /\ n \in Nat
        /\ \A i \in 1 .. (k + 1) : c[i] \in Int
        /\ \A i \in 1 .. m : h[i] \in Int
    <3>1. a \in Nat /\ f \in Nat /\ \A i \in 1 .. Len(W.ch) : c[i] \in 1 .. MaxOut
      BY <1>0, FirstKnown
    <3>2. \A i \in 1 .. m : h[i] \in 1 .. MaxOut
      BY <1>0, FirstKnown
    <3>3. k \in Nat /\ Len(W.ch) = k + 1
      BY <2>2, <2>3
    <3>4. /\ \A i \in 1 .. (k + 1) : c[i] \in Int
          /\ \A i \in 1 .. m : h[i] \in Int
      BY <3>1, <3>2, <3>3
    <3> QED BY <1>0, <2>2, <3>1, <3>3, <3>4
  <2>b. /\ Len(g) = m + 1 /\ g[m + 1] = c[1] /\ \A i \in 1 .. m : g[i] = h[i]
        /\ \A i \in 1 .. (m + 1) : (i \in 1 .. m) \/ i = m + 1
        /\ \A i \in 1 .. k : t[i] = c[i + 1]
    BY <2>3, <2>4, <2>a, Position
  <2>c. /\ \A i, j \in 1 .. m : i < j => h[i] < h[j]
        /\ \A i \in 1 .. m : h[i] <= n
        /\ \A i, j \in 1 .. (k + 1) : i < j => c[i] < c[j]
        /\ \A j \in 1 .. (k + 1) : a < c[j] /\ c[j] <= n
        /\ \A i \in 1 .. m, j \in 1 .. (k + 1) : h[i] < c[j]
    BY <1>0, <2>1, <2>a DEF Ordered
  <2>d. W.dropped = 0 =>
          /\ \A i \in 1 .. m : h[i] = f + i - 1
          /\ m + (k + 1) = n - f + 1 /\ \A j \in 1 .. (k + 1) : c[j] = f + m + j - 1
    BY <1>0, <2>1, <2>a DEF Whole
  <2>e. V.got = g /\ V.from = a /\ FirstSeen(V) = f /\ V.ch = t /\ V.pc = "following" /\ Len(V.ch) = k /\ Len(V.got) = m + 1
    BY <2>6, <2>7, <2>b
  <2> HIDE DEF c, h, k, m, a, f, n
  <2>i. (1 \in 1 .. (k + 1)) /\ \A i \in 1 .. k : (i + 1 \in 1 .. (k + 1)) /\ 1 < i + 1
    BY <2>a
  <2>9. Ordered(V, n)
    <3>1. \A i, j \in 1 .. (m + 1) : i < j => g[i] < g[j]
      <4>1. ASSUME NEW i \in 1 .. (m + 1), NEW j \in 1 .. (m + 1), i < j PROVE g[i] < g[j]
        <5>1. (i \in 1 .. m) /\ ((j \in 1 .. m) \/ j = m + 1)
          BY <2>a, <4>1
        <5> QED BY <2>b, <2>c, <2>i, <4>1, <5>1
      <4> QED BY <4>1
    <3>2. \A i \in 1 .. (m + 1) : g[i] <= n
      BY <2>b, <2>c, <2>i
    <3>3. \A i, j \in 1 .. k : i < j => t[i] < t[j]
      <4>1. \A i, j \in 1 .. k : i < j => i + 1 < j + 1
        BY <2>a
      <4> QED BY <2>b, <2>c, <2>i, <4>1
    <3>4. \A j \in 1 .. k : a < t[j] /\ t[j] <= n
      BY <2>b, <2>c, <2>i
    <3>5. \A i \in 1 .. (m + 1), j \in 1 .. k : g[i] < t[j]
      BY <2>b, <2>c, <2>i
    <3> QED BY <2>e, <3>1, <3>2, <3>3, <3>4, <3>5 DEF Ordered
  <2>10. Whole(V, n)
    <3> SUFFICES ASSUME W.dropped = 0 PROVE Whole(V, n)
      BY <2>6 DEF Whole
    <3>2. \A i \in 1 .. (m + 1) : g[i] = f + i - 1
      <4>1. c[1] = f + (m + 1) - 1
        BY <2>a, <2>d, <2>i
      <4> QED BY <2>b, <2>d, <4>1
    <3>3. (m + 1) + k = n - f + 1
      BY <2>a, <2>d
    <3>4. \A j \in 1 .. k : t[j] = f + (m + 1) + j - 1
      <4>1. ASSUME NEW j \in 1 .. k PROVE t[j] = f + (m + 1) + j - 1
        <5>1. t[j] = f + m + (j + 1) - 1 /\ j \in Nat
          BY <2>a, <2>b, <2>d, <2>i
        <5> QED BY <2>a, <5>1
      <4> QED BY <4>1
    <3> QED BY <2>e, <3>2, <3>3, <3>4 DEF Whole
  <2>11. Len(V.ch) <= ChanSize
    BY <1>0, <2>2, <2>3, <2>6
  <2> QED BY <2>1, <2>6, <2>8, <2>9, <2>10, <2>11 DEF Sees
<1>5. CASE SendEnd(w)
  <2> DEFINE V == [W EXCEPT !.pc = "told"]
  <2>1. watch' = [watch EXCEPT ![w] = V] /\ W.pc = "following" /\ W.ch = <<>> /\ ~W.open
    BY <1>0, <1>5 DEF SendEnd
  <2>2. /\ V \in WatchRec /\ V.pc = "told" /\ V.got = W.got /\ V.ch = W.ch /\ V.open = W.open
        /\ V.from = W.from /\ V.dropped = W.dropped
    BY <1>0 DEF WatchRec
  <2> HIDE DEF V
  <2>3. FirstSeen(V) = FirstSeen(W) /\ Len(W.ch) = 0
    BY <2>1, <2>2 DEF FirstSeen
  <2>4. Knows(V, n, closed)
    BY <1>0, <2>1, <2>2 DEF Knows
  <2>5. Ordered(V, n)
    BY <1>0, <2>2 DEF Ordered
  <2>6. Whole(V, n)
    BY <1>0, <2>1, <2>2, <2>3, FirstKnown DEF Whole
  <2> QED BY <1>0, <2>1, <2>2, <2>4, <2>5, <2>6 DEF Sees
<1>6. CASE Unsubscribe(w)
  <2> DEFINE V == [W EXCEPT !.pc = "gone", !.open = FALSE, !.ch = <<>>]
  <2>1. watch' = [watch EXCEPT ![w] = V]
    BY <1>0, <1>6 DEF Unsubscribe
  <2>e. <<>> \in Seq(1 .. MaxOut)
    OBVIOUS
  <2>2. /\ V \in WatchRec /\ V.pc = "gone" /\ V.got = W.got /\ V.ch = <<>> /\ V.open = FALSE
        /\ V.from = W.from /\ V.dropped = W.dropped
    <3> DEFINE e == <<>>
    <3>1. e \in Seq(1 .. MaxOut) /\ e = <<>>
      BY <2>e
    <3>2. V = [W EXCEPT !.pc = "gone", !.open = FALSE, !.ch = e]
      OBVIOUS
    <3> HIDE DEF e, V
    <3> QED BY <1>0, <3>1, <3>2 DEF WatchRec
  <2> HIDE DEF V
  <2>3. FirstSeen(V) = FirstSeen(W) /\ Len(<<>>) = 0 /\ 1 .. 0 = {}
    BY <2>2 DEF FirstSeen
  <2>4. Knows(V, n, closed)
    BY <1>0, <2>2 DEF Knows
  <2>5. Ordered(V, n)
    BY <1>0, <2>2, <2>3 DEF Ordered
  <2>6. Whole(V, n)
    BY <1>0, <2>2, <2>3 DEF Whole
  <2>7. Len(V.ch) <= ChanSize
    BY <2>2, <2>3
  <2> QED BY <2>1, <2>2, <2>4, <2>5, <2>6, <2>7 DEF Sees
<1> QED BY <1>2, <1>3, <1>4, <1>5, <1>6

\* The shadow invariant holds at the start.
LEMMA ShadowInitIInv == ShadowInit => ShadowIInv
<1> SUFFICES ASSUME ShadowInit PROVE ShadowIInv
  OBVIOUS
<1> USE ShadowAssumption DEF ShadowInit
<1>1. Len(<<>>) = 0 /\ 1 .. 0 = {} /\ <<>> \in Seq(1 .. MaxOut)
  OBVIOUS
<1>2. Away \in WatchRec /\ Away.pc = "away" /\ Away.ch = <<>> /\ Away.got = <<>> /\ Away.open = FALSE /\ Away.from = 0
  BY AwayKnown
<1>3. Sees(Away, 0, FALSE)
  BY <1>1, <1>2 DEF Sees, Knows, Ordered, Whole
<1>4. ShadowTypeOK
  <2>1. written \in 0 .. MaxOut /\ ring \in Seq(1 .. MaxOut) /\ Len(ring) <= RingSize /\ closed \in BOOLEAN
    <3>1. 0 \in 0 .. MaxOut /\ 0 <= RingSize
      OBVIOUS
    <3> QED BY <1>1, <3>1
  <2>2. watch \in [Watchers -> WatchRec] /\ \A w \in Watchers : watch[w].ch = <<>>
    BY <1>2
  <2> QED BY <1>1, <2>1, <2>2 DEF ShadowTypeOK
<1>5. RingKnown
  BY <1>1 DEF RingKnown
<1> QED BY <1>3, <1>4, <1>5 DEF ShadowIInv

\* For any number of watchers, any ring and channel size (tap.go, shadow.go): a watcher
\* sees the output in order from the recent output at the time it joined, without a gap
\* when nothing was dropped, and all of it by the time it is told the session ended.
THEOREM WatchersStaySound == ShadowSpec => []WatchersSound
<1>1. ShadowIInv /\ [ShadowNext]_shadowVars => ShadowIInv'
  <2> SUFFICES ASSUME ShadowIInv, [ShadowNext]_shadowVars PROVE ShadowIInv'
    OBVIOUS
  <2>1. CASE UNCHANGED shadowVars
    BY <2>1 DEF shadowVars, ShadowIInv, ShadowTypeOK, RingKnown
  <2> QED BY <2>1, TapWriteKeeps, TapCloseKeeps, WatcherKeeps DEF ShadowNext
<1>2. ShadowIInv => WatchersSound
  <2> SUFFICES ASSUME ShadowIInv PROVE WatcherSeesOutput
    BY DEF ShadowIInv, WatchersSound
  <2> SUFFICES ASSUME NEW w \in Watchers
               PROVE LET got == watch[w].got
                         first == IF watch[w].from > RingSize THEN watch[w].from - RingSize + 1 ELSE 1
                     IN  /\ \A i, j \in 1 .. Len(got) : i < j => got[i] < got[j]
                         /\ (watch[w].dropped = 0 /\ got # <<>>) => got = [i \in 1 .. Len(got) |-> first + i - 1]
                         /\ (watch[w].pc = "told" /\ watch[w].dropped = 0) => Len(got) = written - first + 1
    BY DEF WatcherSeesOutput
  <2> DEFINE W == watch[w]
  <2>1. W \in WatchRec /\ Ordered(W, written) /\ Whole(W, written)
    BY DEF ShadowIInv, Sees
  <2>2. W.got \in Seq(1 .. MaxOut) /\ DOMAIN W.got = 1 .. Len(W.got)
    BY <2>1, FirstKnown
  <2>3. W.dropped = 0 => W.got = [i \in 1 .. Len(W.got) |-> FirstSeen(W) + i - 1]
    BY <2>1, <2>2 DEF Whole
  <2> QED BY <2>1, <2>3 DEF Ordered, Whole, FirstSeen
<1> QED BY <1>1, <1>2, ShadowInitIInv, PTL DEF ShadowSpec
=============================================================================
