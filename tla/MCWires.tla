------------------------------ MODULE MCWires -------------------------------
(***************************************************************************)
(* What carries a running session, for TLC: the bridges, the watchers of a *)
(* terminal, the policy on a desktop's streams, the relay beside an        *)
(* application and the one beside a database client, and the containers    *)
(* of application and database sessions.                                   *)
(* A behaviour exercises one part, chosen at the start; the others stay as *)
(* they are.                                                               *)
(***************************************************************************)
EXTENDS Bridge, Shadow, StreamFilter, AppRelay, DatabaseRelay, Containers, TLC

CONSTANTS s1, s2, q1, q2

VARIABLE part

vars == <<part, bridgeVars, shadowVars, filterVars, relayVars, databaseVars, containerVars>>

-----------------------------------------------------------------------------
(* Where the parts start.                                                  *)

\* Two sessions, of which one docker command may fail; or one session, which
\* meets every fault there is and a crash of the gateway.
TwoRuns ==
    /\ \E kind1, kind2 \in {"app", "db"} :
          /\ kind2 = "db"
          /\ job = [s \in Runs |-> [kind |-> IF s = s1 THEN kind1 ELSE kind2, pc |-> "waiting", undo |-> {}]]
    /\ faults = MaxFaults - 1 /\ deaths = MaxDeaths
OneRun(kinds) ==
    /\ \E k \in kinds :
          job = [s \in Runs |-> [kind |-> k, pc |-> IF s = s1 THEN "waiting" ELSE "over", undo |-> {}]]
    /\ faults = 0 /\ deaths = 0

Init ==
    /\ part \in {"bridge", "watchers", "streams", "relay", "database", "containers", "crash"}
    /\ IF part = "bridge" THEN BridgeInit
       ELSE BridgeInit /\ kind = "ssh"
    /\ ShadowInit /\ FilterInit
    /\ RelayInit /\ (part # "relay" => mode = "socks")
    /\ DatabaseInit
    /\ part # "database" => tlsMode = "disable" /\ database = [offers |-> FALSE, certified |-> FALSE, accepts |-> FALSE, flags |-> {}]
    /\ CASE part = "containers" -> TwoRuns
         [] part = "crash" -> OneRun({"app", "db"})
         [] OTHER -> OneRun({"app"})
    /\ made = [s \in Runs |-> [p \in Parts |-> Gone]]
    /\ starting = {} /\ registry = {} /\ reap = Resting

-----------------------------------------------------------------------------
(* The steps of each part.                                                 *)

In(ps) == part \in ps /\ part' = part
BridgeOnly == In({"bridge"}) /\ UNCHANGED <<shadowVars, filterVars, relayVars, databaseVars, containerVars>>
ContainersOnly == In({"containers", "crash"}) /\ UNCHANGED <<bridgeVars, shadowVars, filterVars, relayVars, databaseVars>>

BridgePart == BridgeOnly /\ BridgeNext
WatchersPart == In({"watchers"}) /\ ShadowNext /\ UNCHANGED <<bridgeVars, filterVars, relayVars, databaseVars, containerVars>>
StreamsPart == In({"streams"}) /\ FilterNext /\ UNCHANGED <<bridgeVars, shadowVars, relayVars, databaseVars, containerVars>>
\* A fixed table looks no name up, so that its names' answers are left alone; one of
\* two requests is for what a page needs from a site, the other for that or a page.
RelayPart ==
    /\ In({"relay"}) /\ RelayNext
    /\ mode = "socks" => UNCHANGED World
    /\ ask'[q2].dest \notin Origins /\ ~ask'[q2].page
    /\ ask'[q1].dest \in Origins => ask'[q1].page
    /\ UNCHANGED <<bridgeVars, shadowVars, filterVars, databaseVars, containerVars>>
DatabasePart == In({"database"}) /\ DatabaseNext /\ UNCHANGED <<bridgeVars, shadowVars, filterVars, relayVars, containerVars>>
ContainersPart == ContainersOnly /\ ContainerNext

Next == BridgePart \/ WatchersPart \/ StreamsPart \/ RelayPart \/ DatabasePart \/ ContainersPart

\* The goroutines of a bridge run when they can and its watch pings on; the
\* reaper's ticker and the clock do not stop, and the commands of a session's
\* set-up and removals have deadlines (BridgeFairness, ContainerFairness).
Fairness ==
    /\ \A step \in {"out", "write", "in", "ping", "loop", "killed"} :
          WF_vars(BridgeOnly /\ CASE step = "out" -> OutEnds
                                  [] step = "write" -> OutWrite
                                  [] step = "in" -> InRead
                                  [] step = "ping" -> WatchPing
                                  [] step = "loop" -> Loop
                                  [] step = "killed" -> ClientKilled)
    /\ WF_vars(ContainersOnly /\ ReaperPass) /\ WF_vars(ContainersOnly /\ Minute)
    /\ \A s \in Runs : WF_vars(ContainersOnly /\ Deadlines(s))

Spec == Init /\ [][Next]_vars /\ Fairness

\* The variables of the part at work; the others never change, so two states
\* with the same view are the same state.
View ==
    <<part,
      CASE part = "bridge" -> bridgeVars
        [] part = "watchers" -> shadowVars
        [] part = "streams" -> filterVars
        [] part = "relay" -> relayVars
        [] part = "database" -> databaseVars
        [] OTHER -> containerVars>>

-----------------------------------------------------------------------------

\* A request of the application's browser (apprelay/proxy.go) reaches the pinned
\* origin, or an address a lookup checked and allowed; the credential of a
\* database crosses the network as its target says, and what the client sends
\* arrives as it was sent (mysqlrelay/relay.go).
RelaySound ==
    /\ RelayTypeOK /\ ReachesChecked
    /\ DatabaseTypeOK /\ CredentialGuarded /\ RelayedFaithfully
=============================================================================
