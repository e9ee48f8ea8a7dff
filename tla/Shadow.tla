------------------------------- MODULE Shadow -------------------------------
(***************************************************************************)
(* Watching a live terminal session: gateway.Tap fans the output out to    *)
(* any number of watchers with a replay of the recent output, and          *)
(* connect/shadow.go sends it to each watcher's browser.                   *)
(*                                                                         *)
(* Output chunks are their positions in the stream.  Tap's methods hold    *)
(* its mutex: each is a step.                                              *)
(***************************************************************************)
EXTENDS Integers, Sequences

CONSTANTS
    Watchers,
    RingSize,   \* replayBytes, in chunks
    ChanSize,   \* a watcher's channel: 256
    MaxOut      \* bound: chunks the session prints

ASSUME ShadowAssumption == RingSize \in Nat /\ ChanSize \in Nat /\ MaxOut \in Nat

VARIABLES
    written,  \* chunks written so far
    ring,     \* the recent output
    closed,   \* Tap.Close was called: the session left the registry
    watch     \* per watcher

shadowVars == <<written, ring, closed, watch>>

\* pc: away, joined (subscribed, replay not yet sent), following, told (end frame
\* sent) or gone; ch: its channel; open: not closed; from: chunks written when it
\* subscribed; got: what its browser received; dropped: chunks the tap dropped.
Away == [pc |-> "away", ch |-> <<>>, open |-> FALSE, replay |-> <<>>, from |-> 0, got |-> <<>>, dropped |-> 0]

WatchRec == [pc : {"away", "joined", "following", "told", "gone"}, ch : Seq(1 .. MaxOut), open : BOOLEAN,
             replay : Seq(1 .. MaxOut), from : 0 .. MaxOut, got : Seq(1 .. MaxOut), dropped : Nat]

ShadowTypeOK ==
    /\ written \in 0 .. MaxOut /\ ring \in Seq(1 .. MaxOut) /\ Len(ring) <= RingSize /\ closed \in BOOLEAN
    /\ watch \in [Watchers -> WatchRec]
    /\ \A w \in Watchers : Len(watch[w].ch) <= ChanSize

ShadowInit ==
    /\ written = 0 /\ ring = <<>> /\ closed = FALSE
    /\ watch = [w \in Watchers |-> Away]

Recent(s) == IF Len(s) > RingSize THEN Tail(s) ELSE s

\* Mutant: with nobody watching nothing is kept for a replay.
TapWriteMut ==
    /\ ~closed /\ written < MaxOut
    /\ written' = written + 1
    /\ ring' = IF \E w \in Watchers : watch[w].open THEN Recent(Append(ring, written + 1)) ELSE ring
    /\ watch' = [w \in Watchers |->
          IF ~watch[w].open THEN watch[w]
          ELSE IF Len(watch[w].ch) < ChanSize THEN [watch[w] EXCEPT !.ch = Append(@, written + 1)]
          ELSE [watch[w] EXCEPT !.dropped = @ + 1]]
    /\ UNCHANGED closed
\* Tap.Write: into the ring, then to every subscriber that has room.
TapWrite ==
    /\ ~closed /\ written < MaxOut
    /\ written' = written + 1
    /\ ring' = Recent(Append(ring, written + 1))
    /\ watch' = [w \in Watchers |->
          IF ~watch[w].open THEN watch[w]
          ELSE IF Len(watch[w].ch) < ChanSize THEN [watch[w] EXCEPT !.ch = Append(@, written + 1)]
          ELSE [watch[w] EXCEPT !.dropped = @ + 1]]
    /\ UNCHANGED closed
\* Tap.Subscribe; a closed tap hands out its replay and a closed channel.
Subscribe(w) ==
    /\ watch[w].pc = "away"
    /\ watch' = [watch EXCEPT ![w] = [Away EXCEPT !.pc = "joined", !.open = ~closed, !.replay = ring, !.from = written]]
    /\ UNCHANGED <<written, ring, closed>>
\* shadowTerminal: the ready frame, then the replay in one message.
SendReplay(w) ==
    /\ watch[w].pc = "joined"
    /\ watch' = [watch EXCEPT ![w].pc = "following", ![w].got = watch[w].replay]
    /\ UNCHANGED <<written, ring, closed>>
SendChunk(w) ==
    /\ watch[w].pc = "following" /\ watch[w].ch # <<>>
    /\ watch' = [watch EXCEPT ![w].ch = Tail(@), ![w].got = Append(@, Head(watch[w].ch))]
    /\ UNCHANGED <<written, ring, closed>>
\* The channel is closed and drained: the watcher is told the session ended.
SendEnd(w) ==
    /\ watch[w].pc = "following" /\ watch[w].ch = <<>> /\ ~watch[w].open
    /\ watch' = [watch EXCEPT ![w].pc = "told"]
    /\ UNCHANGED <<written, ring, closed>>
\* The watcher's socket closes: its reader stops the loop, which unsubscribes.
Unsubscribe(w) ==
    /\ watch[w].pc \in {"joined", "following"}
    /\ watch' = [watch EXCEPT ![w].pc = "gone", ![w].open = FALSE, ![w].ch = <<>>]
    /\ UNCHANGED <<written, ring, closed>>
\* Tap.Close, when the session leaves the registry.
TapClose ==
    /\ ~closed /\ closed' = TRUE
    /\ watch' = [w \in Watchers |-> [watch[w] EXCEPT !.open = FALSE]]
    /\ UNCHANGED <<written, ring>>

ShadowNext ==
    \/ TapWrite \/ TapClose
    \/ \E w \in Watchers : Subscribe(w) \/ SendReplay(w) \/ SendChunk(w) \/ SendEnd(w) \/ Unsubscribe(w)

ShadowSpec == ShadowInit /\ [][ShadowNext]_shadowVars

\* What a watcher sees is the output in order, from the recent output at the time
\* it joined; with nothing dropped it has no gap, and once it is told the session
\* ended it has seen all of it (the contract of Subscribe).
WatcherSeesOutput ==
    \A w \in Watchers :
       LET got == watch[w].got
           first == IF watch[w].from > RingSize THEN watch[w].from - RingSize + 1 ELSE 1
       IN  /\ \A i, j \in 1 .. Len(got) : i < j => got[i] < got[j]
           /\ (watch[w].dropped = 0 /\ got # <<>>) => got = [i \in 1 .. Len(got) |-> first + i - 1]
           /\ (watch[w].pc = "told" /\ watch[w].dropped = 0) => Len(got) = written - first + 1

\* What a watcher of a terminal sees (tap.go) is its output in order, whole where
\* nothing was dropped.
WatchersSound == ShadowTypeOK /\ WatcherSeesOutput
=============================================================================
