------------------------------- MODULE Notify -------------------------------
(***************************************************************************)
(* Notifications (internal/notify): each enabled channel follows the audit *)
(* log from a checkpoint of its own and is told the kinds of event it      *)
(* asked for, at least once and in order; past maxPerPass messages a pass  *)
(* sends one summary.  Administrators create, change and delete channels   *)
(* and set the mail server while passes run.                               *)
(*                                                                         *)
(* An event is its kind; its id is its place in the log.  Wording, names   *)
(* and signatures are left out.                                            *)
(***************************************************************************)
EXTENDS Naturals, Sequences, FiniteSets

CONSTANTS
    Channels,      \* channel ids; one is never used twice
    EventKinds,    \* what kindOf tells apart
    Callers,       \* administrators' requests under way
    batch,         \* events one read of the log takes
    maxPerPass,    \* messages a channel gets from one pass
    MaxLog,        \* bound: events recorded
    MaxUnsent,     \* bound: deliveries that fail
    MaxEdits       \* bound: changes of channels and of the mail server

ASSUME NotifyAssumption ==
    /\ batch \in Nat \ {0} /\ maxPerPass \in Nat \ {0}
    /\ MaxLog \in Nat /\ MaxUnsent \in Nat /\ MaxEdits \in Nat

VARIABLES
    entries,   \* the log: the kinds of its events
    channel,   \* [Channels -> the row of notification_channels]
    ckpt,      \* [Channels -> audit_export_state.last_id; 0 also without a row]
    retry,     \* channels that wait out a backoff
    mail,      \* whether the gateway has a mail server
    call,      \* [Callers -> the request]
    pass,      \* Notifier.Run's goroutine
    told,      \* ghost: [Channels -> ids told, alone or in a summary]
    since,     \* ghost: [Channels -> the event the channel was started at]
    steady,    \* ghost: [Channels -> the kinds it has asked for all along]
    unsent, edits

notifyVars == <<entries, channel, ckpt, retry, mail, call, pass, told, since, steady, unsent, edits>>

Absent == [state |-> "unborn", kind |-> "webhook", events |-> {}, enabled |-> FALSE, own |-> FALSE]
Dead == [Absent EXCEPT !.state = "deleted"]
NoChannel == "none"
NoCall == [pc |-> "idle", c |-> NoChannel, row |-> Absent, newest |-> 0]
NoPass == [pc |-> "idle", list |-> {}, c |-> NoChannel, row |-> Absent, last |-> 0, due |-> {}, upto |-> 0, sent |-> 0]
ChannelRows == [state : {"unborn", "stored", "deleted"}, kind : {"webhook", "email"},
                events : SUBSET EventKinds, enabled : BOOLEAN, own : BOOLEAN]

NotifyTypeOK ==
    /\ entries \in Seq(EventKinds) /\ channel \in [Channels -> ChannelRows]
    /\ ckpt \in [Channels -> Nat] /\ retry \subseteq Channels /\ mail \in BOOLEAN
    /\ call \in [Callers -> [pc : {"idle", "started", "newest", "read"}, c : Channels \cup {NoChannel},
                             row : ChannelRows, newest : Nat]]
    /\ pass \in [pc : {"idle", "channels", "list", "send", "save"}, list : SUBSET (Channels \X ChannelRows),
                c : Channels \cup {NoChannel}, row : ChannelRows, last : Nat, due : SUBSET Nat, upto : Nat, sent : 0 .. maxPerPass]
    /\ told \in [Channels -> SUBSET Nat] /\ since \in [Channels -> Nat]
    /\ steady \in [Channels -> SUBSET EventKinds]
    /\ unsent \in 0 .. MaxUnsent /\ edits \in 0 .. MaxEdits

(* A gateway that has run before: one channel may be there, an email one   *)
(* possibly carrying a mail server of its own.                             *)
NotifyInit ==
    /\ entries \in {<<k>> : k \in EventKinds}
    /\ \E c \in Channels \cup {NoChannel} : \E k \in {"webhook", "email"} : \E own \in BOOLEAN :
           /\ own => k = "email"
           /\ channel = [d \in Channels |-> IF d = c
                 THEN [state |-> "stored", kind |-> k, events |-> EventKinds, enabled |-> TRUE, own |-> own] ELSE Absent]
           /\ ckpt = [d \in Channels |-> IF d = c THEN 1 ELSE 0]
           /\ since = ckpt
           /\ steady = [d \in Channels |-> channel[d].events]
    /\ retry = {} /\ mail = FALSE
    /\ call = [a \in Callers |-> NoCall] /\ pass = NoPass
    /\ told = [c \in Channels |-> {}]
    /\ unsent = 0 /\ edits = 0

-----------------------------------------------------------------------------
(* The log, as other components write it.                                  *)

Happens(k) ==
    /\ Len(entries) < MaxLog
    /\ entries' = Append(entries, k)
    /\ UNCHANGED <<channel, ckpt, retry, mail, call, pass, told, since, steady, unsent, edits>>

-----------------------------------------------------------------------------
(* Requests: handler.go and handler_server.go over repo.go and server.go.  *)

Edit == edits < MaxEdits /\ edits' = edits + 1
following == UNCHANGED <<entries, retry, pass, told, unsent>>

(* create: the row is stored, enabled; Start then reads the newest event   *)
(* and stores it as the channel's checkpoint.                              *)
Create(a, c) ==
    /\ call[a].pc = "idle" /\ channel[c].state = "unborn" /\ Edit
    /\ \E k \in {"webhook", "email"} : \E ev \in SUBSET EventKinds \ {{}} :
           channel' = [channel EXCEPT ![c] = [state |-> "stored", kind |-> k, events |-> ev, enabled |-> TRUE, own |-> FALSE]]
    /\ call' = [call EXCEPT ![a] = [NoCall EXCEPT !.pc = "started", !.c = c]]
    /\ since' = [since EXCEPT ![c] = Len(entries)] /\ steady' = [steady EXCEPT ![c] = channel'[c].events]
    /\ UNCHANGED <<ckpt, mail>> /\ following
StartNewest(a) ==
    /\ call[a].pc = "started"
    /\ call' = [call EXCEPT ![a].pc = "newest", ![a].newest = Len(entries)]
    /\ since' = [since EXCEPT ![call[a].c] = Len(entries)]
    /\ UNCHANGED <<channel, ckpt, mail, steady, edits>> /\ following
StartSave(a) ==
    /\ call[a].pc = "newest"
    /\ ckpt' = [ckpt EXCEPT ![call[a].c] = call[a].newest]
    /\ call' = [call EXCEPT ![a] = NoCall]
    /\ UNCHANGED <<channel, mail, since, steady, edits>> /\ following

(* update: the row is read, changed and written whole.  An email channel's *)
(* own server is left behind on its first save.                            *)
UpdateRead(a, c) ==
    /\ call[a].pc = "idle" /\ channel[c].state = "stored" /\ edits < MaxEdits
    /\ call' = [call EXCEPT ![a] = [NoCall EXCEPT !.pc = "read", !.c = c, !.row = channel[c]]]
    /\ UNCHANGED <<channel, ckpt, mail, since, steady, edits>> /\ following
UpdateWrite(a) ==
    /\ call[a].pc = "read" /\ Edit
    /\ \E on \in BOOLEAN : \E ev \in SUBSET EventKinds :
           channel' = IF channel[call[a].c].state # "stored" THEN channel
                      ELSE [channel EXCEPT ![call[a].c] = [call[a].row EXCEPT !.enabled = on, !.events = ev, !.own = FALSE]]
    /\ steady' = [steady EXCEPT ![call[a].c] = @ \cap channel'[call[a].c].events]
    /\ call' = [call EXCEPT ![a] = NoCall]
    /\ UNCHANGED <<ckpt, mail, since>> /\ following

(* remove: the row, then its checkpoint.                                   *)
Remove(c) ==
    /\ channel[c].state = "stored" /\ Edit
    /\ channel' = [channel EXCEPT ![c] = Dead]
    /\ ckpt' = [ckpt EXCEPT ![c] = 0]
    /\ UNCHANGED <<mail, call, since, steady>> /\ following

SetServer == Edit /\ mail' = TRUE /\ UNCHANGED <<channel, ckpt, call, since, steady>> /\ following
ClearServer == mail /\ Edit /\ mail' = FALSE /\ UNCHANGED <<channel, ckpt, call, since, steady>> /\ following

(* A restart: AdoptServer makes the mail server from the first email       *)
(* channel that carries one, and takes it out of every channel.  A request *)
(* under way and the pass are gone; so are the backoffs.                   *)
Carrying == {c \in Channels : channel[c].state = "stored" /\ channel[c].own}
AdoptServer ==
    /\ Edit
    /\ mail' = (mail \/ Carrying # {})
    /\ channel' = IF mail THEN channel
                  ELSE [c \in Channels |-> IF c \in Carrying THEN [channel[c] EXCEPT !.own = FALSE] ELSE channel[c]]
    /\ call' = [a \in Callers |-> NoCall] /\ pass' = NoPass /\ retry' = {}
    /\ UNCHANGED <<entries, ckpt, told, since, steady, unsent>>

-----------------------------------------------------------------------------
(* Notifier.Pass and flush.                                                *)

asked == UNCHANGED <<entries, channel, mail, call, since, steady, edits>>
Step(p) == pass' = p

(* List, then one channel after another as it was listed.                  *)
PassList ==
    /\ pass.pc = "idle"
    /\ Step([NoPass EXCEPT !.pc = "channels",
               !.list = {<<c, channel[c]>> : c \in {d \in Channels : channel[d].state = "stored"}}])
    /\ UNCHANGED <<ckpt, retry, told, unsent>> /\ asked
WaitsMut(l) ==               \* mutant: without a mail server no channel is told anything
    ~mail \/ ~l[2].enabled \/ l[2].events = {} \/ l[1] \in retry
Waits(l) == ~l[2].enabled \/ l[2].events = {} \/ l[1] \in retry
PassSkip(l) ==
    /\ pass.pc = "channels" /\ l \in pass.list /\ Waits(l)
    /\ Step([pass EXCEPT !.list = @ \ {l}])
    /\ UNCHANGED <<ckpt, retry, told, unsent>> /\ asked
FlushStart(l) ==
    /\ pass.pc = "channels" /\ l \in pass.list /\ ~Waits(l)
    /\ Step([pass EXCEPT !.pc = "list", !.list = @ \ {l}, !.c = l[1], !.row = l[2], !.last = ckpt[l[1]], !.sent = 0])
    /\ UNCHANGED <<ckpt, retry, told, unsent>> /\ asked
PassEnd ==
    /\ pass.pc = "channels" /\ pass.list = {}
    /\ Step(NoPass)
    /\ UNCHANGED <<ckpt, retry, told, unsent>> /\ asked

Due(i, j, events) == {e \in i + 1 .. j : entries[e] \in events}
Least(m, n) == IF m < n THEN m ELSE n

(* ListAfter: a batch, of which the channel is due what it asked for, by   *)
(* id.                                                                     *)
FlushList ==
    /\ pass.pc = "list"
    /\ LET upto == Least(pass.last + batch, Len(entries))
       IN IF upto = pass.last THEN Step([pass EXCEPT !.pc = "channels"])
          ELSE Step([pass EXCEPT !.pc = "send", !.upto = upto, !.due = Due(pass.last, upto, pass.row.events)])
    /\ retry' = IF pass'.pc = "channels" THEN retry \ {pass.c} ELSE retry
    /\ UNCHANGED <<ckpt, told, unsent>> /\ asked

(* Send: an email needs recipients' server, the gateway's or its own.      *)
Deliverable == pass.row.kind = "webhook" \/ mail \/ pass.row.own
Earliest == CHOOSE e \in pass.due : \A f \in pass.due : e <= f
Said == IF pass.sent = maxPerPass THEN pass.due ELSE {Earliest}

SendMut ==                   \* mutant: the summary takes the rest at the first message, untold
    /\ pass.pc = "send" /\ pass.due # {} /\ Deliverable
    /\ told' = [told EXCEPT ![pass.c] = @ \cup Said]
    /\ ckpt' = [ckpt EXCEPT ![pass.c] = Earliest]
    /\ Step([pass EXCEPT !.due = {}, !.pc = "save", !.sent = Least(@ + 1, maxPerPass)])
    /\ UNCHANGED <<retry, unsent>> /\ asked
(* A message is sent, and the checkpoint moves to its event; past          *)
(* maxPerPass the rest of the batch is one summary.                        *)
Send ==
    /\ pass.pc = "send" /\ pass.due # {} /\ Deliverable
    /\ told' = [told EXCEPT ![pass.c] = @ \cup Said]
    /\ IF pass.sent = maxPerPass
       THEN Step([pass EXCEPT !.due = {}, !.pc = "save"]) /\ UNCHANGED ckpt
       ELSE /\ ckpt' = [ckpt EXCEPT ![pass.c] = Earliest]
            /\ Step([pass EXCEPT !.due = @ \ {Earliest}, !.sent = @ + 1])
    /\ UNCHANGED <<retry, unsent>> /\ asked

(* A delivery that fails ends the flush: the channel backs off.  The       *)
(* receiver may have taken the message whose answer was lost.              *)
SendFails ==
    /\ pass.pc = "send" /\ pass.due # {}
    /\ IF Deliverable THEN unsent < MaxUnsent /\ unsent' = unsent + 1 ELSE UNCHANGED unsent
    /\ \/ UNCHANGED told
       \/ Deliverable /\ told' = [told EXCEPT ![pass.c] = @ \cup Said]
    /\ retry' = retry \cup {pass.c}
    /\ Step([pass EXCEPT !.pc = "channels", !.due = {}])
    /\ UNCHANGED ckpt /\ asked

(* The checkpoint moves past the batch; a full one is followed by the next *)
(* unless the pass has sent its share.                                     *)
FlushSave ==
    /\ pass.pc \in {"send", "save"} /\ pass.due = {}
    /\ ckpt' = [ckpt EXCEPT ![pass.c] = pass.upto]
    /\ LET more == pass.upto - pass.last = batch /\ pass.sent < maxPerPass
       IN /\ Step([pass EXCEPT !.pc = IF more THEN "list" ELSE "channels", !.last = pass.upto])
          /\ retry' = IF more THEN retry ELSE retry \ {pass.c}
    /\ UNCHANGED <<told, unsent>> /\ asked

(* retryAt passes.                                                         *)
BackoffOver(c) ==
    /\ c \in retry /\ retry' = retry \ {c}
    /\ UNCHANGED <<ckpt, pass, told, unsent>> /\ asked

-----------------------------------------------------------------------------

Passes == PassList \/ PassEnd \/ FlushList \/ Send \/ SendFails \/ FlushSave
            \/ \E l \in pass.list : PassSkip(l) \/ FlushStart(l)
Requests == SetServer \/ ClearServer \/ AdoptServer
              \/ \E a \in Callers : StartNewest(a) \/ StartSave(a) \/ UpdateWrite(a)
                                      \/ \E c \in Channels : Create(a, c) \/ UpdateRead(a, c)
              \/ \E d \in Channels : Remove(d)
NotifyNext == Passes \/ Requests \/ (\E k \in EventKinds : Happens(k)) \/ \E c \in Channels : BackoffOver(c)
NotifySpec == NotifyInit /\ [][NotifyNext]_notifyVars

(* The goroutine of Run goes on and a backoff runs out, at the latest      *)
(* after five minutes.                                                     *)
NotifyFairness == WF_notifyVars(Passes) /\ \A c \in Channels : WF_notifyVars(BackoffOver(c))

-----------------------------------------------------------------------------
Stored(c) == channel[c].state = "stored"
Beginning(c) == \E a \in Callers : call[a].pc \in {"started", "newest"} /\ call[a].c = c
Wanted(c, e) == e \in DOMAIN entries /\ entries[e] \in steady[c]

(* flush's "the checkpoint moves only past what was delivered": an event a *)
(* channel asked for and its checkpoint has passed since it was started    *)
(* has been told, alone or in a summary, whatever failed, restarted or was *)
(* summarised in between.                                                  *)
PassedIsTold ==
    \A c \in Channels : Stored(c) /\ ~Beginning(c) =>
        \A e \in since[c] + 1 .. ckpt[c] : Wanted(c, e) => e \in told[c]

(* Every event a channel asked for reaches it in the end, through backoffs *)
(* and restarts, unless the channel is deleted, off or has no mail server. *)
NotificationsArrive ==
    \A c \in Channels : \A e \in 1 .. MaxLog :
        (e > since[c] /\ Stored(c) /\ Wanted(c, e))
            ~> (e \in told[c] \/ ~Wanted(c, e) \/ e <= since[c] \/ ~Stored(c) \/ ~channel[c].enabled \/ (channel[c].kind = "email" /\ ~mail))

\* What a channel's checkpoint (notifier.go, flush) has passed was told to it.
NotifySound == NotifyTypeOK /\ PassedIsTold
=============================================================================
