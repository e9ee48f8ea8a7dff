------------------------------- MODULE Policy -------------------------------
(***************************************************************************)
(* Access policies (internal/policy, internal/access/gate.go and the       *)
(* re-check of internal/connect/revoke.go), for one user, one target and   *)
(* one protocol: grants with their conditions, the decision they add up to *)
(* now, the ticket that carries the decision's terms, and the live session *)
(* that later changes to the policies do or do not end.                    *)
(*                                                                         *)
(* A grant's clipboard switch stands for the three switches (clipboard,    *)
(* file transfer, developer tools), which are treated alike.  A session is *)
(* in the registry as soon as its ticket is redeemed: module Session opens *)
(* that gap.  Names, ids and the choice of the policy that labels the      *)
(* session are left out, and so is retention.                              *)
(***************************************************************************)
EXTENDS Integers

CONSTANTS
    Policies,  \* policy ids
    Windows,   \* time windows the grants may have
    Grants,    \* grants the policies may hold
    GrantSets, \* the lists of grants an administrator may give a policy
    DayLen     \* minutes of a day

Days == 0..6              \* time.Weekday, Sunday first
Week == 7 * DayLen
Clock == 0..(DayLen - 1)  \* HH:MM

\* tz is the zone's offset from UTC, a whole number of minutes.
Window == [days : SUBSET Days, from : Clock, to : Clock, tz : Nat]

\* by: the grant names the target, matches its tags, or does neither (for this
\* protocol).  max: 0 is no maximum.
Grant == [by : {"name", "tags", "none"}, windows : SUBSET Windows,
          access : {"standing", "approval"}, clip : BOOLEAN, mfa : BOOLEAN,
          idle : Nat \ {0}, max : Nat]

ASSUME PolicyAssumption ==
    /\ DayLen \in Nat \ {0}
    /\ Windows \subseteq Window
    /\ Grants \subseteq Grant
    /\ GrantSets \subseteq SUBSET Grants

VARIABLES
    policy,   \* per policy: its grants, and whether it is on and reaches the user
    now,      \* the minute of the week, UTC
    tagged,   \* the target carries the tags the grants match
    granted,  \* a just-in-time grant of the user is active (HasActiveGrant)
    enrolled, \* the user has an authenticator
    ticket,   \* a ticket and the switch it carries
    live,     \* the session and the switch it runs with
    retagged  \* history: the target lost its tags while the session ran

vars == <<policy, now, tagged, granted, enrolled, ticket, live, retagged>>

NoPolicy == [on |-> FALSE, grants |-> {}]
Off == [open |-> FALSE, clip |-> FALSE]
Held == [open : BOOLEAN, clip : BOOLEAN]

TypeOK ==
    /\ policy \in [Policies -> [on : BOOLEAN, grants : GrantSets \cup {{}}]]
    /\ now \in 0..(Week - 1)
    /\ tagged \in BOOLEAN /\ granted \in BOOLEAN /\ enrolled \in BOOLEAN
    /\ ticket \in Held
    /\ live \in Held
    /\ retagged \in BOOLEAN

Init ==
    /\ policy = [p \in Policies |-> NoPolicy]
    /\ now = 0
    /\ tagged = TRUE /\ granted = FALSE /\ enrolled = FALSE
    /\ ticket = Off
    /\ live = Off
    /\ retagged = FALSE

-----------------------------------------------------------------------------
(* Evaluation.                                                             *)

OpenMut(w, t) ==             \* mutant: yesterday is today - 1, on Sunday too
    LET local     == (t + w.tz) % Week
        minute    == local % DayLen
        today     == local \div DayLen
        yesterday == today - 1
    IN  IF w.from = w.to THEN today \in w.days
        ELSE IF w.from < w.to THEN today \in w.days /\ minute >= w.from /\ minute < w.to
        ELSE \/ today \in w.days /\ minute >= w.from
             \/ yesterday \in w.days /\ minute < w.to

\* TimeWindow.Open: equal ends are the whole day, and a window that ends before
\* it begins runs into the next day.
Open(w, t) ==
    LET local     == (t + w.tz) % Week
        minute    == local % DayLen
        today     == local \div DayLen
        yesterday == (today + 6) % 7
    IN  IF w.from = w.to THEN today \in w.days
        ELSE IF w.from < w.to THEN today \in w.days /\ minute >= w.from /\ minute < w.to
        ELSE \/ today \in w.days /\ minute >= w.from
             \/ yesterday \in w.days /\ minute < w.to

\* Grant.Covers.
Covers(g) == g.by = "name" \/ (g.by = "tags" /\ tagged)

\* Repo.ForUser: the grants of the enabled policies that reach the user.
Reaching(P) == UNION {P[p].grants : p \in {q \in Policies : P[q].on}}

\* evaluate, its collection: covering grants with no window or one open now.
\* With every window counted as open: EvaluateLive.
HasTime(g) == g.windows = {} \/ \E w \in g.windows : Open(w, now)
Collected(P) == {g \in Reaching(P) : Covers(g) /\ HasTime(g)}

CollectedLiveMut(P) == Collected(P)
                             \* mutant: a shut window counts for a running session too
CollectedLive(P) == {g \in Reaching(P) : Covers(g)}

Standing(C) == {g \in C : g.access = "standing"}

DecidersMut(C) == IF C # Standing(C) THEN C \ Standing(C) ELSE C
                             \* mutant: the approval grants come first

\* The standing ones decide if there are any, else the approval ones.
Deciders(C) == IF Standing(C) # {} THEN Standing(C) ELSE C

Least(N) == CHOOSE m \in N : \A n \in N : m <= n

\* Decision: each term the strictest among the deciding grants.
Decision(C) ==
    LET D == Deciders(C)
        M == {g.max : g \in {h \in D : h.max # 0}}
    IN  [allowed  |-> D # {},
         approval |-> \A g \in D : g.access = "approval",
         clip     |-> \A g \in D : g.clip,
         mfa      |-> \E g \in D : g.mfa,
         idle     |-> IF D = {} THEN 0 ELSE Least({g.idle : g \in D}),
         max      |-> IF M = {} THEN 0 ELSE Least(M)]

\* Gate.admit: the decision allows, an approval it requires is active, and an
\* authenticator it requires is enrolled.
Admits(d, active) == d.allowed /\ (d.approval => active) /\ (d.mfa => enrolled)

-----------------------------------------------------------------------------
(* The connection.                                                         *)

\* issueTicket: the ticket carries the switch.
Connect ==
    /\ ~ticket.open /\ ~live.open
    /\ Admits(Decision(Collected(policy)), granted)
    /\ ticket' = [open |-> TRUE, clip |-> Decision(Collected(policy)).clip]
    /\ UNCHANGED <<policy, now, tagged, granted, enrolled, live, retagged>>

RedeemMut ==                 \* mutant: the policies are not asked again
    /\ ticket.open
    /\ ticket' = Off
    /\ live' = ticket
    /\ UNCHANGED <<policy, now, tagged, granted, enrolled, retagged>>

RedeemRetyped ==             \* mutant: the session is registered without its switch
    /\ ticket.open
    /\ ticket' = Off
    /\ live' = IF Admits(Decision(Collected(policy)), granted)
               THEN [open |-> TRUE] ELSE Off
    /\ UNCHANGED <<policy, now, tagged, granted, enrolled, retagged>>

\* redeem: the gate is asked again, of its answer only the refusal is kept.
Redeem ==
    /\ ticket.open
    /\ ticket' = Off
    /\ live' = IF Admits(Decision(Collected(policy)), granted) THEN ticket ELSE Off
    /\ UNCHANGED <<policy, now, tagged, granted, enrolled, retagged>>

\* The user leaves, or a limit of the session ends it.
Leave ==
    /\ live.open
    /\ live' = Off
    /\ retagged' = FALSE
    /\ UNCHANGED <<policy, now, tagged, granted, enrolled, ticket>>

-----------------------------------------------------------------------------
(* What changes the access.                                                *)

End(keep) ==
    /\ live' = IF keep THEN live ELSE Off
    /\ retagged' = (retagged /\ keep)

\* Recheck, after the change: the gate with every window counted as open, and
\* the switch the session runs with.
Recheck == End(LET d == Decision(CollectedLive(policy')) IN Admits(d, granted) /\ (live.clip => d.clip))

Write(p, value) ==
    /\ policy[p] # value
    /\ policy' = [policy EXCEPT ![p] = value]
    /\ Recheck
    /\ UNCHANGED <<now, tagged, granted, enrolled, ticket>>

\* create and update: an enabled policy or one switched off, with its grants;
\* an update may take the user from its subjects.
Save(p, on, G) == Write(p, [on |-> on, grants |-> G])

\* del; or the user's last group leaves the policy.
Delete(p) == Write(p, NoPolicy)

\* setMembers with the user added: nobody re-checks.
Join(p) ==
    /\ ~policy[p].on /\ policy[p].grants # {}
    /\ policy' = [policy EXCEPT ![p].on = TRUE]
    /\ UNCHANGED <<now, tagged, granted, enrolled, ticket, live, retagged>>

\* A request is approved.
Approve ==
    /\ ~granted
    /\ granted' = TRUE
    /\ UNCHANGED <<policy, now, tagged, enrolled, ticket, live, retagged>>

GrantOverMut ==              \* mutant: a covering policy is enough, standing or not
    /\ granted
    /\ granted' \in BOOLEAN
    /\ End(Decision(Collected(policy)).allowed)
    /\ UNCHANGED <<policy, now, tagged, enrolled, ticket>>

\* A just-in-time grant is revoked or expires, the last active one or not;
\* grantWithdrawn keeps a session whose connect would be admitted now.
GrantOver ==
    /\ granted
    /\ granted' \in BOOLEAN
    /\ End(Admits(Decision(Collected(policy)), granted'))
    /\ UNCHANGED <<policy, now, tagged, enrolled, ticket>>

\* The target's tags change; "a live session is not re-checked for that".
Retag ==
    /\ tagged' = ~tagged
    /\ retagged' = (retagged \/ live.open)
    /\ UNCHANGED <<policy, now, granted, enrolled, ticket, live>>

\* The user enrols an authenticator or removes it.
Enrol ==
    /\ enrolled' = ~enrolled
    /\ UNCHANGED <<policy, now, tagged, granted, ticket, live, retagged>>

Tick ==
    /\ now' = (now + 1) % Week
    /\ UNCHANGED <<policy, tagged, granted, enrolled, ticket, live, retagged>>

Next ==
    \/ Connect \/ Redeem \/ Leave
    \/ \E p \in Policies : \/ \E on \in BOOLEAN, G \in GrantSets : Save(p, on, G)
                           \/ Delete(p)
                           \/ Join(p)
    \/ Approve \/ GrantOver \/ Retag \/ Enrol \/ Tick

Spec == Init /\ [][Next]_vars

-----------------------------------------------------------------------------
(* Properties.                                                             *)

\* e is no looser than d: it admits whom d admits, asks for no approval where d
\* asked for none, and, decided by the same kind of grant, is no looser in any
\* term.
NoLooser(e, d) ==
    d.allowed =>
        /\ e.allowed
        /\ e.approval => d.approval
        /\ e.approval = d.approval =>
               /\ e.clip => d.clip
               /\ d.mfa => e.mfa
               /\ e.idle <= d.idle
               /\ d.max # 0 => e.max # 0 /\ e.max <= d.max

\* Adding grants, by a policy created or extended or by a membership, takes no
\* access away and loosens no term of it (Evaluate).
AddingOnlyTightens ==
    [][(/\ policy' # policy /\ now' = now /\ tagged' = tagged
        /\ Reaching(policy) \subseteq Reaching(policy'))
           => \A d \in {Decision(Collected(policy))}, e \in {Decision(Collected(policy'))} :
                  NoLooser(e, d)]_vars

\* A running session has a standing grant, or an approval grant and an active
\* just-in-time grant, behind it, whatever was edited, revoked or let expire
\* between its ticket and now; only tags the target lost excuse it (Recheck,
\* grantWithdrawn, redeem).
StandsOnAGrant ==
    live.open /\ ~retagged =>
        \/ Standing(CollectedLive(policy)) # {}
        \/ granted /\ CollectedLive(policy) # {}

\* Two grants that differ only in their numbers and windows.
SameSwitches(g, h) == /\ g.by = h.by /\ g.access = h.access
                      /\ g.clip = h.clip /\ g.mfa = h.mfa

\* A step that changes no more of the policies than numbers and windows.
NumbersOnly ==
    /\ UNCHANGED <<tagged, granted, enrolled>>
    /\ \A p \in Policies :
           /\ policy'[p].on = policy[p].on
           /\ \A g \in policy[p].grants : \E h \in policy'[p].grants : SameSwitches(g, h)
           /\ \A h \in policy'[p].grants : \E g \in policy[p].grants : SameSwitches(g, h)

\* The policies, whatever the time, admit the session with its switch.
Settled == LET d == Decision({g \in Reaching(policy) : Covers(g)})
           IN  Admits(d, granted) /\ (live.clip => d.clip)

\* A session that the policies admit with every window counted as open is ended
\* by no edit of numbers and windows, and by no window that shuts.
NumbersKeepSettled == (live.open /\ ~live'.open /\ NumbersOnly /\ ~Leave) => ~Settled

\* The minutes of the week a window stands for: for each of its days, the span
\* from its start for its length, into the next day and the next week.
InSpan(w, t) ==
    LET start  == IF w.from = w.to THEN 0 ELSE w.from
        length == IF w.from = w.to THEN DayLen ELSE (w.to - w.from) % DayLen
    IN  \E d \in w.days, k \in 0..(length - 1) :
            (t + w.tz) % Week = (d * DayLen + start + k) % Week

\* A window is open in the minutes it stands for and in no others, across
\* midnight, the end of the week and zones (TimeWindow.Open).
OpenInItsSpan == \A w \in Windows : Open(w, now) <=> InSpan(w, now)

\* Whenever time passes a window is open when it says, and neither a window that
\* shuts nor a number that changes ends a session the policies settle
\* (TimeWindow.Open, Recheck).
WindowsAndNumbers == [][(now' # now => OpenInItsSpan') /\ NumbersKeepSettled]_vars
=============================================================================
