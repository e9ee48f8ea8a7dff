------------------------------ MODULE AppRelay ------------------------------
(***************************************************************************)
(* The relay beside an application session (src/internal/gateway/apprelay):*)
(* the browser's only way out.  Held to its origins an application has a   *)
(* SOCKS listener with a fixed table; one whose dependencies may be public *)
(* has a proxy that looks a host up, checks every answer, keeps the        *)
(* decision for a minute and dials the address it checked.                 *)
(***************************************************************************)
EXTENDS Naturals, FiniteSets

CONSTANTS
    Asks,           \* the browser's requests, each served by a goroutine
    Origins,        \* hosts with a route
    Sites,          \* every other host a page may name
    Public, Private, Reserved,  \* addresses, by class
    Allowed,        \* private addresses the application may reach
    Pinned,         \* the address the gateway resolved an origin to
    MaxLookups,     \* bounds the changes of a name's answers
    MaxMinutes      \* bounds the clock

ASSUME RelayAssumption ==
    /\ Allowed \subseteq Private /\ Pinned \notin Public /\ Origins \cap Sites = {}
    /\ MaxLookups \in Nat /\ MaxMinutes \in Nat

VARIABLES
    mode,       \* "socks" or "proxy": a session has one or the other
    dns,        \* external: what each site resolves to now
    minute, flips,
    decided,    \* sync.Map: the decision kept for a destination
    pins,       \* sync.Map: the address each allowed destination is dialled at
    ask,        \* the request each goroutine serves
    pool,       \* idle connections kept for a destination, by address
    cleared,    \* every address a lookup checked and allowed, by destination
    reached,    \* where requests went: destination, address, whether a page
    open        \* the session's context
relayVars == <<mode, dns, minute, flips, decided, pins, ask, pool, cleared, reached, open>>

Hosts == Origins \cup Sites
Addresses == Public \cup Private \cup Reserved
NoAddress == "none"
Decision == [kind : {"none", "origin", "public", "private", "refused"}, to : Addresses \cup {NoAddress, Pinned}, at : Nat]
AskRec == [pc : {"idle", "asked", "looked", "ready"}, dest : Hosts \cup {NoAddress}, page : BOOLEAN, d : Decision]
NoDecision == [kind |-> "none", to |-> NoAddress, at |-> 0]
NoAsk == [pc |-> "idle", dest |-> NoAddress, page |-> FALSE, d |-> NoDecision]

RelayTypeOK ==
    /\ mode \in {"socks", "proxy"} /\ minute \in 0..MaxMinutes /\ flips \in 0..MaxLookups
    /\ dns \in [Sites -> SUBSET Addresses]
    /\ decided \in [Hosts -> Decision] /\ pins \in [Hosts -> Addresses \cup {NoAddress, Pinned}]
    /\ ask \in [Asks -> AskRec]
    /\ pool \in [Hosts -> SUBSET (Addresses \cup {Pinned})] /\ cleared \in [Hosts -> SUBSET Addresses]
    /\ reached \subseteq [dest : Hosts, to : Addresses \cup {Pinned}, page : BOOLEAN]
    /\ open \in BOOLEAN

RelayInit ==
    /\ mode \in {"socks", "proxy"}
    /\ dns = [h \in Sites |-> Public] /\ minute = 0 /\ flips = 0
    /\ decided = [h \in Hosts |-> NoDecision] /\ pins = [h \in Hosts |-> NoAddress] /\ ask = [a \in Asks |-> NoAsk]
    /\ pool = [h \in Hosts |-> {}] /\ cleared = [h \in Hosts |-> {}] /\ reached = {}
    /\ open = TRUE

World == <<dns, minute, flips>>

\* The browser asks for a page, or for what a page needs.
Ask(a, h, page) ==
    /\ open /\ ask[a].pc = "idle"
    /\ ask' = [ask EXCEPT ![a] = [NoAsk EXCEPT !.pc = "asked", !.dest = h, !.page = page]]
    /\ UNCHANGED <<mode, World, decided, pins, pool, cleared, reached>> /\ UNCHANGED open

\* socksConn: exactly the routes, at the pinned address.
socksConn(a) ==
    LET h == ask[a].dest IN
    /\ mode = "socks" /\ ask[a].pc = "asked"
    /\ ask' = [ask EXCEPT ![a] = NoAsk]
    /\ reached' = IF h \in Origins THEN reached \cup {[dest |-> h, to |-> Pinned, page |-> ask[a].page]} ELSE reached
    /\ UNCHANGED <<mode, World, decided, pins, pool, cleared>> /\ UNCHANGED open

\* decide: the lookup, then every answer must be public, or private and allowed.
Fits(ips) == ips # {} /\ \A ip \in ips : ip \in Public \cup Allowed
decide(ips) ==
    IF ~Fits(ips) THEN {[kind |-> "refused", to |-> NoAddress, at |-> 0]}
    ELSE {[kind |-> IF ips \subseteq Public THEN "public" ELSE "private", to |-> ip, at |-> 0] : ip \in ips}

\* destination: a route's pin, a decision under a minute old, or a lookup.
Route(a) ==
    LET h == ask[a].dest IN
    /\ mode = "proxy" /\ ask[a].pc = "asked" /\ h \in Origins
    /\ pins' = [pins EXCEPT ![h] = Pinned]
    /\ ask' = [ask EXCEPT ![a].pc = "ready", ![a].d = [kind |-> "origin", to |-> Pinned, at |-> minute]]
    /\ UNCHANGED <<mode, World, decided, pool, cleared, reached>> /\ UNCHANGED open
Cached(a) ==
    LET h == ask[a].dest IN
    /\ mode = "proxy" /\ ask[a].pc = "asked" /\ h \in Sites
    /\ decided[h].kind # "none" /\ decided[h].at = minute
    /\ ask' = [ask EXCEPT ![a].pc = "ready", ![a].d = decided[h]]
    /\ UNCHANGED <<mode, World, decided, pins, pool, cleared, reached>> /\ UNCHANGED open
Lookup(a) ==
    LET h == ask[a].dest IN
    /\ mode = "proxy" /\ ask[a].pc = "asked" /\ h \in Sites
    /\ decided[h].kind = "none" \/ decided[h].at # minute
    /\ \E d \in decide(dns[h]) :
         /\ ask' = [ask EXCEPT ![a].pc = "looked", ![a].d = d]
         /\ cleared' = [cleared EXCEPT ![h] = IF d.kind = "refused" THEN @ ELSE @ \cup {d.to}]
    /\ UNCHANGED <<mode, World, decided, pins, pool, reached>> /\ UNCHANGED open
Decided(a) ==       \* the two maps are stored after the lookup returned
    LET h == ask[a].dest
        d == [ask[a].d EXCEPT !.at = minute]
    IN
    /\ ask[a].pc = "looked"
    /\ decided' = [decided EXCEPT ![h] = d]
    /\ pins' = IF d.kind = "refused" THEN pins ELSE [pins EXCEPT ![h] = d.to]
    /\ ask' = [ask EXCEPT ![a].pc = "ready", ![a].d = d]
    /\ UNCHANGED <<mode, World, pool, cleared, reached>> /\ UNCHANGED open

\* handle: a page anywhere but an origin is blocked, a refused destination
\* is a 403; the rest is forwarded over a kept connection or a new one.
Blocked(a) ==
    /\ ask[a].pc = "ready"
    /\ ask[a].d.kind = "refused" \/ (ask[a].d.kind # "origin" /\ ask[a].page)
    /\ ask' = [ask EXCEPT ![a] = NoAsk]
    /\ UNCHANGED <<mode, World, decided, pins, pool, cleared, reached>> /\ UNCHANGED open
dialMut(h) ==       \* mutant: the transport dials the name
    IF h \in Sites THEN dns[h] ELSE {pins[h]}
dial(h) == {pins[h]}
Forward(a) ==
    LET h == ask[a].dest IN
    /\ ask[a].pc = "ready" /\ ask[a].d.kind # "refused" /\ (ask[a].page => ask[a].d.kind = "origin")
    /\ \E to \in dial(h) \cup pool[h] :
         /\ reached' = reached \cup {[dest |-> h, to |-> to, page |-> ask[a].page]}
         /\ pool' = [pool EXCEPT ![h] = @ \cup {to}]
    /\ ask' = [ask EXCEPT ![a] = NoAsk]
    /\ UNCHANGED <<mode, World, decided, pins, cleared>> /\ UNCHANGED open
Idles(h, to) ==     \* IdleConnTimeout
    /\ to \in pool[h] /\ pool' = [pool EXCEPT ![h] = @ \ {to}]
    /\ UNCHANGED <<mode, World, decided, pins, ask, cleared, reached>> /\ UNCHANGED open

\* external: a name's owner changes its answers; the clock.
Rebind(h, ips) ==
    /\ flips < MaxLookups /\ flips' = flips + 1 /\ dns' = [dns EXCEPT ![h] = ips]
    /\ UNCHANGED <<mode, minute, decided, pins, ask, pool, cleared, reached>> /\ UNCHANGED open
MinutePasses ==
    /\ minute < MaxMinutes /\ minute' = minute + 1
    /\ UNCHANGED <<mode, dns, flips, decided, pins, ask, pool, cleared, reached>> /\ UNCHANGED open

\* The session's end: every listener and every tunnel is closed at once.
SessionOver ==
    /\ open /\ open' = FALSE /\ ask' = [a \in Asks |-> NoAsk] /\ pool' = [h \in Hosts |-> {}]
    /\ UNCHANGED <<mode, World, decided, pins, cleared, reached>>

RelayNext ==
    \/ \E a \in Asks : \/ \E h \in Hosts, page \in BOOLEAN : Ask(a, h, page)
                       \/ socksConn(a) \/ Route(a) \/ Cached(a) \/ Lookup(a) \/ Decided(a) \/ Blocked(a) \/ Forward(a)
    \/ \E h \in Hosts, to \in Addresses \cup {Pinned} : Idles(h, to)
    \/ \E h \in Sites, ips \in SUBSET Addresses : Rebind(h, ips)
    \/ MinutePasses \/ SessionOver

RelaySpec == RelayInit /\ [][RelayNext]_relayVars

----------------------------------------------------------------------------
\* The relay's confinement (proxy.go, destination and dial): whatever a
\* name's owner answers and when, and however two requests' lookups cross, a
\* request goes to an origin at its pinned address or to the very address a
\* lookup checked and allowed for that destination, and a page opens at an
\* origin alone.
ReachesChecked ==
    \A r \in reached :
        /\ r.dest \in Origins => r.to = Pinned
        /\ r.dest \in Sites => r.to \in cleared[r.dest] /\ mode = "proxy" /\ ~r.page
        /\ r.to # Pinned => r.to \in Public \cup Allowed
=============================================================================
