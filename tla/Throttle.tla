------------------------------ MODULE Throttle ------------------------------
(***************************************************************************)
(* What stands before a password check (src/internal/auth/ratelimit.go): a *)
(* token bucket per address, of which only so many are held, and a gate    *)
(* with so many slots for the hashes that run at once.  One unit of time   *)
(* refills Rate tokens; all of Take happens under the limiter's mutex.     *)
(***************************************************************************)
EXTENDS Naturals, FiniteSets

CONSTANTS
    Addresses,      \* limiterKey: an IPv4 address, or the /64 of an IPv6 one
    Checks,         \* sign-in requests that come to compute a hash
    Burst, Rate,
    MaxHeld,        \* maxLimiterKeys
    GCEvery,        \* time between sweeps of their own, the code's ten minutes
    Slots,          \* of the hash gate
    MaxClock        \* bound: the clock

ASSUME ThrottleAssumption ==
    /\ {Burst, Rate, MaxHeld, Slots, MaxClock} \subseteq Nat \ {0} /\ GCEvery \in Nat
    /\ IsFiniteSet(Addresses) /\ IsFiniteSet(Checks)

VARIABLES
    clock, lastGC, lastSweep,
    bucket,     \* ipLimiter.buckets: NoBucket for an address without one
    ideal,      \* history: the bucket the address would have if none were forgotten
    gate,       \* hashGate.slots: how many tokens the channel holds
    check       \* where each request is at the gate
throttleVars == <<clock, lastGC, lastSweep, bucket, ideal, gate, check>>

Full == [held |-> TRUE, tokens |-> Burst, last |-> 0, refusing |-> FALSE]
NoBucket == [Full EXCEPT !.held = FALSE]
Bucket == [held : BOOLEAN, tokens : 0..Burst, last : 0..MaxClock, refusing : BOOLEAN]

ThrottleTypeOK ==
    /\ {clock, lastGC, lastSweep} \subseteq 0..MaxClock
    /\ bucket \in [Addresses -> Bucket] /\ ideal \in [Addresses -> Bucket]
    /\ gate \in 0..Slots /\ check \in [Checks -> {"out", "waiting", "hashing"}]

ThrottleInit ==
    /\ clock = 1 /\ lastGC = 1 /\ lastSweep = 0
    /\ bucket = [a \in Addresses |-> NoBucket] /\ ideal = [a \in Addresses |-> Full]
    /\ gate = 0 /\ check = [c \in Checks |-> "out"]

-----------------------------------------------------------------------------
Least(m, n) == IF m <= n THEN m ELSE n
refilled(b) == b.tokens + Rate * (clock - b.last)
Held(bs) == {a \in Addresses : bs[a].held}

\* One token, if a refilled bucket has one; else the refusal is remembered.
draw(b) ==
    LET t == Least(refilled(b), Burst) IN
    [b EXCEPT !.tokens = IF t = 0 THEN 0 ELSE t - 1, !.last = clock, !.refusing = (t = 0)]

\* sweep forgets the buckets that have refilled; sweepMut, those with a token.
sweepMut(bs) == [a \in Addresses |-> IF bs[a].held /\ refilled(bs[a]) >= 1 THEN NoBucket ELSE bs[a]]
sweep(bs) == [a \in Addresses |-> IF bs[a].held /\ refilled(bs[a]) >= Burst THEN NoBucket ELSE bs[a]]

\* Take: the sweep that is due, then, for a new address that finds the map full,
\* one more, at most once in a unit of time; an address there is no room for is
\* refused and leaves nothing behind.
Take(a) ==
    LET due == clock - lastGC > GCEvery
        swept == IF due THEN sweep(bucket) ELSE bucket
        crowded(bs) == ~bs[a].held /\ Cardinality(Held(bs)) >= MaxHeld
        forced == crowded(swept) /\ clock - lastSweep >= 1
        room == IF forced THEN sweep(swept) ELSE swept
        mine == IF room[a].held THEN room[a] ELSE [Full EXCEPT !.last = clock]
    IN /\ lastGC' = IF due THEN clock ELSE lastGC
       /\ lastSweep' = IF forced THEN clock ELSE lastSweep
       /\ IF crowded(room) THEN bucket' = room /\ ideal' = ideal
          ELSE /\ bucket' = [room EXCEPT ![a] = draw(mine)]
               /\ ideal' = [ideal EXCEPT ![a] = draw(@)]
       /\ UNCHANGED <<clock, gate, check>>

Tick == clock < MaxClock /\ clock' = clock + 1 /\ UNCHANGED <<lastGC, lastSweep, bucket, ideal, gate, check>>

\* enter: a slot at once, or a wait for one ...
Enter(c) ==
    /\ check[c] = "out"
    /\ IF gate < Slots THEN gate' = gate + 1 /\ check' = [check EXCEPT ![c] = "hashing"]
       ELSE gate' = gate /\ check' = [check EXCEPT ![c] = "waiting"]
    /\ UNCHANGED <<clock, lastGC, lastSweep, bucket, ideal>>
\* ... that a slot ends, or the gate's time or the request's end: 503 busy.
EnterWaited(c) ==
    /\ check[c] = "waiting"
    /\ \/ gate < Slots /\ gate' = gate + 1 /\ check' = [check EXCEPT ![c] = "hashing"]
       \/ gate' = gate /\ check' = [check EXCEPT ![c] = "out"]
    /\ UNCHANGED <<clock, lastGC, lastSweep, bucket, ideal>>

\* hashing: the slot is given back when the hash is done.
LeaveGate(c) ==
    /\ check[c] = "hashing" /\ gate' = gate - 1 /\ check' = [check EXCEPT ![c] = "out"]
    /\ UNCHANGED <<clock, lastGC, lastSweep, bucket, ideal>>

ThrottleNext ==
    \/ Tick \/ \E a \in Addresses : Take(a)
    \/ \E c \in Checks : Enter(c) \/ EnterWaited(c) \/ LeaveGate(c)

ThrottleSpec == ThrottleInit /\ [][ThrottleNext]_throttleVars

-----------------------------------------------------------------------------
\* Forgetting a bucket (sweep) changes nothing for its address: "such a bucket
\* behaves exactly as a new one would".  An address without one would have a full
\* bucket, one with a bucket has the one it would always have had, its run of
\* refusals included; and no more are held than the limit.
ForgettingChangesNothing ==
    /\ Cardinality(Held(bucket)) <= MaxHeld
    /\ \A a \in Addresses :
          IF bucket[a].held THEN bucket[a] = ideal[a] ELSE refilled(ideal[a]) >= Burst

\* Every slot of the hash gate in use (enter, leave) is held by a request that hashes.
SlotsAccounted == gate = Cardinality({c \in Checks : check[c] = "hashing"})
=============================================================================
