---------------------------- MODULE PolicyProofs ----------------------------
(***************************************************************************)
(* Proofs about Policy, for any policies, grants and windows: what adding  *)
(* grants does to a decision, that no session runs without a grant behind  *)
(* it, that windows are open exactly in their spans of the week, and that  *)
(* numbers and windows end no session the policies admit.                  *)
(***************************************************************************)
EXTENDS Policy, WellFoundedInduction, TLAPS

\* A non-empty set of naturals has a least element, and Least is it.
LEMMA LeastIs ==
    ASSUME NEW N \in SUBSET Nat, N # {}
    PROVE  Least(N) \in N /\ \A n \in N : Least(N) <= n
<1> DEFINE R == OpToRel(<, Nat)
<1>1. PICK x \in N : \A y \in N : ~(<<y, x>> \in R)
  <2>1. IsWellFoundedOn(R, Nat)
    BY NatLessThanWellFounded
  <2> HIDE DEF R
  <2> QED BY <2>1, WFMin
<1>2. \A y \in N : x <= y
  <2> SUFFICES ASSUME NEW y \in N PROVE x <= y
    OBVIOUS
  <2>1. ~(<<y, x>> \in {ss \in Nat \X Nat : ss[1] < ss[2]})
    BY <1>1 DEF OpToRel
  <2> QED BY <2>1
<1> QED BY <1>2 DEF Least

\* Where more grants decide, no term is looser.
LEMMA MoreDecide ==
    ASSUME NEW A \in SUBSET Grant, NEW B \in SUBSET Grant, Deciders(A) \subseteq Deciders(B),
           Deciders(A) # {}
    PROVE  LET d == Decision(A)
               e == Decision(B)
           IN  /\ e.allowed
               /\ e.clip => d.clip
               /\ d.mfa => e.mfa
               /\ e.idle <= d.idle
               /\ d.max # 0 => e.max # 0 /\ e.max <= d.max
<1> DEFINE D == Deciders(A)
           E == Deciders(B)
           I(S) == {g.idle : g \in S}
           M(S) == {g.max : g \in {h \in S : h.max # 0}}
<1>1. D \subseteq E /\ D # {} /\ D \subseteq Grant /\ E \subseteq Grant
  BY DEF Deciders, Standing
<1>2. /\ Decision(A).allowed = (D # {}) /\ Decision(B).allowed = (E # {})
      /\ Decision(A).clip = (\A g \in D : g.clip) /\ Decision(B).clip = (\A g \in E : g.clip)
      /\ Decision(A).mfa = (\E g \in D : g.mfa) /\ Decision(B).mfa = (\E g \in E : g.mfa)
  BY Zenon DEF Decision
<1>3. /\ Decision(A).idle = Least(I(D)) /\ Decision(B).idle = Least(I(E))
      /\ Decision(A).max = IF M(D) = {} THEN 0 ELSE Least(M(D))
      /\ Decision(B).max = IF M(E) = {} THEN 0 ELSE Least(M(E))
  BY <1>1 DEF Decision
<1> HIDE DEF D, E
<1>4. Least(I(E)) <= Least(I(D))
  <2>1. I(D) \in SUBSET Nat /\ I(E) \in SUBSET Nat /\ I(D) # {} /\ I(E) # {} /\ I(D) \subseteq I(E)
    BY <1>1 DEF Grant
  <2> HIDE DEF I
  <2> QED BY <2>1, LeastIs
<1>5. M(D) # {} => M(E) # {} /\ Least(M(E)) <= Least(M(D)) /\ Least(M(E)) # 0 /\ Least(M(D)) # 0
  <2>1. M(D) \in SUBSET (Nat \ {0}) /\ M(E) \in SUBSET (Nat \ {0}) /\ M(D) \subseteq M(E)
    BY <1>1 DEF Grant
  <2> HIDE DEF M
  <2> QED BY <2>1, LeastIs
<1> HIDE DEF I, M
<1>6. Decision(B).idle <= Decision(A).idle
  BY <1>3, <1>4
<1>7. Decision(A).max # 0 => Decision(B).max # 0 /\ Decision(B).max <= Decision(A).max
  BY <1>3, <1>5
<1>8. /\ Decision(B).allowed
      /\ Decision(B).clip => Decision(A).clip
      /\ Decision(A).mfa => Decision(B).mfa
  BY <1>1, <1>2
<1> QED BY <1>6, <1>7, <1>8

\* A decision from more grants is no looser than one from fewer (evaluate).
LEMMA MoreIsNoLooser ==
    ASSUME NEW A \in SUBSET Grant, NEW B \in SUBSET Grant, A \subseteq B
    PROVE  NoLooser(Decision(B), Decision(A))
<1>1. /\ Decision(A).allowed = (Deciders(A) # {})
      /\ Decision(A).approval = (\A g \in Deciders(A) : g.access = "approval")
      /\ Decision(B).allowed = (Deciders(B) # {})
      /\ Decision(B).approval = (\A g \in Deciders(B) : g.access = "approval")
  BY Zenon DEF Decision
<1> SUFFICES ASSUME Deciders(A) # {} PROVE NoLooser(Decision(B), Decision(A))
  BY <1>1 DEF NoLooser
<1>2. CASE Deciders(A) \subseteq Deciders(B)
  <2>1. Decision(B).approval => Decision(A).approval
    BY <1>1, <1>2
  <2> QED BY <1>2, <2>1, MoreDecide DEF NoLooser
<1>3. CASE ~(Deciders(A) \subseteq Deciders(B))
  <2>1. Standing(A) = {} /\ Standing(B) # {}
    BY <1>3 DEF Deciders, Standing
  <2>2. Decision(A).approval
    BY <1>1, <2>1 DEF Deciders, Standing, Grant
  <2>3. Deciders(B) # {} /\ ~Decision(B).approval
    BY <1>1, <2>1 DEF Deciders, Standing
  <2> QED BY <1>1, <2>2, <2>3 DEF NoLooser
<1> QED BY <1>2, <1>3

\* Policies, clock, ticket and session keep their types.
LEMMA TypeNext == ASSUME TypeOK, [Next]_vars PROVE TypeOK'
<1> USE PolicyAssumption DEF TypeOK, vars
<1>1. CASE Connect
  BY <1>1 DEF Connect, Held, Decision
<1>2. CASE Redeem
  BY <1>2 DEF Redeem, Held, Off
<1>3. CASE Leave
  BY <1>3 DEF Leave, Held, Off
<1>4. ASSUME NEW p \in Policies, NEW v \in [on : BOOLEAN, grants : GrantSets \cup {{}}], Write(p, v)
      PROVE  TypeOK'
  BY <1>4 DEF Write, Recheck, End, Held, Off
<1>5. ASSUME NEW p \in Policies, Join(p) PROVE TypeOK'
  BY <1>5 DEF Join
<1>6. CASE Approve
  BY <1>6 DEF Approve
<1>7. CASE GrantOver
  BY <1>7 DEF GrantOver, End, Held, Off
<1>8. CASE Retag \/ Enrol
  BY <1>8 DEF Retag, Enrol
<1>9. CASE Tick
  <2>1. Week \in Nat \ {0}
    BY DEF Week
  <2>2. (now + 1) % Week \in 0..(Week - 1)
    BY <2>1
  <2> QED BY <1>9, <2>2 DEF Tick
<1>10. CASE UNCHANGED vars
  BY <1>10
<1> QED BY <1>1, <1>2, <1>3, <1>4, <1>5, <1>6, <1>7, <1>8, <1>9, <1>10
       DEF Next, Save, Delete, NoPolicy

\* The module's variables keep their types throughout.
THEOREM Typing == Spec => []TypeOK
<1>1. Init => TypeOK
  <2>1. Week \in Nat \ {0}
    BY PolicyAssumption DEF Week
  <2>2. 0 \in 0..(Week - 1)
    BY <2>1
  <2> HAVE Init
  <2>3. policy \in [Policies -> [on : BOOLEAN, grants : GrantSets \cup {{}}]]
    BY DEF Init, NoPolicy
  <2>4. ticket \in Held /\ live \in Held
    BY DEF Init, Off, Held
  <2>5. tagged \in BOOLEAN /\ granted \in BOOLEAN /\ enrolled \in BOOLEAN /\ retagged \in BOOLEAN
    BY DEF Init
  <2> QED BY <2>2, <2>3, <2>4, <2>5 DEF Init, TypeOK
<1> QED BY <1>1, TypeNext, PTL DEF Spec

\* What reaches the user, and so what is collected, are grants.
LEMMA GrantsReach ==
    ASSUME NEW P \in [Policies -> [on : BOOLEAN, grants : GrantSets \cup {{}}]]
    PROVE  Reaching(P) \in SUBSET Grant
  BY PolicyAssumption DEF Reaching

\* No added grant takes access away or loosens a term, whatever the policies,
\* the time and the windows (Evaluate).
THEOREM Adding == Spec => AddingOnlyTightens
<1>1. ASSUME TypeOK, [Next]_vars
      PROVE  [(/\ policy' # policy /\ now' = now /\ tagged' = tagged
               /\ Reaching(policy) \subseteq Reaching(policy'))
                  => \A d \in {Decision(Collected(policy))}, e \in {Decision(Collected(policy'))} :
                         NoLooser(e, d)]_vars
  <2> SUFFICES ASSUME Reaching(policy) \subseteq Reaching(policy')
               PROVE  NoLooser(Decision(Collected(policy')), Decision(Collected(policy)))
    OBVIOUS
  <2>1. TypeOK'
    BY <1>1, TypeNext
  <2>2. Reaching(policy) \in SUBSET Grant /\ Reaching(policy') \in SUBSET Grant
    BY <1>1, <2>1, GrantsReach DEF TypeOK
  <2>3. /\ Collected(policy) \in SUBSET Grant /\ Collected(policy') \in SUBSET Grant
        /\ Collected(policy) \subseteq Collected(policy')
    BY <2>2 DEF Collected
  <2> QED BY <2>3, MoreIsNoLooser
<1> QED BY <1>1, Typing, PTL DEF Spec, AddingOnlyTightens

\* Behind every decision that admits there is a standing grant, or an approval
\* grant and an active just-in-time grant (Gate.admit).
LEMMA AdmittedStands ==
    ASSUME NEW C \in SUBSET Grant, NEW active \in BOOLEAN, Admits(Decision(C), active)
    PROVE  Standing(C) # {} \/ (active /\ C # {})
<1>1. /\ Decision(C).allowed = (Deciders(C) # {})
      /\ Decision(C).approval = (\A g \in Deciders(C) : g.access = "approval")
  BY Zenon DEF Decision
<1>2. Deciders(C) # {} /\ ((\A g \in Deciders(C) : g.access = "approval") => active)
  BY <1>1 DEF Admits
<1> SUFFICES ASSUME Standing(C) = {} PROVE active /\ C # {}
  OBVIOUS
<1> QED BY <1>2 DEF Deciders, Standing, Grant

\* Every step keeps a grant behind the running session.
LEMMA StandsNext == ASSUME TypeOK, StandsOnAGrant, [Next]_vars PROVE StandsOnAGrant'
<1> DEFINE Behind(P, active) == Standing(CollectedLive(P)) # {} \/ (active /\ CollectedLive(P) # {})
<1>1. TypeOK'
  BY TypeNext
<1>2. /\ Reaching(policy) \in SUBSET Grant /\ Reaching(policy') \in SUBSET Grant
  BY <1>1, GrantsReach DEF TypeOK
<1>3. /\ CollectedLive(policy) \in SUBSET Grant /\ CollectedLive(policy') \in SUBSET Grant
      /\ Collected(policy) \in SUBSET Grant /\ Collected(policy) \subseteq CollectedLive(policy)
  BY <1>2 DEF Collected, CollectedLive
<1>4. ASSUME NEW active \in BOOLEAN, Admits(Decision(Collected(policy)), active)
      PROVE  Behind(policy, active)
  <2>1. Standing(Collected(policy)) \subseteq Standing(CollectedLive(policy))
    BY <1>3 DEF Standing
  <2> QED BY <1>3, <1>4, <2>1, AdmittedStands
<1>5. ASSUME NEW active \in BOOLEAN, Admits(Decision(CollectedLive(policy')), active)
      PROVE  Behind(policy', active)
  BY <1>3, <1>5, AdmittedStands
<1>6. live.open /\ ~retagged => Behind(policy, granted)
  BY DEF StandsOnAGrant
<1>7. tagged' = tagged => CollectedLive(policy)' = CollectedLive(policy')
  BY DEF CollectedLive, Covers, Reaching
<1>8. StandsOnAGrant' = (live'.open /\ ~retagged' =>
            Standing(CollectedLive(policy)') # {} \/ (granted' /\ CollectedLive(policy)' # {}))
  BY DEF StandsOnAGrant, Standing
<1>9. ASSUME tagged' = tagged, live'.open /\ ~retagged' => Behind(policy', granted')
      PROVE  StandsOnAGrant'
  BY <1>7, <1>8, <1>9
<1> HIDE DEF Behind
<1>10. CASE Connect \/ Enrol \/ Tick \/ UNCHANGED vars
  <2>1. policy' = policy /\ tagged' = tagged /\ live' = live /\ retagged' = retagged /\ granted' = granted
    BY <1>10 DEF Connect, Enrol, Tick, vars
  <2> QED BY <1>6, <1>9, <2>1
<1>11. CASE Redeem
  <2>1. policy' = policy /\ tagged' = tagged /\ granted' = granted
    BY <1>11 DEF Redeem
  <2>2. live'.open => Admits(Decision(Collected(policy)), granted)
    BY <1>11 DEF Redeem, Off
  <2> QED BY <1>4, <1>9, <2>1, <2>2 DEF TypeOK
<1>12. CASE Leave
  BY <1>9, <1>12 DEF Leave, Off
<1>13. ASSUME NEW p \in Policies, NEW v, Write(p, v) PROVE StandsOnAGrant'
  <2>1. tagged' = tagged /\ granted' = granted
    BY <1>13 DEF Write
  <2>2. live'.open => Admits(Decision(CollectedLive(policy')), granted)
    BY <1>13 DEF Write, Recheck, End, Off
  <2> QED BY <1>5, <1>9, <2>1, <2>2 DEF TypeOK
<1>14. ASSUME NEW p \in Policies, Join(p) PROVE StandsOnAGrant'
  <2>1. tagged' = tagged /\ granted' = granted /\ live' = live /\ retagged' = retagged
    BY <1>14 DEF Join
  <2>2. Reaching(policy) \subseteq Reaching(policy')
    BY <1>14 DEF Join, Reaching, TypeOK
  <2>3. /\ CollectedLive(policy) \subseteq CollectedLive(policy')
        /\ Standing(CollectedLive(policy)) \subseteq Standing(CollectedLive(policy'))
    BY <2>2 DEF CollectedLive, Standing
  <2>4. Behind(policy, granted) => Behind(policy', granted)
    BY <2>3 DEF Behind
  <2> QED BY <1>6, <1>9, <2>1, <2>4
<1>15. CASE Approve
  <2>1. /\ policy' = policy /\ tagged' = tagged /\ live' = live /\ retagged' = retagged
        /\ granted' = TRUE /\ granted = FALSE
    BY <1>15 DEF Approve, TypeOK
  <2>2. Behind(policy, granted) => Behind(policy', granted')
    BY <2>1 DEF Behind
  <2> QED BY <1>6, <1>9, <2>1, <2>2
<1>16. CASE GrantOver
  <2>1. policy' = policy /\ tagged' = tagged /\ granted' \in BOOLEAN
    BY <1>16 DEF GrantOver
  <2>2. live'.open => Admits(Decision(Collected(policy)), granted')
    BY <1>16 DEF GrantOver, End, Off
  <2> QED BY <1>4, <1>9, <2>1, <2>2
<1>17. CASE Retag
  <2>1. live'.open /\ ~retagged' => FALSE
    BY <1>17 DEF Retag, TypeOK
  <2> QED BY <1>8, <2>1
<1> QED BY <1>10, <1>11, <1>12, <1>13, <1>14, <1>15, <1>16, <1>17 DEF Next, Save, Delete

\* No session runs without a grant behind it, for any policies and any edits.
THEOREM SessionStands == Spec => []StandsOnAGrant
<1>1. Init => StandsOnAGrant
  BY DEF Init, StandsOnAGrant, Off
<1> QED BY <1>1, StandsNext, Typing, PTL DEF Spec

\* A number is its quotient and its remainder, and no other pair.
LEMMA Divided ==
  ASSUME NEW a \in Nat, NEW b \in Nat \ {0}
  PROVE  /\ a = (a \div b) * b + (a % b) /\ a % b \in 0..(b - 1) /\ a \div b \in Nat
         /\ \A q \in Nat, r \in 0..(b - 1) : a = q * b + r => a \div b = q /\ a % b = r
<1>1. a = (a \div b) * b + (a % b) /\ a % b \in 0..(b - 1) /\ a \div b \in Nat
  OBVIOUS
<1>2. ASSUME NEW q \in Nat, NEW r \in 0..(b - 1), a = q * b + r PROVE a \div b = q /\ a % b = r
  BY <1>2
<1> QED BY <1>1, <1>2

\* A minute of the week is a day and a minute of that day.
LEMMA WeekSplits ==
  ASSUME NEW l \in 0..(Week - 1)
  PROVE  /\ l \div DayLen \in Days /\ l % DayLen \in Clock
         /\ \A d \in Days, m \in Clock : l = d * DayLen + m <=> (l \div DayLen = d /\ l % DayLen = m)
<1> DEFINE D == DayLen
<1>1. D \in Nat \ {0} /\ l \in Nat /\ l < 7 * D
  BY PolicyAssumption DEF Week
<1>2. /\ l = (l \div D) * D + (l % D) /\ l % D \in 0..(D - 1) /\ l \div D \in Nat
      /\ \A q \in Nat, r \in 0..(D - 1) : l = q * D + r => l \div D = q /\ l % D = r
  BY <1>1, Divided
<1>3. l \div D < 7
  <2> DEFINE q == l \div D
  <2>1. q \in Nat /\ q * D <= l
    BY <1>1, <1>2
  <2>2. q >= 7 => q * D >= 7 * D
    BY <1>1, <2>1
  <2> QED BY <1>1, <2>1, <2>2
<1> QED BY <1>1, <1>2, <1>3 DEF Days, Clock

\* The d-th day's m-th minute, counted from the start of the week; the eighth day
\* is the first.
LEMMA WeekMinute ==
  ASSUME NEW d \in Days, NEW m \in Clock
  PROVE  /\ d * DayLen + m \in 0..(Week - 1)
         /\ (d * DayLen + m) % Week = d * DayLen + m
         /\ (7 * DayLen + m) % Week = m
<1> DEFINE D == DayLen
<1>1. D \in Nat \ {0} /\ m \in 0..(D - 1) /\ d \in 0..6 /\ Week = 7 * D /\ Week \in Nat \ {0}
  BY PolicyAssumption DEF Week, Days, Clock
<1>2. d * D <= 6 * D /\ d * D \in Nat
  BY <1>1
<1>3. d * D + m \in 0..(Week - 1) /\ m \in 0..(Week - 1)
  BY <1>1, <1>2
<1>4. ASSUME NEW a \in 0..(Week - 1) PROVE a % Week = a /\ (Week + a) % Week = a
  <2>1. a = 0 * Week + a /\ Week + a = 1 * Week + a /\ a \in Nat /\ Week + a \in Nat
    BY <1>1
  <2> QED BY <2>1, <1>1, Divided
<1> QED BY <1>1, <1>3, <1>4

\* A window is open in the minutes it stands for and in no others.
LEMMA SpanIsOpen ==
  ASSUME NEW w \in Window, NEW t \in Nat
  PROVE  Open(w, t) <=> InSpan(w, t)
<1> DEFINE D == DayLen
           l == (t + w.tz) % Week
           m == l % D
           y == l \div D
<1>1. D \in Nat \ {0} /\ Week = 7 * D /\ Week \in Nat \ {0}
  BY PolicyAssumption DEF Week
<1>2. w.days \subseteq Days /\ w.from \in 0..(D - 1) /\ w.to \in 0..(D - 1) /\ w.tz \in Nat
  BY DEF Window, Clock
<1>3. l \in 0..(Week - 1)
  <2>1. t + w.tz \in Nat
    BY <1>2
  <2> HIDE DEF D
  <2> QED BY <1>1, <2>1, Divided
<1>4. /\ y \in 0..6 /\ m \in 0..(D - 1)
      /\ \A d \in 0..6, r \in 0..(D - 1) : l = d * D + r <=> (y = d /\ m = r)
  BY <1>3, WeekSplits DEF Days, Clock
<1>5. \A d \in 0..6, r \in 0..(D - 1) : (d * D + r) % Week = d * D + r /\ (7 * D + r) % Week = r
  BY WeekMinute DEF Days, Clock
<1> HIDE DEF l, m, y
<1>6. CASE w.from = w.to
  <2>1. InSpan(w, t) <=> \E d \in w.days, k \in 0..(D - 1) : l = (d * D + 0 + k) % Week
    BY <1>6 DEF InSpan, l
  <2>2. \A d \in w.days, k \in 0..(D - 1) : (d * D + 0 + k) % Week = d * D + k
    <3> SUFFICES ASSUME NEW d \in w.days, NEW k \in 0..(D - 1) PROVE (d * D + 0 + k) % Week = d * D + k
      OBVIOUS
    <3>1. d \in 0..6 /\ d * D + 0 + k = d * D + k
      BY <1>1, <1>2 DEF Days
    <3> QED BY <1>5, <3>1
  <2>3. InSpan(w, t) <=> \E d \in w.days, k \in 0..(D - 1) : y = d /\ m = k
    BY <1>2, <1>4, <2>1, <2>2 DEF Days
  <2>4. Open(w, t) <=> y \in w.days
    BY <1>6 DEF Open, l, y, m
  <2> QED BY <1>4, <2>3, <2>4
<1>7. CASE w.from < w.to
  <2> DEFINE n == w.to - w.from
  <2>1. n \in 1..(D - 1) /\ n % D = n
    <3>1. n \in 1..(D - 1)
      BY <1>1, <1>2, <1>7
    <3>2. n = 0 * D + n /\ n \in Nat
      BY <1>1, <3>1
    <3> HIDE DEF n
    <3> QED BY <1>1, <3>1, <3>2, Divided
  <2>2. InSpan(w, t) <=> \E d \in w.days, k \in 0..(n - 1) : l = (d * D + w.from + k) % Week
    BY <1>2, <1>7, <2>1 DEF InSpan, l
  <2>3. ASSUME NEW d \in w.days, NEW k \in 0..(n - 1)
        PROVE  (l = (d * D + w.from + k) % Week) <=> (y = d /\ m = w.from + k)
    <3>1. d \in 0..6 /\ w.from + k \in 0..(D - 1)
      BY <1>1, <1>2, <2>1 DEF Days
    <3>2. d * D + w.from + k = d * D + (w.from + k)
      BY <1>1, <1>2, <3>1
    <3> QED BY <1>4, <1>5, <3>1, <3>2
  <2>4. Open(w, t) <=> y \in w.days /\ m >= w.from /\ m < w.to
    BY <1>2, <1>7 DEF Open, l, y, m
  <2>5. ASSUME y \in w.days, m >= w.from, m < w.to PROVE \E d \in w.days, k \in 0..(n - 1) : y = d /\ m = w.from + k
    <3>1. m - w.from \in 0..(n - 1) /\ m = w.from + (m - w.from)
      BY <1>1, <1>2, <1>4, <2>1, <2>5
    <3> QED BY <2>5, <3>1
  <2>6. ASSUME NEW d \in w.days, NEW k \in 0..(n - 1), y = d, m = w.from + k PROVE m >= w.from /\ m < w.to
    BY <1>2, <2>1, <2>6
  <2> QED BY <2>2, <2>3, <2>4, <2>5, <2>6
<1>8. CASE w.from > w.to
  <2> DEFINE n == w.to - w.from + D
  <2>1. n \in 1..(D - 1) /\ (w.to - w.from) % D = n
    BY <1>1, <1>2, <1>8
  <2>2. InSpan(w, t) <=> \E d \in w.days, k \in 0..(n - 1) : l = (d * D + w.from + k) % Week
    BY <1>2, <1>8, <2>1 DEF InSpan, l
  <2>3. Open(w, t) <=> (y \in w.days /\ m >= w.from) \/ ((y + 6) % 7 \in w.days /\ m < w.to)
    BY <1>2, <1>8 DEF Open, l, y, m
  <2>4. ASSUME NEW d \in 0..6, NEW k \in 0..(n - 1), w.from + k < D
        PROVE  (l = (d * D + w.from + k) % Week) <=> (y = d /\ m = w.from + k)
    <3>1. w.from + k \in 0..(D - 1)
      BY <1>1, <1>2, <2>1, <2>4
    <3>2. d * D + w.from + k = d * D + (w.from + k)
      BY <1>1, <1>2, <3>1
    <3> QED BY <1>4, <1>5, <3>1, <3>2
  <2>5. ASSUME NEW d \in 0..6, NEW k \in 0..(n - 1), w.from + k >= D
        PROVE  (l = (d * D + w.from + k) % Week) <=> ((y + 6) % 7 = d /\ m = w.from + k - D)
    <3> DEFINE r == w.from + k - D
    <3>1. r \in 0..(D - 1)
      BY <1>1, <1>2, <2>1, <2>5
    <3>2. CASE d = 6
      <4>1. d * D + w.from + k = 7 * D + r
        BY <1>1, <1>2, <3>2
      <4>2. (l = (d * D + w.from + k) % Week) <=> l = 0 * D + r
        BY <1>1, <1>5, <3>1, <4>1
      <4>3. l = 0 * D + r <=> (y = 0 /\ m = r)
        BY <1>4, <3>1
      <4>4. (y + 6) % 7 = 6 <=> y = 0
        BY <1>4
      <4> QED BY <3>2, <4>2, <4>3, <4>4
    <3>3. CASE d # 6
      <4>1. d * D + w.from + k = (d + 1) * D + r /\ d + 1 \in 0..6
        BY <1>1, <1>2, <3>3
      <4>2. (l = (d * D + w.from + k) % Week) <=> (y = d + 1 /\ m = r)
        BY <1>4, <1>5, <3>1, <4>1
      <4>3. (y + 6) % 7 = d <=> y = d + 1
        BY <1>4, <3>3
      <4> QED BY <4>2, <4>3
    <3> QED BY <3>2, <3>3
  <2>6. ASSUME y \in w.days, m >= w.from PROVE InSpan(w, t)
    <3>1. m - w.from \in 0..(n - 1) /\ w.from + (m - w.from) = m /\ m < D
      BY <1>1, <1>2, <1>4, <2>1, <2>6
    <3>2. l = (y * D + w.from + (m - w.from)) % Week
      BY <1>4, <2>4, <3>1
    <3> QED BY <2>2, <2>6, <3>1, <3>2
  <2>7. ASSUME (y + 6) % 7 \in w.days, m < w.to PROVE InSpan(w, t)
    <3> DEFINE d == (y + 6) % 7
               k == m + D - w.from
    <3>1. k \in 0..(n - 1) /\ w.from + k >= D /\ w.from + k - D = m /\ d \in 0..6
      BY <1>1, <1>2, <1>4, <1>8, <2>1, <2>7
    <3>2. l = (d * D + w.from + k) % Week
      BY <2>5, <3>1
    <3> QED BY <2>2, <2>7, <3>1, <3>2
  <2>8. ASSUME NEW d \in w.days, NEW k \in 0..(n - 1), l = (d * D + w.from + k) % Week PROVE Open(w, t)
    <3>1. d \in 0..6
      BY <1>2 DEF Days
    <3>2. CASE w.from + k < D
      BY <1>2, <2>1, <2>3, <2>4, <2>8, <3>1, <3>2
    <3>3. CASE w.from + k >= D
      <4>1. (y + 6) % 7 = d /\ m = w.from + k - D
        BY <2>5, <2>8, <3>1, <3>3
      <4>2. m < w.to
        BY <1>1, <1>2, <2>1, <4>1
      <4> QED BY <2>3, <4>1, <4>2
    <3> QED BY <3>2, <3>3, <1>1, <1>2, <2>1
  <2> QED BY <2>2, <2>3, <2>6, <2>7, <2>8
<1> QED BY <1>2, <1>6, <1>7, <1>8

\* Two collections that differ only in numbers and windows decide alike, as far as
\* admission and the switch go.
LEMMA SwitchesDecide ==
  ASSUME NEW C \in SUBSET Grant, NEW E \in SUBSET Grant,
         \A g \in C : \E h \in E : SameSwitches(g, h),
         \A h \in E : \E g \in C : SameSwitches(g, h)
  PROVE  /\ Decision(C).allowed = Decision(E).allowed
         /\ Decision(C).approval = Decision(E).approval
         /\ Decision(C).clip = Decision(E).clip
         /\ Decision(C).mfa = Decision(E).mfa
<1> DEFINE Alike(D, F) == /\ \A g \in D : \E h \in F : SameSwitches(g, h)
                          /\ \A h \in F : \E g \in D : SameSwitches(g, h)
<1>1. Alike(Standing(C), Standing(E))
  BY SMT DEF Standing, SameSwitches
<1>2. Standing(C) = {} <=> Standing(E) = {}
  BY <1>1
<1>3. Alike(Deciders(C), Deciders(E))
  BY <1>1, <1>2 DEF Deciders
<1> HIDE DEF Alike
<1>4. /\ (Deciders(C) # {}) = (Deciders(E) # {})
      /\ (\A g \in Deciders(C) : g.access = "approval") = (\A g \in Deciders(E) : g.access = "approval")
      /\ (\A g \in Deciders(C) : g.clip) = (\A g \in Deciders(E) : g.clip)
      /\ (\E g \in Deciders(C) : g.mfa) = (\E g \in Deciders(E) : g.mfa)
  BY <1>3 DEF Alike, SameSwitches
<1>5. ASSUME NEW X
      PROVE  /\ Decision(X).allowed = (Deciders(X) # {})
             /\ Decision(X).approval = (\A g \in Deciders(X) : g.access = "approval")
             /\ Decision(X).clip = (\A g \in Deciders(X) : g.clip)
             /\ Decision(X).mfa = (\E g \in Deciders(X) : g.mfa)
  BY Zenon DEF Decision
<1> QED BY <1>4, <1>5, Zenon

\* The step that ends a session the policies settle is not one that changes numbers
\* and windows only.
LEMMA NumbersStep ==
  ASSUME TypeOK, ~(ticket.open /\ live.open), [Next]_vars PROVE NumbersKeepSettled
<1> SUFFICES ASSUME live.open, ~live'.open, NumbersOnly, ~Leave, Settled PROVE FALSE
  BY DEF NumbersKeepSettled
<1>1. TypeOK'
  BY TypeNext
<1>2. ASSUME NEW p \in Policies, NEW v, Write(p, v) PROVE FALSE
  <2> DEFINE C == CollectedLive(policy)
             E == CollectedLive(policy')
  <2>1. C \in SUBSET Grant /\ E \in SUBSET Grant
    BY <1>1, GrantsReach DEF TypeOK, CollectedLive
  <2>2. ASSUME NEW g \in C PROVE \E h \in E : SameSwitches(g, h)
    <3>1. PICK q \in Policies : policy[q].on /\ g \in policy[q].grants
      BY DEF CollectedLive, Reaching
    <3>2. PICK h \in policy'[q].grants : SameSwitches(g, h)
      BY <3>1 DEF NumbersOnly
    <3>3. policy'[q].on
      BY <3>1 DEF NumbersOnly
    <3>4. h \in E
      BY <3>2, <3>3 DEF CollectedLive, Reaching, Covers, SameSwitches
    <3> QED BY <3>2, <3>4
  <2>3. ASSUME NEW h \in E PROVE \E g \in C : SameSwitches(g, h)
    <3>1. PICK q \in Policies : policy'[q].on /\ h \in policy'[q].grants
      BY DEF CollectedLive, Reaching
    <3>2. PICK g \in policy[q].grants : SameSwitches(g, h)
      BY <3>1 DEF NumbersOnly
    <3>3. policy[q].on
      BY <3>1 DEF NumbersOnly
    <3>4. g \in C
      BY <3>2, <3>3 DEF CollectedLive, Reaching, Covers, SameSwitches
    <3> QED BY <3>2, <3>4
  <2>4. /\ Decision(C).allowed = Decision(E).allowed /\ Decision(C).approval = Decision(E).approval
        /\ Decision(C).clip = Decision(E).clip /\ Decision(C).mfa = Decision(E).mfa
    BY <2>1, <2>2, <2>3, SwitchesDecide
  <2>5. Admits(Decision(C), granted) /\ (live.clip => Decision(C).clip)
    BY DEF Settled, CollectedLive
  <2>6. Admits(Decision(E), granted) /\ (live.clip => Decision(E).clip)
    BY <2>4, <2>5, Zenon DEF Admits
  <2>7. live' = live
    BY <1>2, <2>6 DEF Write, Recheck, End
  <2> QED BY <2>7
<1>3. CASE GrantOver
  <2>1. granted' = granted
    BY DEF NumbersOnly
  <2>2. live' = Off /\ retagged' = FALSE
    BY <1>3 DEF GrantOver, End
  <2> QED BY <1>3, <2>1, <2>2 DEF GrantOver, Leave
<1>4. CASE live' = live
  BY <1>4
<1> QED BY <1>2, <1>3, <1>4 DEF Next, Save, Delete, Connect, Redeem, Join, Approve, Retag, Enrol, Tick, vars

\* A window is open exactly in the minutes it stands for, whatever the length of a day,
\* the zone and the week's end, and neither a window that shuts nor a number that
\* changes ends a session the policies settle (TimeWindow.Open, Recheck).
THEOREM WindowsHold == Spec => WindowsAndNumbers
<1> DEFINE Inv == ~(ticket.open /\ live.open)
<1>1. Init => Inv
  BY DEF Init, Off
<1>2. TypeOK /\ Inv /\ [Next]_vars => Inv'
  <2> SUFFICES ASSUME TypeOK, Inv, [Next]_vars PROVE Inv'
    OBVIOUS
  <2>1. CASE Connect
    BY <2>1 DEF Connect
  <2>2. CASE Redeem
    BY <2>2 DEF Redeem, Off
  <2>3. CASE ticket' = ticket /\ (live' = live \/ live' = Off)
    BY <2>3 DEF Off
  <2> QED BY <2>1, <2>2, <2>3 DEF Next, Save, Delete, Write, Recheck, End, Leave, Join, Approve, GrantOver, Retag, Enrol, Tick, vars
<1>3. TypeOK /\ TypeOK' /\ Inv /\ [Next]_vars => [(now' # now => OpenInItsSpan') /\ NumbersKeepSettled]_vars
  <2> SUFFICES ASSUME TypeOK, TypeOK', Inv, [Next]_vars PROVE OpenInItsSpan' /\ NumbersKeepSettled
    OBVIOUS
  <2>1. now' \in Nat
    BY PolicyAssumption DEF TypeOK, Week
  <2>2. \A w \in Windows : Open(w, now') <=> InSpan(w, now')
    BY <2>1, PolicyAssumption, SpanIsOpen
  <2>3. OpenInItsSpan'
    BY <2>2 DEF OpenInItsSpan, Open, InSpan
  <2> QED BY <2>3, NumbersStep
<1> QED BY <1>1, <1>2, <1>3, Typing, PTL DEF Spec, WindowsAndNumbers
=============================================================================
