----------------------------- MODULE Conversion -----------------------------
(***************************************************************************)
(* The data step of ADR 0036 (src/internal/policy/convert.go): every       *)
(* policy stored in the shape before it becomes grants, in the transaction *)
(* of its migration.  The frozen evaluator (legacy.go) is the reference    *)
(* the grants are compared with, through evaluate's rule for several       *)
(* policies (policy.go).                                                   *)
(***************************************************************************)
EXTENDS Naturals, FiniteSets

CONSTANTS
    Machines,       \* live targets and groups: records of id, kind and tag
    GoneId,           \* an id a selector names that is no longer live
    Serves,         \* kind -> the protocols it can serve
    Protos,         \* every protocol
    NoTag,          \* a selector or a machine without a tag
    LegacyChoices,  \* the stored policies of the shape before
    Beside          \* those of them a second one is taken from

Conditions == [approval : BOOLEAN, mfa : BOOLEAN, idle : Nat, keep : Nat]

ASSUME ConversionAssumption ==
    /\ \A m \in Machines : m.kind \in DOMAIN Serves /\ m.id # GoneId
    /\ \A m, n \in Machines : m.id = n.id => m = n        \* ids are random (store.NewID)
    /\ \A p \in LegacyChoices : p.cond \in Conditions
    /\ \A k \in DOMAIN Serves : Serves[k] \subseteq Protos
    /\ Beside \subseteq LegacyChoices

VARIABLES legacy, grants, step
convertVars == <<legacy, grants, step>>

ConvertTypeOK ==
    /\ (\A p \in legacy : p.cond \in Conditions) /\ step \in {"stored", "converted"}
    /\ \A g \in grants : /\ g.kind \in DOMAIN Serves /\ g.cond \in Conditions /\ g.of \in legacy
                         /\ \A i \in DOMAIN g.named : g.named[i] \subseteq Protos
                         /\ g.protos \subseteq Protos
ConvertInit ==
    /\ \E p \in LegacyChoices, q \in Beside : legacy = {p, q}
    /\ grants = {} /\ step = "stored"

\* readInventory, readLegacy: an id's kind, when it is live.
KindOf(i) == (CHOOSE m \in Machines : m.id = i).kind
Inventory == {m.id : m \in Machines}

\* The base selector with its protocols, when it names anything, and the rules.
Pairs(p) == {q \in {p.base} : (q.ids # {} \/ q.tag # NoTag) /\ q.protos # {}} \cup p.rules

\* servable, union: the protocols of a pair that a kind serves.
servable(k, ps) == Serves[k] \cap ps
Union(k, pairs) == UNION {servable(k, q.protos) : q \in pairs}

\* convert: one grant for every kind with named ids, one for every kind and
\* tag; ids that are gone, or serve none of the protocols, are dropped.
NamedOf(p, k) == {i \in Inventory : KindOf(i) = k /\ \E q \in Pairs(p) : i \in q.ids /\ servable(k, q.protos) # {}}
TagsOf(p, k) == {t \in {q.tag : q \in Pairs(p)} \ {NoTag} : Union(k, {q \in Pairs(p) : q.tag = t}) # {}}
ForNames(p, k) == [kind |-> k, tag |-> NoTag, protos |-> {}, cond |-> p.cond, of |-> p,
                   named |-> [i \in NamedOf(p, k) |-> Union(k, {q \in Pairs(p) : i \in q.ids})]]
ForTag(p, k, t) == [kind |-> k, tag |-> t, protos |-> Union(k, {q \in Pairs(p) : q.tag = t}), cond |-> p.cond, of |-> p,
                    named |-> <<>>]
convert(p) ==
    {ForNames(p, k) : k \in {x \in DOMAIN Serves : NamedOf(p, x) # {}}}
    \cup UNION {{ForTag(p, k, t) : t \in TagsOf(p, k)} : k \in DOMAIN Serves}

\* convertStored: every policy not yet converted, in one transaction.
convertStored ==
    /\ step = "stored" /\ step' = "converted"
    /\ grants' = UNION {convert(p) : p \in legacy}
    /\ UNCHANGED legacy
ConvertNext == convertStored

ConvertSpec == ConvertInit /\ [][ConvertNext]_convertVars

----------------------------------------------------------------------------
\* legacySelector.matches, legacyPolicy.covers, legacyEvaluate.
matches(q, m) == m.id \in q.ids \/ (q.tag # NoTag /\ m.tag = q.tag)
legacyCovers(p, m, pr) == \E q \in {p.base} \cup p.rules : matches(q, m) /\ pr \in q.protos
Tier(cs) == IF \E c \in cs : ~c.approval THEN {c \in cs : ~c.approval} ELSE cs
legacySet(m, pr) == Tier({p.cond : p \in {x \in legacy : legacyCovers(x, m, pr)}})

\* Grant.Covers and evaluate over the grants.
grantCovers(g, m, pr) ==
    /\ g.kind = m.kind
    /\ \/ m.id \in DOMAIN g.named /\ pr \in g.named[m.id]
       \/ g.tag # NoTag /\ m.tag = g.tag /\ pr \in g.protos
Admitting(m, pr) == {g \in grants : grantCovers(g, m, pr)}
grantSet(m, pr) == Tier({g.cond : g \in Admitting(m, pr)})

\* The data step of ADR 0036: for every live machine and every protocol its
\* kind can serve, what the stored policies admitted they still admit, with
\* or without approval as before; where one policy admits, under exactly its
\* terms, and where several do, under terms none of which is looser than the
\* frozen evaluator's (the policy of the shortest idle limit set them).
ConversionKeepsAccess ==
    step = "converted" =>
        \A m \in Machines : \A pr \in Protos :
            LET old == legacySet(m, pr)
                new == grantSet(m, pr)
                best == {c \in old : \A d \in old : c.idle <= d.idle}
            IN IF pr \notin Serves[m.kind] THEN new = {}
               ELSE /\ (old = {}) = (new = {})
                    /\ (\E c \in old : ~c.approval) = (\E c \in new : ~c.approval)
                    /\ Cardinality({g.of : g \in Admitting(m, pr)}) = 1 => new = old
                    /\ \A b \in best : /\ \E c \in new : c.idle <= b.idle
                                       /\ b.mfa => \E c \in new : c.mfa
                    /\ \A c \in old : \E d \in new : d.keep >= c.keep
=============================================================================
