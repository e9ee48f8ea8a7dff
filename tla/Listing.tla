------------------------------ MODULE Listing ------------------------------
(***************************************************************************)
(* KeycloakDirectory.Users (src/internal/idp/oidc/keycloak.go): a realm is *)
(* read page by page over HTTP while people join and leave it, and the     *)
(* sync disables whoever the listing does not have.                        *)
(***************************************************************************)
EXTENDS Naturals, Sequences, FiniteSets, SequencesExt

CONSTANTS People, PageSize, MaxChanges   \* MaxChanges bounds the realm's changes during one run

ASSUME ListingAssumption == PageSize \in Nat \ {0} /\ MaxChanges \in Nat /\ IsFiniteSet(People)

VARIABLES
    realm,     \* external: the realm's users, in the order it pages them
    listing,   \* the run: where it is, what it counted and what it has read
    stayed,    \* in the realm since the try began
    moved      \* what happened to the realm since: "join", "leave"
listVars == <<realm, listing, stayed, moved>>

LIdle == [pc |-> "idle", try |-> 0, before |-> 0, first |-> 0, out |-> <<>>]

ListTypeOK ==
    /\ realm \in Seq(People) /\ IsInjective(realm)
    /\ listing \in [pc : {"idle", "count", "page", "again", "done", "failed"}, try : 0..2, before : Nat, first : Nat,
                    out : Seq(People)]
    /\ stayed \subseteq Range(realm) /\ moved \in Seq({"join", "leave"})

ListInit ==
    /\ realm \in UNION {Injection(1..n, People) : n \in 0..Cardinality(People)}
    /\ listing = LIdle /\ stayed = {} /\ moved = <<>>

ListStart ==
    /\ listing.pc = "idle"
    /\ listing' = [LIdle EXCEPT !.pc = "count"]
    /\ UNCHANGED <<realm, stayed, moved>>

\* count, and the first page's place.
CountBefore ==
    /\ listing.pc = "count"
    /\ listing' = [listing EXCEPT !.pc = "page", !.try = @ + 1, !.before = Len(realm), !.first = 0, !.out = <<>>]
    /\ stayed' = Range(realm) /\ moved' = <<>>
    /\ UNCHANGED realm

\* list: one page; a short one is the last, and fewer than counted is an error.
Page(first) == SubSeq(realm, first + 1, IF first + PageSize < Len(realm) THEN first + PageSize ELSE Len(realm))
ListPageMut ==     \* mutant: the short page ends it, and nothing is counted again
    LET page == Page(listing.first) IN
    /\ listing.pc = "page"
    /\ listing' = [listing EXCEPT !.out = @ \o page, !.first = @ + PageSize,
                                  !.pc = IF Len(page) = PageSize THEN "page" ELSE "done"]
    /\ UNCHANGED <<realm, stayed, moved>>
ListPage ==
    LET page == Page(listing.first)
        out == listing.out \o page
    IN
    /\ listing.pc = "page"
    /\ listing' = [listing EXCEPT !.out = out, !.first = @ + PageSize,
                                  !.pc = IF Len(page) = PageSize THEN "page"
                                         ELSE IF Len(out) < listing.before THEN "failed" ELSE "again"]
    /\ UNCHANGED <<realm, stayed, moved>>

\* The second count; a realm that changed is read once more, then given up.
CountAfter ==
    /\ listing.pc = "again"
    /\ listing' = [listing EXCEPT !.pc = IF listing.before = Len(realm) THEN "done"
                                         ELSE IF listing.try < 2 THEN "count" ELSE "failed"]
    /\ UNCHANGED <<realm, stayed, moved>>

\* identities: the sync takes what was listed, or the error, and nothing is under way.
ListTaken ==
    /\ listing.pc \in {"done", "failed"}
    /\ listing' = LIdle /\ stayed' = {} /\ moved' = <<>>
    /\ UNCHANGED realm

\* external: someone joins the realm, at any place in its order, or leaves it.
Joins(x, i) ==
    /\ x \notin Range(realm) /\ Len(moved) < MaxChanges
    /\ realm' = InsertAt(realm, i, x)
    /\ moved' = IF listing.pc = "idle" THEN moved ELSE Append(moved, "join")
    /\ UNCHANGED <<listing, stayed>>
Leaves(i) ==
    /\ Len(moved) < MaxChanges
    /\ realm' = RemoveAt(realm, i)
    /\ moved' = IF listing.pc = "idle" THEN moved ELSE Append(moved, "leave")
    /\ stayed' = stayed \ {realm[i]}
    /\ UNCHANGED listing

ListNext ==
    \/ ListStart \/ CountBefore \/ ListPage \/ CountAfter \/ ListTaken
    \/ \E i \in 1..Len(realm) : Leaves(i)
    \/ \E x \in People, i \in 1..(Len(realm) + 1) : Joins(x, i)
ListSpec == ListInit /\ [][ListNext]_listVars

-----------------------------------------------------------------------------
\* A listing that is handed over has everyone who was in the realm all the
\* while it was read, unless as many joined as left meanwhile: the two counts
\* agree then, and one person may have slipped across a page boundary (Users:
\* "a listing that does not hold still is an error").
ListingWhole ==
    (listing.pc = "done" /\ ~({"join", "leave"} \subseteq Range(moved))) => stayed \subseteq Range(listing.out)
=============================================================================
