------------------------------ MODULE Anchors ------------------------------
(***************************************************************************)
(* Signed anchors over the audit chain (internal/audit: anchor.go, Verify, *)
(* Reseal and checker.go; cmd/zanskar/audit.go), composed with the change  *)
(* of the master key, from which the key that signs them is derived.       *)
(*                                                                         *)
(* A row of the log is named by its id; its hash is the id and the number  *)
(* of the reseal that wrote it, so that two hashes are equal exactly when  *)
(* they were computed over the same row and chain.  Rows may be edited or  *)
(* deleted by someone with access to the database only; the log then is    *)
(* what Verify is for.  Recording an event is one step here (AuditLog has  *)
(* its steps).                                                             *)
(***************************************************************************)
EXTENDS KeyRing

CONSTANTS
    MaxEvent,   \* bound: events recorded
    MaxReseal,  \* bound: reseals
    MaxTamper   \* bound: rows edited or deleted

ASSUME AnchorAssumption == MaxEvent \in Nat /\ MaxReseal \in Nat /\ MaxTamper \in Nat

VARIABLES
    log,      \* audit_events: [id, prev, hash, ok]; ok: the hash covers the content
    seqHigh,  \* the id sequence (SQLite's: written with the row)
    anchors,  \* audit_anchors: [id, event, hash, key]
    signed,   \* the ids of anchors so far
    verify,   \* a run of Verify: of the CLI, or of the gateway's Checker
    reseal,   \* a run of `zanskar audit reseal`
    reseals,  \* reseals so far
    tampers,  \* rows edited, deleted, or written with a bad hash
    lost      \* has a row that a stored anchor names been deleted?

anchorVars == <<log, seqHigh, anchors, signed, verify, reseal, reseals, tampers, lost>>

Genesis == <<0, 0>>
Hashes == Nat \X Nat
VerifyIdle == [pc |-> "idle", key |-> NoKey, lost |-> FALSE, stored |-> {}, hashes |-> {},
               found |-> {}]
AnchorRow == [id : Nat, event : Nat, hash : Hashes, key : Keys]
Problems == {"broken", "foreign", "missing", "changed", "past", "sequence"}
LogRow == [id : Nat, prev : Hashes, hash : Hashes, ok : BOOLEAN]
VerifyRec == [pc : {"idle", "walked", "anchors", "hashes", "done"}, key : Keys \cup {NoKey},
              lost : BOOLEAN, stored : SUBSET AnchorRow,
              hashes : SUBSET Hashes, found : SUBSET Problems]

AnchorTypeOK ==
    /\ log \in SUBSET LogRow
    /\ seqHigh \in Nat
    /\ anchors \in SUBSET AnchorRow /\ signed \in Nat
    /\ verify \in VerifyRec
    /\ reseal \in {"idle", "broken", "sealed", "recorded"}
    /\ reseals \in Nat
    /\ tampers \in Nat
    /\ lost \in BOOLEAN

AnchorInit ==
    /\ log = {} /\ seqHigh = 0
    /\ anchors = {} /\ signed = 0
    /\ verify = VerifyIdle
    /\ reseal = "idle" /\ reseals = 0
    /\ tampers = 0 /\ lost = FALSE

Ids == {r.id : r \in log}
maxID == CHOOSE n \in Ids \cup {0} : \A i \in Ids : i <= n
head == IF log = {} THEN Genesis ELSE (CHOOSE r \in log : r.id = maxID).hash
\* The hash of the row before this one, in id order.
Before(r) ==
    LET earlier == {q \in log : q.id < r.id}
    IN  IF earlier = {} THEN Genesis
        ELSE (CHOOSE q \in earlier : \A x \in earlier : x.id <= q.id).hash
\* verifyLink.
LinkHolds(r) == r.ok /\ r.prev = Before(r)

-----------------------------------------------------------------------------
(* The log and who else may touch it.                                      *)

AppendEvent ==
    /\ seqHigh < MaxEvent
    /\ seqHigh' = seqHigh + 1
    /\ log' = log \cup {[id |-> seqHigh + 1, prev |-> head, hash |-> <<seqHigh + 1, 0>>, ok |-> TRUE]}

\* Log.Record.
Record ==
    /\ AppendEvent
    /\ UNCHANGED <<anchors, signed, verify, reseal, reseals, tampers, lost>>

\* A row deleted behind the gateway's back; the anchors are left alone.
Deleted(r) ==
    /\ log' = log \ {r}
    /\ tampers < MaxTamper
    /\ tampers' = tampers + 1
    /\ lost' = (lost \/ \E a \in anchors : a.event = r.id)
    /\ UNCHANGED <<seqHigh, anchors, signed, verify, reseal, reseals>>

\* A row edited, or stored with a hash its content, read back, does not give
\* (the old build that Reseal's comment describes).
Edited(r) ==
    /\ r.ok
    /\ log' = (log \ {r}) \cup {[r EXCEPT !.ok = FALSE]}
    /\ tampers < MaxTamper
    /\ tampers' = tampers + 1
    /\ UNCHANGED <<seqHigh, anchors, signed, verify, reseal, reseals, lost>>

-----------------------------------------------------------------------------
(* Anchors.                                                                *)

\* Log.Anchor: nothing when the log is empty or its head is anchored already,
\* ErrAnchorKeyMismatch when the newest anchor is not signed with this key.
Anchored(key) ==
    /\ log # {}
    /\ \A a \in anchors : (\A b \in anchors : b.id <= a.id) =>
          a.key = key /\ <<a.event, a.hash>> # <<maxID, head>>
    /\ signed' = signed + 1
    /\ anchors' = anchors \cup {[id |-> signed + 1, event |-> maxID, hash |-> head, key |-> key]}

\* A gateway has the key it was started with, a command the key in the file (openLog).
AuditKeys == {ring[g].kek : g \in {h \in Gateways : ring[h].pc = "up"}} \cup {keyFile}

\* Anchorer.Run in a gateway, runAuditAnchor.
AnchorHead(key) ==
    /\ key \in AuditKeys
    /\ Anchored(key)
    /\ UNCHANGED <<log, seqHigh, verify, reseal, reseals, tampers, lost>>

\* ResignAnchors, the step of rotate-master after Rewrap.
ResignAnchors(old, new) ==
    anchors' = {IF a.key = old THEN [a EXCEPT !.key = new] ELSE a : a \in anchors}

AnchorsResigned ==
    /\ KmResign
    /\ ResignAnchors(km.old, km.new) \/ UNCHANGED anchors
    /\ UNCHANGED <<log, seqHigh, signed, verify, reseal, reseals, tampers, lost>>

-----------------------------------------------------------------------------
(* Log.Verify: each step reads on its own, with events and anchors written *)
(* between them.                                                           *)

\* walk: from the first row to the head.
walk == \A r \in log : LinkHolds(r)

\* Verify, started by Checker.Check in a gateway or by a command.
VerifyWalk(key) ==
    /\ verify.pc \in {"idle", "done"}
    /\ key \in AuditKeys
    /\ verify' = [VerifyIdle EXCEPT !.pc = "walked", !.key = key, !.lost = lost,
                     !.found = IF walk THEN {} ELSE {"broken"}]
    /\ UNCHANGED <<log, seqHigh, anchors, signed, reseal, reseals, tampers, lost>>

\* anchoredHashes: the events named by the anchors stored by now.
anchoredHashes == {r.hash : r \in {q \in log : \E a \in anchors : a.event = q.id}}

VerifyReadMut ==     \* mutant: the events are read before the anchors that name them
    /\ \/ /\ verify.pc = "walked"
          /\ verify' = [verify EXCEPT !.pc = "anchors", !.hashes = anchoredHashes]
       \/ /\ verify.pc = "anchors"
          /\ verify' = [verify EXCEPT !.pc = "hashes", !.stored = anchors]
    /\ UNCHANGED <<log, seqHigh, anchors, signed, reseal, reseals, tampers, lost>>

\* checkAnchors: the stored anchors, then the events they name.
VerifyRead ==
    /\ \/ /\ verify.pc = "walked"
          /\ verify' = [verify EXCEPT !.pc = "anchors", !.stored = anchors]
       \/ /\ verify.pc = "anchors"
          /\ verify' = [verify EXCEPT !.pc = "hashes", !.hashes = anchoredHashes]
    /\ UNCHANGED <<log, seqHigh, anchors, signed, reseal, reseals, tampers, lost>>

\* What checkAnchors says of one anchor.
Finding(a) ==
    IF a.key # verify.key THEN {"foreign"}
    ELSE IF a.hash \in verify.hashes THEN {}
    ELSE IF \E h \in verify.hashes : h[1] = a.event THEN {"changed"}
    ELSE IF a.event > maxID THEN {"past"} ELSE {"missing"}

\* The newest id, the report, and checkSequence (SQLite: one statement; PostgreSQL only warns).
VerifyReport ==
    /\ verify.pc = "hashes"
    /\ verify' = [verify EXCEPT !.pc = "done", !.key = NoKey, !.stored = {}, !.hashes = {},
                     !.found = @ \cup (UNION {Finding(a) : a \in verify.stored})
                                 \cup (IF seqHigh > maxID THEN {"sequence"} ELSE {})]
    /\ UNCHANGED <<log, seqHigh, anchors, signed, reseal, reseals, tampers, lost>>

-----------------------------------------------------------------------------
(* runAuditReseal.                                                         *)

\* The Verify it starts with must find the chain broken.
ResealStart ==
    /\ reseal = "idle"
    /\ reseals < MaxReseal
    /\ ~walk
    /\ reseal' = "broken"
    /\ UNCHANGED <<log, seqHigh, anchors, signed, verify, reseals, tampers, lost>>

\* From the first row whose hash or link does not hold to the head.
FirstRewritten == CHOOSE n \in Ids : /\ \E r \in log : r.id = n /\ ~LinkHolds(r)
                                     /\ \A r \in log : r.id < n => LinkHolds(r)
Resealed(r, gen) == IF r.id < FirstRewritten THEN r.hash ELSE <<r.id, gen>>
Relinked(gen) ==
    {[r EXCEPT !.ok = TRUE, !.hash = Resealed(r, gen),
               !.prev = LET earlier == {q \in log : q.id < r.id}
                        IN  IF earlier = {} THEN Genesis
                            ELSE Resealed(CHOOSE q \in earlier : \A x \in earlier : x.id <= q.id, gen)]
        : r \in log}

ResealRemovedMut == {a \in anchors : a.event >= FirstRewritten}
                     \* mutant: anchors of events that are gone are removed too

\* The anchors that named rewritten events; one whose event is gone is kept.
ResealRemoved == {a \in anchors : a.event >= FirstRewritten /\ a.event \in Ids}

\* Reseal, one transaction under the writers' lock.
Reseal ==
    /\ reseal = "broken"
    /\ reseal' = "sealed"
    /\ reseals' = reseals + 1
    /\ IF ~walk
       THEN /\ log' = Relinked(reseals + 1)
            /\ anchors' = anchors \ ResealRemoved
       ELSE UNCHANGED <<log, anchors>>
    /\ UNCHANGED <<seqHigh, signed, verify, tampers, lost>>

\* audit.reseal is recorded in the log just rewritten ...
ResealRecord ==
    /\ reseal = "sealed"
    /\ AppendEvent
    /\ reseal' = "recorded"
    /\ UNCHANGED <<anchors, signed, verify, reseals, tampers, lost>>

\* ... and its head anchored.
ResealAnchor ==
    /\ reseal = "recorded"
    /\ Anchored(keyFile) \/ UNCHANGED <<anchors, signed>>
    /\ reseal' = "idle"
    /\ UNCHANGED <<log, seqHigh, verify, reseals, tampers, lost>>

\* The command dies between its statements.
ResealStop ==
    /\ reseal # "idle"
    /\ reseal' = "idle"
    /\ UNCHANGED <<log, seqHigh, anchors, signed, verify, reseals, tampers, lost>>

AnchorNext ==
    \/ Record
    \/ \E r \in log : Deleted(r) \/ Edited(r)
    \/ \E key \in Keys : AnchorHead(key) \/ VerifyWalk(key)
    \/ VerifyRead \/ VerifyReport
    \/ ResealStart \/ Reseal \/ ResealRecord \/ ResealAnchor \/ ResealStop

\* The log and its anchors beside gateways, key commands and rotate-master.
signingVars == <<keyVars, anchorVars>>
SigningNext ==
    \/ AnchorNext /\ UNCHANGED keyVars
    \/ AnchorsResigned
    \/ KeyNext /\ UNCHANGED anchorVars
SigningSpec == KeyInit /\ AnchorInit /\ [][SigningNext]_signingVars

-----------------------------------------------------------------------------
\* A verification that runs while events are recorded, anchors written and
\* the master key changed finds nothing wrong with a log nobody touched; at
\* most it names anchors signed with another master key.
NoFalseAlarm ==
    verify.pc = "done" => tampers > 0 \/ verify.found \subseteq {"foreign"}

\* Once an event that a stored anchor names has been deleted, every later
\* verification reports something, whatever was recorded, anchored, re-signed
\* or resealed since ("an anchor naming an event that is missing is kept, so
\* verify still reports the gap", store.go:762).
TruncationFound ==
    verify.pc = "done" /\ verify.lost => verify.found # {}

\* What an anchor is worth (anchor.go, store.go Verify and Reseal): no alarm
\* on a log nobody touched, and no silence once an anchored event is gone.
AnchorsSound == AnchorTypeOK /\ NoFalseAlarm /\ TruncationFound
=============================================================================
