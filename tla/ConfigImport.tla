---------------------------- MODULE ConfigImport ----------------------------
(***************************************************************************)
(* The configuration as a file (src/internal/configio): groups, targets    *)
(* and policies imported by name through the gateway's own API, while      *)
(* administrators edit, review and delete the same rows (src/internal/     *)
(* policy/handlers.go, review.go, repo.go).  A text stands for every field *)
(* of a row that names nothing else; text 0 names a credential the gateway *)
(* does not have.                                                          *)
(***************************************************************************)
EXTENDS Naturals, Sequences, FiniteSets, SequencesExt

CONSTANTS
    Documents,      \* the files an administrator may import
    Stores,         \* the configurations the gateway may start with: rows, and ids issued
    MaxId,          \* bounds the rows and grants that get an id
    MaxRefusals,    \* bounds the calls the API refuses on a field's content
    MaxEdits        \* bounds the other administrators' changes

RowKinds == {"group", "target", "policy"}
NoName == ""     \* a name left blank, and the name of an id that is nobody's

\* A row of the tables: its id was issued, its name is not blank.
IsRow(r) ==
    /\ r.kind \in RowKinds /\ r.name # NoName
    /\ r.kind = "group" => r = [kind |-> "group", id |-> r.id, name |-> r.name, text |-> r.text, members |-> r.members]
    /\ r.kind = "target" => r = [kind |-> "target", id |-> r.id, name |-> r.name, text |-> r.text]
    /\ r.kind = "policy" => r = [kind |-> "policy", id |-> r.id, name |-> r.name, text |-> r.text,
                                 subjects |-> r.subjects, grant |-> r.grant, targets |-> r.targets]
\* Ids are the rows' own, and names within a kind are unique.
IsStore(s, n) ==
    /\ \A r \in s : IsRow(r) /\ r.id \in 1..n
    /\ \A r, q \in s : (r.id = q.id \/ (r.kind = q.kind /\ r.name = q.name)) => r = q

\* A file's lists, each of its own kind.
Entries == UNION {ToSet(f.groups) \cup ToSet(f.targets) \cup ToSet(f.policies) : f \in Documents}
IsDocument(f) ==
    /\ f.groups \in Seq(Entries) /\ f.targets \in Seq(Entries) /\ f.policies \in Seq(Entries)
    /\ \A d \in ToSet(f.groups) : d.kind = "group"
    /\ \A d \in ToSet(f.targets) : d.kind = "target"
    /\ \A d \in ToSet(f.policies) : d.kind = "policy" /\ d.subjects \in Seq(STRING) /\ d.targets \in Seq(STRING)

ASSUME ImportAssumption ==
    /\ MaxId \in Nat /\ MaxRefusals \in Nat /\ MaxEdits \in Nat
    /\ \A f \in Documents : IsDocument(f)
    /\ \A s \in Stores : s.issued \in 0..MaxId /\ IsStore(s.rows, s.issued)

VARIABLES
    rows,       \* the tables: groups, targets, policies, each row with its id
    issued,     \* ids given out so far
    import,     \* the import under way: its file, what it read, its changes
    desk,       \* another administrator's policy write, between its reads and its transaction
    before,     \* the rows when the import read first
    quiet,      \* no other administrator changed a row since
    refused, edits
importVars == <<rows, issued, import, desk, before, quiet, refused, edits>>

NoDocument == [groups |-> <<>>, targets |-> <<>>, policies |-> <<>>]
NoImport == [pc |-> "idle", file |-> NoDocument, seen |-> {}, at |-> 1, changes |-> <<>>, body |-> {}]
NoDesk == [pc |-> "idle", row |-> {}]

Items(d) == d.groups \o d.targets \o d.policies
OfKind(s, k) == {r \in s : r.kind = k}
Named(s, k, n) == {r \in s : r.kind = k /\ r.name = n}
NameOf(s, i) == IF \E r \in s : r.id = i THEN (CHOOSE r \in s : r.id = i).name ELSE NoName
IdOf(s, k, n) == (CHOOSE r \in Named(s, k, n) : TRUE).id

ImportTypeOK ==
    /\ IsStore(rows, issued)
    /\ issued \in 0..MaxId /\ quiet \in BOOLEAN /\ refused \in 0..MaxRefusals /\ edits \in 0..MaxEdits
    /\ import.pc \in {"idle", "groups", "targets", "policies", "plan", "run", "members", "groups2", "targets2",
                      "policies2", "resolve", "store", "done", "unread", "planned", "failed"}
    /\ desk.pc \in {"idle", "write"}

ImportInit ==
    /\ \E s \in Stores : rows = s.rows /\ issued = s.issued
    /\ import = NoImport /\ desk = NoDesk /\ before = {} /\ quiet = TRUE /\ refused = 0 /\ edits = 0

\* A row is what an entry of the file says, its names looked up in one reading,
\* whatever the order of the subjects.
Same(s, r, d) ==
    /\ r.name = d.name /\ r.text = d.text
    /\ r.kind = "group" => r.members = d.members
    /\ r.kind = "policy" => /\ {NameOf(s, i) : i \in r.subjects} = ToSet(d.subjects)
                            /\ Len(r.targets) = Len(d.targets)
                            /\ \A i \in 1..Len(d.targets) : NameOf(s, r.targets[i]) = d.targets[i]
\* targetDoc, policyDoc: the row written out is the entry; subjects come by id.
Says(s, r, d) ==
    /\ Same(s, r, d)
    /\ r.kind = "policy" =>
         /\ Len(d.subjects) = Cardinality(r.subjects)
         /\ \E at \in [1..Len(d.subjects) -> r.subjects] :
                /\ \A i, j \in DOMAIN at : i < j => at[i] < at[j]
                /\ \A i \in DOMAIN at : d.subjects[i] = NameOf(s, at[i])

\* writeTarget, writePolicy against a reading: is there a name it does not have?
Unknown(s, d) ==
    CASE d.kind = "group"  -> FALSE
      [] d.kind = "target" -> d.text = 0
      [] d.kind = "policy" -> \/ \E n \in ToSet(d.subjects) : Named(s, "group", n) = {}
                              \/ \E n \in ToSet(d.targets) : Named(s, "target", n) = {}

\* plan: what each item would do; names the file creates count for its policies.
Future(s, f) == s \cup {[kind |-> d.kind, name |-> d.name] : d \in ToSet(f.groups \o f.targets)}
Twice(f, d) == \E i, j \in DOMAIN Items(f) :
                  i # j /\ \A e \in {Items(f)[i], Items(f)[j]} : e.kind = d.kind /\ e.name = d.name
Problem(s, f, d) == d.name = NoName \/ Unknown(Future(s, f), d) \/ Twice(f, d)
PlanOf(s, d) ==
    LET old == Named(s, d.kind, d.name) IN
    [action |-> IF old = {} THEN "create" ELSE IF \E r \in old : Says(s, r, d) THEN "unchanged" ELSE "update",
     applied |-> FALSE, error |-> FALSE]

----------------------------------------------------------------------------
(* The import. *)

KeepsDesk == UNCHANGED <<desk, before, quiet, edits>>

\* importConfig: the file parses, and read begins.
ImportStart(f) ==
    /\ import.pc = "idle"
    /\ import' = [NoImport EXCEPT !.pc = "groups", !.file = f]
    /\ before' = rows /\ quiet' = TRUE
    /\ UNCHANGED <<rows, issued, desk, refused, edits>>

\* read: one list route after another; the second reading before the policies.
ReadList(from, kind, to) ==
    /\ import.pc = from
    /\ import' = [import EXCEPT !.seen = {r \in @ : r.kind # kind} \cup OfKind(rows, kind), !.pc = to]
    /\ UNCHANGED <<rows, issued, refused>> /\ KeepsDesk
ReadState ==
    \/ ReadList("groups", "group", "targets")   \/ ReadList("targets", "target", "policies")
    \/ ReadList("policies", "policy", "plan")
    \/ ReadList("groups2", "group", "targets2") \/ ReadList("targets2", "target", "policies2")
    \/ ReadList("policies2", "policy", "resolve")
\* A list route that answers 500 ends the import, or the rest of it.
ReadFails ==
    /\ import.pc \in {"targets", "policies", "targets2", "policies2"} /\ refused < MaxRefusals
    /\ refused' = refused + 1
    /\ import' = IF import.pc \in {"targets", "policies"} THEN [import EXCEPT !.pc = "unread"]
                 ELSE [import EXCEPT !.pc = "failed",
                          !.changes = [i \in DOMAIN @ |-> IF Items(import.file)[i].kind = "policy" THEN [@[i] EXCEPT !.error = TRUE] ELSE @[i]]]
    /\ UNCHANGED <<rows, issued>> /\ KeepsDesk

\* Without ?apply=true, and with any problem, the plan is the whole answer.
ImportPlan(apply) ==
    /\ import.pc = "plan"
    /\ LET items == Items(import.file)
       IN import' = [import EXCEPT
                        !.changes = [i \in DOMAIN items |-> PlanOf(import.seen, items[i])],
                        !.pc = IF apply /\ \A i \in DOMAIN items : ~Problem(import.seen, import.file, items[i])
                               THEN "run" ELSE "planned"]
    /\ UNCHANGED <<rows, issued, refused>> /\ KeepsDesk

Item(i) == Items(import.file)[i]
RefuseCall ==          \* do: a code outside 200-299, and the rest does not run
    /\ import' = [import EXCEPT !.changes = [@ EXCEPT ![import.at].error = TRUE], !.pc = "failed"]
    /\ UNCHANGED <<rows, issued>>
TurnedDown == /\ refused < MaxRefusals /\ refused' = refused + 1 /\ RefuseCall
Onward(pc) == [import EXCEPT !.changes = [@ EXCEPT ![import.at].applied = TRUE], !.pc = pc,
                              !.at = IF pc = "members" THEN @ ELSE @ + 1]

\* run, over the groups and the targets: the ids are the first reading's.
Applying(kind) == /\ import.pc = "run" /\ import.at <= Len(Items(import.file)) /\ Item(import.at).kind = kind
                  /\ import.changes[import.at].action # "unchanged"
RunSkip ==
    /\ import.pc = "run" /\ import.at <= Len(Items(import.file)) /\ Item(import.at).kind # "policy"
    /\ import.changes[import.at].action = "unchanged"
    /\ import' = [import EXCEPT !.at = @ + 1]
    /\ UNCHANGED <<rows, issued, refused>> /\ KeepsDesk
\* The POST and the PUT of a group or a target; a name may be another row's.
Create(row) ==
    /\ import.changes[import.at].action = "create"
    /\ IF Named(rows, row.kind, row.name) # {} THEN RefuseCall
       ELSE /\ issued < MaxId /\ issued' = issued + 1
            /\ rows' = rows \cup {row}
            /\ import' = Onward("run")
    /\ UNCHANGED refused
Update(d, pc) ==
    LET id == IdOf(import.seen, d.kind, d.name)
        old == {r \in OfKind(rows, d.kind) : r.id = id}
    IN
    /\ import.changes[import.at].action = "update"
    /\ IF old = {} \/ \E r \in Named(rows, d.kind, d.name) : r.id # id THEN RefuseCall
       ELSE /\ rows' = (rows \ old) \cup {[r EXCEPT !.name = d.name, !.text = d.text] : r \in old}
            /\ import' = Onward(pc) /\ UNCHANGED issued
    /\ UNCHANGED refused
RunGroup ==
    LET d == Item(import.at) IN
    /\ Applying("group")
    /\ \/ TurnedDown
       \/ Create([kind |-> "group", id |-> issued + 1, name |-> d.name, text |-> d.text, members |-> d.members])
       \/ Update(d, "members")
    /\ KeepsDesk
\* A group's update is two calls, its fields and then its members.
RunMembersMut ==    \* mutant: the members are left as they were
    /\ import.pc = "members"
    /\ import' = Onward("run")
    /\ UNCHANGED <<rows, issued, refused>> /\ KeepsDesk
RunMembers ==
    LET d == Item(import.at)
        old == {r \in OfKind(rows, "group") : r.id = IdOf(import.seen, "group", d.name)}
    IN
    /\ import.pc = "members"
    /\ \/ TurnedDown
       \/ /\ IF old = {} THEN RefuseCall
             ELSE /\ rows' = (rows \ old) \cup {[r EXCEPT !.members = d.members] : r \in old}
                  /\ import' = Onward("run") /\ UNCHANGED issued
          /\ UNCHANGED refused
    /\ KeepsDesk
RunTarget ==
    LET d == Item(import.at) IN
    /\ Applying("target")
    /\ \/ TurnedDown
       \/ Create([kind |-> "target", id |-> issued + 1, name |-> d.name, text |-> d.text])
       \/ Update(d, "run")
    /\ KeepsDesk
RunAgain ==         \* what this import created has ids now
    /\ import.pc = "run" /\ \A i \in import.at..Len(Items(import.file)) : Item(i).kind = "policy"
    /\ import' = [import EXCEPT !.pc = "groups2"]
    /\ UNCHANGED <<rows, issued, refused>> /\ KeepsDesk

\* checkWrite, against the tables: every id is a live target's.
AllLive(s, p) == \A i \in ToSet(p.targets) : \E r \in OfKind(s, "target") : r.id = i

\* writePolicy: names to ids in a reading, the id of a grant kept.
BodyOf(s, d) ==
    LET old == Named(s, "policy", d.name) IN
    [kind |-> "policy", name |-> d.name, text |-> d.text,
     id |-> IF old = {} THEN 0 ELSE IdOf(s, "policy", d.name),
     grant |-> IF \E r \in old : r.targets # <<>> THEN (CHOOSE r \in old : TRUE).grant ELSE 0,
     subjects |-> {IdOf(s, "group", n) : n \in ToSet(d.subjects)},
     targets |-> [i \in 1..Len(d.targets) |-> IdOf(s, "target", d.targets[i])]]
\* run, over the policies, in the second reading; then the handler's reads and checks.
RunResolve ==
    LET d == Item(import.at)
        body == BodyOf(import.seen, d)
        stored == {r \in OfKind(rows, "policy") : r.id = body.id}
    IN
    /\ import.pc = "resolve" /\ import.at <= Len(Items(import.file))
    /\ IF import.changes[import.at].action = "unchanged"
       THEN import' = [import EXCEPT !.at = @ + 1] /\ UNCHANGED <<rows, issued>>
       ELSE IF \/ Unknown(import.seen, d) \/ ~AllLive(rows, body)
               \/ (body.id # 0 /\ stored = {})
               \/ (body.id = 0 /\ d.subjects = <<>>)
               \/ (body.grant # 0 /\ \A r \in stored : r.grant # body.grant \/ r.targets = <<>>)
       THEN RefuseCall
       ELSE import' = [import EXCEPT !.body = {body}, !.pc = "store"] /\ UNCHANGED <<rows, issued>>
    /\ UNCHANGED refused /\ KeepsDesk

\* Repo.Create, Repo.Update: one transaction; the subjects are foreign keys,
\* the targets of a grant are not.
StorePolicy(p) ==
    LET ids == issued + (IF p.id = 0 THEN 1 ELSE 0)
        row == [p EXCEPT !.id = IF @ = 0 THEN ids ELSE @, !.grant = IF @ = 0 THEN ids + 1 ELSE @]
    IN
    /\ ids + 1 <= MaxId
    /\ rows' = {r \in rows : r.kind # "policy" \/ r.id # p.id} \cup {row}
    /\ issued' = IF p.grant = 0 THEN ids + 1 ELSE ids
Stands(p) ==
    /\ \A r \in Named(rows, "policy", p.name) : r.id = p.id
    /\ p.id # 0 => \E r \in OfKind(rows, "policy") : r.id = p.id
    /\ \A i \in p.subjects : \E r \in OfKind(rows, "group") : r.id = i
RunStore ==
    /\ import.pc = "store"
    /\ \E p \in import.body :
         \/ TurnedDown
         \/ /\ Stands(p) /\ StorePolicy(p)
            /\ import' = [Onward("resolve") EXCEPT !.body = {}] /\ UNCHANGED refused
         \/ ~Stands(p) /\ RefuseCall /\ UNCHANGED refused
    /\ KeepsDesk
RunEnds ==
    /\ import.pc = "resolve" /\ import.at > Len(Items(import.file))
    /\ import' = [import EXCEPT !.pc = "done"]
    /\ UNCHANGED <<rows, issued, refused>> /\ KeepsDesk

Import ==
    \/ \E f \in Documents : ImportStart(f)
    \/ ReadState \/ ReadFails
    \/ \E apply \in BOOLEAN : ImportPlan(apply)
    \/ RunSkip \/ RunGroup \/ RunMembers \/ RunTarget \/ RunAgain \/ RunResolve \/ RunStore \/ RunEnds

----------------------------------------------------------------------------
(* The other administrators, through the same routes. *)

DeskChanges == /\ edits < MaxEdits /\ edits' = edits + 1 /\ quiet' = FALSE
        /\ UNCHANGED <<import, before, refused>>

\* update, completeReview: the policy is read and checked, then stored; a
\* review keeps the grants it read and drops subjects.
DeskEdit(r, text) ==
    /\ desk.pc = "idle" /\ r.targets # <<>> /\ AllLive(rows, r) /\ DeskChanges
    /\ desk' = [pc |-> "write", row |-> {[r EXCEPT !.text = text]}]
    /\ UNCHANGED <<rows, issued>>
DeskReview(r, gone) ==
    /\ desk.pc = "idle" /\ r.targets # <<>> /\ gone \in r.subjects /\ DeskChanges
    /\ desk' = [pc |-> "write", row |-> {[r EXCEPT !.subjects = @ \ {gone}]}]
    /\ UNCHANGED <<rows, issued>>
DeskWrite ==
    /\ desk.pc = "write" /\ desk' = NoDesk /\ quiet' = FALSE
    /\ \E p \in desk.row : IF Stands(p) THEN StorePolicy(p) ELSE UNCHANGED <<rows, issued>>
    /\ UNCHANGED <<import, before, refused, edits>>

\* RemoveTargetTx: a target goes out of every grant in its own deletion's
\* transaction; a grant left naming nothing goes too.
WithoutTarget(p, id) == [p EXCEPT !.targets = SelectSeq(@, LAMBDA i : i # id)]
TargetGone(t) ==
    /\ DeskChanges
    /\ rows' = {r \in rows : r.kind = "group"} \cup (OfKind(rows, "target") \ {t}) \cup {WithoutTarget(p, t.id) : p \in OfKind(rows, "policy")}
    /\ UNCHANGED <<issued, desk>>
\* A group's subjects rows go with it.
GroupGone(g) ==
    /\ DeskChanges
    /\ rows' = OfKind(rows, "target") \cup (OfKind(rows, "group") \ {g}) \cup {[p EXCEPT !.subjects = @ \ {g.id}] : p \in OfKind(rows, "policy")}
    /\ UNCHANGED <<issued, desk>>
PolicyGone(p) == /\ DeskChanges /\ rows' = rows \ {p} /\ UNCHANGED <<issued, desk>>
\* A target another administrator adds under a name the file may hold too.
TargetAdded(n) ==
    /\ DeskChanges /\ n # NoName /\ Named(rows, "target", n) = {} /\ issued < MaxId
    /\ issued' = issued + 1 /\ rows' = rows \cup {[kind |-> "target", id |-> issued + 1, name |-> n, text |-> 1]}
    /\ UNCHANGED desk

OtherAdmins ==
    \/ \E r \in OfKind(rows, "policy") : DeskEdit(r, 2) \/ PolicyGone(r) \/ \E g \in r.subjects : DeskReview(r, g)
    \/ DeskWrite
    \/ \E t \in OfKind(rows, "target") : TargetGone(t)
    \/ \E g \in OfKind(rows, "group") : GroupGone(g)
    \/ \E d \in UNION {ToSet(f.targets) : f \in Documents} : TargetAdded(d.name)

ImportNext == Import \/ OtherAdmins

ImportSpec == ImportInit /\ [][ImportNext]_importVars

----------------------------------------------------------------------------
(* Importing (ADR 0043): an import nobody interferes with leaves the rows *)
(* its answer says it changed as the file has them, a refused change and  *)
(* everything after it as it was, and a plan refused for a problem        *)
(* changes nothing at all.                                                *)
AnswerTells ==
    LET ended == import.pc \in {"done", "failed", "planned", "unread"} IN
    (ended /\ quiet) =>
        /\ import.pc \in {"planned", "unread"} => rows = before
        /\ import.pc \in {"done", "failed"} =>
             \A i \in DOMAIN import.changes :
                 LET d == Item(i)
                     c == import.changes[i]
                     now == Named(rows, d.kind, d.name)
                 IN /\ (c.applied \/ c.action = "unchanged") /\ ~c.error => \E r \in now : Same(rows, r, d)
                    /\ ~c.applied => now = Named(before, d.kind, d.name)
                    /\ import.pc = "done" => c.applied \/ c.action = "unchanged"
=============================================================================
