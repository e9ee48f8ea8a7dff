---------------------------- MODULE Credentials ----------------------------
(***************************************************************************)
(* Stored credentials (internal/credential) and the certificate authority  *)
(* that signs with them (internal/sshca).                                  *)
(*                                                                         *)
(* A key pair is one model value: the sealed private half and the public   *)
(* half are equal exactly when they belong together.  A password is a      *)
(* value of the same set and has no public half.  Each repository call     *)
(* reads the row, decides, and writes by id in a later statement, so other *)
(* requests run between the two.  Sealing is KeyRing's; here it keeps the  *)
(* value.                                                                  *)
(***************************************************************************)
EXTENDS Naturals, FiniteSets

CONSTANTS
    Creds,       \* credential ids
    CredNames,   \* names, unique in the table
    CKeys,       \* secrets
    None,        \* NULL
    Admins,      \* requests that may be in flight
    Holders,     \* targets and groups, which bind credentials
    PromptName   \* "User supplied (prompt at connect)"

ASSUME CredAssumption == None \notin CKeys /\ PromptName \in CredNames

Types == {"password", "ssh_key", "ssh_ca", "ec2_instance_connect"}
Modes == {"vaulted", "user_supplied"}

VARIABLES
    cred,   \* the table; a free id has type "free"
    bound,  \* target_credentials, asg_credentials: <<holder, credential>>
    creq    \* per admin: the request in flight, with the row it read

credVars == <<cred, bound, creq>>

NoCred == [type |-> "free", mode |-> "vaulted", name |-> None, secret |-> None, public |-> None,
           pending |-> None, pendingPub |-> None, retired |-> None]
CredRow == [type : Types \cup {"free"}, mode : Modes, name : CredNames \cup {None},
            secret : CKeys \cup {None}, public : CKeys \cup {None}, pending : CKeys \cup {None},
            pendingPub : CKeys \cup {None}, retired : CKeys \cup {None}]
CredIdle == [pc |-> "idle", id |-> None, key |-> None, name |-> None]

CredTypeOK ==
    /\ cred \in [Creds -> CredRow]
    /\ bound \in SUBSET (Holders \X Creds)
    /\ creq \in [Admins -> [pc : {"idle", "update", "rotate", "prepare", "cutover", "unsealed", "cancel",
                                  "retire", "delete", "prompt"},
                            id : Creds \cup {None}, key : CKeys \cup {None}, name : CredNames \cup {None}]]

CredInit ==
    /\ cred = [c \in Creds |-> NoCred]
    /\ bound = {}
    /\ creq = [a \in Admins |-> CredIdle]

Stored(c) == cred[c].type # "free"
NameTaken(n, c) == \E d \in Creds \ {c} : Stored(d) /\ cred[d].name = n
HasPair(type) == type \in {"ssh_key", "ssh_ca"}

\* validateAndPrepare: what is sealed and what public half it has.
prepared(type, mode, key) ==
    [secret |-> IF mode = "vaulted" /\ type # "ec2_instance_connect" THEN key ELSE None,
     public |-> IF mode = "vaulted" /\ HasPair(type) THEN key ELSE None]
ValidCred(type, mode) == type = "ec2_instance_connect" => mode = "vaulted"

\* Vault.Create: one INSERT.
InsertCred(c, type, mode, name, key) ==
    /\ ~Stored(c) /\ ValidCred(type, mode)
    /\ ~NameTaken(name, c)
    /\ cred' = [cred EXCEPT ![c] = [NoCred EXCEPT !.type = type, !.mode = mode, !.name = name,
                                        !.secret = prepared(type, mode, key).secret,
                                        !.public = prepared(type, mode, key).public]]

\* AdminHandler.create, generateSSHKey: an omitted key is generated.
CredCreate(c, type, mode, name, key) ==
    /\ InsertCred(c, type, mode, name, key)
    /\ UNCHANGED <<bound, creq>>

\* A request reads the row and keeps what it needs of it.
Reads(a, pc, c, key, name) ==
    /\ creq[a].pc = "idle"
    /\ Stored(c)
    /\ creq' = [creq EXCEPT ![a] = [pc |-> pc, id |-> c, key |-> key, name |-> name]]
    /\ UNCHANGED <<cred, bound>>

Done(a) == creq' = [creq EXCEPT ![a] = CredIdle]
\* UPDATE ... WHERE id: none affected when the row has gone (ErrNotFound).
Writes(c, row) ==
    cred' = IF Stored(c) THEN [cred EXCEPT ![c] = row] ELSE cred

\* rotatable: vaulted, with a secret, and not an authority.
rotatable(c) == cred[c].mode = "vaulted" /\ cred[c].type \in {"password", "ssh_key"}

\* AdminHandler.update: defaults from the row read, CheckRotate before anything is saved.
CredUpdateRead(a, c, name, key) ==
    /\ key # None => rotatable(c)
    /\ Reads(a, "update", c, key, IF name = None THEN cred[c].name ELSE name)

\* Vault.Update: metadata only; then the rotation, if any.
CredUpdate(a) ==
    LET q == creq[a] IN
    /\ q.pc = "update"
    /\ IF Stored(q.id) /\ ~NameTaken(q.name, q.id)
       THEN /\ Writes(q.id, [cred[q.id] EXCEPT !.name = q.name])
            /\ creq' = [creq EXCEPT ![a] = IF q.key = None THEN CredIdle ELSE [q EXCEPT !.pc = "rotate"]]
       ELSE UNCHANGED cred /\ Done(a)
    /\ UNCHANGED bound

\* AdminHandler.rotate of anything but an authority.
CredRotateRead(a, c, key) == rotatable(c) /\ Reads(a, "rotate", c, key, None)

\* Vault.Rotate: the secret and the public half it gives, in one UPDATE.
CredRotate(a) ==
    LET q == creq[a]
        p == prepared(cred[q.id].type, "vaulted", q.key)
    IN
    /\ q.pc = "rotate"
    /\ Writes(q.id, [cred[q.id] EXCEPT !.secret = p.secret, !.public = p.public])
    /\ Done(a)
    /\ UNCHANGED bound

\* AdminHandler.rotate of an authority: PrepareRotation, refused while a next
\* key is prepared and for the key in use.
CredPrepareRead(a, c, key) ==
    /\ cred[c].type = "ssh_ca" /\ cred[c].mode = "vaulted"
    /\ cred[c].pendingPub = None
    /\ key # cred[c].public
    /\ Reads(a, "prepare", c, key, None)

CredPrepare(a) ==
    LET q == creq[a] IN
    /\ q.pc = "prepare"
    /\ Writes(q.id, [cred[q.id] EXCEPT !.pending = q.key, !.pendingPub = q.key])
    /\ Done(a)
    /\ UNCHANGED bound

\* AdminHandler.cutOver, CutOver: Get, unseal, UPDATE.
CredCutOverRead(a, c) == cred[c].pendingPub # None /\ Reads(a, "cutover", c, None, None)

\* unseal(pending): read again; ErrNoSecret when it has gone meanwhile.
unseal(a) ==
    LET q == creq[a] IN
    /\ q.pc = "cutover"
    /\ creq' = [creq EXCEPT ![a] = IF Stored(q.id) /\ cred[q.id].pending # None
                                   THEN [q EXCEPT !.pc = "unsealed", !.key = cred[q.id].pending]
                                   ELSE CredIdle]
    /\ UNCHANGED <<cred, bound>>

\* The secret is the one unsealed; the public halves are the row's of now.
CutOver(a) ==
    LET q == creq[a]
        r == cred[q.id]
    IN
    /\ q.pc = "unsealed"
    /\ Writes(q.id, [r EXCEPT !.secret = q.key, !.public = r.pendingPub, !.retired = r.public,
                                 !.pending = None, !.pendingPub = None])
    /\ Done(a)
    /\ UNCHANGED bound

CredCancelRead(a, c) == cred[c].pendingPub # None /\ Reads(a, "cancel", c, None, None)

CancelRotation(a) ==
    LET q == creq[a] IN
    /\ q.pc = "cancel"
    /\ Writes(q.id, [cred[q.id] EXCEPT !.pending = None, !.pendingPub = None])
    /\ Done(a)
    /\ UNCHANGED bound

CredRetireRead(a, c) == cred[c].retired # None /\ Reads(a, "retire", c, None, None)

Retire(a) ==
    LET q == creq[a] IN
    /\ q.pc = "retire"
    /\ Writes(q.id, [cred[q.id] EXCEPT !.retired = None])
    /\ Done(a)
    /\ UNCHANGED bound

\* AdminHandler.delete, Delete: refused when the row read counts a binding ...
InUseBy(c) == \E h \in Holders : <<h, c>> \in bound
CredDeleteRead(a, c) == ~InUseBy(c) /\ Reads(a, "delete", c, None, None)

CredDeleteMut(a) ==     \* mutant: the foreign key is not there to refuse
    LET q == creq[a] IN
    /\ q.pc = "delete"
    /\ Writes(q.id, NoCred)
    /\ Done(a)
    /\ UNCHANGED bound

\* ... and by the foreign key when one was made since.
CredDelete(a) ==
    LET q == creq[a] IN
    /\ q.pc = "delete"
    /\ IF InUseBy(q.id) THEN UNCHANGED cred ELSE Writes(q.id, NoCred)
    /\ Done(a)
    /\ UNCHANGED bound

-----------------------------------------------------------------------------
(* What the handlers of targets and groups call.                           *)

UserSupplied == {c \in Creds : Stored(c) /\ cred[c].mode = "user_supplied"}

\* EnsureUserSupplied found none: Create, which another admin, or a credential
\* of that name, may forestall; then one more look.
EnsureUserSupplied(c) ==
    \/ c \in UserSupplied /\ UNCHANGED cred
    \/ UserSupplied = {} /\ InsertCred(c, "password", "user_supplied", PromptName, None)

\* The slot of h is emptied and filled again, if with something, in one
\* transaction; the foreign key refuses a credential that is not there.
BindSlot(h, c) ==
    /\ c # None => Stored(c)
    /\ bound' = {b \in bound : b[1] # h} \cup (IF c = None THEN {} ELSE {<<h, c>>})

\* Vault.Open: something to sign in with, or to ask the user for.
Opens(c) == cred[c].secret # None \/ cred[c].mode # "vaulted" \/ cred[c].type = "ec2_instance_connect"

CredNext ==
    \/ \E c \in Creds, t \in Types, m \in Modes, n \in CredNames, k \in CKeys : CredCreate(c, t, m, n, k)
    \/ \E a \in Admins, c \in Creds :
          \/ \E n \in CredNames \cup {None}, k \in CKeys \cup {None} : CredUpdateRead(a, c, n, k)
          \/ \E k \in CKeys : CredRotateRead(a, c, k) \/ CredPrepareRead(a, c, k)
          \/ CredCutOverRead(a, c) \/ CredCancelRead(a, c) \/ CredRetireRead(a, c) \/ CredDeleteRead(a, c)
    \/ \E a \in Admins :
          \/ CredUpdate(a) \/ CredRotate(a) \/ CredPrepare(a) \/ unseal(a) \/ CutOver(a)
          \/ CancelRotation(a) \/ Retire(a) \/ CredDelete(a)

-----------------------------------------------------------------------------
\* A credential in a slot of a target or a group is there when a session
\* needs it, whatever deletions and bindings ran at once.
BoundCredentialExists == \A b \in bound : Stored(b[2])
=============================================================================
