------------------------------ MODULE Targets ------------------------------
(***************************************************************************)
(* Targets and the trust in the machine behind an address                  *)
(* (internal/target: repo.go, handlers.go, probe.go), with the credentials *)
(* bound to them.                                                          *)
(*                                                                         *)
(* A fingerprint is a model value, of a host key or of the certificate of  *)
(* an RDP or WinRM listener; what a machine shows a probe is any of them.  *)
(* Every handler reads the row and writes it in a later statement.         *)
(***************************************************************************)
EXTENDS Credentials

CONSTANTS
    Targets,     \* target ids, which are Holders
    Addresses,
    Listeners,   \* rdp, winrm
    FPs          \* fingerprints

ASSUME TargetAssumption == Targets \subseteq Holders /\ None \notin FPs

VARIABLES
    target,    \* the table
    treq,      \* per admin: the request in flight, with what it read
    live,      \* targets with a session in the registry
    approved   \* <<target, fingerprint>> an administrator has presented to trustHostKey

targetVars == <<target, treq, live, approved>>

NoPins == [l \in Listeners |-> None]
FP == FPs \cup {None}
NoTarget == [status |-> "free", address |-> None, hostKey |-> None, hostKeyStatus |-> "unknown",
             pin |-> NoPins, pending |-> NoPins]
TargetRow == [status : {"free", "active", "disabled", "deleted"}, address : Addresses \cup {None}, hostKey : FP,
              hostKeyStatus : {"unknown", "pending", "trusted", "changed"},
              pin : [Listeners -> FP], pending : [Listeners -> FP]]
TargetIdle == [pc |-> "idle", id |-> None, row |-> NoTarget, lost |-> FALSE, cred |-> None, fp |-> None,
               listener |-> None]

TargetTypeOK ==
    /\ target \in [Targets -> TargetRow]
    /\ treq \in [Admins -> [pc : {"idle", "update", "bind", "probe", "probed", "trust", "pin"},
                            id : Targets \cup {None}, row : TargetRow, lost : BOOLEAN, cred : Creds \cup {None},
                            fp : FP, listener : Listeners \cup {None}]]
    /\ live \in SUBSET Targets
    /\ approved \in SUBSET (Targets \X FPs)

TargetInit ==
    /\ target = [t \in Targets |-> NoTarget]
    /\ treq = [a \in Admins |-> TargetIdle]
    /\ live = {}
    /\ approved = {}

\* getWhere: deleted rows are not found.
Enrolled(t) == target[t].status \in {"active", "disabled"}
\* EndSessions; TargetDisabled and TargetTrustLost.
EndSessions(t) == live' = live \ {t}
RevokeIf(lost, t) == IF lost THEN EndSessions(t) ELSE UNCHANGED live
TargetDone(a) == treq' = [treq EXCEPT ![a] = TargetIdle]
TargetReads(a, t, q) ==
    /\ treq[a].pc = "idle"
    /\ Enrolled(t)
    /\ treq' = [treq EXCEPT ![a] = [q EXCEPT !.id = t]]
    /\ UNCHANGED <<target, live, approved, credVars>>

-----------------------------------------------------------------------------
(* AdminHandler: create, update, delete, the credential slot.              *)

TargetCreate(t, addr, status, c) ==
    /\ target[t].status = "free"
    /\ target' = [target EXCEPT ![t] = [NoTarget EXCEPT !.status = status, !.address = addr]]
    /\ BindSlot(t, c)
    /\ UNCHANGED <<treq, live, approved, cred, creq>>

\* update: the request carries every field; what was read decides only
\* whether sessions end.
TargetUpdateRead(a, t, addr, status, c) ==
    TargetReads(a, t, [TargetIdle EXCEPT !.pc = "update", !.cred = c,
                         !.row = [target[t] EXCEPT !.address = addr, !.status = status],
                         !.lost = \/ target[t].address # addr
                                  \/ target[t].status = "active" /\ status = "disabled"])

\* Repo.Update: a new address loses what was trusted and pinned for the old
\* one; the credential mapping is replaced; then the sessions.
TargetUpdate(a) ==
    LET q == treq[a]
        kept == [target[q.id] EXCEPT !.status = q.row.status]
    IN
    /\ q.pc = "update"
    /\ TargetDone(a)
    /\ IF Enrolled(q.id) /\ (q.cred # None => Stored(q.cred))
       THEN /\ target' = [target EXCEPT ![q.id] = IF q.row.address = kept.address THEN kept
                                                  ELSE [NoTarget EXCEPT !.status = q.row.status,
                                                                        !.address = q.row.address]]
            /\ BindSlot(q.id, q.cred)
            /\ RevokeIf(q.lost, q.id)
       ELSE UNCHANGED <<target, live, bound>>
    /\ UNCHANGED <<approved, cred, creq>>

\* delete: DeleteWith in one transaction, then EndSessions.
TargetDelete(t) ==
    /\ Enrolled(t)
    /\ target' = [target EXCEPT ![t].status = "deleted"]
    /\ BindSlot(t, None)
    /\ EndSessions(t)
    /\ UNCHANGED <<treq, approved, cred, creq>>

\* setCredential: the target is looked up, then the slot is written; the
\* sentinel first finds or makes the shared credential.
TargetBindRead(a, t, c) ==
    TargetReads(a, t, [TargetIdle EXCEPT !.pc = "bind", !.cred = c])

TargetPrompt(a, t, c) ==
    /\ treq[a].pc = "idle"
    /\ Enrolled(t)
    /\ EnsureUserSupplied(c)
    /\ treq' = [treq EXCEPT ![a] = [TargetIdle EXCEPT !.pc = "bind", !.id = t, !.cred = c]]
    /\ UNCHANGED <<target, live, approved, bound, creq>>

SetCredential(a) ==
    LET q == treq[a] IN
    /\ q.pc = "bind"
    /\ TargetDone(a)
    /\ IF Stored(q.cred) THEN BindSlot(q.id, q.cred) ELSE UNCHANGED bound
    /\ UNCHANGED <<target, live, approved, cred, creq>>

UnsetCredential(t) ==
    /\ Enrolled(t)
    /\ BindSlot(t, None)
    /\ UNCHANGED <<target, treq, live, approved, cred, creq>>

\* A session is admitted: active, a trusted host key, a credential (Session has its steps).
TargetConnect(t) ==
    /\ target[t].status = "active" /\ target[t].hostKeyStatus = "trusted"
    /\ \E c \in Creds : <<t, c>> \in bound /\ Opens(c)
    /\ live' = live \cup {t}
    /\ UNCHANGED <<target, treq, approved, credVars>>

-----------------------------------------------------------------------------
(* Probes and trust.                                                       *)

\* probeOne: nothing, or what the listener showed.
probeOne == FP
\* Probe: the host key and the certificates, each on its own.
Probe == [hostKey : probeOne, certs : [Listeners -> probeOne]]

\* The host key part of RecordProbe.
NextHostKeyStatus(r, fp) ==
    CASE r.hostKeyStatus \in {"unknown", "pending"} -> "pending"
      [] r.hostKeyStatus = "trusted" /\ r.hostKey = fp -> "trusted"
      [] OTHER -> "changed"

\* pinCertificate: the first is pinned; another is held as pending.
pinCertificate(r, l, seen) ==
    IF seen = None THEN r
    ELSE IF r.pin[l] = None THEN [r EXCEPT !.pin[l] = seen, !.pending[l] = None]
    ELSE [r EXCEPT !.pending[l] = IF r.pin[l] = seen THEN None ELSE seen]

Probed(r, res) ==
    LET k == IF res.hostKey = None THEN r
             ELSE [r EXCEPT !.hostKey = res.hostKey, !.hostKeyStatus = NextHostKeyStatus(r, res.hostKey)]
        pins == [l \in Listeners |-> pinCertificate(r, l, res.certs[l])]
    IN  [k EXCEPT !.pin = [l \in Listeners |-> pins[l].pin[l]],
                  !.pending = [l \in Listeners |-> pins[l].pending[l]]]

\* What HostKeyChange reports: a trusted key replaced, or a certificate other
\* than the pinned one seen for the first time.
TrustMoved(r, res) ==
    \/ res.hostKey # None /\ r.hostKeyStatus = "trusted" /\ r.hostKey # res.hostKey
    \/ \E l \in Listeners : res.certs[l] \notin {None, r.pin[l], r.pending[l]} /\ r.pin[l] # None

\* AdminHandler.probe: the row and the dial; RecordProbe reads the row again
\* and decides ...
ProbeRead(a, t, res) ==
    TargetReads(a, t, [TargetIdle EXCEPT !.pc = "probed", !.row = Probed(target[t], res),
                         !.lost = TrustMoved(target[t], res)])

\* ... and writes what it decided over whatever the row holds by then; a
\* moved pin ends the sessions.
RecordProbe(a) ==
    LET q == treq[a] IN
    /\ q.pc = "probed"
    /\ target' = [target EXCEPT ![q.id] = [q.row EXCEPT !.status = target[q.id].status,
                                                        !.address = target[q.id].address]]
    /\ RevokeIf(q.lost, q.id)
    /\ TargetDone(a)
    /\ UNCHANGED <<approved, credVars>>

\* trustHostKey: the administrator presents the fingerprint being approved.
TrustRead(a, t, fp) ==
    /\ target[t].hostKeyStatus \in {"pending", "changed"} /\ target[t].hostKey = fp /\ fp # None
    /\ TargetReads(a, t, [TargetIdle EXCEPT !.pc = "trust", !.fp = fp])

TrustHostKeyMut(a) ==      \* mutant: the fingerprint is not in the WHERE clause
    LET q == treq[a] IN
    /\ q.pc = "trust"
    /\ target' = [target EXCEPT ![q.id].hostKeyStatus = "trusted"]
    /\ approved' = approved \cup {<<q.id, q.fp>>}
    /\ TargetDone(a)
    /\ UNCHANGED <<live, credVars>>

\* UPDATE ... WHERE host_key_fingerprint = the one presented.
TrustHostKey(a) ==
    LET q == treq[a] IN
    /\ q.pc = "trust"
    /\ target' = IF target[q.id].hostKey = q.fp THEN [target EXCEPT ![q.id].hostKeyStatus = "trusted"] ELSE target
    /\ approved' = approved \cup {<<q.id, q.fp>>}
    /\ TargetDone(a)
    /\ UNCHANGED <<live, credVars>>

PinRead(a, t, l) ==
    /\ target[t].pending[l] # None
    /\ TargetReads(a, t, [TargetIdle EXCEPT !.pc = "pin", !.fp = target[t].pending[l], !.listener = l])

\* UPDATE ... WHERE the pending one is still the one presented.
TrustCertificate(a) ==
    LET q == treq[a] IN
    /\ q.pc = "pin"
    /\ target' = IF target[q.id].pending[q.listener] = q.fp
                 THEN [target EXCEPT ![q.id].pin[q.listener] = q.fp, ![q.id].pending[q.listener] = None]
                 ELSE target
    /\ TargetDone(a)
    /\ UNCHANGED <<live, approved, credVars>>

TargetNext ==
    \/ \E t \in Targets : TargetDelete(t) \/ UnsetCredential(t) \/ TargetConnect(t)
    \/ \E t \in Targets, addr \in Addresses, st \in {"active", "disabled"}, c \in Creds \cup {None} :
          \/ TargetCreate(t, addr, st, c)
          \/ \E a \in Admins : TargetUpdateRead(a, t, addr, st, c)
    \/ \E a \in Admins, t \in Targets :
          \/ \E c \in Creds : TargetBindRead(a, t, c) \/ TargetPrompt(a, t, c)
          \/ \E res \in Probe : ProbeRead(a, t, res)
          \/ \E fp \in FPs : TrustRead(a, t, fp)
          \/ \E l \in Listeners : PinRead(a, t, l)
    \/ \E a \in Admins : \/ TargetUpdate(a) \/ SetCredential(a) \/ RecordProbe(a)
                         \/ TrustHostKey(a) \/ TrustCertificate(a)

-----------------------------------------------------------------------------
\* A host key is trusted only if an administrator presented that fingerprint
\* for that target, whatever probes and other requests were in flight ("so a
\* probe that races with the approval cannot get a different key trusted",
\* repo.go:492).
ApprovedTrustOnly ==
    \A t \in Targets : target[t].hostKeyStatus = "trusted" => <<t, target[t].hostKey>> \in approved
=============================================================================
