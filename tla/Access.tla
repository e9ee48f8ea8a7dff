------------------------------- MODULE Access -------------------------------
(***************************************************************************)
(* Just-in-time access requests (internal/access): a user asks for access  *)
(* to a target, an administrator approves or denies, the approved request  *)
(* is a time-bounded grant, and a sweeper expires the grants whose window  *)
(* has passed.  Every HTTP handler runs concurrently with the others and   *)
(* with the sweeper; each SQL statement is atomic, nothing between two of  *)
(* them is.  A handler is therefore cut where it goes to the database      *)
(* again, and `proc' holds what it carries from one statement to the next. *)
(*                                                                         *)
(* One user and one protocol are modelled: requests of different users or  *)
(* protocols never meet in a WHERE clause.  A "target" stands for a target *)
(* or an autoscaling group.  Time is a counter of minutes.                 *)
(***************************************************************************)
EXTENDS Naturals, TLC

CONSTANTS
    Reqs,       \* ids of access_requests rows
    Targets,    \* targets and autoscaling groups
    Procs,      \* HTTP handlers running at once
    NoReq,      \* the absent request id (extends_request_id NULL)
    NoTarget,
    MaxMinutes, \* bound: the longest maximum a policy sets
    MaxTime,    \* bound: the clock stops here
    MaxCrashes, \* bound: process crashes and restarts
    MaxFaults   \* bound: failed ExpireDue statements

ASSUME AccessAssumption ==
    /\ NoReq \notin Reqs
    /\ NoTarget \notin Targets
    /\ MaxMinutes \in Nat \ {0}
    /\ MaxTime \in Nat
    /\ MaxCrashes \in Nat
    /\ MaxFaults \in Nat

VARIABLES
    req,     \* the access_requests table
    proc,    \* handlers in flight
    sweep,   \* the expiry sweeper
    now,     \* the clock
    most,    \* per target: the eligibility cap of the user's policies, 0: not eligible
    gone,    \* deleted targets
    told,    \* requests whose sessions the Revoker has been asked to end
    said,    \* access.grant.expire events recorded, per request
    count,   \* requests created so far; orders created_at
    crashes, faults

vars == <<req, proc, sweep, now, most, gone, told, said, count, crashes, faults>>

Minutes == 1..MaxMinutes
Status == {"none", "pending", "approved", "denied", "expired", "revoked"}
Over == {"expired", "revoked"}

\* The row of a request: born orders created_at, exp is expires_at (0: NULL),
\* decided is decided_at.  The requested figure is left out: it bounds nothing
\* once the request exists, the approver gives any figure inside the cap.
Row == [status : Status, tgt : Targets \cup {NoTarget},
        ext : Reqs \cup {NoReq}, exp : Nat, decided : Nat, born : Nat]
NoRow == [status |-> "none", tgt |-> NoTarget, ext |-> NoReq,
          exp |-> 0, decided |-> 0, born |-> 0]

Ops == {"idle", "create", "base", "decide", "ending", "endtarget"}
Local == [op : Ops, id : Reqs \cup {NoReq}, tgt : Targets \cup {NoTarget},
          min : Nat, ext : Reqs \cup {NoReq}, exp : Nat]
Idle == [op |-> "idle", id |-> NoReq, tgt |-> NoTarget, min |-> 0,
         ext |-> NoReq, exp |-> 0]

SweepIdle == [pc |-> "idle", due |-> {}, cutoff |-> 0]

TypeOK ==
    /\ req \in [Reqs -> Row]
    /\ proc \in [Procs -> Local]
    /\ sweep \in [pc : {"idle", "read", "say"}, due : SUBSET Reqs, cutoff : Nat]
    /\ now \in Nat
    /\ most \in [Targets -> Nat]
    /\ gone \in SUBSET Targets
    /\ told \in SUBSET Reqs
    /\ said \in [Reqs -> Nat]
    /\ count \in Nat
    /\ crashes \in Nat
    /\ faults \in Nat

Init ==
    /\ req = [r \in Reqs |-> NoRow]
    /\ proc = [p \in Procs |-> Idle]
    /\ sweep = SweepIdle
    /\ now = 0
    /\ most \in [Targets -> {0, MaxMinutes}]
    /\ gone = {}
    /\ told = {}
    /\ said = [r \in Reqs |-> 0]
    /\ count = 0
    /\ crashes = 0
    /\ faults = 0

-----------------------------------------------------------------------------
(* Queries of the repository.                                              *)

\* Request.Active: an approved grant still within its window.
Active(r) == req[r].status = "approved" /\ now < req[r].exp

\* Repo.HasActiveGrant: what the connect gate asks.
HasActiveGrant(t) == \E r \in Reqs : req[r].tgt = t /\ Active(r)

\* Repo.Open: the newest pending request or active grant on the target.
OpenSet(t) == {r \in Reqs : req[r].tgt = t /\ (req[r].status = "pending" \/ Active(r))}
Open(t, o) ==   \* o is what the query answers
    \/ OpenSet(t) = {} /\ o = NoReq
    \/ o \in OpenSet(t) /\ \A q \in OpenSet(t) : req[q].born <= req[o].born

\* Repo.DueForExpiry and the rows ExpireDue flips.
DueAt(cutoff) == {r \in Reqs : req[r].status = "approved" /\ req[r].exp <= cutoff}

-----------------------------------------------------------------------------
(* Handler.create: eligibility, the cap and the one-open-request rule are  *)
(* decided on what the queries answer; the insert is a statement of its    *)
(* own.                                                                    *)

MayCreateMut(t, ext) == \E open \in Reqs \cup {NoReq} :
    /\ Open(t, open)  \* mutant: an extension may name a pending request
    /\ open # NoReq => ext # NoReq
    /\ ext # NoReq => ext = open

MayCreate(t, ext) == \E open \in Reqs \cup {NoReq} :
    /\ Open(t, open)
    /\ open # NoReq => req[open].status # "pending"   \* duplicate_request
    /\ open # NoReq => ext # NoReq                    \* already_granted
    /\ ext # NoReq => ext = open                      \* not_extendable

CreateCheck(p, t, m, ext) ==
    /\ proc[p].op = "idle"
    /\ t \notin gone
    /\ 0 < most[t] /\ m <= most[t]
    /\ MayCreate(t, ext)
    /\ proc' = [proc EXCEPT ![p] = [Idle EXCEPT !.op = "create", !.tgt = t, !.ext = ext]]
    /\ UNCHANGED <<req, sweep, now, most, gone, told, said, count, crashes, faults>>

CreateInsertMut(p, r) ==     \* mutant: two columns of the INSERT swapped
    /\ proc[p].op = "create"
    /\ req[r].status = "none"
    /\ count' = count + 1
    /\ req' = [req EXCEPT ![r] = [status |-> "pending", tgt |-> proc[p].ext,
                                  ext |-> proc[p].tgt, exp |-> 0,
                                  decided |-> 0, born |-> count + 1]]
    /\ proc' = [proc EXCEPT ![p] = Idle]
    /\ UNCHANGED <<sweep, now, most, gone, told, said, crashes, faults>>

\* Repo.Create: the row is inserted pending, whatever happened since the check.
CreateInsert(p, r) ==
    /\ proc[p].op = "create"
    /\ req[r].status = "none"
    /\ count' = count + 1
    /\ req' = [req EXCEPT ![r] = [status |-> "pending", tgt |-> proc[p].tgt,
                                  ext |-> proc[p].ext, exp |-> 0,
                                  decided |-> 0, born |-> count + 1]]
    /\ proc' = [proc EXCEPT ![p] = Idle]
    /\ UNCHANGED <<sweep, now, most, gone, told, said, crashes, faults>>

-----------------------------------------------------------------------------
(* Handler.approve: read the request and the policies; then read the clock *)
(* and the grant it extends; then Decide, which only moves a request still *)
(* pending.                                                                *)

\* The approver gives m minutes: the requested figure or another.
ApproveCheck(p, r, m) ==
    /\ proc[p].op = "idle"
    /\ req[r].status = "pending"
    /\ req[r].tgt \notin gone
    /\ 0 < most[req[r].tgt] /\ m <= most[req[r].tgt]
    /\ proc' = [proc EXCEPT ![p] = [Idle EXCEPT !.op = "base", !.id = r, !.min = m]]
    /\ UNCHANGED <<req, sweep, now, most, gone, told, said, count, crashes, faults>>

\* Where the grant starts: the end of the grant it extends while that is active.
Base(r) == IF req[r].ext # NoReq /\ Active(req[r].ext) THEN req[req[r].ext].exp ELSE now

ApproveBase(p) ==
    /\ proc[p].op = "base"
    /\ proc' = [proc EXCEPT ![p].op = "decide",
                            ![p].exp = Base(proc[p].id) + proc[p].min]
    /\ UNCHANGED <<req, sweep, now, most, gone, told, said, count, crashes, faults>>

\* Repo.Decide: the conditional UPDATE; zero rows changed is ErrState.
DecideMut(r, status, exp) == \* mutant: WHERE id = ? without AND status = 'pending'
    req' = [req EXCEPT ![r].status = status, ![r].exp = exp, ![r].decided = now]

Decide(r, status, exp) ==
    req' = IF req[r].status = "pending"
           THEN [req EXCEPT ![r].status = status, ![r].exp = exp, ![r].decided = now]
           ELSE req

ApproveDecide(p) ==
    /\ proc[p].op = "decide"
    /\ Decide(proc[p].id, "approved", proc[p].exp)
    /\ proc' = [proc EXCEPT ![p] = Idle]
    /\ UNCHANGED <<sweep, now, most, gone, told, said, count, crashes, faults>>

\* Handler.deny: one Decide.
Deny(r) ==
    /\ req[r].status # "none"
    /\ Decide(r, "denied", 0)
    /\ UNCHANGED <<proc, sweep, now, most, gone, told, said, count, crashes, faults>>

-----------------------------------------------------------------------------
(* Handler.revoke: the conditional UPDATE, then Revoker.GrantRevoked ends  *)
(* the sessions the grant admitted.                                        *)

Revoke(p, r) ==
    /\ proc[p].op = "idle"
    /\ req[r].status = "approved"
    /\ req' = [req EXCEPT ![r].status = "revoked"]
    /\ proc' = [proc EXCEPT ![p] = [Idle EXCEPT !.op = "ending", !.id = r]]
    /\ UNCHANGED <<sweep, now, most, gone, told, said, count, crashes, faults>>

GrantRevoked(p) ==
    /\ proc[p].op = "ending"
    /\ told' = told \cup {proc[p].id}
    /\ proc' = [proc EXCEPT ![p] = Idle]
    /\ UNCHANGED <<req, sweep, now, most, gone, said, count, crashes, faults>>

(* Deleting a target or group: its pending and approved requests are       *)
(* revoked in the deletion's transaction (CloseForTargetTx), then its live *)
(* sessions are ended.                                                     *)

ClosedMut(t) == {r \in Reqs : req[r].tgt = t /\ req[r].status = "approved"}
                \* mutant: pending requests left open

Closed(t) == {r \in Reqs : req[r].tgt = t /\ req[r].status \in {"pending", "approved"}}

DeleteTarget(p, t) ==
    /\ proc[p].op = "idle"
    /\ t \notin gone
    /\ gone' = gone \cup {t}
    /\ req' = [r \in Reqs |-> IF r \in Closed(t) THEN [req[r] EXCEPT !.status = "revoked"]
                                                 ELSE req[r]]
    /\ proc' = [proc EXCEPT ![p] = [Idle EXCEPT !.op = "endtarget", !.tgt = t]]
    /\ UNCHANGED <<sweep, now, most, told, said, count, crashes, faults>>

EndSessions(p) ==
    /\ proc[p].op = "endtarget"
    /\ told' = told \cup {r \in Reqs : req[r].tgt = proc[p].tgt}
    /\ proc' = [proc EXCEPT ![p] = Idle]
    /\ UNCHANGED <<req, sweep, now, most, gone, said, count, crashes, faults>>

-----------------------------------------------------------------------------
(* Sweeper.Sweep: read the due set, flip it, then for each grant read end  *)
(* its sessions and record the expiry.                                     *)

SweepRead ==
    /\ sweep.pc = "idle"
    /\ DueAt(now) # {}
    /\ sweep' = [pc |-> "read", due |-> DueAt(now), cutoff |-> now]
    /\ UNCHANGED <<req, proc, now, most, gone, told, said, count, crashes, faults>>

\* Repo.ExpireDue under the sweep's cutoff.
SweepFlipMut ==              \* mutant: flips what is due now, not under the cutoff
    /\ sweep.pc = "read"
    /\ req' = [r \in Reqs |-> IF r \in DueAt(now) THEN [req[r] EXCEPT !.status = "expired"]
                                                  ELSE req[r]]
    /\ sweep' = [sweep EXCEPT !.pc = "say"]
    /\ UNCHANGED <<proc, now, most, gone, told, said, count, crashes, faults>>

SweepFlipStrict ==           \* mutant: expires_at < cutoff where the read used <=
    /\ sweep.pc = "read"
    /\ req' = [r \in Reqs |-> IF r \in DueAt(sweep.cutoff) /\ req[r].exp < sweep.cutoff
                              THEN [req[r] EXCEPT !.status = "expired"] ELSE req[r]]
    /\ sweep' = [sweep EXCEPT !.pc = "say"]
    /\ UNCHANGED <<proc, now, most, gone, told, said, count, crashes, faults>>

SweepFlip ==
    /\ sweep.pc = "read"
    /\ req' = [r \in Reqs |-> IF r \in DueAt(sweep.cutoff)
                              THEN [req[r] EXCEPT !.status = "expired"] ELSE req[r]]
    /\ sweep' = [sweep EXCEPT !.pc = "say"]
    /\ UNCHANGED <<proc, now, most, gone, told, said, count, crashes, faults>>

\* ExpireDue failed: the pass is over, nothing was flipped and nothing is said.
SweepFail ==
    /\ sweep.pc = "read"
    /\ faults < MaxFaults
    /\ faults' = faults + 1
    /\ sweep' = SweepIdle
    /\ UNCHANGED <<req, proc, now, most, gone, told, said, count, crashes>>

SweepSayStuck(r) ==          \* mutant: the pass never returns to the ticker
    /\ sweep.pc = "say"
    /\ r \in sweep.due
    /\ told' = told \cup {r}
    /\ said' = [said EXCEPT ![r] = @ + 1]
    /\ sweep' = [sweep EXCEPT !.due = @ \ {r}]
    /\ UNCHANGED <<req, proc, now, most, gone, count, crashes, faults>>

SweepSay(r) ==
    /\ sweep.pc = "say"
    /\ r \in sweep.due
    /\ told' = told \cup {r}
    /\ said' = [said EXCEPT ![r] = @ + 1]
    /\ sweep' = IF sweep.due = {r} THEN SweepIdle ELSE [sweep EXCEPT !.due = @ \ {r}]
    /\ UNCHANGED <<req, proc, now, most, gone, count, crashes, faults>>

-----------------------------------------------------------------------------
(* The world around the handlers.                                          *)

Tick ==
    /\ now < MaxTime
    /\ now' = now + 1
    /\ UNCHANGED <<req, proc, sweep, most, gone, told, said, count, crashes, faults>>

\* An administrator changes the policies: eligible() answers differently.
SetPolicy(t, m) ==
    /\ most' = [most EXCEPT ![t] = m]
    /\ UNCHANGED <<req, proc, sweep, now, gone, told, said, count, crashes, faults>>

\* The process dies and starts again: handlers and the sweep's pass are lost,
\* and so is every live session, so a grant over by now has none left to end.
Crash ==
    /\ crashes < MaxCrashes
    /\ crashes' = crashes + 1
    /\ proc' = [p \in Procs |-> Idle]
    /\ sweep' = SweepIdle
    /\ told' = told \cup {r \in Reqs : req[r].status \in Over}
    /\ UNCHANGED <<req, now, most, gone, said, count, faults>>

HandlerStep(p) ==
    \/ \E t \in Targets, m \in Minutes, ext \in Reqs \cup {NoReq} : CreateCheck(p, t, m, ext)
    \/ \E r \in Reqs : CreateInsert(p, r)
    \/ \E r \in Reqs, m \in Minutes : ApproveCheck(p, r, m)
    \/ ApproveBase(p)
    \/ ApproveDecide(p)
    \/ \E r \in Reqs : Revoke(p, r)
    \/ GrantRevoked(p)
    \/ \E t \in Targets : DeleteTarget(p, t)
    \/ EndSessions(p)

SweepStep == SweepRead \/ SweepFlip \/ SweepFail \/ \E r \in Reqs : SweepSay(r)

Next ==
    \/ \E p \in Procs : HandlerStep(p)
    \/ \E r \in Reqs : Deny(r)
    \/ SweepStep
    \/ Tick
    \/ \E t \in Targets, m \in 0..MaxMinutes : SetPolicy(t, m)
    \/ Crash

Spec == Init /\ [][Next]_vars


\* The sweeper runs every minute for as long as the process does.
Fairness == WF_vars(SweepRead) /\ WF_vars(SweepFlip) /\ WF_vars(\E r \in Reqs : SweepSay(r))
LiveSpec == Spec /\ Fairness

-----------------------------------------------------------------------------
(* Properties.                                                             *)

\* The inductive invariant behind the properties below: what a handler or the
\* sweep carries between two statements still means what it meant when read.
SweepReadCovers ==
    sweep.pc = "read" =>
        /\ sweep.cutoff <= now
        /\ \A r \in Reqs : /\ req[r].status = "approved"
                            /\ req[r].decided < req[r].exp
                            /\ req[r].exp <= sweep.cutoff
                            => r \in sweep.due
DueIsOver ==
    /\ sweep.pc = "read" => \A r \in sweep.due :
           req[r].status \in {"approved"} \cup Over /\ req[r].exp <= sweep.cutoff
    /\ sweep.pc = "say" => \A r \in sweep.due : req[r].status \in Over
    /\ sweep.pc = "idle" => sweep.due = {}
SaidIsOver ==
    \A r \in Reqs : /\ said[r] <= 1
                    /\ said[r] = 1 => req[r].status \in Over /\ r \notin sweep.due
HandlersHoldIds ==
    \A p \in Procs : proc[p].op \in {"base", "decide", "ending"} => proc[p].id \in Reqs
ApprovalsKnowTheirRow ==
    \A p \in Procs : proc[p].op \in {"base", "decide"} =>
        /\ req[proc[p].id].status # "none"
        /\ req[proc[p].id].tgt \in gone => req[proc[p].id].status # "pending"
Extends(q, t, b) ==
    /\ q \in Reqs
    /\ req[q].status \in {"approved"} \cup Over
    /\ req[q].tgt = t
    /\ req[q].born < b
CreatesKnowTheirGrant ==
    /\ \A r \in Reqs : req[r].born <= count
    /\ \A p \in Procs : proc[p].op = "create" /\ proc[p].ext # NoReq =>
           Extends(proc[p].ext, proc[p].tgt, count + 1)

\* A request is decided at most once, and what is over stays over, however
\* approvals, denials, revocations, deletions and the sweep interleave
\* (the status guards of Decide, Revoke, CloseForTargetTx and ExpireDue).
Successors(s) == CASE s = "none" -> {"none", "pending"}
                   [] s = "pending" -> {"pending", "approved", "denied", "revoked"}
                   [] s = "approved" -> {"approved", "expired", "revoked"}
                   [] OTHER -> {s}
DecisionsFinal ==
    [][\A r \in Reqs : req'[r].status \in Successors(req[r].status)]_vars

\* The gate starts to admit on a target only in the step in which an
\* administrator's approval of a pending request lands: neither a revocation,
\* an extension, the sweep nor a restart gives access back.
AccessOnlyByApproval ==
    [][\A t \in Targets : ~HasActiveGrant(t) /\ HasActiveGrant(t)' =>
         \E r \in Reqs : req[r].tgt = t /\ req[r].status = "pending"
                         /\ req'[r].status = "approved"]_vars

\* What administrators decided holds: no decision is changed, and access begins
\* with an approval (Decide, HasActiveGrant).
DecisionsHold == DecisionsFinal /\ AccessOnlyByApproval

\* Being told: the Revoker was asked to end the sessions of the grant, or the
\* handler or the sweep that ended the grant is about to ask.
EndingInFlight(r) ==
    \/ \E p \in Procs : proc[p].op = "ending" /\ proc[p].id = r
    \/ \E p \in Procs : proc[p].op = "endtarget" /\ proc[p].tgt = req[r].tgt
    \/ sweep.pc = "say" /\ r \in sweep.due

\* A grant that admitted anyone and is over has had its sessions ended, or is
\* about to (ADR 0013, ADR 0018): no grant leaves "approved" behind the back of
\* the Revoker.  A grant decided after its own window had passed admitted nobody.
WithdrawalReachesSessions ==
    \A r \in Reqs :
        req[r].status \in Over /\ req[r].decided < req[r].exp
            => r \in told \/ EndingInFlight(r)

\* The expiry of a grant is recorded at most once, across failed passes,
\* restarts and grants that lapse exactly at the cutoff.
ExpirySaidOnce == \A r \in Reqs : said[r] <= 1

\* The end of a grant is carried through: its sessions are ended, and its expiry
\* recorded once (afterEnd, Sweep).
EndsCarriedThrough == WithdrawalReachesSessions /\ ExpirySaidOnce

\* Once a target is deleted no grant on it is approved, although a request may
\* be created or be about to be approved as the deletion commits.
NoGrantOnDeletedTarget ==
    \A r \in Reqs : req[r].tgt \in gone => req[r].status # "approved"

\* An extension names a grant that was approved for the same target, so chains
\* of extensions always start at an approval (create's not_extendable check).
ExtensionsChainGrants ==
    \A r \in Reqs : req[r].status # "none" /\ req[r].ext # NoReq =>
        Extends(req[r].ext, req[r].tgt, req[r].born)

IInv ==
    /\ TypeOK
    /\ HandlersHoldIds
    /\ SweepReadCovers
    /\ DueIsOver
    /\ SaidIsOver
    /\ ApprovalsKnowTheirRow
    /\ CreatesKnowTheirGrant
    /\ WithdrawalReachesSessions
    /\ NoGrantOnDeletedTarget
    /\ ExtensionsChainGrants

\* A grant whose window has passed does not stay approved (Sweeper.Run).
LapsedGrantsExpire ==
    \A r \in Reqs : (req[r].status = "approved" /\ req[r].exp <= now)
                        ~> (req[r].status # "approved")


\* Which request and which handler is which does not matter.
Symmetry == Permutations(Reqs) \cup Permutations(Procs)
=============================================================================
