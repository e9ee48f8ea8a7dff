---------------------------- MODULE AccessProofs ----------------------------
(***************************************************************************)
(* Proofs about Access: its type invariant, the inductive invariant IInv   *)
(* and the safety and action properties that follow from it, for any set   *)
(* of requests, targets and handlers and any bounds.                       *)
(***************************************************************************)
EXTENDS Access, TLAPS

\* What the UPDATE statements and the handlers' locals do to a record's type.
LEMMA RowStatus == ASSUME NEW x \in Row, NEW s \in Status PROVE [x EXCEPT !.status = s] \in Row
  BY DEF Row

\* Decide writes the status and the expiry of a row.
LEMMA RowDecide ==
    ASSUME NEW x \in Row, NEW s \in Status, NEW e \in Nat, NEW d \in Nat
    PROVE  [x EXCEPT !.status = s, !.exp = e, !.decided = d] \in Row
  BY DEF Row

\* ApproveBase leaves its computed expiry for Decide.
LEMMA LocalDecide ==
    ASSUME NEW x \in Local, NEW e \in Nat PROVE [x EXCEPT !.op = "decide", !.exp = e] \in Local
  BY DEF Local, Ops

\* ApproveCheck remembers the request and the minutes.
LEMMA LocalBase ==
    ASSUME NEW r \in Reqs, NEW m \in Nat
    PROVE  [Idle EXCEPT !.op = "base", !.id = r, !.min = m] \in Local
  BY DEF Local, Ops, Idle

\* Every handler, the sweep, the clock and a crash keep every variable in its type.
LEMMA TypeNext == ASSUME TypeOK, HandlersHoldIds, [Next]_vars PROVE TypeOK'
<1> USE AccessAssumption DEF TypeOK, Minutes
<1>a. Idle \in Local
  BY DEF Idle, Local, Ops
<1>b. ASSUME NEW r \in Reqs PROVE
        /\ \A s \in Status : [req[r] EXCEPT !.status = s] \in Row
        /\ \A s \in Status, e \in Nat :
             [req[r] EXCEPT !.status = s, !.exp = e, !.decided = now] \in Row
  BY <1>b, RowStatus, RowDecide
<1>c. ASSUME NEW r \in Reqs PROVE
        /\ req[r].tgt \in Targets \cup {NoTarget}
        /\ req[r].ext \in Reqs \cup {NoReq}
        /\ req[r].exp \in Nat
  BY <1>c DEF Row
<1>d. ASSUME NEW p \in Procs PROVE
        /\ proc[p].id \in Reqs \cup {NoReq}
        /\ proc[p].tgt \in Targets \cup {NoTarget}
        /\ proc[p].ext \in Reqs \cup {NoReq}
        /\ proc[p].min \in Nat
        /\ proc[p].exp \in Nat
  BY <1>d DEF Local
<1>e. ASSUME NEW r, NEW s \in Status, NEW e \in Nat, Decide(r, s, e) PROVE req' \in [Reqs -> Row]
  BY <1>e, <1>b DEF Decide
<1>f. {"pending", "approved", "denied", "revoked", "expired"} \subseteq Status
  BY DEF Status
<1>1. ASSUME NEW p \in Procs, HandlerStep(p) PROVE TypeOK'
  <2>1. ASSUME NEW t \in Targets, NEW m \in Minutes, NEW ext \in Reqs \cup {NoReq},
               CreateCheck(p, t, m, ext) PROVE TypeOK'
    <3>1. [Idle EXCEPT !.op = "create", !.tgt = t, !.ext = ext] \in Local
      BY DEF Idle, Local, Ops
    <3> QED BY <2>1, <3>1 DEF CreateCheck
  <2>2. ASSUME NEW r \in Reqs, CreateInsert(p, r) PROVE TypeOK'
    <3>1. [status |-> "pending", tgt |-> proc[p].tgt, ext |-> proc[p].ext, exp |-> 0,
           decided |-> 0, born |-> count + 1] \in Row
      BY <1>d DEF Row, Status
    <3> QED BY <2>2, <3>1, <1>a DEF CreateInsert
  <2>3. ASSUME NEW r \in Reqs, NEW m \in Minutes, ApproveCheck(p, r, m) PROVE TypeOK'
    <3>0. m \in Nat
      OBVIOUS
    <3>1. [Idle EXCEPT !.op = "base", !.id = r, !.min = m] \in Local
      BY <3>0, LocalBase
    <3> QED BY <2>3, <3>1 DEF ApproveCheck
  <2>4. ASSUME ApproveBase(p), proc[p].id \in Reqs PROVE TypeOK'
    <3>1. Base(proc[p].id) + proc[p].min \in Nat
      BY <1>c, <1>d, <2>4 DEF Base
    <3>2. [proc[p] EXCEPT !.op = "decide", !.exp = Base(proc[p].id) + proc[p].min] \in Local
      BY <3>1, LocalDecide
    <3> QED BY <2>4, <3>2 DEF ApproveBase
  <2>5. ASSUME ApproveDecide(p) PROVE TypeOK'
    <3>1. req' \in [Reqs -> Row]
      BY <2>5, <1>d, <1>e, <1>f DEF ApproveDecide
    <3> QED BY <2>5, <3>1, <1>a DEF ApproveDecide
  <2>6. ASSUME NEW r \in Reqs, Revoke(p, r) PROVE TypeOK'
    <3>1. [Idle EXCEPT !.op = "ending", !.id = r] \in Local
      BY DEF Idle, Local, Ops
    <3> QED BY <2>6, <3>1, <1>b, <1>f DEF Revoke
  <2>7. ASSUME GrantRevoked(p), proc[p].id \in Reqs PROVE TypeOK'
    BY <2>7, <1>a DEF GrantRevoked
  <2>8. ASSUME NEW t \in Targets, DeleteTarget(p, t) PROVE TypeOK'
    <3>1. [Idle EXCEPT !.op = "endtarget", !.tgt = t] \in Local
      BY DEF Idle, Local, Ops
    <3>2. req' \in [Reqs -> Row]
      BY <2>8, <1>b, <1>f DEF DeleteTarget
    <3> QED BY <2>8, <3>1, <3>2 DEF DeleteTarget
  <2>9. ASSUME EndSessions(p) PROVE TypeOK'
    BY <2>9, <1>a DEF EndSessions
  <2>10. ApproveBase(p) => proc[p].id \in Reqs
    BY DEF ApproveBase, HandlersHoldIds
  <2>11. GrantRevoked(p) => proc[p].id \in Reqs
    BY DEF GrantRevoked, HandlersHoldIds
  <2> QED BY <1>1, <2>1, <2>2, <2>3, <2>4, <2>5, <2>6, <2>7, <2>8, <2>9, <2>10, <2>11 DEF HandlerStep
<1>2. ASSUME NEW r \in Reqs, Deny(r) PROVE TypeOK'
  <2>1. req' \in [Reqs -> Row]
    BY <1>2, <1>e, <1>f DEF Deny
  <2> QED BY <1>2, <2>1 DEF Deny
<1>3. ASSUME SweepStep PROVE TypeOK'
  <2>1. CASE SweepRead BY <2>1 DEF SweepRead, DueAt
  <2>2. CASE SweepFlip BY <2>2, <1>b, <1>f DEF SweepFlip
  <2>3. CASE SweepFail BY <2>3 DEF SweepFail, SweepIdle
  <2>4. ASSUME NEW r \in Reqs, SweepSay(r) PROVE TypeOK'
    BY <2>4 DEF SweepSay, SweepIdle
  <2> QED BY <1>3, <2>1, <2>2, <2>3, <2>4 DEF SweepStep
<1>4. CASE Tick BY <1>4 DEF Tick
<1>5. ASSUME NEW t \in Targets, NEW m \in 0..MaxMinutes, SetPolicy(t, m) PROVE TypeOK'
  BY <1>5 DEF SetPolicy
<1>6. CASE Crash BY <1>6, <1>a DEF Crash, SweepIdle
<1>7. CASE UNCHANGED vars BY <1>7 DEF vars
<1> QED BY <1>1, <1>2, <1>3, <1>4, <1>5, <1>6, <1>7 DEF Next

\* A fresh database and process have their types.
LEMMA TypeInit == Init => TypeOK /\ HandlersHoldIds
<1>1. Idle \in Local
  BY DEF Idle, Local, Ops
<1>2. NoRow \in Row
  BY DEF NoRow, Row, Status
<1>3. Idle.op = "idle"
  BY DEF Idle
<1> QED BY <1>1, <1>2, <1>3, AccessAssumption DEF Init, TypeOK, HandlersHoldIds, SweepIdle

\* A handler keeps the id of its request until it is done with it.
LEMMA IdsNext == ASSUME TypeOK, HandlersHoldIds, [Next]_vars PROVE HandlersHoldIds'
<1> USE DEF TypeOK, HandlersHoldIds, Local
<1>1. ASSUME NEW p \in Procs, HandlerStep(p) PROVE HandlersHoldIds'
  <2>1. ASSUME ApproveBase(p) PROVE HandlersHoldIds'
    BY <2>1 DEF ApproveBase
  <2>2. ASSUME NEW r \in Reqs, NEW m, ApproveCheck(p, r, m) PROVE HandlersHoldIds'
    BY <2>2 DEF ApproveCheck, Idle
  <2>3. ASSUME NEW r \in Reqs, Revoke(p, r) PROVE HandlersHoldIds'
    BY <2>3 DEF Revoke, Idle
  <2>4. ASSUME proc' = [proc EXCEPT ![p] = Idle] PROVE HandlersHoldIds'
    BY <2>4 DEF Idle
  <2>5. ASSUME NEW t, NEW m, NEW ext, CreateCheck(p, t, m, ext) PROVE HandlersHoldIds'
    BY <2>5 DEF CreateCheck, Idle
  <2>6. ASSUME NEW t, DeleteTarget(p, t) PROVE HandlersHoldIds'
    BY <2>6 DEF DeleteTarget, Idle
  <2> QED BY <1>1, <2>1, <2>2, <2>3, <2>4, <2>5, <2>6
          DEF HandlerStep, CreateInsert, ApproveDecide, GrantRevoked, EndSessions
<1>2. CASE UNCHANGED proc BY <1>2
<1>3. CASE Crash BY <1>3 DEF Crash, Idle
<1> QED BY <1>1, <1>2, <1>3 DEF Next, vars, Deny, SweepStep, SweepRead, SweepFlip, SweepFail,
           SweepSay, Tick, SetPolicy

\* The type invariant: rows, handler locals and the sweep's due set stay what
\* the code's types say they are.
THEOREM Typing == Spec => []TypeOK
<1> DEFINE Inv == TypeOK /\ HandlersHoldIds
<1>1. Init => Inv
  BY TypeInit
<1>2. Inv /\ [Next]_vars => Inv'
  BY TypeNext, IdsNext
<1> QED BY <1>1, <1>2, PTL DEF Spec

-----------------------------------------------------------------------------
(* The inductive invariant, one lemma per action that disturbs it.         *)

\* What IInv says beyond the types.
Parts ==
    /\ SweepReadCovers
    /\ DueIsOver
    /\ SaidIsOver
    /\ ApprovalsKnowTheirRow
    /\ CreatesKnowTheirGrant
    /\ WithdrawalReachesSessions
    /\ NoGrantOnDeletedTarget
    /\ ExtensionsChainGrants

\* The read half of create (handlers.go) keeps the invariant.
LEMMA CreateCheckKeeps ==
    ASSUME IInv, TypeOK', NEW p \in Procs, NEW t \in Targets, NEW m \in Minutes, NEW ext \in Reqs \cup {NoReq}, CreateCheck(p, t, m, ext) PROVE Parts'
<1> USE AccessAssumption DEF IInv, TypeOK, Row, Local, Over, CreateCheck, MayCreate, Open, OpenSet, Active, Idle
<1>1. ApprovalsKnowTheirRow'
  BY DEF ApprovalsKnowTheirRow
<1>2. CreatesKnowTheirGrant'
  BY DEF CreatesKnowTheirGrant, Extends
<1>3. WithdrawalReachesSessions'
  BY DEF WithdrawalReachesSessions, EndingInFlight
<1>4. SweepReadCovers' /\ DueIsOver' /\ SaidIsOver' /\ NoGrantOnDeletedTarget' /\ ExtensionsChainGrants'
  BY DEF SweepReadCovers, DueIsOver, SaidIsOver, NoGrantOnDeletedTarget, ExtensionsChainGrants, Extends
<1> QED BY <1>1, <1>2, <1>3, <1>4 DEF Parts

\* The INSERT of create keeps it: the new row extends only what Open answered.
LEMMA CreateInsertKeeps ==
    ASSUME IInv, TypeOK', NEW p \in Procs, NEW r \in Reqs, CreateInsert(p, r) PROVE Parts'
<1> USE AccessAssumption DEF IInv, TypeOK, Row, Local, Over, CreateInsert, Idle
<1>1. SweepReadCovers'
  BY DEF SweepReadCovers
<1>2. DueIsOver'
  BY DEF DueIsOver
<1>3. SaidIsOver'
  BY DEF SaidIsOver
<1>4. ApprovalsKnowTheirRow'
  BY DEF ApprovalsKnowTheirRow
<1>5. CreatesKnowTheirGrant'
  BY DEF CreatesKnowTheirGrant, Extends
<1>6. WithdrawalReachesSessions'
  BY DEF WithdrawalReachesSessions, EndingInFlight
<1>7. NoGrantOnDeletedTarget'
  BY DEF NoGrantOnDeletedTarget
<1>8. ExtensionsChainGrants'
  BY DEF ExtensionsChainGrants, CreatesKnowTheirGrant, Extends
<1> QED BY <1>1, <1>2, <1>3, <1>4, <1>5, <1>6, <1>7, <1>8 DEF Parts

\* The checks of approve keep it.
LEMMA ApproveCheckKeeps ==
    ASSUME IInv, TypeOK', NEW p \in Procs, NEW r \in Reqs, NEW m \in Minutes, ApproveCheck(p, r, m) PROVE Parts'
<1> USE AccessAssumption DEF IInv, TypeOK, Row, Local, Over, ApproveCheck, Idle
<1>1. ApprovalsKnowTheirRow'
  BY DEF ApprovalsKnowTheirRow
<1>2. CreatesKnowTheirGrant'
  BY DEF CreatesKnowTheirGrant, Extends
<1>3. WithdrawalReachesSessions'
  BY DEF WithdrawalReachesSessions, EndingInFlight
<1>4. SweepReadCovers' /\ DueIsOver' /\ SaidIsOver' /\ NoGrantOnDeletedTarget' /\ ExtensionsChainGrants'
  BY DEF SweepReadCovers, DueIsOver, SaidIsOver, NoGrantOnDeletedTarget, ExtensionsChainGrants, Extends
<1> QED BY <1>1, <1>2, <1>3, <1>4 DEF Parts

\* The read of the extended grant keeps it.
LEMMA ApproveBaseKeeps ==
    ASSUME IInv, TypeOK', NEW p \in Procs, ApproveBase(p) PROVE Parts'
<1> USE AccessAssumption DEF IInv, TypeOK, Row, Local, Over, ApproveBase
<1>1. ApprovalsKnowTheirRow'
  BY DEF ApprovalsKnowTheirRow
<1>2. CreatesKnowTheirGrant'
  BY DEF CreatesKnowTheirGrant, Extends
<1>3. WithdrawalReachesSessions'
  BY DEF WithdrawalReachesSessions, EndingInFlight
<1>4. SweepReadCovers' /\ DueIsOver' /\ SaidIsOver' /\ NoGrantOnDeletedTarget' /\ ExtensionsChainGrants'
  BY DEF SweepReadCovers, DueIsOver, SaidIsOver, NoGrantOnDeletedTarget, ExtensionsChainGrants, Extends
<1> QED BY <1>1, <1>2, <1>3, <1>4 DEF Parts

\* The UPDATE of an approval keeps it: it lands on a pending row only.
LEMMA ApproveDecideKeeps ==
    ASSUME IInv, TypeOK', NEW p \in Procs, ApproveDecide(p) PROVE Parts'
<1> USE AccessAssumption
<1>0. /\ proc[p].id \in Reqs /\ proc[p].exp \in Nat /\ now \in Nat
      /\ sweep.pc = "read" => sweep.cutoff \in Nat
  BY DEF IInv, HandlersHoldIds, ApproveDecide, TypeOK, Local
<1>1. UNCHANGED <<sweep, now, gone, told, said, count>>
  BY DEF ApproveDecide
<1>2. /\ \A q \in Procs : q # p => proc'[q] = proc[q]
      /\ proc[p].op = "decide" /\ proc'[p].op = "idle"
  BY DEF ApproveDecide, IInv, TypeOK, Local, Idle
<1>3. ASSUME NEW r \in Reqs
      PROVE  /\ req[r] \in Row /\ req[r].exp \in Nat /\ req[r].decided \in Nat /\ req[r].born \in Nat
             /\ req'[r].tgt = req[r].tgt /\ req'[r].ext = req[r].ext /\ req'[r].born = req[r].born
             /\ \/ req'[r] = req[r]
                \/ /\ r = proc[p].id /\ req[r].status = "pending"
                   /\ req'[r].status = "approved" /\ req'[r].decided = now
                   /\ req'[r].exp = proc[p].exp
  <2>1. req[r] \in Row
    BY DEF IInv, TypeOK
  <2>2. CASE req[proc[p].id].status = "pending" /\ r = proc[p].id
    <3>1. req'[r] = [req[r] EXCEPT !.status = "approved", !.exp = proc[p].exp, !.decided = now]
      BY <1>0, <2>2 DEF ApproveDecide, Decide, IInv, TypeOK
    <3> QED BY <2>1, <2>2, <3>1 DEF Row
  <2>3. CASE ~(req[proc[p].id].status = "pending" /\ r = proc[p].id)
    <3>1. req'[r] = req[r]
      BY <1>0, <2>3 DEF ApproveDecide, Decide, IInv, TypeOK
    <3> QED BY <2>1, <3>1 DEF Row
  <2> QED BY <2>2, <2>3
<1>4. SweepReadCovers'
  BY <1>0, <1>1, <1>3 DEF IInv, SweepReadCovers
<1>5. DueIsOver' /\ SaidIsOver'
  <2>1. DueIsOver'
    BY <1>1, <1>3 DEF IInv, DueIsOver, Over, TypeOK
  <2>2. SaidIsOver'
    BY <1>1, <1>3 DEF IInv, SaidIsOver, Over
  <2> QED BY <2>1, <2>2
<1>6. ApprovalsKnowTheirRow'
  <2>1. ASSUME NEW q \in Procs, proc'[q].op \in {"base", "decide"}
        PROVE  /\ proc'[q] = proc[q] /\ proc[q].id \in Reqs
               /\ req[proc[q].id].status # "none"
               /\ req[proc[q].id].tgt \in gone => req[proc[q].id].status # "pending"
    BY <1>2, <2>1 DEF IInv, HandlersHoldIds, ApprovalsKnowTheirRow
  <2> QED BY <1>1, <1>3, <2>1 DEF ApprovalsKnowTheirRow
<1>7. CreatesKnowTheirGrant'
  <2>1. ASSUME NEW q, NEW t, NEW n, Extends(q, t, n) PROVE Extends(q, t, n)'
    BY <1>3, <2>1 DEF Extends, Over
  <2>2. ASSUME NEW q \in Procs, proc'[q].op = "create", proc'[q].ext # NoReq
        PROVE  proc'[q] = proc[q] /\ Extends(proc[q].ext, proc[q].tgt, count + 1)
    BY <1>2, <2>2 DEF IInv, CreatesKnowTheirGrant
  <2>3. ASSUME NEW q \in Procs, proc'[q].op = "create", proc'[q].ext # NoReq
        PROVE  Extends(proc[q].ext, proc[q].tgt, count + 1)'
    <3>1. PICK e, t, n : e = proc[q].ext /\ t = proc[q].tgt /\ n = count + 1
      BY Zenon
    <3>2. Extends(e, t, n)'
      BY <2>1, <2>2, <2>3, <3>1
    <3> QED BY <1>1, <2>2, <2>3, <3>1, <3>2
  <2>4. \A r \in Reqs : req'[r].born <= count'
    BY <1>1, <1>3 DEF IInv, CreatesKnowTheirGrant
  <2> QED BY <2>3, <2>4 DEF CreatesKnowTheirGrant
<1>8. WithdrawalReachesSessions'
  <2>1. ASSUME NEW r \in Reqs, EndingInFlight(r) PROVE EndingInFlight(r)'
    BY <1>1, <1>2, <1>3, <2>1 DEF EndingInFlight
  <2> QED BY <1>1, <1>3, <2>1 DEF IInv, WithdrawalReachesSessions, Over
<1>9. NoGrantOnDeletedTarget'
  BY <1>0, <1>1, <1>2, <1>3 DEF IInv, NoGrantOnDeletedTarget, ApprovalsKnowTheirRow
<1>10. ExtensionsChainGrants'
  <2>1. ASSUME NEW q, NEW t, NEW n, Extends(q, t, n) PROVE Extends(q, t, n)'
    BY <1>3, <2>1 DEF Extends, Over
  <2> QED BY <1>3, <2>1 DEF IInv, ExtensionsChainGrants, Extends, Over
<1> QED BY <1>4, <1>5, <1>6, <1>7, <1>8, <1>9, <1>10 DEF Parts

\* A denial keeps it.
LEMMA DenyKeeps ==
    ASSUME IInv, TypeOK', NEW r \in Reqs, Deny(r) PROVE Parts'
<1> USE AccessAssumption DEF IInv, TypeOK, Row, Local, Over, Deny, Decide
<1>1. SweepReadCovers'
  BY DEF SweepReadCovers
<1>2. DueIsOver'
  BY DEF DueIsOver
<1>3. SaidIsOver'
  BY DEF SaidIsOver
<1>4. ApprovalsKnowTheirRow'
  BY DEF ApprovalsKnowTheirRow, HandlersHoldIds
<1>5. CreatesKnowTheirGrant'
  BY DEF CreatesKnowTheirGrant, Extends
<1>6. WithdrawalReachesSessions'
  BY DEF WithdrawalReachesSessions, EndingInFlight
<1>7. NoGrantOnDeletedTarget'
  BY DEF NoGrantOnDeletedTarget
<1>8. ExtensionsChainGrants'
  BY DEF ExtensionsChainGrants, Extends
<1> QED BY <1>1, <1>2, <1>3, <1>4, <1>5, <1>6, <1>7, <1>8 DEF Parts

\* A revocation keeps it: the handler goes on to tell the Revoker.
LEMMA RevokeKeeps ==
    ASSUME IInv, TypeOK', NEW p \in Procs, NEW r \in Reqs, Revoke(p, r) PROVE Parts'
<1> USE AccessAssumption DEF IInv, TypeOK, Row, Local, Over, Revoke, Idle
<1>1. SweepReadCovers'
  BY DEF SweepReadCovers
<1>2. DueIsOver'
  BY DEF DueIsOver
<1>3. SaidIsOver'
  BY DEF SaidIsOver
<1>4. ApprovalsKnowTheirRow'
  BY DEF ApprovalsKnowTheirRow
<1>5. CreatesKnowTheirGrant'
  BY DEF CreatesKnowTheirGrant, Extends
<1>6. WithdrawalReachesSessions'
  BY SMTT(30) DEF WithdrawalReachesSessions, EndingInFlight
<1>7. NoGrantOnDeletedTarget'
  BY DEF NoGrantOnDeletedTarget
<1>8. ExtensionsChainGrants'
  BY DEF ExtensionsChainGrants, Extends
<1> QED BY <1>1, <1>2, <1>3, <1>4, <1>5, <1>6, <1>7, <1>8 DEF Parts

\* Telling the Revoker of a revocation keeps it.
LEMMA GrantRevokedKeeps ==
    ASSUME IInv, TypeOK', NEW p \in Procs, GrantRevoked(p) PROVE Parts'
<1> USE AccessAssumption DEF IInv, TypeOK, Row, Local, Over, GrantRevoked, Idle
<1>1. ApprovalsKnowTheirRow'
  BY DEF ApprovalsKnowTheirRow
<1>2. CreatesKnowTheirGrant'
  BY DEF CreatesKnowTheirGrant, Extends
<1>3. WithdrawalReachesSessions'
  BY DEF WithdrawalReachesSessions, EndingInFlight
<1>4. SweepReadCovers' /\ DueIsOver' /\ SaidIsOver' /\ NoGrantOnDeletedTarget' /\ ExtensionsChainGrants'
  BY DEF SweepReadCovers, DueIsOver, SaidIsOver, NoGrantOnDeletedTarget, ExtensionsChainGrants, Extends
<1> QED BY <1>1, <1>2, <1>3, <1>4 DEF Parts

\* The transaction that deletes a target keeps it: no grant of the target stays.
LEMMA DeleteTargetKeeps ==
    ASSUME IInv, TypeOK', NEW p \in Procs, NEW t \in Targets, DeleteTarget(p, t) PROVE Parts'
<1> USE AccessAssumption DEF IInv, TypeOK, Row, Local, Over, DeleteTarget, Closed, Idle
<1>1. SweepReadCovers'
  BY DEF SweepReadCovers
<1>2. DueIsOver'
  BY DEF DueIsOver
<1>3. SaidIsOver'
  BY DEF SaidIsOver
<1>4. ApprovalsKnowTheirRow'
  BY DEF ApprovalsKnowTheirRow, HandlersHoldIds
<1>5. CreatesKnowTheirGrant'
  BY DEF CreatesKnowTheirGrant, Extends
<1>6. WithdrawalReachesSessions'
  BY DEF WithdrawalReachesSessions, EndingInFlight
<1>7. NoGrantOnDeletedTarget'
  BY DEF NoGrantOnDeletedTarget
<1>8. ExtensionsChainGrants'
  BY DEF ExtensionsChainGrants, Extends
<1> QED BY <1>1, <1>2, <1>3, <1>4, <1>5, <1>6, <1>7, <1>8 DEF Parts

\* Ending a deleted target's sessions keeps it.
LEMMA EndSessionsKeeps ==
    ASSUME IInv, TypeOK', NEW p \in Procs, EndSessions(p) PROVE Parts'
<1> USE AccessAssumption DEF IInv, TypeOK, Row, Local, Over, EndSessions, Idle
<1>1. ApprovalsKnowTheirRow'
  BY DEF ApprovalsKnowTheirRow
<1>2. CreatesKnowTheirGrant'
  BY DEF CreatesKnowTheirGrant, Extends
<1>3. WithdrawalReachesSessions'
  BY DEF WithdrawalReachesSessions, EndingInFlight
<1>4. SweepReadCovers' /\ DueIsOver' /\ SaidIsOver' /\ NoGrantOnDeletedTarget' /\ ExtensionsChainGrants'
  BY DEF SweepReadCovers, DueIsOver, SaidIsOver, NoGrantOnDeletedTarget, ExtensionsChainGrants, Extends
<1> QED BY <1>1, <1>2, <1>3, <1>4 DEF Parts

\* The sweep's read keeps it: the set read is what is due at the cutoff.
LEMMA SweepReadKeeps ==
    ASSUME IInv, TypeOK', SweepRead PROVE Parts'
<1> USE AccessAssumption DEF IInv, TypeOK, Row, Local, Over, SweepRead, DueAt
<1>1. SweepReadCovers'
  BY DEF SweepReadCovers
<1>2. DueIsOver'
  BY DEF DueIsOver
<1>3. SaidIsOver'
  BY DEF SaidIsOver
<1>4. WithdrawalReachesSessions'
  BY DEF WithdrawalReachesSessions, EndingInFlight
<1>5. ApprovalsKnowTheirRow' /\ CreatesKnowTheirGrant' /\ NoGrantOnDeletedTarget' /\ ExtensionsChainGrants'
  BY DEF ApprovalsKnowTheirRow, CreatesKnowTheirGrant, NoGrantOnDeletedTarget, ExtensionsChainGrants, Extends
<1> QED BY <1>1, <1>2, <1>3, <1>4, <1>5 DEF Parts

\* The UPDATE under the same cutoff keeps it: what it flips was read.
LEMMA SweepFlipKeeps ==
    ASSUME IInv, TypeOK', SweepFlip PROVE Parts'
<1> USE AccessAssumption DEF IInv, TypeOK, Row, Local, Over, SweepFlip, DueAt
<1>1. SweepReadCovers'
  BY DEF SweepReadCovers
<1>2. DueIsOver'
  BY DEF DueIsOver
<1>3. SaidIsOver'
  BY DEF SaidIsOver
<1>4. ApprovalsKnowTheirRow'
  BY DEF ApprovalsKnowTheirRow, HandlersHoldIds
<1>5. CreatesKnowTheirGrant'
  BY DEF CreatesKnowTheirGrant, Extends
<1>6. WithdrawalReachesSessions'
  BY DEF WithdrawalReachesSessions, EndingInFlight, SweepReadCovers
<1>7. NoGrantOnDeletedTarget'
  BY DEF NoGrantOnDeletedTarget
<1>8. ExtensionsChainGrants'
  BY DEF ExtensionsChainGrants, Extends
<1> QED BY <1>1, <1>2, <1>3, <1>4, <1>5, <1>6, <1>7, <1>8 DEF Parts

\* A pass abandoned at its UPDATE keeps it.
LEMMA SweepFailKeeps ==
    ASSUME IInv, TypeOK', SweepFail PROVE Parts'
<1> USE AccessAssumption DEF IInv, TypeOK, Row, Local, Over, SweepFail, SweepIdle
<1>1. SweepReadCovers'
  BY DEF SweepReadCovers
<1>2. DueIsOver'
  BY DEF DueIsOver
<1>3. SaidIsOver'
  BY DEF SaidIsOver
<1>4. WithdrawalReachesSessions'
  BY DEF WithdrawalReachesSessions, EndingInFlight
<1>5. ApprovalsKnowTheirRow' /\ CreatesKnowTheirGrant' /\ NoGrantOnDeletedTarget' /\ ExtensionsChainGrants'
  BY DEF ApprovalsKnowTheirRow, CreatesKnowTheirGrant, NoGrantOnDeletedTarget, ExtensionsChainGrants, Extends
<1> QED BY <1>1, <1>2, <1>3, <1>4, <1>5 DEF Parts

\* Saying one expiry keeps it.
LEMMA SweepSayKeeps ==
    ASSUME IInv, TypeOK', NEW r \in Reqs, SweepSay(r) PROVE Parts'
<1> USE AccessAssumption DEF IInv, TypeOK, Row, Local, Over, SweepSay, SweepIdle
<1>1. SweepReadCovers'
  BY DEF SweepReadCovers
<1>2. DueIsOver'
  BY DEF DueIsOver
<1>3. SaidIsOver'
  <2>a. req[r].status \in Over
    BY DEF DueIsOver
  <2>b. said[r] \in Nat
    OBVIOUS
  <2>c. r \in sweep.due
    OBVIOUS
  <2>d. SaidIsOver
    OBVIOUS
  <2>e. said[r] = 0
    <3> HIDE DEF IInv, TypeOK, SweepSay
    <3> QED BY <2>b, <2>c, <2>d DEF SaidIsOver
  <2>1. req[r].status \in Over /\ said[r] = 0
    BY <2>a, <2>e
  <2>2. \A q \in Reqs : said'[q] = IF q = r THEN 1 ELSE said[q]
    BY <2>1
  <2>3. sweep'.due \subseteq sweep.due \ {r}
    OBVIOUS
  <2> HIDE DEF SweepSay
  <2>4. req' = req
    BY DEF SweepSay
  <2> QED BY <2>1, <2>2, <2>3, <2>4 DEF SaidIsOver
<1>4. WithdrawalReachesSessions'
  BY DEF WithdrawalReachesSessions, EndingInFlight
<1>5. ApprovalsKnowTheirRow' /\ CreatesKnowTheirGrant' /\ NoGrantOnDeletedTarget' /\ ExtensionsChainGrants'
  BY DEF ApprovalsKnowTheirRow, CreatesKnowTheirGrant, NoGrantOnDeletedTarget, ExtensionsChainGrants, Extends
<1> QED BY <1>1, <1>2, <1>3, <1>4, <1>5 DEF Parts

\* Time passing keeps it.
LEMMA TickKeeps ==
    ASSUME IInv, TypeOK', Tick PROVE Parts'
<1> USE AccessAssumption DEF IInv, TypeOK, Row, Local, Over, Tick
<1>1. SweepReadCovers'
  BY DEF SweepReadCovers
<1>2. DueIsOver' /\ SaidIsOver' /\ ApprovalsKnowTheirRow' /\ CreatesKnowTheirGrant' /\ WithdrawalReachesSessions' /\ NoGrantOnDeletedTarget' /\ ExtensionsChainGrants'
  BY DEF DueIsOver, SaidIsOver, ApprovalsKnowTheirRow, CreatesKnowTheirGrant, WithdrawalReachesSessions, NoGrantOnDeletedTarget, ExtensionsChainGrants, Extends, EndingInFlight, Extends
<1> QED BY <1>1, <1>2 DEF Parts

\* A crash keeps it: it ends every live session, so nobody is left to tell.
LEMMA CrashKeeps ==
    ASSUME IInv, TypeOK', Crash PROVE Parts'
<1> USE AccessAssumption DEF IInv, TypeOK, Row, Local, Over, Crash, Idle, SweepIdle
<1>1. SweepReadCovers'
  BY DEF SweepReadCovers
<1>2. DueIsOver'
  BY DEF DueIsOver
<1>3. SaidIsOver'
  BY DEF SaidIsOver
<1>4. ApprovalsKnowTheirRow'
  BY DEF ApprovalsKnowTheirRow
<1>5. CreatesKnowTheirGrant'
  BY DEF CreatesKnowTheirGrant, Extends
<1>6. WithdrawalReachesSessions'
  BY DEF WithdrawalReachesSessions, EndingInFlight
<1>7. NoGrantOnDeletedTarget' /\ ExtensionsChainGrants'
  BY DEF NoGrantOnDeletedTarget, ExtensionsChainGrants, Extends
<1> QED BY <1>1, <1>2, <1>3, <1>4, <1>5, <1>6, <1>7 DEF Parts

\* No step of a handler, of the sweep, of the clock or of a crash breaks IInv.
LEMMA IInvNext == IInv /\ [Next]_vars => IInv'
<1> SUFFICES ASSUME IInv, [Next]_vars PROVE IInv'
  OBVIOUS
<1>1. TypeOK' /\ HandlersHoldIds'
  BY TypeNext, IdsNext DEF IInv
<1> SUFFICES Parts'
  BY <1>1 DEF IInv, Parts
<1>2. ASSUME NEW p \in Procs, HandlerStep(p) PROVE Parts'
  BY <1>1, <1>2, CreateCheckKeeps, CreateInsertKeeps, ApproveCheckKeeps, ApproveBaseKeeps,
     ApproveDecideKeeps, RevokeKeeps, GrantRevokedKeeps, DeleteTargetKeeps, EndSessionsKeeps
     DEF HandlerStep
<1>3. ASSUME NEW r \in Reqs, Deny(r) PROVE Parts'
  BY <1>1, <1>3, DenyKeeps
<1>4. CASE SweepStep
  BY <1>1, <1>4, SweepReadKeeps, SweepFlipKeeps, SweepFailKeeps, SweepSayKeeps DEF SweepStep
<1>5. CASE Tick
  BY <1>1, <1>5, TickKeeps
<1>6. CASE Crash
  BY <1>1, <1>6, CrashKeeps
<1>7. CASE UNCHANGED <<req, proc, sweep, now, gone, told, said, count>>
  BY <1>7 DEF IInv, Parts, SweepReadCovers, DueIsOver, SaidIsOver, ApprovalsKnowTheirRow,
     CreatesKnowTheirGrant, WithdrawalReachesSessions, NoGrantOnDeletedTarget,
     ExtensionsChainGrants, EndingInFlight, Extends
<1> QED BY <1>2, <1>3, <1>4, <1>5, <1>6, <1>7 DEF Next, vars, SetPolicy

\* The inductive invariant holds at first.
LEMMA IInvInit == Init => IInv
<1> SUFFICES ASSUME Init PROVE IInv
  OBVIOUS
<1>1. TypeOK /\ HandlersHoldIds
  BY TypeInit
<1>2. \A r \in Reqs : req[r] = NoRow /\ said[r] = 0
  BY DEF Init
<1>3. \A p \in Procs : proc[p].op = "idle"
  BY DEF Init, Idle
<1>4. sweep.pc = "idle" /\ sweep.due = {} /\ count = 0 /\ gone = {}
  BY DEF Init, SweepIdle
<1>5. NoRow.status = "none" /\ NoRow.born = 0
  BY DEF NoRow
<1> QED BY <1>1, <1>2, <1>3, <1>4, <1>5 DEF IInv, SweepReadCovers, DueIsOver, SaidIsOver,
    ApprovalsKnowTheirRow, CreatesKnowTheirGrant, WithdrawalReachesSessions,
    NoGrantOnDeletedTarget, ExtensionsChainGrants, Over

\* The inductive invariant holds throughout.
LEMMA Inductive == Spec => []IInv
  BY IInvInit, IInvNext, PTL DEF Spec

-----------------------------------------------------------------------------
(* What follows from it.                                                   *)

\* Every grant that admitted anyone and is over has been or is about to be
\* reported to the Revoker, for any number of requests, handlers and restarts.
THEOREM Withdrawal == Spec => []WithdrawalReachesSessions
<1>1. IInv => WithdrawalReachesSessions
  BY DEF IInv
<1> QED BY <1>1, Inductive, PTL

\* A deleted target keeps no approved grant, whatever was in flight at its deletion.
THEOREM DeletedTargets == Spec => []NoGrantOnDeletedTarget
<1>1. IInv => NoGrantOnDeletedTarget
  BY DEF IInv
<1> QED BY <1>1, Inductive, PTL

\* Every extension names an older grant, approved for the same target.
THEOREM Extensions == Spec => []ExtensionsChainGrants
<1>1. IInv => ExtensionsChainGrants
  BY DEF IInv
<1> QED BY <1>1, Inductive, PTL

\* The sweep records the expiry of a grant at most once.
THEOREM ExpiryOnce == Spec => []ExpirySaidOnce
<1>1. IInv => ExpirySaidOnce
  BY DEF IInv, SaidIsOver, ExpirySaidOnce
<1> QED BY <1>1, Inductive, PTL

\* A decided request keeps its decision; what is over stays over.
THEOREM Decisions == Spec => DecisionsFinal
<1> DEFINE A == \A r \in Reqs : req'[r].status \in Successors(req[r].status)
<1>1. IInv /\ [Next]_vars => [A]_vars
  <2> SUFFICES ASSUME IInv, Next PROVE A
    OBVIOUS
  <2> USE DEF IInv, TypeOK, Successors
  <2>1. ASSUME NEW r \in Reqs, NEW s \in {"approved", "denied"}, NEW e, Decide(r, s, e) PROVE A
    BY <2>1 DEF Decide, Row
  <2>2. ASSUME NEW p \in Procs, HandlerStep(p) PROVE A
    <3>1. ASSUME NEW r \in Reqs, CreateInsert(p, r) PROVE A
      BY <3>1 DEF CreateInsert, Row
    <3>2. ASSUME ApproveDecide(p) PROVE A
      <4>1. proc[p].id \in Reqs
        BY <3>2 DEF ApproveDecide, HandlersHoldIds
      <4> QED BY <3>2, <4>1, <2>1 DEF ApproveDecide
    <3>3. ASSUME NEW r \in Reqs, Revoke(p, r) PROVE A
      BY <3>3 DEF Revoke, Row
    <3>4. ASSUME NEW t \in Targets, DeleteTarget(p, t) PROVE A
      BY <3>4 DEF DeleteTarget, Closed, Row
    <3>5. CASE UNCHANGED req
      BY <3>5 DEF Row, Status
    <3> QED BY <2>2, <3>1, <3>2, <3>3, <3>4, <3>5 DEF HandlerStep, CreateCheck, ApproveCheck,
            ApproveBase, GrantRevoked, EndSessions
  <2>3. ASSUME NEW r \in Reqs, Deny(r) PROVE A
    BY <2>3, <2>1 DEF Deny
  <2>4. CASE SweepFlip
    BY <2>4 DEF SweepFlip, DueAt, Row
  <2>5. CASE UNCHANGED req
    BY <2>5 DEF Row, Status
  <2> QED BY <2>2, <2>3, <2>4, <2>5 DEF Next, SweepStep, SweepRead, SweepFail, SweepSay, Tick,
          SetPolicy, Crash
<1> QED BY <1>1, Inductive, PTL DEF Spec, DecisionsFinal

\* Access to a target begins only in the step in which an approval lands.
THEOREM OnlyApprovals == Spec => AccessOnlyByApproval
<1> DEFINE A == \A r \in Reqs : req'[r].status = "approved" =>
                  req'[r] = req[r] \/ (req[r].status = "pending" /\ req'[r].tgt = req[r].tgt)
           B == \A t \in Targets : ~HasActiveGrant(t) /\ HasActiveGrant(t)' =>
                  \E r \in Reqs : req[r].tgt = t /\ req[r].status = "pending"
                                  /\ req'[r].status = "approved"
<1>1. ASSUME IInv, Next PROVE A
  <2> USE <1>1 DEF IInv, TypeOK, Row
  <2>1. ASSUME NEW r \in Reqs, NEW s, NEW e, Decide(r, s, e) PROVE A
    BY <2>1 DEF Decide
  <2>2. ASSUME NEW p \in Procs, HandlerStep(p) PROVE A
    <3>1. ASSUME NEW r \in Reqs, CreateInsert(p, r) PROVE A
      BY <3>1 DEF CreateInsert
    <3>2. ASSUME ApproveDecide(p) PROVE A
      <4>1. proc[p].id \in Reqs
        BY <3>2 DEF ApproveDecide, HandlersHoldIds
      <4> QED BY <3>2, <4>1, <2>1 DEF ApproveDecide
    <3>3. ASSUME NEW r \in Reqs, Revoke(p, r) PROVE A
      BY <3>3 DEF Revoke
    <3>4. ASSUME NEW t \in Targets, DeleteTarget(p, t) PROVE A
      BY <3>4 DEF DeleteTarget
    <3> QED BY <2>2, <3>1, <3>2, <3>3, <3>4 DEF HandlerStep, CreateCheck, ApproveCheck,
            ApproveBase, GrantRevoked, EndSessions
  <2>3. ASSUME NEW r \in Reqs, Deny(r) PROVE A
    BY <2>3, <2>1 DEF Deny
  <2>4. CASE SweepFlip
    BY <2>4 DEF SweepFlip
  <2> QED BY <2>2, <2>3, <2>4 DEF Next, SweepStep, SweepRead, SweepFail, SweepSay, Tick,
          SetPolicy, Crash
<1>2. ASSUME IInv, Next PROVE now <= now'
  <2>1. CASE Tick
    BY <1>2, <2>1 DEF Tick, IInv, TypeOK
  <2>2. CASE now' = now
    BY <1>2, <2>2 DEF IInv, TypeOK
  <2> QED BY <1>2, <2>1, <2>2 DEF Next, HandlerStep, CreateCheck, CreateInsert, ApproveCheck,
     ApproveBase, ApproveDecide, Revoke, GrantRevoked, DeleteTarget, EndSessions, Deny, SweepStep,
     SweepRead, SweepFlip, SweepFail, SweepSay, SetPolicy, Crash
<1>3. ASSUME IInv, IInv', Next PROVE B
  <2> SUFFICES ASSUME NEW t \in Targets, ~HasActiveGrant(t), HasActiveGrant(t)'
               PROVE  \E r \in Reqs : req[r].tgt = t /\ req[r].status = "pending"
                                       /\ req'[r].status = "approved"
    OBVIOUS
  <2>1. PICK r \in Reqs : req'[r].tgt = t /\ req'[r].status = "approved" /\ now' < req'[r].exp
    BY DEF HasActiveGrant, Active
  <2>2. req'[r].exp \in Nat /\ now \in Nat /\ now' \in Nat
    BY <1>3 DEF IInv, TypeOK, Row
  <2>3. req'[r] # req[r]
    BY <1>2, <1>3, <2>1, <2>2 DEF HasActiveGrant, Active
  <2> QED BY <1>1, <1>3, <2>1, <2>3
<1>4. UNCHANGED vars => [B]_vars
  OBVIOUS
<1>5. IInv /\ IInv' /\ [Next]_vars => [B]_vars
  BY <1>3, <1>4
<1> QED BY <1>5, Inductive, PTL DEF Spec, AccessOnlyByApproval

\* The end of a grant is carried through (afterEnd, Sweep): its sessions are ended
\* and its expiry recorded once.
THEOREM GrantsEnd == Spec => []EndsCarriedThrough
<1> QED BY Withdrawal, ExpiryOnce, PTL DEF EndsCarriedThrough

\* What administrators decided holds (Decide, HasActiveGrant).
THEOREM DecisionsStand == Spec => DecisionsHold
<1> QED BY Decisions, OnlyApprovals DEF DecisionsHold
=============================================================================
