---------------------------- MODULE SessionProofs ---------------------------
(***************************************************************************)
(* Proofs about Session, for any sets of sessions and API requests and any *)
(* number of crashes, failed writes and calls: its type invariant, that a  *)
(* row ends once, that nothing runs unrecorded, that a run that is gone    *)
(* leaves nothing behind and that a withdrawal of access reaches every     *)
(* session it could see.                                                   *)
(***************************************************************************)
EXTENDS Session, TLAPS

\* The inductive invariant holds when the gateway first starts.
LEMMA InitIInv == Init => IInv
  BY SessionAssumption DEF Init, IInv, TypeOK, Phase, Cause, Reason, ApiStep, SweepStep, Idle,
       SweepIdle, SweepKnowsItsRow, NoRowBeforeSetup, BridgesAreRecorded,
       NoUnrecordedSession, RegisteredRun, StartingRun, WithdrawalGoesOn

\* Every step keeps the types; the sweep's step needs to know that it has a row
\* in hand.
LEMMA TypeNext == TypeOK /\ SweepKnowsItsRow /\ [Next]_vars => TypeOK'
<1> SUFFICES ASSUME TypeOK, SweepKnowsItsRow, [Next]_vars PROVE TypeOK'
  OBVIOUS
<1> USE SessionAssumption DEF TypeOK, Phase, Cause, Reason, ApiStep, SweepStep, memory, store, bounds
<1>1. ASSUME NEW s \in Sessions, Connect(s) PROVE TypeOK'
  BY <1>1 DEF Connect, Up
<1>2. ASSUME NEW s \in Sessions, Redeem(s) PROVE TypeOK'
  BY <1>2 DEF Redeem
<1>3. ASSUME NEW s \in Sessions, TicketWasted(s) PROVE TypeOK'
  BY <1>3 DEF TicketWasted
<1>4. ASSUME NEW s \in Sessions, StartRun(s) PROVE TypeOK'
  BY <1>4 DEF StartRun, IsOpen, Stranded
<1>5. ASSUME NEW s \in Sessions, StartRunFault(s) PROVE TypeOK'
  BY <1>5 DEF StartRunFault, Fault
<1>6. ASSUME NEW s \in Sessions, SetupFails(s) PROVE TypeOK'
  BY <1>6 DEF SetupFails
<1>7. ASSUME NEW s \in Sessions, Record(s) PROVE TypeOK'
  BY <1>7 DEF Record
<1>8. ASSUME NEW s \in Sessions, FlagsFail(s) PROVE TypeOK'
  BY <1>8 DEF FlagsFail
<1>9. ASSUME NEW s \in Sessions, Add(s) PROVE TypeOK'
  BY <1>9 DEF Add
<1>10. ASSUME NEW s \in Sessions, Unmark(s) PROVE TypeOK'
  BY <1>10 DEF Unmark
<1>11. ASSUME NEW s \in Sessions, BridgeEnds(s) PROVE TypeOK'
  BY <1>11 DEF BridgeEnds
<1>12. ASSUME NEW s \in Sessions, BridgeCancelled(s) PROVE TypeOK'
  BY <1>12 DEF BridgeCancelled
<1>13. ASSUME NEW s \in Sessions, FinishRecording(s) PROVE TypeOK'
  BY <1>13 DEF FinishRecording, Fault
<1>14. ASSUME NEW s \in Sessions, DiscardIfBlank(s) PROVE TypeOK'
  BY <1>14 DEF DiscardIfBlank
<1>15. ASSUME NEW s \in Sessions, EndRun(s) PROVE TypeOK'
  BY <1>15 DEF EndRun, EndRow, IsOpen, Fault
<1>16. ASSUME NEW s \in Sessions, SayEnd(s) PROVE TypeOK'
  BY <1>16 DEF SayEnd
<1>17. ASSUME NEW s \in Sessions, Leave(s) PROVE TypeOK'
  BY <1>17 DEF Leave
<1>18. ASSUME NEW s \in Sessions, Age(s) PROVE TypeOK'
  BY <1>18 DEF Age
<1>19. ASSUME NEW p \in Procs, NEW s \in Sessions, TerminateRead(p, s) PROVE TypeOK'
  BY <1>19 DEF TerminateRead, Call, Goto
<1>20. ASSUME NEW p \in Procs, NEW s \in Sessions, Terminate(p, s) PROVE TypeOK'
  BY <1>20 DEF Terminate, Cancel, Goto
<1>21. ASSUME NEW p \in Procs, NEW s \in Sessions, TerminateRow(p, s) PROVE TypeOK'
  BY <1>21 DEF TerminateRow, EndRow, IsOpen, Stranded, Goto
<1>22. ASSUME NEW p \in Procs, NEW s \in Sessions, RecheckCut(p, s) PROVE TypeOK'
  BY <1>22 DEF RecheckCut, Cancel, Goto
<1>23. ASSUME NEW p \in Procs, NEW s \in Sessions, FailoverRead(p, s) PROVE TypeOK'
  BY <1>23 DEF FailoverRead, Call, Goto
<1>24. ASSUME NEW p \in Procs, NEW s \in Sessions, FailoverEnd(p, s) PROVE TypeOK'
  BY <1>24 DEF FailoverEnd, EndRow, IsOpen, Stranded, Fault, Goto
<1>25. ASSUME NEW p \in Procs, NEW s \in Sessions, FailoverCut(p, s) PROVE TypeOK'
  BY <1>25 DEF FailoverCut, Cancel, Goto
<1>26. ASSUME NEW p \in Procs, NEW s \in Sessions, NEW n \in Sessions,
              FailoverIssue(p, s, n) PROVE TypeOK'
  <2>1. run' \in [Sessions -> Phase] /\ from' \in [Sessions -> Sessions \cup {None}]
    <3>1. CASE allowed
      BY <1>26, <3>1 DEF FailoverIssue
    <3>2. CASE ~allowed
      BY <1>26, <3>2 DEF FailoverIssue
    <3> QED BY <3>1, <3>2
  <2>2. api' \in [Procs -> [pc : ApiStep, ids : SUBSET Sessions]]
    BY <1>26 DEF FailoverIssue, Goto
  <2> QED BY <1>26, <2>1, <2>2 DEF FailoverIssue
<1>27. ASSUME NEW p \in Procs, Withdraw(p) PROVE TypeOK'
  <2>1. allowed' \in BOOLEAN
    BY <1>27, Zenon DEF Withdraw
  <2>2. calls' \in Nat /\ api' \in [Procs -> [pc : ApiStep, ids : SUBSET Sessions]]
    BY <1>27 DEF Withdraw, Call, Goto
  <2> QED BY <1>27, <2>1, <2>2 DEF Withdraw
<1>28. ASSUME NEW p \in Procs, RecheckList(p) PROVE TypeOK'
  BY <1>28 DEF RecheckList, Goto
<1>29. ASSUME NEW p \in Procs, RecheckGate(p) PROVE TypeOK'
  BY <1>29 DEF RecheckGate, Fault, Goto
<1>30. ASSUME NEW p \in Procs, FailoverRefused(p) PROVE TypeOK'
  BY <1>30 DEF FailoverRefused, Goto
<1>31. CASE Restore
  BY <1>31 DEF Restore, Up
<1>32. ASSUME NEW s \in Sessions, SweepGet(s) PROVE TypeOK'
  BY <1>32 DEF SweepGet
<1>33. ASSUME NEW s \in Sessions, SweepSay(s) PROVE TypeOK'
  BY <1>33 DEF SweepSay, Fault, SweepIdle
<1>34. CASE SweepOpen
  BY <1>34 DEF SweepOpen, SweepIdle
<1>35. CASE SweepAsk
  BY <1>35 DEF SweepAsk
<1>36. CASE SweepEnd
  <2>1. row' \in [Sessions -> {"none", "open", "aged"} \cup Reason] /\ faults' \in Nat
    BY <1>36 DEF SweepEnd, EndRow, IsOpen, Fault
  <2>2. sweep.cur \in Sessions
    BY <1>36 DEF SweepEnd, SweepKnowsItsRow
  <2>3. sweep' \in [pc : SweepStep, todo : SUBSET Sessions, cur : Sessions \cup {None},
                   ended : SUBSET Sessions, why : {"swept", "restart"}]
    <3>1. CASE sweep' = [sweep EXCEPT !.pc = "each", !.todo = @ \ {sweep.cur}, !.cur = None,
                           !.ended = IF IsOpen(sweep.cur) THEN @ \cup {sweep.cur} ELSE @]
      BY <2>2, <3>1, ZenonT(40)
    <3>2. CASE sweep' = [sweep EXCEPT !.pc = "each", !.todo = {}, !.cur = None]
      BY <3>2
    <3> QED BY <1>36, <3>1, <3>2 DEF SweepEnd
  <2> QED BY <1>36, <2>1, <2>3 DEF SweepEnd
<1>37. CASE SweepClosed
  BY <1>37 DEF SweepClosed, SweepIdle
<1>38. CASE Crash
  <2>1. run' \in [Sessions -> Phase] /\ cause' \in [Sessions -> Cause]
    BY <1>38 DEF Crash
  <2>2. api' \in [Procs -> [pc : ApiStep, ids : SUBSET Sessions]]
    BY <1>38 DEF Crash, Idle
  <2>3. sweep' \in [pc : SweepStep, todo : SUBSET Sessions, cur : Sessions \cup {None},
                   ended : SUBSET Sessions, why : {"swept", "restart"}]
    BY <1>38 DEF Crash, SweepIdle
  <2>4. stranded' \in SUBSET Sessions /\ crashes' \in Nat
    BY <1>38 DEF Crash
  <2> QED BY <1>38, <2>1, <2>2, <2>3, <2>4 DEF Crash
<1>39. CASE UNCHANGED vars
  BY <1>39 DEF vars, memory, store, bounds
<1> QED BY <1>1, <1>2, <1>3, <1>4, <1>5, <1>6, <1>7, <1>8, <1>9, <1>10, <1>11,
           <1>12, <1>13, <1>14, <1>15, <1>16, <1>17, <1>18, <1>19, <1>20, <1>21,
           <1>22, <1>23, <1>24, <1>25, <1>26, <1>27, <1>28, <1>29, <1>30, <1>31,
           <1>32, <1>33, <1>34, <1>35, <1>36, <1>37, <1>38, <1>39
        DEF Next, RunStep, ApiNext, SweepNext

\* Every step keeps the inductive invariant.
LEMMA NextIInv == IInv /\ [Next]_vars => IInv'
<1> SUFFICES ASSUME IInv, [Next]_vars PROVE IInv'
  OBVIOUS
<1> USE DEF IInv, SweepKnowsItsRow, NoRowBeforeSetup, BridgesAreRecorded, NoUnrecordedSession,
            RegisteredRun, StartingRun, WithdrawalGoesOn, Listing, Reaching, memory, store, bounds
<1>0. /\ TypeOK'
      /\ run \in [Sessions -> Phase]
      /\ row \in [Sessions -> {"none", "open", "aged"} \cup Reason]
      /\ rec \in [Sessions -> {"none", "open", "finished", "discarded"}]
      /\ cause \in [Sessions -> Cause]
      /\ api \in [Procs -> [pc : ApiStep, ids : SUBSET Sessions]]
      /\ sweep \in [pc : SweepStep, todo : SUBSET Sessions, cur : Sessions \cup {None},
                    ended : SUBSET Sessions, why : {"swept", "restart"}]
      /\ registry \subseteq Sessions /\ starting \subseteq Sessions
  BY TypeNext DEF TypeOK
<1>1. ASSUME NEW s \in Sessions, Connect(s) PROVE IInv'
  BY <1>0, <1>1 DEF Connect, Up
<1>2. ASSUME NEW s \in Sessions, Redeem(s) PROVE IInv'
  BY <1>0, <1>2 DEF Redeem
<1>3. ASSUME NEW s \in Sessions, TicketWasted(s) PROVE IInv'
  BY <1>0, <1>3 DEF TicketWasted
<1>4. ASSUME NEW s \in Sessions, StartRun(s) PROVE IInv'
  BY <1>0, <1>4 DEF StartRun, IsOpen
<1>5. ASSUME NEW s \in Sessions, StartRunFault(s) PROVE IInv'
  BY <1>0, <1>5 DEF StartRunFault, Fault
<1>6. ASSUME NEW s \in Sessions, SetupFails(s) PROVE IInv'
  BY <1>0, <1>6 DEF SetupFails
<1>7. ASSUME NEW s \in Sessions, Record(s) PROVE IInv'
  BY <1>0, <1>7 DEF Record
<1>8. ASSUME NEW s \in Sessions, FlagsFail(s) PROVE IInv'
  BY <1>0, <1>8 DEF FlagsFail
<1>9. ASSUME NEW s \in Sessions, Add(s) PROVE IInv'
  BY <1>0, <1>9 DEF Add
<1>10. ASSUME NEW s \in Sessions, Unmark(s) PROVE IInv'
  BY <1>0, <1>10 DEF Unmark
<1>11. ASSUME NEW s \in Sessions, BridgeEnds(s) PROVE IInv'
  BY <1>0, <1>11 DEF BridgeEnds
<1>12. ASSUME NEW s \in Sessions, BridgeCancelled(s) PROVE IInv'
  BY <1>0, <1>12 DEF BridgeCancelled
<1>13. ASSUME NEW s \in Sessions, FinishRecording(s) PROVE IInv'
  BY <1>0, <1>13 DEF FinishRecording, Fault
<1>14. ASSUME NEW s \in Sessions, DiscardIfBlank(s) PROVE IInv'
  BY <1>0, <1>14 DEF DiscardIfBlank
<1>15. ASSUME NEW s \in Sessions, EndRun(s) PROVE IInv'
  BY <1>0, <1>15 DEF EndRun, EndRow, IsOpen, Fault
<1>16. ASSUME NEW s \in Sessions, SayEnd(s) PROVE IInv'
  BY <1>0, <1>16 DEF SayEnd
<1>17. ASSUME NEW s \in Sessions, Leave(s) PROVE IInv'
  BY <1>0, <1>17 DEF Leave
<1>18. ASSUME NEW s \in Sessions, Age(s) PROVE IInv'
  BY <1>0, <1>18 DEF Age
<1>19. ASSUME NEW p \in Procs, NEW s \in Sessions, TerminateRead(p, s) PROVE IInv'
  BY <1>0, <1>19 DEF TerminateRead, Call, Goto
<1>20. ASSUME NEW p \in Procs, NEW s \in Sessions, Terminate(p, s) PROVE IInv'
  BY <1>0, <1>20 DEF Terminate, Cancel, Goto
<1>21. ASSUME NEW p \in Procs, NEW s \in Sessions, TerminateRow(p, s) PROVE IInv'
  BY <1>0, <1>21 DEF TerminateRow, EndRow, IsOpen, Stranded, Goto
<1>22. ASSUME NEW p \in Procs, NEW s \in Sessions, RecheckCut(p, s) PROVE IInv'
  <2>1. /\ UNCHANGED <<run, row, rec, starting, registry, allowed, escaped, sweep>>
        /\ \A t \in Sessions : t # s => cause'[t] = cause[t]
        /\ s \in registry => cause'[s] # "none"
    BY <1>0, <1>22 DEF RecheckCut, Cancel, Cause
  <2>2. /\ \A q \in Procs : q # p => api'[q] = api[q]
        /\ api[p].pc = "cut" /\ api'[p].pc \in {"idle", "cut"}
        /\ \A t \in api[p].ids : t = s \/ (api'[p].pc = "cut" /\ t \in api'[p].ids)
    BY <1>0, <1>22 DEF RecheckCut, Goto
  <2>3. ~Listing' => ~Listing
    BY <2>2
  <2>4. \A t \in Sessions : Reaching(t) => t = s \/ Reaching(t)'
    BY <2>2
  <2>5. WithdrawalGoesOn'
    BY <1>0, <2>1, <2>3, <2>4 DEF WithdrawalGoesOn
  <2> QED BY <1>0, <2>1, <2>5
<1>23. ASSUME NEW p \in Procs, NEW s \in Sessions, FailoverRead(p, s) PROVE IInv'
  BY <1>0, <1>23 DEF FailoverRead, Call, Goto
<1>24. ASSUME NEW p \in Procs, NEW s \in Sessions, FailoverEnd(p, s) PROVE IInv'
  BY <1>0, <1>24 DEF FailoverEnd, EndRow, IsOpen, Stranded, Fault, Goto
<1>25. ASSUME NEW p \in Procs, NEW s \in Sessions, FailoverCut(p, s) PROVE IInv'
  <2>1. /\ UNCHANGED <<run, row, rec, starting, registry, allowed, escaped, sweep>>
        /\ \A t \in Sessions : cause[t] # "none" => cause'[t] # "none"
    BY <1>0, <1>25 DEF FailoverCut, Cancel, Cause
  <2>2. /\ \A q \in Procs : q # p => api'[q] = api[q]
        /\ api[p].pc = "failcut" /\ api'[p].pc = "failissue"
    BY <1>0, <1>25 DEF FailoverCut, Goto
  <2>3. ~Listing' => ~Listing
    BY <2>2
  <2>4. \A t \in Sessions : Reaching(t) => Reaching(t)'
    BY <2>2
  <2>5. WithdrawalGoesOn'
    BY <1>0, <2>1, <2>3, <2>4 DEF WithdrawalGoesOn
  <2> QED BY <1>0, <2>1, <2>5
<1>26. ASSUME NEW p \in Procs, NEW s \in Sessions, NEW n \in Sessions,
              FailoverIssue(p, s, n) PROVE IInv'
  BY <1>0, <1>26 DEF FailoverIssue, Goto
<1>27. ASSUME NEW p \in Procs, Withdraw(p) PROVE IInv'
  BY <1>0, <1>27 DEF Withdraw, Call, Goto
<1>28. ASSUME NEW p \in Procs, RecheckList(p) PROVE IInv'
  BY <1>0, <1>28 DEF RecheckList, Goto
<1>29. ASSUME NEW p \in Procs, RecheckGate(p) PROVE IInv'
  <2>1. CASE /\ IF allowed \/ api[p].ids = {} THEN Goto(p, "idle", {})
                                          ELSE Goto(p, "cut", api[p].ids)
             /\ UNCHANGED bounds
    <3>1. CASE allowed \/ api[p].ids = {}
      BY <1>0, <1>29, <2>1, <3>1, SMTT(30) DEF RecheckGate, Goto
    <3>2. CASE ~(allowed \/ api[p].ids = {})
      BY <1>0, <1>29, <2>1, <3>2 DEF RecheckGate, Goto
    <3> QED BY <3>1, <3>2
  <2>2. ASSUME NEW s \in api[p].ids, Goto(p, "check", api[p].ids \ {s}),
               escaped' = escaped \cup {s}
        PROVE  IInv'
    BY <1>0, <1>29, <2>2 DEF RecheckGate, Goto
  <2> QED BY <1>29, <2>1, <2>2 DEF RecheckGate
<1>30. ASSUME NEW p \in Procs, FailoverRefused(p) PROVE IInv'
  BY <1>0, <1>30, SMTT(30) DEF FailoverRefused, Goto
<1>31. CASE Restore
  BY <1>0, <1>31 DEF Restore, Up
<1>32. ASSUME NEW s \in Sessions, SweepGet(s) PROVE IInv'
  BY <1>0, <1>32 DEF SweepGet
<1>33. ASSUME NEW s \in Sessions, SweepSay(s) PROVE IInv'
  BY <1>0, <1>33 DEF SweepSay, Fault, SweepIdle
<1>34. CASE SweepOpen
  BY <1>0, <1>34 DEF SweepOpen, SweepIdle
<1>35. CASE SweepAsk
  BY <1>0, <1>35 DEF SweepAsk
<1>36. CASE SweepEnd
  <2>1. SweepKnowsItsRow'
    BY <1>0, <1>36, ZenonT(40) DEF SweepEnd
  <2>2. sweep.cur \in Sessions
    BY <1>36 DEF SweepEnd
  <2>3. NoRowBeforeSetup'
    BY <1>0, <1>36, <2>2 DEF SweepEnd, EndRow, IsOpen
  <2> QED BY <1>0, <1>36, <2>1, <2>3 DEF SweepEnd, Fault
<1>37. CASE SweepClosed
  BY <1>0, <1>37 DEF SweepClosed, SweepIdle
<1>38. CASE Crash
  BY <1>0, <1>38 DEF Crash, SweepIdle, Idle, IsOpen
<1>39. CASE UNCHANGED vars
  BY <1>0, <1>39 DEF vars, memory, store, bounds
<1> QED BY <1>1, <1>2, <1>3, <1>4, <1>5, <1>6, <1>7, <1>8, <1>9, <1>10, <1>11,
           <1>12, <1>13, <1>14, <1>15, <1>16, <1>17, <1>18, <1>19, <1>20, <1>21,
           <1>22, <1>23, <1>24, <1>25, <1>26, <1>27, <1>28, <1>29, <1>30, <1>31,
           <1>32, <1>33, <1>34, <1>35, <1>36, <1>37, <1>38, <1>39
        DEF Next, RunStep, ApiNext, SweepNext

\* The inductive invariant holds throughout.
LEMMA Inductive == Spec => []IInv
  BY InitIInv, NextIInv, PTL DEF Spec

\* Runs, rows, registry, API requests and sweep keep their types.
THEOREM Typing == Spec => []TypeOK
<1>1. IInv => TypeOK
  BY DEF IInv
<1> QED BY <1>1, Inductive, PTL

\* What is in the registry has a recording's row (register before Add).
THEOREM Recorded == Spec => []NoUnrecordedSession
<1>1. IInv => NoUnrecordedSession
  BY DEF IInv
<1> QED BY <1>1, Inductive, PTL

\* A run that is gone has neither a registry entry nor a starting mark (done,
\* endRow).
THEOREM NothingLeft == Spec => []GoneLeavesNothing
<1>1. IInv => GoneLeavesNothing
  BY DEF IInv, RegisteredRun, StartingRun, GoneLeavesNothing
<1> QED BY <1>1, Inductive, PTL

\* Once every Recheck has returned, a session of a user without access is being
\* ended, was being set up as the registry was listed, or could not be checked.
THEOREM Withdrawn == Spec => []RevocationReaches
<1>1. IInv => RevocationReaches
  BY DEF IInv, WithdrawalGoesOn, Listing, Reaching, RevocationReaches
<1> QED BY <1>1, Inductive, PTL

\* The first end of a row stands: no later end replaces its reason and nothing
\* reopens it (Repo.endRow; a row is only inserted by a run that has none).
THEOREM RowEndsOnce == Spec => FirstEndWins
<1> DEFINE Ends == \A s \in Sessions : /\ row[s] \in Reason => row'[s] = row[s]
                                       /\ IsOpen(s) => row'[s] # "none"
<1>1. ASSUME IInv, [Next]_vars PROVE Ends
  <2> USE <1>1 DEF IInv, TypeOK, NoRowBeforeSetup, Reason, IsOpen
  <2>1. CASE \E s \in Sessions : StartRun(s) \/ StartRunFault(s)
    BY <2>1 DEF StartRun, StartRunFault
  <2>2. CASE \E s \in Sessions : EndRun(s)
    BY <2>2 DEF EndRun, EndRow
  <2>3. CASE \E p \in Procs, s \in Sessions : TerminateRow(p, s) \/ FailoverEnd(p, s)
    BY <2>3 DEF TerminateRow, FailoverEnd, EndRow
  <2>4. CASE SweepEnd
    BY <2>4 DEF SweepEnd, EndRow, SweepKnowsItsRow
  <2>5. CASE \E s \in Sessions : Age(s)
    BY <2>5 DEF Age
  <2>6. CASE row' = row
    BY <2>6
  <2>7. ASSUME NEW s \in Sessions, Connect(s) \/ RunStep(s) \/ BridgeEnds(s) \/ Age(s)
        PROVE  Ends
    <3>1. \/ StartRun(s) \/ StartRunFault(s) \/ EndRun(s) \/ Age(s)
          \/ row' = row
      BY <2>7, Zenon DEF RunStep, store, bounds, Connect, Redeem, TicketWasted, SetupFails, Record,
           FlagsFail, Add, Unmark, BridgeEnds, BridgeCancelled, FinishRecording,
           DiscardIfBlank, SayEnd, Leave
    <3> QED BY <3>1, <2>1, <2>2, <2>5, <2>6
  <2>8. ASSUME NEW p \in Procs, ApiNext(p) PROVE Ends
    <3>1. \/ \E s \in Sessions : TerminateRow(p, s) \/ FailoverEnd(p, s)
          \/ row' = row
      BY <2>8, Zenon DEF ApiNext, store, TerminateRead, Terminate, RecheckCut, FailoverRead,
           FailoverCut, FailoverIssue, Withdraw, RecheckList, RecheckGate, FailoverRefused
    <3> QED BY <3>1, <2>3, <2>6
  <2>9. CASE SweepNext
    <3>1. SweepEnd \/ row' = row
      BY <2>9, Zenon DEF SweepNext, store, SweepOpen, SweepGet, SweepAsk, SweepClosed, SweepSay
    <3> QED BY <3>1, <2>4, <2>6
  <2>10. CASE Restore \/ Crash \/ UNCHANGED vars
    BY <2>10, <2>6 DEF Restore, Crash, vars, store
  <2> QED BY <2>7, <2>8, <2>9, <2>10 DEF Next
<1> QED BY <1>1, Inductive, PTL DEF Spec, FirstEndWins

\* A session's end is one (done, Repo.endRow): nothing is left of it and the reason
\* first given stands.
THEOREM EndIsOne == Spec => EndsOnce
<1> QED BY NothingLeft, RowEndsOnce DEF EndsOnce

\* Every step keeps what the sweep's soundness rests on.
LEMMA SweepStepKeeps == IInv /\ SweepIInv /\ [Next]_vars => SweepIInv'
<1> SUFFICES ASSUME IInv, SweepIInv, [Next]_vars PROVE SweepIInv'
  OBVIOUS
<1> USE SessionAssumption DEF SweepIInv, NotRecordedYet, EndsAreTold, FailedOver, SetupIsMarked, SweepHolds, NoTicketNoOrigin,
            ClosedIsAccounted, SweepSparesSetup, memory, store, bounds
<1>0. /\ run \in [Sessions -> Phase] /\ from \in [Sessions -> Sessions \cup {None}]
      /\ row \in [Sessions -> {"none", "open", "aged"} \cup Reason]
      /\ rec \in [Sessions -> {"none", "open", "finished", "discarded"}]
      /\ sweep \in [pc : SweepStep, todo : SUBSET Sessions, cur : Sessions \cup {None},
                    ended : SUBSET Sessions, why : {"swept", "restart"}]
      /\ starting \subseteq Sessions /\ why \in [Sessions -> Reason]
      /\ NoRowBeforeSetup /\ SweepKnowsItsRow
  BY DEF IInv, TypeOK
<1>1. ASSUME NEW s \in Sessions, Connect(s) PROVE SweepIInv'
  BY <1>0, <1>1 DEF Connect, Up, Reason, NoRowBeforeSetup, SweepKnowsItsRow
<1>2. ASSUME NEW s \in Sessions, Redeem(s) PROVE SweepIInv'
  BY <1>0, <1>2 DEF Redeem, Reason, NoRowBeforeSetup, SweepKnowsItsRow
<1>3. ASSUME NEW s \in Sessions, TicketWasted(s) PROVE SweepIInv'
  BY <1>0, <1>3 DEF TicketWasted, Reason, NoRowBeforeSetup, SweepKnowsItsRow
<1>4. ASSUME NEW s \in Sessions, StartRun(s) PROVE SweepIInv'
  BY <1>0, <1>4 DEF StartRun, IsOpen, Stranded, Reason, NoRowBeforeSetup, SweepKnowsItsRow
<1>5. ASSUME NEW s \in Sessions, StartRunFault(s) PROVE SweepIInv'
  BY <1>0, <1>5 DEF StartRunFault, Fault, Reason, NoRowBeforeSetup, SweepKnowsItsRow
<1>6. ASSUME NEW s \in Sessions, SetupFails(s) PROVE SweepIInv'
  BY <1>0, <1>6 DEF SetupFails, Reason, NoRowBeforeSetup, SweepKnowsItsRow
<1>7. ASSUME NEW s \in Sessions, Record(s) PROVE SweepIInv'
  BY <1>0, <1>7 DEF Record, Reason, NoRowBeforeSetup, SweepKnowsItsRow
<1>8. ASSUME NEW s \in Sessions, FlagsFail(s) PROVE SweepIInv'
  BY <1>0, <1>8 DEF FlagsFail, Reason, NoRowBeforeSetup, SweepKnowsItsRow
<1>9. ASSUME NEW s \in Sessions, Add(s) PROVE SweepIInv'
  BY <1>0, <1>9 DEF Add, Reason, NoRowBeforeSetup, SweepKnowsItsRow
<1>10. ASSUME NEW s \in Sessions, Unmark(s) PROVE SweepIInv'
  BY <1>0, <1>10 DEF Unmark, Reason, NoRowBeforeSetup, SweepKnowsItsRow
<1>11. ASSUME NEW s \in Sessions, BridgeEnds(s) PROVE SweepIInv'
  BY <1>0, <1>11 DEF BridgeEnds, Reason, NoRowBeforeSetup, SweepKnowsItsRow
<1>12. ASSUME NEW s \in Sessions, BridgeCancelled(s) PROVE SweepIInv'
  BY <1>0, <1>12 DEF BridgeCancelled, Reason, NoRowBeforeSetup, SweepKnowsItsRow
<1>13. ASSUME NEW s \in Sessions, FinishRecording(s) PROVE SweepIInv'
  BY <1>0, <1>13 DEF FinishRecording, Fault, Reason, NoRowBeforeSetup, SweepKnowsItsRow
<1>14. ASSUME NEW s \in Sessions, DiscardIfBlank(s) PROVE SweepIInv'
  BY <1>0, <1>14 DEF DiscardIfBlank, Reason, NoRowBeforeSetup, SweepKnowsItsRow
<1>15. ASSUME NEW s \in Sessions, EndRun(s) PROVE SweepIInv'
  BY <1>0, <1>15 DEF EndRun, EndRow, IsOpen, Fault, Reason, NoRowBeforeSetup, SweepKnowsItsRow
<1>16. ASSUME NEW s \in Sessions, SayEnd(s) PROVE SweepIInv'
  BY <1>0, <1>16 DEF SayEnd, Reason, NoRowBeforeSetup, SweepKnowsItsRow
<1>17. ASSUME NEW s \in Sessions, Leave(s) PROVE SweepIInv'
  BY <1>0, <1>17 DEF Leave, Reason, NoRowBeforeSetup, SweepKnowsItsRow
<1>18. ASSUME NEW s \in Sessions, Age(s) PROVE SweepIInv'
  BY <1>0, <1>18 DEF Age, Reason, NoRowBeforeSetup, SweepKnowsItsRow
<1>19. ASSUME NEW p \in Procs, NEW s \in Sessions, TerminateRead(p, s) PROVE SweepIInv'
  BY <1>0, <1>19 DEF TerminateRead, Call, Reason, NoRowBeforeSetup, SweepKnowsItsRow
<1>20. ASSUME NEW p \in Procs, NEW s \in Sessions, Terminate(p, s) PROVE SweepIInv'
  BY <1>0, <1>20 DEF Terminate, Reason, NoRowBeforeSetup, SweepKnowsItsRow
<1>21. ASSUME NEW p \in Procs, NEW s \in Sessions, TerminateRow(p, s) PROVE SweepIInv'
  BY <1>0, <1>21 DEF TerminateRow, EndRow, IsOpen, Stranded, Reason, NoRowBeforeSetup, SweepKnowsItsRow
<1>22. ASSUME NEW p \in Procs, NEW s \in Sessions, RecheckCut(p, s) PROVE SweepIInv'
  BY <1>0, <1>22 DEF RecheckCut, Reason, NoRowBeforeSetup, SweepKnowsItsRow
<1>23. ASSUME NEW p \in Procs, NEW s \in Sessions, FailoverRead(p, s) PROVE SweepIInv'
  BY <1>0, <1>23 DEF FailoverRead, Call, Reason, NoRowBeforeSetup, SweepKnowsItsRow
<1>24. ASSUME NEW p \in Procs, NEW s \in Sessions, FailoverEnd(p, s) PROVE SweepIInv'
  BY <1>0, <1>24 DEF FailoverEnd, EndRow, IsOpen, Stranded, Fault, Reason, NoRowBeforeSetup, SweepKnowsItsRow
<1>25. ASSUME NEW p \in Procs, NEW s \in Sessions, FailoverCut(p, s) PROVE SweepIInv'
  BY <1>0, <1>25 DEF FailoverCut, Reason, NoRowBeforeSetup, SweepKnowsItsRow
<1>26. ASSUME NEW p \in Procs, NEW s \in Sessions, NEW n \in Sessions, FailoverIssue(p, s, n) PROVE SweepIInv'
  BY <1>0, <1>26 DEF FailoverIssue, Reason, NoRowBeforeSetup, SweepKnowsItsRow
<1>27. ASSUME NEW p \in Procs, Withdraw(p) PROVE SweepIInv'
  BY <1>0, <1>27 DEF Withdraw, Call, Reason, NoRowBeforeSetup, SweepKnowsItsRow
<1>28. ASSUME NEW p \in Procs, RecheckList(p) PROVE SweepIInv'
  BY <1>0, <1>28 DEF RecheckList, Reason, NoRowBeforeSetup, SweepKnowsItsRow
<1>29. ASSUME NEW p \in Procs, RecheckGate(p) PROVE SweepIInv'
  BY <1>0, <1>29 DEF RecheckGate, Fault, Reason, NoRowBeforeSetup, SweepKnowsItsRow
<1>30. ASSUME NEW p \in Procs, FailoverRefused(p) PROVE SweepIInv'
  BY <1>0, <1>30 DEF FailoverRefused, Reason, NoRowBeforeSetup, SweepKnowsItsRow
<1>31. CASE Restore
  BY <1>0, <1>31 DEF Restore, Reason, NoRowBeforeSetup, SweepKnowsItsRow
<1>32. ASSUME NEW s \in Sessions, SweepGet(s) PROVE SweepIInv'
  BY <1>0, <1>32 DEF SweepGet, Reason, NoRowBeforeSetup, SweepKnowsItsRow
<1>33. ASSUME NEW s \in Sessions, SweepSay(s) PROVE SweepIInv'
  BY <1>0, <1>33 DEF SweepSay, Fault, SweepIdle, Reason, NoRowBeforeSetup, SweepKnowsItsRow
<1>34. CASE SweepOpen
  BY <1>0, <1>34 DEF SweepOpen, SweepIdle, Reason, NoRowBeforeSetup, SweepKnowsItsRow
<1>35. CASE SweepAsk
  BY <1>0, <1>35 DEF SweepAsk, Reason, NoRowBeforeSetup, SweepKnowsItsRow
<1>36. CASE SweepEnd
  <2>1. PICK c \in Sessions : c = sweep.cur
    BY <1>0, <1>36 DEF SweepEnd, SweepKnowsItsRow
  <2>2. PICK x \in SUBSET Sessions : x = (IF IsOpen(c) THEN sweep.ended \cup {c} ELSE sweep.ended)
    BY <1>0, <2>1, Zenon
  <2>3. /\ sweep' \in [pc : SweepStep, todo : SUBSET Sessions, cur : Sessions \cup {None},
                       ended : SUBSET Sessions, why : {"swept", "restart"}]
        /\ sweep'.pc = "each" /\ sweep'.todo \subseteq sweep.todo
        /\ \/ row' = [row EXCEPT ![c] = IF IsOpen(c) THEN sweep.why ELSE row[c]] /\ sweep'.ended = x
           \/ row' = row /\ sweep'.ended = sweep.ended
    <3>1. \/ /\ row' = [row EXCEPT ![c] = IF IsOpen(c) THEN sweep.why ELSE row[c]]
             /\ sweep' = [sweep EXCEPT !.pc = "each", !.todo = sweep.todo \ {c}, !.cur = None, !.ended = x]
          \/ /\ row' = row
             /\ sweep' = [sweep EXCEPT !.pc = "each", !.todo = {}, !.cur = None]
      BY <1>0, <1>36, <2>1, <2>2 DEF SweepEnd, EndRow
    <3>2. "each" \in SweepStep
      BY DEF SweepStep
    <3>3. ASSUME NEW todo \in SUBSET Sessions, NEW ended \in SUBSET Sessions,
                 sweep' = [sweep EXCEPT !.pc = "each", !.todo = todo, !.cur = None, !.ended = ended]
          PROVE  /\ sweep' \in [pc : SweepStep, todo : SUBSET Sessions, cur : Sessions \cup {None},
                                ended : SUBSET Sessions, why : {"swept", "restart"}]
                 /\ sweep'.pc = "each" /\ sweep'.todo = todo /\ sweep'.ended = ended
      BY <1>0, <3>2, <3>3
    <3>4. PICK todo \in SUBSET Sessions : todo = sweep.todo \ {c} /\ todo \subseteq sweep.todo
      BY <1>0, Zenon
    <3>5. PICK e \in SUBSET Sessions : e = sweep.ended
      BY <1>0
    <3>6. [sweep EXCEPT !.pc = "each", !.todo = {}, !.cur = None] = [sweep EXCEPT !.pc = "each", !.todo = {}, !.cur = None, !.ended = e]
      BY <1>0, <3>5
    <3>7. {} \in SUBSET Sessions /\ {} \subseteq sweep.todo
      OBVIOUS
    <3>8. CASE row' = row /\ sweep' = [sweep EXCEPT !.pc = "each", !.todo = {}, !.cur = None]
      BY <3>3, <3>5, <3>6, <3>7, <3>8
    <3>9. CASE /\ row' = [row EXCEPT ![c] = IF IsOpen(c) THEN sweep.why ELSE row[c]]
               /\ sweep' = [sweep EXCEPT !.pc = "each", !.todo = sweep.todo \ {c}, !.cur = None, !.ended = x]
      BY <3>3, <3>4, <3>9
    <3> QED BY <3>1, <3>8, <3>9
  <2>4. UNCHANGED <<run, from, starting, registry, rec, said, lost, stranded>>
    BY <1>36 DEF SweepEnd
  <2>5. sweep.pc = "end" /\ row[c] # "none" /\ sweep.why \in {"swept", "restart"} /\ sweep.why \in Reason
    BY <1>0, <1>36, <2>1 DEF SweepEnd, Reason
  <2>6. ClosedIsAccounted'
    BY <1>0, <2>2, <2>3, <2>4, <2>5 DEF IsOpen, Reason
  <2>7. SweepSparesSetup'
    BY <1>0, <2>1, <2>3, <2>4, <2>5 DEF IsOpen
  <2>8. SweepHolds'
    BY <1>0, <2>3, <2>4, <2>5 DEF IsOpen
  <2> QED BY <1>0, <2>4, <2>6, <2>7, <2>8
<1>37. CASE SweepClosed
  BY <1>0, <1>37 DEF SweepClosed, SweepIdle, Reason, NoRowBeforeSetup, SweepKnowsItsRow
<1>38. CASE Crash
  BY <1>0, <1>38 DEF Crash, SweepIdle, IsOpen, Reason, NoRowBeforeSetup, SweepKnowsItsRow
<1>39. CASE UNCHANGED vars
  BY <1>0, <1>39 DEF vars
<1> QED BY <1>1, <1>2, <1>3, <1>4, <1>5, <1>6, <1>7, <1>8, <1>9, <1>10, <1>11, <1>12, <1>13, <1>14, <1>15, <1>16, <1>17, <1>18, <1>19, <1>20, <1>21, <1>22, <1>23, <1>24, <1>25, <1>26, <1>27, <1>28, <1>29, <1>30, <1>31, <1>32, <1>33, <1>34, <1>35, <1>36, <1>37, <1>38, <1>39
        DEF Next, RunStep, ApiNext, SweepNext

\* The sweep (Sweeper.pass) ends no row whose session is still being set up, unless the
\* session was failed over meanwhile, and what is over is accounted for, for any number of
\* sessions, requests, failed writes and crashes.
THEOREM SweepStaysSound == Spec => []SweepSound
<1>1. Init => SweepIInv
  BY SessionAssumption DEF Init, SweepIInv, NotRecordedYet, EndsAreTold, SetupIsMarked, SweepHolds, NoTicketNoOrigin,
       ClosedIsAccounted, SweepSparesSetup, SweepIdle, Reason
<1>2. SweepIInv => SweepSound
  BY DEF SweepIInv, SweepSound
<1> QED BY <1>1, <1>2, Inductive, SweepStepKeeps, PTL DEF Spec
=============================================================================
