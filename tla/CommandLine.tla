----------------------------- MODULE CommandLine ----------------------------
(***************************************************************************)
(* The console's command line (src/internal/cli/handler.go): an            *)
(* administrator's sign-in proves an authenticator code and then sends     *)
(* lines; one that changes something is answered with a prompt and runs    *)
(* when the prompt is confirmed.  The memory of the sign-in is behind a    *)
(* mutex that is released while a code is verified, a plan made and a      *)
(* command run, so that two requests of one sign-in meet.                  *)
(*                                                                         *)
(* One sign-in: the memory of others is apart, and signInFor drops only    *)
(* what belongs to sign-ins that are over.  A line's words, its arguments  *)
(* and what is printed are left out; time is counted in minutes.           *)
(***************************************************************************)
EXTENDS Naturals, Sequences

CONSTANTS
    CLines,         \* lines whose command has a plan
    CReqs,          \* requests in flight
    freshFor, maxFails, lockFor, confirmFor, perMinute,
    MaxMinute,      \* bound: the clock
    MaxPrompts      \* bound: prompts given

ASSUME CommandAssumption ==
    {freshFor, maxFails, lockFor, confirmFor, perMinute, MaxPrompts} \subseteq Nat /\ MaxMinute \in Nat \ {0}

VARIABLES
    time,
    mfaAt,      \* Session.MFAAt in the store; 0: never
    memory,     \* signIn
    creq,       \* per request: where it is and what it carries
    prompts,    \* history: every prompt given, in order
    ran         \* history: what ran after a confirmation: its prompt, its line, when it arrived
commandVars == <<time, mfaAt, memory, creq, prompts, ran>>

NoPrompt == 0
Plain == "plain"    \* a line whose command has no plan
\* Of signIn.recent, the times of the last lines, only one minute's are kept: how
\* many, and the minute.
Forgotten == [lastUse |-> 0, fails |-> 0, lockedUntil |-> 0, pending |-> NoPrompt, recent |-> 0, counted |-> 0]
CIdle == [pc |-> "idle", now |-> 0, line |-> Plain, confirm |-> "none", pend |-> NoPrompt]

CommandTypeOK ==
    /\ time \in 1..MaxMinute /\ mfaAt \in 0..MaxMinute
    /\ memory \in [lastUse : 0..MaxMinute, fails : 0..maxFails, lockedUntil : Nat, pending : 0..MaxPrompts,
                   recent : 0..perMinute, counted : 0..MaxMinute]
    /\ creq \in [CReqs -> [pc : {"idle", "verify", "proved", "marked", "take", "plan", "run", "done"}, now : 0..MaxMinute,
                           line : CLines \cup {Plain}, confirm : {"none", "right", "wrong"}, pend : 0..MaxPrompts]]
    /\ prompts \in Seq([line : CLines \cup {Plain}, expires : Nat]) /\ Len(prompts) <= MaxPrompts
    /\ ran \in Seq([prompt : 0..MaxPrompts, line : CLines \cup {Plain}, at : 0..MaxMinute])

CommandInit ==
    /\ time = 1 /\ mfaAt = 0 /\ memory = Forgotten
    /\ creq = [r \in CReqs |-> CIdle] /\ prompts = <<>> /\ ran = <<>>

GoesOn(r, pc) == creq' = [creq EXCEPT ![r].pc = pc]
Answered(r) == creq' = [creq EXCEPT ![r] = CIdle]

-----------------------------------------------------------------------------
(* unlock *)

UnlockStart(r) ==
    /\ creq[r].pc = "idle" /\ ~(time < memory.lockedUntil)
    /\ creq' = [creq EXCEPT ![r] = [CIdle EXCEPT !.pc = "verify", !.now = time]]
    /\ UNCHANGED <<time, mfaAt, memory, prompts, ran>>

\* MFA.Verify, without the mutex: a wrong code counts and the last one closes the
\* line; a right one goes on; no authenticator, or a failed statement, ends it.
UnlockVerify(r) ==
    /\ creq[r].pc = "verify"
    /\ \/ /\ memory' = IF memory.fails + 1 >= maxFails
                       THEN [memory EXCEPT !.lockedUntil = creq[r].now + lockFor, !.fails = 0]
                       ELSE [memory EXCEPT !.fails = @ + 1]
          /\ Answered(r)
       \/ GoesOn(r, "proved") /\ UNCHANGED memory
       \/ Answered(r) /\ UNCHANGED memory
    /\ UNCHANGED <<time, mfaAt, prompts, ran>>

\* MarkMFAProved, which may fail, then the memory.
UnlockMark(r) ==
    /\ creq[r].pc = "proved"
    /\ \/ mfaAt' = time /\ GoesOn(r, "marked")
       \/ mfaAt' = mfaAt /\ Answered(r)
    /\ UNCHANGED <<time, memory, prompts, ran>>
UnlockDone(r) ==
    /\ creq[r].pc = "marked" /\ Answered(r)
    /\ memory' = [memory EXCEPT !.fails = 0, !.lastUse = creq[r].now]
    /\ UNCHANGED <<time, mfaAt, prompts, ran>>

-----------------------------------------------------------------------------
(* exec *)

Greatest(m, n) == IF m >= n THEN m ELSE n
fresh == LET last == Greatest(mfaAt, memory.lastUse) IN last # 0 /\ time - last <= freshFor

\* allow: the lines of the last minute, of which a line counts even when it is
\* then refused for another reason.
recentNow == IF time - memory.counted < 1 THEN memory.recent ELSE 0
limited == recentNow >= perMinute

\* Under the mutex: closed, limited and not fresh refuse the line.
ExecStart(r, l, c) ==
    /\ creq[r].pc = "idle"
    /\ memory' = [memory EXCEPT !.recent = IF limited THEN recentNow ELSE recentNow + 1, !.counted = time]
    /\ IF time < memory.lockedUntil \/ limited \/ ~fresh THEN UNCHANGED creq
       ELSE creq' = [creq EXCEPT ![r] = [CIdle EXCEPT !.pc = IF l = Plain THEN "run" ELSE "take", !.now = time, !.line = l, !.confirm = c]]
    /\ UNCHANGED <<time, mfaAt, prompts, ran>>

\* run: the prompt that waits is taken, whatever the request then does with it;
\* ExecTakeMut leaves it until the command has run.
ExecTakeMut(r) ==
    /\ creq[r].pc = "take"
    /\ creq' = [creq EXCEPT ![r].pc = "plan", ![r].pend = memory.pending]
    /\ UNCHANGED <<time, mfaAt, memory, prompts, ran>>
ExecTake(r) ==
    /\ creq[r].pc = "take"
    /\ creq' = [creq EXCEPT ![r].pc = "plan", ![r].pend = memory.pending]
    /\ memory' = [memory EXCEPT !.pending = NoPrompt]
    /\ UNCHANGED <<time, mfaAt, prompts, ran>>

\* Whether the prompt a request took is one for its line that has not run out.
answers(q) == q.pend # NoPrompt /\ prompts[q.pend].line = q.line /\ q.now <= prompts[q.pend].expires

\* The plan is made again for a confirmation.  It may fail; a line without an
\* answer is given a prompt; an answer must be to this line's prompt, in time and right.
ExecPlan(r) ==
    LET q == creq[r] IN
    /\ q.pc = "plan"
    /\ \/ GoesOn(r, "done") /\ UNCHANGED <<memory, prompts>>
       \/ /\ q.confirm = "none" /\ Len(prompts) < MaxPrompts
          /\ prompts' = Append(prompts, [line |-> q.line, expires |-> q.now + confirmFor])
          /\ memory' = [memory EXCEPT !.pending = Len(prompts) + 1]
          /\ GoesOn(r, "done")
       \/ /\ q.confirm # "none"
          /\ GoesOn(r, IF answers(q) /\ q.confirm = "right" THEN "run" ELSE "done")
          /\ UNCHANGED <<memory, prompts>>
    /\ UNCHANGED <<time, mfaAt, ran>>

\* c.exec: the calls of the command, which may be refused or ask for a newer code.
ExecRun(r) ==
    /\ creq[r].pc = "run" /\ GoesOn(r, "done")
    /\ ran' = IF creq[r].line = Plain THEN ran
              ELSE Append(ran, [prompt |-> creq[r].pend, line |-> creq[r].line, at |-> creq[r].now])
    /\ UNCHANGED <<time, mfaAt, memory, prompts>>

\* The line, run or not, counts as use.
ExecDone(r) ==
    /\ creq[r].pc = "done" /\ Answered(r)
    /\ memory' = [memory EXCEPT !.lastUse = creq[r].now]
    /\ UNCHANGED <<time, mfaAt, prompts, ran>>

-----------------------------------------------------------------------------
Minute == time < MaxMinute /\ time' = time + 1 /\ UNCHANGED <<mfaAt, memory, creq, prompts, ran>>

\* The memory is not kept over a restart of the gateway.
Restarted ==
    /\ memory' = Forgotten /\ creq' = [r \in CReqs |-> CIdle]
    /\ UNCHANGED <<time, mfaAt, prompts, ran>>

CommandNext ==
    \/ Minute \/ Restarted
    \/ \E r \in CReqs :
          \/ UnlockStart(r) \/ UnlockVerify(r) \/ UnlockMark(r) \/ UnlockDone(r)
          \/ \E l \in CLines : \E c \in {"none", "right", "wrong"} : ExecStart(r, l, c)
          \/ ExecStart(r, Plain, "none")
          \/ ExecTake(r) \/ ExecPlan(r) \/ ExecRun(r) \/ ExecDone(r)

CommandSpec == CommandInit /\ [][CommandNext]_commandVars

-----------------------------------------------------------------------------
\* A prompt of the command line (handler.go, run) is good for one run, of the line
\* it was for, confirmed while it stood: two answers that come together do not both
\* run the command, and no answer runs another line.
ConfirmedOnce ==
    /\ \A i \in 1..Len(ran) :
          /\ ran[i].prompt # NoPrompt /\ prompts[ran[i].prompt].line = ran[i].line
          /\ ran[i].at <= prompts[ran[i].prompt].expires
    /\ \A i, j \in 1..Len(ran) : i # j => ran[i].prompt # ran[j].prompt
=============================================================================
