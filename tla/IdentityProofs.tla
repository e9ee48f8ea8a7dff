-------------------------- MODULE IdentityProofs --------------------------
(***************************************************************************)
(* Proofs about who may sign in: the accounts and what directories and     *)
(* administrators do to them, the codes of a half-finished sign-in and     *)
(* their lockout, the limiter of addresses, the prompts of the command     *)
(* line, the listing of a realm and the links that sign-ins, syncs and     *)
(* pushes make.  Each part has an inductive invariant of its own.          *)
(***************************************************************************)
EXTENDS MCIdentity, FiniteSetTheorems, TLAPS

-----------------------------------------------------------------------------
(* Accounts.  An administrator's decision stands.                          *)

SessionRec == [state : {"free", "partial", "full", "revoked"}, user : Users \cup {None}, proved : BOOLEAN]
TokenRec == [state : {"free", "active", "revoked"}, user : Users \cup {None}]
RequestRec == [pc : {"idle", "update", "revoke", "roles", "delete", "gone", "token", "leave", "return"},
               id : Users \cup {None}, by : Users \cup {None}, status : {"active", "disabled"},
               was : {"active", "disabled"}, admin : BOOLEAN]

\* A request under way is about an account.
AccountTyping ==
    /\ account \in [Users -> Account] /\ wsess \in [WSess -> SessionRec] /\ ulive \in SUBSET Users
    /\ token \in [Tokens -> TokenRec] /\ ureq \in [Requests -> RequestRec]
    /\ decided \in [Users -> {"none", "active", "disabled"}]
    /\ \A q \in Requests : ureq[q].pc # "idle" => ureq[q].id \in Users

\* The directory's mark is off an account an administrator disabled, so that it cannot return.
DisabledUnmarked == \A u \in Users : decided[u] = "disabled" => account[u].status = "disabled" /\ ~account[u].removed
AccountIInv == AccountTyping /\ DisabledUnmarked

\* No password is left of an account that is gone, and no request moves an account
\* to another identity; the directories' part needs both.
PasswordsGone == \A u \in Users : account[u].status = "free" => account[u].pw = None
SameLink(a, b) == b.idp = None \/ (b.idp = a.idp /\ b.subject = a.subject)
AccountsKept ==
    /\ AccountTyping'
    /\ DisabledUnmarked => DisabledUnmarked'
    /\ PasswordsGone => PasswordsGone'
    /\ \A u \in Users : SameLink(account[u], account'[u])

\* What is there before anything is.
LEMMA NoneTyped == /\ NoAccount \in Account /\ NoAccount.status = "free" /\ NoAccount.pw = None /\ NoAccount.idp = None
                   /\ NoWSess \in SessionRec /\ NoWSess.state = "free"
                   /\ UIdle \in RequestRec /\ UIdle.pc = "idle" /\ [state |-> "free", user |-> None] \in TokenRec
<1>1. NoAccount \in Account /\ NoAccount.status = "free" /\ NoAccount.pw = None /\ NoAccount.idp = None
  BY DEF NoAccount, Account
<1>2. NoWSess \in SessionRec /\ NoWSess.state = "free"
  BY DEF NoWSess, SessionRec
<1>3. UIdle \in RequestRec /\ UIdle.pc = "idle"
  BY DEF UIdle, RequestRec
<1>4. [state |-> "free", user |-> None] \in TokenRec
  BY DEF TokenRec
<1> QED BY <1>1, <1>2, <1>3, <1>4

\* A request begins, goes on or ends.
LEMMA RequestTyped ==
    ASSUME AccountTyping, NEW q \in Requests, NEW x \in RequestRec, x.pc # "idle" => x.id \in Users,
           ureq' = [ureq EXCEPT ![q] = x]
    PROVE  ureq' \in [Requests -> RequestRec] /\ \A r \in Requests : ureq'[r].pc # "idle" => ureq'[r].id \in Users
  BY DEF AccountTyping

\* The sessions of an account end.
LEMMA RevokeTyped == ASSUME AccountTyping, NEW u, RevokeAllForUser(u) PROVE wsess' \in [WSess -> SessionRec]
<1>1. ASSUME NEW s \in WSess PROVE [wsess[s] EXCEPT !.state = "revoked"] \in SessionRec
  BY DEF AccountTyping, SessionRec
<1> QED BY <1>1 DEF RevokeAllForUser, AccountTyping

\* Steps that leave the rows and the decisions alone.
LEMMA RowsStay ==
    ASSUME AccountTyping, UNCHANGED <<account, decided>>, wsess' \in [WSess -> SessionRec], ulive' \in SUBSET Users,
           token' \in [Tokens -> TokenRec], ureq' \in [Requests -> RequestRec],
           \A q \in Requests : ureq'[q].pc # "idle" => ureq'[q].id \in Users
    PROVE  AccountsKept
  BY DEF AccountsKept, AccountTyping, DisabledUnmarked, PasswordsGone, SameLink

\* A row is written, and its decision with it.
LEMMA RowWritten ==
    ASSUME AccountTyping, NEW u \in Users, NEW x \in Account, account' = [account EXCEPT ![u] = x],
           NEW d \in {"none", "active", "disabled"}, decided' = [decided EXCEPT ![u] = d],
           DisabledUnmarked /\ d = "disabled" => x.status = "disabled" /\ ~x.removed,
           PasswordsGone /\ x.status = "free" => x.pw = None, SameLink(account[u], x),
           wsess' \in [WSess -> SessionRec], ulive' \in SUBSET Users,
           token' \in [Tokens -> TokenRec], ureq' \in [Requests -> RequestRec],
           \A q \in Requests : ureq'[q].pc # "idle" => ureq'[q].id \in Users
    PROVE  AccountsKept
<1>1. AccountTyping'
  BY DEF AccountTyping
<1>2. DisabledUnmarked => DisabledUnmarked'
  BY DEF AccountTyping, DisabledUnmarked
<1>3. PasswordsGone => PasswordsGone'
  BY DEF AccountTyping, PasswordsGone
<1>4. \A v \in Users : SameLink(account[v], account'[v])
  BY DEF AccountTyping, SameLink
<1> QED BY <1>1, <1>2, <1>3, <1>4 DEF AccountsKept

\* Requests that read, and steps on the sessions and the tokens.
LEMMA ReadsKeep ==
    ASSUME AccountTyping, NEW q \in Requests,
           \/ \E a, u \in Users : \/ \E st \in {"active", "disabled"} : UpdateRead(q, a, u, st)
                                  \/ \E admin \in BOOLEAN : SetRolesRead(q, a, u, admin)
                                  \/ DeleteRead(q, a, u)
           \/ \E u \in Users : TokenRead(q, u) \/ LeaveRead(q, u) \/ ReturnRead(q, u)
           \/ UpdateRevoke(q) \/ DeleteCheck(q)
           \/ \E t \in Tokens : TokenCreate(q, t)
    PROVE  AccountsKept
<1>0. AccountTyping
  OBVIOUS
<1>1. ASSUME NEW a \in Users, NEW u \in Users, NEW st \in {"active", "disabled"}, UpdateRead(q, a, u, st) PROVE AccountsKept
  <2>1. PICK was \in {"active", "disabled"} : was = account[u].status
    BY <1>0, <1>1 DEF AccountTyping, Account, UpdateRead, Exists
  <2> DEFINE x == [UIdle EXCEPT !.pc = "update", !.id = u, !.by = a, !.status = st, !.was = was]
  <2>2. x \in RequestRec /\ x.id = u
    BY NoneTyped DEF RequestRec
  <2>3. ureq' = [ureq EXCEPT ![q] = x] /\ UNCHANGED <<account, wsess, ulive, token, decided>>
    BY <1>1, <2>1 DEF UpdateRead, Begins
  <2> HIDE DEF x
  <2> QED BY <1>0, <2>2, <2>3, RequestTyped, RowsStay DEF AccountTyping
<1>2. ASSUME NEW a \in Users, NEW u \in Users, NEW admin \in BOOLEAN, SetRolesRead(q, a, u, admin) PROVE AccountsKept
  <2> DEFINE was == IF account[u].admin = admin THEN "active" ELSE "disabled"
             x == [UIdle EXCEPT !.pc = "roles", !.id = u, !.by = a, !.admin = admin, !.was = was]
  <2>1. was \in {"active", "disabled"}
    OBVIOUS
  <2>3. ureq' = [ureq EXCEPT ![q] = x] /\ UNCHANGED <<account, wsess, ulive, token, decided>>
    BY <1>2 DEF SetRolesRead, Begins
  <2> HIDE DEF was
  <2>2. x \in RequestRec /\ x.id = u
    BY <2>1, NoneTyped DEF RequestRec
  <2> HIDE DEF x
  <2> QED BY <1>0, <2>2, <2>3, RequestTyped, RowsStay DEF AccountTyping
<1>3. ASSUME NEW a \in Users, NEW u \in Users, DeleteRead(q, a, u) PROVE AccountsKept
  <2> DEFINE x == [UIdle EXCEPT !.pc = "delete", !.id = u, !.by = a]
  <2>2. x \in RequestRec /\ x.id = u
    BY NoneTyped DEF RequestRec
  <2>3. ureq' = [ureq EXCEPT ![q] = x] /\ UNCHANGED <<account, token, decided>> /\ ulive' \in SUBSET Users /\ RevokeAllForUser(u)
    BY <1>0, <1>3 DEF DeleteRead, Begins, endLive, AccountTyping
  <2> HIDE DEF x
  <2> QED BY <1>0, <2>2, <2>3, RequestTyped, RevokeTyped, RowsStay DEF AccountTyping
<1>4. ASSUME NEW u \in Users, NEW pc \in {"token", "leave", "return"}, Begins(q, [UIdle EXCEPT !.pc = pc, !.id = u]),
             UNCHANGED <<account, wsess, ulive, token, decided>>
      PROVE  AccountsKept
  <2> DEFINE x == [UIdle EXCEPT !.pc = pc, !.id = u]
  <2>2. x \in RequestRec /\ x.id = u
    BY NoneTyped DEF RequestRec
  <2>3. ureq' = [ureq EXCEPT ![q] = x]
    BY <1>4 DEF Begins
  <2> HIDE DEF x
  <2> QED BY <1>0, <1>4, <2>2, <2>3, RequestTyped, RowsStay DEF AccountTyping
<1>5. ASSUME NEW u \in Users, TokenRead(q, u) \/ LeaveRead(q, u) \/ ReturnRead(q, u) PROVE AccountsKept
  BY <1>4, <1>5 DEF TokenRead, LeaveRead, ReturnRead
<1>6. CASE UpdateRevoke(q)
  <2>1. ureq' = [ureq EXCEPT ![q] = UIdle] /\ UNCHANGED <<account, token, decided>>
    BY <1>6 DEF UpdateRevoke, Ends
  <2>2. ulive' \in SUBSET Users
    BY <1>0, <1>6 DEF UpdateRevoke, endLive, AccountTyping
  <2>3. wsess' \in [WSess -> SessionRec]
    BY <1>0, <1>6, RevokeTyped DEF UpdateRevoke, AccountTyping
  <2> QED BY <1>0, <2>1, <2>2, <2>3, NoneTyped, RequestTyped, RowsStay DEF AccountTyping
<1>7. CASE DeleteCheck(q)
  <2> DEFINE x == [ureq[q] EXCEPT !.pc = "gone"]
  <2>0. ureq[q] \in RequestRec /\ ureq[q].id \in Users
    BY <1>0, <1>7 DEF AccountTyping, DeleteCheck
  <2>1. x \in RequestRec /\ x.id \in Users
    BY <2>0 DEF RequestRec
  <2>2. (ureq' = [ureq EXCEPT ![q] = x] \/ ureq' = [ureq EXCEPT ![q] = UIdle]) /\ UNCHANGED <<account, wsess, ulive, token, decided>>
    BY <1>0, <1>7 DEF DeleteCheck, Ends, AccountTyping
  <2> HIDE DEF x
  <2> QED BY <1>0, <2>1, <2>2, NoneTyped, RequestTyped, RowsStay DEF AccountTyping
<1>8. ASSUME NEW t \in Tokens, TokenCreate(q, t) PROVE AccountsKept
  <2>0. PICK u \in Users : u = ureq[q].id
    BY <1>0, <1>8 DEF AccountTyping, TokenCreate
  <2> DEFINE x == [state |-> "active", user |-> u]
  <2>1. x \in TokenRec
    BY DEF TokenRec
  <2>2. (token' = [token EXCEPT ![t] = x] \/ token' = token) /\ ureq' = [ureq EXCEPT ![q] = UIdle] /\ UNCHANGED <<account, wsess, ulive, decided>>
    BY <1>8, <2>0 DEF TokenCreate, Ends
  <2> HIDE DEF x
  <2>3. token' \in [Tokens -> TokenRec]
    BY <1>0, <2>1, <2>2 DEF AccountTyping
  <2> QED BY <1>0, <2>2, <2>3, NoneTyped, RequestTyped, RowsStay DEF AccountTyping
<1> QED BY <1>1, <1>2, <1>3, <1>5, <1>6, <1>7, <1>8

\* Requests that write the row.
LEMMA WritesKeep ==
    ASSUME AccountTyping, NEW q \in Requests, UpdateWrite(q) \/ SetRoles(q) \/ DeleteRow(q) \/ Leave(q) \/ EnableReturned(q)
    PROVE  AccountsKept
<1>0. AccountTyping
  OBVIOUS
<1>1. PICK u \in Users : u = ureq[q].id
  BY <1>0 DEF AccountTyping, UpdateWrite, SetRoles, DeleteRow, Leave, EnableReturned
<1>2. PICK d \in {"none", "active", "disabled"}, y \in Account :
          /\ d = decided[u] /\ y = account[u] /\ (DisabledUnmarked /\ d = "disabled" => y.status = "disabled" /\ ~y.removed)
          /\ PasswordsGone /\ y.status = "free" => y.pw = None
  BY <1>0 DEF AccountTyping, DisabledUnmarked, PasswordsGone
<1>3. decided' = decided => decided' = [decided EXCEPT ![u] = d]
  BY <1>0, <1>2 DEF AccountTyping
<1>4. account' = account => account' = [account EXCEPT ![u] = y]
  BY <1>0, <1>2 DEF AccountTyping
<1>5. ureq' = [ureq EXCEPT ![q] = UIdle] => /\ ureq' \in [Requests -> RequestRec]
                                            /\ \A r \in Requests : ureq'[r].pc # "idle" => ureq'[r].id \in Users
  BY <1>0, NoneTyped, RequestTyped
<1>6. CASE UpdateWrite(q)
  <2>1. PICK st \in {"active", "disabled"} : st = ureq[q].status
    BY <1>0 DEF AccountTyping, RequestRec
  <2>2. CASE Exists(u)
    <3> DEFINE gone == y.removed /\ y.status = st
               x == [y EXCEPT !.status = st, !.removed = gone]
               w == IF y.status = st THEN d ELSE st
               z == [ureq[q] EXCEPT !.pc = "revoke"]
    <3>0. gone \in BOOLEAN /\ (gone => y.removed) /\ (y.status # st => ~gone)
      BY <1>2 DEF Account
    <3>1. account' = [account EXCEPT ![u].status = st, ![u].removed = gone] /\ decided' = [decided EXCEPT ![u] = w]
      BY <1>1, <1>2, <1>3, <1>6, <2>1, <2>2 DEF UpdateWrite
    <3>2. /\ ureq' = [ureq EXCEPT ![q].pc = "revoke"] /\ UNCHANGED <<wsess, ulive, token>>
      BY <1>1, <1>6, <2>2 DEF UpdateWrite
    <3>3. ureq' = [ureq EXCEPT ![q] = z]
      BY <1>0, <3>2 DEF AccountTyping
    <3>4. z \in RequestRec /\ z.id = u
      BY <1>0, <1>1 DEF AccountTyping, RequestRec
    <3> HIDE DEF gone, z
    <3>5. account' = [account EXCEPT ![u] = x]
      BY <1>0, <1>2, <3>1 DEF AccountTyping
    <3>6. x \in Account /\ x.status = st /\ x.removed = gone /\ x.idp = y.idp /\ x.subject = y.subject
      BY <1>2, <3>0 DEF Account
    <3>7. w \in {"none", "active", "disabled"} /\ (DisabledUnmarked /\ w = "disabled" => x.status = "disabled" /\ ~x.removed)
      BY <1>2, <3>0, <3>6
    <3> HIDE DEF x, w
    <3>8. ureq' \in [Requests -> RequestRec] /\ \A r \in Requests : ureq'[r].pc # "idle" => ureq'[r].id \in Users
      BY <1>0, <3>3, <3>4, RequestTyped
    <3>9. x.status # "free" /\ SameLink(account[u], x)
      BY <1>2, <2>1, <3>6 DEF SameLink
    <3> QED BY <1>0, <3>1, <3>2, <3>5, <3>6, <3>7, <3>8, <3>9, RowWritten DEF AccountTyping
  <2>3. CASE ~Exists(u)
    <3>1. UNCHANGED <<account, decided, wsess, ulive, token>> /\ ureq' = [ureq EXCEPT ![q] = UIdle]
      BY <1>1, <1>6, <2>3 DEF UpdateWrite, Ends
    <3> QED BY <1>0, <1>5, <3>1, RowsStay DEF AccountTyping
  <2> QED BY <2>2, <2>3
<1>7. CASE SetRoles(q)
  <2>1. PICK adm \in BOOLEAN : adm = ureq[q].admin
    BY <1>0 DEF AccountTyping, RequestRec
  <2> DEFINE x == [y EXCEPT !.admin = adm]
  <2>2. x \in Account /\ x.status = y.status /\ x.removed = y.removed /\ x.pw = y.pw /\ x.idp = y.idp /\ x.subject = y.subject
    BY DEF Account
  <2>3. /\ (account' = account \/ account' = [account EXCEPT ![u] = x]) /\ ulive' \in SUBSET Users
        /\ UNCHANGED <<wsess, token, decided>> /\ ureq' = [ureq EXCEPT ![q] = UIdle]
    BY <1>0, <1>1, <1>2, <1>7, <2>1 DEF SetRoles, Ends, endLive, AccountTyping
  <2> HIDE DEF x
  <2> QED BY <1>0, <1>2, <1>3, <1>4, <1>5, <2>2, <2>3, RowWritten DEF AccountTyping, SameLink
<1>8. CASE DeleteRow(q)
  <2>1. /\ account' = [account EXCEPT ![u] = NoAccount] /\ decided' = [decided EXCEPT ![u] = "none"]
        /\ ureq' = [ureq EXCEPT ![q] = UIdle] /\ ulive' = ulive
        /\ wsess' = [s \in WSess |-> IF wsess[s].user = u THEN NoWSess ELSE wsess[s]]
        /\ token' = [t \in Tokens |-> IF token[t].user = u THEN [state |-> "free", user |-> None] ELSE token[t]]
    BY <1>1, <1>8 DEF DeleteRow, Ends
  <2>2. wsess' \in [WSess -> SessionRec]
    BY <1>0, <2>1, NoneTyped DEF AccountTyping
  <2>3. token' \in [Tokens -> TokenRec]
    BY <1>0, <2>1, NoneTyped DEF AccountTyping
  <2> QED BY <1>0, <1>5, <2>1, <2>2, <2>3, NoneTyped, RowWritten DEF AccountTyping, SameLink
<1>9. CASE Leave(q)
  <2> DEFINE x == [y EXCEPT !.status = "disabled", !.removed = TRUE]
  <2>1. x \in Account /\ x.status = "disabled" /\ x.idp = y.idp /\ x.subject = y.subject
    BY DEF Account
  <2>2. /\ UNCHANGED <<account, wsess, ulive>> \/ (y.status = "active" /\ account' = [account EXCEPT ![u].status = "disabled", ![u].removed = TRUE]
                                                    /\ RevokeAllForUser(u) /\ endLive(u))
        /\ UNCHANGED <<token, decided>> /\ ureq' = [ureq EXCEPT ![q] = UIdle]
    BY <1>1, <1>2, <1>9 DEF Leave, Ends
  <2>3. account' = account \/ (account' = [account EXCEPT ![u] = x] /\ y.status = "active")
    BY <1>0, <1>2, <2>2 DEF AccountTyping
  <2>4. wsess' \in [WSess -> SessionRec] /\ ulive' \in SUBSET Users
    BY <1>0, <2>2, RevokeTyped DEF AccountTyping, endLive
  <2> HIDE DEF x
  <2> QED BY <1>0, <1>2, <1>3, <1>4, <1>5, <2>1, <2>2, <2>3, <2>4, RowWritten DEF AccountTyping, SameLink
<1>10. CASE EnableReturned(q)
  <2> DEFINE x == [y EXCEPT !.status = "active", !.removed = FALSE]
  <2>1. x \in Account /\ x.status = "active" /\ x.idp = y.idp /\ x.subject = y.subject
    BY DEF Account
  <2>2. /\ account' = account \/ (y.removed /\ account' = [account EXCEPT ![u].status = "active", ![u].removed = FALSE])
        /\ UNCHANGED <<wsess, ulive, token, decided>> /\ ureq' = [ureq EXCEPT ![q] = UIdle]
    BY <1>1, <1>2, <1>10 DEF EnableReturned, Ends
  <2>3. account' = account \/ (account' = [account EXCEPT ![u] = x] /\ y.removed)
    BY <1>0, <1>2, <2>2 DEF AccountTyping
  <2> HIDE DEF x
  <2> QED BY <1>0, <1>2, <1>3, <1>4, <1>5, <2>1, <2>2, <2>3, RowWritten DEF AccountTyping, SameLink
<1> QED BY <1>6, <1>7, <1>8, <1>9, <1>10

\* An account is made.
LEMMA AccountMade ==
    ASSUME AccountTyping, NEW u \in Users, NEW admin \in BOOLEAN, NEW pw \in Passwords \cup {None}, NEW owed \in BOOLEAN,
           AccountCreate(u, admin, pw, owed)
    PROVE  AccountsKept
<1> DEFINE x == [NoAccount EXCEPT !.status = "active", !.admin = admin, !.pw = pw, !.owed = owed]
<1>1. x \in Account /\ x.status = "active" /\ x.idp = None
  BY NoneTyped DEF Account
<1>2. account' = [account EXCEPT ![u] = x] /\ UNCHANGED <<wsess, ulive, token, ureq, decided>> /\ account[u].status = "free"
  BY DEF AccountCreate, Exists
<1> HIDE DEF x
<1>3. PICK d \in {"none", "active", "disabled"} : d = decided[u] /\ (DisabledUnmarked => d # "disabled")
  BY <1>2 DEF AccountTyping, DisabledUnmarked
<1>4. decided' = [decided EXCEPT ![u] = d]
  BY <1>2, <1>3 DEF AccountTyping
<1> QED BY <1>1, <1>2, <1>3, <1>4, RowWritten DEF AccountTyping, SameLink

\* Every step on the accounts keeps the invariant.
LEMMA AccountNextKeeps == AccountTyping /\ [AccountNext]_acctVars => AccountsKept
<1> SUFFICES ASSUME AccountTyping, [AccountNext]_acctVars PROVE AccountsKept
  OBVIOUS
<1>1. ASSUME NEW u \in Users, RevokeSessions(u) PROVE AccountsKept
  <2>1. RevokeAllForUser(u) /\ ulive' \in SUBSET Users /\ UNCHANGED <<account, token, ureq, decided>> /\ AccountTyping
    BY <1>1 DEF RevokeSessions, endLive, AccountTyping
  <2> QED BY <2>1, RevokeTyped, RowsStay DEF AccountTyping
<1>2. ASSUME NEW t \in Tokens, TokenRevoke(t) PROVE AccountsKept
  <2> DEFINE x == [token[t] EXCEPT !.state = "revoked"]
  <2>1. AccountTyping /\ token[t] \in TokenRec
    BY DEF AccountTyping
  <2>2. x \in TokenRec
    BY <2>1 DEF TokenRec
  <2>3. token' = [token EXCEPT ![t] = x] /\ UNCHANGED <<account, wsess, ulive, ureq, decided>>
    BY <1>2, <2>1 DEF TokenRevoke, AccountTyping
  <2> HIDE DEF x
  <2> QED BY <2>1, <2>2, <2>3, RowsStay DEF AccountTyping
<1>3. CASE UNCHANGED acctVars
  BY <1>3, RowsStay DEF acctVars, AccountTyping
<1>4. CASE \E u \in Users, admin, owed \in BOOLEAN, pw \in Passwords : AccountCreate(u, admin, pw, owed)
  BY <1>4, AccountMade
<1>5. CASE \E q \in Requests, a, u \in Users :
             \/ \E st \in {"active", "disabled"} : UpdateRead(q, a, u, st)
             \/ \E admin \in BOOLEAN : SetRolesRead(q, a, u, admin)
             \/ DeleteRead(q, a, u)
  BY <1>5, ReadsKeep
<1>6. CASE \E q \in Requests :
             \/ UpdateWrite(q) \/ UpdateRevoke(q) \/ SetRoles(q) \/ DeleteCheck(q) \/ DeleteRow(q)
             \/ Leave(q) \/ EnableReturned(q)
             \/ \E u \in Users : TokenRead(q, u) \/ LeaveRead(q, u) \/ ReturnRead(q, u)
             \/ \E t \in Tokens : TokenCreate(q, t)
  BY <1>6, ReadsKeep, WritesKeep
<1> QED BY <1>1, <1>2, <1>3, <1>4, <1>5, <1>6 DEF AccountNext

\* The invariant of the accounts by themselves.
LEMMA AccountStep == AccountIInv /\ [AccountNext]_acctVars => AccountIInv'
  BY AccountNextKeeps DEF AccountIInv, AccountsKept

\* No account, no decision.
LEMMA AccountStart == AccountInit => AccountIInv
<1> SUFFICES ASSUME AccountInit PROVE AccountIInv
  OBVIOUS
<1>1. account \in [Users -> Account] /\ wsess \in [WSess -> SessionRec] /\ ulive \in SUBSET Users
  BY NoneTyped DEF AccountInit
<1>2. token \in [Tokens -> TokenRec] /\ ureq \in [Requests -> RequestRec] /\ \A q \in Requests : ureq[q].pc = "idle"
  BY NoneTyped DEF AccountInit
<1>3. decided \in [Users -> {"none", "active", "disabled"}] /\ \A u \in Users : decided[u] = "none"
  BY DEF AccountInit
<1> QED BY <1>1, <1>2, <1>3 DEF AccountIInv, AccountTyping, DisabledUnmarked

\* However the requests of administrators and what a provider says of a person interleave
\* (user/repo.go Update, DisableRemoved and EnableReturned; idp/lifecycle.go), an account an
\* administrator disabled stays disabled, for any number of accounts, requests and tokens.
THEOREM AccountsStaySound == AccountSpec => []AccountsSound
<1>1. AccountIInv => AccountsSound
  <2> SUFFICES ASSUME AccountIInv PROVE AccountsSound
    OBVIOUS
  <2>1. AccountTypeOK
    BY DEF AccountIInv, AccountTyping, AccountTypeOK, SessionRec, TokenRec, RequestRec
  <2>2. DecisionStands
    BY DEF AccountIInv, DisabledUnmarked, DecisionStands
  <2> QED BY <2>1, <2>2 DEF AccountsSound
<1> QED BY <1>1, AccountStart, AccountStep, PTL DEF AccountSpec

-----------------------------------------------------------------------------
(* Signing in.  Wrong codes are counted for the account before another is  *)
(* compared, so that they are bounded however many sign-ins send them.     *)

TotpRec == [seed : Seeds \cup {None}, confirmed : BOOLEAN, last : Nat]
CodesRec == [seed : Seeds \cup {None}, unused : Nat]
StepUpRec == [fails : Nat, closed : BOOLEAN]
SignRec == [pc : {"idle", "password", "rehash", "accepted", "issue", "newpw", "others", "finish",
                  "code", "prove", "enroll", "confirm", "confirming", "confirmed", "pwset", "reset"},
            user : Users \cup {None}, sess : WSess \cup {None}, guess : Passwords \cup {None},
            pw : Passwords \cup {None}, weak : BOOLEAN, owed : BOOLEAN, mfa : BOOLEAN, enrolled : BOOLEAN,
            seed : Seeds \cup {None}, step : Nat]

\* A request is about an account, and what works on a session has one.
OnSession == {"newpw", "others", "finish", "code", "prove", "enroll", "confirm", "confirming", "confirmed"}
Sound(x) == x \in SignRec /\ (x.pc # "idle" => x.user \in Users) /\ (x.pc \in OnSession => x.sess \in WSess)

\* A request that compares a code has the account's lock.
Checking == {"code", "confirm", "confirming"}
SignRequests ==
    /\ DOMAIN sreq = SReqs /\ \A q \in SReqs : Sound(sreq[q])
    /\ sreq \in [SReqs -> SignRec] /\ codeLock \in [Users -> SReqs \cup {None}]
    /\ \A q \in SReqs : sreq[q].pc \in Checking => codeLock[sreq[q].user] = q

\* Sessions are of accounts.
SessionsOwned == \A s \in WSess : wsess[s].state # "free" => wsess[s].user \in Users

\* A request whose code, when it is wrong, is one more guess.
Guessing(q, u) == sreq[q].pc \in {"code", "confirm"} /\ sreq[q].user = u /\ ~sreq[q].mfa

\* A guess has been counted as a failure; an account was locked with one left to
\* whoever was comparing a code then, and no one else.
Counted(u) ==
    /\ account[u].fails < MaxFailures
    /\ ~account[u].locked => guesses[u] <= account[u].fails
    /\ guesses[u] <= MaxFailures
    /\ (\E q \in SReqs : Guessing(q, u)) => guesses[u] < MaxFailures
    /\ account[u].status = "free" => guesses[u] = 0 /\ ~\E q \in SReqs : Guessing(q, u)

SignTyping ==
    /\ totp \in [Users -> TotpRec] /\ recovery \in [Users -> CodesRec]
    /\ attempts \in [WSess -> Nat] /\ stepUp \in [WSess -> StepUpRec] /\ guesses \in [Users -> Nat]

SignIInv ==
    /\ AccountIInv /\ SessionsOwned /\ SignTyping /\ SignRequests
    /\ \A u \in Users : Counted(u)

\* What a sign-in starts from.
LEMMA SignNone ==
    /\ SIdle \in SignRec /\ Sound(SIdle) /\ SIdle.pc = "idle" /\ NoTOTP \in TotpRec /\ NoCodes \in CodesRec
    /\ [fails |-> 0, closed |-> FALSE] \in StepUpRec
<1>1. SIdle \in SignRec /\ SIdle.pc = "idle"
  BY DEF SIdle, SignRec
<1>2. NoTOTP \in TotpRec /\ NoCodes \in CodesRec
  BY DEF NoTOTP, NoCodes, TotpRec, CodesRec
<1>3. [fails |-> 0, closed |-> FALSE] \in StepUpRec
  BY DEF StepUpRec
<1> QED BY <1>1, <1>2, <1>3 DEF Sound, OnSession

\* How many failures lock an account.
LEMMA MaxFailuresTyped == MaxFailures \in Nat /\ MaxFailures > 0 /\ None \notin SReqs /\ MFAAttempts \in Nat /\ RecoveryCount \in Nat
BY SignInAssumption

\* The parts of the invariant that a step leaves alone, or keeps, make it again.
LEMMA SignKept ==
    ASSUME SignIInv, account' \in [Users -> Account],
           \A u \in Users : account'[u].status = account[u].status /\ account'[u].removed = account[u].removed,
           wsess' \in [WSess -> SessionRec], SessionsOwned', ulive' \in SUBSET Users,
           UNCHANGED <<token, ureq, decided>>,
           SignTyping', SignRequests', \A u \in Users : Counted(u)'
    PROVE  SignIInv'
<1>1. AccountIInv'
  <2>1. AccountTyping'
    BY DEF SignIInv, AccountIInv, AccountTyping
  <2> QED BY <2>1 DEF SignIInv, AccountIInv, DisabledUnmarked
<1> QED BY <1>1 DEF SignIInv

\* A request goes on: it takes no lock; when it has one and gives it up, no other had it.
LEMMA RequestGoes ==
    ASSUME SignRequests, NEW q \in SReqs, NEW x, Sound(x), sreq' = [sreq EXCEPT ![q] = x],
           \/ x.pc \notin Checking /\ codeLock' = codeLock
           \/ sreq[q].pc \in Checking /\ x.user = sreq[q].user /\ codeLock' = codeLock
           \/ x.pc \notin Checking /\ sreq[q].pc \in Checking /\ codeLock' = [codeLock EXCEPT ![sreq[q].user] = None],
           x.pc \notin {"code", "confirm"}
    PROVE  /\ SignRequests'
           /\ \A o \in SReqs, u \in Users : Guessing(o, u)' => Guessing(o, u) /\ o # q
<1>1. sreq' \in [SReqs -> SignRec] /\ DOMAIN sreq' = SReqs /\ sreq'[q] = x /\ \A o \in SReqs \ {q} : sreq'[o] = sreq[o]
  BY DEF SignRequests, Sound
<1>2. \A o \in SReqs : Sound(sreq'[o])
  BY <1>1 DEF SignRequests
<1>3. sreq[q].pc \in Checking => sreq[q].user \in Users
  BY DEF SignRequests, Sound, Checking
<1>4. codeLock' \in [Users -> SReqs \cup {None}]
  BY DEF SignRequests
<1>5. \A o \in SReqs : sreq'[o].pc \in Checking => codeLock'[sreq'[o].user] = o
  <2> SUFFICES ASSUME NEW o \in SReqs, sreq'[o].pc \in Checking PROVE codeLock'[sreq'[o].user] = o
    OBVIOUS
  <2>1. CASE o = q
    <3>1. sreq[q].pc \in Checking /\ x.user = sreq[q].user /\ codeLock' = codeLock
      BY <2>1, <1>1
    <3> QED BY <3>1, <2>1, <1>1 DEF SignRequests
  <2>2. CASE o # q
    <3>1. sreq'[o] = sreq[o] /\ codeLock[sreq[o].user] = o /\ sreq[o].user \in Users
      BY <2>2, <1>1 DEF SignRequests, Sound, Checking
    <3>2. sreq[q].pc \in Checking => codeLock[sreq[q].user] = q
      BY DEF SignRequests
    <3>3. CASE codeLock' = codeLock
      BY <3>1, <3>3
    <3>4. CASE sreq[q].pc \in Checking /\ codeLock' = [codeLock EXCEPT ![sreq[q].user] = None]
      <4>1. sreq[o].user # sreq[q].user
        BY <2>2, <3>1, <3>2, <3>4
      <4> QED BY <4>1, <3>1, <3>4, <1>3 DEF SignRequests
    <3> QED BY <3>3, <3>4
  <2> QED BY <2>1, <2>2
<1>6. SignRequests'
  BY <1>1, <1>2, <1>4, <1>5 DEF SignRequests
<1>7. \A o \in SReqs, u \in Users : Guessing(o, u)' => Guessing(o, u) /\ o # q
  BY <1>1 DEF Guessing
<1> QED BY <1>6, <1>7

\* A request takes an account's lock, which no one has.
LEMMA RequestLocks ==
    ASSUME SignRequests, NEW q \in SReqs, NEW u \in Users, NEW x, Sound(x), x.user = u, codeLock[u] = None,
           sreq' = [sreq EXCEPT ![q] = x], codeLock' = [codeLock EXCEPT ![u] = q]
    PROVE  /\ SignRequests'
           /\ \A o \in SReqs, v \in Users : Guessing(o, v)' => (Guessing(o, v) \/ (o = q /\ v = u))
<1>1. sreq' \in [SReqs -> SignRec] /\ DOMAIN sreq' = SReqs /\ sreq'[q] = x /\ \A o \in SReqs \ {q} : sreq'[o] = sreq[o]
  BY DEF SignRequests, Sound
<1>2. \A o \in SReqs : Sound(sreq'[o])
  BY <1>1 DEF SignRequests
<1>3. codeLock' \in [Users -> SReqs \cup {None}]
  BY DEF SignRequests
<1>4. \A o \in SReqs : sreq'[o].pc \in Checking => codeLock'[sreq'[o].user] = o
  <2> SUFFICES ASSUME NEW o \in SReqs, sreq'[o].pc \in Checking PROVE codeLock'[sreq'[o].user] = o
    OBVIOUS
  <2>1. CASE o = q
    BY <2>1, <1>1 DEF SignRequests
  <2>2. CASE o # q
    <3>1. sreq'[o] = sreq[o] /\ codeLock[sreq[o].user] = o /\ sreq[o].user \in Users
      BY <2>2, <1>1 DEF SignRequests, Sound, Checking
    <3>2. sreq[o].user # u
      BY <3>1, MaxFailuresTyped
    <3> QED BY <3>1, <3>2 DEF SignRequests
  <2> QED BY <2>1, <2>2
<1>5. SignRequests'
  BY <1>1, <1>2, <1>3, <1>4 DEF SignRequests
<1>6. \A o \in SReqs, v \in Users : Guessing(o, v)' => (Guessing(o, v) \/ (o = q /\ v = u))
  BY <1>1 DEF Guessing
<1> QED BY <1>5, <1>6

\* Steps that ask no account to count.
LEMMA CountStays ==
    ASSUME SignIInv, NEW u \in Users, account'[u].fails = account[u].fails, account'[u].locked = account[u].locked,
           account'[u].status = account[u].status, guesses'[u] = guesses[u],
           \A q \in SReqs : Guessing(q, u)' => Guessing(q, u)
    PROVE  Counted(u)'
BY DEF SignIInv, Counted

\* The count of an account is cleared.
LEMMA CountCleared ==
    ASSUME SignIInv, NEW u \in Users, account'[u].fails = 0, ~account'[u].locked,
           account'[u].status = account[u].status, guesses'[u] = 0,
           \A q \in SReqs : Guessing(q, u)' => Guessing(q, u)
    PROVE  Counted(u)'
BY MaxFailuresTyped DEF SignIInv, Counted

\* What RecordLoginFailure makes of a row.
LEMMA FailedTyped ==
    ASSUME NEW r \in Account, r.fails < MaxFailures
    PROVE  /\ failed(r) \in Account /\ failed(r).status = r.status /\ failed(r).removed = r.removed
           /\ failed(r).fails \in Nat /\ failed(r).fails < MaxFailures
           /\ ((failed(r).locked = r.locked /\ failed(r).fails = r.fails + 1) \/ failed(r).locked = TRUE)
<1>1. r.fails \in Nat
  BY DEF Account
<1>2. CASE r.fails + 1 >= MaxFailures
  <2>1. failed(r) = [r EXCEPT !.fails = 0, !.locked = TRUE]
    BY <1>2 DEF failed
  <2>2. failed(r) \in Account
    BY <2>1, 0 \in Nat, TRUE \in BOOLEAN DEF Account
  <2>3. failed(r).status = r.status /\ failed(r).removed = r.removed /\ failed(r).fails = 0 /\ failed(r).locked = TRUE
    BY <2>1 DEF Account
  <2> QED BY <2>2, <2>3, MaxFailuresTyped
<1>3. CASE ~(r.fails + 1 >= MaxFailures)
  <2> DEFINE f == r.fails + 1
  <2>1. failed(r) = [r EXCEPT !.fails = f]
    BY <1>3 DEF failed
  <2>2. f \in Nat /\ f < MaxFailures
    BY <1>1, <1>3, MaxFailuresTyped
  <2>f. f = r.fails + 1
    OBVIOUS
  <2> HIDE DEF f
  <2>3. failed(r) \in Account
    BY <2>1, <2>2 DEF Account
  <2>4. failed(r).status = r.status /\ failed(r).removed = r.removed /\ failed(r).fails = f /\ failed(r).locked = r.locked
    BY <2>1 DEF Account
  <2> QED BY <2>2, <2>3, <2>4, <2>f
<1> QED BY <1>2, <1>3

\* A failure is recorded: the row of an account that is there.
LEMMA FailureRecorded ==
    ASSUME SignIInv, NEW u \in Users, RecordLoginFailure(u)
    PROVE  /\ account' \in [Users -> Account]
           /\ \A v \in Users : account'[v].status = account[v].status /\ account'[v].removed = account[v].removed
           /\ \A v \in Users \ {u} : account'[v] = account[v]
           /\ account'[u] = IF account[u].status = "free" THEN account[u] ELSE failed(account[u])
<1>1. account \in [Users -> Account] /\ account[u].fails < MaxFailures
  BY DEF SignIInv, AccountIInv, AccountTyping, Counted
<1>2. failed(account[u]) \in Account /\ failed(account[u]).status = account[u].status /\ failed(account[u]).removed = account[u].removed
  BY <1>1, FailedTyped
<1>3. account' = IF account[u].status # "free" THEN [account EXCEPT ![u] = failed(account[u])] ELSE account
  BY DEF RecordLoginFailure, Exists
<1> QED BY <1>1, <1>2, <1>3

\* A wrong password is counted, and no guess with it.
LEMMA CountFailed ==
    ASSUME SignIInv, NEW u \in Users, RecordLoginFailure(u), guesses' = guesses,
           \A q \in SReqs, v \in Users : Guessing(q, v)' => Guessing(q, v)
    PROVE  \A v \in Users : Counted(v)'
<1> TAKE v \in Users
<1>0. /\ \A x \in Users \ {u} : account'[x] = account[x]
      /\ account'[u] = IF account[u].status = "free" THEN account[u] ELSE failed(account[u])
  BY FailureRecorded
<1>1. CASE v # u \/ account[u].status = "free"
  <2>1. account'[v] = account[v]
    BY <1>0, <1>1
  <2> QED BY <2>1, CountStays
<1>2. CASE v = u /\ account[u].status # "free"
  <2>1. account'[u] = failed(account[u]) /\ account[u] \in Account /\ account[u].fails < MaxFailures /\ guesses[u] \in Nat
    BY <1>0, <1>2 DEF SignIInv, AccountIInv, AccountTyping, Counted, SignTyping
  <2>2. account[u].fails \in Nat
    BY <2>1 DEF Account
  <2>3. /\ account'[u].status = account[u].status /\ account'[u].fails \in Nat /\ account'[u].fails < MaxFailures
        /\ ((account'[u].locked = account[u].locked /\ account'[u].fails = account[u].fails + 1) \/ account'[u].locked = TRUE)
    BY <2>1, FailedTyped
  <2>4. ~account'[u].locked => guesses[u] <= account'[u].fails
    BY <2>1, <2>2, <2>3 DEF SignIInv, Counted
  <2>5. /\ guesses[u] <= MaxFailures
        /\ (\E q \in SReqs : Guessing(q, u)) => guesses[u] < MaxFailures
    BY DEF SignIInv, Counted
  <2> QED BY <1>2, <2>3, <2>4, <2>5 DEF Counted
<1> QED BY <1>1, <1>2

\* A wrong code is counted, and the guess with it; no one else compares one.
LEMMA CountWrong ==
    ASSUME SignIInv, NEW q \in SReqs, NEW u \in Users, Guessing(q, u), RecordLoginFailure(u),
           guesses' = [guesses EXCEPT ![u] = @ + 1],
           \A o \in SReqs, v \in Users : Guessing(o, v)' => Guessing(o, v) /\ o # q
    PROVE  /\ \A v \in Users : Counted(v)'
           /\ guesses' \in [Users -> Nat]
<1>0. /\ \A x \in Users \ {u} : account'[x] = account[x]
      /\ account'[u] = IF account[u].status = "free" THEN account[u] ELSE failed(account[u])
  BY FailureRecorded
<1>1. /\ account[u].status # "free" /\ account[u] \in Account /\ account[u].fails < MaxFailures
      /\ guesses \in [Users -> Nat] /\ guesses[u] \in Nat /\ guesses[u] < MaxFailures
  BY DEF SignIInv, AccountIInv, AccountTyping, Counted, SignTyping
<1>2. guesses'[u] = guesses[u] + 1 /\ \A v \in Users \ {u} : guesses'[v] = guesses[v]
  BY <1>1
<1>3. \A v \in Users \ {u} : Counted(v)'
  BY <1>0, <1>2, CountStays
<1>4. Counted(u)'
  <2>1. account[u].fails \in Nat
    BY <1>1 DEF Account
  <2>2. /\ account'[u].status = account[u].status /\ account'[u].fails \in Nat /\ account'[u].fails < MaxFailures
        /\ ((account'[u].locked = account[u].locked /\ account'[u].fails = account[u].fails + 1) \/ account'[u].locked = TRUE)
    BY <1>0, <1>1, FailedTyped
  <2>3. ~account'[u].locked => guesses'[u] <= account'[u].fails
    BY <1>1, <1>2, <2>1, <2>2 DEF SignIInv, Counted
  <2>4. guesses'[u] <= MaxFailures
    BY <1>1, <1>2, MaxFailuresTyped
  <2>5. ~\E o \in SReqs : Guessing(o, u)'
    <3> SUFFICES ASSUME NEW o \in SReqs, Guessing(o, u)' PROVE FALSE
      OBVIOUS
    <3>1. Guessing(o, u) /\ o # q
      OBVIOUS
    <3> QED BY <3>1 DEF Guessing, SignIInv, SignRequests, Checking
  <2> QED BY <1>1, <2>2, <2>3, <2>4, <2>5 DEF Counted
<1> QED BY <1>1, <1>2, <1>3, <1>4

\* A row written anew, its count cleared.
LEMMA CountReset ==
    ASSUME SignIInv, NEW u \in Users, NEW x \in Account, x.fails = 0, ~x.locked,
           x.status = account[u].status, x.removed = account[u].removed,
           (account[u].status = "free" /\ account' = account) \/ account' = [account EXCEPT ![u] = x],
           guesses' = [guesses EXCEPT ![u] = 0],
           \A q \in SReqs, v \in Users : Guessing(q, v)' => Guessing(q, v)
    PROVE  /\ account' \in [Users -> Account] /\ guesses' \in [Users -> Nat]
           /\ \A v \in Users : account'[v].status = account[v].status /\ account'[v].removed = account[v].removed
           /\ \A v \in Users : Counted(v)'
<1>1. account \in [Users -> Account] /\ guesses \in [Users -> Nat]
  BY DEF SignIInv, AccountIInv, AccountTyping, SignTyping
<1>2. account' \in [Users -> Account] /\ guesses' \in [Users -> Nat]
  BY <1>1
<1>3. \A v \in Users : account'[v].status = account[v].status /\ account'[v].removed = account[v].removed
  BY <1>1
<1>4. \A v \in Users \ {u} : Counted(v)'
  BY <1>1, CountStays
<1>5. Counted(u)'
  <2>1. CASE account[u].status = "free" /\ account' = account
    <3>1. guesses[u] = 0 /\ guesses'[u] = 0
      BY <2>1, <1>1 DEF SignIInv, Counted
    <3> QED BY <2>1, <3>1, CountStays
  <2>2. CASE account' = [account EXCEPT ![u] = x]
    <3>1. account'[u] = x /\ guesses'[u] = 0
      BY <2>2, <1>1
    <3> QED BY <3>1, CountCleared
  <2> QED BY <2>1, <2>2
<1> QED BY <1>2, <1>3, <1>4, <1>5

\* RecordLoginSuccess and SetPasswordHash clear the count.
LEMMA SuccessRecorded ==
    ASSUME SignIInv, NEW u \in Users,
           \/ RecordLoginSuccess(u)
           \/ \E pw \in Passwords \cup {None}, owed \in BOOLEAN : SetPasswordHash(u, pw, owed),
           \A q \in SReqs, v \in Users : Guessing(q, v)' => Guessing(q, v)
    PROVE  /\ account' \in [Users -> Account] /\ guesses' \in [Users -> Nat]
           /\ \A v \in Users : account'[v].status = account[v].status /\ account'[v].removed = account[v].removed
           /\ \A v \in Users : Counted(v)'
<1>1. account \in [Users -> Account] /\ account[u] \in Account /\ 0 \in Nat
  BY DEF SignIInv, AccountIInv, AccountTyping
<1>2. CASE RecordLoginSuccess(u)
  <2> DEFINE x == [account[u] EXCEPT !.fails = 0, !.locked = FALSE]
  <2>1. x \in Account
    BY <1>1 DEF Account
  <2>2. x.fails = 0 /\ ~x.locked /\ x.status = account[u].status /\ x.removed = account[u].removed
    BY <1>1 DEF Account
  <2>3. /\ (account[u].status = "free" /\ account' = account) \/ account' = [account EXCEPT ![u] = x]
        /\ guesses' = [guesses EXCEPT ![u] = 0]
    BY <1>1, <1>2 DEF RecordLoginSuccess, Exists, Anew
  <2>x. PICK y : y = x
    OBVIOUS
  <2> HIDE DEF x
  <2> QED BY <2>1, <2>2, <2>3, <2>x, CountReset
<1>3. ASSUME NEW pw \in Passwords \cup {None}, NEW owed \in BOOLEAN, SetPasswordHash(u, pw, owed)
      PROVE  /\ account' \in [Users -> Account] /\ guesses' \in [Users -> Nat]
             /\ \A v \in Users : account'[v].status = account[v].status /\ account'[v].removed = account[v].removed
             /\ \A v \in Users : Counted(v)'
  <2> DEFINE x == [account[u] EXCEPT !.pw = pw, !.weak = FALSE, !.owed = owed, !.fails = 0, !.locked = FALSE]
  <2>1. x \in Account
    BY <1>1 DEF Account
  <2>2. x.fails = 0 /\ ~x.locked /\ x.status = account[u].status /\ x.removed = account[u].removed
    BY <1>1 DEF Account
  <2>3. /\ (account[u].status = "free" /\ account' = account) \/ account' = [account EXCEPT ![u] = x]
        /\ guesses' = [guesses EXCEPT ![u] = 0]
    BY <1>1, <1>3 DEF SetPasswordHash, Exists
  <2>x. PICK y : y = x
    OBVIOUS
  <2> HIDE DEF x
  <2> QED BY <2>1, <2>2, <2>3, <2>x, CountReset
<1> QED BY <1>2, <1>3

\* The end of a lock: the failures counted since it began stay.
LEMMA LockEnds ==
    ASSUME SignIInv, NEW u \in Users, account' = [account EXCEPT ![u].locked = FALSE], Anew(u), sreq' = sreq
    PROVE  /\ account' \in [Users -> Account] /\ guesses' \in [Users -> Nat]
           /\ \A v \in Users : account'[v].status = account[v].status /\ account'[v].removed = account[v].removed
           /\ \A v \in Users : Counted(v)'
<1>1. account \in [Users -> Account] /\ account[u] \in Account /\ guesses \in [Users -> Nat]
  BY DEF SignIInv, AccountIInv, AccountTyping, SignTyping
<1> DEFINE x == [account[u] EXCEPT !.locked = FALSE]
<1>2. x \in Account
  BY <1>1 DEF Account
<1>3. x.fails = account[u].fails /\ ~x.locked /\ x.status = account[u].status /\ x.removed = account[u].removed /\ x.fails \in Nat
  BY <1>1 DEF Account
<1>4. account' = [account EXCEPT ![u] = x] /\ guesses' = [guesses EXCEPT ![u] = 0]
  BY <1>1 DEF Anew
<1> HIDE DEF x
<1>5. account'[u] = x /\ guesses'[u] = 0 /\ account' \in [Users -> Account] /\ guesses' \in [Users -> Nat]
      /\ \A v \in Users \ {u} : account'[v] = account[v] /\ guesses'[v] = guesses[v]
  BY <1>1, <1>2, <1>4
<1>6. \A v \in Users : account'[v].status = account[v].status /\ account'[v].removed = account[v].removed
  BY <1>3, <1>5
<1>7. \A q \in SReqs, v \in Users : Guessing(q, v)' => Guessing(q, v)
  BY DEF Guessing
<1>8. \A v \in Users \ {u} : Counted(v)'
  BY <1>5, <1>7, CountStays
<1>9. Counted(u)'
  BY <1>3, <1>5, <1>7, MaxFailuresTyped DEF SignIInv, Counted
<1> QED BY <1>5, <1>6, <1>8, <1>9

\* Sessions that are written one by one.
LEMMA SessionsWritten ==
    ASSUME SignIInv, DOMAIN wsess' = WSess, wsess' = [s \in WSess |-> wsess'[s]],
           \A s \in WSess : wsess'[s] \in SessionRec /\ (wsess'[s].state # "free" => wsess'[s].user \in Users)
    PROVE  wsess' \in [WSess -> SessionRec] /\ SessionsOwned'
BY DEF SessionsOwned

\* One session is written.
LEMMA SessionWritten ==
    ASSUME SignIInv, NEW s \in WSess, NEW x \in SessionRec, x.state # "free" => x.user \in Users,
           wsess' = [wsess EXCEPT ![s] = x]
    PROVE  wsess' \in [WSess -> SessionRec] /\ SessionsOwned'
BY DEF SessionsOwned, SignIInv, AccountIInv, AccountTyping

\* A session of the table, and that session revoked.
LEMMA SessionRead ==
    ASSUME SignIInv, NEW s \in WSess
    PROVE  /\ wsess[s] \in SessionRec /\ (wsess[s].state # "free" => wsess[s].user \in Users)
           /\ [wsess[s] EXCEPT !.state = "revoked"] \in SessionRec
           /\ wsess[s].state # "free" => [wsess[s] EXCEPT !.state = "revoked"].user \in Users
<1>1. wsess[s] \in SessionRec /\ (wsess[s].state # "free" => wsess[s].user \in Users)
  BY DEF SessionsOwned, SignIInv, AccountIInv, AccountTyping
<1>2. [wsess[s] EXCEPT !.state = "revoked"] \in SessionRec /\ [wsess[s] EXCEPT !.state = "revoked"].user = wsess[s].user
  BY <1>1 DEF SessionRec
<1> QED BY <1>1, <1>2

\* The table is left alone, one session of it is revoked, or some of an account are.
LEMMA SessionsRevoked ==
    ASSUME SignIInv,
           \/ wsess' = wsess
           \/ \E s \in WSess : wsess' = Revoked(s)
           \/ \E u \in Users : RevokeAllForUser(u) \/ \E k \in WSess : RevokeOthers(u, k)
    PROVE  wsess' \in [WSess -> SessionRec] /\ SessionsOwned'
<1>1. CASE wsess' = wsess
  BY <1>1 DEF SessionsOwned, SignIInv, AccountIInv, AccountTyping
<1>2. ASSUME NEW s \in WSess, wsess' = Revoked(s) PROVE wsess' \in [WSess -> SessionRec] /\ SessionsOwned'
  <2> DEFINE x == IF wsess[s].state = "free" THEN wsess[s] ELSE [wsess[s] EXCEPT !.state = "revoked"]
  <2>1. wsess' = [wsess EXCEPT ![s] = x]
    <3>1. CASE wsess[s].state = "free"
      <4>1. [wsess EXCEPT ![s].state = IF @ = "free" THEN @ ELSE "revoked"] = wsess
        BY <3>1 DEF SignIInv, AccountIInv, AccountTyping, SessionRec
      <4> QED BY <4>1, <1>2, <3>1 DEF Revoked, SignIInv, AccountIInv, AccountTyping
    <3>2. CASE wsess[s].state # "free"
      BY <1>2, <3>2 DEF Revoked, SignIInv, AccountIInv, AccountTyping
    <3> QED BY <3>1, <3>2
  <2>2. x \in SessionRec /\ (x.state # "free" => x.user \in Users)
    BY SessionRead
  <2>x. PICK y : y = x
    OBVIOUS
  <2> HIDE DEF x
  <2> QED BY <2>1, <2>2, <2>x, SessionWritten
<1>3. ASSUME NEW u \in Users, RevokeAllForUser(u) \/ \E k \in WSess : RevokeOthers(u, k)
      PROVE wsess' \in [WSess -> SessionRec] /\ SessionsOwned'
  <2>1. DOMAIN wsess' = WSess /\ wsess' = [s \in WSess |-> wsess'[s]]
    BY <1>3 DEF RevokeAllForUser, RevokeOthers
  <2>2. \A s \in WSess : wsess'[s] = wsess[s] \/ (wsess[s].state # "free" /\ wsess'[s] = [wsess[s] EXCEPT !.state = "revoked"])
    BY <1>3 DEF RevokeAllForUser, RevokeOthers, LiveSession
  <2>3. \A s \in WSess : wsess'[s] \in SessionRec /\ (wsess'[s].state # "free" => wsess'[s].user \in Users)
    BY <2>2, SessionRead
  <2> QED BY <2>1, <2>3, SessionsWritten
<1> QED BY <1>1, <1>2, <1>3

\* A session that is verified stays whose it is, and one that is not there stays away.
LEMMA VerifiedTyped ==
    ASSUME SignIInv, NEW s \in WSess, NEW b \in BOOLEAN
    PROVE  /\ Verified(s, b) \in [WSess -> SessionRec]
           /\ \A o \in WSess : Verified(s, b)[o].state # "free" => Verified(s, b)[o].user \in Users
<1> DEFINE st == IF wsess[s].state = "partial" THEN "full" ELSE wsess[s].state
           pr == wsess[s].proved \/ b
           x == [wsess[s] EXCEPT !.state = st, !.proved = pr]
<1>1. wsess \in [WSess -> SessionRec] /\ wsess[s] \in SessionRec /\ wsess[s].proved \in BOOLEAN
  BY DEF SignIInv, AccountIInv, AccountTyping, SessionRec
<1>2. st \in {"free", "partial", "full", "revoked"} /\ (st = "free" <=> wsess[s].state = "free") /\ pr \in BOOLEAN
  BY <1>1 DEF SessionRec
<1>3. Verified(s, b) = [wsess EXCEPT ![s] = x]
  BY <1>1 DEF Verified
<1> HIDE DEF st, pr
<1>4. x \in SessionRec /\ x.state = st /\ x.user = wsess[s].user
  BY <1>1, <1>2 DEF SessionRec
<1> HIDE DEF x
<1>5. \A o \in WSess : wsess[o].state # "free" => wsess[o].user \in Users
  BY SessionRead
<1> QED BY <1>1, <1>2, <1>3, <1>4, <1>5

\* The table with a session verified.
LEMMA SessionVerified ==
    ASSUME SignIInv, NEW s \in WSess, NEW b \in BOOLEAN, wsess' = Verified(s, b)
    PROVE  wsess' \in [WSess -> SessionRec] /\ SessionsOwned'
BY VerifiedTyped DEF SessionsOwned

\* A step that counts nothing.
LEMMA QuietStep ==
    ASSUME SignIInv, UNCHANGED <<account, guesses, token, ureq, decided>>,
           wsess' \in [WSess -> SessionRec], SessionsOwned', ulive' \in SUBSET Users,
           totp' \in [Users -> TotpRec], recovery' \in [Users -> CodesRec],
           attempts' \in [WSess -> Nat], stepUp' \in [WSess -> StepUpRec],
           SignRequests', \A q \in SReqs, u \in Users : Guessing(q, u)' => Guessing(q, u)
    PROVE  SignIInv'
<1>1. \A u \in Users : Counted(u)'
  BY CountStays
<1>2. account' \in [Users -> Account] /\ SignTyping'
  BY DEF SignIInv, AccountIInv, AccountTyping, SignTyping
<1> QED BY <1>1, <1>2, SignKept

\* The tables of a step that leaves them alone.
LEMMA TablesTyped ==
    ASSUME SignIInv
    PROVE  /\ account \in [Users -> Account] /\ wsess \in [WSess -> SessionRec] /\ ulive \in SUBSET Users
           /\ totp \in [Users -> TotpRec] /\ recovery \in [Users -> CodesRec]
           /\ attempts \in [WSess -> Nat] /\ stepUp \in [WSess -> StepUpRec] /\ guesses \in [Users -> Nat]
           /\ SignRequests /\ SessionsOwned
           /\ sreq \in [SReqs -> SignRec] /\ \A q \in SReqs : Sound(sreq[q])
BY DEF SignIInv, AccountIInv, AccountTyping, SignTyping, SignRequests

\* A request that takes up an account.
LEMMA TakenUp ==
    ASSUME SignIInv, NEW q \in SReqs, NEW u \in Users, NEW x \in SignRec, Takes(q, u, x), codeLock' = codeLock,
           x.pc \notin Checking, x.pc \in OnSession => x.sess \in WSess
    PROVE  SignRequests' /\ \A o \in SReqs, v \in Users : Guessing(o, v)' => Guessing(o, v)
<1> DEFINE y == [x EXCEPT !.user = u]
<1>1. sreq' = [sreq EXCEPT ![q] = y]
  BY DEF Takes
<1>2. y \in SignRec /\ y.pc = x.pc /\ y.sess = x.sess /\ y.user = u
  BY DEF SignRec
<1>y. PICK z : z = y
  OBVIOUS
<1> HIDE DEF y
<1>3. Sound(y) /\ y.pc \notin Checking /\ y.pc \notin {"code", "confirm"}
  BY <1>2 DEF Sound, Checking
<1> QED BY <1>1, <1>3, <1>y, RequestGoes, TablesTyped

\* A request that goes on to its next statement, or ends.
LEMMA WentOn ==
    ASSUME SignIInv, NEW q \in SReqs, sreq[q].pc # "idle",
           \/ Stops(q)
           \/ \E pc \in {"rehash", "accepted", "others", "finish", "prove", "confirmed"} :
                 Goes(q, pc) /\ (pc \in OnSession => sreq[q].sess \in WSess),
           \/ codeLock' = codeLock
           \/ sreq[q].pc \in Checking /\ Releases(sreq[q].user)
    PROVE  SignRequests' /\ \A o \in SReqs, v \in Users : Guessing(o, v)' => Guessing(o, v) /\ o # q
<1>0. sreq \in [SReqs -> SignRec] /\ sreq[q] \in SignRec /\ sreq[q].user \in Users
  BY TablesTyped DEF Sound
<1>1. CASE Stops(q)
  BY <1>1, SignNone, RequestGoes, TablesTyped DEF Stops, Checking, Releases
<1>2. ASSUME NEW pc \in {"rehash", "accepted", "others", "finish", "prove", "confirmed"},
             Goes(q, pc), pc \in OnSession => sreq[q].sess \in WSess
      PROVE  SignRequests' /\ \A o \in SReqs, v \in Users : Guessing(o, v)' => Guessing(o, v) /\ o # q
  <2> DEFINE y == [sreq[q] EXCEPT !.pc = pc]
  <2>1. sreq' = [sreq EXCEPT ![q] = y]
    BY <1>2, <1>0 DEF Goes
  <2>2. y \in SignRec /\ y.pc = pc /\ y.sess = sreq[q].sess /\ y.user = sreq[q].user
    BY <1>0 DEF SignRec
  <2>y. PICK z : z = y
    OBVIOUS
  <2> HIDE DEF y
  <2>3. Sound(y) /\ y.pc \notin Checking /\ y.pc \notin {"code", "confirm"}
    BY <1>0, <1>2, <2>2 DEF Sound, Checking
  <2> QED BY <2>1, <2>3, <2>y, RequestGoes, TablesTyped DEF Releases
<1> QED BY <1>1, <1>2

\* A request that is where it works on a session has one, and an account.
LEMMA AtWork ==
    ASSUME SignIInv, NEW q \in SReqs, sreq[q].pc # "idle"
    PROVE  /\ sreq[q].user \in Users /\ (sreq[q].pc \in OnSession => sreq[q].sess \in WSess)
           /\ sreq[q].guess \in Passwords \cup {None} /\ sreq[q].owed \in BOOLEAN /\ sreq[q].mfa \in BOOLEAN
           /\ sreq[q].seed \in Seeds \cup {None} /\ sreq[q].step \in Nat /\ sreq[q].weak \in BOOLEAN
<1>1. Sound(sreq[q])
  BY TablesTyped
<1> QED BY <1>1 DEF Sound, SignRec

\* A failure is counted by a step that touches no other table.
LEMMA FailureStep ==
    ASSUME SignIInv, NEW u \in Users, RecordLoginFailure(u), guesses' = guesses,
           UNCHANGED <<wsess, restOfAccounts, totp, recovery, attempts, stepUp>>,
           SignRequests', \A q \in SReqs, v \in Users : Guessing(q, v)' => Guessing(q, v)
    PROVE  SignIInv'
<1>1. UNCHANGED <<wsess, ulive, token, ureq, decided, totp, recovery, attempts, stepUp>>
  BY DEF restOfAccounts
<1>2. \A v \in Users : Counted(v)'
  BY CountFailed
<1>3. /\ account' \in [Users -> Account]
      /\ \A v \in Users : account'[v].status = account[v].status /\ account'[v].removed = account[v].removed
  BY FailureRecorded
<1>4. SignTyping' /\ wsess' \in [WSess -> SessionRec] /\ SessionsOwned' /\ ulive' \in SUBSET Users
  BY <1>1, TablesTyped DEF SignTyping, SessionsOwned
<1> QED BY <1>1, <1>2, <1>3, <1>4, SignKept

\* The count is cleared by a step that writes the tables with what they may hold.
LEMMA SuccessStep ==
    ASSUME SignIInv, NEW u \in Users,
           \/ RecordLoginSuccess(u)
           \/ \E pw \in Passwords \cup {None}, owed \in BOOLEAN : SetPasswordHash(u, pw, owed),
           UNCHANGED <<restOfAccounts, attempts, stepUp>>, wsess' \in [WSess -> SessionRec], SessionsOwned',
           totp' \in [Users -> TotpRec], recovery' \in [Users -> CodesRec],
           SignRequests', \A q \in SReqs, v \in Users : Guessing(q, v)' => Guessing(q, v)
    PROVE  SignIInv'
<1>1. UNCHANGED <<ulive, token, ureq, decided, attempts, stepUp>>
  BY DEF restOfAccounts
<1>2. /\ account' \in [Users -> Account] /\ guesses' \in [Users -> Nat]
      /\ \A v \in Users : account'[v].status = account[v].status /\ account'[v].removed = account[v].removed
      /\ \A v \in Users : Counted(v)'
  BY SuccessRecorded
<1>3. SignTyping' /\ ulive' \in SUBSET Users
  BY <1>1, <1>2, TablesTyped DEF SignTyping
<1> QED BY <1>1, <1>2, <1>3, SignKept

\* The password's check.
LEMMA PasswordChecked ==
    ASSUME SignIInv, NEW q \in SReqs,
           \/ \E u \in Users, guess \in Passwords \cup {None} : LoginStart(q, u, guess)
           \/ \E d \in {"right", "wrong", "unavailable"} : LoginCheck(q, d)
           \/ LoginRehash(q)
    PROVE  SignIInv'
<1>0. /\ account \in [Users -> Account] /\ wsess \in [WSess -> SessionRec] /\ ulive \in SUBSET Users
      /\ totp \in [Users -> TotpRec] /\ recovery \in [Users -> CodesRec]
      /\ attempts \in [WSess -> Nat] /\ stepUp \in [WSess -> StepUpRec] /\ SessionsOwned
  BY TablesTyped
<1>1. ASSUME NEW u \in Users, NEW guess \in Passwords \cup {None}, LoginStart(q, u, guess) PROVE SignIInv'
  <2>1. PICK pw \in Passwords \cup {None} : pw = account[u].pw
    BY <1>0 DEF Account
  <2>2. PICK weak \in BOOLEAN : weak = account[u].weak
    BY <1>0 DEF Account
  <2>3. PICK owed \in BOOLEAN : owed = account[u].owed
    BY <1>0 DEF Account
  <2> DEFINE x == [SIdle EXCEPT !.pc = "password", !.guess = guess, !.pw = pw, !.weak = weak, !.owed = owed]
  <2>4. Takes(q, u, x) /\ UNCHANGED <<acctVars, totp, recovery, attempts, stepUp, codeLock, guesses>>
    BY <1>1, <2>1, <2>2, <2>3 DEF LoginStart
  <2>5. x \in SignRec /\ x.pc = "password"
    <3> DEFINE y == [SIdle EXCEPT !.pc = "password", !.guess = guess, !.pw = pw]
    <3>1. y \in SignRec /\ y.pc = "password"
      BY SignNone DEF SignRec
    <3>2. x = [y EXCEPT !.weak = weak, !.owed = owed]
      OBVIOUS
    <3> HIDE DEF x, y
    <3> QED BY <3>1, <3>2 DEF SignRec
  <2> HIDE DEF x
  <2>6. SignRequests' /\ \A o \in SReqs, v \in Users : Guessing(o, v)' => Guessing(o, v)
    BY <2>4, <2>5, TakenUp DEF Checking, OnSession
  <2> QED BY <1>0, <2>4, <2>6, QuietStep DEF acctVars, SessionsOwned
<1>2. ASSUME NEW d \in {"right", "wrong", "unavailable"}, LoginCheck(q, d) PROVE SignIInv'
  <2>1. sreq[q].pc = "password" /\ UNCHANGED <<wsess, restOfAccounts, totp, recovery, attempts, stepUp, codeLock, guesses>>
    BY <1>2 DEF LoginCheck
  <2>2. sreq[q].user \in Users
    BY <2>1, AtWork
  <2>3. \/ (Goes(q, "rehash") \/ Goes(q, "accepted")) /\ account' = account
        \/ Stops(q) /\ (account' = account \/ RecordLoginFailure(sreq[q].user))
    BY <1>2 DEF LoginCheck
  <2>4. SignRequests' /\ \A o \in SReqs, v \in Users : Guessing(o, v)' => Guessing(o, v)
    BY <2>1, <2>3, WentOn DEF OnSession
  <2>5. CASE account' = account
    BY <1>0, <2>1, <2>4, <2>5, QuietStep DEF restOfAccounts, SessionsOwned
  <2>6. CASE RecordLoginFailure(sreq[q].user)
    BY <2>1, <2>2, <2>4, <2>6, FailureStep
  <2> QED BY <2>3, <2>5, <2>6
<1>3. CASE LoginRehash(q)
  <2>1. /\ sreq[q].pc = "rehash" /\ Goes(q, "accepted")
        /\ SetPasswordHash(sreq[q].user, sreq[q].guess, sreq[q].owed)
        /\ UNCHANGED <<wsess, restOfAccounts, totp, recovery, attempts, stepUp, codeLock>>
    BY <1>3 DEF LoginRehash
  <2>2. sreq[q].user \in Users /\ sreq[q].guess \in Passwords \cup {None} /\ sreq[q].owed \in BOOLEAN
    BY <2>1, AtWork
  <2>3. SignRequests' /\ \A o \in SReqs, v \in Users : Guessing(o, v)' => Guessing(o, v)
    BY <2>1, WentOn DEF OnSession
  <2> QED BY <1>0, <2>1, <2>2, <2>3, SuccessStep DEF SessionsOwned
<1> QED BY <1>1, <1>2, <1>3

\* The session that is issued.
LEMMA SessionIssued ==
    ASSUME SignIInv, NEW q \in SReqs,
           \/ \E old \in WSess \cup {None} : LoginReplace(q, old)
           \/ \E s \in WSess, require \in BOOLEAN : LoginIssue(q, s, require)
    PROVE  SignIInv'
<1>0. /\ account \in [Users -> Account] /\ wsess \in [WSess -> SessionRec] /\ ulive \in SUBSET Users
      /\ totp \in [Users -> TotpRec] /\ recovery \in [Users -> CodesRec]
      /\ attempts \in [WSess -> Nat] /\ stepUp \in [WSess -> StepUpRec] /\ SessionsOwned
      /\ sreq \in [SReqs -> SignRec] /\ Sound(sreq[q]) /\ SignRequests
  BY TablesTyped
<1>1. ASSUME NEW old \in WSess \cup {None}, LoginReplace(q, old) PROVE SignIInv'
  <2>0. sreq[q].pc = "accepted" /\ UNCHANGED <<account, restOfAccounts, totp, recovery, attempts, stepUp, codeLock, guesses>>
    BY <1>1 DEF LoginReplace
  <2>1. sreq[q] \in SignRec /\ sreq[q].user \in Users
    BY <1>0, <2>0, AtWork
  <2>2. PICK e \in BOOLEAN : e = Enrolled(sreq[q].user)
    BY <1>0, <2>1 DEF Enrolled, TotpRec
  <2> DEFINE x == [sreq[q] EXCEPT !.pc = "issue", !.enrolled = e]
  <2>3. sreq' = [sreq EXCEPT ![q] = x]
    BY <1>0, <1>1, <2>2 DEF LoginReplace
  <2>4. x \in SignRec /\ x.pc = "issue" /\ x.user = sreq[q].user
    BY <2>1 DEF SignRec
  <2>x. PICK y : y = x
    OBVIOUS
  <2> HIDE DEF x
  <2>5. Sound(x) /\ x.pc \notin Checking
    BY <2>1, <2>4 DEF Sound, OnSession, Checking
  <2>6. SignRequests' /\ \A o \in SReqs, v \in Users : Guessing(o, v)' => Guessing(o, v)
    BY <1>0, <2>0, <2>3, <2>5, <2>x, RequestGoes DEF Checking
  <2>7. wsess' \in [WSess -> SessionRec] /\ SessionsOwned'
    BY <1>1, SessionsRevoked DEF LoginReplace
  <2> QED BY <1>0, <2>0, <2>6, <2>7, QuietStep DEF restOfAccounts
<1>2. ASSUME NEW s \in WSess, NEW require \in BOOLEAN, LoginIssue(q, s, require) PROVE SignIInv'
  <2>1. sreq[q].pc = "issue" /\ Stops(q) /\ UNCHANGED <<restOfAccounts, totp, recovery, attempts, stepUp, codeLock>>
    BY <1>2 DEF LoginIssue
  <2>2. sreq[q].user \in Users
    BY <2>1, AtWork
  <2>3. SignRequests' /\ \A o \in SReqs, v \in Users : Guessing(o, v)' => Guessing(o, v)
    BY <2>1, WentOn
  <2>4. wsess' \in [WSess -> SessionRec] /\ SessionsOwned'
    <3>1. PICK st \in {"full", "partial"} :
             wsess' = wsess \/ wsess' = [wsess EXCEPT ![s] = [state |-> st, user |-> sreq[q].user, proved |-> FALSE]]
      BY <1>2 DEF LoginIssue
    <3> DEFINE x == [state |-> st, user |-> sreq[q].user, proved |-> FALSE]
    <3>2. x \in SessionRec /\ x.user \in Users
      BY <2>2 DEF SessionRec
    <3>x. PICK y : y = x
      OBVIOUS
    <3>3. CASE wsess' = wsess
      BY <3>3, SessionsRevoked
    <3>4. CASE wsess' = [wsess EXCEPT ![s] = x]
      <4> HIDE DEF x
      <4> QED BY <3>2, <3>4, <3>x, SessionWritten
    <3> QED BY <3>1, <3>3, <3>4
  <2>5. CASE account' = account /\ guesses' = guesses
    BY <1>0, <2>1, <2>3, <2>4, <2>5, QuietStep DEF restOfAccounts
  <2>6. CASE RecordLoginSuccess(sreq[q].user)
    BY <1>0, <2>1, <2>2, <2>3, <2>4, <2>6, SuccessStep
  <2> QED BY <1>2, <2>5, <2>6 DEF LoginIssue
<1> QED BY <1>1, <1>2

\* Sessions end, and locks.
LEMMA SessionEnds ==
    ASSUME SignIInv, \/ \E s \in WSess : Logout(s) \/ SessionExpires(s)
                     \/ \E u \in Users : Unlocks(u)
    PROVE  SignIInv'
<1>0. /\ account \in [Users -> Account] /\ wsess \in [WSess -> SessionRec] /\ ulive \in SUBSET Users
      /\ totp \in [Users -> TotpRec] /\ recovery \in [Users -> CodesRec]
      /\ attempts \in [WSess -> Nat] /\ stepUp \in [WSess -> StepUpRec] /\ SessionsOwned /\ SignRequests
  BY TablesTyped
<1>1. ASSUME sreq' = sreq, codeLock' = codeLock
      PROVE  SignRequests' /\ \A o \in SReqs, v \in Users : Guessing(o, v)' => Guessing(o, v)
  BY <1>0, <1>1 DEF SignRequests, Guessing
<1>2. ASSUME NEW s \in WSess, Logout(s) PROVE SignIInv'
  <2>1. wsess' = Revoked(s) /\ UNCHANGED <<account, restOfAccounts, signVars>>
    BY <1>2 DEF Logout
  <2>2. wsess' \in [WSess -> SessionRec] /\ SessionsOwned'
    BY <2>1, SessionsRevoked
  <2> QED BY <1>0, <1>1, <2>1, <2>2, QuietStep DEF restOfAccounts, signVars
<1>3. ASSUME NEW s \in WSess, SessionExpires(s) PROVE SignIInv'
  <2> DEFINE z == [fails |-> 0, closed |-> FALSE]
  <2>1. /\ wsess' = [wsess EXCEPT ![s] = NoWSess] /\ attempts' = [attempts EXCEPT ![s] = 0]
        /\ stepUp' = [stepUp EXCEPT ![s] = z]
        /\ UNCHANGED <<account, restOfAccounts, totp, recovery, codeLock, sreq, guesses>>
    BY <1>3 DEF SessionExpires
  <2>2. z \in StepUpRec
    BY SignNone
  <2> HIDE DEF z
  <2>3. attempts' \in [WSess -> Nat] /\ stepUp' \in [WSess -> StepUpRec]
    BY <1>0, <2>1, <2>2
  <2>4. wsess' \in [WSess -> SessionRec] /\ SessionsOwned'
    BY <2>1, NoneTyped, SessionWritten
  <2> QED BY <1>0, <1>1, <2>1, <2>3, <2>4, QuietStep DEF restOfAccounts
<1>4. ASSUME NEW u \in Users, Unlocks(u) PROVE SignIInv'
  <2>1. /\ account' = [account EXCEPT ![u].locked = FALSE] /\ Anew(u)
        /\ UNCHANGED <<wsess, restOfAccounts, totp, recovery, attempts, stepUp, codeLock, sreq>>
    BY <1>4 DEF Unlocks
  <2>2. /\ account' \in [Users -> Account] /\ guesses' \in [Users -> Nat]
        /\ \A v \in Users : account'[v].status = account[v].status /\ account'[v].removed = account[v].removed
        /\ \A v \in Users : Counted(v)'
    BY <2>1, LockEnds
  <2>3. SignTyping' /\ wsess' \in [WSess -> SessionRec] /\ SessionsOwned' /\ ulive' \in SUBSET Users /\ UNCHANGED <<token, ureq, decided>>
    BY <1>0, <2>1, <2>2 DEF SignTyping, SessionsOwned, restOfAccounts
  <2> QED BY <1>1, <2>1, <2>2, <2>3, SignKept
<1> QED BY <1>2, <1>3, <1>4

\* A live session that nobody blocked is an account's.
LEMMA PrincipalOwned == ASSUME SignIInv, NEW s \in WSess, Principal(s) PROVE wsess[s].user \in Users /\ account[wsess[s].user].status = "active"
BY DEF Principal, LiveSession, IsBlocked, SignIInv, SessionsOwned

\* The password given again: a request takes the account up, or a failure is counted.
LEMMA CurrentPassword ==
    ASSUME SignIInv, NEW q \in SReqs, NEW s \in WSess, NEW guess, NEW x \in SignRec, Principal(s),
           currentPassword(q, s, guess, x), x.pc \in {"newpw", "enroll"}, x.sess = s,
           UNCHANGED <<wsess, restOfAccounts, totp, recovery, attempts, stepUp, codeLock, guesses>>
    PROVE  SignIInv'
<1>0. /\ account \in [Users -> Account] /\ wsess \in [WSess -> SessionRec] /\ ulive \in SUBSET Users
      /\ totp \in [Users -> TotpRec] /\ recovery \in [Users -> CodesRec]
      /\ attempts \in [WSess -> Nat] /\ stepUp \in [WSess -> StepUpRec] /\ SessionsOwned /\ SignRequests
  BY TablesTyped
<1>1. wsess[s].user \in Users
  BY PrincipalOwned
<1>2. CASE Takes(q, wsess[s].user, x) /\ account' = account
  <2>1. SignRequests' /\ \A o \in SReqs, v \in Users : Guessing(o, v)' => Guessing(o, v)
    BY <1>1, <1>2, TakenUp DEF Checking
  <2> QED BY <1>0, <1>2, <2>1, QuietStep DEF restOfAccounts, SessionsOwned
<1>3. CASE RecordLoginFailure(wsess[s].user) /\ sreq' = sreq
  <2>1. SignRequests' /\ \A o \in SReqs, v \in Users : Guessing(o, v)' => Guessing(o, v)
    BY <1>0, <1>3 DEF SignRequests, Guessing
  <2> QED BY <1>1, <1>3, <2>1, FailureStep
<1> QED BY <1>2, <1>3 DEF currentPassword

\* A password is changed by its owner.
LEMMA PasswordChanged ==
    ASSUME SignIInv, NEW q \in SReqs,
           \/ \E s \in WSess, guess \in Passwords : ChangeStart(q, s, guess)
           \/ \E pw \in Passwords : ChangeSet(q, pw)
           \/ ChangeRevoke(q) \/ \E require \in BOOLEAN : ChangeFinish(q, require)
    PROVE  SignIInv'
<1>0. /\ account \in [Users -> Account] /\ wsess \in [WSess -> SessionRec] /\ ulive \in SUBSET Users
      /\ totp \in [Users -> TotpRec] /\ recovery \in [Users -> CodesRec]
      /\ attempts \in [WSess -> Nat] /\ stepUp \in [WSess -> StepUpRec] /\ SessionsOwned /\ SignRequests
  BY TablesTyped
<1>1. ASSUME NEW s \in WSess, NEW guess \in Passwords, ChangeStart(q, s, guess) PROVE SignIInv'
  <2>1. PICK full \in BOOLEAN : full = (wsess[s].state = "full")
    OBVIOUS
  <2> DEFINE x == [SIdle EXCEPT !.pc = "newpw", !.sess = s, !.guess = guess, !.mfa = full]
  <2>2. /\ Principal(s) /\ currentPassword(q, s, guess, x)
        /\ UNCHANGED <<wsess, restOfAccounts, totp, recovery, attempts, stepUp, codeLock, guesses>>
    BY <1>1, <2>1 DEF ChangeStart
  <2>3. x \in SignRec /\ x.pc = "newpw" /\ x.sess = s
    BY SignNone DEF SignRec
  <2> HIDE DEF x
  <2> QED BY <2>2, <2>3, CurrentPassword
<1>2. ASSUME NEW pw \in Passwords, ChangeSet(q, pw) PROVE SignIInv'
  <2>1. /\ sreq[q].pc = "newpw" /\ SetPasswordHash(sreq[q].user, pw, FALSE) /\ Goes(q, "others")
        /\ UNCHANGED <<wsess, restOfAccounts, totp, recovery, attempts, stepUp, codeLock>>
    BY <1>2 DEF ChangeSet
  <2>2. sreq[q].user \in Users /\ sreq[q].sess \in WSess
    BY <2>1, AtWork DEF OnSession
  <2>3. SignRequests' /\ \A o \in SReqs, v \in Users : Guessing(o, v)' => Guessing(o, v)
    BY <2>1, <2>2, WentOn
  <2>4. \E p \in Passwords \cup {None}, owed \in BOOLEAN : SetPasswordHash(sreq[q].user, p, owed)
    BY <2>1
  <2> QED BY <1>0, <2>1, <2>2, <2>3, <2>4, SuccessStep DEF SessionsOwned
<1>3. CASE ChangeRevoke(q)
  <2>1. /\ sreq[q].pc = "others" /\ RevokeOthers(sreq[q].user, sreq[q].sess) /\ (Stops(q) \/ Goes(q, "finish"))
        /\ UNCHANGED <<account, restOfAccounts, totp, recovery, attempts, stepUp, codeLock, guesses>>
    BY <1>3 DEF ChangeRevoke
  <2>2. sreq[q].user \in Users /\ sreq[q].sess \in WSess
    BY <2>1, AtWork DEF OnSession
  <2>3. SignRequests' /\ \A o \in SReqs, v \in Users : Guessing(o, v)' => Guessing(o, v)
    BY <2>1, <2>2, WentOn
  <2>4. wsess' \in [WSess -> SessionRec] /\ SessionsOwned'
    BY <2>1, <2>2, SessionsRevoked
  <2> QED BY <1>0, <2>1, <2>3, <2>4, QuietStep DEF restOfAccounts
<1>4. ASSUME NEW require \in BOOLEAN, ChangeFinish(q, require) PROVE SignIInv'
  <2>1. sreq[q].pc = "finish" /\ Stops(q) /\ UNCHANGED <<restOfAccounts, totp, recovery, attempts, stepUp, codeLock>>
    BY <1>4 DEF ChangeFinish
  <2>2. sreq[q].user \in Users /\ sreq[q].sess \in WSess
    BY <2>1, AtWork DEF OnSession
  <2>3. SignRequests' /\ \A o \in SReqs, v \in Users : Guessing(o, v)' => Guessing(o, v)
    BY <2>1, WentOn
  <2>4. CASE account' = account /\ guesses' = guesses /\ wsess' = wsess
    BY <1>0, <2>1, <2>3, <2>4, QuietStep DEF restOfAccounts, SessionsOwned
  <2>5. CASE RecordLoginSuccess(sreq[q].user) /\ wsess' = Verified(sreq[q].sess, FALSE)
    <3>1. wsess' \in [WSess -> SessionRec] /\ SessionsOwned'
      BY <2>2, <2>5, SessionVerified
    <3> QED BY <1>0, <2>1, <2>2, <2>3, <2>5, <3>1, SuccessStep
  <2> QED BY <1>4, <2>4, <2>5 DEF ChangeFinish
<1> QED BY <1>1, <1>2, <1>3, <1>4

\* A code's check begins, under the account's lock; a locked account's sign-in ends instead.
LEMMA CodeTaken ==
    ASSUME SignIInv, NEW q \in SReqs, NEW s \in WSess, NEW pc \in {"code", "confirm"}, Principal(s), CheckCode(q, s, pc)
    PROVE  SignIInv'
<1>0. /\ account \in [Users -> Account] /\ wsess \in [WSess -> SessionRec] /\ ulive \in SUBSET Users
      /\ totp \in [Users -> TotpRec] /\ recovery \in [Users -> CodesRec] /\ guesses \in [Users -> Nat]
      /\ attempts \in [WSess -> Nat] /\ stepUp \in [WSess -> StepUpRec] /\ SessionsOwned /\ SignRequests
  BY TablesTyped
<1>1. PICK u \in Users : u = wsess[s].user /\ account[u].status = "active"
  BY PrincipalOwned
<1>2. codeLock[u] = None /\ UNCHANGED <<account, restOfAccounts, totp, recovery, stepUp, guesses>>
  BY <1>1 DEF CheckCode
<1>3. CASE endSignIn(s) /\ sreq' = sreq /\ codeLock' = codeLock
  <2>1. wsess' = Revoked(s) /\ attempts' = [attempts EXCEPT ![s] = 0]
    BY <1>3 DEF endSignIn
  <2>2. wsess' \in [WSess -> SessionRec] /\ SessionsOwned'
    BY <2>1, SessionsRevoked
  <2>3. attempts' \in [WSess -> Nat]
    BY <1>0, <2>1
  <2>4. SignRequests' /\ \A o \in SReqs, v \in Users : Guessing(o, v)' => Guessing(o, v)
    BY <1>0, <1>3 DEF SignRequests, Guessing
  <2> QED BY <1>0, <1>2, <2>2, <2>3, <2>4, QuietStep DEF restOfAccounts
<1>4. CASE ~(wsess[s].state = "partial" /\ IsLocked(account[u]))
  <2>1. PICK mfa \in BOOLEAN : mfa = (~(wsess[s].state = "partial"))
    OBVIOUS
  <2> DEFINE x == [SIdle EXCEPT !.pc = pc, !.sess = s, !.mfa = mfa]
             y == [x EXCEPT !.user = u]
  <2>2. Takes(q, u, x) /\ codeLock' = [codeLock EXCEPT ![u] = q] /\ UNCHANGED <<wsess, attempts>>
    BY <1>1, <1>4, <2>1 DEF CheckCode
  <2>3. x \in SignRec /\ x.pc = pc /\ x.sess = s /\ x.mfa = mfa
    BY SignNone DEF SignRec
  <2>4. sreq' = [sreq EXCEPT ![q] = y]
    BY <2>2 DEF Takes
  <2> HIDE DEF x
  <2>5. y \in SignRec /\ y.pc = pc /\ y.sess = s /\ y.mfa = mfa /\ y.user = u
    BY <2>3 DEF SignRec
  <2>y. PICK z : z = y
    OBVIOUS
  <2> HIDE DEF y
  <2>6. Sound(y)
    BY <2>5 DEF Sound
  <2>7. SignRequests' /\ \A o \in SReqs, v \in Users : Guessing(o, v)' => (Guessing(o, v) \/ (o = q /\ v = u))
    BY <1>0, <1>2, <2>2, <2>4, <2>5, <2>6, <2>y, RequestLocks
  <2>8. \A v \in Users \ {u} : Counted(v)'
    BY <1>2, <2>7, CountStays
  <2>9. Counted(u)'
    <3>1. CASE mfa
      <4>1. sreq'[q] = y
        BY <1>0, <2>4 DEF SignRequests
      <4>2. ~Guessing(q, u)'
        BY <3>1, <4>1, <2>5 DEF Guessing
      <4>3. \A o \in SReqs : Guessing(o, u)' => Guessing(o, u)
        BY <2>7, <4>2
      <4> QED BY <1>2, <4>3, CountStays
    <3>2. CASE ~mfa
      <4>1. ~account[u].locked
        BY <1>4, <2>1, <3>2 DEF IsLocked
      <4>2. Counted(u) /\ account[u].fails \in Nat /\ guesses[u] \in Nat
        BY <1>0 DEF SignIInv, Account
      <4>3. guesses[u] < MaxFailures
        BY <4>1, <4>2, MaxFailuresTyped DEF Counted
      <4> QED BY <1>1, <1>2, <4>1, <4>2, <4>3 DEF Counted
    <3> QED BY <3>1, <3>2
  <2>10. SignTyping' /\ account' \in [Users -> Account] /\ wsess' \in [WSess -> SessionRec] /\ SessionsOwned' /\ ulive' \in SUBSET Users
         /\ UNCHANGED <<token, ureq, decided, account>>
    BY <1>0, <1>2, <2>2 DEF SignTyping, SessionsOwned, restOfAccounts
  <2> QED BY <2>7, <2>8, <2>9, <2>10, SignKept
<1> QED BY <1>1, <1>3, <1>4 DEF CheckCode

\* A wrong code is counted before the account's lock is given up.
LEMMA WrongCounted ==
    ASSUME SignIInv, NEW q \in SReqs, NEW verify \in BOOLEAN, sreq[q].pc \in {"code", "confirm"}, WrongCode(q, verify),
           UNCHANGED <<restOfAccounts, totp, recovery, stepUp>>
    PROVE  SignIInv'
<1>0. /\ account \in [Users -> Account] /\ wsess \in [WSess -> SessionRec] /\ ulive \in SUBSET Users
      /\ totp \in [Users -> TotpRec] /\ recovery \in [Users -> CodesRec] /\ guesses \in [Users -> Nat]
      /\ attempts \in [WSess -> Nat] /\ stepUp \in [WSess -> StepUpRec] /\ SessionsOwned /\ SignRequests
  BY TablesTyped
<1>1. sreq[q].user \in Users /\ sreq[q].sess \in WSess /\ sreq[q].mfa \in BOOLEAN
  BY AtWork DEF OnSession
<1>2. PICK u \in Users : u = sreq[q].user
  BY <1>1
<1>3. PICK s \in WSess : s = sreq[q].sess
  BY <1>1
<1>4. RecordLoginFailure(u) /\ Releases(u) /\ Stops(q)
  BY <1>2 DEF WrongCode
<1>5. SignRequests' /\ \A o \in SReqs, v \in Users : Guessing(o, v)' => Guessing(o, v) /\ o # q
  BY <1>2, <1>4, WentOn DEF Checking
<1>6. wsess' \in [WSess -> SessionRec] /\ SessionsOwned' /\ attempts' \in [WSess -> Nat]
  <2>1. CASE endSignIn(s)
    <3>1. wsess' = Revoked(s) /\ attempts' = [attempts EXCEPT ![s] = 0]
      BY <2>1 DEF endSignIn
    <3> QED BY <1>0, <3>1, SessionsRevoked
  <2>2. CASE /\ attempts' = IF verify THEN [attempts EXCEPT ![s] = @ + 1] ELSE attempts
             /\ wsess' = wsess
    BY <1>0, <2>2 DEF SessionsOwned
  <2> QED BY <1>3, <2>1, <2>2 DEF WrongCode
<1>7. /\ account' \in [Users -> Account]
      /\ \A v \in Users : account'[v].status = account[v].status /\ account'[v].removed = account[v].removed
  BY <1>4, FailureRecorded
<1>8. guesses' \in [Users -> Nat] /\ \A v \in Users : Counted(v)'
  <2>1. CASE sreq[q].mfa
    <3>1. guesses' = guesses
      BY <2>1 DEF WrongCode
    <3> QED BY <1>0, <1>4, <1>5, <3>1, CountFailed
  <2>2. CASE ~sreq[q].mfa
    <3>1. guesses' = [guesses EXCEPT ![u] = @ + 1] /\ Guessing(q, u)
      BY <1>2, <2>2 DEF WrongCode, Guessing
    <3> QED BY <1>4, <1>5, <3>1, CountWrong
  <2> QED BY <2>1, <2>2
<1>9. SignTyping' /\ ulive' \in SUBSET Users /\ UNCHANGED <<token, ureq, decided>>
  BY <1>0, <1>6, <1>8 DEF SignTyping, restOfAccounts
<1> QED BY <1>5, <1>6, <1>7, <1>8, <1>9, SignKept

\* The check of a code at sign-in.
LEMMA CodeChecked ==
    ASSUME SignIInv, NEW q \in SReqs,
           \/ VerifyWrong(q) \/ VerifyProve(q) \/ \E s \in WSess : VerifyStart(q, s)
           \/ \E step \in 1 .. MaxStep : VerifyRight(q, step)
    PROVE  SignIInv'
<1>0. /\ account \in [Users -> Account] /\ wsess \in [WSess -> SessionRec] /\ ulive \in SUBSET Users
      /\ totp \in [Users -> TotpRec] /\ recovery \in [Users -> CodesRec] /\ guesses \in [Users -> Nat]
      /\ attempts \in [WSess -> Nat] /\ stepUp \in [WSess -> StepUpRec] /\ SessionsOwned /\ SignRequests
  BY TablesTyped
<1>1. CASE VerifyWrong(q)
  BY <1>1, WrongCounted DEF VerifyWrong
<1>2. CASE VerifyProve(q)
  <2>1. /\ sreq[q].pc = "prove" /\ wsess' = Verified(sreq[q].sess, TRUE) /\ Stops(q)
        /\ attempts' = [attempts EXCEPT ![sreq[q].sess] = 0]
        /\ UNCHANGED <<account, restOfAccounts, totp, recovery, stepUp, codeLock, guesses>>
    BY <1>2 DEF VerifyProve
  <2>2. sreq[q].sess \in WSess
    BY <2>1, AtWork DEF OnSession
  <2>3. wsess' \in [WSess -> SessionRec] /\ SessionsOwned'
    BY <2>1, <2>2, SessionVerified
  <2>4. SignRequests' /\ \A o \in SReqs, v \in Users : Guessing(o, v)' => Guessing(o, v)
    BY <2>1, WentOn
  <2>5. attempts' \in [WSess -> Nat]
    BY <1>0, <2>1
  <2> QED BY <1>0, <2>1, <2>3, <2>4, <2>5, QuietStep DEF restOfAccounts
<1>3. ASSUME NEW s \in WSess, VerifyStart(q, s) PROVE SignIInv'
  BY <1>3, CodeTaken DEF VerifyStart
<1>4. ASSUME NEW step \in 1 .. MaxStep, VerifyRight(q, step) PROVE SignIInv'
  <2>1. /\ sreq[q].pc = "code" /\ RecordLoginSuccess(sreq[q].user) /\ Releases(sreq[q].user) /\ Goes(q, "prove")
        /\ UNCHANGED <<wsess, restOfAccounts, attempts, stepUp>>
    BY <1>4 DEF VerifyRight
  <2>2. sreq[q].user \in Users /\ sreq[q].sess \in WSess
    BY <2>1, AtWork DEF OnSession
  <2>3. SignRequests' /\ \A o \in SReqs, v \in Users : Guessing(o, v)' => Guessing(o, v)
    BY <2>1, <2>2, WentOn DEF Checking
  <2>4. totp' \in [Users -> TotpRec] /\ recovery' \in [Users -> CodesRec]
    <3>1. CASE totp' = [totp EXCEPT ![sreq[q].user].last = step] /\ recovery' = recovery
      BY <1>0, <3>1, step \in Nat DEF TotpRec
    <3>2. CASE totp' = totp /\ recovery[sreq[q].user].unused > 0 /\ recovery' = [recovery EXCEPT ![sreq[q].user].unused = @ - 1]
      <4>1. recovery[sreq[q].user] \in CodesRec
        BY <1>0, <2>2
      <4> DEFINE n == recovery[sreq[q].user].unused - 1
                 w == [recovery[sreq[q].user] EXCEPT !.unused = n]
      <4>2. n \in Nat
        BY <3>2, <4>1 DEF CodesRec
      <4>3. recovery' = [recovery EXCEPT ![sreq[q].user] = w]
        BY <1>0, <3>2
      <4> HIDE DEF n
      <4>4. w \in CodesRec
        BY <4>1, <4>2 DEF CodesRec
      <4> HIDE DEF w
      <4> QED BY <1>0, <3>2, <4>3, <4>4
    <3> QED BY <1>4, <3>1, <3>2 DEF VerifyRight
  <2> QED BY <1>0, <2>1, <2>2, <2>3, <2>4, SuccessStep DEF SessionsOwned
<1> QED BY <1>1, <1>2, <1>3, <1>4

\* A code proved again on a full session.
LEMMA SteppedUp ==
    ASSUME SignIInv, NEW s \in WSess, StepUpLapses(s) \/ \E step \in 1 .. MaxStep : StepUp(s, step)
    PROVE  SignIInv'
<1>0. /\ account \in [Users -> Account] /\ wsess \in [WSess -> SessionRec] /\ ulive \in SUBSET Users
      /\ totp \in [Users -> TotpRec] /\ recovery \in [Users -> CodesRec] /\ guesses \in [Users -> Nat]
      /\ attempts \in [WSess -> Nat] /\ stepUp \in [WSess -> StepUpRec] /\ SessionsOwned /\ SignRequests
  BY TablesTyped
<1>1. UNCHANGED <<account, restOfAccounts, recovery, attempts, codeLock, sreq, guesses>>
  BY DEF StepUpLapses, StepUp
<1>2. SignRequests' /\ \A o \in SReqs, v \in Users : Guessing(o, v)' => Guessing(o, v)
  BY <1>0, <1>1 DEF SignRequests, Guessing
<1>3. CASE StepUpLapses(s)
  <2>1. totp' = totp /\ stepUp' = [stepUp EXCEPT ![s].closed = FALSE] /\ wsess' = [wsess EXCEPT ![s].proved = FALSE]
    BY <1>3 DEF StepUpLapses
  <2>2. stepUp' \in [WSess -> StepUpRec]
    BY <1>0, <2>1 DEF StepUpRec
  <2> DEFINE x == [wsess[s] EXCEPT !.proved = FALSE]
  <2>3. wsess[s] \in SessionRec /\ (wsess[s].state # "free" => wsess[s].user \in Users)
    BY SessionRead
  <2>4. x \in SessionRec /\ x.state = wsess[s].state /\ x.user = wsess[s].user
    BY <2>3 DEF SessionRec
  <2>5. wsess' = [wsess EXCEPT ![s] = x]
    BY <1>0, <2>1
  <2>x. PICK y : y = x
    OBVIOUS
  <2> HIDE DEF x
  <2>6. wsess' \in [WSess -> SessionRec] /\ SessionsOwned'
    BY <2>3, <2>4, <2>5, <2>x, SessionWritten
  <2> QED BY <1>0, <1>1, <1>2, <2>1, <2>2, <2>6, QuietStep DEF restOfAccounts
<1>4. ASSUME NEW step \in 1 .. MaxStep, StepUp(s, step) PROVE SignIInv'
  <2>0. stepUp[s].fails + 1 \in Nat
    BY <1>0 DEF StepUpRec
  <2>1. CASE /\ totp' = [totp EXCEPT ![wsess[s].user].last = step] /\ wsess' = Verified(s, TRUE)
             /\ stepUp' = [stepUp EXCEPT ![s] = [fails |-> 0, closed |-> FALSE]]
    <3>1. totp' \in [Users -> TotpRec]
      BY <1>0, <2>1, step \in Nat DEF TotpRec
    <3>2. stepUp' \in [WSess -> StepUpRec]
      <4> DEFINE z == [fails |-> 0, closed |-> FALSE]
      <4>1. z \in StepUpRec
        BY SignNone
      <4>2. stepUp' = [stepUp EXCEPT ![s] = z]
        BY <2>1
      <4> HIDE DEF z
      <4> QED BY <1>0, <4>1, <4>2
    <3>3. wsess' \in [WSess -> SessionRec] /\ SessionsOwned'
      BY <2>1, SessionVerified
    <3> QED BY <1>0, <1>1, <1>2, <3>1, <3>2, <3>3, QuietStep DEF restOfAccounts
  <2>2. CASE /\ stepUp' = [stepUp EXCEPT ![s] = [fails |-> IF stepUp[s].fails + 1 >= MFAAttempts THEN 0 ELSE stepUp[s].fails + 1,
                                                 closed |-> stepUp[s].fails + 1 >= MFAAttempts]]
             /\ totp' = totp /\ wsess' = wsess
    <3>1. PICK k \in Nat : k = IF stepUp[s].fails + 1 >= MFAAttempts THEN 0 ELSE stepUp[s].fails + 1
      BY <2>0
    <3>b. (stepUp[s].fails + 1 >= MFAAttempts) \in BOOLEAN
      BY <2>0, MaxFailuresTyped
    <3>2. PICK c \in BOOLEAN : c = (stepUp[s].fails + 1 >= MFAAttempts)
      BY <3>b, Zenon
    <3> DEFINE z == [fails |-> k, closed |-> c]
    <3>3. stepUp' = [stepUp EXCEPT ![s] = z]
      BY <2>2, <3>1, <3>2
    <3>4. z \in StepUpRec
      BY DEF StepUpRec
    <3> HIDE DEF z
    <3>5. stepUp' \in [WSess -> StepUpRec]
      BY <1>0, <3>3, <3>4
    <3> QED BY <1>0, <1>1, <1>2, <2>2, <3>5, QuietStep DEF restOfAccounts, SessionsOwned
  <2> QED BY <1>4, <2>1, <2>2 DEF StepUp
<1> QED BY <1>3, <1>4

\* An authenticator is enrolled and confirmed.
LEMMA EnrolledSound ==
    ASSUME SignIInv, NEW q \in SReqs,
           \/ \E s \in WSess : ConfirmStart(q, s) \/ \E guess \in Passwords \cup {None} : EnrollStart(q, s, guess)
           \/ \E seed \in Seeds : EnrollWrite(q, seed)
           \/ \E step \in 1 .. MaxStep : ConfirmRead(q, step)
           \/ ConfirmWrong(q) \/ ConfirmWrite(q) \/ ConfirmProve(q)
    PROVE  SignIInv'
<1>0. /\ account \in [Users -> Account] /\ wsess \in [WSess -> SessionRec] /\ ulive \in SUBSET Users
      /\ totp \in [Users -> TotpRec] /\ recovery \in [Users -> CodesRec] /\ guesses \in [Users -> Nat]
      /\ attempts \in [WSess -> Nat] /\ stepUp \in [WSess -> StepUpRec] /\ SessionsOwned /\ SignRequests
      /\ sreq \in [SReqs -> SignRec] /\ Sound(sreq[q])
  BY TablesTyped
<1>1. ASSUME NEW s \in WSess, ConfirmStart(q, s) PROVE SignIInv'
  BY <1>1, CodeTaken DEF ConfirmStart
<1>2. ASSUME NEW s \in WSess, NEW guess \in Passwords \cup {None}, EnrollStart(q, s, guess) PROVE SignIInv'
  <2> DEFINE x == [SIdle EXCEPT !.pc = "enroll", !.sess = s]
  <2>1. /\ Principal(s) /\ UNCHANGED <<wsess, restOfAccounts, totp, recovery, attempts, stepUp, codeLock, guesses>>
        /\ currentPassword(q, s, guess, x) \/ (Takes(q, wsess[s].user, x) /\ account' = account)
    BY <1>2 DEF EnrollStart
  <2>2. x \in SignRec /\ x.pc = "enroll" /\ x.sess = s
    BY SignNone DEF SignRec
  <2> HIDE DEF x
  <2>3. CASE currentPassword(q, s, guess, x)
    BY <2>1, <2>2, <2>3, CurrentPassword
  <2>4. CASE Takes(q, wsess[s].user, x) /\ account' = account
    <3>1. wsess[s].user \in Users
      BY <2>1, PrincipalOwned
    <3>2. SignRequests' /\ \A o \in SReqs, v \in Users : Guessing(o, v)' => Guessing(o, v)
      BY <2>1, <2>2, <2>4, <3>1, TakenUp DEF Checking
    <3> QED BY <1>0, <2>1, <2>4, <3>2, QuietStep DEF restOfAccounts, SessionsOwned
  <2> QED BY <2>1, <2>3, <2>4
<1>3. ASSUME NEW seed \in Seeds, EnrollWrite(q, seed) PROVE SignIInv'
  <2> DEFINE w == [NoTOTP EXCEPT !.seed = seed]
  <2>1. /\ sreq[q].pc = "enroll" /\ Stops(q) /\ UNCHANGED <<acctVars, recovery, attempts, stepUp, codeLock, guesses>>
        /\ totp' = totp \/ totp' = [totp EXCEPT ![sreq[q].user] = w]
    BY <1>3 DEF EnrollWrite
  <2>2. w \in TotpRec
    BY SignNone DEF TotpRec
  <2> HIDE DEF w
  <2>3. totp' \in [Users -> TotpRec]
    BY <1>0, <2>1, <2>2
  <2>4. SignRequests' /\ \A o \in SReqs, v \in Users : Guessing(o, v)' => Guessing(o, v)
    BY <2>1, WentOn
  <2> QED BY <1>0, <2>1, <2>3, <2>4, QuietStep DEF acctVars, SessionsOwned
<1>4. ASSUME NEW step \in 1 .. MaxStep, ConfirmRead(q, step) PROVE SignIInv'
  <2>1. sreq[q].pc = "confirm" /\ UNCHANGED <<acctVars, totp, recovery, attempts, stepUp, guesses>>
    BY <1>4 DEF ConfirmRead
  <2>2. sreq[q] \in SignRec /\ sreq[q].user \in Users /\ sreq[q].sess \in WSess
    BY <1>0, <2>1, AtWork DEF OnSession
  <2>3. SignRequests' /\ \A o \in SReqs, v \in Users : Guessing(o, v)' => Guessing(o, v)
    <3>1. CASE Stops(q) /\ Releases(sreq[q].user)
      BY <2>1, <3>1, WentOn DEF Checking
    <3>2. CASE /\ sreq' = [sreq EXCEPT ![q].pc = "confirming", ![q].seed = totp[sreq[q].user].seed, ![q].step = step]
               /\ codeLock' = codeLock
      <4>1. PICK seed \in Seeds \cup {None} : seed = totp[sreq[q].user].seed
        BY <1>0, <2>2 DEF TotpRec
      <4> DEFINE x == [sreq[q] EXCEPT !.pc = "confirming", !.seed = seed, !.step = step]
      <4>2. sreq' = [sreq EXCEPT ![q] = x]
        BY <1>0, <3>2, <4>1
      <4>3. x \in SignRec /\ x.pc = "confirming" /\ x.user = sreq[q].user /\ x.sess = sreq[q].sess
        BY <2>2, step \in Nat DEF SignRec
      <4>x. PICK y : y = x
        OBVIOUS
      <4> HIDE DEF x
      <4>4. Sound(x) /\ x.pc \notin {"code", "confirm"} /\ sreq[q].pc \in Checking
        BY <2>1, <2>2, <4>3 DEF Sound, Checking
      <4> QED BY <1>0, <3>2, <4>2, <4>3, <4>4, <4>x, RequestGoes
    <3> QED BY <1>4, <3>1, <3>2 DEF ConfirmRead
  <2> QED BY <1>0, <2>1, <2>3, QuietStep DEF acctVars, SessionsOwned
<1>5. CASE ConfirmWrong(q)
  BY <1>5, WrongCounted DEF ConfirmWrong
<1>6. CASE ConfirmWrite(q)
  <2>1. /\ sreq[q].pc = "confirming" /\ Releases(sreq[q].user) /\ Goes(q, "confirmed")
        /\ UNCHANGED <<wsess, restOfAccounts, attempts, stepUp>>
    BY <1>6 DEF ConfirmWrite
  <2>2. /\ sreq[q].user \in Users /\ sreq[q].sess \in WSess /\ sreq[q].seed \in Seeds \cup {None} /\ sreq[q].step \in Nat
    BY <2>1, AtWork DEF OnSession
  <2>3. SignRequests' /\ \A o \in SReqs, v \in Users : Guessing(o, v)' => Guessing(o, v)
    BY <2>1, <2>2, WentOn DEF Checking
  <2>4. totp' \in [Users -> TotpRec]
    <3>1. PICK n \in Nat : n = sreq[q].step
      BY <2>2
    <3> DEFINE w == [totp[sreq[q].user] EXCEPT !.confirmed = TRUE, !.last = n]
    <3>2. w \in TotpRec
      BY <1>0, <2>2 DEF TotpRec
    <3>3. totp' = totp \/ totp' = [totp EXCEPT ![sreq[q].user] = w]
      BY <1>0, <1>6, <3>1 DEF ConfirmWrite
    <3> HIDE DEF w
    <3> QED BY <1>0, <3>2, <3>3
  <2>5. recovery' \in [Users -> CodesRec]
    <3> DEFINE w == [seed |-> sreq[q].seed, unused |-> RecoveryCount]
    <3>1. w \in CodesRec
      BY <2>2, MaxFailuresTyped DEF CodesRec
    <3>2. recovery' = recovery \/ recovery' = [recovery EXCEPT ![sreq[q].user] = w]
      BY <1>6 DEF ConfirmWrite
    <3> HIDE DEF w
    <3> QED BY <1>0, <3>1, <3>2
  <2>6. CASE account' = account /\ guesses' = guesses
    BY <1>0, <2>1, <2>3, <2>4, <2>5, <2>6, QuietStep DEF restOfAccounts, SessionsOwned
  <2>7. CASE RecordLoginSuccess(sreq[q].user)
    BY <1>0, <2>1, <2>2, <2>3, <2>4, <2>5, <2>7, SuccessStep DEF SessionsOwned
  <2> QED BY <1>6, <2>6, <2>7 DEF ConfirmWrite
<1>7. CASE ConfirmProve(q)
  <2>1. /\ sreq[q].pc = "confirmed" /\ Stops(q)
        /\ UNCHANGED <<account, restOfAccounts, totp, recovery, attempts, stepUp, codeLock, guesses>>
    BY <1>7 DEF ConfirmProve
  <2>2. PICK s \in WSess : s = sreq[q].sess
    BY <2>1, AtWork DEF OnSession
  <2> DEFINE marked == Verified(s, TRUE)
  <2>3. /\ marked \in [WSess -> SessionRec]
        /\ \A o \in WSess : marked[o].state # "free" => marked[o].user \in Users
    BY VerifiedTyped
  <2>4. DOMAIN wsess' = WSess /\ wsess' = [o \in WSess |-> wsess'[o]]
    BY <1>7 DEF ConfirmProve
  <2>5. \A o \in WSess : wsess'[o] = marked[o] \/ (wsess[o].state # "free" /\ wsess'[o] = [wsess[o] EXCEPT !.state = "revoked"])
    BY <1>7, <2>2 DEF ConfirmProve, LiveSession
  <2> HIDE DEF marked
  <2>6. \A o \in WSess : wsess'[o] \in SessionRec /\ (wsess'[o].state # "free" => wsess'[o].user \in Users)
    BY <2>3, <2>5, SessionRead
  <2>7. wsess' \in [WSess -> SessionRec] /\ SessionsOwned'
    BY <2>4, <2>6, SessionsWritten
  <2>8. SignRequests' /\ \A o \in SReqs, v \in Users : Guessing(o, v)' => Guessing(o, v)
    BY <2>1, WentOn
  <2> QED BY <1>0, <2>1, <2>7, <2>8, QuietStep DEF restOfAccounts
<1> QED BY <1>1, <1>2, <1>3, <1>4, <1>5, <1>6, <1>7

\* The administrator's resets.
LEMMA ResetSound ==
    ASSUME SignIInv, NEW q \in SReqs,
           \/ \E u \in Users, pw \in Passwords, owed \in BOOLEAN : AdminPassword(q, u, pw, owed)
           \/ \E u \in Users : AdminResetMFA(q, u)
           \/ AdminRevoke(q)
    PROVE  SignIInv'
<1>0. /\ account \in [Users -> Account] /\ wsess \in [WSess -> SessionRec] /\ ulive \in SUBSET Users
      /\ totp \in [Users -> TotpRec] /\ recovery \in [Users -> CodesRec] /\ guesses \in [Users -> Nat]
      /\ attempts \in [WSess -> Nat] /\ stepUp \in [WSess -> StepUpRec] /\ SessionsOwned /\ SignRequests
  BY TablesTyped
<1>1. ASSUME NEW u \in Users, NEW pw \in Passwords, NEW owed \in BOOLEAN, AdminPassword(q, u, pw, owed) PROVE SignIInv'
  <2> DEFINE x == [SIdle EXCEPT !.pc = "pwset"]
  <2>1. /\ Takes(q, u, x) /\ SetPasswordHash(u, pw, owed)
        /\ UNCHANGED <<wsess, restOfAccounts, totp, recovery, attempts, stepUp, codeLock>>
    BY <1>1 DEF AdminPassword
  <2>2. x \in SignRec /\ x.pc = "pwset"
    BY SignNone DEF SignRec
  <2> HIDE DEF x
  <2>3. SignRequests' /\ \A o \in SReqs, v \in Users : Guessing(o, v)' => Guessing(o, v)
    BY <2>1, <2>2, TakenUp DEF Checking, OnSession
  <2>4. \E p \in Passwords \cup {None}, o \in BOOLEAN : SetPasswordHash(u, p, o)
    BY <2>1
  <2> QED BY <1>0, <2>1, <2>3, <2>4, SuccessStep DEF SessionsOwned
<1>2. ASSUME NEW u \in Users, AdminResetMFA(q, u) PROVE SignIInv'
  <2> DEFINE x == [SIdle EXCEPT !.pc = "reset"]
  <2>1. /\ Takes(q, u, x) /\ totp' = [totp EXCEPT ![u] = NoTOTP] /\ recovery' = [recovery EXCEPT ![u] = NoCodes]
        /\ UNCHANGED <<acctVars, attempts, stepUp, codeLock, guesses>>
    BY <1>2 DEF AdminResetMFA
  <2>2. x \in SignRec /\ x.pc = "reset"
    BY SignNone DEF SignRec
  <2> HIDE DEF x
  <2>3. SignRequests' /\ \A o \in SReqs, v \in Users : Guessing(o, v)' => Guessing(o, v)
    BY <2>1, <2>2, TakenUp DEF Checking, OnSession
  <2>4. totp' \in [Users -> TotpRec] /\ recovery' \in [Users -> CodesRec]
    BY <1>0, <2>1, SignNone
  <2> QED BY <1>0, <2>1, <2>3, <2>4, QuietStep DEF acctVars, SessionsOwned
<1>3. CASE AdminRevoke(q)
  <2>1. /\ sreq[q].pc \in {"pwset", "reset"} /\ RevokeAllForUser(sreq[q].user) /\ endLive(sreq[q].user) /\ Stops(q)
        /\ UNCHANGED <<account, token, ureq, decided, totp, recovery, attempts, stepUp, codeLock, guesses>>
    BY <1>3 DEF AdminRevoke
  <2>2. sreq[q].user \in Users
    BY <2>1, AtWork
  <2>3. wsess' \in [WSess -> SessionRec] /\ SessionsOwned'
    BY <2>1, <2>2, SessionsRevoked
  <2>4. ulive' \in SUBSET Users
    BY <1>0, <2>1 DEF endLive
  <2>5. SignRequests' /\ \A o \in SReqs, v \in Users : Guessing(o, v)' => Guessing(o, v)
    BY <2>1, WentOn
  <2> QED BY <1>0, <2>1, <2>3, <2>4, <2>5, QuietStep
<1> QED BY <1>1, <1>2, <1>3

\* The fields the lockout reads, of an account that is managed: as they were, or of a new account.
LEMMA ManagedCounts ==
    ASSUME AccountIInv, AccountNext, \A u \in Users : Exists(u) => account'[u].status # "free"
    PROVE  \A u \in Users :
              \/ /\ account'[u].fails = account[u].fails /\ account'[u].locked = account[u].locked
                 /\ (account'[u].status = "free" <=> account[u].status = "free")
              \/ account[u].status = "free" /\ account'[u].fails = 0 /\ ~account'[u].locked
<1> SUFFICES ASSUME NEW u \in Users
             PROVE  \/ /\ account'[u].fails = account[u].fails /\ account'[u].locked = account[u].locked
                       /\ (account'[u].status = "free" <=> account[u].status = "free")
                    \/ account[u].status = "free" /\ account'[u].fails = 0 /\ ~account'[u].locked
  OBVIOUS
<1>0. /\ account \in [Users -> Account] /\ account[u] \in Account /\ ureq \in [Requests -> RequestRec]
      /\ \A q \in Requests : ureq[q].pc # "idle" => ureq[q].id \in Users
      /\ NoAccount \in Account /\ NoAccount.fails = 0
  <2>1. NoAccount.fails = 0
    BY DEF NoAccount
  <2> QED BY <2>1, NoneTyped DEF AccountIInv, AccountTyping
<1>n. ~NoAccount.locked
  BY DEF NoAccount
<1>1. CASE account' = account
  BY <1>1
<1>2. ASSUME NEW q \in Requests, UpdateWrite(q)
      PROVE  \/ account' = account
             \/ /\ account'[u].fails = account[u].fails /\ account'[u].locked = account[u].locked
                /\ (account'[u].status = "free" <=> account[u].status = "free")
  <2>1. ureq[q].id \in Users /\ ureq[q].status \in {"active", "disabled"}
    BY <1>0, <1>2 DEF UpdateWrite, RequestRec
  <2>2. PICK st \in {"active", "disabled"} : st = ureq[q].status
    BY <2>1
  <2>3. PICK v \in Users : v = ureq[q].id
    BY <2>1
  <2>r. (account[v].removed /\ account[v].status = st) \in BOOLEAN
    OBVIOUS
  <2>4. PICK rem \in BOOLEAN : rem = (account[v].removed /\ account[v].status = st)
    BY <2>r, Zenon
  <2> DEFINE x == [account[v] EXCEPT !.status = st, !.removed = rem]
  <2>5. account' = account \/ (account[v].status # "free" /\ account' = [account EXCEPT ![v] = x])
    BY <1>0, <1>2, <2>2, <2>3, <2>4 DEF UpdateWrite, Exists
  <2>6. x.fails = account[v].fails /\ x.locked = account[v].locked /\ x.status = st
    BY <1>0 DEF Account
  <2> HIDE DEF x
  <2> QED BY <1>0, <2>5, <2>6
<1>3. ASSUME NEW q \in Requests, SetRoles(q)
      PROVE  \/ account' = account
             \/ /\ account'[u].fails = account[u].fails /\ account'[u].locked = account[u].locked
                /\ (account'[u].status = "free" <=> account[u].status = "free")
  <2>1. ureq[q].id \in Users /\ ureq[q].admin \in BOOLEAN
    BY <1>0, <1>3 DEF SetRoles, RequestRec
  <2>2. PICK b \in BOOLEAN : b = ureq[q].admin
    BY <2>1
  <2>3. PICK v \in Users : v = ureq[q].id
    BY <2>1
  <2> DEFINE x == [account[v] EXCEPT !.admin = b]
  <2>5. account' = account \/ account' = [account EXCEPT ![v] = x]
    BY <1>0, <1>3, <2>2, <2>3 DEF SetRoles
  <2>6. x.fails = account[v].fails /\ x.locked = account[v].locked /\ x.status = account[v].status
    BY <1>0 DEF Account
  <2> HIDE DEF x
  <2> QED BY <1>0, <2>5, <2>6
<1>4. ASSUME NEW q \in Requests, Leave(q) \/ EnableReturned(q)
      PROVE  \/ account' = account
             \/ /\ account'[u].fails = account[u].fails /\ account'[u].locked = account[u].locked
                /\ (account'[u].status = "free" <=> account[u].status = "free")
  <2>1. ureq[q].id \in Users
    BY <1>0, <1>4 DEF Leave, EnableReturned, RequestRec
  <2>3. PICK v \in Users : v = ureq[q].id
    BY <2>1
  <2>4. PICK st \in {"active", "disabled"}, rem \in BOOLEAN :
           \/ account' = account
           \/ account[v].status # "free" /\ account' = [account EXCEPT ![v].status = st, ![v].removed = rem]
    <3>1. CASE Leave(q)
      BY <2>3, <3>1 DEF Leave
    <3>2. CASE EnableReturned(q)
      BY <2>3, <3>2 DEF EnableReturned
    <3> QED BY <1>4, <3>1, <3>2
  <2> DEFINE x == [account[v] EXCEPT !.status = st, !.removed = rem]
  <2>5. account' = account \/ (account[v].status # "free" /\ account' = [account EXCEPT ![v] = x])
    BY <1>0, <2>4
  <2>6. x.fails = account[v].fails /\ x.locked = account[v].locked /\ x.status = st
    BY <1>0 DEF Account
  <2> HIDE DEF x
  <2> QED BY <1>0, <2>5, <2>6
<1>5. ASSUME NEW q \in Requests, DeleteRow(q)
      PROVE  account'[u] = account[u] \/ (account'[u] = NoAccount /\ account[u].status = "free")
  <2>1. ureq[q].id \in Users
    BY <1>0, <1>5 DEF DeleteRow, RequestRec
  <2>2. account' = [account EXCEPT ![ureq[q].id] = NoAccount]
    BY <1>5 DEF DeleteRow
  <2>3. CASE u = ureq[q].id
    <3>1. account'[u] = NoAccount /\ NoAccount.status = "free"
      BY <1>0, <2>2, <2>3, NoneTyped
    <3> QED BY <3>1 DEF Exists
  <2>4. CASE u # ureq[q].id
    BY <1>0, <2>2, <2>4
  <2> QED BY <2>3, <2>4
<1>6. ASSUME NEW v \in Users, NEW admin \in BOOLEAN, NEW owed \in BOOLEAN, NEW pw \in Passwords, AccountCreate(v, admin, pw, owed)
      PROVE  account'[u] = account[u] \/ (account[u].status = "free" /\ account'[u].fails = 0 /\ ~account'[u].locked)
  <2> DEFINE x == [NoAccount EXCEPT !.status = "active", !.admin = admin, !.pw = pw, !.owed = owed]
  <2>1. account[v].status = "free" /\ account' = [account EXCEPT ![v] = x]
    BY <1>6 DEF AccountCreate, Exists
  <2>2. x.fails = NoAccount.fails
    BY <1>0 DEF Account
  <2>3. x.locked = NoAccount.locked
    BY <1>0 DEF Account
  <2> HIDE DEF x
  <2>4. CASE u = v
    BY <1>0, <1>n, <2>1, <2>2, <2>3, <2>4
  <2>5. CASE u # v
    BY <1>0, <2>1, <2>5
  <2> QED BY <2>4, <2>5
<1>7. \/ account' = account
      \/ \E q \in Requests : UpdateWrite(q) \/ SetRoles(q) \/ Leave(q) \/ EnableReturned(q) \/ DeleteRow(q)
      \/ \E v \in Users, admin, owed \in BOOLEAN, pw \in Passwords : AccountCreate(v, admin, pw, owed)
  BY DEF AccountNext, UpdateRead, SetRolesRead, DeleteRead, UpdateRevoke, DeleteCheck, TokenRead, LeaveRead, ReturnRead,
         TokenCreate, RevokeSessions, TokenRevoke
<1>8. CASE account'[u] = account[u]
  BY <1>8
<1>9. CASE account'[u] = NoAccount /\ account[u].status = "free"
  BY <1>0, <1>n, <1>9
<1> QED BY <1>1, <1>2, <1>3, <1>4, <1>5, <1>6, <1>7, <1>8, <1>9

\* Managing accounts leaves sessions with their accounts.
LEMMA ManagedSessions ==
    ASSUME SignIInv, AccountNext PROVE SessionsOwned'
<1>1. CASE wsess' = wsess
  BY <1>1, TablesTyped DEF SessionsOwned
<1>2. ASSUME NEW u \in Users, RevokeAllForUser(u) PROVE SessionsOwned'
  BY <1>2, SessionsRevoked
<1>3. ASSUME NEW q \in Requests, DeleteRow(q) PROVE SessionsOwned'
  <2>1. \A s \in WSess : wsess'[s] = wsess[s] \/ wsess'[s] = NoWSess
    BY <1>3 DEF DeleteRow
  <2> QED BY <2>1, NoneTyped, TablesTyped DEF SessionsOwned
<1>4. \A q \in Requests : ureq[q].pc # "idle" => ureq[q].id \in Users
  BY DEF SignIInv, AccountIInv, AccountTyping
<1>5. ASSUME NEW q \in Requests, UpdateRevoke(q) \/ Leave(q) PROVE SessionsOwned'
  <2>1. ureq[q].id \in Users
    BY <1>4, <1>5 DEF UpdateRevoke, Leave
  <2>2. wsess' = wsess \/ RevokeAllForUser(ureq[q].id)
    BY <1>5 DEF UpdateRevoke, Leave
  <2> QED BY <1>1, <1>2, <2>1, <2>2
<1>6. \/ wsess' = wsess
      \/ \E q \in Requests : DeleteRow(q) \/ UpdateRevoke(q) \/ Leave(q)
      \/ \E q \in Requests, a, u \in Users : DeleteRead(q, a, u)
      \/ \E u \in Users : RevokeSessions(u)
  BY DEF AccountNext, UpdateRead, SetRolesRead, UpdateWrite, SetRoles, DeleteCheck, TokenRead, LeaveRead, ReturnRead,
         TokenCreate, TokenRevoke, EnableReturned, AccountCreate
<1>7. ASSUME NEW q \in Requests, NEW a \in Users, NEW u \in Users, DeleteRead(q, a, u) PROVE SessionsOwned'
  BY <1>2, <1>7 DEF DeleteRead
<1>8. ASSUME NEW u \in Users, RevokeSessions(u) PROVE SessionsOwned'
  BY <1>2, <1>8 DEF RevokeSessions
<1> QED BY <1>1, <1>3, <1>5, <1>6, <1>7, <1>8

\* Accounts are managed while people sign in.
LEMMA ManagedSound == ASSUME SignIInv, Managed PROVE SignIInv'
<1>0. AccountIInv /\ AccountNext /\ UNCHANGED signVars /\ \A u \in Users : Exists(u) => account'[u].status # "free"
  BY DEF Managed, SignIInv
<1>1. AccountIInv'
  BY <1>0, AccountStep
<1>2. SessionsOwned'
  BY <1>0, ManagedSessions
<1>3. SignTyping' /\ SignRequests' /\ \A q \in SReqs, u \in Users : Guessing(q, u)' => Guessing(q, u)
  BY <1>0 DEF SignIInv, signVars, SignTyping, SignRequests, Guessing
<1>4. \A u \in Users :
         \/ /\ account'[u].fails = account[u].fails /\ account'[u].locked = account[u].locked
            /\ (account'[u].status = "free" <=> account[u].status = "free")
         \/ account[u].status = "free" /\ account'[u].fails = 0 /\ ~account'[u].locked
  BY <1>0, ManagedCounts
<1>5. guesses' = guesses
  BY <1>0 DEF signVars
<1>6. \A u \in Users : Counted(u)'
  <2> TAKE u \in Users
  <2>0. Counted(u)
    BY DEF SignIInv
  <2>1. CASE /\ account'[u].fails = account[u].fails /\ account'[u].locked = account[u].locked
             /\ (account'[u].status = "free" <=> account[u].status = "free")
    BY <1>3, <1>5, <2>0, <2>1 DEF Counted
  <2>2. CASE account[u].status = "free" /\ account'[u].fails = 0 /\ ~account'[u].locked
    BY <1>3, <1>5, <2>0, <2>2, MaxFailuresTyped DEF Counted
  <2> QED BY <1>4, <2>1, <2>2
<1> QED BY <1>1, <1>2, <1>3, <1>6 DEF SignIInv

\* The start: no one has signed in.
LEMMA SignStart == AccountInit /\ SignInit => SignIInv
<1> SUFFICES ASSUME AccountInit, SignInit PROVE SignIInv
  OBVIOUS
<1>0. /\ totp = [u \in Users |-> NoTOTP] /\ recovery = [u \in Users |-> NoCodes] /\ attempts = [s \in WSess |-> 0]
      /\ stepUp = [s \in WSess |-> [fails |-> 0, closed |-> FALSE]] /\ codeLock = [u \in Users |-> None]
      /\ sreq = [q \in SReqs |-> SIdle] /\ guesses = [u \in Users |-> 0]
  BY DEF SignInit
<1>1. account = [u \in Users |-> NoAccount] /\ wsess = [s \in WSess |-> NoWSess]
  BY DEF AccountInit
<1>2. AccountIInv
  BY AccountStart
<1>3. SessionsOwned
  BY <1>1, NoneTyped DEF SessionsOwned
<1>4. stepUp \in [WSess -> StepUpRec]
  BY <1>0, SignNone
<1>5. SignTyping
  BY <1>0, <1>4, SignNone DEF SignTyping
<1>6. \A q \in SReqs : sreq[q] = SIdle
  BY <1>0
<1>7. SignRequests
  <2>1. DOMAIN sreq = SReqs /\ sreq \in [SReqs -> SignRec] /\ codeLock \in [Users -> SReqs \cup {None}]
    BY <1>0, SignNone
  <2> QED BY <2>1, <1>6, SignNone DEF SignRequests, Checking
<1>8. \A u \in Users : Counted(u)
  <2> TAKE u \in Users
  <2>1. guesses[u] = 0 /\ account[u].fails = 0
    BY <1>0, <1>1 DEF NoAccount
  <2>2. ~\E q \in SReqs : Guessing(q, u)
    BY <1>6, SignNone DEF Guessing
  <2> QED BY <2>1, <2>2, MaxFailuresTyped DEF Counted
<1> QED BY <1>2, <1>3, <1>5, <1>7, <1>8 DEF SignIInv

\* Every step of signing in keeps the invariant.
LEMMA SignStep ==
    ASSUME SignIInv, [LoginNext \/ PasswordNext \/ CodeNext \/ EnrolNext \/ Managed]_<<acctVars, signVars>>
    PROVE  SignIInv'
<1>1. CASE LoginNext
  BY <1>1, PasswordChecked, SessionIssued, SessionEnds DEF LoginNext
<1>2. CASE PasswordNext
  BY <1>2, PasswordChanged, ResetSound DEF PasswordNext
<1>3. CASE CodeNext
  BY <1>3, CodeChecked, SteppedUp DEF CodeNext
<1>4. CASE EnrolNext
  BY <1>4, EnrolledSound, ResetSound DEF EnrolNext
<1>5. CASE Managed
  BY <1>5, ManagedSound
<1>6. CASE UNCHANGED <<acctVars, signVars>>
  <2>1. /\ UNCHANGED <<account, wsess, ulive, token, ureq, decided>>
        /\ UNCHANGED <<totp, recovery, attempts, stepUp, codeLock, sreq, guesses>>
    BY <1>6 DEF acctVars, signVars
  <2>2. SignRequests' /\ SessionsOwned' /\ \A q \in SReqs, u \in Users : Guessing(q, u)' => Guessing(q, u)
    BY <2>1, TablesTyped DEF SignRequests, SessionsOwned, Guessing
  <2> QED BY <2>1, <2>2, TablesTyped, QuietStep
<1> QED BY <1>1, <1>2, <1>3, <1>4, <1>5, <1>6

\* The inductive invariant of signing in holds always.
LEMMA SignInductive == SignSpec => []SignIInv
BY SignStart, SignStep, PTL DEF SignSpec

\* What it says of the types and of the codes.
LEMMA SignSound == SignIInv => SignTypeOK /\ CodesBounded
<1> SUFFICES ASSUME SignIInv PROVE SignTypeOK /\ CodesBounded
  OBVIOUS
<1>1. SignTypeOK
  BY TablesTyped DEF SignTypeOK, TotpRec, CodesRec, StepUpRec, SignRec, SignRequests
<1>2. CodesBounded
  BY DEF SignIInv, Counted, CodesBounded
<1> QED BY <1>1, <1>2

-----------------------------------------------------------------------------
(* Throttle.  A slot is spent for each answered check and forgetting an    *)
(* address changes no answer.                                              *)

\* No bucket was last drawn from, and no sweep last ran, in the future; the history
\* has a bucket for every address.
InThePast ==
    /\ lastGC <= clock /\ lastSweep <= clock
    /\ \A a \in Addresses : bucket[a].last <= clock /\ ideal[a].last <= clock /\ ideal[a].held

ThrottleIInv == ThrottleTypeOK /\ InThePast /\ ForgettingChangesNothing /\ SlotsAccounted

\* What the limits are.
LEMMA Limits ==
    /\ Burst \in Nat /\ Burst > 0 /\ Rate \in Nat /\ Rate > 0 /\ MaxHeld \in Nat /\ MaxHeld > 0
    /\ Slots \in Nat /\ Slots > 0 /\ MaxClock \in Nat /\ MaxClock > 0 /\ GCEvery \in Nat
    /\ IsFiniteSet(Addresses) /\ IsFiniteSet(Checks)
BY ThrottleAssumption

\* A full bucket, and none.
LEMMA NewBuckets ==
    /\ Full \in Bucket /\ Full.held /\ Full.tokens = Burst /\ Full.last = 0
    /\ NoBucket \in Bucket /\ ~NoBucket.held /\ NoBucket.last = 0
<1>1. Burst \in 0..Burst /\ 0 \in 0..MaxClock
  BY Limits
<1>2. Full \in Bucket
  BY <1>1, Zenon DEF Full, Bucket
<1>3. Full.last = 0 /\ Full.tokens = Burst
  BY DEF Full
<1>4. Full.held
  BY DEF Full
<1>5. NoBucket \in Bucket
  BY <1>2 DEF NoBucket, Bucket
<1>6. ~NoBucket.held
  BY <1>2 DEF NoBucket, Bucket
<1>7. NoBucket.last = 0
  BY <1>2, <1>3 DEF NoBucket, Bucket
<1> QED BY <1>2, <1>3, <1>4, <1>5, <1>6, <1>7

\* Two buckets with the same fields are one.
LEMMA SameBucket ==
    ASSUME NEW b \in Bucket, NEW c \in Bucket,
           b.held = c.held, b.tokens = c.tokens, b.last = c.last, b.refusing = c.refusing
    PROVE  b = c
BY DEF Bucket

\* What a bucket gains over a time is a number, nothing over none, and no less over a longer one.
LEMMA Gains ==
    ASSUME NEW m \in Nat, NEW n \in Nat, m <= n
    PROVE  Rate * m \in Nat /\ Rate * n \in Nat /\ Rate * m <= Rate * n /\ Rate * 0 = 0
<1>1. Rate \in Nat
  BY Limits
<1>2. PICK d \in Nat : n = m + d
  <2>1. n - m \in Nat /\ n = m + (n - m)
    OBVIOUS
  <2> QED BY <2>1
<1>3. Rate * n = Rate * m + Rate * d /\ Rate * m \in Nat /\ Rate * d \in Nat /\ Rate * 0 = 0
  BY <1>1, <1>2, Z3
<1> QED BY <1>2, <1>3

\* A held set is finite, and no larger than one it is part of.
LEMMA HeldFinite ==
    ASSUME NEW S, NEW T, S \subseteq T, T \subseteq Addresses
    PROVE  /\ IsFiniteSet(S) /\ IsFiniteSet(T)
           /\ Cardinality(S) \in Nat /\ Cardinality(T) \in Nat /\ Cardinality(S) <= Cardinality(T)
<1>1. IsFiniteSet(T)
  BY Limits, FS_Subset
<1> QED BY <1>1, FS_Subset, FS_CardinalityType

\* The start of the throttle.
LEMMA ThrottleStart == ThrottleInit => ThrottleIInv
<1> SUFFICES ASSUME ThrottleInit PROVE ThrottleIInv
  OBVIOUS
<1>0. /\ clock = 1 /\ lastGC = 1 /\ lastSweep = 0 /\ gate = 0
      /\ bucket = [a \in Addresses |-> NoBucket] /\ ideal = [a \in Addresses |-> Full]
      /\ check = [c \in Checks |-> "out"]
  BY DEF ThrottleInit
<1>1. Full \in Bucket /\ NoBucket \in Bucket /\ Full.last = 0 /\ NoBucket.last = 0 /\ ~NoBucket.held /\ Full.held /\ Full.tokens = Burst
  BY NewBuckets
<1>2. ThrottleTypeOK
  BY <1>0, <1>1, Limits DEF ThrottleTypeOK
<1>3. InThePast
  BY <1>0, <1>1 DEF InThePast
<1>4. Held(bucket) = {}
  BY <1>0, <1>1 DEF Held
<1>5. \A a \in Addresses : ~bucket[a].held /\ refilled(ideal[a]) >= Burst
  <2> TAKE a \in Addresses
  <2>1. ideal[a].tokens = Burst /\ ideal[a].last = 0 /\ ~bucket[a].held
    BY <1>0, <1>1
  <2>2. Rate * 1 \in Nat
    BY Gains
  <2> QED BY <2>1, <2>2, <1>0, Limits DEF refilled
<1>6. Cardinality(Held(bucket)) <= MaxHeld
  BY <1>4, FS_EmptySet, Limits
<1>7. ForgettingChangesNothing
  BY <1>5, <1>6 DEF ForgettingChangesNothing
<1>8. SlotsAccounted
  <2>1. {c \in Checks : check[c] = "hashing"} = {}
    BY <1>0
  <2> QED BY <2>1, <1>0, FS_EmptySet DEF SlotsAccounted
<1> QED BY <1>2, <1>3, <1>7, <1>8 DEF ThrottleIInv

\* A clock that moves on leaves a full bucket full.
LEMMA TickSound == ASSUME ThrottleIInv, Tick PROVE ThrottleIInv'
<1>0. /\ clock < MaxClock /\ clock' = clock + 1 /\ lastGC' = lastGC /\ lastSweep' = lastSweep
      /\ bucket' = bucket /\ ideal' = ideal /\ gate' = gate /\ check' = check
  BY DEF Tick
<1>1. ThrottleTypeOK /\ InThePast /\ ForgettingChangesNothing /\ SlotsAccounted
  BY DEF ThrottleIInv
<1>2. clock \in 0..MaxClock /\ MaxClock \in Nat /\ {lastGC, lastSweep} \subseteq 0..MaxClock
  BY <1>1, Limits DEF ThrottleTypeOK
<1>3. ThrottleTypeOK'
  BY <1>0, <1>1, <1>2 DEF ThrottleTypeOK
<1>4. InThePast'
  <2>1. \A a \in Addresses : bucket[a].last \in 0..MaxClock /\ ideal[a].last \in 0..MaxClock
    BY <1>1 DEF ThrottleTypeOK, Bucket
  <2> QED BY <1>0, <1>1, <1>2, <2>1 DEF InThePast
<1>5. \A a \in Addresses : ~bucket[a].held => refilled(ideal[a])' >= Burst
  <2> SUFFICES ASSUME NEW a \in Addresses, ~bucket[a].held PROVE refilled(ideal[a])' >= Burst
    OBVIOUS
  <2>1. ideal[a].last \in 0..MaxClock /\ ideal[a].tokens \in 0..Burst /\ ideal[a].last <= clock
    BY <1>1 DEF ThrottleTypeOK, Bucket, InThePast
  <2>2. ideal[a].tokens + Rate * (clock - ideal[a].last) >= Burst
    BY <1>1 DEF ForgettingChangesNothing, refilled
  <2>3. clock - ideal[a].last \in Nat /\ clock' - ideal[a].last \in Nat /\ clock - ideal[a].last <= clock' - ideal[a].last
    BY <2>1, <1>2, <1>0
  <2>4. /\ Rate * (clock - ideal[a].last) \in Nat /\ Rate * (clock' - ideal[a].last) \in Nat
        /\ Rate * (clock - ideal[a].last) <= Rate * (clock' - ideal[a].last)
    BY <2>3, Gains
  <2>5. refilled(ideal[a])' = ideal[a].tokens + Rate * (clock' - ideal[a].last)
    BY <1>0 DEF refilled
  <2> HIDE DEF refilled
  <2>6. Burst \in Nat
    BY Limits
  <2> QED BY <2>1, <2>2, <2>4, <2>5, <2>6
<1>6. Held(bucket)' = Held(bucket)
  BY <1>0 DEF Held
<1>7. ForgettingChangesNothing'
  BY <1>0, <1>1, <1>5, <1>6 DEF ForgettingChangesNothing
<1>8. SlotsAccounted'
  BY <1>0, <1>1 DEF SlotsAccounted
<1> QED BY <1>3, <1>4, <1>7, <1>8 DEF ThrottleIInv

\* The buckets that may be there in place of bucket: some forgotten, of those that had refilled.
Swept(bs) ==
    /\ bs \in [Addresses -> Bucket]
    /\ \A a \in Addresses : bs[a].last <= clock
    /\ \A a \in Addresses : IF bs[a].held THEN bs[a] = ideal[a] ELSE refilled(ideal[a]) >= Burst
    /\ Cardinality(Held(bs)) <= MaxHeld

\* A sweep forgets buckets that had refilled, and no others.
LEMMA SweepKeeps ==
    ASSUME ThrottleIInv, NEW bs, Swept(bs) PROVE Swept(sweep(bs))
<1> DEFINE ss == sweep(bs)
<1>0. NoBucket \in Bucket /\ NoBucket.last = 0 /\ ~NoBucket.held
  BY NewBuckets
<1>1. clock \in Nat
  BY DEF ThrottleIInv, ThrottleTypeOK
<1>2. \A a \in Addresses : ss[a] = IF bs[a].held /\ refilled(bs[a]) >= Burst THEN NoBucket ELSE bs[a]
  BY DEF sweep
<1>3. ss \in [Addresses -> Bucket]
  <2>1. \A a \in Addresses : (IF bs[a].held /\ refilled(bs[a]) >= Burst THEN NoBucket ELSE bs[a]) \in Bucket
    BY <1>0 DEF Swept
  <2> QED BY <2>1 DEF sweep
<1> HIDE DEF ss
<1>4. \A a \in Addresses : ss[a].last <= clock
  BY <1>0, <1>1, <1>2 DEF Swept
<1>5. \A a \in Addresses : IF ss[a].held THEN ss[a] = ideal[a] ELSE refilled(ideal[a]) >= Burst
  <2> SUFFICES ASSUME NEW a \in Addresses PROVE IF ss[a].held THEN ss[a] = ideal[a] ELSE refilled(ideal[a]) >= Burst
    OBVIOUS
  <2>1. IF bs[a].held THEN bs[a] = ideal[a] ELSE refilled(ideal[a]) >= Burst
    BY DEF Swept
  <2>2. CASE bs[a].held /\ refilled(bs[a]) >= Burst
    <3>1. ss[a] = NoBucket /\ bs[a] = ideal[a]
      BY <2>1, <2>2, <1>2
    <3>2. refilled(ideal[a]) >= Burst
      BY <2>2, <3>1
    <3> QED BY <3>1, <3>2, <1>0
  <2>3. CASE ~(bs[a].held /\ refilled(bs[a]) >= Burst)
    <3>1. ss[a] = bs[a]
      BY <2>3, <1>2
    <3> QED BY <3>1, <2>1
  <2> QED BY <2>2, <2>3
<1>6. Held(ss) \subseteq Held(bs) /\ Held(bs) \subseteq Addresses
  BY <1>0, <1>2 DEF Held
<1>7. Cardinality(Held(ss)) <= MaxHeld
  <2>1. Cardinality(Held(bs)) <= MaxHeld
    BY DEF Swept
  <2>2. Cardinality(Held(ss)) \in Nat /\ Cardinality(Held(bs)) \in Nat /\ Cardinality(Held(ss)) <= Cardinality(Held(bs))
    BY <1>6, HeldFinite
  <2> QED BY <2>1, <2>2, Limits
<1> QED BY <1>3, <1>4, <1>5, <1>7 DEF Swept, ss

\* A draw from a bucket: its type, that it was now, and what it leaves of a full one.
LEMMA DrawTyped ==
    ASSUME ThrottleIInv, NEW b \in Bucket, b.last <= clock
    PROVE  /\ draw(b) \in Bucket /\ draw(b).last = clock /\ draw(b).held = b.held
           /\ refilled(b) >= Burst => draw(b).tokens = Burst - 1 /\ draw(b).refusing = FALSE
<1>1. clock \in 0..MaxClock /\ MaxClock \in Nat /\ Burst \in Nat /\ Burst > 0
  BY Limits DEF ThrottleIInv, ThrottleTypeOK
<1>2. b.tokens \in 0..Burst /\ b.last \in 0..MaxClock
  BY DEF Bucket
<1>3. refilled(b) \in Nat
  <2>1. clock - b.last \in Nat
    BY <1>1, <1>2
  <2>2. Rate * (clock - b.last) \in Nat
    BY <2>1, Gains
  <2> QED BY <2>2, <1>1, <1>2 DEF refilled
<1> DEFINE t == Least(refilled(b), Burst)
           k == IF t = 0 THEN 0 ELSE t - 1
           z == (t = 0)
<1>4. t \in 0..Burst /\ (refilled(b) >= Burst => t = Burst)
  BY <1>1, <1>3 DEF Least
<1> HIDE DEF t
<1>5. k \in 0..Burst /\ z \in BOOLEAN
  BY <1>4, <1>1
<1>6. refilled(b) >= Burst => k = Burst - 1
  BY <1>4, <1>1
<1>7. refilled(b) >= Burst => z = FALSE
  BY <1>4, <1>1
<1>8. draw(b) = [b EXCEPT !.tokens = k, !.last = clock, !.refusing = z]
  BY DEF draw, t
<1> HIDE DEF k, z
<1>9. draw(b) \in Bucket
  BY <1>1, <1>5, <1>8 DEF Bucket
<1>10. draw(b).last = clock /\ draw(b).held = b.held /\ draw(b).tokens = k
  BY <1>1, <1>5, <1>8 DEF Bucket
<1>11. draw(b).refusing = z
  BY <1>1, <1>5, <1>8 DEF Bucket
<1> QED BY <1>6, <1>7, <1>9, <1>10, <1>11

\* A draw from a bucket that has refilled is one from a new bucket.
LEMMA DrawFull ==
    ASSUME ThrottleIInv, NEW b \in Bucket, b.last <= clock, b.held, refilled(b) >= Burst
    PROVE  draw([Full EXCEPT !.last = clock]) = draw(b)
<1> DEFINE f == [Full EXCEPT !.last = clock]
<1>1. clock \in 0..MaxClock /\ clock \in Nat /\ Burst \in Nat
  BY Limits DEF ThrottleIInv, ThrottleTypeOK
<1>2. f \in Bucket /\ f.last = clock /\ f.tokens = Burst
  BY <1>1, NewBuckets DEF Bucket
<1>3. f.held = TRUE /\ b.held = TRUE
  <2>1. f.held = Full.held
    BY NewBuckets DEF Bucket
  <2>2. Full.held = TRUE
    BY DEF Full
  <2>3. b.held = TRUE
    BY DEF Bucket
  <2> QED BY <2>1, <2>2, <2>3
<1> HIDE DEF f
<1>4. refilled(f) >= Burst
  <2>1. clock - clock = 0 /\ Rate * 0 = 0
    BY <1>1, Gains
  <2>2. refilled(f) = Burst
    BY <2>1, <1>2, <1>1 DEF refilled
  <2> QED BY <2>2, <1>1
<1>5. /\ draw(f) \in Bucket /\ draw(f).last = clock /\ draw(f).held = f.held
      /\ draw(f).tokens = Burst - 1 /\ draw(f).refusing = FALSE
  <2>1. f.last <= clock
    BY <1>1, <1>2
  <2> QED BY <2>1, <1>2, <1>4, DrawTyped
<1>6. /\ draw(b) \in Bucket /\ draw(b).last = clock /\ draw(b).held = b.held
      /\ draw(b).tokens = Burst - 1 /\ draw(b).refusing = FALSE
  BY DrawTyped
<1>7. draw(f) = draw(b)
  BY <1>3, <1>5, <1>6, SameBucket, Zenon
<1> QED BY <1>7 DEF f

\* Take leaves every address with the bucket it would have had.
LEMMA TakeSound == ASSUME ThrottleIInv, NEW a \in Addresses, Take(a) PROVE ThrottleIInv'
<1>1. ThrottleTypeOK /\ InThePast /\ ForgettingChangesNothing /\ SlotsAccounted
  BY DEF ThrottleIInv
<1> DEFINE due == clock - lastGC > GCEvery
           swept == IF due THEN sweep(bucket) ELSE bucket
           crowded(bs) == ~bs[a].held /\ Cardinality(Held(bs)) >= MaxHeld
           forced == crowded(swept) /\ clock - lastSweep >= 1
           room == IF forced THEN sweep(swept) ELSE swept
           mine == IF room[a].held THEN room[a] ELSE [Full EXCEPT !.last = clock]
<1>0. /\ lastGC' = IF due THEN clock ELSE lastGC
      /\ lastSweep' = IF forced THEN clock ELSE lastSweep
      /\ IF crowded(room) THEN bucket' = room /\ ideal' = ideal
         ELSE /\ bucket' = [room EXCEPT ![a] = draw(mine)]
              /\ ideal' = [ideal EXCEPT ![a] = draw(ideal[a])]
      /\ clock' = clock /\ gate' = gate /\ check' = check
  BY DEF Take
<1>2. Swept(bucket)
  BY <1>1 DEF Swept, ThrottleTypeOK, InThePast, ForgettingChangesNothing
<1>3. Swept(swept)
  BY <1>2, SweepKeeps
<1>4. Swept(room)
  <2> HIDE DEF swept
  <2> QED BY <1>3, SweepKeeps
<1>5. {lastGC', lastSweep', clock'} \subseteq 0..MaxClock /\ lastGC' <= clock' /\ lastSweep' <= clock' /\ clock \in Nat
  <2> HIDE DEF due, forced
  <2>1. {clock, lastGC, lastSweep} \subseteq 0..MaxClock /\ lastGC <= clock /\ lastSweep <= clock
    BY <1>1 DEF ThrottleTypeOK, InThePast
  <2>2. lastGC' \in {clock, lastGC} /\ lastSweep' \in {clock, lastSweep} /\ clock' = clock
    BY <1>0
  <2> QED BY <2>1, <2>2, Limits
<1>6. ASSUME NEW x \in Addresses PROVE ideal[x] \in Bucket /\ ideal[x].last <= clock /\ ideal[x].held
  BY <1>1 DEF ThrottleTypeOK, InThePast
<1>7. SlotsAccounted'
  BY <1>0, <1>1 DEF SlotsAccounted
<1>8. gate' \in 0..Slots /\ check' \in [Checks -> {"out", "waiting", "hashing"}]
  BY <1>0, <1>1 DEF ThrottleTypeOK
<1> HIDE DEF room
<1>9. PICK r : r = room
  OBVIOUS
<1>10. CASE crowded(room)
  <2>1. bucket' = r /\ ideal' = ideal /\ clock' = clock
    BY <1>0, <1>9, <1>10
  <2>2. ThrottleTypeOK'
    BY <1>5, <1>8, <2>1, <1>4, <1>9, <1>1 DEF Swept, ThrottleTypeOK
  <2>3. InThePast'
    BY <1>5, <2>1, <1>4, <1>9, <1>1, <1>6 DEF Swept, InThePast
  <2>4. ForgettingChangesNothing'
    BY <2>1, <1>4, <1>9 DEF Swept, ForgettingChangesNothing, Held, refilled
  <2> QED BY <2>2, <2>3, <2>4, <1>7 DEF ThrottleIInv
<1>11. CASE ~crowded(room)
  <2>1. bucket' = [r EXCEPT ![a] = draw(mine)] /\ ideal' = [ideal EXCEPT ![a] = draw(ideal[a])] /\ clock' = clock
    BY <1>0, <1>9, <1>11
  <2>2. draw(mine) = draw(ideal[a])
    <3>1. CASE room[a].held
      <4>1. room[a] = ideal[a]
        BY <1>4, <3>1 DEF Swept
      <4> QED BY <4>1, <3>1
    <3>2. CASE ~room[a].held
      <4>1. refilled(ideal[a]) >= Burst
        BY <1>4, <3>2 DEF Swept
      <4>2. mine = [Full EXCEPT !.last = clock]
        BY <3>2
      <4>3. draw([Full EXCEPT !.last = clock]) = draw(ideal[a])
        BY <4>1, <1>6, DrawFull
      <4> QED BY <4>2, <4>3
    <3> QED BY <3>1, <3>2
  <2>3. PICK d : d = draw(ideal[a])
    OBVIOUS
  <2>4. d \in Bucket /\ d.last = clock /\ d.held
    BY <2>3, <1>6, DrawTyped
  <2>5. bucket' = [r EXCEPT ![a] = d] /\ ideal' = [ideal EXCEPT ![a] = d]
    BY <2>1, <2>2, <2>3
  <2>6. /\ r \in [Addresses -> Bucket]
        /\ \A x \in Addresses : r[x].last <= clock
        /\ \A x \in Addresses : IF r[x].held THEN r[x] = ideal[x] ELSE refilled(ideal[x]) >= Burst
        /\ Cardinality(Held(r)) <= MaxHeld
    BY <1>4, <1>9 DEF Swept
  <2>7. ideal \in [Addresses -> Bucket]
    BY <1>1 DEF ThrottleTypeOK
  <2>8. ThrottleTypeOK'
    BY <1>5, <1>8, <2>4, <2>5, <2>6, <2>7 DEF ThrottleTypeOK
  <2>9. InThePast'
    <3> SUFFICES ASSUME NEW x \in Addresses PROVE bucket'[x].last <= clock /\ ideal'[x].last <= clock /\ ideal'[x].held
      BY <1>5, <2>1 DEF InThePast
    <3>1. CASE x = a
      BY <3>1, <2>4, <2>5, <2>6, <2>7, <1>5
    <3>2. CASE x # a
      BY <3>2, <2>5, <2>6, <2>7, <1>6
    <3> QED BY <3>1, <3>2
  <2>10. \A x \in Addresses : IF bucket'[x].held THEN bucket'[x] = ideal'[x] ELSE refilled(ideal[x])' >= Burst
    <3> SUFFICES ASSUME NEW x \in Addresses
                 PROVE IF bucket'[x].held THEN bucket'[x] = ideal'[x] ELSE refilled(ideal[x])' >= Burst
      OBVIOUS
    <3>1. CASE x = a
      BY <3>1, <2>4, <2>5, <2>6, <2>7
    <3>2. CASE x # a
      <4>1. bucket'[x] = r[x] /\ ideal'[x] = ideal[x]
        BY <3>2, <2>5, <2>6, <2>7
      <4>2. refilled(ideal[x])' = refilled(ideal[x])
        BY <4>1, <2>1 DEF refilled
      <4> QED BY <4>1, <4>2, <2>6
    <3> QED BY <3>1, <3>2
  <2>11. Cardinality(Held(bucket)') <= MaxHeld
    <3>1. Held(bucket)' = Held(r) \cup {a}
      BY <2>4, <2>5, <2>6 DEF Held
    <3>2. IsFiniteSet(Held(r)) /\ Cardinality(Held(r)) \in Nat
      <4>1. Held(r) \subseteq Held(r) /\ Held(r) \subseteq Addresses
        BY DEF Held
      <4> QED BY <4>1, HeldFinite
    <3>3. CASE r[a].held
      <4>1. Held(r) \cup {a} = Held(r)
        BY <3>3 DEF Held
      <4> QED BY <4>1, <3>1, <2>6
    <3>4. CASE ~r[a].held
      <4>1. a \notin Held(r) /\ ~(Cardinality(Held(r)) >= MaxHeld)
        BY <3>4, <1>9, <1>11 DEF Held
      <4>2. Cardinality(Held(r) \cup {a}) = Cardinality(Held(r)) + 1
        BY <4>1, <3>2, FS_AddElement
      <4> QED BY <4>1, <4>2, <3>1, <3>2, Limits
    <3> QED BY <3>3, <3>4
  <2>12. ForgettingChangesNothing'
    BY <2>10, <2>11 DEF ForgettingChangesNothing
  <2> QED BY <2>8, <2>9, <2>12, <1>7 DEF ThrottleIInv
<1> QED BY <1>10, <1>11

\* A step at the hash gate touches no bucket.
GateStill == UNCHANGED <<clock, lastGC, lastSweep, bucket, ideal>>

\* What stands in the gate, and the buckets, keep the invariant together.
LEMMA GateKeeps ==
    ASSUME ThrottleIInv, GateStill, SlotsAccounted',
           gate' \in 0..Slots, check' \in [Checks -> {"out", "waiting", "hashing"}]
    PROVE  ThrottleIInv'
<1>1. clock' = clock /\ lastGC' = lastGC /\ lastSweep' = lastSweep /\ bucket' = bucket /\ ideal' = ideal
  BY DEF GateStill
<1>2. ThrottleTypeOK /\ InThePast /\ ForgettingChangesNothing
  BY DEF ThrottleIInv
<1>3. ThrottleTypeOK'
  BY <1>1, <1>2 DEF ThrottleTypeOK
<1>4. InThePast'
  BY <1>1, <1>2 DEF InThePast
<1>5. ForgettingChangesNothing'
  BY <1>1, <1>2 DEF ForgettingChangesNothing, Held, refilled
<1> QED BY <1>3, <1>4, <1>5 DEF ThrottleIInv

\* The requests that hash.
Hashing == {c \in Checks : check[c] = "hashing"}

\* They are finitely many.
LEMMA HashingFinite == IsFiniteSet(Hashing) /\ Cardinality(Hashing) \in Nat
<1>1. Hashing \subseteq Checks
  BY DEF Hashing
<1> QED BY <1>1, Limits, FS_Subset, FS_CardinalityType

\* A slot taken, and one given back.
LEMMA SlotTaken ==
    ASSUME ThrottleIInv, NEW c \in Checks, check[c] # "hashing", gate < Slots, gate' = gate + 1,
           check' = [check EXCEPT ![c] = "hashing"], GateStill
    PROVE  ThrottleIInv'
<1>1. gate \in 0..Slots /\ check \in [Checks -> {"out", "waiting", "hashing"}] /\ gate = Cardinality(Hashing)
  BY DEF ThrottleIInv, ThrottleTypeOK, SlotsAccounted, Hashing
<1>2. Hashing' = Hashing \cup {c} /\ c \notin Hashing
  BY <1>1 DEF Hashing
<1>3. Cardinality(Hashing \cup {c}) = Cardinality(Hashing) + 1
  BY <1>2, HashingFinite, FS_AddElement
<1>4. SlotsAccounted'
  BY <1>1, <1>2, <1>3 DEF SlotsAccounted, Hashing
<1>5. gate' \in 0..Slots /\ check' \in [Checks -> {"out", "waiting", "hashing"}]
  BY <1>1, Limits
<1> QED BY <1>4, <1>5, GateKeeps
\* A slot given back.
LEMMA SlotLeft ==
    ASSUME ThrottleIInv, NEW c \in Checks, LeaveGate(c) PROVE ThrottleIInv'
<1>0. check[c] = "hashing" /\ gate' = gate - 1 /\ check' = [check EXCEPT ![c] = "out"] /\ GateStill
  BY DEF LeaveGate, GateStill
<1>1. gate \in 0..Slots /\ check \in [Checks -> {"out", "waiting", "hashing"}] /\ gate = Cardinality(Hashing)
  BY DEF ThrottleIInv, ThrottleTypeOK, SlotsAccounted, Hashing
<1>2. Hashing' = Hashing \ {c} /\ c \in Hashing
  BY <1>0, <1>1 DEF Hashing
<1>3. Cardinality(Hashing \ {c}) = Cardinality(Hashing) - 1
  BY <1>2, HashingFinite, FS_RemoveElement
<1>4. SlotsAccounted'
  BY <1>0, <1>1, <1>2, <1>3 DEF SlotsAccounted, Hashing
<1>5. Cardinality(Hashing \ {c}) \in Nat
  <2>1. IsFiniteSet(Hashing \ {c})
    BY HashingFinite, FS_RemoveElement
  <2> QED BY <2>1, FS_CardinalityType
<1>6. gate' \in 0..Slots
  BY <1>0, <1>1, <1>3, <1>5, Limits
<1>7. check' \in [Checks -> {"out", "waiting", "hashing"}]
  BY <1>0, <1>1
<1> QED BY <1>0, <1>4, <1>6, <1>7, GateKeeps

\* A request that waits, or leaves the wait, holds no slot.
LEMMA NoSlot ==
    ASSUME ThrottleIInv, NEW c \in Checks, check[c] # "hashing", gate' = gate,
           NEW pc \in {"out", "waiting"}, check' = [check EXCEPT ![c] = pc], GateStill
    PROVE  ThrottleIInv'
<1>1. gate \in 0..Slots /\ check \in [Checks -> {"out", "waiting", "hashing"}] /\ gate = Cardinality(Hashing)
  BY DEF ThrottleIInv, ThrottleTypeOK, SlotsAccounted, Hashing
<1>2. Hashing' = Hashing
  BY <1>1 DEF Hashing
<1>3. SlotsAccounted'
  BY <1>1, <1>2 DEF SlotsAccounted, Hashing
<1>4. check' \in [Checks -> {"out", "waiting", "hashing"}]
  BY <1>1
<1> QED BY <1>1, <1>3, <1>4, GateKeeps

\* Every step of the throttle keeps the invariant.
LEMMA ThrottleStep == ASSUME ThrottleIInv, [ThrottleNext]_throttleVars PROVE ThrottleIInv'
<1>1. CASE Tick
  BY <1>1, TickSound
<1>2. ASSUME NEW a \in Addresses, Take(a) PROVE ThrottleIInv'
  BY <1>2, TakeSound
<1>3. ASSUME NEW c \in Checks, Enter(c) PROVE ThrottleIInv'
  <2>1. check[c] # "hashing" /\ GateStill
    BY <1>3 DEF Enter, GateStill
  <2>2. CASE gate < Slots
    BY <1>3, <2>1, <2>2, SlotTaken DEF Enter
  <2>3. CASE ~(gate < Slots)
    BY <1>3, <2>1, <2>3, NoSlot DEF Enter
  <2> QED BY <2>2, <2>3
<1>4. ASSUME NEW c \in Checks, EnterWaited(c) PROVE ThrottleIInv'
  <2>1. check[c] # "hashing" /\ GateStill
    BY <1>4 DEF EnterWaited, GateStill
  <2>2. CASE gate < Slots /\ gate' = gate + 1 /\ check' = [check EXCEPT ![c] = "hashing"]
    BY <2>1, <2>2, SlotTaken
  <2>3. CASE gate' = gate /\ check' = [check EXCEPT ![c] = "out"]
    BY <2>1, <2>3, NoSlot
  <2> QED BY <1>4, <2>2, <2>3 DEF EnterWaited
<1>5. ASSUME NEW c \in Checks, LeaveGate(c) PROVE ThrottleIInv'
  BY <1>5, SlotLeft
<1>6. CASE UNCHANGED throttleVars
  <2>1. GateStill /\ gate' = gate /\ check' = check
    BY <1>6 DEF throttleVars, GateStill
  <2>2. SlotsAccounted' /\ gate' \in 0..Slots /\ check' \in [Checks -> {"out", "waiting", "hashing"}]
    BY <2>1 DEF ThrottleIInv, ThrottleTypeOK, SlotsAccounted
  <2> QED BY <2>1, <2>2, GateKeeps
<1> QED BY <1>1, <1>2, <1>3, <1>4, <1>5, <1>6 DEF ThrottleNext

\* The inductive invariant of the throttle holds always.
LEMMA ThrottleInductive == ThrottleSpec => []ThrottleIInv
BY ThrottleStart, ThrottleStep, PTL DEF ThrottleSpec

-----------------------------------------------------------------------------
(* CommandLine.  A prompt is good for one run.                             *)

\* A request that has taken what prompt there was, for a line that has a plan.
Answering(r) == creq[r].pc \in {"plan", "run"} /\ creq[r].line # Plain

\* A prompt is with one at a time: it waits, or one request has taken it, or it has run.
PromptsApart ==
    /\ memory.pending <= Len(prompts)
    /\ \A r \in CReqs : Answering(r) => creq[r].pend <= Len(prompts)
    /\ \A r, o \in CReqs : r # o /\ Answering(r) /\ Answering(o) /\ creq[r].pend # NoPrompt => creq[r].pend # creq[o].pend
    /\ \A r \in CReqs : Answering(r) /\ creq[r].pend # NoPrompt => creq[r].pend # memory.pending
    /\ \A i \in 1..Len(ran) :
          /\ ran[i].prompt \in 1..Len(prompts) /\ ran[i].prompt # memory.pending
          /\ \A r \in CReqs : Answering(r) => ran[i].prompt # creq[r].pend

\* A command with a plan runs only on an answer to its prompt.
Confirmed == \A r \in CReqs : creq[r].pc = "run" /\ creq[r].line # Plain => answers(creq[r])

CommandIInv == CommandTypeOK /\ PromptsApart /\ Confirmed /\ ConfirmedOnce

Memory == [lastUse : 0..MaxMinute, fails : 0..maxFails, lockedUntil : Nat, pending : 0..MaxPrompts,
           recent : 0..perMinute, counted : 0..MaxMinute]
CReq == [pc : {"idle", "verify", "proved", "marked", "take", "plan", "run", "done"}, now : 0..MaxMinute,
         line : CLines \cup {Plain}, confirm : {"none", "right", "wrong"}, pend : 0..MaxPrompts]
APrompt == [line : CLines \cup {Plain}, expires : Nat]
ARun == [prompt : 0..MaxPrompts, line : CLines \cup {Plain}, at : 0..MaxMinute]

\* The bounds of the command line are numbers.
LEMMA CommandLimits ==
    /\ freshFor \in Nat /\ maxFails \in Nat /\ lockFor \in Nat /\ confirmFor \in Nat /\ perMinute \in Nat
    /\ MaxPrompts \in Nat /\ MaxMinute \in Nat /\ MaxMinute > 0
BY CommandAssumption

\* The type invariant, with its sets named.
LEMMA CommandTypes ==
    CommandTypeOK <=>
      /\ time \in 1..MaxMinute /\ mfaAt \in 0..MaxMinute
      /\ memory \in Memory /\ creq \in [CReqs -> CReq]
      /\ prompts \in Seq(APrompt) /\ Len(prompts) <= MaxPrompts /\ ran \in Seq(ARun)
BY DEF CommandTypeOK, Memory, CReq, APrompt, ARun

\* A request that is not there.
LEMMA CIdleTyped == CIdle \in CReq /\ CIdle.pc = "idle"
<1>1. 0 \in 0..MaxMinute /\ 0 \in 0..MaxPrompts
  BY CommandLimits
<1> QED BY <1>1 DEF CIdle, CReq, NoPrompt

\* A memory that was lost.
LEMMA ForgottenTyped == Forgotten \in Memory /\ Forgotten.pending = NoPrompt
<1>1. 0 \in 0..MaxMinute /\ 0 \in 0..MaxPrompts /\ 0 \in 0..maxFails /\ 0 \in 0..perMinute /\ 0 \in Nat
  BY CommandLimits
<1> QED BY <1>1 DEF Forgotten, Memory, NoPrompt

\* The start of the command line.
LEMMA CommandStart == CommandInit => CommandIInv
<1> SUFFICES ASSUME CommandInit PROVE CommandIInv
  OBVIOUS
<1>0. /\ time = 1 /\ mfaAt = 0 /\ memory = Forgotten
      /\ creq = [r \in CReqs |-> CIdle] /\ prompts = <<>> /\ ran = <<>>
  BY DEF CommandInit
<1>1. CommandTypeOK
  <2>1. prompts \in Seq(APrompt) /\ Len(prompts) = 0 /\ ran \in Seq(ARun)
    BY <1>0
  <2> QED BY <1>0, <2>1, CIdleTyped, ForgottenTyped, CommandLimits, CommandTypes
<1>2. \A r \in CReqs : creq[r].pc = "idle"
  BY <1>0, CIdleTyped
<1>3. Len(ran) = 0 /\ Len(prompts) = 0 /\ memory.pending = 0
  BY <1>0, ForgottenTyped DEF NoPrompt
<1>4. PromptsApart
  BY <1>2, <1>3 DEF PromptsApart, Answering
<1>5. Confirmed
  BY <1>2 DEF Confirmed
<1>6. ConfirmedOnce
  BY <1>3 DEF ConfirmedOnce
<1> QED BY <1>1, <1>4, <1>5, <1>6 DEF CommandIInv

\* Requests that only let go of prompts, and a memory that does so too, keep the invariant.
LEMMA LetGo ==
    ASSUME CommandIInv, prompts' = prompts, ran' = ran, time' \in 1..MaxMinute, mfaAt' \in 0..MaxMinute,
           memory' \in Memory, creq' \in [CReqs -> CReq],
           memory'.pending \in {memory.pending, NoPrompt},
           \A r \in CReqs : creq'[r] = creq[r] \/ creq'[r].pc \notin {"plan", "run"} \/ creq'[r].line = Plain
    PROVE  CommandIInv'
<1>0. CommandTypeOK /\ PromptsApart /\ Confirmed /\ ConfirmedOnce
  BY DEF CommandIInv
<1>1. prompts \in Seq(APrompt) /\ Len(prompts) <= MaxPrompts /\ ran \in Seq(ARun) /\ Len(prompts) \in Nat
  BY <1>0, CommandTypes
<1>2. CommandTypeOK'
  <2>1. prompts' \in Seq(APrompt) /\ Len(prompts') <= MaxPrompts /\ ran' \in Seq(ARun)
    BY <1>1
  <2> QED BY <2>1 DEF CommandTypeOK, Memory, CReq, APrompt, ARun
<1>3. \A r \in CReqs : Answering(r)' => Answering(r) /\ creq'[r] = creq[r]
  BY DEF Answering
<1>4. PromptsApart'
  <2>1. memory'.pending <= Len(prompts)
    BY <1>0, <1>1 DEF PromptsApart, NoPrompt
  <2>2. \A r \in CReqs : Answering(r)' => creq'[r].pend <= Len(prompts)
    BY <1>0, <1>3 DEF PromptsApart
  <2>3. \A r, o \in CReqs : r # o /\ Answering(r)' /\ Answering(o)' /\ creq'[r].pend # NoPrompt => creq'[r].pend # creq'[o].pend
    BY <1>0, <1>3 DEF PromptsApart
  <2>4. \A r \in CReqs : Answering(r)' /\ creq'[r].pend # NoPrompt => creq'[r].pend # memory'.pending
    BY <1>0, <1>3 DEF PromptsApart
  <2>5. \A i \in 1..Len(ran) :
          /\ ran[i].prompt \in 1..Len(prompts) /\ ran[i].prompt # memory'.pending
          /\ \A r \in CReqs : Answering(r)' => ran[i].prompt # creq'[r].pend
    BY <1>0, <1>1, <1>3 DEF PromptsApart, NoPrompt
  <2> QED BY <2>1, <2>2, <2>3, <2>4, <2>5 DEF PromptsApart
<1>5. Confirmed'
  <2> SUFFICES ASSUME NEW r \in CReqs, creq'[r].pc = "run" /\ creq'[r].line # Plain PROVE answers(creq[r])'
    BY DEF Confirmed
  <2>1. creq'[r] = creq[r]
    OBVIOUS
  <2>2. answers(creq[r])
    BY <2>1, <1>0 DEF Confirmed
  <2> QED BY <2>1, <2>2 DEF answers
<1>6. ConfirmedOnce'
  BY <1>0 DEF ConfirmedOnce
<1> QED BY <1>2, <1>4, <1>5, <1>6 DEF CommandIInv

\* What a step knows of where it starts.
LEMMA CommandKnown ==
    ASSUME CommandIInv
    PROVE  /\ time \in 1..MaxMinute /\ mfaAt \in 0..MaxMinute /\ time \in 0..MaxMinute
           /\ memory \in Memory /\ creq \in [CReqs -> CReq]
           /\ prompts \in Seq(APrompt) /\ Len(prompts) <= MaxPrompts /\ ran \in Seq(ARun)
           /\ Len(prompts) \in Nat /\ Len(ran) \in Nat
<1>1. CommandTypeOK
  BY DEF CommandIInv
<1>2. /\ time \in 1..MaxMinute /\ mfaAt \in 0..MaxMinute
      /\ memory \in Memory /\ creq \in [CReqs -> CReq]
      /\ prompts \in Seq(APrompt) /\ Len(prompts) <= MaxPrompts /\ ran \in Seq(ARun)
  BY <1>1, CommandTypes
<1>3. time \in 0..MaxMinute
  BY <1>2, CommandLimits
<1> QED BY <1>2, <1>3

\* The steps of unlock.
LEMMA UnlockSound ==
    ASSUME CommandIInv, NEW r \in CReqs,
           UnlockStart(r) \/ UnlockVerify(r) \/ UnlockMark(r) \/ UnlockDone(r)
    PROVE  CommandIInv'
<1>0. /\ time \in 1..MaxMinute /\ mfaAt \in 0..MaxMinute /\ time \in 0..MaxMinute
      /\ memory \in Memory /\ creq \in [CReqs -> CReq]
  BY CommandKnown
<1>1. creq[r] \in CReq /\ creq[r].now \in 0..MaxMinute
  BY <1>0 DEF CReq
<1>2. CASE UnlockStart(r)
  <2> DEFINE w == [CIdle EXCEPT !.pc = "verify", !.now = time]
  <2>1. creq' = [creq EXCEPT ![r] = w] /\ UNCHANGED <<time, mfaAt, memory, prompts, ran>>
    BY <1>2 DEF UnlockStart
  <2>2. w \in CReq /\ w.pc = "verify"
    BY <1>0, CIdleTyped DEF CReq
  <2> HIDE DEF w
  <2>3. creq' \in [CReqs -> CReq] /\ \A x \in CReqs : creq'[x] = creq[x] \/ creq'[x].pc \notin {"plan", "run"}
    BY <2>1, <2>2, <1>0
  <2> QED BY <2>1, <2>3, <1>0, LetGo
<1>3. CASE UnlockVerify(r)
  <2>1. creq[r].pc = "verify" /\ UNCHANGED <<time, mfaAt, prompts, ran>>
    BY <1>3 DEF UnlockVerify
  <2>2. memory' \in Memory /\ memory'.pending = memory.pending
    <3>1. CASE memory' = memory
      BY <3>1, <1>0
    <3>2. CASE memory' = IF memory.fails + 1 >= maxFails
                       THEN [memory EXCEPT !.lockedUntil = creq[r].now + lockFor, !.fails = 0]
                       ELSE [memory EXCEPT !.fails = @ + 1]
      <4> DEFINE l == creq[r].now + lockFor
                 f == memory.fails + 1
      <4>1. l \in Nat /\ 0 \in 0..maxFails /\ memory.fails \in 0..maxFails /\ (f < maxFails => f \in 0..maxFails)
        BY <1>0, <1>1, CommandLimits DEF Memory
      <4>2. CASE memory.fails + 1 >= maxFails
        <5>1. memory' = [memory EXCEPT !.lockedUntil = l, !.fails = 0]
          BY <3>2, <4>2
        <5> HIDE DEF l
        <5> QED BY <5>1, <4>1, <1>0 DEF Memory
      <4>3. CASE ~(memory.fails + 1 >= maxFails)
        <5>1. memory' = [memory EXCEPT !.fails = f]
          BY <3>2, <4>3
        <5>2. f \in 0..maxFails
          BY <4>1, <4>3, CommandLimits
        <5> HIDE DEF f
        <5> QED BY <5>1, <5>2, <1>0 DEF Memory
      <4> QED BY <4>2, <4>3
    <3> QED BY <1>3, <3>1, <3>2 DEF UnlockVerify
  <2>3. creq' \in [CReqs -> CReq] /\ \A x \in CReqs : creq'[x] = creq[x] \/ creq'[x].pc \notin {"plan", "run"}
    <3>1. CASE Answered(r)
      BY <3>1, <1>0, CIdleTyped DEF Answered
    <3>2. CASE GoesOn(r, "proved")
      BY <3>2, <1>0 DEF GoesOn, CReq
    <3> QED BY <3>1, <3>2, <1>3 DEF UnlockVerify
  <2> QED BY <2>1, <2>2, <2>3, <1>0, LetGo
<1>4. CASE UnlockMark(r)
  <2>1. creq[r].pc = "proved" /\ UNCHANGED <<time, memory, prompts, ran>> /\ mfaAt' \in {mfaAt, time}
    BY <1>4 DEF UnlockMark
  <2>2. creq' \in [CReqs -> CReq] /\ \A x \in CReqs : creq'[x] = creq[x] \/ creq'[x].pc \notin {"plan", "run"}
    <3>1. CASE Answered(r)
      BY <3>1, <1>0, CIdleTyped DEF Answered
    <3>2. CASE GoesOn(r, "marked")
      BY <3>2, <1>0 DEF GoesOn, CReq
    <3> QED BY <3>1, <3>2, <1>4 DEF UnlockMark
  <2>3. mfaAt' \in 0..MaxMinute
    BY <2>1, <1>0
  <2> QED BY <2>1, <2>2, <2>3, <1>0, LetGo
<1>5. CASE UnlockDone(r)
  <2> DEFINE n == creq[r].now
  <2>1. creq' = [creq EXCEPT ![r] = CIdle] /\ UNCHANGED <<time, mfaAt, prompts, ran>>
        /\ memory' = [memory EXCEPT !.fails = 0, !.lastUse = n]
    BY <1>5 DEF UnlockDone, Answered
  <2>2. n \in 0..MaxMinute /\ 0 \in 0..maxFails
    BY <1>1, CommandLimits
  <2> HIDE DEF n
  <2>3. memory' \in Memory /\ memory'.pending = memory.pending
    BY <2>1, <2>2, <1>0 DEF Memory
  <2>4. creq' \in [CReqs -> CReq] /\ \A x \in CReqs : creq'[x] = creq[x] \/ creq'[x].pc \notin {"plan", "run"}
    BY <2>1, <1>0, CIdleTyped
  <2> QED BY <2>1, <2>3, <2>4, <1>0, LetGo
<1> QED BY <1>2, <1>3, <1>4, <1>5

\* A line arrives.
LEMMA ExecStartSound ==
    ASSUME CommandIInv, NEW r \in CReqs, NEW l \in CLines \cup {Plain}, NEW c \in {"none", "right", "wrong"},
           ExecStart(r, l, c)
    PROVE  CommandIInv'
<1>0. /\ time \in 1..MaxMinute /\ mfaAt \in 0..MaxMinute /\ time \in 0..MaxMinute
      /\ memory \in Memory /\ creq \in [CReqs -> CReq]
  BY CommandKnown
<1> DEFINE k == IF limited THEN recentNow ELSE recentNow + 1
           w == [CIdle EXCEPT !.pc = IF l = Plain THEN "run" ELSE "take", !.now = time, !.line = l, !.confirm = c]
<1>1. memory' = [memory EXCEPT !.recent = k, !.counted = time] /\ UNCHANGED <<time, mfaAt, prompts, ran>>
  BY DEF ExecStart
<1>2. recentNow \in 0..perMinute
  <2>1. memory.recent \in 0..perMinute /\ 0 \in 0..perMinute
    BY <1>0, CommandLimits DEF Memory
  <2> QED BY <2>1 DEF recentNow
<1>3. k \in 0..perMinute
  BY <1>2, CommandLimits DEF limited
<1>4. creq' = creq \/ creq' = [creq EXCEPT ![r] = w]
  BY DEF ExecStart
<1> HIDE DEF k
<1>5. memory' \in Memory /\ memory'.pending = memory.pending
  BY <1>1, <1>3, <1>0 DEF Memory
<1>6. w \in CReq /\ (w.pc \notin {"plan", "run"} \/ w.line = Plain)
  <2>1. CASE l = Plain
    <3>1. w = [CIdle EXCEPT !.pc = "run", !.now = time, !.line = l, !.confirm = c]
      BY <2>1
    <3> HIDE DEF w
    <3> QED BY <3>1, <2>1, <1>0, CIdleTyped DEF CReq
  <2>2. CASE l # Plain
    <3>1. w = [CIdle EXCEPT !.pc = "take", !.now = time, !.line = l, !.confirm = c]
      BY <2>2
    <3> HIDE DEF w
    <3> QED BY <3>1, <2>2, <1>0, CIdleTyped DEF CReq
  <2> QED BY <2>1, <2>2
<1> HIDE DEF w
<1>7. creq' \in [CReqs -> CReq] /\ \A x \in CReqs : creq'[x] = creq[x] \/ creq'[x].pc \notin {"plan", "run"} \/ creq'[x].line = Plain
  BY <1>4, <1>6, <1>0
<1> QED BY <1>1, <1>5, <1>7, <1>0, LetGo

\* The prompt that waited is taken, and waits no more.
LEMMA ExecTakeSound == ASSUME CommandIInv, NEW r \in CReqs, ExecTake(r) PROVE CommandIInv'
<1>0. /\ time \in 1..MaxMinute /\ mfaAt \in 0..MaxMinute
      /\ memory \in Memory /\ creq \in [CReqs -> CReq]
      /\ prompts \in Seq(APrompt) /\ Len(prompts) <= MaxPrompts /\ ran \in Seq(ARun) /\ Len(prompts) \in Nat /\ Len(ran) \in Nat
  BY CommandKnown
<1>1. CommandTypeOK /\ PromptsApart /\ Confirmed /\ ConfirmedOnce
  BY DEF CommandIInv
<1> DEFINE p == memory.pending
           w == [creq[r] EXCEPT !.pc = "plan", !.pend = p]
<1>2. /\ creq[r].pc = "take" /\ creq' = [creq EXCEPT ![r] = w]
      /\ memory' = [memory EXCEPT !.pending = NoPrompt] /\ UNCHANGED <<time, mfaAt, prompts, ran>>
  BY <1>0 DEF ExecTake
<1>3. p \in 0..MaxPrompts /\ creq[r] \in CReq /\ NoPrompt \in 0..MaxPrompts
  BY <1>0, CommandLimits DEF Memory, NoPrompt
<1>p. PICK pp : pp = p
  OBVIOUS
<1> HIDE DEF p
<1>4. w \in CReq /\ w.pc = "plan" /\ w.pend = p /\ w.line = creq[r].line
  BY <1>3 DEF CReq
<1>w. PICK ww : ww = w
  OBVIOUS
<1> HIDE DEF w
<1>5. memory' \in Memory /\ memory'.pending = NoPrompt
  BY <1>2, <1>3, <1>0 DEF Memory
<1>6. creq' \in [CReqs -> CReq] /\ creq'[r] = w /\ \A x \in CReqs \ {r} : creq'[x] = creq[x]
  BY <1>2, <1>4, <1>0
<1>7. CommandTypeOK'
  BY <1>0, <1>2, <1>5, <1>6 DEF CommandTypeOK, Memory, CReq, APrompt, ARun
<1>8. \A x \in CReqs : x # r => (Answering(x)' <=> Answering(x))
  BY <1>6 DEF Answering
<1>9. /\ p <= Len(prompts)
      /\ \A x \in CReqs : Answering(x) => creq[x].pend <= Len(prompts)
      /\ \A x, o \in CReqs : x # o /\ Answering(x) /\ Answering(o) /\ creq[x].pend # NoPrompt => creq[x].pend # creq[o].pend
      /\ \A x \in CReqs : Answering(x) /\ creq[x].pend # NoPrompt => creq[x].pend # p
      /\ \A i \in 1..Len(ran) :
            /\ ran[i].prompt \in 1..Len(prompts) /\ ran[i].prompt # p
            /\ \A x \in CReqs : Answering(x) => ran[i].prompt # creq[x].pend
  BY <1>1 DEF PromptsApart, p
<1>10. PromptsApart'
  <2>1. memory'.pending <= Len(prompts)
    BY <1>5, <1>0 DEF NoPrompt
  <2>2. \A x \in CReqs : Answering(x)' => creq'[x].pend <= Len(prompts)
    BY <1>4, <1>6, <1>8, <1>9
  <2>3. \A x, o \in CReqs : x # o /\ Answering(x)' /\ Answering(o)' /\ creq'[x].pend # NoPrompt => creq'[x].pend # creq'[o].pend
    <3> SUFFICES ASSUME NEW x \in CReqs, NEW o \in CReqs, x # o, Answering(x)', Answering(o)', creq'[x].pend # NoPrompt,
                        creq'[x].pend = creq'[o].pend
                 PROVE FALSE
      OBVIOUS
    <3>1. CASE x # r /\ o # r
      <4>1. Answering(x) /\ Answering(o) /\ creq'[x] = creq[x] /\ creq'[o] = creq[o]
        BY <3>1, <1>6, <1>8
      <4> QED BY <4>1, <1>9
    <3>2. CASE x = r
      <4>1. creq'[x].pend = p /\ Answering(o) /\ creq'[o] = creq[o]
        BY <3>2, <1>4, <1>6, <1>8
      <4>2. creq[o].pend = p /\ creq[o].pend # NoPrompt
        BY <4>1
      <4> QED BY <4>1, <4>2, <1>9
    <3>3. CASE o = r
      <4>1. creq'[o].pend = p /\ Answering(x) /\ creq'[x] = creq[x]
        BY <3>3, <1>4, <1>6, <1>8
      <4>2. creq[x].pend = p /\ creq[x].pend # NoPrompt
        BY <4>1
      <4> QED BY <4>1, <4>2, <1>9
    <3> QED BY <3>1, <3>2, <3>3
  <2>4. \A x \in CReqs : Answering(x)' /\ creq'[x].pend # NoPrompt => creq'[x].pend # memory'.pending
    BY <1>5
  <2>5. \A i \in 1..Len(ran) :
          /\ ran[i].prompt \in 1..Len(prompts) /\ ran[i].prompt # memory'.pending
          /\ \A x \in CReqs : Answering(x)' => ran[i].prompt # creq'[x].pend
    <3> SUFFICES ASSUME NEW i \in 1..Len(ran)
                 PROVE  /\ ran[i].prompt \in 1..Len(prompts) /\ ran[i].prompt # memory'.pending
                        /\ \A x \in CReqs : Answering(x)' => ran[i].prompt # creq'[x].pend
      OBVIOUS
    <3>1. ran[i].prompt \in 1..Len(prompts) /\ ran[i].prompt # NoPrompt
      BY <1>9, <1>0 DEF NoPrompt
    <3>2. \A x \in CReqs : Answering(x)' => ran[i].prompt # creq'[x].pend
      BY <1>4, <1>6, <1>8, <1>9
    <3> QED BY <3>1, <3>2, <1>5
  <2> QED BY <1>2, <2>1, <2>2, <2>3, <2>4, <2>5 DEF PromptsApart
<1>11. Confirmed'
  <2> SUFFICES ASSUME NEW x \in CReqs, creq'[x].pc = "run" /\ creq'[x].line # Plain PROVE answers(creq[x])'
    BY DEF Confirmed
  <2>1. creq'[x] = creq[x]
    BY <1>4, <1>6
  <2>2. answers(creq[x])
    BY <2>1, <1>1 DEF Confirmed
  <2> QED BY <2>1, <2>2, <1>2 DEF answers
<1>12. ConfirmedOnce'
  BY <1>1, <1>2 DEF ConfirmedOnce
<1> QED BY <1>7, <1>10, <1>11, <1>12 DEF CommandIInv

\* A plan is made: a prompt no one has had waits, or an answer to one is confirmed.
LEMMA ExecPlanSound == ASSUME CommandIInv, NEW r \in CReqs, ExecPlan(r) PROVE CommandIInv'
<1>0. /\ time \in 1..MaxMinute /\ mfaAt \in 0..MaxMinute
      /\ memory \in Memory /\ creq \in [CReqs -> CReq]
      /\ prompts \in Seq(APrompt) /\ Len(prompts) <= MaxPrompts /\ ran \in Seq(ARun) /\ Len(prompts) \in Nat /\ Len(ran) \in Nat
  BY CommandKnown
<1>1. CommandTypeOK /\ PromptsApart /\ Confirmed /\ ConfirmedOnce
  BY DEF CommandIInv
<1>2. creq[r].pc = "plan" /\ UNCHANGED <<time, mfaAt, ran>> /\ creq[r] \in CReq
  BY <1>0 DEF ExecPlan
<1>3. ASSUME NEW pc \in {"done", "run"}, GoesOn(r, pc)
      PROVE  creq' \in [CReqs -> CReq] /\ creq'[r].pc = pc /\ creq'[r].line = creq[r].line /\ creq'[r].pend = creq[r].pend
             /\ creq'[r].now = creq[r].now /\ \A x \in CReqs \ {r} : creq'[x] = creq[x]
  BY <1>3, <1>0 DEF GoesOn, CReq
<1>4. CASE GoesOn(r, "done") /\ UNCHANGED <<memory, prompts>>
  <2>1. creq' \in [CReqs -> CReq] /\ creq'[r].pc = "done" /\ \A x \in CReqs \ {r} : creq'[x] = creq[x]
    BY <1>3, <1>4
  <2>2. \A x \in CReqs : creq'[x] = creq[x] \/ creq'[x].pc \notin {"plan", "run"} \/ creq'[x].line = Plain
    BY <2>1
  <2> QED BY <1>0, <1>2, <1>4, <2>1, <2>2, LetGo
<1>5. CASE GoesOn(r, "run") /\ answers(creq[r]) /\ UNCHANGED <<memory, prompts>>
  <2>1. creq' \in [CReqs -> CReq] /\ creq'[r].pc = "run" /\ creq'[r].line = creq[r].line /\ creq'[r].pend = creq[r].pend
        /\ creq'[r].now = creq[r].now /\ \A x \in CReqs \ {r} : creq'[x] = creq[x]
    BY <1>3, <1>5
  <2>2. CommandTypeOK'
    BY <1>0, <1>2, <1>5, <2>1 DEF CommandTypeOK, Memory, CReq, APrompt, ARun
  <2>3. \A x \in CReqs : (Answering(x)' <=> Answering(x)) /\ creq'[x].pend = creq[x].pend
    BY <2>1, <1>2 DEF Answering
  <2>4. PromptsApart'
    BY <1>1, <1>2, <1>5, <2>3 DEF PromptsApart
  <2>5. Confirmed'
    <3> SUFFICES ASSUME NEW x \in CReqs, creq'[x].pc = "run" /\ creq'[x].line # Plain PROVE answers(creq[x])'
      BY DEF Confirmed
    <3>1. creq'[x].pend = creq[x].pend /\ creq'[x].line = creq[x].line /\ creq'[x].now = creq[x].now
      BY <2>1
    <3>2. answers(creq[x])
      BY <2>1, <1>1, <1>5 DEF Confirmed
    <3> QED BY <3>1, <3>2, <1>5 DEF answers
  <2>6. ConfirmedOnce'
    BY <1>1, <1>2, <1>5 DEF ConfirmedOnce
  <2> QED BY <2>2, <2>4, <2>5, <2>6 DEF CommandIInv
<1>6. CASE /\ Len(prompts) < MaxPrompts
           /\ prompts' = Append(prompts, [line |-> creq[r].line, expires |-> creq[r].now + confirmFor])
           /\ memory' = [memory EXCEPT !.pending = Len(prompts) + 1]
           /\ GoesOn(r, "done")
  <2> DEFINE n == Len(prompts) + 1
             e == creq[r].now + confirmFor
             p == [line |-> creq[r].line, expires |-> e]
  <2>1. e \in Nat /\ creq[r].line \in CLines \cup {Plain}
    BY <1>2, CommandLimits DEF CReq
  <2>2. prompts' = Append(prompts, p) /\ memory' = [memory EXCEPT !.pending = n]
    BY <1>6
  <2> HIDE DEF e
  <2>3. p \in APrompt
    BY <2>1 DEF APrompt
  <2> HIDE DEF p
  <2>4. prompts' \in Seq(APrompt) /\ Len(prompts') = Len(prompts) + 1 /\ \A i \in 1..Len(prompts) : prompts'[i] = prompts[i]
    BY <2>2, <2>3, <1>0
  <2>5. n \in 0..MaxPrompts /\ Len(prompts') <= MaxPrompts /\ n = Len(prompts')
    BY <2>4, <1>0, <1>6, CommandLimits
  <2>n. n = Len(prompts) + 1
    OBVIOUS
  <2> HIDE DEF n
  <2>6. memory' \in Memory /\ memory'.pending = n
    BY <2>2, <2>5, <1>0 DEF Memory
  <2>7. creq' \in [CReqs -> CReq] /\ creq'[r].pc = "done" /\ \A x \in CReqs \ {r} : creq'[x] = creq[x]
    BY <1>3, <1>6
  <2>8. CommandTypeOK'
    BY <1>0, <1>2, <2>4, <2>5, <2>6, <2>7 DEF CommandTypeOK, Memory, CReq, APrompt, ARun
  <2>9. \A x \in CReqs : Answering(x)' => Answering(x) /\ creq'[x] = creq[x] /\ x # r
    BY <2>7 DEF Answering
  <2>10. PromptsApart'
    <3>1. memory'.pending <= Len(prompts')
      BY <2>5, <2>6, <2>4, <1>0
    <3>2. \A x \in CReqs : Answering(x)' => creq'[x].pend <= Len(prompts) /\ creq'[x].pend \in Nat
      BY <1>1, <1>0, <2>9 DEF PromptsApart, CReq
    <3>3. \A x \in CReqs : Answering(x)' => creq'[x].pend <= Len(prompts') /\ creq'[x].pend # memory'.pending
      BY <3>2, <2>4, <2>6, <2>n, <1>0
    <3>4. \A x, o \in CReqs : x # o /\ Answering(x)' /\ Answering(o)' /\ creq'[x].pend # NoPrompt => creq'[x].pend # creq'[o].pend
      BY <1>1, <2>9 DEF PromptsApart
    <3>5. \A i \in 1..Len(ran) : ran[i].prompt \in 1..Len(prompts') /\ ran[i].prompt # memory'.pending
      BY <1>1, <1>0, <2>4, <2>6, <2>n DEF PromptsApart
    <3>6. \A i \in 1..Len(ran) : \A x \in CReqs : Answering(x)' => ran[i].prompt # creq'[x].pend
      BY <1>1, <2>9 DEF PromptsApart
    <3> QED BY <1>2, <3>1, <3>3, <3>4, <3>5, <3>6 DEF PromptsApart
  <2>11. Confirmed'
    <3> SUFFICES ASSUME NEW x \in CReqs, creq'[x].pc = "run" /\ creq'[x].line # Plain PROVE answers(creq[x])'
      BY DEF Confirmed
    <3>1. creq'[x] = creq[x] /\ Answering(x)
      BY <2>7, <2>9 DEF Answering
    <3>2. answers(creq[x])
      BY <3>1, <1>1 DEF Confirmed
    <3>3. creq[x].pend \in 1..Len(prompts)
      BY <3>1, <3>2, <1>1, <1>0 DEF PromptsApart, CReq, answers, NoPrompt
    <3>4. prompts'[creq[x].pend] = prompts[creq[x].pend]
      BY <3>3, <2>4
    <3> QED BY <3>1, <3>2, <3>4 DEF answers
  <2>12. ConfirmedOnce'
    <3>1. \A i \in 1..Len(ran) : prompts'[ran[i].prompt] = prompts[ran[i].prompt]
      BY <1>1, <2>4 DEF PromptsApart
    <3> QED BY <3>1, <1>1, <1>2 DEF ConfirmedOnce
  <2> QED BY <2>8, <2>10, <2>11, <2>12 DEF CommandIInv
<1>7. \/ GoesOn(r, "done") /\ UNCHANGED <<memory, prompts>>
      \/ GoesOn(r, "run") /\ answers(creq[r]) /\ UNCHANGED <<memory, prompts>>
      \/ /\ Len(prompts) < MaxPrompts
         /\ prompts' = Append(prompts, [line |-> creq[r].line, expires |-> creq[r].now + confirmFor])
         /\ memory' = [memory EXCEPT !.pending = Len(prompts) + 1]
         /\ GoesOn(r, "done")
  <2>1. CASE answers(creq[r]) /\ creq[r].confirm = "right"
    BY <2>1 DEF ExecPlan
  <2>2. CASE ~(answers(creq[r]) /\ creq[r].confirm = "right")
    BY <2>2 DEF ExecPlan
  <2> QED BY <2>1, <2>2
<1> QED BY <1>4, <1>5, <1>6, <1>7

\* A command runs: its prompt ran for no one before.
LEMMA ExecRunSound == ASSUME CommandIInv, NEW r \in CReqs, ExecRun(r) PROVE CommandIInv'
<1>0. /\ time \in 1..MaxMinute /\ mfaAt \in 0..MaxMinute
      /\ memory \in Memory /\ creq \in [CReqs -> CReq]
      /\ prompts \in Seq(APrompt) /\ Len(prompts) <= MaxPrompts /\ ran \in Seq(ARun) /\ Len(prompts) \in Nat /\ Len(ran) \in Nat
  BY CommandKnown
<1>1. CommandTypeOK /\ PromptsApart /\ Confirmed /\ ConfirmedOnce
  BY DEF CommandIInv
<1>2. creq[r].pc = "run" /\ UNCHANGED <<time, mfaAt, memory, prompts>> /\ creq[r] \in CReq
  BY <1>0 DEF ExecRun
<1>3. creq' \in [CReqs -> CReq] /\ creq'[r].pc = "done" /\ \A x \in CReqs \ {r} : creq'[x] = creq[x]
  BY <1>0 DEF ExecRun, GoesOn, CReq
<1>4. CASE creq[r].line = Plain
  <2>1. ran' = ran
    BY <1>4 DEF ExecRun
  <2>2. \A x \in CReqs : creq'[x] = creq[x] \/ creq'[x].pc \notin {"plan", "run"} \/ creq'[x].line = Plain
    BY <1>3
  <2> QED BY <1>0, <1>2, <1>3, <2>1, <2>2, LetGo
<1>5. CASE creq[r].line # Plain
  <2> DEFINE e == [prompt |-> creq[r].pend, line |-> creq[r].line, at |-> creq[r].now]
  <2>1. ran' = Append(ran, e)
    BY <1>5 DEF ExecRun
  <2>2. e \in ARun /\ e.prompt = creq[r].pend /\ e.line = creq[r].line /\ e.at = creq[r].now
    BY <1>2 DEF ARun, CReq
  <2> HIDE DEF e
  <2>3. ran' \in Seq(ARun) /\ Len(ran') = Len(ran) + 1 /\ ran'[Len(ran) + 1] = e /\ \A i \in 1..Len(ran) : ran'[i] = ran[i]
    BY <2>1, <2>2, <1>0
  <2>4. \A i \in 1..Len(ran') : i \in 1..Len(ran) \/ i = Len(ran) + 1
    BY <2>3, <1>0
  <2>5. Answering(r) /\ answers(creq[r])
    BY <1>1, <1>2, <1>5 DEF Confirmed, Answering
  <2>6. e.prompt \in 1..Len(prompts) /\ e.prompt # memory.pending
    BY <2>2, <2>5, <1>0, <1>1, <1>2 DEF PromptsApart, answers, NoPrompt, CReq
  <2>7. CommandTypeOK'
    BY <1>0, <1>2, <1>3, <2>3 DEF CommandTypeOK, Memory, CReq, APrompt, ARun
  <2>8. \A x \in CReqs : Answering(x)' => Answering(x) /\ creq'[x] = creq[x] /\ x # r
    BY <1>3 DEF Answering
  <2>9. PromptsApart'
    <3>1. memory'.pending <= Len(prompts)
      BY <1>1, <1>2 DEF PromptsApart
    <3>2. \A x \in CReqs : Answering(x)' => creq'[x].pend <= Len(prompts)
      BY <1>1, <2>8 DEF PromptsApart
    <3>3. \A x, o \in CReqs : x # o /\ Answering(x)' /\ Answering(o)' /\ creq'[x].pend # NoPrompt => creq'[x].pend # creq'[o].pend
      BY <1>1, <2>8 DEF PromptsApart
    <3>4. \A x \in CReqs : Answering(x)' /\ creq'[x].pend # NoPrompt => creq'[x].pend # memory'.pending
      BY <1>1, <1>2, <2>8 DEF PromptsApart
    <3>5. \A i \in 1..Len(ran') :
            /\ ran'[i].prompt \in 1..Len(prompts) /\ ran'[i].prompt # memory'.pending
            /\ \A x \in CReqs : Answering(x)' => ran'[i].prompt # creq'[x].pend
      <4> SUFFICES ASSUME NEW i \in 1..Len(ran')
                   PROVE  /\ ran'[i].prompt \in 1..Len(prompts) /\ ran'[i].prompt # memory.pending
                          /\ \A x \in CReqs : Answering(x)' => ran'[i].prompt # creq'[x].pend
        BY <1>2
      <4>1. CASE i \in 1..Len(ran)
        BY <4>1, <1>1, <2>3, <2>8 DEF PromptsApart
      <4>2. CASE i = Len(ran) + 1
        <5>1. ran'[i] = e
          BY <4>2, <2>3
        <5>2. creq[r].pend # NoPrompt
          BY <2>5 DEF answers
        <5>3. \A x \in CReqs : Answering(x)' => creq[r].pend # creq'[x].pend
          BY <5>2, <2>5, <2>8, <1>1 DEF PromptsApart
        <5> QED BY <5>1, <5>3, <2>2, <2>6
      <4> QED BY <4>1, <4>2, <2>4
    <3> QED BY <1>2, <3>1, <3>2, <3>3, <3>4, <3>5 DEF PromptsApart
  <2>10. Confirmed'
    <3> SUFFICES ASSUME NEW x \in CReqs, creq'[x].pc = "run" /\ creq'[x].line # Plain PROVE answers(creq[x])'
      BY DEF Confirmed
    <3>1. creq'[x] = creq[x]
      BY <1>3
    <3>2. answers(creq[x])
      BY <3>1, <1>1 DEF Confirmed
    <3> QED BY <3>1, <3>2, <1>2 DEF answers
  <2>11. ConfirmedOnce'
    <3>1. \A i \in 1..Len(ran') : /\ ran'[i].prompt # NoPrompt /\ prompts[ran'[i].prompt].line = ran'[i].line
                                  /\ ran'[i].at <= prompts[ran'[i].prompt].expires
      <4> SUFFICES ASSUME NEW i \in 1..Len(ran')
                   PROVE  /\ ran'[i].prompt # NoPrompt /\ prompts[ran'[i].prompt].line = ran'[i].line
                          /\ ran'[i].at <= prompts[ran'[i].prompt].expires
        OBVIOUS
      <4>1. CASE i \in 1..Len(ran)
        BY <4>1, <1>1, <2>3 DEF ConfirmedOnce
      <4>2. CASE i = Len(ran) + 1
        BY <4>2, <2>2, <2>3, <2>5 DEF answers
      <4> QED BY <4>1, <4>2, <2>4
    <3>2. \A i \in 1..Len(ran) : ran[i].prompt # e.prompt
      BY <1>1, <2>2, <2>5 DEF PromptsApart
    <3>3. \A i, j \in 1..Len(ran') : i # j => ran'[i].prompt # ran'[j].prompt
      <4> SUFFICES ASSUME NEW i \in 1..Len(ran'), NEW j \in 1..Len(ran'), i # j PROVE ran'[i].prompt # ran'[j].prompt
        OBVIOUS
      <4>1. CASE i \in 1..Len(ran) /\ j \in 1..Len(ran)
        BY <4>1, <1>1, <2>3 DEF ConfirmedOnce
      <4>2. CASE i \in 1..Len(ran) /\ j = Len(ran) + 1
        BY <4>2, <3>2, <2>3
      <4>3. CASE j \in 1..Len(ran) /\ i = Len(ran) + 1
        BY <4>3, <3>2, <2>3
      <4> QED BY <4>1, <4>2, <4>3, <2>4
    <3> QED BY <3>1, <3>3, <1>2 DEF ConfirmedOnce
  <2> QED BY <2>7, <2>9, <2>10, <2>11 DEF CommandIInv
<1> QED BY <1>4, <1>5

\* Every step of the command line keeps the invariant.
LEMMA CommandStep == ASSUME CommandIInv, [CommandNext]_commandVars PROVE CommandIInv'
<1>0. /\ time \in 1..MaxMinute /\ mfaAt \in 0..MaxMinute
      /\ memory \in Memory /\ creq \in [CReqs -> CReq]
  BY CommandKnown
<1>1. CASE Minute
  <2>1. time' \in 1..MaxMinute /\ UNCHANGED <<mfaAt, memory, creq, prompts, ran>>
    BY <1>1, <1>0, CommandLimits DEF Minute
  <2> QED BY <2>1, <1>0, LetGo
<1>2. CASE Restarted
  <2>1. memory' = Forgotten /\ creq' = [r \in CReqs |-> CIdle] /\ UNCHANGED <<time, mfaAt, prompts, ran>>
    BY <1>2 DEF Restarted
  <2>2. memory' \in Memory /\ memory'.pending = NoPrompt
    BY <2>1, ForgottenTyped
  <2>3. creq' \in [CReqs -> CReq] /\ \A r \in CReqs : creq'[r].pc \notin {"plan", "run"}
    BY <2>1, CIdleTyped
  <2> QED BY <2>1, <2>2, <2>3, <1>0, LetGo
<1>3. ASSUME NEW r \in CReqs, UnlockStart(r) \/ UnlockVerify(r) \/ UnlockMark(r) \/ UnlockDone(r) PROVE CommandIInv'
  BY <1>3, UnlockSound
<1>4. ASSUME NEW r \in CReqs, NEW l \in CLines, NEW c \in {"none", "right", "wrong"}, ExecStart(r, l, c) PROVE CommandIInv'
  BY <1>4, ExecStartSound
<1>5. ASSUME NEW r \in CReqs, ExecStart(r, Plain, "none") PROVE CommandIInv'
  BY <1>5, ExecStartSound
<1>6. ASSUME NEW r \in CReqs, ExecTake(r) PROVE CommandIInv'
  BY <1>6, ExecTakeSound
<1>7. ASSUME NEW r \in CReqs, ExecPlan(r) PROVE CommandIInv'
  BY <1>7, ExecPlanSound
<1>8. ASSUME NEW r \in CReqs, ExecRun(r) PROVE CommandIInv'
  BY <1>8, ExecRunSound
<1>9. ASSUME NEW r \in CReqs, ExecDone(r) PROVE CommandIInv'
  <2> DEFINE n == creq[r].now
  <2>1. creq' = [creq EXCEPT ![r] = CIdle] /\ UNCHANGED <<time, mfaAt, prompts, ran>> /\ memory' = [memory EXCEPT !.lastUse = n]
    BY <1>9 DEF ExecDone, Answered
  <2>2. n \in 0..MaxMinute
    BY <1>0 DEF CReq
  <2> HIDE DEF n
  <2>3. memory' \in Memory /\ memory'.pending = memory.pending
    BY <2>1, <2>2, <1>0 DEF Memory
  <2>4. creq' \in [CReqs -> CReq] /\ \A x \in CReqs : creq'[x] = creq[x] \/ creq'[x].pc \notin {"plan", "run"}
    BY <2>1, <1>0, CIdleTyped
  <2> QED BY <2>1, <2>3, <2>4, <1>0, LetGo
<1>10. CASE UNCHANGED commandVars
  <2>1. UNCHANGED <<time, mfaAt, memory, creq, prompts, ran>>
    BY <1>10 DEF commandVars
  <2> QED BY <2>1, <1>0, LetGo
<1> QED BY <1>1, <1>2, <1>3, <1>4, <1>5, <1>6, <1>7, <1>8, <1>9, <1>10 DEF CommandNext

\* The inductive invariant of the command line holds always.
LEMMA CommandInductive == CommandSpec => []CommandIInv
BY CommandStart, CommandStep, PTL DEF CommandSpec

\* Half-finished sign-ins that send their codes at once have no more guesses together
\* than one of them (auth/handlers.go checkCode), the limiter before them forgets
\* nothing that matters and the hash gate loses no slot (auth/ratelimit.go), and a
\* prompt of the command line is good for one run (cli/handler.go), for any number of
\* accounts, sessions, requests, addresses and lines.
THEOREM CodesStaySound == SignSpec /\ ThrottleSpec /\ CommandSpec => []CodesSound
<1>1. SignIInv /\ ThrottleIInv /\ CommandIInv => CodesSound
  BY SignSound DEF ThrottleIInv, CommandIInv, CodesSound
<1> QED BY <1>1, SignInductive, ThrottleInductive, CommandInductive, PTL

-----------------------------------------------------------------------------
(* Listing.  Two counts that agree, and not both a join and a leave between *)
(* them, mean that the realm held still.                                   *)

ListingRec == [pc : {"idle", "count", "page", "again", "done", "failed"}, try : 0..2, before : Nat, first : Nat,
               out : Seq(People)]

\* A try is counted before it begins.
ListTyping ==
    /\ realm \in Seq(People) /\ IsInjective(realm) /\ listing \in ListingRec
    /\ stayed \subseteq Range(realm) /\ moved \in Seq({"join", "leave"})
    /\ listing.pc = "count" => listing.try < 2

Joined == "join" \in Range(moved)
Left == "leave" \in Range(moved)

\* The realm has grown or shrunk by what happened, as far as only one of the two did.
CountsFollow ==
    listing.pc \in {"page", "again"} =>
        /\ ~Left => Len(realm) = listing.before + Len(moved)
        /\ ~Joined => Len(realm) + Len(moved) = listing.before

\* While nothing happens, what was read is the beginning of the realm, and at its end all of it.
ReadInOrder ==
    listing.pc \in {"page", "again"} /\ moved = <<>> =>
        /\ stayed = Range(realm) /\ Len(listing.out) <= Len(realm)
        /\ \A k \in 1..Len(listing.out) : listing.out[k] = realm[k]
        /\ listing.pc = "page" => Len(listing.out) = listing.first
        /\ listing.pc = "again" => Len(listing.out) = Len(realm)

ListIInv == ListTyping /\ CountsFollow /\ ReadInOrder /\ ListingWhole

\* InsertAt puts one element in and keeps the order of the others.
LEMMA Inserted ==
    ASSUME NEW S, NEW s \in Seq(S), NEW x \in S, NEW i \in 1..(Len(s) + 1), NEW r, r = InsertAt(s, i, x)
    PROVE  /\ r \in Seq(S) /\ Len(r) = Len(s) + 1 /\ Range(r) = Range(s) \cup {x}
           /\ IsInjective(s) /\ x \notin Range(s) => IsInjective(r)
<1> DEFINE a == SubSeq(s, 1, i - 1)
           b == SubSeq(s, i, Len(s))
<1>0. Len(s) \in Nat /\ i \in Nat /\ i >= 1 /\ i <= Len(s) + 1 /\ i - 1 \in Nat
  OBVIOUS
<1>1. a \in Seq(S) /\ Len(a) = i - 1 /\ \A k \in 1..(i - 1) : a[k] = s[k]
  BY <1>0
<1>2. b \in Seq(S) /\ Len(b) = Len(s) + 1 - i /\ \A k \in 1..(Len(s) + 1 - i) : b[k] = s[i + k - 1]
  BY <1>0
<1>3. r = (a \o <<x>>) \o b
  BY DEF InsertAt
<1> HIDE DEF a, b
<1>4. a \o <<x>> \in Seq(S) /\ Len(a \o <<x>>) = i /\ \A k \in 1..i : (a \o <<x>>)[k] = IF k < i THEN s[k] ELSE x
  BY <1>0, <1>1
<1>5. r \in Seq(S) /\ Len(r) = Len(s) + 1
  <2>1. PICK c \in Seq(S) : c = a \o <<x>> /\ Len(c) = i
    BY <1>4
  <2>2. r \in Seq(S) /\ Len(r) = i + (Len(s) + 1 - i)
    BY <1>2, <1>3, <2>1
  <2> QED BY <1>0, <2>2
<1>6. \A k \in 1..(Len(s) + 1) : r[k] = IF k < i THEN s[k] ELSE IF k = i THEN x ELSE s[k - 1]
  <2> SUFFICES ASSUME NEW k \in 1..(Len(s) + 1) PROVE r[k] = IF k < i THEN s[k] ELSE IF k = i THEN x ELSE s[k - 1]
    OBVIOUS
  <2>1. CASE k <= i
    BY <1>0, <1>2, <1>3, <1>4, <2>1
  <2>2. CASE k > i
    <3>1. r[k] = b[k - i] /\ k - i \in 1..(Len(s) + 1 - i)
      BY <1>0, <1>2, <1>3, <1>4, <2>2
    <3> QED BY <1>0, <1>2, <2>2, <3>1
  <2> QED BY <1>0, <2>1, <2>2
<1>7. DOMAIN r = 1..(Len(s) + 1) /\ DOMAIN s = 1..Len(s)
  BY <1>5
<1>8. Range(r) \subseteq Range(s) \cup {x}
  BY <1>0, <1>6, <1>7 DEF Range
<1>9. Range(s) \cup {x} \subseteq Range(r)
  <2>1. ASSUME NEW k \in 1..Len(s) PROVE s[k] \in Range(r)
    <3>1. CASE k < i
      BY <1>0, <1>6, <1>7, <3>1 DEF Range
    <3>2. CASE k >= i
      <4>1. k + 1 \in 1..(Len(s) + 1) /\ r[k + 1] = s[k]
        BY <1>0, <1>6, <3>2
      <4> QED BY <1>7, <4>1 DEF Range
    <3> QED BY <1>0, <3>1, <3>2
  <2>2. x \in Range(r)
    BY <1>0, <1>6, <1>7 DEF Range
  <2> QED BY <1>7, <2>1, <2>2 DEF Range
<1>10. IsInjective(s) /\ x \notin Range(s) => IsInjective(r)
  <2> SUFFICES ASSUME IsInjective(s), x \notin Range(s), NEW k \in 1..(Len(s) + 1), NEW m \in 1..(Len(s) + 1), r[k] = r[m]
               PROVE  k = m
    BY <1>7 DEF IsInjective
  <2>1. \A n \in 1..Len(s) : s[n] # x
    BY <1>7 DEF Range
  <2>2. \A n, o \in 1..Len(s) : s[n] = s[o] => n = o
    BY <1>7 DEF IsInjective
  <2>3. (k < i => k \in 1..Len(s)) /\ (m < i => m \in 1..Len(s)) /\ (k > i => k - 1 \in 1..Len(s)) /\ (m > i => m - 1 \in 1..Len(s))
    BY <1>0
  <2> QED BY <1>0, <1>6, <2>1, <2>2, <2>3
<1> QED BY <1>5, <1>8, <1>9, <1>10

\* RemoveAt takes one element out and keeps the order of the others.
LEMMA Removed ==
    ASSUME NEW S, NEW s \in Seq(S), NEW i \in 1..Len(s), NEW r, r = RemoveAt(s, i)
    PROVE  /\ r \in Seq(S) /\ Len(r) + 1 = Len(s) /\ Range(s) \ {s[i]} \subseteq Range(r)
           /\ IsInjective(s) => IsInjective(r)
<1> DEFINE a == SubSeq(s, 1, i - 1)
           b == SubSeq(s, i + 1, Len(s))
<1>0. Len(s) \in Nat /\ i \in Nat /\ i >= 1 /\ i <= Len(s) /\ i - 1 \in Nat /\ Len(s) - i \in Nat
  OBVIOUS
<1>1. a \in Seq(S) /\ Len(a) = i - 1 /\ \A k \in 1..(i - 1) : a[k] = s[k]
  BY <1>0
<1>2. b \in Seq(S) /\ Len(b) = Len(s) - i /\ \A k \in 1..(Len(s) - i) : b[k] = s[i + k]
  BY <1>0
<1>3. r = a \o b
  BY DEF RemoveAt
<1> HIDE DEF a, b
<1>5. r \in Seq(S) /\ Len(r) = Len(s) - 1
  BY <1>0, <1>1, <1>2, <1>3
<1>6. \A k \in 1..(Len(s) - 1) : r[k] = IF k < i THEN s[k] ELSE s[k + 1]
  <2> SUFFICES ASSUME NEW k \in 1..(Len(s) - 1) PROVE r[k] = IF k < i THEN s[k] ELSE s[k + 1]
    OBVIOUS
  <2>1. CASE k < i
    BY <1>0, <1>1, <1>2, <1>3, <2>1
  <2>2. CASE k >= i
    <3>1. r[k] = b[k - (i - 1)] /\ k - (i - 1) \in 1..(Len(s) - i)
      BY <1>0, <1>1, <1>2, <1>3, <2>2
    <3> QED BY <1>0, <1>2, <2>2, <3>1
  <2> QED BY <1>0, <2>1, <2>2
<1>7. DOMAIN r = 1..(Len(s) - 1) /\ DOMAIN s = 1..Len(s)
  BY <1>5
<1>8. Range(s) \ {s[i]} \subseteq Range(r)
  <2>1. ASSUME NEW k \in 1..Len(s), k # i PROVE s[k] \in Range(r)
    <3>1. CASE k < i
      BY <1>0, <1>6, <1>7, <3>1 DEF Range
    <3>2. CASE k > i
      <4>1. k - 1 \in 1..(Len(s) - 1) /\ r[k - 1] = s[k]
        BY <1>0, <1>6, <3>2
      <4> QED BY <1>7, <4>1 DEF Range
    <3> QED BY <1>0, <2>1, <3>1, <3>2
  <2> QED BY <1>7, <2>1 DEF Range
<1>9. IsInjective(s) => IsInjective(r)
  <2> SUFFICES ASSUME IsInjective(s), NEW k \in 1..(Len(s) - 1), NEW m \in 1..(Len(s) - 1), r[k] = r[m]
               PROVE  k = m
    BY <1>7 DEF IsInjective
  <2>1. \A n, o \in 1..Len(s) : s[n] = s[o] => n = o
    BY <1>7 DEF IsInjective
  <2>2. k \in 1..Len(s) /\ m \in 1..Len(s) /\ k + 1 \in 1..Len(s) /\ m + 1 \in 1..Len(s)
    BY <1>0
  <2> QED BY <1>0, <1>6, <2>1, <2>2
<1> QED BY <1>0, <1>5, <1>8, <1>9

\* A page appended to what was read.
LEMMA Appended ==
    ASSUME NEW S, NEW s \in Seq(S), NEW t \in Seq(S), NEW w, w = s \o t
    PROVE  /\ Len(w) = Len(s) + Len(t)
           /\ \A m \in (Len(s) + 1)..(Len(s) + Len(t)) : w[m] = t[m - Len(s)]
  OBVIOUS

\* What the realm does, and what the gateway reads of it.
LEMMA ListStepKeeps == ListIInv /\ [ListNext]_listVars => ListIInv'
<1> SUFFICES ASSUME ListIInv, [ListNext]_listVars PROVE ListIInv'
  OBVIOUS
<1> USE ListingAssumption
<1>0. /\ realm \in Seq(People) /\ IsInjective(realm) /\ listing \in ListingRec
      /\ stayed \subseteq Range(realm) /\ moved \in Seq({"join", "leave"})
      /\ listing.pc = "count" => listing.try < 2
      /\ CountsFollow /\ ReadInOrder /\ ListingWhole
  BY DEF ListIInv, ListTyping
<1>a. LIdle \in ListingRec /\ LIdle.pc = "idle" /\ LIdle.try = 0
  <2>1. <<>> \in Seq(People)
    OBVIOUS
  <2> QED BY <2>1 DEF LIdle, ListingRec
<1>1. CASE ListStart
  <2>1. listing' \in ListingRec /\ listing'.pc = "count" /\ listing'.try = 0 /\ UNCHANGED <<realm, stayed, moved>>
    <3>1. listing' = [LIdle EXCEPT !.pc = "count"] /\ UNCHANGED <<realm, stayed, moved>>
      BY <1>1 DEF ListStart
    <3> QED BY <1>a, <3>1 DEF ListingRec
  <2> QED BY <1>0, <2>1 DEF ListIInv, ListTyping, CountsFollow, ReadInOrder, ListingWhole
<1>2. CASE CountBefore
  <2>0. <<>> \in Seq(People) /\ <<>> \in Seq({"join", "leave"}) /\ Len(<<>>) = 0
    OBVIOUS
  <2>1. PICK e \in Seq(People) : e = <<>> /\ Len(e) = 0
    BY <2>0
  <2>2. PICK n \in Nat : n = Len(realm)
    BY <1>0
  <2>3. PICK z \in Seq({"join", "leave"}) : z = <<>> /\ Len(z) = 0
    BY <2>0
  <2>4. PICK y \in 0..2 : y = listing.try + 1
    BY <1>0, <1>2 DEF ListingRec, CountBefore
  <2>5. listing' = [listing EXCEPT !.pc = "page", !.try = y, !.before = n, !.first = 0, !.out = e]
    BY <1>2, <2>1, <2>2, <2>4 DEF CountBefore
  <2>6. stayed' = Range(realm) /\ moved' = z /\ realm' = realm
    BY <1>2, <2>3 DEF CountBefore
  <2>7. listing' \in ListingRec /\ listing'.pc = "page" /\ listing'.before = n /\ listing'.first = 0 /\ listing'.out = e
    BY <1>0, <2>5 DEF ListingRec
  <2>8. ListTyping' /\ ListingWhole'
    BY <1>0, <2>6, <2>7 DEF ListTyping, ListingWhole
  <2>9. CountsFollow' /\ ReadInOrder'
    BY <1>0, <2>1, <2>2, <2>3, <2>6, <2>7 DEF CountsFollow, ReadInOrder
  <2> QED BY <2>8, <2>9 DEF ListIInv
<1>3. CASE ListPage
  <2>1. PICK n \in Nat, f \in Nat, o \in Seq(People) : n = Len(realm) /\ f = listing.first /\ o = listing.out
    BY <1>0 DEF ListingRec
  <2>2. PICK hi \in Nat : hi = IF f + PageSize < n THEN f + PageSize ELSE n
    BY <2>1
  <2> DEFINE page == SubSeq(realm, f + 1, hi)
  <2>3. page \in Seq(People) /\ Len(page) = (IF f + 1 <= hi THEN hi - f ELSE 0) /\ \A k \in 1..Len(page) : page[k] = realm[f + k]
    <3>1. CASE f + 1 <= hi
      <4>1. f + 1 \in 1..Len(realm) /\ hi \in (f + 1)..Len(realm)
        BY <2>1, <2>2, <3>1
      <4>2. page \in Seq(People) /\ Len(page) = hi - (f + 1) + 1 /\ \A k \in 1..Len(page) : page[k] = realm[(f + 1) + k - 1]
        BY <1>0, <4>1
      <4>3. \A k \in Nat : (f + 1) + k - 1 = f + k
        BY <2>1
      <4>4. Len(page) = hi - f
        BY <2>1, <2>2, <4>2
      <4> QED BY <3>1, <4>2, <4>3, <4>4
    <3>2. CASE ~(f + 1 <= hi)
      <4>1. page = <<>>
        BY <1>0, <2>1, <2>2, <3>2
      <4> QED BY <3>2, <4>1
    <3> QED BY <3>1, <3>2
  <2>4. Page(listing.first) = page
    BY <2>1, <2>2 DEF Page
  <2> HIDE DEF page
  <2>5. PICK w \in Seq(People) : w = o \o page
    <3>1. o \o page \in Seq(People)
      BY <2>1, <2>3
    <3> QED BY <3>1
  <2>6. PICK pc \in {"page", "again", "failed"} : pc = IF Len(page) = PageSize THEN "page" ELSE IF Len(w) < listing.before THEN "failed" ELSE "again"
    OBVIOUS
  <2>7. PICK g \in Nat : g = f + PageSize
    BY <2>1
  <2>8. listing.pc = "page" /\ listing' = [listing EXCEPT !.out = w, !.first = g, !.pc = pc] /\ UNCHANGED <<realm, stayed, moved>>
    BY <1>3, <2>1, <2>4, <2>5, <2>6, <2>7 DEF ListPage
  <2>9. listing' \in ListingRec /\ listing'.out = w /\ listing'.first = g /\ listing'.pc = pc /\ listing'.before = listing.before
    BY <1>0, <2>8 DEF ListingRec
  <2>10. ListTyping' /\ ListingWhole' /\ CountsFollow'
    BY <1>0, <2>8, <2>9 DEF ListTyping, ListingWhole, CountsFollow, Left, Joined
  <2>11. ASSUME moved = <<>>, pc \in {"page", "again"} 
         PROVE  /\ stayed = Range(realm) /\ Len(w) <= Len(realm) /\ \A k \in 1..Len(w) : w[k] = realm[k]
                /\ pc = "page" => Len(w) = g
                /\ pc = "again" => Len(w) = Len(realm)
    <3>1. stayed = Range(realm) /\ Len(o) = f /\ f <= n /\ \A k \in 1..f : o[k] = realm[k]
      BY <2>1, <2>8, <2>11, <1>0 DEF ReadInOrder
    <3>2. hi >= f /\ hi <= n /\ Len(page) = hi - f
      BY <2>2, <2>3, <3>1
    <3>3. Len(w) = hi
      <4>1. Len(w) = Len(o) + Len(page)
        BY <2>3, <2>5, Appended
      <4> QED BY <2>1, <2>2, <3>1, <3>2, <4>1
    <3>4. ASSUME NEW k \in 1..hi PROVE w[k] = realm[k]
      <4>1. CASE k <= f
        BY <2>1, <2>3, <2>5, <3>1, <3>2, <4>1
      <4>2. CASE k > f
        <5>1. k - f \in 1..Len(page) /\ w[k] = page[k - f]
          <6>1. k \in Int /\ k > Len(o) /\ k <= Len(o) + Len(page)
            BY <2>1, <2>2, <3>1, <3>2, <4>2
          <6>2. \A m \in (Len(o) + 1)..(Len(o) + Len(page)) : w[m] = page[m - Len(o)]
            BY <2>3, <2>5, Appended
          <6>3. k \in (Len(o) + 1)..(Len(o) + Len(page))
            BY <2>1, <2>3, <6>1
          <6>4. w[k] = page[k - f]
            BY <3>1, <6>2, <6>3
          <6>5. k - f \in 1..Len(page)
            BY <2>1, <2>2, <3>2, <4>2
          <6> QED BY <6>4, <6>5
        <5>2. page[k - f] = realm[f + (k - f)] /\ f + (k - f) = k
          <6>1. \A m \in 1..Len(page) : page[m] = realm[f + m]
            BY <2>3
          <6> QED BY <2>1, <5>1, <6>1
        <5> QED BY <5>1, <5>2
      <4> QED BY <2>1, <4>1, <4>2
    <3>5. pc = "page" => hi = g
      BY <2>6, <2>7, <3>2, <2>1, <2>2
    <3>6. pc = "again" => hi = n
      BY <2>6, <2>7, <3>2, <2>1, <2>2
    <3> QED BY <2>1, <3>1, <3>2, <3>3, <3>4, <3>5, <3>6
  <2>12. ReadInOrder'
    BY <2>8, <2>9, <2>11 DEF ReadInOrder
  <2> QED BY <2>10, <2>12 DEF ListIInv
<1>4. CASE CountAfter
  <2>1. PICK pc \in {"done", "count", "failed"} :
           pc = IF listing.before = Len(realm) THEN "done" ELSE IF listing.try < 2 THEN "count" ELSE "failed"
    OBVIOUS
  <2>2. listing.pc = "again" /\ listing' = [listing EXCEPT !.pc = pc] /\ UNCHANGED <<realm, stayed, moved>>
    BY <1>4, <2>1 DEF CountAfter
  <2>3. listing' \in ListingRec /\ listing'.pc = pc /\ listing'.out = listing.out /\ listing'.try = listing.try
    BY <1>0, <2>2 DEF ListingRec
  <2>4. ListTyping' /\ CountsFollow' /\ ReadInOrder'
    BY <1>0, <2>1, <2>2, <2>3 DEF ListTyping, CountsFollow, ReadInOrder
  <2>5. ASSUME pc = "done", ~({"join", "leave"} \subseteq Range(moved)) PROVE stayed \subseteq Range(listing.out)
    <3>1. listing.before = Len(realm)
      BY <2>1, <2>5
    <3>2. Len(realm) \in Nat /\ Len(moved) \in Nat /\ listing.before \in Nat
      BY <1>0 DEF ListingRec
    <3>3. Len(moved) = 0
      BY <1>0, <2>2, <2>5, <3>1, <3>2 DEF CountsFollow, Left, Joined
    <3>4. moved = <<>>
      BY <1>0, <3>3
    <3>5. /\ stayed = Range(realm) /\ Len(listing.out) = Len(realm) /\ \A k \in 1..Len(listing.out) : listing.out[k] = realm[k]
      BY <1>0, <2>2, <3>4 DEF ReadInOrder
    <3>6. DOMAIN listing.out = DOMAIN realm /\ DOMAIN realm = 1..Len(listing.out)
      BY <1>0, <3>5 DEF ListingRec
    <3> QED BY <3>5, <3>6 DEF Range
  <2>6. ListingWhole'
    BY <2>2, <2>3, <2>5 DEF ListingWhole
  <2> QED BY <2>4, <2>6 DEF ListIInv
<1>5. CASE ListTaken
  <2>1. listing' = LIdle /\ stayed' = {} /\ moved' = <<>> /\ realm' = realm
    BY <1>5 DEF ListTaken
  <2>2. moved' \in Seq({"join", "leave"})
    BY <2>1
  <2> QED BY <1>0, <1>a, <2>1, <2>2 DEF ListIInv, ListTyping, CountsFollow, ReadInOrder, ListingWhole
<1>6. ASSUME NEW z \in {"join", "leave"}, moved' = IF listing.pc = "idle" THEN moved ELSE Append(moved, z)
      PROVE  /\ moved' \in Seq({"join", "leave"}) /\ Range(moved) \subseteq Range(moved')
             /\ listing.pc # "idle" => Len(moved') = Len(moved) + 1 /\ z \in Range(moved')
  <2>1. CASE listing.pc = "idle"
    BY <1>0, <1>6, <2>1
  <2>2. CASE listing.pc # "idle"
    <3>1. moved' = Append(moved, z)
      BY <1>6, <2>2
    <3>2. moved' \in Seq({"join", "leave"}) /\ Len(moved') = Len(moved) + 1 /\ moved'[Len(moved) + 1] = z /\ \A k \in 1..Len(moved) : moved'[k] = moved[k]
      BY <1>0, <3>1
    <3>3. DOMAIN moved' = 1..(Len(moved) + 1) /\ DOMAIN moved = 1..Len(moved) /\ Len(moved) \in Nat
      BY <1>0, <3>2
    <3> QED BY <3>2, <3>3 DEF Range
  <2> QED BY <2>1, <2>2
<1>7. ASSUME NEW x \in People, NEW i \in 1..(Len(realm) + 1), Joins(x, i) PROVE ListIInv'
  <2>1. x \notin Range(realm) /\ realm' = InsertAt(realm, i, x) /\ UNCHANGED <<listing, stayed>>
    BY <1>7 DEF Joins
  <2>2. realm' \in Seq(People) /\ Len(realm') = Len(realm) + 1 /\ Range(realm') = Range(realm) \cup {x} /\ IsInjective(realm')
    BY <1>0, <2>1, Inserted
  <2>3. moved' = IF listing.pc = "idle" THEN moved ELSE Append(moved, "join")
    BY <1>7 DEF Joins
  <2>4. /\ moved' \in Seq({"join", "leave"}) /\ Range(moved) \subseteq Range(moved')
        /\ listing.pc # "idle" => Len(moved') = Len(moved) + 1 /\ "join" \in Range(moved')
    BY <1>6, <2>3
  <2>5. Len(realm) \in Nat /\ Len(moved) \in Nat /\ listing.before \in Nat
    BY <1>0 DEF ListingRec
  <2>6. ListTyping' /\ ListingWhole'
    BY <1>0, <2>1, <2>2, <2>4 DEF ListTyping, ListingWhole
  <2>7. CountsFollow'
    <3>1. listing.pc \in {"page", "again"} => Joined'
      BY <2>4 DEF Joined
    <3>2. Left => Left'
      BY <2>4 DEF Left
    <3>3. ASSUME listing.pc \in {"page", "again"}, ~Left' PROVE Len(realm') = listing.before + Len(moved')
      <4>1. Len(realm) = listing.before + Len(moved)
        BY <1>0, <3>2, <3>3 DEF CountsFollow
      <4>2. Len(moved') = Len(moved) + 1
        BY <2>4, <3>3
      <4> QED BY <2>2, <2>5, <4>1, <4>2
    <3> QED BY <2>1, <3>1, <3>3 DEF CountsFollow
  <2>8. listing.pc # "idle" => moved' # <<>>
    BY <2>4, <2>5
  <2>9. ReadInOrder'
    BY <2>1, <2>8 DEF ReadInOrder
  <2> QED BY <2>6, <2>7, <2>9 DEF ListIInv
<1>8. ASSUME NEW i \in 1..Len(realm), Leaves(i) PROVE ListIInv'
  <2>1. realm' = RemoveAt(realm, i) /\ listing' = listing /\ stayed' = stayed \ {realm[i]}
    BY <1>8 DEF Leaves
  <2>2. realm' \in Seq(People) /\ Len(realm') + 1 = Len(realm) /\ Range(realm) \ {realm[i]} \subseteq Range(realm') /\ IsInjective(realm')
    BY <1>0, <2>1, Removed
  <2>3. moved' = IF listing.pc = "idle" THEN moved ELSE Append(moved, "leave")
    BY <1>8 DEF Leaves
  <2>4. /\ moved' \in Seq({"join", "leave"}) /\ Range(moved) \subseteq Range(moved')
        /\ listing.pc # "idle" => Len(moved') = Len(moved) + 1 /\ "leave" \in Range(moved')
    BY <1>6, <2>3
  <2>5. Len(realm) \in Nat /\ Len(realm') \in Nat /\ Len(moved) \in Nat /\ listing.before \in Nat
    BY <1>0, <2>2 DEF ListingRec
  <2>6. ListTyping' /\ ListingWhole'
    BY <1>0, <2>1, <2>2, <2>4 DEF ListTyping, ListingWhole
  <2>7. CountsFollow'
    <3>1. listing.pc \in {"page", "again"} => Left'
      BY <2>4 DEF Left
    <3>2. Joined => Joined'
      BY <2>4 DEF Joined
    <3>3. ASSUME listing.pc \in {"page", "again"}, ~Joined' PROVE Len(realm') + Len(moved') = listing.before
      <4>1. Len(realm) + Len(moved) = listing.before
        BY <1>0, <3>2, <3>3 DEF CountsFollow
      <4>2. Len(moved') = Len(moved) + 1
        BY <2>4, <3>3
      <4> QED BY <2>2, <2>5, <4>1, <4>2
    <3> QED BY <2>1, <3>1, <3>3 DEF CountsFollow
  <2>8. listing.pc # "idle" => moved' # <<>>
    BY <2>4, <2>5
  <2>9. ReadInOrder'
    BY <2>1, <2>8 DEF ReadInOrder
  <2> QED BY <2>6, <2>7, <2>9 DEF ListIInv
<1>9. CASE UNCHANGED listVars
  BY <1>9 DEF listVars, ListIInv, ListTyping, CountsFollow, ReadInOrder, ListingWhole, Left, Joined
<1> QED BY <1>1, <1>2, <1>3, <1>4, <1>5, <1>7, <1>8, <1>9 DEF ListNext

\* Nothing is listed yet.
LEMMA ListStartHolds == ListInit => ListIInv
<1> SUFFICES ASSUME ListInit PROVE ListIInv
  OBVIOUS
<1>1. Cardinality(People) \in Nat
  BY ListingAssumption, FS_CardinalityType
<1>2. PICK n \in 0..Cardinality(People) : realm \in Injection(1..n, People)
  BY DEF ListInit
<1>3. n \in Nat /\ realm \in [1..n -> People] /\ IsInjective(realm)
  BY <1>1, <1>2 DEF Injection
<1>4. realm \in Seq(People)
  BY <1>3
<1>5. listing = LIdle /\ stayed = {} /\ moved = <<>>
  BY DEF ListInit
<1>6. <<>> \in Seq(People) /\ <<>> \in Seq({"join", "leave"})
  OBVIOUS
<1>7. LIdle \in ListingRec /\ LIdle.pc = "idle"
  BY <1>6 DEF LIdle, ListingRec
<1> QED BY <1>3, <1>4, <1>5, <1>6, <1>7 DEF ListIInv, ListTyping, CountsFollow, ReadInOrder, ListingWhole

\* The inductive invariant holds throughout a listing.
LEMMA ListInductive == ListSpec => []ListIInv
BY ListStartHolds, ListStepKeeps, PTL DEF ListSpec

-----------------------------------------------------------------------------
(* Directory.  No sign-in, sync or push moves an account between           *)
(* identities, or links one that has a password.                           *)

ProviderRec == [state : {"none", "on", "off"}, provision : BOOLEAN, token : BOOLEAN]
Rows == UNION {[us -> Row] : us \in SUBSET Users}
AboutOne == {"link", "profile", "groups", "push", "rename", "scim", "state", "return", "leave", "disable", "hide"}

\* A job that is about an account knows which.
JobTyping == job \in [Jobs -> Job] /\ \A j \in Jobs : job[j].pc \in AboutOne => job[j].id \in Users
StoreTyping ==
    /\ provider \in [IdPs -> ProviderRec] /\ uname \in [Users -> Names \cup {None}]
    /\ scimGone \subseteq Users /\ grp \subseteq Groups /\ member \subseteq Groups \X Users
    /\ person \in [IdPs -> [Subjects -> Names \cup {None}]]
    /\ gread \in [Groups -> {None} \cup SUBSET Users]
DirIInv == AccountTyping /\ PasswordsGone /\ JobTyping /\ StoreTyping

\* What a step may do to a row, as far as its link is concerned.
LinkStep(a, b) ==
    /\ (a.idp # None /\ a.subject # None /\ a.status # "free" /\ b.idp # None) => b.idp = a.idp /\ b.subject = a.subject
    /\ (a.pw # None /\ a.idp = None) => b.idp = None
DirKept == DirIInv' /\ \A u \in Users : LinkStep(account[u], account'[u])

\* Rows and jobs as they are before anything happens.
LEMMA IdleJob == /\ NoRow \in Row /\ JIdle \in Job /\ JIdle.pc = "idle" /\ JIdle.id = None
                 /\ {"none", "sync", "login", "post", "put", "del"} \subseteq Kinds
<1>1. NoRow \in Row
  BY DEF NoRow, Row
<1>2. PICK e \in Rows : e = [u \in {} |-> NoRow]
  BY <1>1 DEF Rows
<1>3. PICK k \in SUBSET Users : k = {}
  OBVIOUS
<1>4. PICK d \in SUBSET (Subjects \X Names) : d = {}
  OBVIOUS
<1>5. JIdle = [pc |-> "idle", kind |-> "none", p |-> None, s |-> None, name |-> None, id |-> None, row |-> NoRow,
               todo |-> d, rows |-> e, kept |-> k, force |-> FALSE, nobody |-> FALSE, want |-> "same"]
  BY <1>2, <1>3, <1>4 DEF JIdle
<1>6. "none" \in Kinds /\ "same" \in Desired
  BY DEF Kinds, Desired
<1>7. JIdle \in Job
  BY <1>1, <1>5, <1>6 DEF Job, Rows
<1>8. {"none", "sync", "login", "post", "put", "del"} \subseteq Kinds
  BY DEF Kinds
<1> QED BY <1>1, <1>5, <1>7, <1>8

\* A row that exists is read.
LEMMA RowRead == ASSUME AccountTyping, NEW u \in Users, Exists(u), NEW drift \in BOOLEAN PROVE RowOf(u, drift) \in Row
  BY DEF AccountTyping, Account, Exists, RowOf, Row

\* A job begins, goes on or ends.
LEMMA JobSet ==
    ASSUME JobTyping, NEW j \in Jobs, NEW x \in Job, x.pc \in AboutOne => x.id \in Users, job' = [job EXCEPT ![j] = x]
    PROVE  JobTyping'
  BY DEF JobTyping

\* A job ends.
LEMMA JobEndsKeeps == ASSUME JobTyping, NEW j \in Jobs, JobEnds(j) PROVE JobTyping'
  BY IdleJob, JobSet DEF JobEnds, AboutOne

\* A job goes on with its next statement.
LEMMA GotoKeeps ==
    ASSUME JobTyping, NEW j \in Jobs, NEW pc, Goto(j, pc),
           (pc \in AboutOne /\ job[j].id \in Users) \/ pc \in {"idle", "rows", "people", "find", "adopt", "create", "username", "gone"}
    PROVE  JobTyping'
<1>1. job[j] \in Job
  BY DEF JobTyping
<1> DEFINE x == [job[j] EXCEPT !.pc = pc]
<1>2. job' = [job EXCEPT ![j] = x]
  BY DEF Goto, JobTyping
<1>3. x \in Job /\ x.pc = pc /\ x.id = job[j].id
  BY <1>1 DEF Job, AboutOne
<1> HIDE DEF x
<1> QED BY <1>2, <1>3, JobSet DEF AboutOne

\* A sync goes on with the next person; the others end.
LEMMA ThroughKeeps == ASSUME JobTyping, NEW j \in Jobs, Through(j) PROVE JobTyping'
  BY GotoKeeps, JobEndsKeeps DEF Through

\* A sign-in, a sync or a push begins.
LEMMA JobBegins ==
    ASSUME DirIInv, NEW j \in Jobs,
           \/ \E p \in IdPs, s \in Subjects : Callback(j, p, s) \/ LdapLogin(j, p, s)
           \/ \E p \in IdPs : SyncTick(j, p) \/ SyncNow(j, p)
           \/ \E p \in IdPs, n \in Names, want \in Desired : PostUser(j, p, n, want)
           \/ \E p \in IdPs, u \in Users, n \in Names, kind \in {"put", "del"}, drift \in BOOLEAN :
                 \E want \in Patched(kind) : ScimFind(j, p, u, kind, n, want, drift)
    PROVE  JobTyping'
<1>0. JobTyping /\ StoreTyping /\ AccountTyping
  BY DEF DirIInv
<1>k. /\ "sync" \in Kinds /\ "login" \in Kinds /\ "post" \in Kinds /\ "put" \in Kinds /\ "del" \in Kinds
  BY IdleJob
<1>1. ASSUME NEW p \in IdPs, NEW s \in Subjects, Callback(j, p, s) \/ LdapLogin(j, p, s) PROVE JobTyping'
  <2>1. PICK n \in Names \cup {None} : n = person[p][s]
    BY <1>0 DEF StoreTyping
  <2> DEFINE x == [JIdle EXCEPT !.pc = "find", !.kind = "login", !.p = p, !.s = s, !.name = n]
  <2>2. job' = [job EXCEPT ![j] = x]
    BY <1>1, <2>1 DEF Callback, LdapLogin, Resolving, Starts
  <2>3. x \in Job /\ x.pc = "find"
    BY <1>k, IdleJob DEF Job
  <2> HIDE DEF x
  <2> QED BY <1>0, <2>2, <2>3, JobSet DEF AboutOne
<1>2. ASSUME NEW p \in IdPs, NEW force \in BOOLEAN, SyncRun(j, p, force) PROVE JobTyping'
  <2>1. PICK todo \in SUBSET (Subjects \X Names) : todo = Listed(p)
    <3>1. ASSUME NEW s \in Subjects, person[p][s] # None PROVE person[p][s] \in Names
      BY <1>0, <3>1 DEF StoreTyping
    <3>2. Listed(p) \in SUBSET (Subjects \X Names)
      BY <3>1 DEF Listed
    <3> QED BY <3>2
  <2>2. PICK nobody \in BOOLEAN : nobody = (Listed(p) = {})
    OBVIOUS
  <2> DEFINE y == [JIdle EXCEPT !.pc = "rows", !.kind = "sync", !.p = p]
             z == [y EXCEPT !.todo = todo, !.force = force]
             x == [z EXCEPT !.nobody = nobody]
  <2>3. job' = [job EXCEPT ![j] = [JIdle EXCEPT !.pc = "rows", !.kind = "sync", !.p = p, !.force = force,
                                                !.todo = todo, !.nobody = nobody]]
    BY <1>2, <2>1, <2>2 DEF SyncRun, Starts
  <2>4. job' = [job EXCEPT ![j] = x]
    BY <2>3, IdleJob DEF Job
  <2>5. y \in Job /\ y.pc = "rows"
    BY <1>k, IdleJob DEF Job
  <2> HIDE DEF y
  <2>7. z \in Job /\ z.pc = "rows"
    BY <2>5 DEF Job
  <2> HIDE DEF z
  <2>6. x \in Job /\ x.pc = "rows"
    BY <2>7 DEF Job
  <2> HIDE DEF x
  <2> QED BY <1>0, <2>4, <2>6, JobSet DEF AboutOne
<1>3. ASSUME NEW p \in IdPs, NEW n \in Names, NEW want \in Desired, PostUser(j, p, n, want) PROVE JobTyping'
  <2> DEFINE x == [JIdle EXCEPT !.pc = "username", !.kind = "post", !.p = p, !.name = n, !.want = want]
  <2>1. job' = [job EXCEPT ![j] = x]
    BY <1>3 DEF PostUser, Starts
  <2>2. x \in Job /\ x.pc = "username"
    BY <1>k, IdleJob DEF Job
  <2> HIDE DEF x
  <2> QED BY <1>0, <2>1, <2>2, JobSet DEF AboutOne
<1>4. ASSUME NEW p \in IdPs, NEW u \in Users, NEW n \in Names, NEW kind \in {"put", "del"}, NEW drift \in BOOLEAN,
             NEW want \in Patched(kind), ScimFind(j, p, u, kind, n, want, drift)
      PROVE  JobTyping'
  <2>1. Exists(u) /\ want \in Desired
    BY <1>4 DEF ScimFind, ListProvisioned, ListByIdP, Patched, Desired
  <2>2. PICK r \in Row : r = RowOf(u, drift)
    BY <1>0, <2>1, RowRead
  <2>3. PICK pc \in {"leave", "rename", "profile", "state"} :
            pc = CASE kind = "del" -> "leave" [] kind = "put" /\ n # uname[u] -> "rename"
                   [] OTHER -> IF drift THEN "profile" ELSE "state"
    OBVIOUS
  <2> DEFINE z == [JIdle EXCEPT !.pc = pc]
             y == [z EXCEPT !.kind = kind, !.p = p]
             x == [y EXCEPT !.id = u, !.name = n, !.want = want, !.row = r]
  <2>4. job' = [job EXCEPT ![j] = [JIdle EXCEPT !.pc = pc, !.kind = kind, !.p = p, !.id = u, !.name = n, !.want = want, !.row = r]]
    BY <1>4, <2>2, <2>3 DEF ScimFind, Starts
  <2>5. job' = [job EXCEPT ![j] = x]
    BY <2>4, IdleJob DEF Job
  <2>8. kind \in Kinds /\ pc \in AboutOne
    BY <1>k DEF AboutOne
  <2>9. z \in Job /\ z.pc = pc
    BY IdleJob DEF Job
  <2> HIDE DEF z
  <2>6. y \in Job /\ y.pc = pc
    BY <2>8, <2>9 DEF Job
  <2> HIDE DEF y
  <2>7. x \in Job /\ x.pc = pc /\ x.id = u
    BY <2>1, <2>6 DEF Job
  <2> HIDE DEF x
  <2> QED BY <1>0, <2>5, <2>7, JobSet
<1> QED BY <1>1, <1>2, <1>3, <1>4 DEF SyncTick, SyncNow

\* A job reads the account it is about.
LEMMA JobReads ==
    ASSUME DirIInv, NEW j \in Jobs,
           \/ \E drift \in BOOLEAN : Find(j, drift) \/ Adopt(j, drift) \/ PostFound(j, drift)
           \/ \E us \in SUBSET Users : SyncRows(j, us)
           \/ \E t \in job[j].todo : SyncPerson(j, t)
           \/ \E u \in Users : SyncGone(j, u)
    PROVE  JobTyping'
<1>0. JobTyping /\ AccountTyping
  BY DEF DirIInv
<1>1. PICK k \in SUBSET Users, d \in SUBSET (Subjects \X Names), w \in Desired, y \in Job :
          y = job[j] /\ k = y.kept /\ d = y.todo /\ w = y.want
  BY <1>0 DEF JobTyping, Job
<1>2. ASSUME NEW pc \in AboutOne, NEW u \in Users, NEW r \in Row,
             job' = [job EXCEPT ![j].pc = pc, ![j].id = u, ![j].row = r]
      PROVE  JobTyping'
  <2> DEFINE x == [y EXCEPT !.pc = pc, !.id = u, !.row = r]
  <2>1. x \in Job /\ x.id = u
    BY DEF Job, AboutOne
  <2>2. job' = [job EXCEPT ![j] = x]
    BY <1>0, <1>1, <1>2 DEF JobTyping
  <2> HIDE DEF x
  <2> QED BY <1>0, <2>1, <2>2, JobSet
<1>3. ASSUME NEW drift \in BOOLEAN, Find(j, drift) PROVE JobTyping'
  <2>1. CASE GetByExternalID(job[j].p, job[j].s) = {}
    <3>1. Goto(j, "adopt")
      BY <1>3, <2>1 DEF Find, Goto
    <3> QED BY <1>0, <3>1, GotoKeeps
  <2>2. CASE GetByExternalID(job[j].p, job[j].s) # {}
    <3>1. PICK u \in GetByExternalID(job[j].p, job[j].s) : u = CHOOSE v \in GetByExternalID(job[j].p, job[j].s) : TRUE
      BY <2>2
    <3>2. u \in Users /\ Exists(u)
      BY <3>1 DEF GetByExternalID
    <3>3. PICK r \in Row : r = RowOf(u, drift)
      BY <1>0, <3>2, RowRead
    <3>4. PICK pc \in {"profile", "groups"} : pc = IF drift THEN "profile" ELSE "groups"
      OBVIOUS
    <3>5. job' = [job EXCEPT ![j].pc = pc, ![j].id = u, ![j].row = r]
      BY <1>3, <2>2, <3>1, <3>3, <3>4 DEF Find
    <3> QED BY <1>2, <3>2, <3>5 DEF AboutOne
  <2> QED BY <2>1, <2>2
<1>4. ASSUME NEW drift \in BOOLEAN, Adopt(j, drift) PROVE JobTyping'
  <2>1. CASE GetByUsername(job[j].name) = {}
    <3>1. Goto(j, "create")
      BY <1>4, <2>1 DEF Adopt
    <3> QED BY <1>0, <3>1, GotoKeeps
  <2>2. CASE GetByUsername(job[j].name) # {}
    <3>1. PICK u \in GetByUsername(job[j].name) : u = CHOOSE v \in GetByUsername(job[j].name) : TRUE
      BY <2>2
    <3>2. u \in Users /\ Exists(u)
      BY <3>1 DEF GetByUsername
    <3>3. PICK r \in Row : r = RowOf(u, drift)
      BY <1>0, <3>2, RowRead
    <3>4. job' = [job EXCEPT ![j].pc = "link", ![j].id = u, ![j].row = r] \/ Through(j)
      BY <1>4, <2>2, <3>1, <3>3 DEF Adopt
    <3> QED BY <1>0, <1>2, <3>2, <3>4, ThroughKeeps DEF AboutOne
  <2> QED BY <2>1, <2>2
<1>5. ASSUME NEW drift \in BOOLEAN, PostFound(j, drift) PROVE JobTyping'
  <2>1. CASE GetByUsername(job[j].name) = {}
    <3>1. Goto(j, "create")
      BY <1>5, <2>1 DEF PostFound
    <3> QED BY <1>0, <3>1, GotoKeeps
  <2>2. CASE GetByUsername(job[j].name) # {}
    <3>1. PICK u \in GetByUsername(job[j].name) : u = CHOOSE v \in GetByUsername(job[j].name) : TRUE
      BY <2>2
    <3>2. u \in Users /\ Exists(u)
      BY <3>1 DEF GetByUsername
    <3>3. PICK r \in Row : r = RowOf(u, drift)
      BY <1>0, <3>2, RowRead
    <3>4. PICK v \in Desired : v = IF w = "same" THEN "active" ELSE w
      BY DEF Desired
    <3>5. \/ job' = [job EXCEPT ![j].pc = "push", ![j].id = u, ![j].row = r]
          \/ job' = [[job EXCEPT ![j].pc = "scim", ![j].id = u, ![j].row = r] EXCEPT ![j].want = IF @ = "same" THEN "active" ELSE @]
          \/ JobEnds(j)
      BY <1>5, <2>2, <3>1, <3>3 DEF PostFound
    <3>6. CASE job' = [[job EXCEPT ![j].pc = "scim", ![j].id = u, ![j].row = r] EXCEPT ![j].want = IF @ = "same" THEN "active" ELSE @]
      <4> DEFINE z == [y EXCEPT !.pc = "scim", !.id = u, !.row = r]
                 f == [job EXCEPT ![j] = z]
                 x == [z EXCEPT !.want = v]
      <4>1. [job EXCEPT ![j].pc = "scim", ![j].id = u, ![j].row = r] = f
        BY <1>0, <1>1 DEF JobTyping
      <4>2. z \in Job /\ z.want = w /\ z.id = u
        BY <1>1, <3>2 DEF Job
      <4>3. f \in [Jobs -> Job] /\ f[j] = z
        BY <1>0, <4>2 DEF JobTyping
      <4>4. \A g : [f EXCEPT ![j] = g] = [job EXCEPT ![j] = g]
        BY <1>0 DEF JobTyping
      <4> HIDE DEF z, f
      <4>5. f[j].want = w
        BY <4>2, <4>3
      <4>6. job' = [f EXCEPT ![j].want = v]
        BY <3>4, <3>6, <4>1, <4>5
      <4>7. job' = [f EXCEPT ![j] = x]
        BY <4>3, <4>6
      <4>8. x \in Job /\ x.id = u
        BY <4>2 DEF Job
      <4> HIDE DEF x
      <4>9. job' = [job EXCEPT ![j] = x]
        BY <4>4, <4>7
      <4> QED BY <1>0, <3>2, <4>8, <4>9, JobSet
    <3> QED BY <1>0, <1>2, <3>2, <3>5, <3>6, JobEndsKeeps DEF AboutOne
  <2> QED BY <2>1, <2>2
<1>6. ASSUME NEW us \in SUBSET Users, SyncRows(j, us) PROVE JobTyping'
  <2> DEFINE who == ListByIdP(job[j].p)
  <2>1. who \in SUBSET Users /\ \A u \in who : Exists(u)
    BY DEF ListByIdP
  <2>2. \A u \in who : RowOf(u, u \in us) \in Row
    <3>1. ASSUME NEW u \in who PROVE RowOf(u, u \in us) \in Row
      <4>0. (u \in us) \in BOOLEAN
        OBVIOUS
      <4>1. PICK b \in BOOLEAN : b = (u \in us)
        BY <4>0, Zenon
      <4>2. RowOf(u, b) \in Row
        BY <1>0, <2>1, RowRead
      <4> QED BY <4>1, <4>2
    <3> QED BY <3>1
  <2>3. PICK rs \in Rows : rs = [u \in who |-> RowOf(u, u \in us)]
    <3>1. [u \in who |-> RowOf(u, u \in us)] \in [who -> Row]
      BY <2>2
    <3> HIDE DEF who
    <3> QED BY <2>1, <3>1 DEF Rows
  <2> DEFINE x == [y EXCEPT !.pc = "people", !.rows = rs]
  <2>4. job' = [job EXCEPT ![j].pc = "people", ![j].rows = rs]
    BY <1>6, <2>3 DEF SyncRows
  <2> HIDE DEF who
  <2>5. job' = [job EXCEPT ![j] = x]
    BY <1>0, <1>1, <2>4 DEF JobTyping
  <2>6. x \in Job /\ x.pc = "people"
    BY DEF Job, Rows
  <2> HIDE DEF x
  <2> QED BY <1>0, <2>5, <2>6, JobSet DEF AboutOne
<1>7. ASSUME NEW u \in DOMAIN job[j].rows PROVE u \in Users /\ job[j].rows[u] \in Row
  <2>1. y.rows \in UNION {[us -> Row] : us \in SUBSET Users}
    BY DEF Job
  <2>2. PICK us \in SUBSET Users : y.rows \in [us -> Row]
    BY <2>1
  <2> QED BY <1>1, <1>7, <2>2
<1>8. ASSUME NEW t \in job[j].todo, SyncPerson(j, t) PROVE JobTyping'
  <2>0. PICK s \in Subjects, n \in Names : t = <<s, n>> /\ t[1] = s /\ t[2] = n
    BY <1>1
  <2>1. PICK e \in SUBSET (Subjects \X Names) : e = d \ {t}
    BY <1>1
  <2> DEFINE mine == {u \in DOMAIN job[j].rows : job[j].rows[u].subject = t[1]}
  <2>2. CASE mine = {}
    <3> DEFINE x == [y EXCEPT !.pc = "adopt", !.s = s, !.name = n, !.todo = e]
    <3>1. job' = [job EXCEPT ![j].pc = "adopt", ![j].s = s, ![j].name = n, ![j].todo = job[j].todo \ {t}]
      BY <1>8, <2>0, <2>2 DEF SyncPerson
    <3>2. job' = [job EXCEPT ![j].pc = "adopt", ![j].s = s, ![j].name = n, ![j].todo = e]
      BY <1>1, <2>1, <3>1
    <3>3. job' = [job EXCEPT ![j] = x]
      BY <1>0, <1>1, <3>2 DEF JobTyping
    <3>4. x \in Job /\ x.pc = "adopt"
      BY DEF Job
    <3> HIDE DEF x
    <3> QED BY <1>0, <3>3, <3>4, JobSet DEF AboutOne
  <2>3. CASE mine # {}
    <3>1. PICK u \in mine : u = CHOOSE v \in mine : TRUE
      BY <2>3
    <3>2. u \in Users /\ u \in DOMAIN job[j].rows
      BY <1>7, <3>1
    <3>3. PICK r \in Row : r = job[j].rows[u]
      BY <1>7, <3>2
    <3>4. PICK l \in SUBSET Users : l = k \cup {u}
      BY <3>2
    <3>5. job' = [job EXCEPT ![j].pc = "return", ![j].id = u, ![j].row = r, ![j].kept = job[j].kept \cup {u}, ![j].todo = job[j].todo \ {t}]
      BY <1>8, <2>3, <3>1, <3>3 DEF SyncPerson
    <3>6. job' = [job EXCEPT ![j].pc = "return", ![j].id = u, ![j].row = r, ![j].kept = l, ![j].todo = e]
      BY <1>1, <2>1, <3>4, <3>5
    <3> DEFINE x == [y EXCEPT !.pc = "return", !.id = u, !.row = r, !.kept = l, !.todo = e]
    <3>7. x \in Job /\ x.id = u
      BY <3>2 DEF Job
    <3>8. job' = [job EXCEPT ![j] = x]
      BY <1>0, <1>1, <3>6 DEF JobTyping
    <3> HIDE DEF x
    <3> QED BY <1>0, <3>2, <3>7, <3>8, JobSet
  <2> QED BY <2>2, <2>3
<1>9. ASSUME NEW u \in Users, SyncGone(j, u) PROVE JobTyping'
  <2>1. u \in DOMAIN job[j].rows
    BY <1>9 DEF SyncGone, Gone
  <2>3. PICK r \in Row : r = job[j].rows[u]
    BY <1>7, <2>1
  <2>4. PICK l \in SUBSET Users : l = k \cup {u}
    OBVIOUS
  <2>5. job' = [job EXCEPT ![j].pc = "leave", ![j].id = u, ![j].row = r, ![j].kept = job[j].kept \cup {u}]
    BY <1>9, <2>3 DEF SyncGone
  <2>6. job' = [job EXCEPT ![j].pc = "leave", ![j].id = u, ![j].row = r, ![j].kept = l]
    BY <1>1, <2>4, <2>5
  <2> DEFINE x == [y EXCEPT !.pc = "leave", !.id = u, !.row = r, !.kept = l]
  <2>7. x \in Job /\ x.id = u
    BY DEF Job
  <2>8. job' = [job EXCEPT ![j] = x]
    BY <1>0, <1>1, <2>6 DEF JobTyping
  <2> HIDE DEF x
  <2> QED BY <1>0, <2>7, <2>8, JobSet
<1> QED BY <1>3, <1>4, <1>5, <1>6, <1>8, <1>9

\* Steps that leave the accounts alone.
LEMMA AccountsAlone ==
    ASSUME DirIInv, account' = account, wsess' \in [WSess -> SessionRec], ulive' \in SUBSET Users,
           UNCHANGED <<token, ureq, decided>>, JobTyping', StoreTyping'
    PROVE  DirKept
<1>1. AccountTyping' /\ PasswordsGone'
  BY DEF DirIInv, AccountTyping, PasswordsGone
<1>2. \A u \in Users : LinkStep(account[u], account'[u])
  BY DEF LinkStep
<1> QED BY <1>1, <1>2 DEF DirKept, DirIInv

\* One row is written.
LEMMA AccountWritten ==
    ASSUME DirIInv, NEW u \in Users, NEW x \in Account, account' = [account EXCEPT ![u] = x], x.status = "free" => x.pw = None,
           LinkStep(account[u], x), wsess' \in [WSess -> SessionRec], ulive' \in SUBSET Users,
           UNCHANGED <<token, ureq, decided>>, JobTyping', StoreTyping'
    PROVE  DirKept
<1>1. AccountTyping'
  BY DEF DirIInv, AccountTyping
<1>2. PasswordsGone'
  BY DEF DirIInv, AccountTyping, PasswordsGone
<1>3. \A v \in Users : LinkStep(account[v], account'[v])
  BY DEF LinkStep, DirIInv, AccountTyping
<1> QED BY <1>1, <1>2, <1>3 DEF DirKept, DirIInv

\* A job that reads.
LEMMA ReaderKeeps ==
    ASSUME DirIInv, JobTyping', Accts, Rest, UNCHANGED <<scimGone, member>>
    PROVE  DirKept
<1>1. StoreTyping'
  BY DEF DirIInv, StoreTyping, Accts, Rest
<1> QED BY <1>1, AccountsAlone DEF DirIInv, AccountTyping, Accts, Rest

\* Link, Profile, Return, Create and Provision: one row, and the job goes on.
LEMMA LinkKeeps == ASSUME DirIInv, NEW j \in Jobs, Link(j) PROVE DirKept
<1>0. JobTyping /\ StoreTyping /\ AccountTyping
  BY DEF DirIInv
<1>1. PICK u \in Users, y \in Account, z \in Job, k \in SUBSET Users, p \in IdPs \cup {None}, s \in Subjects \cup {None} :
          u = job[j].id /\ y = account[u] /\ z = job[j] /\ k = z.kept \cup {u} /\ p = z.p /\ s = z.s
  <2>1. job[j] \in Job /\ job[j].id \in Users
    BY <1>0 DEF JobTyping, Link, AboutOne
  <2>2. account[job[j].id] \in Account
    BY <1>0, <2>1 DEF AccountTyping
  <2>3. job[j].kept \cup {job[j].id} \in SUBSET Users /\ job[j].p \in IdPs \cup {None} /\ job[j].s \in Subjects \cup {None}
    BY <2>1 DEF Job
  <2> QED BY <2>1, <2>2, <2>3
<1>2. StoreTyping' /\ wsess' \in [WSess -> SessionRec] /\ ulive' \in SUBSET Users /\ UNCHANGED <<token, ureq, decided>>
  BY <1>0 DEF Link, Rest, StoreTyping, AccountTyping
<1>3. CASE account' = account /\ Through(j)
  BY <1>0, <1>2, <1>3, ThroughKeeps, AccountsAlone
<1>4. CASE ~(account' = account /\ Through(j))
  <2>1. PICK pc \in {"people", "profile", "groups"} :
            pc = IF job[j].kind = "sync" THEN "people" ELSE IF job[j].row.drift THEN "profile" ELSE "groups"
    OBVIOUS
  <2>2. /\ y.status # "free" /\ y.pw = None /\ (y.idp = None \/ (y.idp = p /\ y.subject = None))
        /\ account' = [account EXCEPT ![u].idp = p, ![u].subject = s]
        /\ job' = [job EXCEPT ![j].pc = pc, ![j].kept = k]
    BY <1>1, <1>4, <2>1 DEF Link, Exists
  <2> DEFINE x == [y EXCEPT !.idp = p, !.subject = s]
             w == [z EXCEPT !.pc = pc, !.kept = k]
  <2>3. account' = [account EXCEPT ![u] = x]
    BY <1>0, <1>1, <2>2 DEF AccountTyping
  <2>4. x \in Account /\ x.status = y.status /\ x.pw = y.pw
    BY DEF Account
  <2>5. job' = [job EXCEPT ![j] = w]
    BY <1>0, <1>1, <2>2 DEF JobTyping
  <2>6. w \in Job /\ w.id = u
    BY <1>1 DEF Job
  <2>7. LinkStep(y, x)
    BY <2>2 DEF LinkStep
  <2> HIDE DEF x, w
  <2>8. JobTyping'
    BY <1>0, <2>5, <2>6, JobSet
  <2> QED BY <1>1, <1>2, <2>2, <2>3, <2>4, <2>7, <2>8, AccountWritten
<1> QED BY <1>3, <1>4

\* The row as it was read, its status and the directory's mark.
LEMMA ProfileKeeps == ASSUME DirIInv, NEW j \in Jobs, Profile(j) PROVE DirKept
<1>0. JobTyping /\ StoreTyping /\ AccountTyping
  BY DEF DirIInv
<1>1. PICK u \in Users, y \in Account, st \in {"active", "disabled"} : u = job[j].id /\ y = account[u] /\ st = job[j].row.status
  <2>1. job[j] \in Job /\ job[j].id \in Users
    BY <1>0 DEF JobTyping, Profile, AboutOne
  <2>2. account[job[j].id] \in Account
    BY <1>0, <2>1 DEF AccountTyping
  <2>3. job[j].row \in Row
    BY <2>1 DEF Job
  <2>4. job[j].row.status \in {"active", "disabled"}
    BY <2>3 DEF Row
  <2> QED BY <2>1, <2>2, <2>4
<1>2. StoreTyping' /\ wsess' \in [WSess -> SessionRec] /\ ulive' \in SUBSET Users /\ UNCHANGED <<token, ureq, decided>>
  BY <1>0 DEF Profile, Rest, StoreTyping, AccountTyping
<1>3. JobTyping'
  <2>1. Goto(j, "state") \/ Goto(j, "groups") \/ Through(j)
    BY DEF Profile
  <2> QED BY <1>0, <1>1, <2>1, GotoKeeps, ThroughKeeps DEF AboutOne
<1>4. CASE account' = account
  BY <1>2, <1>3, <1>4, AccountsAlone
<1>5. CASE account' # account
  <2> DEFINE gone == y.removed /\ y.status = st
             x == [y EXCEPT !.status = st, !.removed = gone]
  <2>1. account' = [account EXCEPT ![u].status = st, ![u].removed = gone]
    BY <1>1, <1>5 DEF Profile
  <2>2. gone \in BOOLEAN
    BY DEF Account
  <2> HIDE DEF gone
  <2>3. account' = [account EXCEPT ![u] = x]
    BY <1>0, <1>1, <2>1 DEF AccountTyping
  <2>4. x \in Account /\ x.status = st /\ x.idp = y.idp /\ x.subject = y.subject
    BY <2>2 DEF Account
  <2> HIDE DEF x
  <2>5. LinkStep(y, x) /\ x.status # "free"
    BY <2>4 DEF LinkStep
  <2> QED BY <1>1, <1>2, <1>3, <2>3, <2>4, <2>5, AccountWritten
<1> QED BY <1>4, <1>5

\* One the directory disabled is enabled; a sync's row in hand follows.
LEMMA ReturnKeeps == ASSUME DirIInv, NEW j \in Jobs, Return(j) PROVE DirKept
<1>0. JobTyping /\ StoreTyping /\ AccountTyping
  BY DEF DirIInv
<1>1. PICK u \in Users, y \in Account, z \in Job, r \in Row : u = job[j].id /\ y = account[u] /\ z = job[j] /\ r = z.row
  <2>1. job[j] \in Job /\ job[j].id \in Users
    BY <1>0 DEF JobTyping, Return, AboutOne
  <2>2. account[job[j].id] \in Account
    BY <1>0, <2>1 DEF AccountTyping
  <2>3. job[j].row \in Row
    BY <2>1 DEF Job
  <2> QED BY <2>1, <2>2, <2>3
<1>2. StoreTyping' /\ wsess' \in [WSess -> SessionRec] /\ ulive' \in SUBSET Users /\ UNCHANGED <<token, ureq, decided>>
  BY <1>0 DEF Return, Rest, StoreTyping, AccountTyping
<1>3. PICK pc \in {"profile", "people"} : pc = IF job[j].kind = "sync" /\ r.drift THEN "profile" ELSE "people"
  OBVIOUS
<1>4. JobTyping'
  <2>1. CASE Goto(j, pc) \/ JobEnds(j)
    BY <1>0, <1>1, <1>3, <2>1, GotoKeeps, JobEndsKeeps DEF AboutOne
  <2>2. CASE job' = [job EXCEPT ![j].pc = pc, ![j].row.status = "active", ![j].row.removed = FALSE]
    <3> DEFINE q == [r EXCEPT !.status = "active", !.removed = FALSE]
               w == [z EXCEPT !.pc = pc, !.row = q]
    <3>1. q \in Row
      BY DEF Row
    <3>2. job' = [job EXCEPT ![j] = [z EXCEPT !.pc = pc, !.row.status = "active", !.row.removed = FALSE]]
      BY <1>0, <1>1, <2>2 DEF JobTyping
    <3>3. [z EXCEPT !.pc = pc, !.row.status = "active", !.row.removed = FALSE] = w
      BY <1>1 DEF Job, Row
    <3> HIDE DEF q
    <3>4. w \in Job /\ w.id = u
      BY <1>1, <3>1 DEF Job
    <3>5. job' = [job EXCEPT ![j] = w]
      BY <3>2, <3>3
    <3> HIDE DEF w
    <3> QED BY <1>0, <3>4, <3>5, JobSet
  <2> QED BY <1>1, <1>3, <2>1, <2>2 DEF Return
<1>5. CASE account' = account
  BY <1>2, <1>4, <1>5, AccountsAlone
<1>6. CASE account' # account
  <2> DEFINE x == [y EXCEPT !.status = "active", !.removed = FALSE]
  <2>1. account' = [account EXCEPT ![u].status = "active", ![u].removed = FALSE]
    BY <1>1, <1>6 DEF Return
  <2>3. account' = [account EXCEPT ![u] = x]
    BY <1>0, <1>1, <2>1 DEF AccountTyping
  <2>4. x \in Account /\ x.status = "active" /\ x.idp = y.idp /\ x.subject = y.subject
    BY DEF Account
  <2> HIDE DEF x
  <2>5. LinkStep(y, x) /\ x.status # "free"
    BY <2>4 DEF LinkStep
  <2> QED BY <1>1, <1>2, <1>4, <2>3, <2>4, <2>5, AccountWritten
<1> QED BY <1>5, <1>6

\* An account is made for a person, with the provider's link.
LEMMA CreateKeeps == ASSUME DirIInv, NEW j \in Jobs, NEW u \in Users, Create(j, u) PROVE DirKept
<1>0. JobTyping /\ StoreTyping /\ AccountTyping
  BY DEF DirIInv
<1>1. PICK z \in Job, p \in IdPs \cup {None}, s \in Subjects \cup {None}, n \in Names \cup {None} :
          z = job[j] /\ p = z.p /\ s = z.s /\ n = z.name
  BY <1>0 DEF JobTyping, Job
<1>2. wsess' \in [WSess -> SessionRec] /\ ulive' \in SUBSET Users /\ UNCHANGED <<token, ureq, decided>>
  BY <1>0 DEF Create, Rest, AccountTyping
<1>3. UNCHANGED <<provider, person, grp, gread, scimGone, member>>
  BY DEF Create, Rest
<1>4. CASE UNCHANGED <<account, uname>> /\ Through(j)
  <2>1. StoreTyping'
    BY <1>0, <1>3, <1>4 DEF StoreTyping
  <2> QED BY <1>0, <1>2, <1>4, <2>1, ThroughKeeps, AccountsAlone
<1>5. CASE ~(UNCHANGED <<account, uname>> /\ Through(j))
  <2>1. PICK pc \in {"people", "groups", "state"} :
            pc = CASE job[j].kind = "sync" -> "people" [] job[j].kind = "login" -> "groups" [] OTHER -> "state"
    OBVIOUS
  <2>0. PICK r \in Row : r = NoRow
    BY IdleJob
  <2> DEFINE x == [NoAccount EXCEPT !.status = "active", !.idp = p, !.subject = s]
             w == [z EXCEPT !.pc = pc, !.id = u, !.row = r]
  <2>2. /\ account[u].status = "free" /\ account' = [account EXCEPT ![u] = x] /\ uname' = [uname EXCEPT ![u] = n]
        /\ job' = [job EXCEPT ![j].pc = pc, ![j].id = u, ![j].row = r]
    BY <1>1, <1>5, <2>0, <2>1 DEF Create, Provisioned, Exists
  <2>3. x \in Account /\ x.status = "active"
    BY NoneTyped DEF Account
  <2>4. job' = [job EXCEPT ![j] = w]
    BY <1>0, <1>1, <2>2 DEF JobTyping
  <2>5. w \in Job /\ w.id = u
    BY DEF Job
  <2> HIDE DEF x, w
  <2>6. StoreTyping'
    BY <1>0, <1>3, <2>2 DEF StoreTyping
  <2>7. account[u].pw = None
    BY <2>2 DEF DirIInv, PasswordsGone
  <2>8. LinkStep(account[u], x)
    BY <2>2, <2>7 DEF LinkStep
  <2>9. JobTyping'
    BY <1>0, <2>4, <2>5, JobSet
  <2> QED BY <1>2, <2>2, <2>3, <2>6, <2>8, <2>9, AccountWritten
<1> QED BY <1>4, <1>5

\* An account that nobody vouches for and that has no password is the provider's.
LEMMA ProvisionKeeps == ASSUME DirIInv, NEW j \in Jobs, Provision(j) PROVE DirKept
<1>0. JobTyping /\ StoreTyping /\ AccountTyping
  BY DEF DirIInv
<1>1. PICK u \in Users, y \in Account, p \in IdPs \cup {None} : u = job[j].id /\ y = account[u] /\ p = job[j].p
  <2>1. job[j] \in Job /\ job[j].id \in Users
    BY <1>0 DEF JobTyping, Provision, AboutOne
  <2>2. account[job[j].id] \in Account
    BY <1>0, <2>1 DEF AccountTyping
  <2>3. job[j].p \in IdPs \cup {None}
    BY <2>1 DEF Job
  <2> QED BY <2>1, <2>2, <2>3
<1>2. StoreTyping' /\ wsess' \in [WSess -> SessionRec] /\ ulive' \in SUBSET Users /\ UNCHANGED <<token, ureq, decided>>
  BY <1>0 DEF Provision, Rest, StoreTyping, AccountTyping
<1>3. CASE account' = account /\ JobEnds(j)
  BY <1>0, <1>2, <1>3, JobEndsKeeps, AccountsAlone
<1>4. CASE ~(account' = account /\ JobEnds(j))
  <2> DEFINE x == [y EXCEPT !.idp = p]
  <2>1. /\ y.status # "free" /\ y.idp = None /\ y.pw = None /\ account' = [account EXCEPT ![u].idp = p]
        /\ Goto(j, "profile") \/ Goto(j, "state")
    BY <1>1, <1>4 DEF Provision, Exists
  <2>2. account' = [account EXCEPT ![u] = x]
    BY <1>0, <1>1, <2>1 DEF AccountTyping
  <2>3. x \in Account /\ x.status = y.status /\ x.pw = None
    BY <2>1 DEF Account
  <2> HIDE DEF x
  <2>4. LinkStep(y, x)
    BY <2>1 DEF LinkStep
  <2>5. JobTyping'
    BY <1>0, <1>1, <2>1, GotoKeeps DEF AboutOne
  <2> QED BY <1>1, <1>2, <2>2, <2>3, <2>4, <2>5, AccountWritten
<1> QED BY <1>3, <1>4

\* An account is disabled and its sessions end.
LEMMA DisableKeeps == ASSUME DirIInv, NEW j \in Jobs, Disable(j) PROVE DirKept
<1>0. JobTyping /\ StoreTyping /\ AccountTyping
  BY DEF DirIInv
<1>1. PICK u \in Users, y \in Account : u = job[j].id /\ y = account[u]
  BY <1>0 DEF JobTyping, AccountTyping, Disable, AboutOne
<1>2. StoreTyping' /\ UNCHANGED <<token, ureq, decided>>
  BY <1>0 DEF Disable, Rest, StoreTyping
<1>3. JobTyping'
  <2>1. JobEnds(j) \/ Goto(j, "gone") \/ Goto(j, "hide")
    BY DEF Disable
  <2> QED BY <1>0, <1>1, <2>1, GotoKeeps, JobEndsKeeps DEF AboutOne
<1>4. CASE UNCHANGED <<account, wsess, ulive>>
  BY <1>0, <1>2, <1>3, <1>4, AccountsAlone DEF AccountTyping
<1>5. CASE ~UNCHANGED <<account, wsess, ulive>>
  <2> DEFINE x == [y EXCEPT !.status = "disabled", !.removed = TRUE]
  <2>1. account' = [account EXCEPT ![u].status = "disabled", ![u].removed = TRUE] /\ RevokeAllForUser(u) /\ endLive(u)
    BY <1>1, <1>5 DEF Disable
  <2>2. account' = [account EXCEPT ![u] = x]
    BY <1>0, <1>1, <2>1 DEF AccountTyping
  <2>3. x \in Account /\ x.status = "disabled" /\ x.idp = y.idp /\ x.subject = y.subject
    BY DEF Account
  <2>4. wsess' \in [WSess -> SessionRec] /\ ulive' \in SUBSET Users
    BY <1>0, <2>1, RevokeTyped DEF endLive, AccountTyping
  <2> HIDE DEF x
  <2>5. LinkStep(y, x) /\ x.status # "free"
    BY <2>3 DEF LinkStep
  <2> QED BY <1>1, <1>2, <1>3, <2>2, <2>3, <2>4, <2>5, AccountWritten
<1> QED BY <1>4, <1>5

\* Jobs that go on or end without touching an account.
LEMMA JobGoesOn ==
    ASSUME DirIInv, NEW j \in Jobs, LeaveCheck(j) \/ SyncLeave(j) \/ ScimState(j) \/ Rehire(j) \/ Hide(j) \/ Rename(j)
    PROVE  DirKept
<1>0. JobTyping /\ StoreTyping /\ AccountTyping
  BY DEF DirIInv
<1>1. CASE LeaveCheck(j)
  <2>1. job[j].id \in Users
    BY <1>0, <1>1 DEF JobTyping, LeaveCheck, AboutOne
  <2>2. JobEnds(j) \/ Goto(j, "gone") \/ Goto(j, "hide") \/ Goto(j, "disable")
    BY <1>1 DEF LeaveCheck
  <2>3. JobTyping'
    BY <1>0, <2>1, <2>2, GotoKeeps, JobEndsKeeps DEF AboutOne
  <2> QED BY <1>1, <2>3, ReaderKeeps DEF LeaveCheck
<1>2. CASE SyncLeave(j)
  <2>1. JobTyping'
    BY <1>0, <1>2, GotoKeeps, JobEndsKeeps DEF SyncLeave
  <2> QED BY <1>2, <2>1, ReaderKeeps DEF SyncLeave
<1>3. CASE ScimState(j)
  <2>1. job[j].id \in Users
    BY <1>0, <1>3 DEF JobTyping, ScimState, AboutOne
  <2>2. JobEnds(j) \/ Goto(j, "return") \/ Goto(j, "leave")
    BY <1>3 DEF ScimState
  <2>3. JobTyping'
    BY <1>0, <2>1, <2>2, GotoKeeps, JobEndsKeeps DEF AboutOne
  <2> QED BY <1>3, <2>3, ReaderKeeps DEF ScimState
<1>4. CASE Rehire(j) \/ Hide(j)
  <2>1. job[j].id \in Users
    BY <1>0, <1>4 DEF JobTyping, Rehire, Hide, AboutOne
  <2>2. JobEnds(j) \/ Goto(j, "profile") \/ Goto(j, "state")
    BY <1>4 DEF Rehire, Hide
  <2>3. JobTyping'
    BY <1>0, <2>1, <2>2, GotoKeeps, JobEndsKeeps DEF AboutOne
  <2>4. UNCHANGED <<account, uname, wsess, ulive, provider, person, ureq, decided, token, grp, gread, member>>
    BY <1>4 DEF Rehire, Hide, Accts, Rest
  <2>5. scimGone' \subseteq Users
    BY <1>0, <1>4, <2>1 DEF Rehire, Hide, StoreTyping
  <2>6. StoreTyping'
    BY <1>0, <2>4, <2>5 DEF StoreTyping
  <2> QED BY <1>0, <2>3, <2>4, <2>6, AccountsAlone DEF AccountTyping
<1>5. CASE Rename(j)
  <2>1. PICK u \in Users, n \in Names \cup {None} : u = job[j].id /\ n = job[j].name
    BY <1>0, <1>5 DEF JobTyping, Rename, AboutOne, Job
  <2>2. JobEnds(j) \/ Goto(j, "profile") \/ Goto(j, "state")
    BY <1>5 DEF Rename
  <2>3. JobTyping'
    BY <1>0, <2>1, <2>2, GotoKeeps, JobEndsKeeps DEF AboutOne
  <2>4. UNCHANGED <<account, wsess, ulive, provider, person, ureq, decided, token, grp, gread, member, scimGone>>
    BY <1>5 DEF Rename, Rest
  <2>5. uname' = uname \/ uname' = [uname EXCEPT ![u] = n]
    BY <1>5, <2>1 DEF Rename
  <2>6. StoreTyping'
    BY <1>0, <2>4, <2>5 DEF StoreTyping
  <2> QED BY <1>0, <2>3, <2>4, <2>6, AccountsAlone DEF AccountTyping
<1> QED BY <1>1, <1>2, <1>3, <1>4, <1>5

\* A sign-in ends with its groups and its session.
LEMMA LoginEndsKeeps ==
    ASSUME DirIInv, NEW j \in Jobs, NEW gs \in SUBSET Mapped, NEW ws \in WSess, LoginEnds(j, gs, ws)
    PROVE  DirKept
<1>0. JobTyping /\ StoreTyping /\ AccountTyping
  BY DEF DirIInv
<1>1. PICK u \in Users : u = job[j].id
  BY <1>0 DEF JobTyping, LoginEnds, AboutOne
<1>2. JobTyping'
  BY <1>0, JobEndsKeeps DEF LoginEnds
<1>3. UNCHANGED <<account, provider, person, ureq, decided, token, grp, gread, uname, scimGone>>
  BY DEF LoginEnds, Rest
<1>4. CASE UNCHANGED <<member, ulive, wsess>>
  <2>1. StoreTyping'
    BY <1>0, <1>3, <1>4 DEF StoreTyping
  <2> QED BY <1>0, <1>2, <1>3, <1>4, <2>1, AccountsAlone DEF AccountTyping
<1>5. CASE ~UNCHANGED <<member, ulive, wsess>>
  <2> DEFINE x == [state |-> "full", user |-> u, proved |-> TRUE]
  <2>1. syncGroups(u, gs) /\ wsess' = [wsess EXCEPT ![ws] = x]
    BY <1>1, <1>5 DEF LoginEnds
  <2>2. x \in SessionRec
    BY DEF SessionRec
  <2> HIDE DEF x
  <2>3. wsess' \in [WSess -> SessionRec]
    BY <1>0, <2>1, <2>2 DEF AccountTyping
  <2>4. ulive' \in SUBSET Users
    BY <1>0, <2>1 DEF syncGroups, Recheck, AccountTyping
  <2>5. member' \subseteq Groups \X Users
    BY <1>0, <2>1 DEF syncGroups, StoreTyping
  <2>6. StoreTyping'
    BY <1>0, <1>3, <2>5 DEF StoreTyping
  <2> QED BY <1>2, <1>3, <2>3, <2>4, <2>6, AccountsAlone
<1> QED BY <1>4, <1>5

\* The people, the providers and their tokens.
LEMMA ProvidersKeep ==
    ASSUME DirIInv, NEW p \in IdPs,
           \/ \E s \in Subjects, n \in Names \cup {None} : PersonChanges(p, s, n)
           \/ \E state \in {"on", "off"}, provision \in BOOLEAN : ProviderUpdate(p, state, provision)
           \/ \E on \in BOOLEAN : ScimToken(p, on)
           \/ ProviderDelete(p)
    PROVE  DirKept
<1>0. JobTyping /\ StoreTyping /\ AccountTyping
  BY DEF DirIInv
<1>1. PICK y \in ProviderRec, who \in [Subjects -> Names \cup {None}] : y = provider[p] /\ who = person[p]
  BY <1>0 DEF StoreTyping
<1>2. ASSUME NEW x \in ProviderRec, provider' = [provider EXCEPT ![p] = x], Others,
             UNCHANGED <<ulive, uname, scimGone, person, member, grp, gread>>
      PROVE  StoreTyping' /\ JobTyping' /\ wsess' \in [WSess -> SessionRec] /\ ulive' \in SUBSET Users /\ UNCHANGED <<token, ureq, decided>>
  <2>1. StoreTyping'
    BY <1>0, <1>2 DEF StoreTyping
  <2>2. JobTyping'
    BY <1>0, <1>2 DEF JobTyping, Others
  <2> QED BY <1>0, <1>2, <2>1, <2>2 DEF Others, AccountTyping
<1>3. ASSUME NEW s \in Subjects, NEW n \in Names \cup {None}, PersonChanges(p, s, n) PROVE DirKept
  <2> DEFINE x == [who EXCEPT ![s] = n]
  <2>1. person' = [person EXCEPT ![p] = x]
    BY <1>0, <1>1, <1>3 DEF PersonChanges, StoreTyping
  <2>2. x \in [Subjects -> Names \cup {None}]
    OBVIOUS
  <2> HIDE DEF x
  <2>3. person' \in [IdPs -> [Subjects -> Names \cup {None}]]
    BY <1>0, <2>1, <2>2 DEF StoreTyping
  <2>4. UNCHANGED <<account, ulive, provider, uname, scimGone, member, grp, gread, wsess, token, ureq, decided, job>>
    BY <1>3 DEF PersonChanges, Others
  <2>5. StoreTyping' /\ JobTyping'
    BY <1>0, <2>3, <2>4 DEF StoreTyping, JobTyping
  <2> QED BY <1>0, <2>4, <2>5, AccountsAlone DEF AccountTyping
<1>4. ASSUME NEW st \in {"on", "off"}, NEW pr \in BOOLEAN, ProviderUpdate(p, st, pr) PROVE DirKept
  <2> DEFINE x == [y EXCEPT !.state = st, !.provision = pr]
  <2>1. provider' = [provider EXCEPT ![p] = x] /\ account' = account
    BY <1>0, <1>1, <1>4 DEF ProviderUpdate, StoreTyping
  <2>2. x \in ProviderRec
    BY DEF ProviderRec
  <2> HIDE DEF x
  <2>3. Others /\ UNCHANGED <<ulive, uname, scimGone, person, member, grp, gread>>
    BY <1>4 DEF ProviderUpdate
  <2> QED BY <1>2, <2>1, <2>2, <2>3, AccountsAlone
<1>5. ASSUME NEW on \in BOOLEAN, ScimToken(p, on) PROVE DirKept
  <2> DEFINE x == [y EXCEPT !.token = on]
  <2>1. provider' = [provider EXCEPT ![p] = x] /\ account' = account
    BY <1>0, <1>1, <1>5 DEF ScimToken, StoreTyping
  <2>2. x \in ProviderRec
    BY DEF ProviderRec
  <2> HIDE DEF x
  <2>3. Others /\ UNCHANGED <<ulive, uname, scimGone, person, member, grp, gread>>
    BY <1>5 DEF ScimToken
  <2> QED BY <1>2, <2>1, <2>2, <2>3, AccountsAlone
<1>6. CASE ProviderDelete(p)
  <2> DEFINE x == [y EXCEPT !.state = "none", !.token = FALSE]
  <2>1. provider' = [provider EXCEPT ![p] = x]
    BY <1>0, <1>1, <1>6 DEF ProviderDelete, StoreTyping
  <2>2. x \in ProviderRec
    BY DEF ProviderRec
  <2> HIDE DEF x
  <2>3. Others /\ UNCHANGED <<ulive, uname, scimGone, person, member, grp, gread>>
    BY <1>6 DEF ProviderDelete
  <2>4. StoreTyping' /\ JobTyping' /\ wsess' \in [WSess -> SessionRec] /\ ulive' \in SUBSET Users /\ UNCHANGED <<token, ureq, decided>>
    BY <1>2, <2>1, <2>2, <2>3
  <2>5. account' = [u \in Users |-> IF account[u].idp = p THEN [account[u] EXCEPT !.idp = None] ELSE account[u]]
    BY <1>6 DEF ProviderDelete
  <2>6. ASSUME NEW u \in Users
        PROVE  /\ account'[u] \in Account /\ account'[u].status = account[u].status /\ account'[u].pw = account[u].pw
               /\ account'[u] = account[u] \/ account'[u].idp = None
    <3>1. PICK a \in Account : a = account[u]
      BY <1>0 DEF AccountTyping
    <3>2. account'[u] = IF a.idp = p THEN [a EXCEPT !.idp = None] ELSE a
      BY <2>5, <3>1
    <3>3. [a EXCEPT !.idp = None] \in Account /\ [a EXCEPT !.idp = None].idp = None
          /\ [a EXCEPT !.idp = None].status = a.status /\ [a EXCEPT !.idp = None].pw = a.pw
      BY DEF Account
    <3> QED BY <3>1, <3>2, <3>3
  <2>7. \A u \in Users : LinkStep(account[u], account'[u])
    BY <2>6 DEF LinkStep
  <2>8. account' \in [Users -> Account]
    BY <2>5, <2>6
  <2>9. PasswordsGone'
    BY <2>6 DEF DirIInv, PasswordsGone
  <2>10. AccountTyping'
    BY <1>0, <2>4, <2>8 DEF AccountTyping
  <2> QED BY <2>4, <2>7, <2>9, <2>10 DEF DirKept, DirIInv
<1> QED BY <1>3, <1>4, <1>5, <1>6

\* Accounts an administrator makes and passwords he gives.
LEMMA LocalKeeps == ASSUME DirIInv, LocalNext PROVE DirKept
<1>0. JobTyping /\ StoreTyping /\ AccountTyping
  BY DEF DirIInv
<1>1. ASSUME NEW u \in Users, NEW pw \in Passwords \cup {None}, NEW n \in Names, Precreate(u, n, pw) PROVE DirKept
  <2> DEFINE x == [NoAccount EXCEPT !.status = "active", !.pw = pw]
  <2>1. account' = [account EXCEPT ![u] = x] /\ uname' = [uname EXCEPT ![u] = n] /\ account[u].status = "free"
    BY <1>1 DEF Precreate, Exists
  <2>2. x \in Account /\ x.status = "active" /\ x.idp = None
    BY NoneTyped DEF Account
  <2> HIDE DEF x
  <2>3. UNCHANGED <<ulive, provider, scimGone, person, member, grp, gread, wsess, token, ureq, decided, job>>
    BY <1>1 DEF Precreate, Others
  <2>4. StoreTyping' /\ JobTyping'
    BY <1>0, <2>1, <2>3 DEF StoreTyping, JobTyping
  <2>5. LinkStep(account[u], x)
    BY <2>1, <2>2 DEF LinkStep
  <2> QED BY <1>0, <2>1, <2>2, <2>3, <2>4, <2>5, AccountWritten DEF AccountTyping
<1>2. ASSUME NEW u \in Users, NEW pw \in Passwords, GivePassword(u, pw) PROVE DirKept
  <2>0. PICK y \in Account : y = account[u]
    BY <1>0 DEF AccountTyping
  <2> DEFINE x == [y EXCEPT !.pw = pw]
  <2>1. account' = [account EXCEPT ![u] = x] /\ y.status # "free" /\ y.idp = None
    BY <1>0, <1>2, <2>0 DEF GivePassword, Exists, AccountTyping
  <2>2. x \in Account /\ x.status = y.status /\ x.idp = None
    BY <2>1 DEF Account
  <2> HIDE DEF x
  <2>3. UNCHANGED <<ulive, uname, provider, scimGone, person, member, grp, gread, wsess, token, ureq, decided, job>>
    BY <1>2 DEF GivePassword, Others
  <2>4. StoreTyping' /\ JobTyping'
    BY <1>0, <2>3 DEF StoreTyping, JobTyping
  <2>5. LinkStep(account[u], x)
    BY <2>0, <2>1, <2>2 DEF LinkStep
  <2> QED BY <1>0, <2>1, <2>2, <2>3, <2>4, <2>5, AccountWritten DEF AccountTyping
<1> QED BY <1>1, <1>2 DEF LocalNext

\* Groups, and the sessions they grant.
LEMMA GroupsKeep == ASSUME DirIInv, GroupNext PROVE DirKept
<1>0. JobTyping /\ StoreTyping /\ AccountTyping
  BY DEF DirIInv
<1>1. UNCHANGED <<account, uname, provider, scimGone, person, wsess, token, ureq, decided, job>>
  BY DEF GroupNext, GroupCreate, SetMembers, GroupDeleteRead, GroupDelete, OpenLive, Others
<1>2. /\ grp' \subseteq Groups /\ member' \subseteq Groups \X Users /\ gread' \in [Groups -> {None} \cup SUBSET Users]
      /\ ulive' \in SUBSET Users
  <2>0. /\ grp \subseteq Groups /\ member \subseteq Groups \X Users /\ gread \in [Groups -> {None} \cup SUBSET Users]
        /\ ulive \in SUBSET Users
    BY <1>0 DEF StoreTyping, AccountTyping
  <2>1. ASSUME NEW g \in Groups, NEW us \in SUBSET Users, GroupCreate(g, us) PROVE <1>2!:
    BY <2>0, <2>1 DEF GroupCreate
  <2>2. ASSUME NEW g \in Groups, NEW us \in SUBSET Users, SetMembers(g, us) PROVE <1>2!:
    <3>1. /\ member' = {m \in member : m[1] # g} \cup {<<g, u>> : u \in us}
          /\ UNCHANGED <<grp, gread>>
      BY <2>2 DEF SetMembers
    <3>2. {m \in member : m[1] # g} \subseteq Groups \X Users
      BY <2>0
    <3>3. {<<g, u>> : u \in us} \subseteq Groups \X Users
      BY <2>2
    <3>4. member' \subseteq Groups \X Users
      BY <3>1, <3>2, <3>3
    <3>5. ulive' \subseteq ulive
      BY <2>2 DEF SetMembers, Recheck
    <3> QED BY <2>0, <3>1, <3>4, <3>5
  <2>3. ASSUME NEW g \in Groups, GroupDeleteRead(g) PROVE <1>2!:
    <3>1. PICK us \in {None} \cup SUBSET Users : us = {u \in Users : <<g, u>> \in member}
      OBVIOUS
    <3>2. gread' = [gread EXCEPT ![g] = us] /\ UNCHANGED <<grp, member, ulive>>
      BY <2>3, <3>1 DEF GroupDeleteRead
    <3> QED BY <2>0, <3>2
  <2>4. ASSUME NEW g \in Groups, GroupDelete(g) PROVE <1>2!:
    <3>1. gread' = [gread EXCEPT ![g] = None] /\ grp' \subseteq grp /\ member' \subseteq member /\ ulive' \subseteq ulive
      BY <2>4 DEF GroupDelete, Recheck
    <3> QED BY <2>0, <3>1
  <2>5. ASSUME NEW u \in Users, OpenLive(u) PROVE <1>2!:
    BY <2>0, <2>5 DEF OpenLive
  <2> QED BY <2>1, <2>2, <2>3, <2>4, <2>5 DEF GroupNext
<1>3. StoreTyping' /\ JobTyping'
  BY <1>0, <1>1, <1>2 DEF StoreTyping, JobTyping
<1> QED BY <1>0, <1>1, <1>2, <1>3, AccountsAlone DEF AccountTyping

\* Every step keeps the invariant and the links.
LEMMA DirStepKeeps == DirIInv /\ [DirNext]_<<acctVars, dirVars>> => DirKept
<1> SUFFICES ASSUME DirIInv, [DirNext]_<<acctVars, dirVars>> PROVE DirKept
  OBVIOUS
<1>0. JobTyping /\ StoreTyping /\ AccountTyping /\ PasswordsGone
  BY DEF DirIInv
<1>1. CASE ResolveNext
  <2>1. ASSUME NEW j \in Jobs, \E p \in IdPs, s \in Subjects : Callback(j, p, s) \/ LdapLogin(j, p, s) PROVE DirKept
    BY <2>1, JobBegins, ReaderKeeps DEF Callback, LdapLogin, Resolving
  <2>2. ASSUME NEW j \in Jobs, \E drift \in BOOLEAN : Find(j, drift) \/ Adopt(j, drift) PROVE DirKept
    BY <2>2, JobReads, ReaderKeeps DEF Find, Adopt
  <2> QED BY <1>1, <2>1, <2>2, LinkKeeps, ProfileKeeps, ReturnKeeps, JobGoesOn, DisableKeeps, CreateKeeps, LoginEndsKeeps DEF ResolveNext
<1>2. CASE SyncNext
  <2>1. ASSUME NEW j \in Jobs, \E p \in IdPs : SyncTick(j, p) \/ SyncNow(j, p) PROVE DirKept
    BY <2>1, JobBegins, ReaderKeeps DEF SyncTick, SyncNow, SyncRun
  <2>2. ASSUME NEW j \in Jobs, \E us \in SUBSET Users : SyncRows(j, us) PROVE DirKept
    BY <2>2, JobReads, ReaderKeeps DEF SyncRows
  <2>3. ASSUME NEW j \in Jobs, \E t \in job[j].todo : SyncPerson(j, t) PROVE DirKept
    BY <2>3, JobReads, ReaderKeeps DEF SyncPerson
  <2>4. ASSUME NEW j \in Jobs, \E u \in Users : SyncGone(j, u) PROVE DirKept
    BY <2>4, JobReads, ReaderKeeps DEF SyncGone
  <2> QED BY <1>2, <2>1, <2>2, <2>3, <2>4, JobGoesOn DEF SyncNext
<1>3. CASE ScimNext
  <2>1. ASSUME NEW j \in Jobs, NEW p \in IdPs, \E n \in Names, want \in Desired : PostUser(j, p, n, want) PROVE DirKept
    BY <2>1, JobBegins, ReaderKeeps DEF PostUser
  <2>2. ASSUME NEW j \in Jobs, NEW p \in IdPs,
               \E u \in Users, n \in Names, kind \in {"put", "del"}, drift \in BOOLEAN :
                  \E want \in Patched(kind) : ScimFind(j, p, u, kind, n, want, drift)
        PROVE  DirKept
    BY <2>2, JobBegins, ReaderKeeps DEF ScimFind
  <2>3. ASSUME NEW j \in Jobs, \E drift \in BOOLEAN : PostFound(j, drift) PROVE DirKept
    BY <2>3, JobReads, ReaderKeeps DEF PostFound
  <2> QED BY <1>3, <2>1, <2>2, <2>3, ProvidersKeep, ProvisionKeeps, JobGoesOn DEF ScimNext
<1>4. CASE PersonNext \/ ProviderNext
  BY <1>4, ProvidersKeep DEF PersonNext, ProviderNext
<1>5. CASE LocalNext \/ GroupNext
  BY <1>5, LocalKeeps, GroupsKeep
<1>6. CASE AccountNext /\ UNCHANGED dirVars
  <2>1. AccountsKept
    BY <1>0, <1>6, AccountNextKeeps
  <2>2. JobTyping' /\ StoreTyping'
    BY <1>0, <1>6 DEF JobTyping, StoreTyping, dirVars
  <2>3. \A u \in Users : LinkStep(account[u], account'[u])
    BY <2>1 DEF AccountsKept, SameLink, LinkStep
  <2> QED BY <1>0, <2>1, <2>2, <2>3 DEF DirKept, DirIInv, AccountsKept
<1>7. CASE UNCHANGED <<acctVars, dirVars>>
  <2>1. JobTyping' /\ StoreTyping'
    BY <1>0, <1>7 DEF JobTyping, StoreTyping, dirVars
  <2> QED BY <1>0, <1>7, <2>1, AccountsAlone DEF acctVars, AccountTyping
<1> QED BY <1>1, <1>2, <1>3, <1>4, <1>5, <1>6, <1>7 DEF DirNext

\* Before anyone signed in.
LEMMA DirStart == AccountInit /\ DirInit => DirIInv
<1> SUFFICES ASSUME AccountInit, DirInit PROVE DirIInv
  OBVIOUS
<1>1. AccountTyping
  BY AccountStart DEF AccountIInv
<1>2. PasswordsGone
  BY NoneTyped DEF AccountInit, PasswordsGone
<1>3. job = [j \in Jobs |-> JIdle]
  BY DEF DirInit
<1>4. JobTyping
  BY <1>3, IdleJob DEF JobTyping, AboutOne
<1>5. [state |-> "on", provision |-> TRUE, token |-> TRUE] \in ProviderRec
  BY DEF ProviderRec
<1>6. StoreTyping
  BY <1>5 DEF DirInit, StoreTyping
<1> QED BY <1>1, <1>2, <1>4, <1>6 DEF DirIInv

\* The invariant of the directories holds throughout.
LEMMA DirInductive == DirSpec => []DirIInv
<1>1. DirIInv /\ [DirNext]_<<acctVars, dirVars>> => DirIInv'
  BY DirStepKeeps DEF DirKept
<1> QED BY <1>1, DirStart, PTL DEF DirSpec

\* A sign-in, a sync, a push and the administrators may interleave as they will: an account
\* linked to a person stays that person's and one with a password is never linked
\* (Provisioner.Resolve, user/repo.go LinkExternal), for any number of accounts, providers,
\* people and jobs.
THEOREM LinksStay == DirSpec => LinkKept
<1>1. DirIInv /\ [DirNext]_<<acctVars, dirVars>> =>
        [\A u \in Users :
          /\ (account[u].idp # None /\ account[u].subject # None /\ Exists(u) /\ account'[u].idp # None)
             => account'[u].idp = account[u].idp /\ account'[u].subject = account[u].subject
          /\ (account[u].pw # None /\ account[u].idp = None) => account'[u].idp = None]_<<account, job>>
  BY DirStepKeeps DEF DirKept, LinkStep, Exists
<1> QED BY <1>1, DirInductive, PTL DEF DirSpec, LinkKept

\* A listing of a realm that changes while it is paged is whole or an error (keycloak.go
\* Users), and the jobs and tables of the directories keep their types, for any realm, any
\* page size and any number of changes.
THEOREM ListingStaysSound == DirSpec /\ ListSpec => []ListingSound
<1>1. DirIInv /\ ListIInv => ListingSound
  <2> SUFFICES ASSUME DirIInv, ListIInv PROVE ListingSound
    OBVIOUS
  <2>1. DirTypeOK
    BY DEF DirIInv, JobTyping, StoreTyping, DirTypeOK, ProviderRec
  <2>2. ListTypeOK /\ ListingWhole
    BY DEF ListIInv, ListTyping, ListTypeOK, ListingRec
  <2> QED BY <2>1, <2>2 DEF ListingSound
<1> QED BY <1>1, DirInductive, ListInductive, PTL

=============================================================================
