------------------------------ MODULE Accounts ------------------------------
(***************************************************************************)
(* User accounts as administrators, identity providers and API tokens see  *)
(* them: src/internal/user/{user.go,repo.go,adminapi/handlers.go},         *)
(* src/internal/idp/lifecycle.go, src/internal/apitoken.                   *)
(*                                                                         *)
(* A handler reads the row, decides, and writes in statements of its own;  *)
(* any other handler may run in between.  "locked" by an administrator is  *)
(* the same as "disabled" here.  Names, mail addresses, the user and       *)
(* auditor roles and the audit events are left out.                        *)
(***************************************************************************)
EXTENDS Integers, FiniteSets

CONSTANTS
    Users, None,
    Passwords,    \* what a password can be
    IdPs,         \* identity providers
    Holding,      \* those with sync or SCIM on, so that they decide who is active
    Subjects,     \* a provider's own ids for people
    WSess,        \* browser sessions
    Tokens, MaxActive,
    Requests      \* handlers in flight

ASSUME AccountAssumption ==
    /\ MaxActive \in Nat /\ Holding \subseteq IdPs
    /\ None \notin Users \cup Passwords \cup IdPs \cup Subjects \cup WSess \cup Tokens

VARIABLES
    account,   \* users, with user_roles
    wsess,     \* auth_sessions
    ulive,     \* accounts with a live session on a target
    token,     \* api_tokens
    ureq,      \* per request: where it is, and what it read
    decided    \* the status an administrator gave the account last

acctVars == <<account, wsess, ulive, token, ureq, decided>>

NoAccount == [status |-> "free", admin |-> FALSE, removed |-> FALSE, pw |-> None, weak |-> FALSE, owed |-> FALSE,
              fails |-> 0, locked |-> FALSE, idp |-> None, subject |-> None]
Account == [status : {"free", "active", "disabled"}, admin : BOOLEAN, removed : BOOLEAN,
            pw : Passwords \cup {None}, weak : BOOLEAN, owed : BOOLEAN, fails : Nat, locked : BOOLEAN,
            idp : IdPs \cup {None}, subject : Subjects \cup {None}]
NoWSess == [state |-> "free", user |-> None, proved |-> FALSE]
UIdle == [pc |-> "idle", id |-> None, by |-> None, status |-> "active", was |-> "active", admin |-> FALSE]

AccountTypeOK ==
    /\ account \in [Users -> Account]
    /\ wsess \in [WSess -> [state : {"free", "partial", "full", "revoked"}, user : Users \cup {None}, proved : BOOLEAN]]
    /\ ulive \in SUBSET Users
    /\ token \in [Tokens -> [state : {"free", "active", "revoked"}, user : Users \cup {None}]]
    /\ ureq \in [Requests -> [pc : {"idle", "update", "revoke", "roles", "delete", "gone", "token", "leave", "return"},
                              id : Users \cup {None}, by : Users \cup {None}, status : {"active", "disabled"},
                              was : {"active", "disabled"}, admin : BOOLEAN]]
    /\ decided \in [Users -> {"none", "active", "disabled"}]

AccountInit ==
    /\ account = [u \in Users |-> NoAccount]
    /\ wsess = [s \in WSess |-> NoWSess]
    /\ ulive = {}
    /\ token = [t \in Tokens |-> [state |-> "free", user |-> None]]
    /\ ureq = [q \in Requests |-> UIdle]
    /\ decided = [u \in Users |-> "none"]

Exists(u) == account[u].status # "free"
IsBlocked(r) == r.status # "active"
IsLocked(r) == IsBlocked(r) \/ r.locked
Administers(u) == account[u].status = "active" /\ account[u].admin
CountAdmins == Cardinality({u \in Users : Administers(u)})
\* The check of SetRoles and Delete.
LastAdmin(u) == account[u].admin /\ ~\E v \in Users \ {u} : Administers(v)

\* Sessions.RevokeAllForUser.
LiveSession(s) == wsess[s].state \in {"partial", "full"}
RevokeAllForUser(u) ==
    wsess' = [s \in WSess |-> IF LiveSession(s) /\ wsess[s].user = u THEN [wsess[s] EXCEPT !.state = "revoked"]
                              ELSE wsess[s]]
\* endLive, UserRevoked.
endLive(u) == ulive' = ulive \ {u}

Begins(q, rec) ==
    /\ ureq[q].pc = "idle"
    /\ ureq' = [ureq EXCEPT ![q] = rec]
Ends(q) == ureq' = [ureq EXCEPT ![q] = UIdle]

-----------------------------------------------------------------------------
(* AdminHandler: `by` is an active administrator when the request is       *)
(* admitted (Authenticate, RequireRole).                                   *)

\* create; `zanskar admin create` makes an administrator.
AccountCreate(u, admin, pw, owed) ==
    /\ ~Exists(u)
    /\ account' = [account EXCEPT ![u] = [NoAccount EXCEPT !.status = "active", !.admin = admin, !.pw = pw, !.owed = owed]]
    /\ UNCHANGED <<wsess, ulive, token, ureq, decided>>

\* update: oneself is never disabled; one the provider took away is the provider's.
UpdateRead(q, a, u, status) ==
    /\ Administers(a) /\ Exists(u)
    /\ status = "disabled" => a # u
    /\ status # account[u].status => ~(account[u].removed /\ account[u].idp \in Holding)
    /\ Begins(q, [UIdle EXCEPT !.pc = "update", !.id = u, !.by = a, !.status = status, !.was = account[u].status])
    /\ UNCHANGED <<account, wsess, ulive, token, decided>>

\* Repo.Update: a change of status takes the account over from the directory.
UpdateWrite(q) ==
    LET r == ureq[q]
        old == account[r.id]
    IN
    /\ r.pc = "update"
    /\ IF Exists(r.id)
       THEN /\ account' = [account EXCEPT ![r.id].status = r.status, ![r.id].removed = @ /\ old.status = r.status]
            /\ decided' = IF old.status = r.status THEN decided ELSE [decided EXCEPT ![r.id] = r.status]
            /\ ureq' = [ureq EXCEPT ![q].pc = "revoke"]
       ELSE UNCHANGED <<account, decided>> /\ Ends(q)
    /\ UNCHANGED <<wsess, ulive, token>>

\* The browser sessions when it was active, the live ones whenever it is not.
UpdateRevoke(q) ==
    LET r == ureq[q] IN
    /\ r.pc = "revoke"
    /\ Ends(q)
    /\ IF r.status # "active" /\ r.was = "active" THEN RevokeAllForUser(r.id) ELSE UNCHANGED wsess
    /\ IF r.status # "active" THEN endLive(r.id) ELSE UNCHANGED ulive
    /\ UNCHANGED <<account, token, decided>>

SetRolesRead(q, a, u, admin) ==
    /\ Administers(a) /\ Exists(u)
    /\ Begins(q, [UIdle EXCEPT !.pc = "roles", !.id = u, !.by = a, !.admin = admin,
                               !.was = IF account[u].admin = admin THEN "active" ELSE "disabled"])
    /\ UNCHANGED <<account, wsess, ulive, token, decided>>

\* SetRoles, one transaction; then endLive when the roles read before differ.
SetRoles(q) ==
    LET r == ureq[q] IN
    /\ r.pc = "roles"
    /\ Ends(q)
    /\ IF Exists(r.id) /\ (r.admin \/ ~LastAdmin(r.id))
       THEN /\ account' = [account EXCEPT ![r.id].admin = r.admin]
            /\ IF r.was = "disabled" THEN endLive(r.id) ELSE UNCHANGED ulive
       ELSE UNCHANGED <<account, ulive>>
    /\ UNCHANGED <<wsess, token, decided>>

\* del: the sessions end first; then Delete reads and counts ...
DeleteRead(q, a, u) ==
    /\ Administers(a) /\ Exists(u) /\ a # u
    /\ RevokeAllForUser(u)
    /\ endLive(u)
    /\ Begins(q, [UIdle EXCEPT !.pc = "delete", !.id = u, !.by = a])
    /\ UNCHANGED <<account, token, decided>>

DeleteCheck(q) ==
    /\ ureq[q].pc = "delete"
    /\ IF Exists(ureq[q].id) /\ ~LastAdmin(ureq[q].id) THEN ureq' = [ureq EXCEPT ![q].pc = "gone"] ELSE Ends(q)
    /\ UNCHANGED <<account, wsess, ulive, token, decided>>

\* ... and removes the row, its sessions and tokens with it (foreign keys).
DeleteRow(q) ==
    LET u == ureq[q].id IN
    /\ ureq[q].pc = "gone"
    /\ account' = [account EXCEPT ![u] = NoAccount]
    /\ wsess' = [s \in WSess |-> IF wsess[s].user = u THEN NoWSess ELSE wsess[s]]
    /\ token' = [t \in Tokens |-> IF token[t].user = u THEN [state |-> "free", user |-> None] ELSE token[t]]
    /\ decided' = [decided EXCEPT ![u] = "none"]
    /\ Ends(q)
    /\ UNCHANGED ulive

\* revokeSessions.
RevokeSessions(u) ==
    /\ Exists(u)
    /\ RevokeAllForUser(u)
    /\ endLive(u)
    /\ UNCHANGED <<account, token, ureq, decided>>

-----------------------------------------------------------------------------
(* API tokens.                                                             *)

\* Handler.create: the active tokens are counted ...
TokenRead(q, u) ==
    /\ Administers(u)
    /\ Cardinality({t \in Tokens : token[t].user = u /\ token[t].state = "active"}) < MaxActive
    /\ Begins(q, [UIdle EXCEPT !.pc = "token", !.id = u])
    /\ UNCHANGED <<account, wsess, ulive, token, decided>>

\* ... and one more is stored.
TokenCreate(q, t) ==
    /\ ureq[q].pc = "token" /\ token[t].state = "free"
    /\ token' = IF Exists(ureq[q].id) THEN [token EXCEPT ![t] = [state |-> "active", user |-> ureq[q].id]] ELSE token
    /\ Ends(q)
    /\ UNCHANGED <<account, wsess, ulive, decided>>

\* Revoke by an administrator, or the token's time is up.
TokenRevoke(t) ==
    /\ token[t].state = "active"
    /\ token' = [token EXCEPT ![t].state = "revoked"]
    /\ UNCHANGED <<account, wsess, ulive, ureq, decided>>

-----------------------------------------------------------------------------
(* Lifecycle: what a provider says of a person.                            *)

\* Leave: the row as the caller read it; never the last administrator.
LeaveRead(q, u) ==
    /\ account[u].status = "active" /\ account[u].idp # None
    /\ account[u].admin => CountAdmins > 1
    /\ Begins(q, [UIdle EXCEPT !.pc = "leave", !.id = u])
    /\ UNCHANGED <<account, wsess, ulive, token, decided>>

\* DisableRemoved: only while active; then the sessions.
Leave(q) ==
    LET u == ureq[q].id IN
    /\ ureq[q].pc = "leave"
    /\ Ends(q)
    /\ IF account[u].status = "active"
       THEN /\ account' = [account EXCEPT ![u].status = "disabled", ![u].removed = TRUE]
            /\ RevokeAllForUser(u)
            /\ endLive(u)
       ELSE UNCHANGED <<account, wsess, ulive>>
    /\ UNCHANGED <<token, decided>>

ReturnRead(q, u) ==
    /\ account[u].status = "disabled" /\ account[u].removed
    /\ Begins(q, [UIdle EXCEPT !.pc = "return", !.id = u])
    /\ UNCHANGED <<account, wsess, ulive, token, decided>>

EnableReturnedMut(q) ==     \* mutant: the mark is trusted from the read, not asked for in the UPDATE
    LET u == ureq[q].id IN
    /\ ureq[q].pc = "return"
    /\ Ends(q)
    /\ account' = IF account[u].status = "disabled"
                  THEN [account EXCEPT ![u].status = "active", ![u].removed = FALSE] ELSE account
    /\ UNCHANGED <<wsess, ulive, token, decided>>

\* EnableReturned: only one the directory disabled.
EnableReturned(q) ==
    LET u == ureq[q].id IN
    /\ ureq[q].pc = "return"
    /\ Ends(q)
    /\ account' = IF account[u].status = "disabled" /\ account[u].removed
                  THEN [account EXCEPT ![u].status = "active", ![u].removed = FALSE] ELSE account
    /\ UNCHANGED <<wsess, ulive, token, decided>>

AccountNext ==
    \/ \E q \in Requests, a, u \in Users :
          \/ \E st \in {"active", "disabled"} : UpdateRead(q, a, u, st)
          \/ \E admin \in BOOLEAN : SetRolesRead(q, a, u, admin)
          \/ DeleteRead(q, a, u)
    \/ \E q \in Requests :
          \/ UpdateWrite(q) \/ UpdateRevoke(q) \/ SetRoles(q) \/ DeleteCheck(q) \/ DeleteRow(q)
          \/ Leave(q) \/ EnableReturned(q)
          \/ \E u \in Users : TokenRead(q, u) \/ LeaveRead(q, u) \/ ReturnRead(q, u)
          \/ \E t \in Tokens : TokenCreate(q, t)
    \/ \E u \in Users, admin, owed \in BOOLEAN, pw \in Passwords : AccountCreate(u, admin, pw, owed)
    \/ \E u \in Users : RevokeSessions(u)
    \/ \E t \in Tokens : TokenRevoke(t)
AccountSpec == AccountInit /\ [][AccountNext]_acctVars

-----------------------------------------------------------------------------
\* An account an administrator disabled stays disabled until an administrator
\* enables it, whatever a provider says and however its requests interleave
\* with the administrator's (lifecycle.go: "one an administrator disabled
\* stays disabled").
DecisionStands == \A u \in Users : decided[u] = "disabled" => account[u].status # "active"

\* Accounts under administrators who act at once and a provider that takes
\* people away and brings them back (user/repo.go, lifecycle.go): whoever an
\* administrator disabled stays disabled.
AccountsSound == AccountTypeOK /\ DecisionStands
=============================================================================
