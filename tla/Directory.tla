----------------------------- MODULE Directory -----------------------------
(***************************************************************************)
(* Identity providers at work on the accounts: a sign-in through a         *)
(* provider (src/internal/idp/idp.go, idp/oidc, idp/ldap), the user sync   *)
(* (idp/sync.go) and the people a provider pushes (idp/scim), with the     *)
(* groups they change (src/internal/group).                                *)
(*                                                                         *)
(* A job is one such run.  It holds the row as it read it and writes in    *)
(* statements of its own; other jobs and the administrators' requests of   *)
(* Accounts run in between.  A person's name and address are reduced to    *)
(* "does the directory's differ from the row's", a choice made when the    *)
(* row is read.  The audit events are left out.                            *)
(***************************************************************************)
EXTENDS Accounts

CONSTANTS
    Jobs,
    Names,        \* usernames
    Groups,
    Mapped,       \* groups some provider's mapping names
    Pushing,      \* providers with SCIM on; the rest of Holding are listed
    LDAPs,        \* providers asked for a password; the others are OIDC
    GuardFloor    \* removals a scheduled sync applies whatever their share (3)

ASSUME DirectoryAssumption ==
    /\ Pushing \subseteq Holding /\ LDAPs \subseteq IdPs /\ Mapped \subseteq Groups
    /\ GuardFloor \in Nat
    /\ None \notin Names \cup Groups \cup Jobs

VARIABLES
    provider,   \* identity_providers: enabled, creates accounts, has a SCIM token
    uname,      \* usernames
    scimGone,   \* accounts the SCIM client deleted
    person,     \* the directories: who is in, under which username
    member,     \* group_members
    grp,        \* groups that exist
    gread,      \* members a group's delete has read; None when none runs
    job

dirVars == <<provider, uname, scimGone, person, member, grp, gread, job>>

Row == [status : {"active", "disabled"}, locked : BOOLEAN, removed : BOOLEAN, admin : BOOLEAN, drift : BOOLEAN,
        subject : Subjects \cup {None}]
NoRow == [status |-> "active", locked |-> FALSE, removed |-> FALSE, admin |-> FALSE, drift |-> FALSE, subject |-> None]
RowOf(u, drift) == [status |-> account[u].status, locked |-> account[u].locked, removed |-> account[u].removed,
                    admin |-> account[u].admin, drift |-> drift, subject |-> account[u].subject]

Desired == {"same", "active", "inactive"}    \* what SCIM says of being active
Kinds == {"none", "sync", "login", "post", "put", "del"}
Job == [pc : {"idle", "rows", "people", "find", "adopt", "link", "create", "profile", "groups", "username", "push",
              "rename", "scim", "state", "return", "leave", "disable", "gone", "hide"},
        kind : Kinds, p : IdPs \cup {None}, s : Subjects \cup {None}, name : Names \cup {None}, id : Users \cup {None},
        row : Row, todo : SUBSET (Subjects \X Names), rows : UNION {[us -> Row] : us \in SUBSET Users},
        kept : SUBSET Users, force : BOOLEAN, nobody : BOOLEAN, want : Desired]
JIdle == [pc |-> "idle", kind |-> "none", p |-> None, s |-> None, name |-> None, id |-> None, row |-> NoRow,
          todo |-> {}, rows |-> [u \in {} |-> NoRow], kept |-> {}, force |-> FALSE, nobody |-> FALSE, want |-> "same"]

DirTypeOK ==
    /\ provider \in [IdPs -> [state : {"none", "on", "off"}, provision : BOOLEAN, token : BOOLEAN]]
    /\ uname \in [Users -> Names \cup {None}]
    /\ scimGone \subseteq Users /\ grp \subseteq Groups /\ member \subseteq Groups \X Users
    /\ person \in [IdPs -> [Subjects -> Names \cup {None}]]
    /\ gread \in [Groups -> {None} \cup SUBSET Users]
    /\ job \in [Jobs -> Job]

DirInit ==
    /\ provider = [p \in IdPs |-> [state |-> "on", provision |-> TRUE, token |-> TRUE]]
    /\ uname = [u \in Users |-> None]
    /\ scimGone = {} /\ member = {} /\ grp = Groups
    /\ person = [p \in IdPs |-> [s \in Subjects |-> None]]
    /\ gread = [g \in Groups |-> None]
    /\ job = [j \in Jobs |-> JIdle]

GetByUsername(n) == {u \in Users : Exists(u) /\ uname[u] = n}
GetByExternalID(p, s) == {u \in Users : Exists(u) /\ account[u].idp = p /\ account[u].subject = s}
ListByIdP(p) == {u \in Users : Exists(u) /\ account[u].idp = p}
ListProvisioned(p) == ListByIdP(p) \ scimGone
Scimming(p) == p \in Pushing /\ provider[p].state = "on" /\ provider[p].token

Starts(j, rec) == job[j].pc = "idle" /\ job' = [job EXCEPT ![j] = rec]
Goto(j, pc) == job' = [job EXCEPT ![j].pc = pc]
JobEnds(j) == job' = [job EXCEPT ![j] = JIdle]
\* What a sync does once it is through with a person; the others end.
Through(j) == IF job[j].kind = "sync" THEN Goto(j, "people") ELSE JobEnds(j)
Rest == UNCHANGED <<provider, person, ureq, decided, token, grp, gread>>
Accts == UNCHANGED <<account, uname, wsess, ulive>>

-----------------------------------------------------------------------------
(* Provisioner.Resolve: the account linked to the subject, else one to     *)
(* adopt, else one to create.                                              *)

\* Authenticate, or a verified ID token: the provider knows the person.
Asserts(p, s) == provider[p].state = "on" /\ person[p][s] # None
Resolving(j, p, s) ==
    /\ Asserts(p, s)
    /\ Starts(j, [JIdle EXCEPT !.pc = "find", !.kind = "login", !.p = p, !.s = s, !.name = person[p][s]])
    /\ Accts /\ Rest /\ UNCHANGED <<scimGone, member>>

\* callback, once the state cookie, the code, the nonce and the claims hold.
Callback(j, p, s) == p \notin LDAPs /\ Resolving(j, p, s)
\* Login.Login: the first enabled directory that takes the password.
LdapLogin(j, p, s) == p \in LDAPs /\ Resolving(j, p, s)

Find(j, drift) ==
    LET found == GetByExternalID(job[j].p, job[j].s) IN
    /\ job[j].pc = "find"
    /\ job' = IF found = {} THEN [job EXCEPT ![j].pc = "adopt"]
              ELSE [job EXCEPT ![j].pc = IF drift THEN "profile" ELSE "groups", ![j].id = CHOOSE u \in found : TRUE,
                               ![j].row = RowOf(CHOOSE u \in found : TRUE, drift)]
    /\ Accts /\ Rest /\ UNCHANGED <<scimGone, member>>

\* adopt: the account by that username, when it has no password and is
\* nobody's, or this provider's with no subject yet.
Adopt(j, drift) ==
    LET found == GetByUsername(job[j].name)
        u == CHOOSE v \in found : TRUE
        r == account[u]
        free == r.pw = None /\ ~IsLocked(r) /\ (r.idp = None \/ (r.idp = job[j].p /\ r.subject = None))
    IN
    /\ job[j].pc = "adopt"
    /\ IF found = {} THEN Goto(j, "create")
       ELSE IF free THEN job' = [job EXCEPT ![j].pc = "link", ![j].id = u, ![j].row = RowOf(u, drift)]
       ELSE Through(j)
    /\ Accts /\ Rest /\ UNCHANGED <<scimGone, member>>

LinkMut(j) ==     \* mutant: the UPDATE trusts what the caller checked
    LET u == job[j].id IN
    /\ job[j].pc = "link"
    /\ IF Exists(u) /\ GetByExternalID(job[j].p, job[j].s) = {}
       THEN /\ account' = [account EXCEPT ![u].idp = job[j].p, ![u].subject = job[j].s]
            /\ job' = [job EXCEPT ![j].pc = IF job[j].kind = "sync" THEN "people" ELSE IF job[j].row.drift THEN "profile" ELSE "groups",
                                  ![j].kept = @ \cup {u}]
       ELSE UNCHANGED account /\ Through(j)
    /\ Rest /\ UNCHANGED <<uname, wsess, ulive, scimGone, member>>

\* LinkExternal: the conditions are repeated in the UPDATE, and a subject has one account.
Link(j) ==
    LET u == job[j].id
        r == account[u]
    IN
    /\ job[j].pc = "link"
    /\ IF /\ Exists(u) /\ r.pw = None /\ (r.idp = None \/ (r.idp = job[j].p /\ r.subject = None))
          /\ GetByExternalID(job[j].p, job[j].s) = {} /\ provider[job[j].p].state # "none"
       THEN /\ account' = [account EXCEPT ![u].idp = job[j].p, ![u].subject = job[j].s]
            /\ job' = [job EXCEPT ![j].pc = IF job[j].kind = "sync" THEN "people" ELSE IF job[j].row.drift THEN "profile" ELSE "groups",
                                  ![j].kept = @ \cup {u}]
       ELSE UNCHANGED account /\ Through(j)
    /\ Rest /\ UNCHANGED <<uname, wsess, ulive, scimGone, member>>

\* create: with the default roles; the username and the subject are unique.
Provisioned(j, u) ==
    /\ account' = [account EXCEPT ![u] = [NoAccount EXCEPT !.status = "active", !.idp = job[j].p, !.subject = job[j].s]]
    /\ uname' = [uname EXCEPT ![u] = job[j].name]
Create(j, u) ==
    /\ job[j].pc = "create" /\ ~Exists(u)
    /\ IF /\ provider[job[j].p].state # "none" /\ provider[job[j].p].provision
          /\ GetByUsername(job[j].name) = {} /\ (job[j].s = None \/ GetByExternalID(job[j].p, job[j].s) = {})
       THEN /\ Provisioned(j, u)
            /\ job' = [job EXCEPT ![j].pc = CASE job[j].kind = "sync" -> "people"
                                              [] job[j].kind = "login" -> "groups"
                                              [] OTHER -> "state",
                                  ![j].id = u, ![j].row = NoRow]
       ELSE UNCHANGED <<account, uname>> /\ Through(j)
    /\ Rest /\ UNCHANGED <<wsess, ulive, scimGone, member>>

\* Repo.Update with the name and address the directory has, and the status as it was read.
Profile(j) ==
    LET u == job[j].id
        r == job[j].row
    IN
    /\ job[j].pc = "profile"
    /\ account' = IF Exists(u)
                  THEN [account EXCEPT ![u].status = r.status, ![u].removed = @ /\ account[u].status = r.status]
                  ELSE account
    /\ IF job[j].kind \in {"put", "post"} THEN Goto(j, "state")
       ELSE IF job[j].kind = "login" THEN Goto(j, "groups") ELSE Through(j)
    /\ Rest /\ UNCHANGED <<uname, wsess, ulive, scimGone, member>>

\* Every granting policy names a group here.
Granted(u) == \E g \in Groups : <<g, u>> \in member
Recheck(us, mem) == ulive' = {u \in ulive : u \notin us \/ \E g \in Groups : <<g, u>> \in mem}

\* The mapped groups follow what the provider asserts; the sessions a removal
\* takes away end.
syncGroups(u, asserted) ==
    LET mem == {m \in member : m[2] # u \/ m[1] \notin Mapped \ asserted} \cup {<<g, u>> : g \in asserted \cap grp} IN
    /\ member' = mem
    /\ IF member \subseteq mem THEN UNCHANGED ulive ELSE Recheck({u}, mem)

\* The rest of the sign-in: a locked row goes no further; then the groups, and
\* a session replaces the browser's (ReplaceSession).
LoginEnds(j, asserted, ws) ==
    LET u == job[j].id IN
    /\ job[j].pc = "groups"
    /\ JobEnds(j)
    /\ IF ~IsLocked(job[j].row) /\ Exists(u)
       THEN /\ syncGroups(u, asserted)
            /\ wsess' = [wsess EXCEPT ![ws] = [state |-> "full", user |-> u, proved |-> TRUE]]
       ELSE UNCHANGED <<member, ulive, wsess>>
    /\ Rest /\ UNCHANGED <<account, uname, scimGone>>

-----------------------------------------------------------------------------
(* Syncer.Sync.                                                            *)

\* Users of a directory: everyone it would let sign in.
Listed(p) == {<<s, person[p][s]>> : s \in {t \in Subjects : person[p][t] # None}}
Running(p) == \E k \in Jobs : job[k].kind = "sync" /\ job[k].p = p

\* One run of a provider at a time; the listing is whole, or the run ends.
SyncRun(j, p, force) ==
    /\ provider[p].state = "on" /\ p \in Holding \ Pushing
    /\ ~Running(p)
    /\ Starts(j, [JIdle EXCEPT !.pc = "rows", !.kind = "sync", !.p = p, !.force = force,
                               !.todo = Listed(p), !.nobody = Listed(p) = {}])
    /\ Accts /\ Rest /\ UNCHANGED <<scimGone, member>>
\* Tick: the schedule's run; syncNow: an administrator's, who may apply what was held back.
SyncTick(j, p) == SyncRun(j, p, FALSE)
SyncNow(j, p) == SyncRun(j, p, TRUE)

SyncRows(j, drifted) ==
    /\ job[j].pc = "rows"
    /\ job' = [job EXCEPT ![j].pc = "people", ![j].rows = [u \in ListByIdP(job[j].p) |-> RowOf(u, u \in drifted)]]
    /\ Accts /\ Rest /\ UNCHANGED <<scimGone, member>>

\* keep, for a person with a linked row; join for another.
SyncPerson(j, t) ==
    LET mine == {u \in DOMAIN job[j].rows : job[j].rows[u].subject = t[1]}
        u == CHOOSE v \in mine : TRUE
    IN
    /\ job[j].pc = "people" /\ t \in job[j].todo
    /\ job' = IF mine = {} THEN [job EXCEPT ![j].pc = "adopt", ![j].s = t[1], ![j].name = t[2], ![j].todo = @ \ {t}]
              ELSE [job EXCEPT ![j].pc = "return", ![j].id = u, ![j].row = job[j].rows[u],
                               ![j].kept = @ \cup {u}, ![j].todo = @ \ {t}]
    /\ Accts /\ Rest /\ UNCHANGED <<scimGone, member>>

\* Return: EnableReturned, only for one the directory disabled; the row in hand follows.
Return(j) ==
    LET u == job[j].id
        r == job[j].row
        back == account[u].status = "disabled" /\ account[u].removed
        next == IF job[j].kind = "sync" /\ r.drift THEN "profile" ELSE "people"
    IN
    /\ job[j].pc = "return"
    /\ IF r.status = "disabled" /\ r.removed /\ back
       THEN /\ account' = [account EXCEPT ![u].status = "active", ![u].removed = FALSE]
            /\ IF job[j].kind = "sync"
               THEN job' = [job EXCEPT ![j].pc = next, ![j].row.status = "active", ![j].row.removed = FALSE]
               ELSE JobEnds(j)
       ELSE /\ UNCHANGED account
            /\ IF job[j].kind = "sync" THEN Goto(j, next) ELSE JobEnds(j)
    /\ Rest /\ UNCHANGED <<uname, wsess, ulive, scimGone, member>>

\* leave: the active accounts the listing does not account for, unless held back.
Gone(j) == {u \in DOMAIN job[j].rows : job[j].rows[u].status = "active"} \ job[j].kept
HeldBack(j) ==
    LET active == {u \in DOMAIN job[j].rows : job[j].rows[u].status = "active"} IN
    /\ ~job[j].force
    /\ \/ job[j].nobody
       \/ Cardinality(Gone(j)) > GuardFloor /\ 2 * Cardinality(Gone(j)) > Cardinality(active)
SyncLeave(j) ==
    /\ job[j].pc = "people" /\ job[j].todo = {}
    /\ IF Gone(j) = {} \/ HeldBack(j) THEN JobEnds(j) ELSE Goto(j, "gone")
    /\ Accts /\ Rest /\ UNCHANGED <<scimGone, member>>

SyncGone(j, u) ==
    /\ job[j].pc = "gone"
    /\ u \in Gone(j)
    /\ job' = [job EXCEPT ![j].pc = "leave", ![j].id = u, ![j].row = job[j].rows[u], ![j].kept = @ \cup {u}]
    /\ Accts /\ Rest /\ UNCHANGED <<scimGone, member>>

\* Leave: what was read was active, and somebody else administers ...
LeaveCheck(j) ==
    LET r == job[j].row
        after == IF job[j].kind = "sync" THEN IF Gone(j) = {} THEN JobEnds(j) ELSE Goto(j, "gone")
                 ELSE IF job[j].kind = "del" /\ r.status # "active" THEN Goto(j, "hide") ELSE JobEnds(j)
    IN
    /\ job[j].pc = "leave"
    /\ IF r.status = "active" /\ (r.admin => CountAdmins > 1) THEN Goto(j, "disable") ELSE after
    /\ Accts /\ Rest /\ UNCHANGED <<scimGone, member>>

\* ... then DisableRemoved, only while active, and its sessions end.
Disable(j) ==
    LET u == job[j].id IN
    /\ job[j].pc = "disable"
    /\ IF account[u].status = "active"
       THEN /\ account' = [account EXCEPT ![u].status = "disabled", ![u].removed = TRUE]
            /\ RevokeAllForUser(u) /\ endLive(u)
       ELSE UNCHANGED <<account, wsess, ulive>>
    /\ CASE job[j].kind = "sync" -> IF Gone(j) = {} THEN JobEnds(j) ELSE Goto(j, "gone")
         [] job[j].kind = "del" -> Goto(j, "hide")
         [] OTHER -> JobEnds(j)
    /\ Rest /\ UNCHANGED <<uname, scimGone, member>>

-----------------------------------------------------------------------------
(* SCIM: what a provider with a token says of a person.                    *)

\* What a request can say of the person's being active: nothing of it in a delete.
Patched(kind) == IF kind = "del" THEN {"same"} ELSE Desired

\* createUser.
PostUser(j, p, n, want) ==
    /\ Scimming(p)
    /\ Starts(j, [JIdle EXCEPT !.pc = "username", !.kind = "post", !.p = p, !.name = n, !.want = want])
    /\ Accts /\ Rest /\ UNCHANGED <<scimGone, member>>

PostFound(j, drift) ==
    LET found == GetByUsername(job[j].name)
        u == CHOOSE v \in found : TRUE
        r == account[u]
        at(pc) == [job EXCEPT ![j].pc = pc, ![j].id = u, ![j].row = RowOf(u, drift)]
    IN
    /\ job[j].pc = "username"
    /\ CASE found = {} -> Goto(j, "create")
         [] found # {} /\ r.idp = job[j].p /\ u \in scimGone ->
                job' = [at("scim") EXCEPT ![j].want = IF @ = "same" THEN "active" ELSE @]
         [] found # {} /\ r.idp = None /\ r.pw = None -> job' = at("push")
         [] OTHER -> JobEnds(j)
    /\ Accts /\ Rest /\ UNCHANGED <<scimGone, member>>

\* Provision: the conditions again, in the UPDATE.
Provision(j) ==
    LET u == job[j].id IN
    /\ job[j].pc = "push"
    /\ IF Exists(u) /\ account[u].idp = None /\ account[u].pw = None /\ provider[job[j].p].state # "none"
       THEN account' = [account EXCEPT ![u].idp = job[j].p] /\ Goto(j, IF job[j].row.drift THEN "profile" ELSE "state")
       ELSE UNCHANGED account /\ JobEnds(j)
    /\ Rest /\ UNCHANGED <<uname, wsess, ulive, scimGone, member>>

\* SetSCIM of a rehire; of a delete it is Hide.
Rehire(j) ==
    /\ job[j].pc = "scim"
    /\ scimGone' = scimGone \ {job[j].id}
    /\ Goto(j, IF job[j].row.drift THEN "profile" ELSE "state")
    /\ Accts /\ Rest /\ UNCHANGED member

\* replaceUser, patchUser, deleteUser: find; then apply, the rename first.
ScimFind(j, p, u, kind, n, want, drift) ==
    /\ Scimming(p) /\ u \in ListProvisioned(p)
    /\ Starts(j, [JIdle EXCEPT !.pc = CASE kind = "del" -> "leave"
                                        [] kind = "put" /\ n # uname[u] -> "rename"
                                        [] OTHER -> IF drift THEN "profile" ELSE "state",
                               !.kind = kind, !.p = p, !.id = u, !.name = n, !.want = want, !.row = RowOf(u, drift)])
    /\ Accts /\ Rest /\ UNCHANGED <<scimGone, member>>

\* Usernames are unique: a taken one ends the request.
Rename(j) ==
    /\ job[j].pc = "rename"
    /\ IF Exists(job[j].id) /\ GetByUsername(job[j].name) \subseteq {job[j].id}
       THEN uname' = [uname EXCEPT ![job[j].id] = job[j].name] /\ Goto(j, IF job[j].row.drift THEN "profile" ELSE "state")
       ELSE UNCHANGED uname /\ JobEnds(j)
    /\ Rest /\ UNCHANGED <<account, wsess, ulive, scimGone, member>>

\* The end of apply: activated, deactivated, or neither said.
ScimState(j) ==
    /\ job[j].pc = "state"
    /\ CASE job[j].want = "active" -> Goto(j, "return")
         [] job[j].want = "inactive" -> Goto(j, "leave")
         [] OTHER -> JobEnds(j)
    /\ Accts /\ Rest /\ UNCHANGED <<scimGone, member>>

Hide(j) ==
    /\ job[j].pc = "hide"
    /\ scimGone' = IF Exists(job[j].id) THEN scimGone \cup {job[j].id} ELSE scimGone
    /\ JobEnds(j)
    /\ Accts /\ Rest /\ UNCHANGED member

-----------------------------------------------------------------------------
(* The people, the providers and the groups.                               *)

Others == UNCHANGED <<wsess, token, ureq, decided, job>>

\* external: someone joins a directory, leaves it, or is renamed in it.
PersonChanges(p, s, n) ==
    /\ person' = [person EXCEPT ![p][s] = n]
    /\ Others /\ UNCHANGED <<account, ulive, provider, uname, scimGone, member, grp, gread>>

\* update of a provider.
ProviderUpdate(p, state, provision) ==
    /\ provider[p].state # "none"
    /\ provider' = [provider EXCEPT ![p].state = state, ![p].provision = provision]
    /\ Others /\ UNCHANGED <<account, ulive, uname, scimGone, person, member, grp, gread>>

\* newSCIMToken, revokeSCIMToken.
ScimToken(p, token_) ==
    /\ provider[p].state # "none" /\ p \in Pushing
    /\ provider' = [provider EXCEPT ![p].token = token_]
    /\ Others /\ UNCHANGED <<account, ulive, uname, scimGone, person, member, grp, gread>>

\* del: its people keep their rows, linked to nobody (ON DELETE SET NULL).
ProviderDelete(p) ==
    /\ provider[p].state # "none"
    /\ provider' = [provider EXCEPT ![p].state = "none", ![p].token = FALSE]
    /\ account' = [u \in Users |-> IF account[u].idp = p THEN [account[u] EXCEPT !.idp = None] ELSE account[u]]
    /\ Others /\ UNCHANGED <<ulive, uname, scimGone, person, member, grp, gread>>

\* An administrator makes an account for someone, with or without a password ...
Precreate(u, n, pw) ==
    /\ ~Exists(u) /\ GetByUsername(n) = {}
    /\ account' = [account EXCEPT ![u] = [NoAccount EXCEPT !.status = "active", !.pw = pw]]
    /\ uname' = [uname EXCEPT ![u] = n]
    /\ Others /\ UNCHANGED <<ulive, provider, scimGone, person, member, grp, gread>>

\* ... or gives one that nobody vouches for a password.
GivePassword(u, pw) ==
    /\ Exists(u) /\ account[u].idp = None
    /\ account' = [account EXCEPT ![u].pw = pw]
    /\ Others /\ UNCHANGED <<ulive, uname, provider, scimGone, person, member, grp, gread>>

\* CreateWithMembers.
GroupCreate(g, us) ==
    /\ g \notin grp /\ \A u \in us : Exists(u)
    /\ grp' = grp \cup {g}
    /\ member' = member \cup {<<g, u>> : u \in us}
    /\ Others /\ UNCHANGED <<account, ulive, uname, provider, scimGone, person, gread>>

\* SetMembers, one transaction; then the sessions of those taken out.
SetMembers(g, us) ==
    LET had == {u \in Users : <<g, u>> \in member}
        mem == {m \in member : m[1] # g} \cup {<<g, u>> : u \in us}
    IN
    /\ g \in grp /\ \A u \in us : Exists(u)
    /\ member' = mem
    /\ IF had \subseteq us THEN UNCHANGED ulive ELSE Recheck(had \ us, mem)
    /\ Others /\ UNCHANGED <<account, uname, provider, scimGone, person, grp, gread>>

\* del: the members are read, the group goes, and the sessions of those read are checked.
GroupDeleteRead(g) ==
    /\ g \in grp /\ gread[g] = None
    /\ gread' = [gread EXCEPT ![g] = {u \in Users : <<g, u>> \in member}]
    /\ Others /\ UNCHANGED <<account, ulive, uname, provider, scimGone, person, member, grp>>
GroupDelete(g) ==
    LET mem == {m \in member : m[1] # g} IN
    /\ gread[g] # None /\ g \in grp
    /\ grp' = grp \ {g}
    /\ member' = mem
    /\ Recheck(gread[g], mem)
    /\ gread' = [gread EXCEPT ![g] = None]
    /\ Others /\ UNCHANGED <<account, uname, provider, scimGone, person>>

\* external: a session on a target that a group's policy grants.
OpenLive(u) ==
    /\ Granted(u) /\ account[u].status = "active" /\ u \notin ulive
    /\ ulive' = ulive \cup {u}
    /\ Others /\ UNCHANGED <<account, uname, provider, scimGone, person, member, grp, gread>>

\* A sign-in or a sync; what a provider pushes.
ResolveNext == \E j \in Jobs :
    \/ \E p \in IdPs, s \in Subjects : Callback(j, p, s) \/ LdapLogin(j, p, s)
    \/ \E drift \in BOOLEAN : Find(j, drift) \/ Adopt(j, drift)
    \/ Link(j) \/ Profile(j) \/ Return(j) \/ LeaveCheck(j) \/ Disable(j)
    \/ \E u \in Users : Create(j, u)
    \/ \E gs \in SUBSET Mapped, ws \in WSess : LoginEnds(j, gs, ws)
SyncNext == \E j \in Jobs :
    \/ \E p \in IdPs : SyncTick(j, p) \/ SyncNow(j, p)
    \/ \E us \in SUBSET Users : SyncRows(j, us)
    \/ \E t \in job[j].todo : SyncPerson(j, t)
    \/ SyncLeave(j)
    \/ \E u \in Users : SyncGone(j, u)
ScimNext == \E j \in Jobs :
    \/ \E p \in IdPs :
          \/ \E n \in Names, want \in Desired : PostUser(j, p, n, want)
          \/ \E u \in Users, n \in Names, kind \in {"put", "del"}, drift \in BOOLEAN :
                \E want \in Patched(kind) : ScimFind(j, p, u, kind, n, want, drift)
          \/ \E on \in BOOLEAN : ScimToken(p, on)
    \/ \E drift \in BOOLEAN : PostFound(j, drift)
    \/ Provision(j) \/ Rehire(j) \/ Rename(j) \/ ScimState(j) \/ Hide(j)
PersonNext == \E p \in IdPs, s \in Subjects, n \in Names \cup {None} : PersonChanges(p, s, n)
ProviderNext == \E p \in IdPs :
    \/ ProviderDelete(p)
    \/ \E state \in {"on", "off"}, provision \in BOOLEAN : ProviderUpdate(p, state, provision)
LocalNext == \E u \in Users, pw \in Passwords \cup {None} :
    \/ \E n \in Names : Precreate(u, n, pw)
    \/ pw # None /\ GivePassword(u, pw)
GroupNext ==
    \/ \E g \in Groups, us \in SUBSET Users : GroupCreate(g, us) \/ SetMembers(g, us)
    \/ \E g \in Groups : GroupDeleteRead(g) \/ GroupDelete(g)
    \/ \E u \in Users : OpenLive(u)

\* Administrators act on the same accounts (Accounts).
DirNext ==
    \/ ResolveNext \/ SyncNext \/ ScimNext \/ PersonNext \/ ProviderNext \/ LocalNext \/ GroupNext
    \/ AccountNext /\ UNCHANGED dirVars
DirSpec == AccountInit /\ DirInit /\ [][DirNext]_<<acctVars, dirVars>>

-----------------------------------------------------------------------------
\* An account linked to a subject of a provider stays that person's, and an
\* account with a password is never linked, however sign-ins, syncs, pushes and
\* administrators interleave (Resolve: "a sign-in never takes over a password
\* account nor moves an account between identities"; LinkExternal repeats the
\* conditions for this).
LinkKept ==
    [][\A u \in Users :
          /\ (account[u].idp # None /\ account[u].subject # None /\ Exists(u) /\ account'[u].idp # None)
             => account'[u].idp = account[u].idp /\ account'[u].subject = account[u].subject
          /\ (account[u].pw # None /\ account[u].idp = None) => account'[u].idp = None]_<<account, job>>
=============================================================================
