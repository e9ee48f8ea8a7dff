----------------------------- MODULE MCIdentity -----------------------------
(***************************************************************************)
(* Who may sign in, for TLC: accounts under several administrators, the    *)
(* sign-in with its codes, passwords and enrolment, what throttles it, the *)
(* console's command line with its own code, the directories that make and *)
(* disable accounts, and the listing of a directory.  A behaviour          *)
(* exercises one part, chosen at the start; the others stay as they are.   *)
(***************************************************************************)
EXTENDS SignIn, Throttle, CommandLine, Directory, Listing, TLC

CONSTANTS Parts, u1, s1, s2, w1, x1, p1, p2, j1, j2, m1, c2, l1

VARIABLE part

vars == <<part, acctVars, signVars, dirVars, listVars, throttleVars, commandVars>>

-----------------------------------------------------------------------------
(* Where the parts start.                                                  *)

NoTokens == [t \in Tokens |-> [state |-> "free", user |-> None]]
Session(st) == [state |-> st, user |-> u1, proved |-> FALSE]

\* Every account an active administrator, held by the directory p1 or by none.
Administrators(idp) ==
    /\ account = [u \in Users |-> [NoAccount EXCEPT !.status = "active", !.admin = TRUE, !.idp = idp]]
    /\ wsess = [s \in WSess |-> NoWSess] /\ ulive = {} /\ token = NoTokens
    /\ ureq = [q \in Requests |-> UIdle] /\ decided = [u \in Users |-> "none"]

\* One account that signs in: with or without a password, a weak hash, a
\* password owed, a confirmed authenticator; when it enrols, it may have sessions.
SigningIn ==
    /\ \E pw \in {w1, None}, weak, owed, mfa \in BOOLEAN :
          /\ weak \/ owed => pw # None
          /\ part = "codes" => mfa /\ pw # None /\ ~owed
          /\ part = "password" => ~mfa
          /\ part = "enrol" => ~mfa /\ ~weak /\ ~owed
          /\ account = [u \in Users |-> IF u = u1 THEN [NoAccount EXCEPT !.status = "active", !.admin = TRUE, !.pw = pw,
                                                                         !.weak = weak, !.owed = owed]
                                        ELSE NoAccount]
          /\ totp = [u \in Users |-> IF mfa /\ u = u1 THEN [seed |-> x1, confirmed |-> TRUE, last |-> 0] ELSE NoTOTP]
          /\ recovery = [u \in Users |-> IF mfa /\ u = u1 THEN [seed |-> x1, unused |-> 1] ELSE NoCodes]
    /\ wsess \in [WSess -> {NoWSess} \cup IF part = "enrol" THEN {Session("full"), Session("partial")} ELSE {}]
    /\ ulive = {u1} /\ token = NoTokens
    /\ ureq = [q \in Requests |-> UIdle] /\ decided = [u \in Users |-> "none"]
    /\ attempts = [s \in WSess |-> 0]
    /\ stepUp = [s \in WSess |-> [fails |-> 0, closed |-> FALSE]]
    /\ codeLock = [u \in Users |-> None]
    /\ sreq = [q \in SReqs |-> SIdle]
    /\ guesses = [u \in Users |-> 0]

Init ==
    /\ part \in Parts
    /\ CASE part \in {"codes", "password", "enrol"} -> SigningIn
         [] part \in {"accounts", "tokens"} -> Administrators(p1) /\ SignInit
         [] part = "decision" -> Administrators(None) /\ SignInit
         [] OTHER -> AccountInit /\ SignInit
    /\ DirInit /\ ThrottleInit /\ CommandInit
    /\ IF part = "listing" THEN ListInit
       ELSE realm = <<>> /\ listing = LIdle /\ stayed = {} /\ moved = <<>>

-----------------------------------------------------------------------------
(* The steps of each part.                                                 *)

In(p) == part = p /\ part' = p
\* One user signs in; before codes, with the right password or none.
OneUser == \A q \in SReqs : sreq'[q].user \in {u1, None} /\ (part = "codes" => sreq'[q].guess \in {w1, None})
ConsoleStill == UNCHANGED <<throttleVars, commandVars>>
SignInStill == UNCHANGED <<dirVars, listVars>> /\ ConsoleStill
\* The directory of a part: p1 is asked for the password and listed, p2
\* redirects and pushes.  Sign-ins use one browser, and all accounts one password.
OnePassword == \A u \in Users : account'[u].pw \in {w1, None} /\ ~account'[u].owed
Only(p) ==
    /\ \A o \in IdPs \ {p} : person'[o] = person[o] /\ provider'[o] = provider[o]
    /\ wsess'[s2] = NoWSess
    /\ OnePassword
    /\ part # "groups" => member' = {}
    /\ part # "scim" => \A u \in Users, n \in Subjects : {uname'[u], person'[p][n]} \subseteq {m1, None}
    /\ part = "scim" => job'[j2] = JIdle
    /\ UNCHANGED <<signVars, listVars>> /\ ConsoleStill

\* Two requests about accounts at once, of which tokens are looked at apart.
AccountsPart ==
    /\ \/ In("accounts") /\ AccountNext /\ OnePassword /\ UNCHANGED <<token, wsess>>
       \/ /\ In("tokens") /\ AccountNext /\ OnePassword
          /\ \A q \in Requests : ureq'[q].pc \in {"idle", "token", "delete", "gone"}
          /\ UNCHANGED <<decided, wsess>>
    /\ UNCHANGED <<signVars, dirVars, listVars>> /\ ConsoleStill
CodesPart == In("codes") /\ (LoginNext \/ CodeNext) /\ OneUser /\ SignInStill
PasswordPart == In("password") /\ (LoginNext \/ PasswordNext) /\ OneUser /\ SignInStill
EnrolPart == In("enrol") /\ EnrolNext /\ OneUser /\ SignInStill
LoginPart == In("login") /\ (ResolveNext \/ PersonNext \/ ProviderNext \/ LocalNext) /\ Only(p2)
SyncPart == In("sync") /\ (ResolveNext \/ SyncNext \/ PersonNext \/ LocalNext) /\ job'[j1].kind # "login" /\ Only(p1)
ScimPart == In("scim") /\ (ResolveNext \/ ScimNext \/ LocalNext) /\ Only(p2)
GroupsPart == In("groups") /\ (GroupNext \/ ResolveNext \/ PersonNext) /\ Only(p1)
ListingPart == In("listing") /\ ListNext /\ UNCHANGED <<acctVars, signVars, dirVars>> /\ ConsoleStill
ThrottlePart == In("throttle") /\ ThrottleNext /\ UNCHANGED <<acctVars, signVars, dirVars, listVars, commandVars>>
\* One request of two only answers a prompt for one of the lines.
CommandPart ==
    /\ In("commands") /\ CommandNext
    /\ creq'[c2].pc \notin {"verify", "proved", "marked"} /\ (creq'[c2].pc # "idle" => creq'[c2].line = l1 /\ creq'[c2].confirm = "right")
    /\ UNCHANGED <<acctVars, signVars, dirVars, listVars, throttleVars>>
DecisionPart ==
    /\ In("decision")
    /\ ResolveNext \/ SyncNext \/ PersonNext \/ (AccountNext /\ UNCHANGED dirVars)
    /\ Only(p1)

Next ==
    \/ AccountsPart \/ CodesPart \/ PasswordPart \/ EnrolPart
    \/ LoginPart \/ SyncPart \/ ScimPart \/ GroupsPart \/ ListingPart
    \/ ThrottlePart \/ CommandPart

Spec == Init /\ [][Next]_vars
DecisionSpec == Init /\ [][DecisionPart]_vars

\* The variables of the part at work; the others never change, so two states
\* with the same view are the same state.
View ==
    <<part,
      CASE part \in {"accounts", "tokens"} -> acctVars
        [] part \in {"codes", "password", "enrol"} -> <<acctVars, signVars>>
        [] part = "listing" -> listVars
        [] part = "throttle" -> throttleVars
        [] part = "commands" -> commandVars
        [] OTHER -> <<acctVars, dirVars>> >>

-----------------------------------------------------------------------------

\* Half-finished sign-ins that send their codes at once (handlers.go checkCode)
\* have no more guesses together than one of them; the limiter before them forgets
\* nothing that matters (ratelimit.go), and a prompt of the command line is good
\* for one run (cli/handler.go).
CodesSound ==
    /\ SignTypeOK /\ CodesBounded
    /\ ThrottleTypeOK /\ ForgettingChangesNothing /\ SlotsAccounted
    /\ CommandTypeOK /\ ConfirmedOnce

\* A listing of a directory that changes while it is paged (keycloak.go) is
\* whole or an error.
ListingSound == DirTypeOK /\ ListTypeOK /\ ListingWhole
=============================================================================
