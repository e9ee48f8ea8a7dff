----------------------------- MODULE MCCustody ------------------------------
(***************************************************************************)
(* What the gateway keeps for others, for TLC: keys and the anchors signed *)
(* with them, credentials and the targets and groups they are bound to,    *)
(* recordings, the configuration read from a file, and policies stored in  *)
(* an earlier shape.  A behaviour exercises one part, chosen at the start; *)
(* the other parts keep their initial values.                              *)
(***************************************************************************)
EXTENDS Anchors, ScalingGroups, Recordings, ConfigImport, Conversion

CONSTANTS k1, k2, gw2, m1, t1, g1, c1, x1, a1, a2, i1

VARIABLE part

vars == <<part, keyVars, anchorVars, credVars, targetVars, groupVars, recVars, importVars, convertVars>>

-----------------------------------------------------------------------------
(* Documents and stores for the import.                                    *)

GroupDoc(n, t, m) == [kind |-> "group", name |-> n, text |-> t, members |-> m]
TargetDoc(n, t) == [kind |-> "target", name |-> n, text |-> t]
PolicyDoc(n, s, t) == [kind |-> "policy", name |-> n, text |-> 1, subjects |-> s, targets |-> t]
Doc(g, t, p) == [groups |-> g, targets |-> t, policies |-> p]

documents ==
    {Doc(<<GroupDoc("g1", 1, {"u"}), GroupDoc("g2", 1, {})>>, <<TargetDoc("t1", 1), TargetDoc("t2", 1)>>,
         <<PolicyDoc("p1", <<"g2", "g1">>, <<"t1", "t2">>)>>),
     Doc(<<GroupDoc("g1", 2, {})>>, <<TargetDoc("t1", 2)>>,
         <<PolicyDoc("p1", <<"g1">>, <<"t1">>), PolicyDoc("p2", <<"g1">>, <<"t1">>)>>),
     Doc(<<>>, <<TargetDoc("t1", 0)>>, <<PolicyDoc("p1", <<"g3">>, <<"t3">>)>>),
     Doc(<<GroupDoc("g1", 1, {})>>, <<TargetDoc("t1", 1)>>, <<PolicyDoc("p1", <<"g1">>, <<"t1">>)>>)}

stores ==
    {[rows |-> {}, issued |-> 0],
     [rows |-> {[kind |-> "group", id |-> 1, name |-> "g1", text |-> 1, members |-> {}],
                [kind |-> "target", id |-> 2, name |-> "t1", text |-> 1],
                [kind |-> "policy", id |-> 3, name |-> "p1", text |-> 1, subjects |-> {1}, grant |-> 4, targets |-> <<2>>]},
      issued |-> 4]}

(* Policies of the shape before grants.                                    *)

machines == {[id |-> "h", kind |-> "host", tag |-> "prod"], [id |-> "d", kind |-> "database", tag |-> "prod"],
             [id |-> "b", kind |-> "host", tag |-> "none"], [id |-> "a", kind |-> "autoscaling", tag |-> "prod"]}
serves == [k \in {"host", "database", "autoscaling"} |->
              IF k = "database" THEN {"database"} ELSE {"ssh", "rdp"}]
selectors == [ids : {{}, {"h", "b"}, {"d", "x", "a"}}, tag : {"none", "prod"},
              protos : {{"ssh"}, {"rdp", "database"}}]
conditions == {[approval |-> a, mfa |-> ~a, idle |-> IF a THEN 5 ELSE 15, keep |-> 1] : a \in BOOLEAN}
              \cup {[approval |-> FALSE, mfa |-> FALSE, idle |-> 5, keep |-> 2]}
legacyChoices == {[base |-> b, rules |-> r, cond |-> c] :
                     b \in selectors, r \in {{}} \cup {{s} : s \in selectors}, c \in conditions}
beside == {p \in legacyChoices : p.rules = {}}

-----------------------------------------------------------------------------
(* Where the parts start.                                                  *)

Parts == {"keys", "two gateways", "signing", "tampering", "slots", "trust", "group slots", "polls", "marking", "recordings", "blank", "indexing",
          "import", "convert"}

\* A gateway is up, and a change of the master key has staged its new key.
Rotating ==
    /\ wrapped = <<k1>>
    /\ ring = [p \in Rings |-> IF p \in Commands THEN Down ELSE [pc |-> "up", kek |-> k1, held |-> {1}]]
    /\ sealed = [s \in Secrets |-> 0]
    /\ keyFile = k1 /\ next = k2 /\ seen = {}
    /\ km = [pc |-> "staged", to |-> "file", generate |-> TRUE, old |-> k1, new |-> k2]

\* A target with a key to sign in with, whose host key nobody has seen yet.
Untrusted ==
    /\ cred = [c \in Creds |-> [NoCred EXCEPT !.type = "ssh_key", !.name = PromptName, !.secret = m1, !.public = m1]]
    /\ bound = {<<t1, c1>>} /\ creq = [a \in Admins |-> CredIdle]
    /\ target = [t \in Targets |-> [NoTarget EXCEPT !.status = "active", !.address = x1]]
    /\ treq = [a \in Admins |-> TargetIdle] /\ live = {} /\ approved = {}

\* One session, which draws a frame or not, with the indexer or with crashes.
OneRecording ==
    /\ conf = NoBucket /\ keep \in [age : {0, 1}, cap : {0, 1}]
    /\ s3 = IF conf # NoBucket THEN conf ELSE EnvBucket
    /\ change = ChangeIdle /\ row = [r \in Recs |-> NoRow]
    /\ stage = [r \in Recs |-> [pc |-> IF (r \in Blank) = (part = "blank") THEN "none" ELSE "over", at |-> Local]]
    /\ blob = {} /\ strays = {} /\ selected = {}
    /\ day = 0
    /\ reads = IF part = "indexing" THEN 0 ELSE MaxReads
    /\ crashes = IF part = "recordings" THEN 0 ELSE MaxCrash
    /\ sweep = SweepIdle /\ move = MoveIdle /\ index = IndexIdle

First(S) == CHOOSE x \in S : TRUE

Init ==
    /\ part \in Parts
    /\ IF part \in {"signing", "tampering"} THEN Rotating ELSE KeyInit
    /\ keyFile = k1
    /\ AnchorInit
    /\ IF part = "trust" THEN Untrusted ELSE CredInit /\ TargetInit
    /\ GroupInit
    /\ IF part \in {"recordings", "blank", "indexing"} THEN OneRecording ELSE RecInit /\ conf = NoBucket /\ keep = [age |-> 0, cap |-> 0]
    /\ ImportInit /\ (part # "import" => rows = {})
    /\ IF part = "convert" THEN ConvertInit
       ELSE legacy = {First(beside)} /\ grants = {} /\ step = "stored"

-----------------------------------------------------------------------------
(* The steps of each part.                                                 *)

In(parts) == part \in parts /\ UNCHANGED part
EstateStill == UNCHANGED <<credVars, targetVars, groupVars>>
RestStill == UNCHANGED <<recVars, importVars, convertVars>>
KeysStill == UNCHANGED <<keyVars, anchorVars>>

\* One gateway beside a change of the master key, or two without.
Ring ==
    /\ KeyNext
    /\ IF part = "keys" THEN ring'[gw2] = Down ELSE ring'[Master] = Down

\* Anchors written and verified while the master key changes.
Signing ==
    \/ /\ Record \/ VerifyRead \/ VerifyReport \/ \E key \in Keys : AnchorHead(key) \/ VerifyWalk(key)
       /\ UNCHANGED keyVars
    \/ AnchorsResigned
    \/ /\ (\E p \in Gateways : Open(p) \/ Close(p)) \/ KmRewrap \/ KmFile \/ KmUnstage
       /\ UNCHANGED anchorVars

\* Credentials made, changed, bound and deleted at once; one target.
Slots ==
    \/ CredNext /\ UNCHANGED targetVars
    \/ \E t \in Targets : TargetDelete(t) \/ UnsetCredential(t)
    \/ \E t \in Targets, c \in Creds \cup {None} :
          TargetCreate(t, x1, "active", c) \/ TargetUpdateRead(a1, t, x1, "active", c)
    \/ \E t \in Targets, c \in Creds : TargetBindRead(a1, t, c) \/ TargetPrompt(a1, t, c)
    \/ \E a \in Admins : TargetUpdate(a) \/ SetCredential(a)

\* Probes, approvals and changes of address at once.
Trust ==
    \/ \E t \in Targets : TargetDelete(t) \/ TargetConnect(t)
    \/ \E t \in Targets, addr \in Addresses, st \in {"active", "disabled"} : TargetUpdateRead(a2, t, addr, st, c1)
    \/ \E t \in Targets, res \in Probe : ProbeRead(a1, t, res)
    \/ \E t \in Targets, fp \in FPs : TrustRead(a2, t, fp)
    \/ \E t \in Targets, l \in Listeners : PinRead(a2, t, l)
    \/ \E a \in Admins : TargetUpdate(a) \/ RecordProbe(a) \/ TrustHostKey(a) \/ TrustCertificate(a)

\* The slot of a group, against the deletion of its credential.
GroupSlots ==
    \/ GroupAdmin
    \/ /\ \/ CredCreate(c1, "password", "vaulted", PromptName, m1)
          \/ CredDeleteRead(a1, c1) \/ CredDelete(a1)
       /\ UNCHANGED groupVars

\* The two pollers and the administrator, without the slot; one instance.
Polls ==
    /\ \/ GroupSteps /\ UNCHANGED credVars
       \/ \E g \in Groups, st \in {"active", "disabled"} : GroupCreate(g, st, None) \/ GroupUpdate(g, st, None)
       \/ (\E g \in Groups : GroupDeleteRead(g)) \/ GroupDelete
    /\ \A p \in Pollers : DOMAIN poll'[p].snap \subseteq {i1}

\* A group that loses instances, one poller, and machines that show nothing.
Marking ==
    /\ \/ \E g \in Groups : GroupCreate(g, "active", None) \/ PollStart("api", g) \/ \E i \in Insts : InstConnect(g, i)
       \/ \E ids \in SUBSET Insts : (\E snap \in [ids -> BOOLEAN] : PollDescribe("api", snap)) \/ PollMarkFails("api", ids)
       \/ \E i \in Insts, ok \in BOOLEAN :
             PollUnhealthy("api", i) \/ PollInstance("api", i, [hostKey |-> None, certs |-> NoPins], ok, "none")
       \/ PollMark("api")
    /\ UNCHANGED credVars

KeysPart == In({"keys", "two gateways"}) /\ Ring /\ UNCHANGED anchorVars /\ EstateStill /\ RestStill
SigningPart == In({"signing"}) /\ Signing /\ EstateStill /\ RestStill
TamperingPart == In({"tampering"}) /\ AnchorNext /\ UNCHANGED keyVars /\ EstateStill /\ RestStill
SlotsPart == In({"slots"}) /\ Slots /\ UNCHANGED groupVars /\ KeysStill /\ RestStill
TrustPart == In({"trust"}) /\ Trust /\ UNCHANGED groupVars /\ KeysStill /\ RestStill
GroupSlotsPart == In({"group slots"}) /\ GroupSlots /\ UNCHANGED targetVars /\ KeysStill /\ RestStill
PollsPart == ((In({"polls"}) /\ Polls) \/ (In({"marking"}) /\ Marking)) /\ UNCHANGED targetVars /\ KeysStill /\ RestStill
RecordingsPart ==
    In({"recordings", "blank", "indexing"}) /\ RecNext /\ UNCHANGED <<importVars, convertVars>> /\ KeysStill /\ EstateStill
ImportPart == In({"import"}) /\ ImportNext /\ UNCHANGED <<recVars, convertVars>> /\ KeysStill /\ EstateStill
ConvertPart == In({"convert"}) /\ ConvertNext /\ UNCHANGED <<recVars, importVars>> /\ KeysStill /\ EstateStill

Next ==
    \/ KeysPart \/ SigningPart \/ TamperingPart
    \/ SlotsPart \/ TrustPart \/ GroupSlotsPart \/ PollsPart
    \/ RecordingsPart \/ ImportPart \/ ConvertPart

\* The variables of the part at work; the others never change, so two states
\* with the same view are the same state.
View ==
    <<part,
      CASE part \in {"keys", "two gateways"} -> keyVars
        [] part \in {"signing", "tampering"} -> <<keyVars, anchorVars>>
        [] part \in {"slots", "trust"} -> <<credVars, targetVars>>
        [] part \in {"group slots", "polls", "marking"} -> <<credVars, groupVars>>
        [] part \in {"recordings", "blank", "indexing"} -> recVars
        [] part = "import" -> importVars
        [] part = "convert" -> convertVars>>

Spec == Init /\ [][Next]_vars

-----------------------------------------------------------------------------

\* What is brought in keeps its meaning: no two rows share an id or, within a kind, a
\* name, the answer to an import tells what became of every entry (configio), and a
\* policy converted to grants admits whom it admitted (policy/convert.go).
ImportSound == ImportTypeOK /\ AnswerTells /\ ConvertTypeOK /\ ConversionKeepsAccess
=============================================================================
