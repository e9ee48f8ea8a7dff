------------------------------- MODULE MCOps --------------------------------
(***************************************************************************)
(* The gateway's own upkeep, for TLC: notifications, actions on the host,  *)
(* runtime settings, the certificate it serves, migrations, backup,        *)
(* restore and the file init writes.  A behaviour exercises one part,      *)
(* chosen at the start; the others stay as they are.                       *)
(***************************************************************************)
EXTENDS Notify, HostActions, Settings, Certificates, Upkeep, TLC

VARIABLE part

vars == <<part, notifyVars, hostVars, settingVars, certVars, upkeepVars, installVars>>

\* A host that is sound, or has one thing wrong with it: its file does not load,
\* port 443 is taken, its path units are off.
Sound == [loads |-> TRUE, held |-> FALSE, units |-> TRUE]
HostKinds == {Sound, [Sound EXCEPT !.loads = FALSE], [Sound EXCEPT !.held = TRUE], [Sound EXCEPT !.units = FALSE]}

\* The parts that are not at work start in one of their states.
Init ==
    /\ part \in {"notify", "host", "settings", "certificate", "migrate", "copies", "install"}
    /\ NotifyInit /\ (part # "notify" => \A c \in Channels : channel[c] = Absent)
    /\ HostInit /\ host \in (IF part = "host" THEN HostKinds ELSE {Sound})
    /\ SettingInit /\ (part # "settings" => environ = Unset /\ stored = Unset)
    /\ CertInit /\ (part # "certificate" => file)
    /\ UpkeepInit /\ InstallInit

-----------------------------------------------------------------------------
In(ps) == part \in ps /\ part' = part
NotifyOnly == In({"notify"}) /\ UNCHANGED <<hostVars, settingVars, certVars, upkeepVars, installVars>>
HostOnly == In({"host"}) /\ UNCHANGED <<notifyVars, settingVars, certVars, upkeepVars, installVars>>

NotifyPart == NotifyOnly /\ NotifyNext
\* Besides what is wrong with the host, one thing goes wrong.
HostPart == HostOnly /\ HostNext /\ losses' + failures' <= 1
SettingsPart == In({"settings"}) /\ SettingNext /\ UNCHANGED <<notifyVars, hostVars, certVars, upkeepVars, installVars>>
CertificatePart == In({"certificate"}) /\ CertNext /\ UNCHANGED <<notifyVars, hostVars, settingVars, upkeepVars, installVars>>
UpkeepPart ==
    /\ \/ In({"migrate"}) /\ MigrateNext
       \/ In({"copies"}) /\ CopyNext
    /\ UNCHANGED <<notifyVars, hostVars, settingVars, certVars, installVars>>
InstallPart == In({"install"}) /\ InstallNext /\ UNCHANGED <<notifyVars, hostVars, settingVars, certVars, upkeepVars>>

Next == NotifyPart \/ HostPart \/ SettingsPart \/ CertificatePart \/ UpkeepPart \/ InstallPart

\* The notifier's goroutine goes on and a backoff runs out; the gateway's
\* goroutines and a process that starts run on, and nothing is assumed of a helper
\* (NotifyFairness, HostFairness).
Fairness ==
    /\ WF_vars(NotifyOnly /\ Passes)
    /\ \A c \in Channels : WF_vars(NotifyOnly /\ BackoffOver(c))
    /\ WF_vars(HostOnly /\ Ack) /\ WF_vars(HostOnly /\ Listen)
    /\ \A r \in Ids : /\ WF_vars(HostOnly /\ DrainOver(r)) /\ WF_vars(HostOnly /\ HandConfig(r))
                      /\ WF_vars(HostOnly /\ HandUpdate(r)) /\ WF_vars(HostOnly /\ Act(r))
                      /\ WF_vars(HostOnly /\ WatchLimit(r))

Spec == Init /\ [][Next]_vars /\ Fairness

\* The variables of the part at work; the others never change, so two states
\* with the same view are the same state.
View ==
    <<part,
      CASE part = "notify" -> notifyVars
        [] part = "host" -> hostVars
        [] part = "settings" -> settingVars
        [] part = "certificate" -> certVars
        [] part = "install" -> installVars
        [] OTHER -> upkeepVars>>

=============================================================================
