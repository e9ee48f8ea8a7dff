------------------------------ MODULE Settings ------------------------------
(***************************************************************************)
(* A runtime setting (internal/settings): its console row, the value the   *)
(* environment gives it, the service's cache of the row and the subscriber *)
(* a change is told to (the log level).  The row is written, read back and *)
(* cached in steps of their own, and any of them can fail.                 *)
(*                                                                         *)
(* Two administrators changing the same setting may overlap; Overlapping   *)
(* says whether they do.                                                   *)
(***************************************************************************)
EXTENDS Naturals

CONSTANTS
    SetCallers,      \* console requests in flight
    Values,       \* normalised values Validate accepts
    Default,      \* the definition's default
    Unset,        \* no value
    Stale,        \* a stored value that Validate no longer accepts
    Overlapping,  \* BOOLEAN
    MaxErrors     \* bound: statements that fail

ASSUME SettingsAssumption == Default \in Values /\ Unset \notin Values /\ Stale \notin Values /\ MaxErrors \in Nat

VARIABLES
    environ,   \* EnvValues: the environment's value, or Unset
    stored,    \* the settings row, or Unset
    cached,    \* Service.rows, or Unset
    level,     \* what the subscriber was last told
    caller,    \* per request: what it does, how far it is, what it read back
    answered,  \* history: the change last answered with success, or "other"
    errors

settingVars == <<environ, stored, cached, level, caller, answered, errors>>

Free == [op |-> "none", pc |-> "idle", value |-> Unset, row |-> Unset]

SettingTypeOK ==
    /\ environ \in Values \cup {Unset}
    /\ stored \in Values \cup {Unset, Stale} /\ cached \in Values \cup {Unset} /\ level \in Values
    /\ caller \in [SetCallers -> [op : {"none", "set", "reset"}, pc : {"idle", "write", "read", "cache", "tell"},
                               value : Values \cup {Unset}, row : Values \cup {Unset}]]
    /\ answered \in Values \cup {Unset, "other"} /\ errors \in 0 .. MaxErrors

(* Service.Get: console, else environment, else the default.               *)
Effective(row) == IF row # Unset THEN row ELSE IF environ # Unset THEN environ ELSE Default
(* Service.Load: a row that no longer validates is left out.               *)
LoadRow == IF stored = Stale THEN Unset ELSE stored

SettingInit ==
    /\ environ \in Values \cup {Unset} /\ stored \in {Unset, Stale}
    /\ cached = LoadRow /\ level = Effective(cached)
    /\ caller = [c \in SetCallers |-> Free] /\ answered = "other" /\ errors = 0

Hold(c, pc) == caller' = [caller EXCEPT ![c].pc = pc]
Ends(c) == caller' = [caller EXCEPT ![c] = Free]
Err == errors < MaxErrors /\ errors' = errors + 1

(* set and reset: the key exists, the step-up is fresh, the value is       *)
(* Validate's.                                                             *)
SetStart(c, v) ==
    /\ caller[c] = Free /\ (Overlapping \/ \A d \in SetCallers : caller[d] = Free)
    /\ caller' = [caller EXCEPT ![c] = [op |-> "set", pc |-> "write", value |-> v, row |-> Unset]]
    /\ answered' = "other"
    /\ UNCHANGED <<environ, stored, cached, level, errors>>
ResetStart(c) ==
    /\ caller[c] = Free /\ (Overlapping \/ \A d \in SetCallers : caller[d] = Free)
    /\ caller' = [caller EXCEPT ![c] = [op |-> "reset", pc |-> "write", value |-> Unset, row |-> Unset]]
    /\ answered' = "other"
    /\ UNCHANGED <<environ, stored, cached, level, errors>>

(* Repo.Set writes the row, then reads it back; Repo.Delete removes it.    *)
RepoWrite(c) ==
    /\ caller[c].pc = "write"
    /\ \/ /\ stored' = caller[c].value
          /\ Hold(c, IF caller[c].op = "set" THEN "read" ELSE "cache") /\ UNCHANGED errors
       \/ Err /\ Ends(c) /\ UNCHANGED stored
    /\ UNCHANGED <<environ, cached, level, answered>>
RepoGet(c) ==
    /\ caller[c].pc = "read"
    /\ \/ caller' = [caller EXCEPT ![c].pc = "cache", ![c].row = stored] /\ UNCHANGED errors
       \/ Err /\ Ends(c)
    /\ UNCHANGED <<environ, stored, cached, level, answered>>

(* The cache, under the lock; then the subscribers, outside it.  Set tells *)
(* the value it was given, Reset the one in effect.                        *)
CacheRow(c) ==
    /\ caller[c].pc = "cache"
    /\ cached' = caller[c].row
    /\ Hold(c, "tell")
    /\ UNCHANGED <<environ, stored, level, answered, errors>>
ToldMut(c) == IF caller[c].op = "set" THEN caller[c].value ELSE Default
Told(c) == IF caller[c].op = "set" THEN caller[c].value ELSE Effective(cached)
Tell(c) ==
    /\ caller[c].pc = "tell"
    /\ level' = Told(c)
    /\ answered' = caller[c].value
    /\ Ends(c)
    /\ UNCHANGED <<environ, stored, cached, errors>>

(* The gateway starts again: Load, and the level applied from it.          *)
StartOver ==
    /\ caller' = [c \in SetCallers |-> Free]
    /\ cached' = LoadRow /\ level' = Effective(LoadRow)
    /\ answered' = IF answered = "other" \/ \E c \in SetCallers : caller[c] # Free THEN "other" ELSE answered
    /\ UNCHANGED <<environ, stored, errors>>

SettingNext == StartOver \/ \E c \in SetCallers : RepoWrite(c) \/ RepoGet(c) \/ CacheRow(c) \/ Tell(c) \/ ResetStart(c)
                                                \/ \E v \in Values : SetStart(c, v)

SettingSpec == SettingInit /\ [][SettingNext]_settingVars

-----------------------------------------------------------------------------

(* "Console, else environment, else default ... applies live": a change    *)
(* the console answered is what the row, the cache and the subscriber all  *)
(* say, across restarts, until the next change is asked for.               *)
ChangeApplies == answered # "other" => level = Effective(answered) /\ Effective(cached) = level /\ LoadRow = answered
=============================================================================
