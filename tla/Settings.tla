------------------------------ MODULE Settings ------------------------------
(***************************************************************************)
(* What `hollis config set` promises: each command changes one setting, at *)
(* once and for everybody, and leaves the others as they are; success is   *)
(* reported only of a change that was made, and a command that reports     *)
(* failure, or that is killed, has changed its one setting or nothing.     *)
(***************************************************************************)
CONSTANTS
    Callers,    \* commands
    Keys,       \* settings
    Values,     \* what they may be
    Unset       \* the built-in default

VARIABLES
    settings,   \* the value of each key
    asked,      \* what each command is to set
    made,       \* the commands whose change was made
    told        \* what each has reported: "", "ok", "failed" or "killed"

settingsVars == <<settings, asked, made, told>>

Request == [key : Keys, value : Values \cup {Unset}]

SettingsInit ==
    /\ settings \in [Keys -> Values \cup {Unset}]
    /\ asked \in [Callers -> Request]
    /\ made = {}
    /\ told = [c \in Callers |-> ""]

Change(c) ==
    /\ told[c] = "" /\ c \notin made
    /\ settings' = [settings EXCEPT ![asked[c].key] = asked[c].value]
    /\ made' = made \cup {c}
    /\ UNCHANGED <<asked, told>>

Report(c) ==
    /\ told[c] = ""
    /\ \/ c \in made /\ told' = [told EXCEPT ![c] = "ok"]
       \/ told' = [told EXCEPT ![c] = "failed"]
       \/ told' = [told EXCEPT ![c] = "killed"]
    /\ UNCHANGED <<settings, asked, made>>

SettingsNext == \E c \in Callers : Change(c) \/ Report(c)

SettingsSpec == SettingsInit /\ [][SettingsNext]_settingsVars
=============================================================================
