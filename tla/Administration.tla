---------------------------- MODULE Administration ----------------------------
(***************************************************************************)
(* What administrators and the account pages change: who may do what       *)
(* (AccessControl), the settings of the system (SystemSettings), feature   *)
(* flags (FeatureFlags) and one user's settings (UserSettings).  The four  *)
(* share no state.                                                         *)
(***************************************************************************)
EXTENDS AccessControl

CONSTANTS
    Admins,                                  \* requests of administrators
    Keys, Bodies, Readers, MaxCommits,       \* SystemSettings
    Flags, FlagKeys, MaxChanges,             \* FeatureFlags
    Calls                                    \* UserSettings

VARIABLES
    row, cache, patch, read, commits, saves, audits, overlapped,    \* SystemSettings
    flag, flagCall, told, changes, untold,                          \* FeatureFlags
    exists, setting, call, saved, wanted, had                       \* UserSettings

settingsVars == <<row, cache, patch, read, commits, saves, audits, overlapped>>
flagVars == <<flag, flagCall, told, changes, untold>>
userVars == <<exists, setting, call, saved, wanted, had>>

Settings == INSTANCE SystemSettings
Flag == INSTANCE FeatureFlags WITH call <- flagCall
OneUser == INSTANCE UserSettings

ASSUME AdminAssumption == Settings!SettingsAssumption /\ Flag!FlagsAssumption

-----------------------------------------------------------------------------
(* Whatever spelling an administrator sent, the cache and the settings page *)
(* show the same value; as long as no PATCH overlaps another, every entry   *)
(* of the audit log tells a change that was made.                          *)
SettingsTrue == Settings!TypeOK /\ Settings!ReadersAgree /\ Settings!AuditsHappened

(* However creations race, a key names one flag; the log tells the state of *)
(* every flag, unless its last change was not told in its turn.            *)
FlagsTrue == Flag!TypeOK /\ Flag!OneFlagPerKey /\ Flag!LogTellsState

(* What the user has saved is stored and read back, field by field, while   *)
(* the creation of the defaults and the deletion of the user race it.       *)
UserSettingsTrue ==
    /\ OneUser!TypeOK /\ OneUser!SavedIsStored
    /\ OneUser!AnswersWereTrue /\ OneUser!NoOrphan
=============================================================================
