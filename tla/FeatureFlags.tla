----------------------------- MODULE FeatureFlags -----------------------------
(***************************************************************************)
(* The administrator's feature flags (modules/admin-feature-flags).  Every *)
(* handler reads first and writes in a second statement; changes of        *)
(* "enabled" are told to the audit log afterwards, which may fail and is   *)
(* then only logged (writeAuditLog).                                       *)
(***************************************************************************)
EXTENDS Naturals

CONSTANTS
    Flags,        \* ids of rows that may be created
    FlagKeys,     \* the unique keys
    Admins,       \* requests in flight
    MaxChanges    \* bound on the changes of "enabled"
FlagsAssumption == MaxChanges \in Nat

VARIABLES
    flag,     \* flag[f]: the row, NoFlag before, Deleted after
    call,     \* call[a]: where a request stands
    told,     \* told[f]: the last value of "enabled" the log tells (history)
    changes,  \* how often "enabled" was written (history)
    untold    \* flags whose last change was not told in its turn (history)

vars == <<flag, call, told, changes, untold>>

Envs == {"PRODUCTION", "STAGING"}
Row == [key : FlagKeys, env : Envs, enabled : BOOLEAN]
NoFlag == [key |-> "none"]
Deleted == [key |-> "deleted"]
Idle == [at |-> "idle"]

Init ==
    /\ flag = [f \in Flags |-> NoFlag]
    /\ call = [a \in Admins |-> Idle]
    /\ told = [f \in Flags |-> FALSE]
    /\ changes = 0
    /\ untold = {}

Exists(f) == flag[f] \notin {NoFlag, Deleted}
Start(a) == call[a] = Idle
Goto(a, state) == call' = [call EXCEPT ![a] = state]
UnchangedLog == UNCHANGED <<told, untold>>
KeyTaken(key) == \E f \in Flags : Exists(f) /\ flag[f].key = key

(* POST: 409 for a key that exists; a new flag is off.                     *)
Create(a, f, key, env) ==
    /\ Start(a)
    /\ flag[f] = NoFlag
    /\ ~KeyTaken(key)
    /\ Goto(a, [at |-> "insert", flag |-> f, row |-> [key |-> key, env |-> env, enabled |-> FALSE]])
    /\ UNCHANGED <<flag, changes>> /\ UnchangedLog

Insert(a) ==
    /\ call[a].at = "insert"
    /\ flag' = IF KeyTaken(call[a].row.key) \/ flag[call[a].flag] # NoFlag THEN flag
               ELSE [flag EXCEPT ![call[a].flag] = call[a].row]
    /\ Goto(a, Idle)
    /\ UNCHANGED changes /\ UnchangedLog

(* PATCH of "enabled", of "env", or both; and the toggle, which writes the *)
(* negation of what it has read.                                           *)
Updates == [enabled : BOOLEAN] \cup [env : Envs] \cup [enabled : BOOLEAN, env : Envs]
Read(a, f, updates, log) ==
    /\ Start(a)
    /\ Exists(f)
    /\ Goto(a, [at |-> "write", flag |-> f, from |-> flag[f].enabled, updates |-> updates,
                log |-> log])
    /\ UNCHANGED <<flag, changes>> /\ UnchangedLog
\* The log is written only for a flag that is turned off.
PatchHalfTold(a, f, updates) ==
    Read(a, f, updates, "enabled" \in DOMAIN updates /\ flag[f].enabled /\ ~updates.enabled)
Patch(a, f, updates) ==
    Read(a, f, updates, "enabled" \in DOMAIN updates /\ updates.enabled # flag[f].enabled)
Toggle(a, f) == Read(a, f, [enabled |-> ~flag[f].enabled], TRUE)

Merged(row, updates) ==
    [field \in DOMAIN row |-> IF field \in DOMAIN updates THEN updates[field] ELSE row[field]]
WillTell(a, f) == call[a].at = "audit" /\ f \in DOMAIN call[a].told
\* A change is not told in its turn when it comes before an earlier one is told,
\* or when the request compared with a value that was replaced since.
OutOfTurn(a, f) == \E b \in Admins \ {a} : WillTell(b, f)
Blind(a, f) == "enabled" \in DOMAIN call[a].updates /\ call[a].from # flag[f].enabled
Write(a) ==
    LET f == call[a].flag IN
    /\ call[a].at = "write"
    /\ changes < MaxChanges
    /\ Exists(f)
    /\ flag' = [flag EXCEPT ![f] = Merged(@, call[a].updates)]
    /\ changes' = changes + 1
    /\ IF call[a].log
       THEN /\ Goto(a, [at |-> "audit", told |-> [g \in {f} |-> call[a].updates.enabled]])
            /\ untold' = IF OutOfTurn(a, f) THEN untold \cup {f} ELSE untold \ {f}
       ELSE /\ Goto(a, Idle)
            /\ untold' = IF Blind(a, f) THEN untold \cup {f} ELSE untold
    /\ UNCHANGED told

(* The log entries of a request.                                           *)
Audit(a) ==
    /\ call[a].at = "audit"
    /\ told' = [f \in Flags |-> IF f \in DOMAIN call[a].told THEN call[a].told[f] ELSE told[f]]
    /\ Goto(a, Idle)
    /\ UNCHANGED <<flag, changes, untold>>
(* A statement throws (also on a row that is gone), the entry is not       *)
(* persisted, or the process stops.                                        *)
Stop(a) ==
    /\ call[a] # Idle
    /\ untold' = untold \cup {f \in Flags : WillTell(a, f)}
    /\ Goto(a, Idle)
    /\ UNCHANGED <<flag, told, changes>>

(* Emergency shutdown: the active flags of an environment are listed, then *)
(* those ids are turned off in one statement.                              *)
Active(env) == {f \in Flags : Exists(f) /\ flag[f].env = env /\ flag[f].enabled}
EmergencyShutdown(a, env) ==
    /\ Start(a)
    /\ Active(env) # {}
    /\ Goto(a, [at |-> "off", env |-> env, flags |-> Active(env)])
    /\ UNCHANGED <<flag, changes>> /\ UnchangedLog
UpdateMany(a) ==
    /\ call[a].at = "off"
    /\ changes < MaxChanges
    /\ changes' = changes + 1
    /\ flag' = [f \in Flags |-> IF f \in call[a].flags /\ Exists(f)
                                THEN [flag[f] EXCEPT !.enabled = FALSE] ELSE flag[f]]
    /\ Goto(a, [at |-> "audit", told |-> [f \in call[a].flags |-> FALSE]])
    /\ untold' = (untold \ call[a].flags) \cup {f \in call[a].flags : OutOfTurn(a, f)}
    /\ UNCHANGED told

(* DELETE: the flag is looked up, then deleted; no log entry.              *)
Delete(a, f) ==
    /\ Start(a)
    /\ Exists(f)
    /\ Goto(a, [at |-> "delete", flag |-> f])
    /\ UNCHANGED <<flag, changes>> /\ UnchangedLog
Remove(a) ==
    /\ call[a].at = "delete"
    /\ flag' = [flag EXCEPT ![call[a].flag] = Deleted]
    /\ Goto(a, Idle)
    /\ UNCHANGED changes /\ UnchangedLog

Request(a) ==
    \/ \E f \in Flags :
        \/ \E key \in FlagKeys, env \in Envs : Create(a, f, key, env)
        \/ \E updates \in Updates : Exists(f) /\ Patch(a, f, updates)
        \/ (Exists(f) /\ Toggle(a, f)) \/ Delete(a, f)
    \/ \E env \in Envs : EmergencyShutdown(a, env)
Statement(a) == Insert(a) \/ Write(a) \/ UpdateMany(a) \/ Remove(a) \/ Audit(a) \/ Stop(a)
Next == \E a \in Admins : Request(a) \/ Statement(a)
Spec == Init /\ [][Next]_vars

-----------------------------------------------------------------------------
TypeOK ==
    /\ flag \in [Flags -> Row \cup {NoFlag, Deleted}]
    /\ \A a \in Admins : call[a].at \in {"idle", "insert", "write", "audit", "off", "delete"}
    /\ told \in [Flags -> BOOLEAN]
    /\ changes \in 0 .. MaxChanges
    /\ untold \subseteq Flags

(* However creations race, a key names one flag (the lookup by key, and the  *)
(* insertion that is refused).                                              *)
OneFlagPerKey ==
    \A f, g \in Flags : (Exists(f) /\ Exists(g) /\ flag[f].key = flag[g].key) => f = g

(* Once nobody has an entry about a flag still to write, the last entry of   *)
(* the log about it tells its state, for all the ways to switch a flag write *)
(* one, unless its last change was not told in its turn.                    *)
LogTellsState ==
    \A f \in Flags \ untold :
        (Exists(f) /\ \A a \in Admins : ~WillTell(a, f)) => flag[f].enabled = told[f]
=============================================================================
