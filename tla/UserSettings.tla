----------------------------- MODULE UserSettings -----------------------------
(***************************************************************************)
(* One user's row of settings (modules/system/setting): created with the   *)
(* defaults by the registration or by the first read, changed by PATCH and *)
(* by a reset, gone with the user.  The row is unique by userId, and the   *)
(* creation by registration runs beside the user's own requests.           *)
(***************************************************************************)
CONSTANT Calls   \* requests in flight

VARIABLES
    exists,   \* whether the user exists
    setting,  \* the row, NoRow when there is none
    call,     \* call[c]: where a request stands
    saved,    \* a PATCH or a reset has been acknowledged (history)
    wanted,   \* the defaults with the acknowledged requests applied in order (history)
    had       \* what "wanted" has been (history)

vars == <<exists, setting, call, saved, wanted, had>>
history == <<saved, wanted, had>>

\* Two fields stand for the six: one on by default, one off.
Fields == {"notifications", "marketingEmails"}
defaultSettings == [notifications |-> TRUE, marketingEmails |-> FALSE]
Setting == [Fields -> BOOLEAN]
NoRow == [f \in {} |-> TRUE]
\* PATCH: some of the fields (UpdateUserSettingSchema, all optional).
Update == UNION {[fields -> BOOLEAN] : fields \in SUBSET Fields}
Idle == [at |-> "idle"]

Init ==
    /\ exists = TRUE
    /\ setting = NoRow
    /\ call = [c \in Calls |-> Idle]
    /\ saved = FALSE /\ wanted = defaultSettings /\ had = {defaultSettings}

Goto(c, state) == call' = [call EXCEPT ![c] = state]
Merge(row, updates) ==
    [f \in Fields |-> IF f \in DOMAIN updates THEN updates[f] ELSE row[f]]
CanWrite(c) == call[c] = Idle /\ exists
Acknowledge(updates) ==
    /\ saved' = TRUE
    /\ wanted' = Merge(wanted, updates)
    /\ had' = had \cup {Merge(wanted, updates)}

(* update: an upsert, one statement.                                       *)
Patch(c, updates) ==
    /\ CanWrite(c)
    /\ setting' = Merge(IF setting = NoRow THEN defaultSettings ELSE setting, updates)
    /\ Acknowledge(updates)
    /\ UNCHANGED <<exists, call>>

(* reset: an upsert of the defaults.                                       *)
Reset(c) ==
    /\ CanWrite(c)
    /\ setting' = defaultSettings
    /\ Acknowledge(defaultSettings)
    /\ UNCHANGED <<exists, call>>

(* get and default look for the row first and create it in a second        *)
(* statement; get answers with the row.                                    *)
Get(c) ==
    /\ call[c] = Idle
    /\ exists
    /\ Goto(c, IF setting = NoRow THEN [at |-> "create", from |-> "get"]
               ELSE [at |-> "answer", row |-> setting])
    /\ UNCHANGED <<exists, setting, history>>
Default(c) ==
    /\ call[c] = Idle
    /\ exists
    /\ Goto(c, IF setting = NoRow THEN [at |-> "create", from |-> "default"] ELSE Idle)
    /\ UNCHANGED <<exists, setting, history>>
\* An upsert in place of the insertion.
CreateAnyway(c) ==
    /\ call[c].at = "create"
    /\ exists
    /\ setting' = defaultSettings
    /\ Goto(c, IF call[c].from = "get" THEN [at |-> "answer", row |-> setting'] ELSE Idle)
    /\ UNCHANGED <<exists, history>>
Create(c) ==
    /\ call[c].at = "create"
    /\ exists /\ setting = NoRow
    /\ setting' = defaultSettings
    /\ Goto(c, IF call[c].from = "get" THEN [at |-> "answer", row |-> setting'] ELSE Idle)
    /\ UNCHANGED <<exists, history>>
\* The unique or the foreign key refuses the row: the request fails.
CreateRefused(c) ==
    /\ call[c].at = "create"
    /\ ~exists \/ setting # NoRow
    /\ Goto(c, Idle)
    /\ UNCHANGED <<exists, setting, history>>
Answer(c) ==
    /\ call[c].at = "answer"
    /\ Goto(c, Idle)
    /\ UNCHANGED <<exists, setting, history>>

\* The user's row goes, and the settings with it (onDelete: Cascade).
DeleteUser ==
    /\ exists
    /\ exists' = FALSE
    /\ setting' = NoRow
    /\ UNCHANGED <<call, history>>

HttpStep(c) ==
    \/ Get(c) \/ (\E updates \in Update : Patch(c, updates)) \/ Reset(c) \/ Answer(c)
Next ==
    \/ \E c \in Calls : HttpStep(c) \/ Default(c) \/ Create(c) \/ CreateRefused(c)
    \/ DeleteUser
Spec == Init /\ [][Next]_vars

-----------------------------------------------------------------------------
TypeOK ==
    /\ exists \in BOOLEAN
    /\ setting \in Setting \cup {NoRow}
    /\ \A c \in Calls : call[c] \in {Idle} \cup [at : {"create"}, from : {"get", "default"}]
                                    \cup [at : {"answer"}, row : Setting]
    /\ saved \in BOOLEAN /\ wanted \in Setting /\ had \subseteq Setting

(* However the creation of the defaults races the user's own requests, what  *)
(* the user has saved is what is stored, field by field.                    *)
SavedIsStored ==
    /\ setting # NoRow => setting = wanted
    /\ (exists /\ saved) => setting # NoRow

(* A read answers with settings the user really had: the defaults, or what   *)
(* the requests up to some point had saved.                                 *)
AnswersWereTrue ==
    \A c \in Calls : call[c].at = "answer" => call[c].row \in had

(* A user that is deleted leaves no settings behind, whatever was under way  *)
(* (a creation that comes too late must fail).                              *)
NoOrphan == ~exists => setting = NoRow
=============================================================================
