------------------------------ MODULE Accounts ------------------------------
(***************************************************************************)
(* The rows of table User and of the two tables of action tokens:          *)
(* registration, social login, e-mail verification and password reset      *)
(* (auth/usecase, auth/shared/token.ts), the user's and the administrator's*)
(* operations (user/usecase).  Each statement is a step; requests          *)
(* interleave.  Columns email and token are unique.                        *)
(*                                                                         *)
(* An address is a mailbox and whether it is written in lower case: the    *)
(* auth requests are parsed with toLowerCase, the administrator's are not. *)
(***************************************************************************)
EXTENDS Naturals, FiniteSets

CONSTANTS
    Users,         \* the rows that may be created
    Mailboxes,
    Calls,         \* requests in flight
    MaxTokens,     \* bound on the action tokens issued
    NoEmail        \* the address of a row renamed by a soft delete

ASSUME AccountsAssumption == MaxTokens \in Nat

VARIABLES
    user,      \* user[u]: the row, NoRow before, Deleted after
    tokens,    \* rows of EmailVerificationToken and PasswordResetToken
    issued,    \* how many action tokens were signed so far
    used,      \* used[n]: how often token n was accepted (history)
    call,      \* call[c]: what the request has read and does next
    torn,      \* users whose password and flag were written by halves (history)
    crossed    \* users and purposes whose last links crossed (history)

vars == <<user, tokens, issued, used, call, torn, crossed>>
history == <<torn, crossed>>

Purposes == {"verify-email", "reset-password"}
Emails == [box : Mailboxes, lower : BOOLEAN]
Lower(e) == [e EXCEPT !.lower = TRUE]
\* Who chose the password: nobody (social login), the user, an administrator.
\* A row that was never created, or was deleted, has none to choose.
Passwords == {"none", "own", "temporary", "absent", "deleted"}
UserRow == [email : Emails \cup {NoEmail}, verified : BOOLEAN, password : Passwords,
            mustChange : BOOLEAN, active : BOOLEAN]
NoRow == [email |-> NoEmail, verified |-> FALSE, password |-> "absent",
          mustChange |-> FALSE, active |-> FALSE]
Deleted == [NoRow EXCEPT !.password = "deleted"]
TokenRow == [id : 1 .. MaxTokens, user : Users, purpose : Purposes, expired : BOOLEAN]
Idle == [at |-> "idle"]
Call ==
    {Idle}
    \cup [at : {"insert"}, user : Users, row : UserRow]
    \cup [at : {"forget", "issue"}, user : Users, purpose : Purposes]
    \cup [at : {"drop", "consume"}, token : TokenRow]
    \cup [at : {"markVerified", "setPassword", "clearMustChange", "setOwnPassword",
                "setTemporary", "setMustChange"}, user : Users]
    \cup [at : {"setEmail"}, user : Users, email : Emails]

TypeOK ==
    /\ user \in [Users -> UserRow]
    /\ tokens \subseteq TokenRow
    /\ issued \in 0 .. MaxTokens
    /\ used \in [1 .. MaxTokens -> Nat]
    /\ call \in [Calls -> Call]
    /\ torn \subseteq Users
    /\ crossed \subseteq Users \X Purposes

Init ==
    /\ user = [u \in Users |-> NoRow]
    /\ tokens = {}
    /\ issued = 0
    /\ used = [n \in 1 .. MaxTokens |-> 0]
    /\ call = [c \in Calls |-> Idle]
    /\ torn = {}
    /\ crossed = {}

Start(c) == call[c] = Idle /\ UNCHANGED history
At(c, from) == call[c].at = from /\ UNCHANGED history
Goto(c, state) == call' = [call EXCEPT ![c] = state]
Exists(u) == user[u] \notin {NoRow, Deleted}
FindByEmail(e) == {u \in Users : user[u].email = e}
UnchangedTokens == UNCHANGED <<tokens, issued, used>>

-----------------------------------------------------------------------------
(* Creating a row: the address is looked up, then inserted.                *)

Registered(e) == [email |-> e, verified |-> FALSE, password |-> "own",
                  mustChange |-> FALSE, active |-> TRUE]
Social(e, verified) == [email |-> e, verified |-> verified, password |-> "none",
                        mustChange |-> FALSE, active |-> TRUE]
CreatedByAdmin(e, verified, active) ==
    [email |-> e, verified |-> verified, password |-> "temporary",
     mustChange |-> TRUE, active |-> active]

CheckFree(c, u, row) ==
    /\ Start(c)
    /\ user[u] = NoRow
    /\ FindByEmail(row.email) = {}
    /\ Goto(c, [at |-> "insert", user |-> u, row |-> row])
    /\ UNCHANGED user /\ UnchangedTokens

Register(c, u, e) == CheckFree(c, u, Registered(Lower(e)))
AdminCreate(c, u, e, verified, active) ==
    CheckFree(c, u, CreatedByAdmin(e, verified, active))

(* A social login finds the account of the address or creates one, and     *)
(* only ever adds to emailVerified.                                        *)
SocialCreate(c, u, e, verified) == CheckFree(c, u, Social(Lower(e), verified))
SocialUpdate(c, e, verified) ==
    /\ Start(c)
    /\ \E u \in FindByEmail(Lower(e)) :
        /\ user[u].active
        /\ user' = [user EXCEPT ![u].verified = @ \/ verified]
    /\ UNCHANGED call /\ UnchangedTokens

\* insert fails on an address taken since; an unverified account gets a link.
Insert(c) ==
    LET u == call[c].user
        row == call[c].row
        works == user[u] = NoRow /\ FindByEmail(row.email) = {}
    IN
    /\ At(c, "insert")
    /\ user' = IF works THEN [user EXCEPT ![u] = row] ELSE user
    /\ Goto(c, IF works /\ ~row.verified /\ row.password # "none"
               THEN [at |-> "forget", user |-> u, purpose |-> "verify-email"]
               ELSE Idle)
    /\ UnchangedTokens

-----------------------------------------------------------------------------
(* issueActionToken: the user's older tokens of the purpose go, then the   *)
(* new one is created.                                                     *)

Request(c, e, purpose) ==
    /\ Start(c)
    /\ \E u \in FindByEmail(Lower(e)) :
        /\ purpose = "verify-email" => ~user[u].verified
        /\ Goto(c, [at |-> "forget", user |-> u, purpose |-> purpose])
    /\ UNCHANGED user /\ UnchangedTokens
ResendVerification(c, e) == Request(c, e, "verify-email")
ForgotPassword(c, e) == Request(c, e, "reset-password")

OlderTokens(u, purpose) == {t \in tokens : t.user = u /\ t.purpose = purpose}
Issuing(u, purpose) ==
    \E c \in Calls : call[c] = [at |-> "issue", user |-> u, purpose |-> purpose]
\* Links cross when one's deletion runs before the other's creation.
Cross(u, purpose) ==
    /\ crossed' = IF Issuing(u, purpose) THEN crossed \cup {<<u, purpose>>}
                  ELSE crossed \ {<<u, purpose>>}
    /\ UNCHANGED torn
\* A deletion by token rather than by user.
KeepOlder(c) ==
    /\ call[c].at = "forget"
    /\ Cross(call[c].user, call[c].purpose)
    /\ Goto(c, [call[c] EXCEPT !.at = "issue"])
    /\ UNCHANGED <<user, tokens, issued, used>>
Forget(c) ==
    /\ call[c].at = "forget"
    /\ Cross(call[c].user, call[c].purpose)
    /\ tokens' = tokens \ OlderTokens(call[c].user, call[c].purpose)
    /\ Goto(c, [call[c] EXCEPT !.at = "issue"])
    /\ UNCHANGED <<user, issued, used>>
Issue(c) ==
    /\ At(c, "issue")
    /\ issued < MaxTokens
    /\ Exists(call[c].user)
    /\ issued' = issued + 1
    /\ tokens' = tokens \cup {[id |-> issued + 1, user |-> call[c].user,
                               purpose |-> call[c].purpose, expired |-> FALSE]}
    /\ Goto(c, Idle)
    /\ UNCHANGED <<user, used>>

(* verifyActionToken: the row is found, tested, and deleted; the delete of *)
(* a row that is gone fails.                                               *)
FindToken(c, t) ==
    /\ Start(c)
    /\ t \in tokens
    /\ Goto(c, [at |-> IF t.expired THEN "drop" ELSE "consume", token |-> t])
    /\ UNCHANGED user /\ UnchangedTokens
RowsOf(t) == {r \in tokens : r.id = t.id}

DropToken(c) ==
    /\ At(c, "drop")
    /\ tokens' = tokens \ RowsOf(call[c].token)
    /\ Goto(c, Idle)
    /\ UNCHANGED <<user, issued, used>>

AfterToken(t) == [at |-> IF t.purpose = "verify-email" THEN "markVerified" ELSE "setPassword",
                  user |-> t.user]
\* deleteMany does not fail.
ConsumeAnyway(c) ==
    LET t == call[c].token IN
    /\ At(c, "consume")
    /\ tokens' = tokens \ RowsOf(t)
    /\ used' = [used EXCEPT ![t.id] = @ + 1]
    /\ Goto(c, AfterToken(t))
    /\ UNCHANGED <<user, issued>>
Consume(c) ==
    LET t == call[c].token
        works == RowsOf(t) # {}
    IN
    /\ At(c, "consume")
    /\ tokens' = tokens \ RowsOf(t)
    /\ used' = [used EXCEPT ![t.id] = IF works THEN @ + 1 ELSE @]
    /\ Goto(c, IF works THEN AfterToken(t) ELSE Idle)
    /\ UNCHANGED <<user, issued>>

ExpireToken(t) ==
    /\ t \in tokens /\ ~t.expired
    /\ tokens' = (tokens \ {t}) \cup {[t EXCEPT !.expired = TRUE]}
    /\ UNCHANGED <<user, issued, used, call, history>>

-----------------------------------------------------------------------------
\* An update of the row of the call, which fails when the user is gone.
Write(c, row, next) ==
    /\ Exists(call[c].user)
    /\ user' = [user EXCEPT ![call[c].user] = row]
    /\ Goto(c, next)
    /\ UnchangedTokens
RowOf(c) == user[call[c].user]
Then(c, at) == [at |-> at, user |-> call[c].user]

(* A password and the flag that goes with it are written by halves when the *)
(* password comes while another request still has to set the other flag, or *)
(* when the request stops between the two.  The next password written alone *)
(* mends them.                                                             *)
Owes(u, at) == \E c \in Calls : call[c] = [at |-> at, user |-> u]
Tear(u, other) ==
    /\ torn' = IF Owes(u, other) THEN torn \cup {u} ELSE torn \ {u}
    /\ UNCHANGED crossed

MarkVerified(c) ==
    At(c, "markVerified") /\ Write(c, [RowOf(c) EXCEPT !.verified = TRUE], Idle)

(* changePassword with a token: the password, the flag, the verification.  *)
SetPassword(c) ==
    /\ call[c].at = "setPassword"
    /\ Tear(call[c].user, "setMustChange")
    /\ Write(c, [RowOf(c) EXCEPT !.password = "own"], Then(c, "clearMustChange"))
ClearMustChange(c) ==
    At(c, "clearMustChange") /\ Write(c, [RowOf(c) EXCEPT !.mustChange = FALSE],
          IF RowOf(c).verified THEN Idle ELSE Then(c, "markVerified"))

(* changePassword of a user that is logged in: compares, then writes both. *)
ChangeOwnPassword(c, u) ==
    /\ Start(c)
    /\ user[u].password \in {"own", "temporary"}
    /\ Goto(c, [at |-> "setOwnPassword", user |-> u])
    /\ UNCHANGED user /\ UnchangedTokens
SetOwnPassword(c) ==
    /\ call[c].at = "setOwnPassword"
    /\ Tear(call[c].user, "setMustChange")
    /\ Write(c, [RowOf(c) EXCEPT !.password = "own", !.mustChange = FALSE], Idle)

(* resetUserPassword: the repository's updatePassword clears the flag that *)
(* the next statement sets.                                                *)
ResetUserPassword(c, u) ==
    /\ Start(c)
    /\ Exists(u)
    /\ Goto(c, [at |-> "setTemporary", user |-> u])
    /\ UNCHANGED user /\ UnchangedTokens
SetTemporary(c) ==
    /\ call[c].at = "setTemporary"
    /\ Tear(call[c].user, "clearMustChange")
    /\ Write(c, [RowOf(c) EXCEPT !.password = "temporary", !.mustChange = FALSE],
             Then(c, "setMustChange"))
SetMustChange(c) ==
    At(c, "setMustChange") /\ Write(c, [RowOf(c) EXCEPT !.mustChange = TRUE], Idle)

\* The administrator's update: the address is looked up, then written.
UpdateEmail(c, u, e) ==
    /\ Start(c)
    /\ Exists(u) /\ user[u].email # e
    /\ FindByEmail(e) = {}
    /\ Goto(c, [at |-> "setEmail", user |-> u, email |-> e])
    /\ UNCHANGED user /\ UnchangedTokens
SetEmail(c) ==
    /\ At(c, "setEmail")
    /\ FindByEmail(call[c].email) = {}
    /\ Write(c, [RowOf(c) EXCEPT !.email = call[c].email], Idle)

VerifyUserEmail(c, u) ==
    /\ Start(c)
    /\ Exists(u)
    /\ user' = [user EXCEPT ![u].verified = TRUE]
    /\ UNCHANGED call /\ UnchangedTokens

\* A soft delete renames the row and frees its address; a hard one cascades.
Rename(row) == [row EXCEPT !.email = NoEmail, !.active = FALSE]
SoftDelete(c, u) ==
    /\ Start(c)
    /\ Exists(u) /\ user[u].active
    /\ user' = [user EXCEPT ![u] = Rename(@)]
    /\ UNCHANGED call /\ UnchangedTokens
\* The tokens of the user survive.
HardDeleteRow(c, u) ==
    /\ Start(c)
    /\ Exists(u)
    /\ user' = [user EXCEPT ![u] = Deleted]
    /\ UNCHANGED <<call, tokens, issued, used>>
HardDelete(c, u) ==
    /\ Start(c)
    /\ Exists(u)
    /\ user' = [user EXCEPT ![u] = Deleted]
    /\ tokens' = {t \in tokens : t.user # u}
    /\ UNCHANGED <<call, issued, used>>

\* A statement throws (on a row that is gone, on an address taken since, or
\* for want of the database), or the process stops before it.
CallFails(c) ==
    /\ call[c] # Idle
    /\ torn' = torn \cup
           {u \in Users : \E at \in {"clearMustChange", "setMustChange"} :
                            call[c] = [at |-> at, user |-> u]}
    /\ Goto(c, Idle)
    /\ UNCHANGED <<user, crossed>> /\ UnchangedTokens

AuthStep(c) ==
    \/ \E u \in Users, e \in Emails : Register(c, u, e)
    \/ \E u \in Users, e \in Emails, v \in BOOLEAN : SocialCreate(c, u, e, v)
    \/ \E e \in Emails, v \in BOOLEAN : SocialUpdate(c, e, v)
    \/ \E e \in Emails : ResendVerification(c, e) \/ ForgotPassword(c, e)
    \/ \E t \in tokens : FindToken(c, t)
    \/ Insert(c) \/ Forget(c) \/ Issue(c) \/ DropToken(c) \/ Consume(c)
    \/ MarkVerified(c) \/ SetPassword(c) \/ ClearMustChange(c)
UserStep(c) ==
    \/ \E u \in Users : ChangeOwnPassword(c, u) \/ HardDelete(c, u)
    \/ SetOwnPassword(c)
AdminStep(c) ==
    \/ \E u \in Users, e \in Emails : UpdateEmail(c, u, e)
    \/ \E u \in Users, e \in Emails, v, a \in BOOLEAN : AdminCreate(c, u, e, v, a)
    \/ \E u \in Users : ResetUserPassword(c, u) \/ VerifyUserEmail(c, u) \/ SoftDelete(c, u)
    \/ SetTemporary(c) \/ SetMustChange(c) \/ SetEmail(c)

Next ==
    \/ \E c \in Calls : AuthStep(c) \/ UserStep(c) \/ AdminStep(c) \/ CallFails(c)
    \/ \E t \in tokens : ExpireToken(t)

Spec == Init /\ [][Next]_vars

-----------------------------------------------------------------------------
(* An action token is accepted once: of two requests that found its row,   *)
(* the second fails in the delete.                                         *)
TokensSingleUse == \A n \in 1 .. MaxTokens : used[n] =< 1

(* Tokens belong to users that exist: one never verifies or resets the     *)
(* account of a later user.                                                *)
TokensHaveUsers == \A t \in tokens : Exists(t.user)

(* A new link makes the older ones of its purpose useless: a user has one  *)
(* token of each purpose at most, unless the last two links crossed.       *)
OneLiveToken ==
    \A s, t \in tokens :
        s.user = t.user /\ s.purpose = t.purpose /\ <<s.user, s.purpose>> \notin crossed => s = t

(* mustChangePassword is set exactly on the accounts whose password an     *)
(* administrator chose, once the request that wrote the password has       *)
(* written the flag, unless the two were written by halves.                *)
TemporaryMustChange ==
    \A u \in Users \ torn :
        ~Owes(u, "clearMustChange") /\ ~Owes(u, "setMustChange") =>
            (user[u].mustChange <=> user[u].password = "temporary")

(* Both hold however requests interleave, fail and stop.                   *)
AccountsInOrder == OneLiveToken /\ TemporaryMustChange

=============================================================================
