---------------------------- MODULE AccountsProofs ----------------------------
(***************************************************************************)
(* Proofs about the rows and the action tokens of Accounts, for any users, *)
(* mailboxes, calls and bounds, and any number of requests in flight; then *)
(* about the sessions of the same users (Sessions).                        *)
(***************************************************************************)
EXTENDS UserAccounts, FiniteSetTheorems, FunctionTheorems, TLAPS

(* The row of an account: a row that exists never looks like one that was  *)
(* not created yet, or was deleted.                                        *)
AccountRow == {r \in UserRow : r.password \in {"none", "own", "temporary"}}
RowsInv ==
    /\ \A u \in Users : Exists(u) => user[u] \in AccountRow
    /\ \A c \in Calls : call[c].at = "insert" => call[c].row \in AccountRow

(* A row of the token tables carries a number that was issued and was not  *)
(* accepted yet; a number is issued once.                                  *)
NumbersInv ==
    /\ \A t \in tokens : t.id <= issued /\ used[t.id] = 0
    /\ \A n \in 1 .. MaxTokens : n > issued => used[n] = 0

HistoryType == torn \subseteq Users /\ crossed \subseteq Users \X Purposes
AccountsInv == TypeOK /\ RowsInv /\ NumbersInv /\ TokensSingleUse /\ TokensHaveUsers

-----------------------------------------------------------------------------
(***************************************************************************)
(* The states of a call.                                                   *)
(***************************************************************************)
LEMMA CallFields ==
    ASSUME NEW s \in Call
    PROVE  /\ s.at = "insert" => s \in [at : {"insert"}, user : Users, row : UserRow]
           /\ s.at \in {"forget", "issue"} =>
                s \in [at : {"forget", "issue"}, user : Users, purpose : Purposes]
           /\ s.at \in {"drop", "consume"} => s \in [at : {"drop", "consume"}, token : TokenRow]
           /\ s.at \in {"markVerified", "setPassword", "clearMustChange", "setOwnPassword",
                        "setTemporary", "setMustChange"} =>
                s \in [at : {"markVerified", "setPassword", "clearMustChange", "setOwnPassword",
                             "setTemporary", "setMustChange"}, user : Users]
           /\ s.at = "setEmail" => s \in [at : {"setEmail"}, user : Users, email : Emails]
    BY DEF Call, Idle

LEMMA GotoType ==
    ASSUME call \in [Calls -> Call], NEW c \in Calls, NEW s \in Call, Goto(c, s)
    PROVE  /\ call' \in [Calls -> Call]
           /\ call'[c] = s
           /\ \A d \in Calls \ {c} : call'[d] = call[d]
    BY DEF Goto

(* A step that leaves the tokens alone, turns no account into a missing    *)
(* row, and moves one call to a state whose row, if any, is an account's.  *)
LEMMA QuietTokens ==
    ASSUME AccountsInv, HistoryType', UnchangedTokens,
           user' \in [Users -> UserRow],
           \A u \in Users : user'[u] = user[u] \/ user'[u] \in AccountRow,
           NEW c \in Calls, NEW s \in Call, Goto(c, s) \/ UNCHANGED call,
           s.at = "insert" => s.row \in AccountRow
    PROVE  AccountsInv'
    <1>0. TypeOK /\ RowsInv /\ UNCHANGED <<tokens, issued, used>>
        BY DEF AccountsInv, UnchangedTokens
    <1>1. /\ call' \in [Calls -> Call]
          /\ \A d \in Calls : call'[d] = call[d] \/ call'[d] = s
        BY <1>0, GotoType DEF TypeOK
    <1>2. TypeOK'
        BY <1>0, <1>1 DEF TypeOK, HistoryType
    <1>3. RowsInv'
        BY <1>0, <1>1 DEF RowsInv, Exists
    <1>4. NumbersInv' /\ TokensSingleUse'
        BY <1>0 DEF AccountsInv, NumbersInv, TokensSingleUse
    <1>5. \A u \in Users : user'[u] \in AccountRow => Exists(u)'
        BY DEF AccountRow, Exists, NoRow, Deleted
    <1>6. \A t \in tokens : t.user \in Users
        BY <1>0 DEF TypeOK, TokenRow
    <1>7. TokensHaveUsers'
        BY <1>0, <1>5, <1>6 DEF AccountsInv, TokensHaveUsers, Exists
    <1> QED BY <1>2, <1>3, <1>4, <1>7 DEF AccountsInv

-----------------------------------------------------------------------------
(***************************************************************************)
(* Requests that start, and statements on rows of users.                   *)
(***************************************************************************)
LEMMA NewRows ==
    ASSUME NEW e \in Emails, NEW verified \in BOOLEAN, NEW active \in BOOLEAN
    PROVE  /\ Lower(e) \in Emails
           /\ Registered(Lower(e)) \in AccountRow
           /\ Social(Lower(e), verified) \in AccountRow
           /\ CreatedByAdmin(e, verified, active) \in AccountRow
    BY DEF Emails, Lower, Registered, Social, CreatedByAdmin, AccountRow, UserRow, Passwords

LEMMA CheckFreeInv ==
    ASSUME AccountsInv, HistoryType', NEW c \in Calls, NEW u \in Users, NEW row \in AccountRow,
           CheckFree(c, u, row)
    PROVE  AccountsInv'
    <1>1. [at |-> "insert", user |-> u, row |-> row] \in Call
        BY DEF Call, AccountRow
    <1> QED BY <1>1, QuietTokens DEF CheckFree, AccountsInv, TypeOK

LEMMA StartInv ==
    ASSUME AccountsInv, HistoryType', NEW c \in Calls,
           \/ \E e \in Emails : ResendVerification(c, e) \/ ForgotPassword(c, e)
           \/ \E t \in tokens : FindToken(c, t)
           \/ \E u \in Users : ChangeOwnPassword(c, u) \/ ResetUserPassword(c, u)
           \/ \E u \in Users, e \in Emails : UpdateEmail(c, u, e)
           \/ CallFails(c)
    PROVE  AccountsInv'
    <1>0. TypeOK /\ tokens \subseteq TokenRow
        BY DEF AccountsInv, TypeOK
    <1>1. \E s \in Call : Goto(c, s) /\ s.at # "insert"
        <2>1. ASSUME NEW e \in Emails, ResendVerification(c, e) \/ ForgotPassword(c, e)
              PROVE  \E s \in Call : Goto(c, s) /\ s.at # "insert"
            <3>1. PICK u \in Users, p \in Purposes : Goto(c, [at |-> "forget", user |-> u, purpose |-> p])
                BY <2>1 DEF ResendVerification, ForgotPassword, Request, FindByEmail, Purposes
            <3>2. [at |-> "forget", user |-> u, purpose |-> p] \in Call
                BY DEF Call
            <3> QED BY <3>1, <3>2
        <2>2. ASSUME NEW t \in tokens, FindToken(c, t)
              PROVE  \E s \in Call : Goto(c, s) /\ s.at # "insert"
            <3>1. PICK a \in {"drop", "consume"} : Goto(c, [at |-> a, token |-> t])
                BY <2>2 DEF FindToken
            <3>2. [at |-> a, token |-> t] \in Call
                BY <1>0 DEF Call
            <3> QED BY <3>1, <3>2
        <2>3. ASSUME NEW u \in Users, ChangeOwnPassword(c, u) \/ ResetUserPassword(c, u)
              PROVE  \E s \in Call : Goto(c, s) /\ s.at # "insert"
            <3>1. PICK a \in {"setOwnPassword", "setTemporary"} : Goto(c, [at |-> a, user |-> u])
                BY <2>3 DEF ChangeOwnPassword, ResetUserPassword
            <3>2. [at |-> a, user |-> u] \in Call
                BY DEF Call
            <3> QED BY <3>1, <3>2
        <2>4. ASSUME NEW u \in Users, NEW e \in Emails, UpdateEmail(c, u, e)
              PROVE  \E s \in Call : Goto(c, s) /\ s.at # "insert"
            <3>1. [at |-> "setEmail", user |-> u, email |-> e] \in Call
                BY DEF Call
            <3> QED BY <2>4, <3>1 DEF UpdateEmail
        <2>5. CallFails(c) => \E s \in Call : Goto(c, s) /\ s.at # "insert"
            BY DEF CallFails, Call, Idle
        <2> QED BY <2>1, <2>2, <2>3, <2>4, <2>5
    <1>2. user' = user /\ UnchangedTokens
        BY DEF ResendVerification, ForgotPassword, Request, FindToken, ChangeOwnPassword,
               ResetUserPassword, UpdateEmail, CallFails
    <1> QED BY <1>0, <1>1, <1>2, QuietTokens DEF TypeOK

(* An update of a row that exists by one that is still an account's.       *)
LEMMA WriteInv ==
    ASSUME AccountsInv, HistoryType', NEW c \in Calls, call[c].user \in Users, NEW row, NEW s \in Call,
           s.at # "insert",
           user[call[c].user] \in AccountRow => row \in AccountRow,
           Write(c, row, s)
    PROVE  AccountsInv'
    <1>1. user[call[c].user] \in AccountRow
        BY DEF AccountsInv, RowsInv, Write
    <1>2. row \in AccountRow /\ row \in UserRow
        BY <1>1 DEF AccountRow
    <1>3. /\ user' \in [Users -> UserRow]
          /\ \A u \in Users : user'[u] = user[u] \/ user'[u] \in AccountRow
        BY <1>2 DEF AccountsInv, TypeOK, Write
    <1> QED BY <1>3, QuietTokens DEF Write

LEMMA RowUpdates ==
    ASSUME NEW r \in AccountRow
    PROVE  /\ [r EXCEPT !.verified = TRUE] \in AccountRow
           /\ [r EXCEPT !.password = "own"] \in AccountRow
           /\ [r EXCEPT !.mustChange = FALSE] \in AccountRow
           /\ [r EXCEPT !.mustChange = TRUE] \in AccountRow
           /\ [r EXCEPT !.password = "own", !.mustChange = FALSE] \in AccountRow
           /\ [r EXCEPT !.password = "temporary", !.mustChange = FALSE] \in AccountRow
           /\ \A e \in Emails : [r EXCEPT !.email = e] \in AccountRow
           /\ Rename(r) \in AccountRow
           /\ \A v \in BOOLEAN : [r EXCEPT !.verified = @ \/ v] \in AccountRow
    BY DEF AccountRow, UserRow, Passwords, Rename

LEMMA StatementInv ==
    ASSUME AccountsInv, HistoryType', NEW c \in Calls,
           \/ MarkVerified(c) \/ SetPassword(c) \/ ClearMustChange(c) \/ SetOwnPassword(c)
           \/ SetTemporary(c) \/ SetMustChange(c) \/ SetEmail(c)
    PROVE  AccountsInv'
    <1>1. call[c].user \in Users /\ call[c] \in Call
        BY CallFields DEF AccountsInv, TypeOK, MarkVerified, SetPassword, ClearMustChange,
           SetOwnPassword, SetTemporary, SetMustChange, SetEmail, At
    <1>2. /\ Idle \in Call /\ Idle.at # "insert"
          /\ \A a \in {"markVerified", "clearMustChange", "setMustChange"} :
               Then(c, a) \in Call /\ Then(c, a).at # "insert"
        BY <1>1 DEF Call, Idle, Then
    <1>3. CASE MarkVerified(c)
        BY <1>1, <1>2, <1>3, RowUpdates, WriteInv DEF MarkVerified, RowOf, At
    <1>4. CASE SetPassword(c)
        BY <1>1, <1>2, <1>4, RowUpdates, WriteInv DEF SetPassword, RowOf, At
    <1>5. CASE ClearMustChange(c)
        BY <1>1, <1>2, <1>5, RowUpdates, WriteInv DEF ClearMustChange, RowOf, At
    <1>6. CASE SetOwnPassword(c)
        BY <1>1, <1>2, <1>6, RowUpdates, WriteInv DEF SetOwnPassword, RowOf, At
    <1>7. CASE SetTemporary(c)
        BY <1>1, <1>2, <1>7, RowUpdates, WriteInv DEF SetTemporary, RowOf, At
    <1>8. CASE SetMustChange(c)
        BY <1>1, <1>2, <1>8, RowUpdates, WriteInv DEF SetMustChange, RowOf, At
    <1>9. CASE SetEmail(c)
        <2>1. call[c].email \in Emails
            BY <1>1, <1>9, CallFields DEF SetEmail, At
        <2> QED BY <1>1, <1>2, <1>9, <2>1, RowUpdates, WriteInv DEF SetEmail, RowOf, At
    <1> QED BY <1>3, <1>4, <1>5, <1>6, <1>7, <1>8, <1>9

LEMMA DirectInv ==
    ASSUME AccountsInv, HistoryType', NEW c \in Calls,
           \/ \E e \in Emails, v \in BOOLEAN : SocialUpdate(c, e, v)
           \/ \E u \in Users : VerifyUserEmail(c, u) \/ SoftDelete(c, u)
    PROVE  AccountsInv'
    <1>0. TypeOK /\ RowsInv
        BY DEF AccountsInv
    <1>1. UnchangedTokens /\ UNCHANGED call
        BY DEF SocialUpdate, VerifyUserEmail, SoftDelete
    <1>2. \E u \in Users : \E row \in AccountRow : user' = [user EXCEPT ![u] = row]
        <2>1. ASSUME NEW e \in Emails, NEW v \in BOOLEAN, SocialUpdate(c, e, v)
              PROVE  \E u \in Users : \E row \in AccountRow : user' = [user EXCEPT ![u] = row]
            <3>1. PICK u \in Users : /\ user[u].active
                                     /\ user' = [user EXCEPT ![u] = [user[u] EXCEPT !.verified = @ \/ v]]
                BY <2>1 DEF SocialUpdate, FindByEmail
            <3>2. Exists(u)
                BY <3>1 DEF Exists, NoRow, Deleted
            <3> QED BY <1>0, <3>1, <3>2, RowUpdates DEF RowsInv
        <2>2. ASSUME NEW u \in Users, VerifyUserEmail(c, u)
              PROVE  \E row \in AccountRow : user' = [user EXCEPT ![u] = row]
            BY <1>0, <2>2, RowUpdates DEF VerifyUserEmail, RowsInv
        <2>3. ASSUME NEW u \in Users, SoftDelete(c, u)
              PROVE  \E row \in AccountRow : user' = [user EXCEPT ![u] = row]
            BY <1>0, <2>3, RowUpdates DEF SoftDelete, RowsInv
        <2> QED BY <2>1, <2>2, <2>3
    <1>3. /\ user' \in [Users -> UserRow]
          /\ \A u \in Users : user'[u] = user[u] \/ user'[u] \in AccountRow
        BY <1>0, <1>2 DEF TypeOK, AccountRow
    <1>4. Idle \in Call /\ Idle.at # "insert"
        BY DEF Call, Idle
    <1> QED BY <1>1, <1>3, <1>4, QuietTokens

LEMMA InsertInv ==
    ASSUME AccountsInv, HistoryType', NEW c \in Calls, Insert(c)
    PROVE  AccountsInv'
    <1>1. call[c].user \in Users /\ call[c].row \in AccountRow
        BY CallFields DEF AccountsInv, TypeOK, RowsInv, Insert, At
    <1>2. \E s \in Call : Goto(c, s) /\ s.at # "insert"
        <2>1. /\ [at |-> "forget", user |-> call[c].user, purpose |-> "verify-email"] \in Call
              /\ Idle \in Call /\ Idle.at # "insert"
            BY <1>1 DEF Call, Idle, Purposes
        <2> QED BY <2>1 DEF Insert, At
    <1>3. /\ user' \in [Users -> UserRow]
          /\ \A u \in Users : user'[u] = user[u] \/ user'[u] \in AccountRow
        BY <1>1 DEF AccountsInv, TypeOK, AccountRow, Insert, At
    <1> QED BY <1>2, <1>3, QuietTokens DEF Insert, At

-----------------------------------------------------------------------------
(***************************************************************************)
(* The tables of tokens.                                                   *)
(***************************************************************************)
(* Rows of tokens go, and numbers are accepted only with the row that      *)
(* carries them.                                                           *)
LEMMA FewerTokens ==
    ASSUME AccountsInv, HistoryType', tokens' \subseteq tokens,
           issued' = issued,
           used' \in [1 .. MaxTokens -> Nat],
           \A n \in 1 .. MaxTokens :
             \/ used'[n] = used[n]
             \/ used'[n] = used[n] + 1 /\ (\E t \in tokens : t.id = n)
                                       /\ (\A t \in tokens' : t.id # n),
           call' \in [Calls -> Call],
           \A d \in Calls : call'[d].at = "insert" => call'[d] = call[d],
           user' \in [Users -> UserRow],
           \A u \in Users : user'[u] = user[u] \/ user'[u] = Deleted,
           \A t \in tokens' : user'[t.user] = user[t.user]
    PROVE  AccountsInv'
    <1>0. TypeOK /\ RowsInv /\ NumbersInv /\ TokensSingleUse /\ TokensHaveUsers
        BY DEF AccountsInv
    <1>1. TypeOK'
        BY <1>0 DEF TypeOK, HistoryType
    <1>2. RowsInv'
        BY <1>0 DEF RowsInv, Exists
    <1>3. \A n \in 1 .. MaxTokens : used'[n] = used[n] \/ (used'[n] = used[n] + 1 /\ used[n] = 0 /\ n <= issued)
        BY <1>0 DEF NumbersInv
    <1>4. \A t \in tokens' : t.id \in 1 .. MaxTokens /\ t \in tokens /\ used'[t.id] = used[t.id]
        BY <1>0 DEF TypeOK, TokenRow
    <1>5. NumbersInv'
        BY <1>0, <1>3, <1>4, AccountsAssumption DEF NumbersInv, TypeOK
    <1>6. TokensSingleUse'
        BY <1>0, <1>3 DEF NumbersInv, TokensSingleUse, TypeOK
    <1>7. TokensHaveUsers'
        BY <1>0 DEF TokensHaveUsers, Exists
    <1> QED BY <1>1, <1>2, <1>5, <1>6, <1>7 DEF AccountsInv

LEMMA ForgetInv ==
    ASSUME AccountsInv, HistoryType', NEW c \in Calls, Forget(c) \/ DropToken(c)
    PROVE  AccountsInv'
    <1>0. TypeOK
        BY DEF AccountsInv
    <1>1. \E s \in Call : Goto(c, s) /\ s.at # "insert"
        <2>1. ASSUME Forget(c) PROVE \E s \in Call : Goto(c, s) /\ s.at # "insert"
            <3>1. call[c] \in [at : {"forget", "issue"}, user : Users, purpose : Purposes]
                BY <1>0, <2>1, CallFields DEF TypeOK, Forget, At
            <3>2. /\ [call[c] EXCEPT !.at = "issue"] \in Call
                  /\ [call[c] EXCEPT !.at = "issue"].at # "insert"
                BY <3>1 DEF Call
            <3> QED BY <2>1, <3>2 DEF Forget, At
        <2>2. DropToken(c) => \E s \in Call : Goto(c, s) /\ s.at # "insert"
            BY DEF DropToken, Call, Idle, At
        <2> QED BY <2>1, <2>2
    <1>2. /\ call' \in [Calls -> Call]
          /\ \A d \in Calls : call'[d].at = "insert" => call'[d] = call[d]
        BY <1>0, <1>1, GotoType DEF TypeOK
    <1>3. tokens' \subseteq tokens /\ UNCHANGED <<user, issued, used>>
        BY DEF Forget, DropToken, At
    <1> QED BY <1>0, <1>2, <1>3, FewerTokens DEF TypeOK

LEMMA ConsumeInv ==
    ASSUME AccountsInv, HistoryType', NEW c \in Calls, Consume(c)
    PROVE  AccountsInv'
    <1>0. TypeOK /\ call[c] \in [at : {"drop", "consume"}, token : TokenRow]
        BY CallFields DEF AccountsInv, TypeOK, Consume, At
    <1> DEFINE t == call[c].token
    <1>1. t \in TokenRow /\ t.id \in 1 .. MaxTokens
        BY <1>0 DEF TokenRow
    <1>2. \E s \in Call : Goto(c, s) /\ s.at # "insert"
        <2>1. /\ AfterToken(t) \in Call /\ AfterToken(t).at # "insert"
              /\ Idle \in Call /\ Idle.at # "insert"
            BY <1>1 DEF Call, Idle, AfterToken, TokenRow
        <2> QED BY <2>1 DEF Consume, At
    <1>3. /\ call' \in [Calls -> Call]
          /\ \A d \in Calls : call'[d].at = "insert" => call'[d] = call[d]
        BY <1>0, <1>2, GotoType DEF TypeOK
    <1>4. /\ UNCHANGED <<user, issued>>
          /\ tokens' = tokens \ RowsOf(t)
          /\ used' = [used EXCEPT ![t.id] = IF RowsOf(t) # {} THEN @ + 1 ELSE @]
        BY DEF Consume, At
    <1> HIDE DEF t
    <1>5. /\ tokens' \subseteq tokens
          /\ \A r \in tokens' : r.id # t.id
          /\ RowsOf(t) # {} => \E r \in tokens : r.id = t.id
        BY <1>4 DEF RowsOf
    <1>6. /\ used' \in [1 .. MaxTokens -> Nat]
          /\ \A n \in 1 .. MaxTokens :
               \/ used'[n] = used[n]
               \/ used'[n] = used[n] + 1 /\ n = t.id /\ RowsOf(t) # {}
        BY <1>0, <1>1, <1>4 DEF TypeOK
    <1> QED BY <1>0, <1>3, <1>4, <1>5, <1>6, FewerTokens DEF TypeOK

LEMMA HardDeleteInv ==
    ASSUME AccountsInv, HistoryType', NEW c \in Calls, NEW u \in Users, HardDelete(c, u)
    PROVE  AccountsInv'
    <1>0. TypeOK
        BY DEF AccountsInv
    <1>1. /\ user' = [user EXCEPT ![u] = Deleted] /\ Deleted \in UserRow
          /\ tokens' = {t \in tokens : t.user # u}
          /\ UNCHANGED <<call, issued, used>>
        BY DEF HardDelete, Deleted, NoRow, UserRow, Passwords
    <1> QED BY <1>0, <1>1, FewerTokens DEF TypeOK

LEMMA IssueInv ==
    ASSUME AccountsInv, HistoryType', NEW c \in Calls, Issue(c)
    PROVE  AccountsInv'
    <1>0. TypeOK /\ RowsInv /\ NumbersInv /\ TokensSingleUse /\ TokensHaveUsers
        BY DEF AccountsInv
    <1>1. call[c] \in [at : {"forget", "issue"}, user : Users, purpose : Purposes]
        BY <1>0, CallFields DEF TypeOK, Issue, At
    <1>2. PICK t \in TokenRow : /\ t.id = issued + 1 /\ t.user = call[c].user
                                /\ tokens' = tokens \cup {t}
        <2>1. issued + 1 \in 1 .. MaxTokens
            BY <1>0, AccountsAssumption DEF Issue, TypeOK, At
        <2>2. [id |-> issued + 1, user |-> call[c].user,
               purpose |-> call[c].purpose, expired |-> FALSE] \in TokenRow
            BY <1>1, <2>1 DEF TokenRow
        <2> QED BY <2>2 DEF Issue, At
    <1>3. issued' = issued + 1 /\ issued < MaxTokens /\ Exists(call[c].user) /\ UNCHANGED <<user, used>>
        BY DEF Issue, At
    <1>4. Idle \in Call /\ Goto(c, Idle) /\ Idle.at # "insert"
        BY DEF Issue, Call, Idle, At
    <1>5. /\ call' \in [Calls -> Call]
          /\ \A d \in Calls : call'[d].at = "insert" => call'[d] = call[d]
        BY <1>0, <1>4, GotoType DEF TypeOK
    <1>6. TypeOK'
        BY <1>0, <1>2, <1>3, <1>5, AccountsAssumption DEF TypeOK, HistoryType
    <1>7. RowsInv'
        BY <1>0, <1>3, <1>5 DEF RowsInv, Exists
    <1>8. NumbersInv'
        <2>1. \A r \in tokens : r.id <= issued' /\ used'[r.id] = 0
            BY <1>0, <1>3, AccountsAssumption DEF NumbersInv, TypeOK, TokenRow
        <2>2. t.id <= issued' /\ used'[t.id] = 0
            BY <1>0, <1>2, <1>3, AccountsAssumption DEF NumbersInv, TypeOK, TokenRow
        <2>3. \A n \in 1 .. MaxTokens : n > issued' => used'[n] = 0
            BY <1>0, <1>3, AccountsAssumption DEF NumbersInv, TypeOK
        <2> QED BY <1>2, <2>1, <2>2, <2>3 DEF NumbersInv
    <1>9. TokensSingleUse' /\ TokensHaveUsers'
        BY <1>0, <1>2, <1>3 DEF TokensSingleUse, TokensHaveUsers, Exists
    <1> QED BY <1>6, <1>7, <1>8, <1>9 DEF AccountsInv

LEMMA ExpireInv ==
    ASSUME AccountsInv, HistoryType', NEW t \in tokens, ExpireToken(t)
    PROVE  AccountsInv'
    <1>0. TypeOK /\ RowsInv /\ NumbersInv /\ TokensSingleUse /\ TokensHaveUsers
        BY DEF AccountsInv
    <1>1. PICK r \in TokenRow : /\ r.id = t.id /\ r.user = t.user
                                /\ tokens' = (tokens \ {t}) \cup {r}
        BY <1>0 DEF ExpireToken, TypeOK, TokenRow
    <1>2. UNCHANGED <<user, issued, used, call>>
        BY DEF ExpireToken
    <1>3. TypeOK' /\ RowsInv'
        BY <1>0, <1>1, <1>2 DEF TypeOK, HistoryType, RowsInv, Exists
    <1>4. NumbersInv' /\ TokensSingleUse' /\ TokensHaveUsers'
        BY <1>0, <1>1, <1>2 DEF NumbersInv, TokensSingleUse, TokensHaveUsers, Exists
    <1> QED BY <1>3, <1>4 DEF AccountsInv

-----------------------------------------------------------------------------
(***************************************************************************)
(* Every step.                                                             *)
(***************************************************************************)
LEMMA InitAccountsInv == Init => AccountsInv
    <1> SUFFICES ASSUME Init PROVE AccountsInv OBVIOUS
    <1>1. NoRow \in UserRow /\ Idle \in Call /\ Idle.at # "insert"
        BY DEF NoRow, UserRow, Passwords, Call, Idle
    <1>o. torn = {} /\ crossed = {}
        BY DEF Init
    <1>2. TypeOK /\ RowsInv
        BY <1>o, <1>1, AccountsAssumption DEF Init, TypeOK, RowsInv, Exists
    <1>3. NumbersInv /\ TokensSingleUse /\ TokensHaveUsers
        BY AccountsAssumption DEF Init, NumbersInv, TokensSingleUse, TokensHaveUsers
    <1> QED BY <1>2, <1>3 DEF AccountsInv

LEMMA HistoryKept ==
    ASSUME AccountsInv, [Next]_vars
    PROVE  HistoryType'
    <1>0. HistoryType
        BY DEF AccountsInv, TypeOK, HistoryType
    <1>1. ASSUME NEW c \in Calls, call[c].at = "forget", call[c] \in Call,
                 Cross(call[c].user, call[c].purpose)
          PROVE  HistoryType'
        <2>1. call[c].user \in Users /\ call[c].purpose \in Purposes
            BY <1>1, CallFields
        <2> QED BY <1>0, <1>1, <2>1 DEF HistoryType, Cross
    <1>2. ASSUME NEW c \in Calls, NEW other, Tear(call[c].user, other), call[c].user \in Users
          PROVE  HistoryType'
        BY <1>0, <1>2 DEF HistoryType, Tear
    <1>3. ASSUME NEW c \in Calls, AuthStep(c) \/ UserStep(c) \/ AdminStep(c) \/ CallFails(c)
          PROVE  HistoryType'
        <2>0. call[c] \in Call
            BY DEF AccountsInv, TypeOK
        <2>1. CASE Forget(c)
            BY <1>1, <2>0, <2>1 DEF Forget
        <2>2. CASE SetPassword(c) \/ SetOwnPassword(c) \/ SetTemporary(c)
            <3>1. call[c].user \in Users
                BY <2>0, <2>2, CallFields DEF SetPassword, SetOwnPassword, SetTemporary
            <3> QED BY <1>2, <2>2, <3>1 DEF SetPassword, SetOwnPassword, SetTemporary
        <2>3. CASE CallFails(c)
            BY <1>0, <2>3 DEF HistoryType, CallFails
        <2>4. CASE ~Forget(c) /\ AuthStep(c) /\ ~SetPassword(c)
            <3>1. UNCHANGED history
                BY <2>4 DEF AuthStep, Register, SocialCreate, CheckFree, SocialUpdate,
                   ResendVerification, ForgotPassword, Request, FindToken, Insert, Issue, DropToken,
                   Consume, MarkVerified, ClearMustChange, At, Start
            <3> QED BY <1>0, <3>1 DEF HistoryType, history
        <2>5. CASE UserStep(c) /\ ~SetOwnPassword(c)
            <3>1. UNCHANGED history
                BY <2>5 DEF UserStep, ChangeOwnPassword, HardDelete, Start
            <3> QED BY <1>0, <3>1 DEF HistoryType, history
        <2>6. CASE AdminStep(c) /\ ~SetTemporary(c)
            <3>1. UNCHANGED history
                BY <2>6 DEF AdminStep, AdminCreate, CheckFree, UpdateEmail, ResetUserPassword,
                   VerifyUserEmail, SoftDelete, SetMustChange, SetEmail, At, Start
            <3> QED BY <1>0, <3>1 DEF HistoryType, history
        <2> QED BY <1>3, <2>1, <2>2, <2>3, <2>4, <2>5, <2>6
    <1>4. CASE \E t \in tokens : ExpireToken(t)
        BY <1>0, <1>4 DEF HistoryType, ExpireToken, history
    <1>5. CASE UNCHANGED vars
        BY <1>0, <1>5 DEF HistoryType, vars
    <1> QED BY <1>3, <1>4, <1>5 DEF Next

LEMMA NextAccountsInv == AccountsInv /\ [Next]_vars => AccountsInv'
    <1> SUFFICES ASSUME AccountsInv, [Next]_vars PROVE AccountsInv' OBVIOUS
    <1>0. HistoryType'
        BY HistoryKept
    <1>1. ASSUME NEW c \in Calls, NEW u \in Users, NEW e \in Emails, NEW v \in BOOLEAN,
                 NEW a \in BOOLEAN,
                 Register(c, u, e) \/ SocialCreate(c, u, e, v) \/ AdminCreate(c, u, e, v, a)
          PROVE  AccountsInv'
        BY <1>0, <1>1, NewRows, CheckFreeInv DEF Register, SocialCreate, AdminCreate
    <1>2. ASSUME NEW c \in Calls, AuthStep(c) PROVE AccountsInv'
        <2>1. TRUE \in BOOLEAN
            OBVIOUS
        <2> QED BY <1>0, <1>1, <1>2, <2>1, DirectInv, StartInv, InsertInv, ForgetInv, IssueInv, ConsumeInv,
                   StatementInv DEF AuthStep
    <1>3. ASSUME NEW c \in Calls, UserStep(c) \/ CallFails(c) PROVE AccountsInv'
        BY <1>0, <1>3, StartInv, StatementInv, HardDeleteInv DEF UserStep
    <1>4. ASSUME NEW c \in Calls, AdminStep(c) PROVE AccountsInv'
        BY <1>0, <1>1, <1>4, StartInv, StatementInv, DirectInv DEF AdminStep
    <1>5. ASSUME NEW t \in tokens, ExpireToken(t) PROVE AccountsInv'
        BY <1>0, <1>5, ExpireInv
    <1>6. CASE UNCHANGED vars
        BY <1>6 DEF vars, AccountsInv, TypeOK, RowsInv, NumbersInv, TokensSingleUse,
           TokensHaveUsers, Exists
    <1> QED BY <1>2, <1>3, <1>4, <1>5, <1>6 DEF Next

(* The rows, the tokens and the requests always agree as AccountsInv says. *)
THEOREM AccountsInvariant == Spec => []AccountsInv
    BY InitAccountsInv, NextAccountsInv, PTL DEF Spec

(* An action token is accepted once at most, in any interleaving of any    *)
(* number of requests that found its row.                                  *)
THEOREM ActionTokensOnce == Spec => []TokensSingleUse
    <1>1. AccountsInv => TokensSingleUse
        BY DEF AccountsInv
    <1> QED BY <1>1, AccountsInvariant, PTL

(* A token never outlives its account: requests under way when the row is  *)
(* deleted leave none behind.                                              *)
THEOREM ActionTokensHaveUsers == Spec => []TokensHaveUsers
    <1>1. AccountsInv => TokensHaveUsers
        BY DEF AccountsInv
    <1> QED BY <1>1, AccountsInvariant, PTL

-----------------------------------------------------------------------------
(***************************************************************************)
(* The flag and the links of a user, however requests interleave and stop. *)
(***************************************************************************)
FlagRow(r) == r.mustChange <=> r.password = "temporary"
FlagPending == {"clearMustChange", "setMustChange"}

(* While a request has still to write the flag of a user who is not torn,  *)
(* the password is the one it wrote, or the row is deleted; when none has, *)
(* the flag of the row follows its password.                               *)
FlagOf(u) ==
    /\ Owes(u, "clearMustChange") => user[u].password \in {"own", "deleted"}
    /\ Owes(u, "setMustChange") => user[u].password \in {"temporary", "deleted"}
    /\ ~Owes(u, "clearMustChange") /\ ~Owes(u, "setMustChange") => FlagRow(user[u])
FlagsInv ==
    /\ \A u \in Users \ torn : FlagOf(u)
    /\ \A c \in Calls : call[c].at = "insert" => FlagRow(call[c].row)

(* Unless the links of a user and purpose crossed, there is a token or one *)
(* request about to create it, or neither.                                 *)
LinkOf(u, p) ==
    /\ \A s, t \in OlderTokens(u, p) : s = t
    /\ Issuing(u, p) => OlderTokens(u, p) = {}
    /\ \A c, d \in Calls : /\ call[c] = [at |-> "issue", user |-> u, purpose |-> p]
                           /\ call[d] = [at |-> "issue", user |-> u, purpose |-> p]
                           => c = d
LinksInv == \A u \in Users, p \in Purposes : <<u, p>> \notin crossed => LinkOf(u, p)
OrderInv == AccountsInv /\ FlagsInv /\ LinksInv

\* Which flags are owed changes with the one call that moves.
LEMMA OwesMoves ==
    ASSUME AccountsInv, NEW c \in Calls, NEW s \in Call, Goto(c, s), NEW v, NEW at
    PROVE  /\ Owes(v, at)' <=> \/ s = [at |-> at, user |-> v]
                               \/ \E d \in Calls \ {c} : call[d] = [at |-> at, user |-> v]
           /\ Owes(v, at) <=> \/ call[c] = [at |-> at, user |-> v]
                              \/ \E d \in Calls \ {c} : call[d] = [at |-> at, user |-> v]
    BY GotoType DEF AccountsInv, TypeOK, Owes

LEMMA RowsMove ==
    ASSUME AccountsInv, NEW c \in Calls, NEW s \in Call, Goto(c, s),
           \A d \in Calls : call[d].at = "insert" => FlagRow(call[d].row),
           s.at = "insert" => FlagRow(s.row)
    PROVE  \A d \in Calls : call'[d].at = "insert" => FlagRow(call'[d].row)
    BY GotoType DEF AccountsInv, TypeOK

(* A row keeps its password and its flag, is deleted, or is created.       *)
Flagless(u) ==
    \/ user'[u].password = user[u].password /\ user'[u].mustChange = user[u].mustChange
    \/ user'[u] = Deleted
    \/ user[u] = NoRow /\ FlagRow(user'[u])

\* A step of a request that neither owed a flag nor owes one now.
LEMMA FlagsKept ==
    ASSUME OrderInv, UNCHANGED torn, \A u \in Users : Flagless(u),
           NEW c \in Calls, NEW s \in Call,
           \/ UNCHANGED call
           \/ Goto(c, s) /\ s.at \notin FlagPending /\ call[c].at \notin FlagPending,
           s.at = "insert" => FlagRow(s.row)
    PROVE  FlagsInv'
    <1>1. \A u \in Users, at \in FlagPending : Owes(u, at)' <=> Owes(u, at)
        <2>1. CASE UNCHANGED call
            BY <2>1 DEF Owes
        <2>2. CASE Goto(c, s) /\ s.at \notin FlagPending /\ call[c].at \notin FlagPending
            <3> SUFFICES ASSUME NEW u \in Users, NEW at \in FlagPending
                         PROVE  Owes(u, at)' <=> Owes(u, at)
                OBVIOUS
            <3>1. s # [at |-> at, user |-> u] /\ call[c] # [at |-> at, user |-> u]
                BY <2>2
            <3> QED BY <2>2, <3>1, OwesMoves DEF OrderInv
        <2> QED BY <2>1, <2>2
    <1>2. ASSUME NEW u \in Users \ torn' PROVE FlagOf(u)'
        <2>1. FlagOf(u) /\ Flagless(u)
            BY <1>2 DEF OrderInv, FlagsInv
        <2>2. CASE user'[u].password = user[u].password /\ user'[u].mustChange = user[u].mustChange
            BY <1>1, <2>1, <2>2 DEF FlagOf, FlagPending, FlagRow
        <2>3. CASE user'[u] = Deleted
            BY <2>3 DEF FlagOf, FlagRow, Deleted, NoRow
        <2>4. CASE user[u] = NoRow /\ FlagRow(user'[u])
            BY <1>1, <2>1, <2>4 DEF FlagOf, FlagPending, NoRow
        <2> QED BY <2>1, <2>2, <2>3, <2>4 DEF Flagless
    <1>3. \A d \in Calls : call'[d].at = "insert" => FlagRow(call'[d].row)
        <2>1. \A d \in Calls : call[d].at = "insert" => FlagRow(call[d].row)
            BY DEF OrderInv, FlagsInv
        <2>2. CASE UNCHANGED call
            BY <2>1, <2>2
        <2>3. CASE Goto(c, s)
            BY <2>1, <2>3, RowsMove DEF OrderInv
        <2> QED BY <2>2, <2>3
    <1> QED BY <1>2, <1>3 DEF FlagsInv

\* A step that deletes tokens at most, of a request that issues none next.
LEMMA LinksKept ==
    ASSUME OrderInv, UNCHANGED crossed, tokens' \subseteq tokens,
           NEW c \in Calls, NEW s \in Call,
           UNCHANGED call \/ (Goto(c, s) /\ s.at # "issue")
    PROVE  LinksInv'
    <1> SUFFICES ASSUME NEW u \in Users, NEW p \in Purposes, <<u, p>> \notin crossed
                 PROVE  LinkOf(u, p)'
        BY DEF LinksInv
    <1> DEFINE issue == [at |-> "issue", user |-> u, purpose |-> p]
    <1>1. LinkOf(u, p)
        BY DEF OrderInv, LinksInv
    <1>2. OlderTokens(u, p)' \subseteq OlderTokens(u, p)
        BY DEF OlderTokens
    <1>3. \A d \in Calls : call'[d] = issue => call[d] = issue
        <2>1. CASE UNCHANGED call
            BY <2>1
        <2>2. CASE Goto(c, s) /\ s.at # "issue"
            <3>1. s # issue
                BY <2>2
            <3> QED BY <2>2, <3>1, GotoType DEF OrderInv, AccountsInv, TypeOK
        <2> QED BY <2>1, <2>2
    <1> QED BY <1>1, <1>2, <1>3 DEF LinkOf, Issuing

LEMMA OrderStarts ==
    ASSUME OrderInv, NEW c \in Calls,
           \/ \E u \in Users, row \in AccountRow : CheckFree(c, u, row) /\ FlagRow(row)
           \/ \E e \in Emails : ResendVerification(c, e) \/ ForgotPassword(c, e)
           \/ \E t \in tokens : FindToken(c, t)
           \/ \E u \in Users : ChangeOwnPassword(c, u) \/ ResetUserPassword(c, u)
           \/ \E u \in Users, e \in Emails : UpdateEmail(c, u, e)
    PROVE  FlagsInv' /\ LinksInv'
    <1>0. TypeOK /\ tokens \subseteq TokenRow
        BY DEF OrderInv, AccountsInv, TypeOK
    <1> DEFINE Moves == \E s \in Call : /\ Goto(c, s) /\ s.at \notin FlagPending \cup {"issue"}
                                        /\ s.at = "insert" => FlagRow(s.row)
    <1>1. Moves
        <2>1. ASSUME NEW u \in Users, NEW row \in AccountRow, CheckFree(c, u, row), FlagRow(row)
              PROVE  Moves
            <3>1. [at |-> "insert", user |-> u, row |-> row] \in Call
                BY DEF Call, AccountRow
            <3> QED BY <2>1, <3>1 DEF CheckFree, FlagPending
        <2>2. ASSUME NEW e \in Emails, ResendVerification(c, e) \/ ForgotPassword(c, e)
              PROVE  Moves
            <3>1. PICK u \in Users, p \in Purposes : Goto(c, [at |-> "forget", user |-> u, purpose |-> p])
                BY <2>2 DEF ResendVerification, ForgotPassword, Request, FindByEmail, Purposes
            <3>2. [at |-> "forget", user |-> u, purpose |-> p] \in Call
                BY DEF Call
            <3> QED BY <3>1, <3>2 DEF FlagPending
        <2>3. ASSUME NEW t \in tokens, FindToken(c, t)
              PROVE  Moves
            <3>1. PICK a \in {"drop", "consume"} : Goto(c, [at |-> a, token |-> t])
                BY <2>3 DEF FindToken
            <3>2. [at |-> a, token |-> t] \in Call
                BY <1>0 DEF Call
            <3> QED BY <3>1, <3>2 DEF FlagPending
        <2>4. ASSUME NEW u \in Users, ChangeOwnPassword(c, u) \/ ResetUserPassword(c, u)
              PROVE  Moves
            <3>1. PICK a \in {"setOwnPassword", "setTemporary"} : Goto(c, [at |-> a, user |-> u])
                BY <2>4 DEF ChangeOwnPassword, ResetUserPassword
            <3>2. [at |-> a, user |-> u] \in Call
                BY DEF Call
            <3> QED BY <3>1, <3>2 DEF FlagPending
        <2>5. ASSUME NEW u \in Users, NEW e \in Emails, UpdateEmail(c, u, e)
              PROVE  Moves
            <3>1. [at |-> "setEmail", user |-> u, email |-> e] \in Call
                BY DEF Call
            <3> QED BY <2>5, <3>1 DEF UpdateEmail, FlagPending
        <2> QED BY <2>1, <2>2, <2>3, <2>4, <2>5
    <1>2. user' = user /\ tokens' = tokens /\ UNCHANGED <<torn, crossed>> /\ call[c] = Idle
        BY DEF CheckFree, ResendVerification, ForgotPassword, Request, FindToken, ChangeOwnPassword,
               ResetUserPassword, UpdateEmail, UnchangedTokens, Start, history
    <1>3. \A u \in Users : Flagless(u)
        BY <1>2 DEF Flagless
    <1>4. call[c].at \notin FlagPending
        BY <1>2 DEF Idle, FlagPending
    <1> HIDE DEF Moves
    <1>5. PICK s \in Call : /\ Goto(c, s) /\ s.at \notin FlagPending \cup {"issue"}
                            /\ s.at = "insert" => FlagRow(s.row)
        BY <1>1 DEF Moves
    <1> QED BY <1>2, <1>3, <1>4, <1>5, FlagsKept, LinksKept

LEMMA OrderDirects ==
    ASSUME OrderInv, NEW c \in Calls,
           \/ \E e \in Emails, v \in BOOLEAN : SocialUpdate(c, e, v)
           \/ \E u \in Users : VerifyUserEmail(c, u) \/ SoftDelete(c, u) \/ HardDelete(c, u)
    PROVE  FlagsInv' /\ LinksInv'
    <1>1. UNCHANGED <<torn, crossed, call>> /\ tokens' \subseteq tokens
        BY DEF SocialUpdate, VerifyUserEmail, SoftDelete, HardDelete, UnchangedTokens, Start, history
    <1>2. user \in [Users -> UserRow]
        BY DEF OrderInv, AccountsInv, TypeOK
    <1>3. \A v \in Users : Flagless(v)
        <2>1. ASSUME NEW e \in Emails, NEW b \in BOOLEAN, SocialUpdate(c, e, b)
              PROVE  \A v \in Users : Flagless(v)
            BY <1>2, <2>1 DEF SocialUpdate, FindByEmail, Flagless, UserRow
        <2>2. ASSUME NEW u \in Users, VerifyUserEmail(c, u)
              PROVE  \A v \in Users : Flagless(v)
            BY <1>2, <2>2 DEF VerifyUserEmail, Flagless, UserRow
        <2>3. ASSUME NEW u \in Users, SoftDelete(c, u)
              PROVE  \A v \in Users : Flagless(v)
            BY <1>2, <2>3 DEF SoftDelete, Rename, Flagless, UserRow
        <2>4. ASSUME NEW u \in Users, HardDelete(c, u)
              PROVE  \A v \in Users : Flagless(v)
            <3>1. \A v \in Users : user'[v] = user[v] \/ user'[v] = Deleted
                BY <1>2, <2>4 DEF HardDelete
            <3> QED BY <3>1 DEF Flagless
        <2> QED BY <2>1, <2>2, <2>3, <2>4
    <1>4. Idle \in Call /\ Idle.at # "insert"
        BY DEF Call, Idle
    <1> QED BY <1>1, <1>3, <1>4, FlagsKept, LinksKept

LEMMA OrderInsert ==
    ASSUME OrderInv, NEW c \in Calls, Insert(c)
    PROVE  FlagsInv' /\ LinksInv'
    <1>1. /\ call[c].at = "insert" /\ call[c].user \in Users /\ FlagRow(call[c].row)
          /\ user \in [Users -> UserRow] /\ UNCHANGED <<tokens, torn, crossed>>
        BY CallFields DEF OrderInv, AccountsInv, TypeOK, FlagsInv, Insert, UnchangedTokens, At, history
    <1>2. PICK s \in Call : Goto(c, s) /\ s.at \notin FlagPending \cup {"issue", "insert"}
        <2>1. /\ [at |-> "forget", user |-> call[c].user, purpose |-> "verify-email"] \in Call
              /\ Idle \in Call /\ Idle.at = "idle"
            BY <1>1 DEF Call, Idle, Purposes
        <2> QED BY <2>1 DEF Insert, FlagPending, At
    <1>3. \A u \in Users : Flagless(u)
        BY <1>1 DEF Insert, Flagless
    <1> QED BY <1>1, <1>2, <1>3, FlagsKept, LinksKept DEF FlagPending

LEMMA OrderQuiet ==
    ASSUME OrderInv, NEW c \in Calls,
           Issue(c) \/ DropToken(c) \/ Consume(c) \/ MarkVerified(c) \/ SetEmail(c) \/ Forget(c)
    PROVE  /\ FlagsInv'
           /\ MarkVerified(c) \/ SetEmail(c) \/ DropToken(c) \/ Consume(c) => LinksInv'
    <1>0. TypeOK /\ call[c] \in Call /\ user \in [Users -> UserRow]
        BY DEF OrderInv, AccountsInv, TypeOK
    <1>1. UNCHANGED torn /\ call[c].at \notin FlagPending
        BY DEF Issue, DropToken, Consume, MarkVerified, SetEmail, Forget, At, history, FlagPending, Cross
    <1>2. PICK s \in Call : /\ Goto(c, s) /\ s.at \notin FlagPending \cup {"insert"}
                            /\ ~Forget(c) => s.at # "issue"
        <2>1. Idle \in Call /\ Idle.at = "idle"
            BY DEF Call, Idle
        <2>2. CASE Forget(c)
            <3>1. call[c] \in [at : {"forget", "issue"}, user : Users, purpose : Purposes]
                BY <1>0, <2>2, CallFields DEF Forget
            <3>2. [call[c] EXCEPT !.at = "issue"] \in Call /\ [call[c] EXCEPT !.at = "issue"].at = "issue"
                BY <3>1 DEF Call
            <3> QED BY <2>2, <3>2 DEF Forget, FlagPending
        <2>3. CASE Consume(c)
            <3>1. call[c].token \in TokenRow
                BY <1>0, <2>3, CallFields DEF Consume, At
            <3>2. /\ AfterToken(call[c].token) \in Call
                  /\ AfterToken(call[c].token).at \in {"markVerified", "setPassword"}
                BY <3>1 DEF AfterToken, Call, TokenRow
            <3> QED BY <2>1, <2>3, <3>2 DEF Consume, At, FlagPending
        <2>4. CASE Issue(c) \/ DropToken(c) \/ MarkVerified(c) \/ SetEmail(c)
            BY <2>1, <2>4 DEF Issue, DropToken, MarkVerified, SetEmail, Write, At, FlagPending
        <2> QED BY <2>2, <2>3, <2>4
    <1>3. \A v \in Users : Flagless(v)
        <2>1. CASE Issue(c) \/ DropToken(c) \/ Consume(c) \/ Forget(c)
            BY <2>1 DEF Issue, DropToken, Consume, Forget, At, Flagless
        <2>2. CASE MarkVerified(c)
            BY <1>0, <2>2 DEF MarkVerified, Write, RowOf, At, Flagless, UserRow
        <2>3. CASE SetEmail(c)
            BY <1>0, <2>3 DEF SetEmail, Write, RowOf, At, Flagless, UserRow
        <2> QED BY <2>1, <2>2, <2>3
    <1>4. FlagsInv'
        BY <1>1, <1>2, <1>3, FlagsKept
    <1>5. ASSUME MarkVerified(c) \/ SetEmail(c) \/ DropToken(c) \/ Consume(c) PROVE LinksInv'
        <2>1. UNCHANGED crossed /\ tokens' \subseteq tokens /\ ~Forget(c)
            BY <1>5 DEF MarkVerified, SetEmail, DropToken, Consume, Forget, At, history, Write,
               UnchangedTokens
        <2> QED BY <1>2, <2>1, LinksKept
    <1> QED BY <1>4, <1>5

LEMMA IssueRecords ==
    ASSUME NEW s \in Call, s.at \in {"forget", "issue"}
    PROVE  /\ s.user \in Users /\ s.purpose \in Purposes
           /\ s = [at |-> s.at, user |-> s.user, purpose |-> s.purpose]
           /\ [s EXCEPT !.at = "issue"] = [at |-> "issue", user |-> s.user, purpose |-> s.purpose]
    BY CallFields

LEMMA OrderForget ==
    ASSUME OrderInv, NEW c \in Calls, Forget(c)
    PROVE  LinksInv'
    <1> DEFINE w == call[c].user
               q == call[c].purpose
               s == [at |-> "issue", user |-> w, purpose |-> q]
    <1>1. /\ TypeOK /\ call[c] \in Call /\ call[c].at = "forget"
          /\ w \in Users /\ q \in Purposes /\ Goto(c, s) /\ s \in Call
        <2>1. TypeOK /\ call[c] \in Call /\ call[c].at = "forget"
            BY DEF OrderInv, AccountsInv, TypeOK, Forget
        <2>2. w \in Users /\ q \in Purposes /\ Goto(c, s)
            BY <2>1, IssueRecords DEF Forget
        <2> QED BY <2>1, <2>2 DEF Call
    <1>2. call'[c] = s /\ \A d \in Calls \ {c} : call'[d] = call[d]
        BY <1>1, GotoType DEF TypeOK
    <1>3. tokens' = tokens \ OlderTokens(w, q)
        BY DEF Forget
    <1> SUFFICES ASSUME NEW u \in Users, NEW p \in Purposes, <<u, p>> \notin crossed'
                 PROVE  LinkOf(u, p)'
        BY DEF LinksInv
    <1>4. CASE u = w /\ p = q
        <2>1. ~Issuing(w, q)
            BY <1>4 DEF Forget, Cross
        <2>2. OlderTokens(u, p)' = {}
            BY <1>3, <1>4 DEF OlderTokens
        <2>3. \A d \in Calls : call'[d] = s => d = c
            BY <1>2, <2>1 DEF Issuing
        <2> QED BY <1>4, <2>2, <2>3 DEF LinkOf
    <1>5. CASE u # w \/ p # q
        <2>1. <<u, p>> \notin crossed /\ <<u, p>> # <<w, q>>
            BY <1>5 DEF Forget, Cross
        <2>2. LinkOf(u, p)
            BY <2>1 DEF OrderInv, LinksInv
        <2>3. OlderTokens(u, p)' \subseteq OlderTokens(u, p)
            BY <1>3 DEF OlderTokens
        <2>4. s # [at |-> "issue", user |-> u, purpose |-> p]
            BY <1>5
        <2>5. \A d \in Calls : call'[d] = [at |-> "issue", user |-> u, purpose |-> p] =>
                               call[d] = [at |-> "issue", user |-> u, purpose |-> p]
            BY <1>2, <2>4
        <2> QED BY <2>2, <2>3, <2>5 DEF LinkOf, Issuing
    <1> QED BY <1>4, <1>5

LEMMA OrderIssue ==
    ASSUME OrderInv, NEW c \in Calls, Issue(c)
    PROVE  LinksInv'
    <1> DEFINE w == call[c].user
               q == call[c].purpose
    <1>1. /\ TypeOK /\ w \in Users /\ q \in Purposes
          /\ call[c] = [at |-> "issue", user |-> w, purpose |-> q]
        <2>1. TypeOK /\ call[c] \in Call /\ call[c].at = "issue"
            BY DEF OrderInv, AccountsInv, TypeOK, Issue, At
        <2> QED BY <2>1, IssueRecords
    <1>2. Idle \in Call /\ Idle.at = "idle" /\ Goto(c, Idle) /\ UNCHANGED crossed
        BY DEF Issue, At, Call, Idle, history
    <1>3. call'[c] = Idle /\ \A d \in Calls \ {c} : call'[d] = call[d]
        BY <1>1, <1>2, GotoType DEF TypeOK
    <1>4. PICK t : t.user = w /\ t.purpose = q /\ tokens' = tokens \cup {t}
        BY DEF Issue, At
    <1> SUFFICES ASSUME NEW u \in Users, NEW p \in Purposes, <<u, p>> \notin crossed
                 PROVE  LinkOf(u, p)'
        BY <1>2 DEF LinksInv
    <1>5. LinkOf(u, p)
        BY DEF OrderInv, LinksInv
    <1>6. \A d \in Calls : call'[d] = [at |-> "issue", user |-> u, purpose |-> p] =>
                           d # c /\ call[d] = [at |-> "issue", user |-> u, purpose |-> p]
        BY <1>2, <1>3
    <1>7. CASE u = w /\ p = q
        <2>1. OlderTokens(u, p) = {} /\ ~Issuing(u, p)'
            BY <1>1, <1>5, <1>6, <1>7 DEF LinkOf, Issuing
        <2>2. OlderTokens(u, p)' \subseteq {t}
            BY <1>4, <2>1 DEF OlderTokens
        <2> QED BY <1>5, <1>6, <2>1, <2>2 DEF LinkOf
    <1>8. CASE u # w \/ p # q
        <2>1. OlderTokens(u, p)' = OlderTokens(u, p)
            BY <1>4, <1>8 DEF OlderTokens
        <2> QED BY <1>5, <1>6, <2>1 DEF LinkOf, Issuing
    <1> QED BY <1>7, <1>8

LEMMA OrderExpire ==
    ASSUME OrderInv, NEW t \in tokens, ExpireToken(t)
    PROVE  FlagsInv' /\ LinksInv'
    <1>1. PICK r : /\ r.user = t.user /\ r.purpose = t.purpose
                   /\ tokens' = (tokens \ {t}) \cup {r}
        BY DEF ExpireToken, OrderInv, AccountsInv, TypeOK, TokenRow
    <1>2. UNCHANGED <<user, call, torn, crossed>>
        BY DEF ExpireToken, history
    <1>3. FlagsInv'
        BY <1>2 DEF OrderInv, FlagsInv, FlagOf, Owes
    <1>4. ASSUME NEW u \in Users, NEW p \in Purposes, LinkOf(u, p) PROVE LinkOf(u, p)'
        <2>1. CASE t \in OlderTokens(u, p)
            <3>1. OlderTokens(u, p)' = (OlderTokens(u, p) \ {t}) \cup {r}
                BY <1>1, <2>1 DEF OlderTokens
            <3> QED BY <1>2, <1>4, <2>1, <3>1 DEF LinkOf, Issuing
        <2>2. CASE t \notin OlderTokens(u, p)
            <3>1. OlderTokens(u, p)' = OlderTokens(u, p)
                BY <1>1, <2>2 DEF OlderTokens
            <3> QED BY <1>2, <1>4, <3>1 DEF LinkOf, Issuing
        <2> QED BY <2>1, <2>2
    <1>5. LinksInv'
        BY <1>2, <1>4 DEF OrderInv, LinksInv
    <1> QED BY <1>3, <1>5

\* A request writes a password of one kind, and the flag now or next.
LEMMA PasswordWritten ==
    ASSUME OrderInv, NEW c \in Calls, call[c] \in Call, call[c].at \notin FlagPending,
           NEW w \in Users, NEW row, user' = [user EXCEPT ![w] = row],
           NEW at \in FlagPending, NEW other \in FlagPending \ {at}, Tear(w, other),
           row.password = IF at = "clearMustChange" THEN "own" ELSE "temporary",
           NEW s \in Call, Goto(c, s),
           s = [at |-> at, user |-> w] \/ (s = Idle /\ FlagRow(row) /\ row.password = "own")
    PROVE  FlagsInv'
    <1>0. user \in [Users -> UserRow] /\ AccountsInv
        BY DEF OrderInv, AccountsInv, TypeOK
    <1>1. user'[w] = row /\ \A v \in Users : v # w => user'[v] = user[v]
        BY <1>0
    <1>2. \A v \in Users, b \in FlagPending : call[c] # [at |-> b, user |-> v]
        OBVIOUS
    <1>3. \A v \in Users : \A b \in FlagPending :
            s = [at |-> b, user |-> v] => v = w /\ b = at
        BY DEF Idle, FlagPending
    <1>4. ASSUME NEW u \in Users, NEW b \in FlagPending
          PROVE  /\ Owes(u, b) => Owes(u, b)'
                 /\ Owes(u, b)' => Owes(u, b) \/ (u = w /\ b = at)
        <2>1. /\ Owes(u, b)' <=> \/ s = [at |-> b, user |-> u]
                                 \/ \E d \in Calls \ {c} : call[d] = [at |-> b, user |-> u]
              /\ Owes(u, b) <=> \/ call[c] = [at |-> b, user |-> u]
                                \/ \E d \in Calls \ {c} : call[d] = [at |-> b, user |-> u]
            BY <1>0, OwesMoves
        <2> QED BY <1>2, <1>3, <2>1
    <1>5. ASSUME NEW u \in Users \ torn' PROVE FlagOf(u)'
        <2>1. CASE u # w
            <3>1. FlagOf(u)
                BY <1>5, <2>1 DEF Tear, OrderInv, FlagsInv
            <3> QED BY <1>1, <1>4, <2>1, <3>1 DEF FlagOf, FlagPending
        <2>2. CASE u = w
            <3>1. ~Owes(w, other)
                BY <1>5, <2>2 DEF Tear
            <3>2. ~Owes(w, other)'
                BY <1>4, <3>1
            <3>3. CASE s = [at |-> at, user |-> w]
                <4>1. Owes(w, at)'
                    BY <1>0, <3>3, OwesMoves
                <4> QED BY <1>1, <2>2, <3>2, <4>1 DEF FlagOf, FlagPending
            <3>4. CASE s = Idle /\ FlagRow(row) /\ row.password = "own"
                BY <1>1, <2>2, <3>2, <3>4 DEF FlagOf, FlagPending
            <3> QED BY <3>3, <3>4
        <2> QED BY <2>1, <2>2
    <1>6. \A d \in Calls : call'[d].at = "insert" => FlagRow(call'[d].row)
        <2>1. s.at # "insert"
            BY DEF Idle, FlagPending
        <2> QED BY <1>0, <2>1, RowsMove DEF OrderInv, FlagsInv
    <1> QED BY <1>5, <1>6 DEF FlagsInv

\* A request writes the flag that it owed.
LEMMA FlagWritten ==
    ASSUME OrderInv, NEW c \in Calls, NEW w \in Users, NEW at \in FlagPending,
           call[c] = [at |-> at, user |-> w], UNCHANGED torn,
           user[w] # Deleted, user[w] \in AccountRow,
           user' = [user EXCEPT ![w] = [@ EXCEPT !.mustChange = (at = "setMustChange")]],
           NEW s \in Call, Goto(c, s), s.at \notin FlagPending \cup {"insert"}
    PROVE  FlagsInv'
    <1>0. user \in [Users -> UserRow] /\ AccountsInv
        BY DEF OrderInv, AccountsInv, TypeOK
    <1>1. /\ user'[w].password = user[w].password
          /\ user'[w].mustChange = (at = "setMustChange")
          /\ user[w].password # "deleted"
          /\ \A v \in Users : v # w => user'[v] = user[v]
        BY <1>0 DEF AccountRow, UserRow
    <1>2. ASSUME NEW u \in Users, NEW b \in FlagPending
          PROVE  /\ Owes(u, b)' => Owes(u, b)
                 /\ Owes(u, b) => Owes(u, b)' \/ (u = w /\ b = at)
        <2>1. s # [at |-> b, user |-> u]
            OBVIOUS
        <2>2. call[c] = [at |-> b, user |-> u] => u = w /\ b = at
            OBVIOUS
        <2>3. /\ Owes(u, b)' <=> \/ s = [at |-> b, user |-> u]
                                 \/ \E d \in Calls \ {c} : call[d] = [at |-> b, user |-> u]
              /\ Owes(u, b) <=> \/ call[c] = [at |-> b, user |-> u]
                                \/ \E d \in Calls \ {c} : call[d] = [at |-> b, user |-> u]
            BY <1>0, OwesMoves
        <2> QED BY <2>1, <2>2, <2>3
    <1>3. ASSUME NEW u \in Users \ torn' PROVE FlagOf(u)'
        <2>1. FlagOf(u)
            BY <1>3 DEF OrderInv, FlagsInv
        <2>2. CASE u # w
            BY <1>1, <1>2, <2>1, <2>2 DEF FlagOf, FlagPending
        <2>3. CASE u = w
            <3>1. Owes(w, at)
                BY DEF Owes
            <3>2. FlagRow(user'[w])
                BY <1>1, <2>1, <2>3, <3>1 DEF FlagOf, FlagPending, FlagRow
            <3> QED BY <1>1, <1>2, <2>1, <2>3, <3>2 DEF FlagOf, FlagPending
        <2> QED BY <2>2, <2>3
    <1>4. \A d \in Calls : call'[d].at = "insert" => FlagRow(call'[d].row)
        BY <1>0, RowsMove DEF OrderInv, FlagsInv
    <1> QED BY <1>3, <1>4 DEF FlagsInv

LEMMA OwnRecords ==
    ASSUME NEW s \in Call, s.at \in {"setPassword", "setOwnPassword", "setTemporary"} \cup FlagPending
    PROVE  s.user \in Users /\ s = [at |-> s.at, user |-> s.user]
    BY CallFields DEF FlagPending

LEMMA OrderPasswords ==
    ASSUME OrderInv, NEW c \in Calls,
           \/ SetPassword(c) \/ SetOwnPassword(c) \/ SetTemporary(c)
           \/ ClearMustChange(c) \/ SetMustChange(c)
    PROVE  FlagsInv' /\ LinksInv'
    <1> DEFINE w == call[c].user
    <1>0. TypeOK /\ RowsInv /\ call[c] \in Call /\ user \in [Users -> UserRow]
        BY DEF OrderInv, AccountsInv, TypeOK
    <1>1. w \in Users /\ call[c] = [at |-> call[c].at, user |-> w]
        BY <1>0, OwnRecords DEF SetPassword, SetOwnPassword, SetTemporary, ClearMustChange,
           SetMustChange, At, FlagPending
    <1>2. /\ Idle \in Call /\ Idle.at = "idle"
          /\ \A a \in {"markVerified", "clearMustChange", "setMustChange"} :
               Then(c, a) \in Call /\ Then(c, a) = [at |-> a, user |-> w]
        BY <1>1 DEF Call, Idle, Then
    <1>3. Exists(w) /\ user[w] \in AccountRow
        BY <1>0, <1>1 DEF SetPassword, SetOwnPassword, SetTemporary, ClearMustChange,
           SetMustChange, Write, RowsInv
    <1>4. UNCHANGED tokens /\ UNCHANGED crossed
        BY DEF SetPassword, SetOwnPassword, SetTemporary, ClearMustChange, SetMustChange, Write,
               UnchangedTokens, At, history, Tear
    <1>5. LinksInv'
        <2>1. \E s \in Call : Goto(c, s) /\ s.at # "issue"
            BY <1>2 DEF SetPassword, SetOwnPassword, SetTemporary, ClearMustChange, SetMustChange, Write
        <2> QED BY <1>4, <2>1, LinksKept
    <1>6. FlagsInv'
        <2>1. CASE SetPassword(c)
            <3>1. [user[w] EXCEPT !.password = "own"].password = "own"
                BY <1>0, <1>1 DEF UserRow
            <3>2. call[c].at \notin FlagPending
                BY <2>1 DEF SetPassword, FlagPending
            <3> QED BY <1>0, <1>1, <1>2, <2>1, <3>1, <3>2, PasswordWritten
                    DEF SetPassword, Write, RowOf, FlagPending
        <2>2. CASE SetOwnPassword(c)
            <3> DEFINE row == [user[w] EXCEPT !.password = "own", !.mustChange = FALSE]
            <3>1. row.password = "own" /\ FlagRow(row)
                BY <1>0, <1>1 DEF UserRow, FlagRow
            <3>2. call[c].at \notin FlagPending /\ user' = [user EXCEPT ![w] = row]
                  /\ Goto(c, Idle) /\ Tear(w, "setMustChange")
                BY <2>2 DEF SetOwnPassword, FlagPending, Write, RowOf
            <3> HIDE DEF row
            <3> QED BY <1>0, <1>1, <1>2, <3>1, <3>2, PasswordWritten DEF FlagPending
        <2>3. CASE SetTemporary(c)
            <3> DEFINE row == [user[w] EXCEPT !.password = "temporary", !.mustChange = FALSE]
            <3>1. row.password = "temporary"
                BY <1>0, <1>1 DEF UserRow
            <3>2. call[c].at \notin FlagPending /\ user' = [user EXCEPT ![w] = row]
                  /\ Goto(c, Then(c, "setMustChange")) /\ Tear(w, "clearMustChange")
                BY <2>3 DEF SetTemporary, FlagPending, Write, RowOf
            <3> HIDE DEF row
            <3> QED BY <1>0, <1>1, <1>2, <3>1, <3>2, PasswordWritten DEF FlagPending
        <2>4. CASE ClearMustChange(c)
            <3>1. PICK s \in Call : Goto(c, s) /\ s.at \notin FlagPending \cup {"insert"}
                BY <1>2, <2>4 DEF ClearMustChange, Write, FlagPending
            <3>2. call[c] = [at |-> "clearMustChange", user |-> w] /\ UNCHANGED torn
                BY <1>1, <2>4 DEF ClearMustChange, At, history
            <3>3. user' = [user EXCEPT ![w] = [user[w] EXCEPT !.mustChange = FALSE]]
                BY <2>4 DEF ClearMustChange, Write, RowOf
            <3> QED BY <1>1, <1>3, <3>1, <3>2, <3>3, FlagWritten DEF Exists, FlagPending
        <2>5. CASE SetMustChange(c)
            <3>1. Goto(c, Idle) /\ Idle.at \notin FlagPending \cup {"insert"}
                BY <1>2, <2>5 DEF SetMustChange, Write, FlagPending
            <3>2. call[c] = [at |-> "setMustChange", user |-> w] /\ UNCHANGED torn
                BY <1>1, <2>5 DEF SetMustChange, At, history
            <3>3. user' = [user EXCEPT ![w] = [user[w] EXCEPT !.mustChange = TRUE]]
                BY <2>5 DEF SetMustChange, Write, RowOf
            <3> QED BY <1>1, <1>2, <1>3, <3>1, <3>2, <3>3, FlagWritten DEF Exists, FlagPending
        <2> QED BY <2>1, <2>2, <2>3, <2>4, <2>5
    <1> QED BY <1>5, <1>6

\* A request that stops while it owes a flag leaves its user torn.
LEMMA OrderFails ==
    ASSUME OrderInv, NEW c \in Calls, CallFails(c)
    PROVE  FlagsInv' /\ LinksInv'
    <1>0. AccountsInv /\ Idle \in Call /\ Idle.at = "idle"
        BY DEF OrderInv, Call, Idle
    <1>1. Goto(c, Idle) /\ UNCHANGED <<user, tokens, crossed>>
        BY DEF CallFails, UnchangedTokens
    <1>2. LinksInv'
        BY <1>0, <1>1, LinksKept
    <1>3. ASSUME NEW u \in Users \ torn' PROVE FlagOf(u)'
        <2>1. FlagOf(u)
            BY <1>3 DEF CallFails, OrderInv, FlagsInv
        <2>2. ASSUME NEW b \in FlagPending PROVE Owes(u, b)' <=> Owes(u, b)
            <3>1. call[c] # [at |-> b, user |-> u]
                BY <1>3 DEF CallFails, FlagPending
            <3>2. Idle # [at |-> b, user |-> u]
                BY <1>0 DEF FlagPending
            <3>3. /\ Owes(u, b)' <=> \/ Idle = [at |-> b, user |-> u]
                                     \/ \E d \in Calls \ {c} : call[d] = [at |-> b, user |-> u]
                  /\ Owes(u, b) <=> \/ call[c] = [at |-> b, user |-> u]
                                    \/ \E d \in Calls \ {c} : call[d] = [at |-> b, user |-> u]
                BY <1>0, <1>1, OwesMoves
            <3> QED BY <3>1, <3>2, <3>3
        <2> QED BY <1>1, <2>1, <2>2 DEF FlagOf, FlagPending
    <1>4. \A d \in Calls : call'[d].at = "insert" => FlagRow(call'[d].row)
        BY <1>0, <1>1, RowsMove DEF OrderInv, FlagsInv
    <1> QED BY <1>2, <1>3, <1>4 DEF FlagsInv

LEMMA NextOrderInv ==
    ASSUME OrderInv, [Next]_vars
    PROVE  OrderInv'
    <1>0. AccountsInv'
        BY NextAccountsInv DEF OrderInv
    <1> DEFINE Kept == FlagsInv' /\ LinksInv'
    <1>1. ASSUME NEW c \in Calls, NEW u \in Users, NEW e \in Emails, NEW v \in BOOLEAN,
                 NEW a \in BOOLEAN,
                 Register(c, u, e) \/ SocialCreate(c, u, e, v) \/ AdminCreate(c, u, e, v, a)
          PROVE  Kept
        <2>1. \E row \in AccountRow : CheckFree(c, u, row) /\ FlagRow(row)
            BY <1>1, NewRows DEF Register, SocialCreate, AdminCreate, Registered, Social,
               CreatedByAdmin, FlagRow
        <2> QED BY <2>1, OrderStarts
    <1>2. ASSUME NEW c \in Calls, AuthStep(c) PROVE Kept
        <2>1. TRUE \in BOOLEAN
            OBVIOUS
        <2> QED BY <1>1, <1>2, <2>1, OrderStarts, OrderDirects, OrderInsert, OrderQuiet, OrderForget,
                   OrderIssue, OrderPasswords DEF AuthStep
    <1>3. ASSUME NEW c \in Calls, UserStep(c) PROVE Kept
        BY <1>3, OrderStarts, OrderDirects, OrderPasswords DEF UserStep
    <1>4. ASSUME NEW c \in Calls, AdminStep(c) PROVE Kept
        BY <1>1, <1>4, OrderStarts, OrderDirects, OrderPasswords, OrderQuiet DEF AdminStep
    <1>5. ASSUME UNCHANGED vars PROVE Kept
        BY <1>5 DEF vars, OrderInv, FlagsInv, FlagOf, Owes, LinksInv, LinkOf, Issuing, OlderTokens
    <1>6. Kept
        BY <1>2, <1>3, <1>4, <1>5, OrderFails, OrderExpire DEF Next
    <1> QED BY <1>0, <1>6 DEF OrderInv

LEMMA InitOrderInv ==
    ASSUME Init
    PROVE  OrderInv
    <1>1. FlagsInv /\ LinksInv
        BY DEF Init, FlagsInv, FlagOf, FlagRow, Owes, LinksInv, LinkOf, Issuing, OlderTokens, NoRow, Idle
    <1> QED BY <1>1, InitAccountsInv DEF OrderInv

(* In any interleaving of requests that may fail or stop at any statement, *)
(* a user has at most one link of each purpose unless the last two crossed, *)
(* and mustChangePassword follows who chose the password unless the two    *)
(* were written by halves.                                                 *)
THEOREM AccountsKeptInOrder == Spec => []AccountsInOrder
    <1>1. ASSUME OrderInv PROVE AccountsInOrder
        <2>1. OneLiveToken
            <3>1. \A t \in tokens : t.user \in Users /\ t.purpose \in Purposes
                BY <1>1 DEF OrderInv, AccountsInv, TypeOK, TokenRow
            <3> SUFFICES ASSUME NEW s \in tokens, NEW t \in tokens, s.user = t.user,
                                s.purpose = t.purpose, <<s.user, s.purpose>> \notin crossed
                         PROVE  s = t
                BY DEF OneLiveToken
            <3>2. LinkOf(s.user, s.purpose)
                BY <1>1, <3>1 DEF OrderInv, LinksInv
            <3>3. s \in OlderTokens(s.user, s.purpose) /\ t \in OlderTokens(s.user, s.purpose)
                BY DEF OlderTokens
            <3> QED BY <3>2, <3>3 DEF LinkOf
        <2>2. TemporaryMustChange
            BY <1>1 DEF TemporaryMustChange, OrderInv, FlagsInv, FlagOf, FlagRow
        <2> QED BY <2>1, <2>2 DEF AccountsInOrder
    <1>2. Init => OrderInv
        BY InitOrderInv
    <1>3. OrderInv /\ [Next]_vars => OrderInv'
        BY NextOrderInv
    <1> QED BY <1>1, <1>2, <1>3, PTL DEF Spec

-----------------------------------------------------------------------------
(***************************************************************************)
(* Sessions, for any users, requests and bounds.                           *)
(***************************************************************************)
(* What is between the delete and the create of a refresh is a set that    *)
(* grows and shrinks by one, so it and the rows can be counted.            *)
Recreating == {c \in Calls : request[c].at = "recreate"}
CountInv ==
    /\ Session!TypeOK
    /\ IsFiniteSet(sessions) /\ IsFiniteSet(Recreating)
    /\ Session!SessionsNeverMultiply

(* With calm calls at most one request is under way; a device has one row  *)
(* and was numbered at its login; whoever has a row exists; the tokens of  *)
(* this second are known.                                                  *)
Busy(c) == request[c].at # "idle"
Numbered(d) == d \in 1 .. logins
SignedInTime(t) == t.iat <= now /\ (t.iat = now => t \in signed)
CalmRowsInv ==
    /\ \A c, d \in Calls : Busy(c) /\ Busy(d) => c = d
    /\ \A r, s \in sessions : r.device = s.device => r = s
    /\ \A r \in sessions :
          Numbered(r.device) /\ status[r.token.sub] # "GONE" /\ SignedInTime(r.token)
    /\ \A d \in revoked : Numbered(d)
    /\ \A t \in signed : t.iat = now

(* What the one request has read is still true.                            *)
Fresh(next) == SignedInTime(next) /\ \A r \in sessions : r.token # next
CalmCallsInv ==
    \A c \in Calls :
        LET s == request[c] IN
        /\ s.at \in {"delete", "drop"} => s.row \in sessions
        /\ s.at \in {"delete", "recreate"} => Fresh(s.next) /\ s.next.sub = s.row.token.sub
        /\ s.at = "recreate" =>
              /\ Numbered(s.row.device) /\ status[s.next.sub] # "GONE"
              /\ \A r \in sessions : r.device # s.row.device
              /\ (s.row.device \in revoked \/ status[s.next.sub] = "INACTIVE") => ~s.row.active
        /\ s.at = "create" => status[s.user] # "INACTIVE"
        /\ s.at = "deactivate" => \A r \in sessions : r.token.sub = s.user => ~r.active

(* A user who may not log in has no active row, unless the request that    *)
(* changed the status is about to revoke them.                             *)
CalmStatusInv ==
    \A r \in sessions :
        (status[r.token.sub] = "INACTIVE" /\ r.active) =>
            \E c \in Calls : request[c].at = "revoke" /\ request[c].user = r.token.sub
CalmInv ==
    /\ CountInv /\ CalmRowsInv /\ CalmCallsInv /\ CalmStatusInv
    /\ Session!RevokedStaysRevoked /\ Session!EachDeviceKeepsItsSession

-----------------------------------------------------------------------------
\* The instance brings its own name for the library's operator.
LEMMA SessionCardinality ==
    ASSUME NEW S
    PROVE  Session!Cardinality(S) = Cardinality(S)
    BY DEF Session!Cardinality, Cardinality

LEMMA RequestFields ==
    ASSUME NEW s \in Session!Call
    PROVE  /\ s.at = "create" => s \in [at : {"create"}, user : Holders, remember : BOOLEAN]
           /\ s.at \in {"delete", "recreate", "answer"} =>
                s \in [at : {"delete", "recreate", "answer"}, row : Session!Row, next : Session!Token]
           /\ s.at = "drop" => s \in [at : {"drop"}, row : Session!Row]
           /\ s.at \in {"revoke", "remove", "deactivate"} =>
                s \in [at : {"revoke", "remove", "deactivate"}, user : Holders]
    BY DEF Session!Call, Session!Idle

LEMMA RequestMoves ==
    ASSUME Session!TypeOK, NEW c \in Calls, NEW s \in Session!Call, Session!Goto(c, s)
    PROVE  /\ request' \in [Calls -> Session!Call]
           /\ request'[c] = s /\ \A d \in Calls : d # c => request'[d] = request[d]
    BY DEF Session!TypeOK, Session!Goto

LEMMA SignedTokens ==
    ASSUME Session!SessionsAssumption, Session!TypeOK, NEW u \in Holders, NEW ttl \in {ShortTtl, LongTtl}
    PROVE  /\ Session!CreateSessionTokens(u, ttl) \in Session!Token
           /\ Session!Sign(Session!CreateSessionTokens(u, ttl)) => signed' \subseteq Session!Token
    BY DEF Session!SessionsAssumption, Session!TypeOK, Session!CreateSessionTokens, Session!Token,
           Session!Sign

LEMMA DeactivatedRows ==
    ASSUME Session!TypeOK, NEW rows \in SUBSET sessions, Session!Deactivate(rows)
    PROVE  sessions' \subseteq Session!Row
    BY DEF Session!TypeOK, Session!Deactivate, Session!Row

LEMMA RevokedRows ==
    ASSUME Session!TypeOK, NEW u \in Holders, Session!RevokeRows(u)
    PROVE  sessions' \subseteq Session!Row /\ revoked' \subseteq Session!Devices
    <1> DEFINE rows == {r \in Session!RowsOf(u) : r.active}
    <1>1. rows \in SUBSET sessions
        BY DEF Session!RowsOf
    <1>2. Session!Deactivate(rows) /\ revoked' = revoked \cup Session!DevicesOf(rows)
        BY DEF Session!RevokeRows
    <1>3. Session!DevicesOf(rows) \subseteq Session!Devices
        BY <1>1 DEF Session!DevicesOf, Session!TypeOK, Session!Row
    <1> HIDE DEF rows
    <1> QED BY <1>1, <1>2, <1>3, DeactivatedRows DEF Session!TypeOK

LEMMA SessionTypes ==
    ASSUME Session!SessionsAssumption, Session!TypeOK, [Session!Next]_Session!vars
    PROVE  Session!TypeOK'
    <1> USE DEF Session!Unchanged
    <1>0. Session!Idle \in Session!Call
        BY DEF Session!Call
    <1>1. ASSUME NEW c \in Calls, NEW u \in Holders, NEW remember \in BOOLEAN,
                 Session!Login(c, u, remember)
          PROVE  Session!TypeOK'
        <2>1. [at |-> "create", user |-> u, remember |-> remember] \in Session!Call
            BY DEF Session!Call
        <2> QED BY <1>1, <2>1, RequestMoves DEF Session!CalmIf, Session!Login, Session!TypeOK
    <1>2. ASSUME NEW c \in Calls, Session!IssueAuthSession(c)
          PROVE  Session!TypeOK'
        <2> DEFINE t == Session!CreateSessionTokens(request[c].user,
                            IF request[c].remember THEN LongTtl ELSE ShortTtl)
        <2>1. request[c].user \in Holders
            BY <1>2, RequestFields DEF Session!IssueAuthSession, Session!TypeOK
        <2>2. t \in Session!Token /\ signed' \subseteq Session!Token
            BY <1>2, <2>1, SignedTokens DEF Session!IssueAuthSession
        <2>3. \/ UNCHANGED <<sessions, logins>>
              \/ /\ logins < MaxLogins /\ logins' = logins + 1
                 /\ sessions' = sessions \cup {[token |-> t, device |-> logins + 1, active |-> TRUE]}
            BY <1>2 DEF Session!IssueAuthSession, Session!Insert
        <2>4. logins' \in 0 .. MaxLogins /\ (logins < MaxLogins => logins + 1 \in Session!Devices)
            BY <2>3 DEF Session!TypeOK, Session!Devices, Session!SessionsAssumption
        <2>5. sessions' \in SUBSET Session!Row
            <3>1. logins < MaxLogins =>
                    [token |-> t, device |-> logins + 1, active |-> TRUE] \in Session!Row
                BY <2>2, <2>4 DEF Session!Row
            <3> HIDE DEF t
            <3> QED BY <2>3, <3>1 DEF Session!TypeOK
        <2> QED BY <1>2, <1>0, <2>2, <2>4, <2>5, RequestMoves
                DEF Session!CalmIf, Session!IssueAuthSession, Session!TypeOK
    <1>3. ASSUME NEW c \in Calls, NEW row \in sessions, Session!RefreshRead(c, row)
          PROVE  Session!TypeOK'
        <2>1. row \in Session!Row /\ row.token.sub \in Holders
            BY DEF Session!TypeOK, Session!Row, Session!Token
        <2>2. [at |-> "drop", row |-> row] \in Session!Call
            BY <2>1 DEF Session!Call
        <2> DEFINE next == Session!CreateSessionTokens(row.token.sub, ShortTtl)
        <2>3. next \in Session!Token
            BY <2>1, SignedTokens
        <2>4. [at |-> "delete", row |-> row, next |-> next] \in Session!Call
            BY <2>1, <2>3 DEF Session!Call
        <2>5. signed' \subseteq Session!Token /\ request' \in [Calls -> Session!Call]
            BY <1>3, <2>1, <2>2, <2>4, SignedTokens, RequestMoves DEF Session!RefreshRead, Session!TypeOK
        <2> QED BY <1>3, <2>5 DEF Session!CalmIf, Session!RefreshRead, Session!TypeOK
    <1>4. ASSUME NEW c \in Calls, Session!DropExpired(c)
          PROVE  Session!TypeOK'
        <2>1. request[c].row \in Session!Row
            BY <1>4, RequestFields DEF Session!DropExpired, Session!TypeOK
        <2>2. closed' \subseteq Session!Devices
            BY <1>4, <2>1 DEF Session!DropExpired, Session!TypeOK, Session!Row
        <2> QED BY <1>4, <1>0, <2>2, RequestMoves DEF Session!DropExpired, Session!Delete, Session!TypeOK
    <1>5. ASSUME NEW c \in Calls, Session!RefreshDelete(c)
          PROVE  Session!TypeOK'
        <2>1. [request[c] EXCEPT !.at = "recreate"] \in Session!Call
            BY <1>5, RequestFields DEF Session!RefreshDelete, Session!TypeOK, Session!Call
        <2> QED BY <1>5, <1>0, <2>1, RequestMoves DEF Session!RefreshDelete, Session!Delete, Session!TypeOK
    <1>6. ASSUME NEW c \in Calls, Session!RefreshCreate(c)
          PROVE  Session!TypeOK'
        <2>1. /\ [request[c] EXCEPT !.at = "answer"] \in Session!Call
              /\ Session!Successor(request[c].row, request[c].next) \in Session!Row
            BY <1>6, RequestFields
            DEF Session!RefreshCreate, Session!TypeOK, Session!Call, Session!Successor, Session!Row
        <2> QED BY <1>6, <1>0, <2>1, RequestMoves
                DEF Session!RefreshCreate, Session!Insert, Session!TypeOK
    <1>7. ASSUME NEW c \in Calls, Session!RefreshAnswer(c)
          PROVE  Session!TypeOK'
        <2>1. request[c].row.device \in Session!Devices
            BY <1>7, RequestFields DEF Session!RefreshAnswer, Session!TypeOK, Session!Row
        <2> QED BY <1>7, <1>0, <2>1, RequestMoves DEF Session!RefreshAnswer, Session!TypeOK
    <1>8. ASSUME NEW c \in Calls, NEW row \in sessions, Session!RevokeSession(c, row)
          PROVE  Session!TypeOK'
        <2>1. sessions' \subseteq Session!Row
            BY <1>8, DeactivatedRows DEF Session!RevokeSession
        <2>2. row.device \in Session!Devices
            BY DEF Session!TypeOK, Session!Row
        <2> QED BY <1>8, <2>1, <2>2 DEF Session!CalmIf, Session!RevokeSession, Session!TypeOK
    <1>9. ASSUME NEW c \in Calls, NEW u \in Holders, Session!RevokeAll(c, u)
          PROVE  Session!TypeOK'
        BY <1>9, RevokedRows DEF Session!CalmIf, Session!RevokeAll, Session!TypeOK
    <1>10. ASSUME NEW c \in Calls, NEW u \in Holders, NEW then \in {"remove", "deactivate"},
                  Session!DeleteAccount(c, u, then)
           PROVE  Session!TypeOK'
        <2>1. [at |-> then, user |-> u] \in Session!Call
            BY DEF Session!Call
        <2> QED BY <1>10, <2>1, RevokedRows, RequestMoves
                DEF Session!CalmIf, Session!DeleteAccount, Session!TypeOK
    <1>11. ASSUME NEW c \in Calls, Session!RemoveUser(c)
           PROVE  Session!TypeOK'
        <2>1. closed' \subseteq Session!Devices
            BY <1>11 DEF Session!RemoveUser, Session!TypeOK, Session!DevicesOf, Session!RowsOf, Session!Row
        <2> QED BY <1>11, <1>0, <2>1, RequestMoves DEF Session!RemoveUser, Session!TypeOK
    <1>12. ASSUME NEW c \in Calls, Session!DeactivateUser(c)
           PROVE  Session!TypeOK'
        BY <1>12, <1>0, RequestMoves DEF Session!DeactivateUser, Session!TypeOK, Session!UserStatus
    <1>13. ASSUME NEW c \in Calls, NEW u \in Holders, NEW s \in Session!UserStatus,
                  Session!ChangeUserStatus(c, u, s)
           PROVE  Session!TypeOK'
        <2>1. [at |-> "revoke", user |-> u] \in Session!Call
            BY DEF Session!Call
        <2> QED BY <1>13, <1>0, <2>1, RequestMoves DEF Session!CalmIf, Session!ChangeUserStatus, Session!TypeOK
    <1>14. ASSUME NEW c \in Calls, Session!ChangeUserStatusRevoke(c)
           PROVE  Session!TypeOK'
        <2>1. request[c].user \in Holders
            BY <1>14, RequestFields DEF Session!ChangeUserStatusRevoke, Session!TypeOK
        <2> QED BY <1>14, <1>0, <2>1, RevokedRows, RequestMoves
                DEF Session!ChangeUserStatusRevoke, Session!TypeOK
    <1>15. ASSUME NEW c \in Calls, Session!CallFails(c)
           PROVE  Session!TypeOK'
        BY <1>15, <1>0, RequestMoves DEF Session!CalmIf, Session!CallFails, Session!TypeOK
    <1>16. CASE Session!Tick
        BY <1>16 DEF Session!Tick, Session!TypeOK, Session!SessionsAssumption
    <1>17. CASE UNCHANGED Session!vars
        BY <1>17 DEF Session!vars, Session!TypeOK
    <1> QED
        BY <1>1, <1>2, <1>3, <1>4, <1>5, <1>6, <1>7, <1>8, <1>9, <1>10, <1>11, <1>12, <1>13, <1>14,
           <1>15, <1>16, <1>17
        DEF Session!Next, Session!AuthStep, Session!UserStep, Session!AdminStep

(* The number of rows and refreshes under way.                             *)
LEMMA RecreatingMoves ==
    ASSUME Session!TypeOK, NEW c \in Calls, NEW s \in Session!Call, Session!Goto(c, s),
           IsFiniteSet(Recreating)
    PROVE  /\ IsFiniteSet(Recreating')
           /\ s.at = "recreate" /\ c \notin Recreating =>
                Cardinality(Recreating') = Cardinality(Recreating) + 1
           /\ s.at # "recreate" /\ c \in Recreating =>
                Cardinality(Recreating') = Cardinality(Recreating) - 1
           /\ s.at # "recreate" /\ c \notin Recreating =>
                Cardinality(Recreating') = Cardinality(Recreating)
           /\ Cardinality(Recreating) \in Nat /\ Cardinality(Recreating') \in Nat
    <1>1. Recreating' = IF s.at = "recreate" THEN Recreating \cup {c} ELSE Recreating \ {c}
        BY RequestMoves DEF Recreating
    <1>2. c \notin Recreating => Recreating \ {c} = Recreating
        OBVIOUS
    <1> QED BY <1>1, <1>2, FS_AddElement, FS_RemoveElement, FS_CardinalityType

LEMMA FewerRows ==
    ASSUME CountInv, sessions' \in SUBSET sessions
    PROVE  /\ IsFiniteSet(sessions') /\ Session!OneRowPerToken'
           /\ Cardinality(sessions) \in Nat /\ Cardinality(sessions') \in Nat
           /\ Cardinality(sessions') =< Cardinality(sessions)
    BY FS_Subset, FS_CardinalityType DEF CountInv, Session!SessionsNeverMultiply, Session!OneRowPerToken

LEMMA OneMoreRow ==
    ASSUME CountInv, NEW row, Session!NewToken(row.token), Session!Insert(row)
    PROVE  /\ IsFiniteSet(sessions') /\ Session!OneRowPerToken'
           /\ Cardinality(sessions) \in Nat
           /\ Cardinality(sessions') = Cardinality(sessions) + 1
    <1>1. row \notin sessions
        BY DEF Session!NewToken
    <1> QED BY <1>1, FS_AddElement, FS_CardinalityType
        DEF CountInv, Session!SessionsNeverMultiply, Session!OneRowPerToken, Session!NewToken, Session!Insert

LEMMA AsManyRows ==
    ASSUME CountInv, NEW rows \in SUBSET sessions, Session!Deactivate(rows)
    PROVE  /\ IsFiniteSet(sessions') /\ Session!OneRowPerToken'
           /\ Cardinality(sessions) \in Nat /\ Cardinality(sessions') \in Nat
           /\ Cardinality(sessions') =< Cardinality(sessions)
    <1> DEFINE Changed(r) == IF r \in rows THEN [r EXCEPT !.active = FALSE] ELSE r
               f == [r \in sessions |-> Changed(r)]
    <1>1. sessions' = {Changed(r) : r \in sessions}
        BY DEF Session!Deactivate
    <1>2. f \in Surjection(sessions, sessions')
        <2>1. f \in [sessions -> sessions']
            BY <1>1
        <2>2. \A t \in sessions' : \E s \in sessions : f[s] = t
            BY <1>1
        <2> HIDE DEF f
        <2> QED BY <2>1, <2>2, Fun_IsSurj
    <1>3. IsFiniteSet(sessions)
        BY DEF CountInv
    <1>4. IsFiniteSet(sessions') /\ Cardinality(sessions') =< Cardinality(sessions)
        <2> HIDE DEF f
        <2> QED BY <1>2, <1>3, FS_Surjection
    <1>5. \A r \in sessions : Changed(r).token = r.token
        BY DEF CountInv, Session!TypeOK, Session!Row
    <1>6. Session!OneRowPerToken'
        <2> SUFFICES ASSUME NEW r \in sessions, NEW s \in sessions, Changed(r).token = Changed(s).token
                     PROVE  Changed(r) = Changed(s)
            BY <1>1 DEF Session!OneRowPerToken
        <2>1. r.token = s.token
            BY <1>5
        <2> QED BY <2>1 DEF CountInv, Session!SessionsNeverMultiply, Session!OneRowPerToken
    <1> QED BY <1>3, <1>4, <1>6, FS_CardinalityType

LEMMA RevokedCount ==
    ASSUME CountInv, NEW u, Session!RevokeRows(u)
    PROVE  /\ IsFiniteSet(sessions') /\ Session!OneRowPerToken'
           /\ Cardinality(sessions) \in Nat /\ Cardinality(sessions') \in Nat
           /\ Cardinality(sessions') =< Cardinality(sessions)
    <1> DEFINE rows == {r \in Session!RowsOf(u) : r.active}
    <1>1. rows \in SUBSET sessions /\ Session!Deactivate(rows)
        BY DEF Session!RowsOf, Session!RevokeRows
    <1> HIDE DEF rows
    <1> QED BY <1>1, AsManyRows

LEMMA NextCountInv ==
    ASSUME Session!SessionsAssumption, CountInv, [Session!Next]_Session!vars
    PROVE  CountInv'
    <1> USE DEF Session!Unchanged
    <1>0. Session!TypeOK /\ Session!TypeOK' /\ Session!Idle \in Session!Call
          /\ IsFiniteSet(Recreating) /\ logins \in Nat
        BY SessionTypes DEF CountInv, Session!Call, Session!TypeOK
    <1>a. ASSUME IsFiniteSet(sessions'), IsFiniteSet(Recreating'), Session!OneRowPerToken',
                 Cardinality(sessions') + Cardinality(Recreating') =< logins'
          PROVE  CountInv'
        BY <1>a, <1>0, SessionCardinality DEF CountInv, Session!SessionsNeverMultiply, Session!NoSessionMultiplied, Recreating
    <1>b. Cardinality(sessions) + Cardinality(Recreating) =< logins
        BY SessionCardinality DEF CountInv, Session!SessionsNeverMultiply, Session!NoSessionMultiplied, Recreating
    <1>c. ASSUME UNCHANGED sessions
          PROVE  /\ IsFiniteSet(sessions') /\ Session!OneRowPerToken'
                 /\ Cardinality(sessions) \in Nat /\ Cardinality(sessions') = Cardinality(sessions)
        BY <1>c, FewerRows
    <1>d. ASSUME UNCHANGED request
          PROVE  /\ IsFiniteSet(Recreating') /\ Cardinality(Recreating) \in Nat
                 /\ Cardinality(Recreating') = Cardinality(Recreating)
        BY <1>d, <1>0, FS_CardinalityType DEF Recreating
    <1>e. ASSUME NEW c \in Calls, NEW s \in Session!Call, Session!Goto(c, s), s.at # "recreate"
          PROVE  /\ IsFiniteSet(Recreating')
                 /\ Cardinality(Recreating) \in Nat /\ Cardinality(Recreating') \in Nat
                 /\ Cardinality(Recreating') =< Cardinality(Recreating)
        BY <1>e, <1>0, RecreatingMoves
    <1>f. ASSUME NEW c \in Calls, Session!Goto(c, Session!Idle)
          PROVE  /\ IsFiniteSet(Recreating')
                 /\ Cardinality(Recreating) \in Nat /\ Cardinality(Recreating') \in Nat
                 /\ Cardinality(Recreating') =< Cardinality(Recreating)
        BY <1>e, <1>f, <1>0 DEF Session!Idle
    <1>1. ASSUME NEW c \in Calls, NEW u \in Holders, NEW remember \in BOOLEAN,
                 Session!Login(c, u, remember)
          PROVE  CountInv'
        <2>1. [at |-> "create", user |-> u, remember |-> remember] \in Session!Call
            BY DEF Session!Call
        <2> QED BY <1>1, <1>0, <1>a, <1>b, <1>c, <1>e, <2>1 DEF Session!Login
    <1>2. ASSUME NEW c \in Calls, Session!IssueAuthSession(c)
          PROVE  CountInv'
        <2> DEFINE t == Session!CreateSessionTokens(request[c].user,
                            IF request[c].remember THEN LongTtl ELSE ShortTtl)
                   row == [token |-> t, device |-> logins + 1, active |-> TRUE]
        <2>1. \/ UNCHANGED <<sessions, logins>>
              \/ Session!NewToken(row.token) /\ Session!Insert(row) /\ logins' = logins + 1
            BY <1>2 DEF Session!IssueAuthSession
        <2>2. Session!Goto(c, Session!Idle)
            BY <1>2 DEF Session!IssueAuthSession
        <2> HIDE DEF row
        <2>3. CASE UNCHANGED <<sessions, logins>>
            BY <2>3, <2>2, <1>0, <1>a, <1>b, <1>c, <1>f
        <2>4. CASE Session!NewToken(row.token) /\ Session!Insert(row) /\ logins' = logins + 1
            BY <2>4, <2>2, <1>0, <1>a, <1>b, <1>f, OneMoreRow
        <2> QED BY <2>1, <2>3, <2>4
    <1>3. ASSUME NEW c \in Calls, NEW row \in sessions, Session!RefreshRead(c, row)
          PROVE  CountInv'
        <2>1. PICK s : Session!Goto(c, s) /\ s.at # "recreate"
            BY <1>3 DEF Session!RefreshRead
        <2>2. s \in Session!Call
            BY <2>1, <1>0 DEF Session!Goto, Session!TypeOK
        <2> QED BY <1>3, <2>1, <2>2, <1>0, <1>a, <1>b, <1>c, <1>e DEF Session!RefreshRead
    <1>4. ASSUME NEW c \in Calls, Session!DropExpired(c)
          PROVE  CountInv'
        <2>1. sessions' \in SUBSET sessions /\ Session!Goto(c, Session!Idle) /\ UNCHANGED logins
            BY <1>4 DEF Session!DropExpired, Session!Delete
        <2> QED BY <2>1, <1>0, <1>a, <1>b, <1>f, FewerRows
    <1>5. ASSUME NEW c \in Calls, Session!RefreshDelete(c)
          PROVE  CountInv'
        <2> DEFINE gone == {r \in sessions : r.token = request[c].row.token}
                   s == [request[c] EXCEPT !.at = "recreate"]
        <2>1. /\ sessions' = sessions \ gone /\ UNCHANGED logins /\ request[c].at = "delete"
              /\ Session!Goto(c, IF gone = {} THEN Session!Idle ELSE s)
            BY <1>5 DEF Session!RefreshDelete, Session!Delete
        <2>2. CASE gone = {}
            BY <2>1, <2>2, <1>0, <1>a, <1>b, <1>f, FewerRows
        <2>3. CASE gone # {}
            <3>1. s \in Session!Call /\ s.at = "recreate" /\ c \notin Recreating
                BY <2>1, <1>0, RequestFields DEF Session!TypeOK, Session!Call, Recreating
            <3>2. PICK r \in sessions : sessions' \subseteq sessions \ {r}
                BY <2>1, <2>3
            <3>3. Cardinality(sessions') =< Cardinality(sessions) - 1
                <4>1. IsFiniteSet(sessions \ {r}) /\ Cardinality(sessions \ {r}) = Cardinality(sessions) - 1
                    BY FS_RemoveElement DEF CountInv
                <4> QED BY <4>1, <3>2, FS_Subset
            <3>4. /\ IsFiniteSet(Recreating') /\ Cardinality(Recreating) \in Nat
                  /\ Cardinality(Recreating') = Cardinality(Recreating) + 1
                <4> HIDE DEF s, gone
                <4> QED BY <2>1, <2>3, <3>1, <1>0, RecreatingMoves
            <3>5. IsFiniteSet(sessions') /\ Session!OneRowPerToken'
                  /\ Cardinality(sessions) \in Nat /\ Cardinality(sessions') \in Nat
                BY <2>1, FewerRows
            <3> QED BY <2>1, <3>3, <3>4, <3>5, <1>0, <1>a, <1>b
        <2> QED BY <2>2, <2>3
    <1>6. ASSUME NEW c \in Calls, Session!RefreshCreate(c)
          PROVE  CountInv'
        <2> DEFINE row == Session!Successor(request[c].row, request[c].next)
        <2>1. /\ \/ UNCHANGED sessions
                 \/ Session!NewToken(request[c].next) /\ Session!Insert(row)
              /\ UNCHANGED logins /\ c \in Recreating
              /\ \E s : Session!Goto(c, s) /\ s.at # "recreate"
            BY <1>6, <1>0 DEF Session!RefreshCreate, Recreating, Session!Idle, Session!TypeOK, Session!Call
        <2>2. PICK s : Session!Goto(c, s) /\ s.at # "recreate"
            BY <2>1
        <2>3. s \in Session!Call
            BY <2>2, <1>0 DEF Session!Goto, Session!TypeOK
        <2>4. /\ IsFiniteSet(Recreating') /\ Cardinality(Recreating) \in Nat
              /\ Cardinality(Recreating') \in Nat
              /\ Cardinality(Recreating') = Cardinality(Recreating) - 1
            BY <2>1, <2>2, <2>3, <1>0, RecreatingMoves
        <2>5. row.token = request[c].next
            BY <1>6, <1>0, RequestFields DEF Session!RefreshCreate, Session!Successor, Session!TypeOK, Session!Row
        <2> HIDE DEF row
        <2>6. CASE UNCHANGED sessions
            BY <2>1, <2>4, <2>6, <1>0, <1>a, <1>b, <1>c
        <2>7. CASE Session!NewToken(request[c].next) /\ Session!Insert(row)
            BY <2>1, <2>4, <2>5, <2>7, <1>0, <1>a, <1>b, OneMoreRow
        <2> QED BY <2>1, <2>6, <2>7
    <1>7. ASSUME NEW c \in Calls, Session!RefreshAnswer(c)
          PROVE  CountInv'
        BY <1>7, <1>0, <1>a, <1>b, <1>c, <1>f DEF Session!RefreshAnswer
    <1>8. ASSUME NEW c \in Calls, NEW row \in sessions, Session!RevokeSession(c, row)
          PROVE  CountInv'
        <2>1. Session!Deactivate({row}) /\ UNCHANGED <<request, logins>>
            BY <1>8 DEF Session!RevokeSession
        <2> QED BY <2>1, <1>0, <1>a, <1>b, <1>d, AsManyRows
    <1>9. ASSUME NEW c \in Calls, NEW u \in Holders, Session!RevokeAll(c, u)
          PROVE  CountInv'
        BY <1>9, <1>0, <1>a, <1>b, <1>d, RevokedCount DEF Session!RevokeAll
    <1>10. ASSUME NEW c \in Calls, NEW u \in Holders, NEW then \in {"remove", "deactivate"},
                  Session!DeleteAccount(c, u, then)
           PROVE  CountInv'
        <2>1. [at |-> then, user |-> u] \in Session!Call
            BY DEF Session!Call
        <2> QED BY <1>10, <2>1, <1>0, <1>a, <1>b, <1>e, RevokedCount DEF Session!DeleteAccount
    <1>11. ASSUME NEW c \in Calls, Session!RemoveUser(c)
           PROVE  CountInv'
        <2>1. sessions' \in SUBSET sessions /\ Session!Goto(c, Session!Idle) /\ UNCHANGED logins
            BY <1>11 DEF Session!RemoveUser
        <2> QED BY <2>1, <1>0, <1>a, <1>b, <1>f, FewerRows
    <1>12. ASSUME NEW c \in Calls, Session!DeactivateUser(c)
           PROVE  CountInv'
        BY <1>12, <1>0, <1>a, <1>b, <1>c, <1>f DEF Session!DeactivateUser
    <1>13. ASSUME NEW c \in Calls, NEW u \in Holders, NEW s \in Session!UserStatus,
                  Session!ChangeUserStatus(c, u, s)
           PROVE  CountInv'
        <2>1. [at |-> "revoke", user |-> u] \in Session!Call
            BY DEF Session!Call
        <2> QED BY <1>13, <2>1, <1>0, <1>a, <1>b, <1>c, <1>e, <1>f DEF Session!ChangeUserStatus
    <1>14. ASSUME NEW c \in Calls, Session!ChangeUserStatusRevoke(c)
           PROVE  CountInv'
        BY <1>14, <1>0, <1>a, <1>b, <1>f, RevokedCount DEF Session!ChangeUserStatusRevoke
    <1>15. ASSUME NEW c \in Calls, Session!CallFails(c)
           PROVE  CountInv'
        BY <1>15, <1>0, <1>a, <1>b, <1>c, <1>f DEF Session!CallFails
    <1>16. CASE Session!Tick
        BY <1>16, <1>0, <1>a, <1>b, <1>c, <1>d DEF Session!Tick
    <1>17. CASE UNCHANGED Session!vars
        BY <1>17, <1>0, <1>a, <1>b, <1>c, <1>d DEF Session!vars
    <1> QED
        BY <1>1, <1>2, <1>3, <1>4, <1>5, <1>6, <1>7, <1>8, <1>9, <1>10, <1>11, <1>12, <1>13, <1>14,
           <1>15, <1>16, <1>17
        DEF Session!Next, Session!AuthStep, Session!UserStep, Session!AdminStep

LEMMA InitCountInv ==
    ASSUME Session!SessionsAssumption, Session!Init
    PROVE  CountInv
    <1>1. Recreating = {} /\ sessions = {} /\ logins = 0
        BY DEF Session!Init, Recreating, Session!Idle
    <1>2. Session!TypeOK
        BY DEF Session!SessionsAssumption, Session!Init, Session!TypeOK, Session!Call, Session!UserStatus
    <1>3. Cardinality({}) = 0 /\ IsFiniteSet({})
        BY FS_EmptySet
    <1>4. Session!Cardinality(sessions) = 0 /\ Session!Cardinality(Recreating) = 0
        BY <1>1, <1>3, SessionCardinality
    <1>5. Session!NoSessionMultiplied
        BY <1>1, <1>4 DEF Session!NoSessionMultiplied, Recreating
    <1> QED BY <1>1, <1>2, <1>3, <1>5
        DEF CountInv, Session!SessionsNeverMultiply, Session!OneRowPerToken

-----------------------------------------------------------------------------
(* Each refresh ends one row and begins one: however refreshes, logins,     *)
(* revocations and crashes interleave, no login makes two sessions, and no *)
(* token is in two rows.                                                   *)
THEOREM SessionsCounted == Session!Spec => []SessionsNeverMultiply
    <1>1. CountInv => SessionsNeverMultiply
        BY DEF CountInv, SessionsNeverMultiply
    <1>2. CountInv /\ [Session!Next]_Session!vars => CountInv'
        BY SessionsAssumption, NextCountInv
    <1>3. Session!Init => CountInv
        BY SessionsAssumption, InitCountInv
    <1> QED BY <1>1, <1>2, <1>3, PTL DEF Session!Spec

-----------------------------------------------------------------------------
(* Calm calls.                                                             *)
\* Calls that are calm have always been.
LEMMA CalmNow ==
    ASSUME calm', [Session!Next]_Session!vars
    PROVE  calm
    BY DEF Session!Next, Session!AuthStep, Session!UserStep, Session!AdminStep, Session!vars,
       Session!CalmIf, Session!Login, Session!IssueAuthSession, Session!RefreshRead,
       Session!DropExpired, Session!RefreshDelete, Session!RefreshCreate, Session!RefreshAnswer,
       Session!RevokeSession, Session!RevokeAll, Session!DeleteAccount, Session!RemoveUser,
       Session!DeactivateUser, Session!ChangeUserStatus, Session!ChangeUserStatusRevoke,
       Session!CallFails, Session!Tick

LEMMA CalmStart ==
    ASSUME calm', Session!CalmIf(Session!Alone)
    PROVE  \A d \in Calls : ~Busy(d)
    BY DEF Session!CalmIf, Session!Alone, Session!InFlight, Busy

\* One request is under way before and after a step of request c.
LEMMA CalmMoves ==
    ASSUME CalmInv, NEW c \in Calls, NEW s \in Session!Call, Session!Goto(c, s),
           Busy(c) \/ \A d \in Calls : ~Busy(d)
    PROVE  /\ request'[c] = s
           /\ \A d \in Calls : d # c => request'[d].at = "idle" /\ request[d].at = "idle"
           /\ \A d, e \in Calls : Busy(d)' /\ Busy(e)' => d = e
    BY RequestMoves DEF CalmInv, CountInv, CalmRowsInv, Busy

LEMMA Deactivated ==
    ASSUME CalmInv, NEW rows \in SUBSET sessions, Session!Deactivate(rows)
    PROVE  /\ \A s \in sessions' : \E r \in sessions :
                 /\ s.token = r.token /\ s.device = r.device
                 /\ s.active => s = r /\ r \notin rows
           /\ \A r \in sessions : \E s \in sessions' : s.device = r.device
           /\ \A r, s \in sessions' : r.device = s.device => r = s
    <1> DEFINE Changed(r) == IF r \in rows THEN [r EXCEPT !.active = FALSE] ELSE r
    <1>1. sessions' = {Changed(r) : r \in sessions}
        BY DEF Session!Deactivate
    <1>2. \A r \in sessions :
            /\ Changed(r).token = r.token /\ Changed(r).device = r.device
            /\ Changed(r).active => Changed(r) = r /\ r \notin rows
        BY DEF CalmInv, CountInv, Session!TypeOK, Session!Row
    <1> HIDE DEF Changed
    <1> QED BY <1>1, <1>2 DEF CalmInv, CalmRowsInv

LEMMA Revoked ==
    ASSUME CalmInv, NEW u \in Holders, Session!RevokeRows(u)
    PROVE  /\ \A s \in sessions' : \E r \in sessions :
                 /\ s.token = r.token /\ s.device = r.device
                 /\ s.active => s = r /\ r.token.sub # u
           /\ \A r \in sessions : \E s \in sessions' : s.device = r.device
           /\ \A r, s \in sessions' : r.device = s.device => r = s
           /\ Session!RevokedStaysRevoked'
           /\ \A d \in revoked' : Numbered(d)
    <1> DEFINE rows == {r \in Session!RowsOf(u) : r.active}
    <1>1. rows \in SUBSET sessions /\ Session!Deactivate(rows)
          /\ revoked' = revoked \cup {r.device : r \in rows}
        BY DEF Session!RowsOf, Session!RevokeRows, Session!DevicesOf
    <1>2. \A r \in sessions : r.active /\ r.token.sub = u => r \in rows
        BY DEF Session!RowsOf
    <1> HIDE DEF rows
    <1>3. /\ \A s \in sessions' : \E r \in sessions :
                 /\ s.token = r.token /\ s.device = r.device
                 /\ s.active => s = r /\ r \notin rows
          /\ \A r \in sessions : \E s \in sessions' : s.device = r.device
          /\ \A r, s \in sessions' : r.device = s.device => r = s
        BY <1>1, Deactivated
    <1>4. Session!RevokedStaysRevoked'
        BY <1>1, <1>3 DEF Session!RevokedStaysRevoked, CalmInv, CalmRowsInv
    <1>5. \A d \in revoked' : Numbered(d)
        BY <1>1 DEF CalmInv, CalmRowsInv
    <1> QED BY <1>2, <1>3, <1>4, <1>5

\* What RevokeRows and Deactivate keep of the invariant, whoever calls them.
LEMMA RevocationKeepsRows ==
    ASSUME CalmInv, UNCHANGED <<now, status, signed, logins, closed>>,
           \A s \in sessions' : \E r \in sessions :
                s.token = r.token /\ s.device = r.device /\ (s.active => s = r),
           \A r \in sessions : \E s \in sessions' : s.device = r.device,
           \A c \in Calls : request[c].at # "recreate"
    PROVE  /\ \A r \in sessions' :
                (Numbered(r.device) /\ status[r.token.sub] # "GONE" /\ SignedInTime(r.token))'
           /\ Session!EachDeviceKeepsItsSession'
    <1>1. Session!EachDeviceKeepsItsSession'
        BY DEF CalmInv, Session!EachDeviceKeepsItsSession
    <1>2. \A r \in sessions' :
                (Numbered(r.device) /\ status[r.token.sub] # "GONE" /\ SignedInTime(r.token))'
        BY DEF CalmInv, CalmRowsInv, Numbered, SignedInTime
    <1> QED BY <1>1, <1>2

LEMMA NextCalmInv ==
    ASSUME Session!SessionsAssumption, calm', CalmInv, [Session!Next]_Session!vars
    PROVE  CalmInv'
    <1> USE DEF Session!Unchanged
    <1>0. CountInv /\ CountInv' /\ Session!TypeOK /\ Session!Idle \in Session!Call
        BY NextCountInv DEF CalmInv, CountInv, Session!Call
    <1>t. \A c \in Calls : request[c] \in Session!Call
        BY <1>0 DEF Session!TypeOK
    <1>r. \A r \in sessions : r \in Session!Row /\ r.token \in Session!Token /\ r.token.sub \in Holders
        BY <1>0 DEF Session!TypeOK, Session!Row, Session!Token
    \* A request that ends, neither revoking nor between delete and create.
    <1>e. ASSUME NEW c \in Calls, request[c].at \notin {"idle", "recreate", "revoke"},
                 Session!Goto(c, Session!Idle),
                 UNCHANGED <<now, status, signed, sessions, logins, revoked>>, closed \subseteq closed'
          PROVE  CalmInv'
        <2>1. /\ request'[c] = Session!Idle
              /\ \A d \in Calls : d # c => request'[d].at = "idle" /\ request[d].at = "idle"
              /\ \A d, e \in Calls : Busy(d)' /\ Busy(e)' => d = e
            BY <1>0, <1>e, CalmMoves DEF Busy
        <2>2. CalmRowsInv'
            BY <1>e, <2>1 DEF CalmInv, CalmRowsInv, Numbered, SignedInTime
        <2>3. CalmCallsInv'
            BY <2>1 DEF CalmCallsInv, Session!Idle
        <2>4. CalmStatusInv' /\ Session!RevokedStaysRevoked' /\ Session!EachDeviceKeepsItsSession'
            BY <1>e, <2>1 DEF CalmInv, CalmStatusInv, Session!RevokedStaysRevoked,
                              Session!EachDeviceKeepsItsSession
        <2> QED BY <1>0, <2>2, <2>3, <2>4 DEF CalmInv
    \* A revocation while no request is under way.
    <1>s. ASSUME UNCHANGED <<now, status, signed, request, logins, closed>>, \A d \in Calls : ~Busy(d),
                 \A s \in sessions' : \E r \in sessions :
                    s.token = r.token /\ s.device = r.device /\ (s.active => s = r),
                 \A r \in sessions : \E s \in sessions' : s.device = r.device,
                 \A r, s \in sessions' : r.device = s.device => r = s,
                 Session!RevokedStaysRevoked', \A d \in revoked' : Numbered(d)
          PROVE  CalmInv'
        <2>1. /\ \A r \in sessions' :
                    (Numbered(r.device) /\ status[r.token.sub] # "GONE" /\ SignedInTime(r.token))'
              /\ Session!EachDeviceKeepsItsSession'
            BY <1>s, RevocationKeepsRows DEF Busy
        <2>2. CalmRowsInv'
            BY <1>s, <2>1 DEF CalmInv, CalmRowsInv, Numbered, Busy
        <2>3. CalmCallsInv'
            BY <1>s DEF CalmCallsInv, Busy
        <2>4. CalmStatusInv'
            BY <1>s DEF CalmInv, CalmStatusInv, Busy
        <2> QED BY <1>0, <1>s, <2>1, <2>2, <2>3, <2>4 DEF CalmInv
    <1>1. ASSUME NEW c \in Calls, NEW u \in Holders, NEW remember \in BOOLEAN,
                 Session!Login(c, u, remember)
          PROVE  CalmInv'
        <2> DEFINE s == [at |-> "create", user |-> u, remember |-> remember]
        <2>1. s \in Session!Call /\ s.at = "create" /\ s.user = u
            BY DEF Session!Call
        <2>2. /\ Session!Goto(c, s) /\ status[u] # "INACTIVE"
              /\ UNCHANGED <<now, status, signed, sessions, logins, revoked, closed>>
              /\ \A d \in Calls : ~Busy(d)
            BY <1>1, CalmStart DEF Session!Login, Session!IsSessionAllowed
        <2> HIDE DEF s
        <2>3. /\ request'[c] = s
              /\ \A d \in Calls : d # c => request'[d].at = "idle" /\ request[d].at = "idle"
              /\ \A d, e \in Calls : Busy(d)' /\ Busy(e)' => d = e
            BY <2>1, <2>2, CalmMoves
        <2>4. CalmRowsInv'
            BY <2>2, <2>3 DEF CalmInv, CalmRowsInv, Numbered, SignedInTime
        <2>5. CalmCallsInv'
            BY <2>1, <2>2, <2>3 DEF CalmCallsInv
        <2>6. CalmStatusInv'
            BY <2>2, <2>3 DEF CalmInv, CalmStatusInv, Busy
        <2>7. Session!RevokedStaysRevoked' /\ Session!EachDeviceKeepsItsSession'
            BY <2>2, <2>3 DEF CalmInv, Session!RevokedStaysRevoked, Session!EachDeviceKeepsItsSession, Busy
        <2> QED BY <1>0, <2>4, <2>5, <2>6, <2>7 DEF CalmInv
    <1>2. ASSUME NEW c \in Calls, Session!IssueAuthSession(c)
          PROVE  CalmInv'
        <2> DEFINE t == Session!CreateSessionTokens(request[c].user,
                            IF request[c].remember THEN LongTtl ELSE ShortTtl)
                   row == [token |-> t, device |-> logins + 1, active |-> TRUE]
        <2>1. /\ \/ UNCHANGED <<sessions, logins>>
                 \/ /\ sessions' = sessions \cup {row} /\ logins' = logins + 1
                    /\ status[request[c].user] # "GONE"
              /\ Session!Sign(t) /\ Session!Goto(c, Session!Idle)
              /\ request[c].at = "create" /\ UNCHANGED <<now, status, revoked, closed>>
            BY <1>2 DEF Session!IssueAuthSession, Session!Insert
        <2>2. /\ row.token = t /\ row.device = logins + 1 /\ row.active
              /\ t.iat = now /\ t.sub = request[c].user /\ signed' = signed \cup {t}
            BY <2>1 DEF Session!Sign, Session!CreateSessionTokens
        <2> HIDE DEF row, t
        <2>3. /\ request'[c] = Session!Idle
              /\ \A d \in Calls : d # c => request'[d].at = "idle" /\ request[d].at = "idle"
              /\ \A d, e \in Calls : Busy(d)' /\ Busy(e)' => d = e
            BY <1>0, <2>1, CalmMoves DEF Busy
        <2>4. logins \in Nat /\ \A d : Numbered(d) => Numbered(d)' /\ d # logins + 1
            BY <1>0, <2>1 DEF Session!TypeOK, Numbered
        <2>5. CalmRowsInv'
            <3>1. \A r, s \in sessions' : r.device = s.device => r = s
                BY <2>1, <2>2, <2>4 DEF CalmInv, CalmRowsInv
            <3>2. \A r \in sessions' :
                    Numbered(r.device)' /\ status'[r.token.sub] # "GONE" /\ SignedInTime(r.token)'
                BY <1>0, <2>1, <2>2, <2>4 DEF CalmInv, CalmRowsInv, Numbered, SignedInTime, Session!TypeOK
            <3> QED BY <2>1, <2>2, <2>3, <2>4, <3>1, <3>2 DEF CalmInv, CalmRowsInv
        <2>6. CalmCallsInv'
            BY <2>3 DEF CalmCallsInv, Session!Idle
        <2>7. CalmStatusInv'
            BY <2>1, <2>2, <2>3 DEF CalmInv, CalmStatusInv, CalmCallsInv
        <2>8. Session!RevokedStaysRevoked'
            BY <2>1, <2>2, <2>4 DEF CalmInv, CalmRowsInv, Session!RevokedStaysRevoked
        <2>9. Session!EachDeviceKeepsItsSession'
            BY <2>1, <2>2, <2>3, <2>4 DEF CalmInv, Session!EachDeviceKeepsItsSession
        <2> QED BY <1>0, <2>5, <2>6, <2>7, <2>8, <2>9 DEF CalmInv
    <1>3. ASSUME NEW c \in Calls, NEW row \in sessions, Session!RefreshRead(c, row)
          PROVE  CalmInv'
        <2> DEFINE next == Session!CreateSessionTokens(row.token.sub, ShortTtl)
                   dropped == [at |-> "drop", row |-> row]
                   begun == [at |-> "delete", row |-> row, next |-> next]
        <2>1. /\ \/ Session!Goto(c, dropped) /\ UNCHANGED signed
                 \/ Session!Sign(next) /\ Session!Apart(next) /\ Session!Goto(c, begun)
              /\ UNCHANGED <<now, status, sessions, logins, revoked, closed>>
              /\ \A d \in Calls : ~Busy(d)
            BY <1>3 DEF Session!RefreshRead, Session!CalmIf, Session!Alone, Session!InFlight, Busy
        <2>2. next.iat = now /\ next.sub = row.token.sub /\ next \in Session!Token
            BY <1>r, SignedTokens, <1>0 DEF Session!CreateSessionTokens
        <2>3. /\ dropped \in Session!Call /\ dropped.at = "drop" /\ dropped.row = row
              /\ begun \in Session!Call /\ begun.at = "delete" /\ begun.row = row /\ begun.next = next
            BY <1>r, <2>2 DEF Session!Call
        <2> HIDE DEF dropped, begun, next
        <2>4. CASE Session!Goto(c, dropped) /\ UNCHANGED signed
            <3>1. /\ request'[c] = dropped
                  /\ \A d \in Calls : d # c => request'[d].at = "idle" /\ request[d].at = "idle"
                  /\ \A d, e \in Calls : Busy(d)' /\ Busy(e)' => d = e
                BY <2>1, <2>3, <2>4, CalmMoves
            <3>2. CalmRowsInv'
                BY <2>1, <2>4, <3>1 DEF CalmInv, CalmRowsInv, Numbered, SignedInTime
            <3>3. CalmCallsInv'
                BY <2>1, <2>3, <3>1 DEF CalmCallsInv
            <3>4. CalmStatusInv' /\ Session!RevokedStaysRevoked' /\ Session!EachDeviceKeepsItsSession'
                BY <2>1, <3>1 DEF CalmInv, CalmStatusInv, Session!RevokedStaysRevoked,
                                  Session!EachDeviceKeepsItsSession, Busy
            <3> QED BY <1>0, <3>2, <3>3, <3>4 DEF CalmInv
        <2>5. CASE Session!Sign(next) /\ Session!Apart(next) /\ Session!Goto(c, begun)
            <3>1. /\ request'[c] = begun
                  /\ \A d \in Calls : d # c => request'[d].at = "idle" /\ request[d].at = "idle"
                  /\ \A d, e \in Calls : Busy(d)' /\ Busy(e)' => d = e
                BY <2>1, <2>3, <2>5, CalmMoves
            <3>2. signed' = signed \cup {next} /\ \A s \in signed : s.sub # next.sub
                BY <2>5 DEF Session!Sign, Session!Apart
            <3>3. CalmRowsInv'
                BY <2>1, <2>2, <3>1, <3>2 DEF CalmInv, CalmRowsInv, Numbered, SignedInTime
            <3>4. Fresh(request[c].next)'
                <4>1. \A r \in sessions : r.token # next
                    BY <2>2, <3>2 DEF CalmInv, CalmRowsInv, SignedInTime
                <4> QED BY <1>0, <4>1, <2>1, <2>2, <2>3, <3>1, <3>2 DEF Fresh, SignedInTime, Session!TypeOK
            <3>5. CalmCallsInv'
                BY <2>1, <2>2, <2>3, <3>1, <3>4 DEF CalmCallsInv
            <3>6. CalmStatusInv' /\ Session!RevokedStaysRevoked' /\ Session!EachDeviceKeepsItsSession'
                BY <2>1, <3>1 DEF CalmInv, CalmStatusInv, Session!RevokedStaysRevoked,
                                  Session!EachDeviceKeepsItsSession, Busy
            <3> QED BY <1>0, <3>3, <3>5, <3>6 DEF CalmInv
        <2> QED BY <2>1, <2>4, <2>5
    <1>4. ASSUME NEW c \in Calls, Session!DropExpired(c)
          PROVE  CalmInv'
        <2> DEFINE gone == {r \in sessions : r.token = request[c].row.token}
        <2>1. /\ sessions' = sessions \ gone /\ Session!Goto(c, Session!Idle)
              /\ closed' = closed \cup {request[c].row.device} /\ request[c].at = "drop"
              /\ UNCHANGED <<now, status, signed, logins, revoked>>
            BY <1>4 DEF Session!DropExpired, Session!Delete
        <2>2. /\ request'[c] = Session!Idle
              /\ \A d \in Calls : d # c => request'[d].at = "idle" /\ request[d].at = "idle"
              /\ \A d, e \in Calls : Busy(d)' /\ Busy(e)' => d = e
            BY <1>0, <2>1, CalmMoves DEF Busy
        <2>3. request[c].row \in sessions /\ gone = {request[c].row}
            BY <1>0, <2>1 DEF CalmInv, CalmCallsInv, CountInv, Session!SessionsNeverMultiply,
                              Session!OneRowPerToken
        <2> HIDE DEF gone
        <2>4. CalmRowsInv'
            BY <2>1, <2>2 DEF CalmInv, CalmRowsInv, Numbered, SignedInTime
        <2>5. CalmCallsInv'
            BY <2>2 DEF CalmCallsInv, Session!Idle
        <2>6. CalmStatusInv' /\ Session!RevokedStaysRevoked'
            BY <2>1, <2>2 DEF CalmInv, CalmStatusInv, Session!RevokedStaysRevoked
        <2>7. Session!EachDeviceKeepsItsSession'
            BY <2>1, <2>2, <2>3 DEF CalmInv, Session!EachDeviceKeepsItsSession
        <2> QED BY <1>0, <2>4, <2>5, <2>6, <2>7 DEF CalmInv
    <1>5. ASSUME NEW c \in Calls, Session!RefreshDelete(c)
          PROVE  CalmInv'
        <2> DEFINE gone == {r \in sessions : r.token = request[c].row.token}
                   s == [request[c] EXCEPT !.at = "recreate"]
        <2>1. /\ sessions' = sessions \ gone /\ request[c].at = "delete"
              /\ Session!Goto(c, IF gone = {} THEN Session!Idle ELSE s)
              /\ UNCHANGED <<now, status, signed, logins, revoked, closed>>
            BY <1>5 DEF Session!RefreshDelete, Session!Delete
        <2>2. request[c].row \in sessions /\ gone = {request[c].row}
            BY <1>0, <2>1 DEF CalmInv, CalmCallsInv, CountInv, Session!SessionsNeverMultiply,
                              Session!OneRowPerToken
        <2>3. s \in Session!Call /\ s.at = "recreate" /\ s.row = request[c].row /\ s.next = request[c].next
            BY <1>t, <2>1, RequestFields DEF Session!Call
        <2> HIDE DEF gone, s
        <2>4. /\ request'[c] = s
              /\ \A d \in Calls : d # c => request'[d].at = "idle" /\ request[d].at = "idle"
              /\ \A d, e \in Calls : Busy(d)' /\ Busy(e)' => d = e
            BY <2>1, <2>2, <2>3, CalmMoves DEF Busy
        <2>5. CalmRowsInv'
            BY <2>1, <2>4 DEF CalmInv, CalmRowsInv, Numbered, SignedInTime
        <2>6. CalmCallsInv'
            <3>1. Fresh(request[c].next) /\ request[c].next.sub = request[c].row.token.sub
                BY <2>1 DEF CalmInv, CalmCallsInv
            <3>2. Fresh(request[c].next)' /\ s.next.sub = s.row.token.sub
                BY <2>1, <2>3, <2>4, <3>1 DEF Fresh, SignedInTime
            <3>3. /\ Numbered(request[c].row.device)' /\ status'[s.next.sub] # "GONE"
                  /\ \A r \in sessions' : r.device # s.row.device
                BY <2>1, <2>2, <2>3, <2>4, <3>2 DEF CalmInv, CalmRowsInv, Numbered
            <3>4. (s.row.device \in revoked' \/ status'[s.next.sub] = "INACTIVE") => ~s.row.active
                BY <2>1, <2>2, <2>3, <2>4, <3>2 DEF CalmInv, CalmStatusInv, Session!RevokedStaysRevoked
            <3> QED BY <2>3, <2>4, <3>2, <3>3, <3>4 DEF CalmCallsInv
        <2>7. CalmStatusInv' /\ Session!RevokedStaysRevoked'
            BY <2>1, <2>4 DEF CalmInv, CalmStatusInv, Session!RevokedStaysRevoked
        <2>8. Session!EachDeviceKeepsItsSession'
            BY <2>1, <2>2, <2>3, <2>4 DEF CalmInv, Session!EachDeviceKeepsItsSession
        <2> QED BY <1>0, <2>5, <2>6, <2>7, <2>8 DEF CalmInv
    <1>6. ASSUME NEW c \in Calls, Session!RefreshCreate(c)
          PROVE  CalmInv'
        <2> DEFINE row == Session!Successor(request[c].row, request[c].next)
                   s == [request[c] EXCEPT !.at = "answer"]
        <2>1. /\ request[c].at = "recreate" /\ Fresh(request[c].next)
              /\ request[c].next.sub = request[c].row.token.sub
              /\ Numbered(request[c].row.device) /\ status[request[c].next.sub] # "GONE"
              /\ \A r \in sessions : r.device # request[c].row.device
              /\ (request[c].row.device \in revoked \/ status[request[c].next.sub] = "INACTIVE")
                    => ~request[c].row.active
            BY <1>6 DEF Session!RefreshCreate, CalmInv, CalmCallsInv
        <2>2. Session!NewToken(request[c].next)
            BY <2>1 DEF Fresh, Session!NewToken
        <2>3. /\ sessions' = sessions \cup {row} /\ Session!Goto(c, s)
              /\ UNCHANGED <<now, status, signed, logins, revoked, closed>>
            BY <1>6, <2>1, <2>2 DEF Session!RefreshCreate, Session!Insert
        <2>4. /\ s \in Session!Call /\ s.at = "answer"
              /\ row.token = request[c].next /\ row.device = request[c].row.device
              /\ row.active = request[c].row.active
            BY <1>t, <2>1, RequestFields DEF Session!Call, Session!Successor, Session!Row
        <2> HIDE DEF row, s
        <2>5. /\ request'[c] = s
              /\ \A d \in Calls : d # c => request'[d].at = "idle" /\ request[d].at = "idle"
              /\ \A d, e \in Calls : Busy(d)' /\ Busy(e)' => d = e
            BY <2>1, <2>3, <2>4, CalmMoves DEF Busy
        <2>6. CalmRowsInv'
            <3>1. \A r, q \in sessions' : r.device = q.device => r = q
                BY <2>1, <2>3, <2>4 DEF CalmInv, CalmRowsInv
            <3>2. \A r \in sessions' :
                    Numbered(r.device)' /\ status'[r.token.sub] # "GONE" /\ SignedInTime(r.token)'
                BY <2>1, <2>3, <2>4 DEF CalmInv, CalmRowsInv, Numbered, SignedInTime, Fresh
            <3> QED BY <2>3, <2>5, <3>1, <3>2 DEF CalmInv, CalmRowsInv, Numbered
        <2>7. CalmCallsInv'
            BY <2>4, <2>5 DEF CalmCallsInv
        <2>8. CalmStatusInv' /\ Session!RevokedStaysRevoked'
            BY <2>1, <2>3, <2>4, <2>5 DEF CalmInv, CalmStatusInv, Session!RevokedStaysRevoked
        <2>9. Session!EachDeviceKeepsItsSession'
            BY <2>1, <2>3, <2>4, <2>5 DEF CalmInv, Session!EachDeviceKeepsItsSession
        <2> QED BY <1>0, <2>6, <2>7, <2>8, <2>9 DEF CalmInv
    <1>7. ASSUME NEW c \in Calls, Session!RefreshAnswer(c)
          PROVE  CalmInv'
        <2>1. /\ request[c].at = "answer" /\ Session!Goto(c, Session!Idle)
              /\ UNCHANGED <<now, status, signed, sessions, logins, revoked>>
              /\ closed \subseteq closed'
            BY <1>7 DEF Session!RefreshAnswer
        <2> QED BY <2>1, <1>e
    <1>8. ASSUME NEW c \in Calls, NEW row \in sessions, Session!RevokeSession(c, row)
          PROVE  CalmInv'
        <2>1. /\ Session!Deactivate({row}) /\ revoked' = revoked \cup {row.device}
              /\ UNCHANGED <<now, status, signed, request, logins, closed>>
              /\ \A d \in Calls : ~Busy(d)
            BY <1>8, CalmStart DEF Session!RevokeSession
        <2>2. /\ \A s \in sessions' : \E r \in sessions :
                    /\ s.token = r.token /\ s.device = r.device
                    /\ s.active => s = r /\ r # row
              /\ \A r \in sessions : \E s \in sessions' : s.device = r.device
              /\ \A r, s \in sessions' : r.device = s.device => r = s
            <3>1. {row} \in SUBSET sessions
                OBVIOUS
            <3> QED BY <2>1, <3>1, Deactivated
        <2>3. Session!RevokedStaysRevoked'
            BY <2>1, <2>2 DEF Session!RevokedStaysRevoked, CalmInv, CalmRowsInv
        <2>4. \A d \in revoked' : Numbered(d)
            BY <2>1 DEF CalmInv, CalmRowsInv
        <2>5. \A s \in sessions' : \E r \in sessions :
                    s.token = r.token /\ s.device = r.device /\ (s.active => s = r)
            BY <2>2
        <2> QED BY <2>1, <2>2, <2>3, <2>4, <2>5, <1>s
    <1>9. ASSUME NEW c \in Calls, NEW u \in Holders, Session!RevokeAll(c, u)
          PROVE  CalmInv'
        <2>1. /\ Session!RevokeRows(u)
              /\ UNCHANGED <<now, status, signed, request, logins, closed>>
              /\ \A d \in Calls : ~Busy(d)
            BY <1>9, CalmStart DEF Session!RevokeAll
        <2>2. \A s \in sessions' : \E r \in sessions :
                    s.token = r.token /\ s.device = r.device /\ (s.active => s = r)
            BY <2>1, Revoked
        <2> QED BY <2>1, <2>2, Revoked, <1>s
    <1>10. ASSUME NEW c \in Calls, NEW u \in Holders, NEW then \in {"remove", "deactivate"},
                  Session!DeleteAccount(c, u, then)
           PROVE  CalmInv'
        <2> DEFINE s == [at |-> then, user |-> u]
        <2>1. /\ Session!RevokeRows(u) /\ Session!Goto(c, s)
              /\ UNCHANGED <<now, status, signed, logins, closed>>
              /\ \A d \in Calls : ~Busy(d)
            BY <1>10, CalmStart DEF Session!DeleteAccount
        <2>2. s \in Session!Call /\ s.at \in {"remove", "deactivate"} /\ s.user = u
            BY DEF Session!Call
        <2> HIDE DEF s
        <2>3. /\ request'[c] = s
              /\ \A d \in Calls : d # c => request'[d].at = "idle" /\ request[d].at = "idle"
              /\ \A d, e \in Calls : Busy(d)' /\ Busy(e)' => d = e
            BY <2>1, <2>2, CalmMoves
        <2>4. \A q \in sessions' : \E r \in sessions :
                    /\ q.token = r.token /\ q.device = r.device
                    /\ q.active => q = r /\ r.token.sub # u
            BY <2>1, Revoked
        <2>5. CalmRowsInv' /\ Session!RevokedStaysRevoked' /\ Session!EachDeviceKeepsItsSession'
            <3>1. \A r \in sessions' :
                    (Numbered(r.device) /\ status[r.token.sub] # "GONE" /\ SignedInTime(r.token))'
                BY <2>1, <2>4, Revoked, RevocationKeepsRows DEF Busy
            <3>2. Session!EachDeviceKeepsItsSession'
                BY <2>1, <2>4, Revoked, RevocationKeepsRows DEF Busy
            <3>3. /\ \A r, q \in sessions' : r.device = q.device => r = q
                  /\ Session!RevokedStaysRevoked' /\ \A d \in revoked' : Numbered(d)
                BY <2>1, Revoked
            <3> QED BY <2>1, <2>3, <3>1, <3>2, <3>3 DEF CalmInv, CalmRowsInv, Numbered
        <2>6. CalmCallsInv'
            BY <2>2, <2>3, <2>4 DEF CalmCallsInv
        <2>7. CalmStatusInv'
            BY <2>1, <2>4 DEF CalmInv, CalmStatusInv, Busy
        <2> QED BY <1>0, <2>5, <2>6, <2>7 DEF CalmInv
    <1>11. ASSUME NEW c \in Calls, Session!RemoveUser(c)
           PROVE  CalmInv'
        <2> DEFINE u == request[c].user
        <2>1. /\ request[c].at = "remove" /\ Session!Goto(c, Session!Idle)
              /\ status' = [status EXCEPT ![u] = "GONE"]
              /\ closed' = closed \cup {r.device : r \in {q \in sessions : q.token.sub = u}}
              /\ sessions' = {r \in sessions : r.token.sub # u}
              /\ UNCHANGED <<now, signed, logins, revoked>>
            BY <1>11 DEF Session!RemoveUser, Session!RowsOf, Session!DevicesOf
        <2>2. /\ request'[c] = Session!Idle
              /\ \A d \in Calls : d # c => request'[d].at = "idle" /\ request[d].at = "idle"
              /\ \A d, e \in Calls : Busy(d)' /\ Busy(e)' => d = e
            BY <1>0, <2>1, CalmMoves DEF Busy
        <2>3. \A r \in sessions' : r \in sessions /\ status'[r.token.sub] = status[r.token.sub]
            BY <1>0, <1>r, <2>1 DEF Session!TypeOK
        <2> HIDE DEF u
        <2>4. CalmRowsInv' /\ Session!RevokedStaysRevoked'
            BY <2>1, <2>2, <2>3
            DEF CalmInv, CalmRowsInv, Numbered, SignedInTime, Session!RevokedStaysRevoked
        <2>5. Session!EachDeviceKeepsItsSession'
            BY <2>1, <2>2 DEF CalmInv, Session!EachDeviceKeepsItsSession
        <2>6. CalmCallsInv'
            BY <2>2 DEF CalmCallsInv, Session!Idle
        <2>7. CalmStatusInv'
            BY <2>1, <2>2, <2>3 DEF CalmInv, CalmStatusInv
        <2> QED BY <1>0, <2>4, <2>5, <2>6, <2>7 DEF CalmInv
    <1>12. ASSUME NEW c \in Calls, Session!DeactivateUser(c)
           PROVE  CalmInv'
        <2> DEFINE u == request[c].user
        <2>1. /\ request[c].at = "deactivate" /\ Session!Goto(c, Session!Idle)
              /\ status' = [status EXCEPT ![u] = "INACTIVE"]
              /\ UNCHANGED <<now, sessions, signed, logins, revoked, closed>>
              /\ \A r \in sessions : r.token.sub = u => ~r.active
            BY <1>12 DEF Session!DeactivateUser, CalmInv, CalmCallsInv
        <2>2. /\ request'[c] = Session!Idle
              /\ \A d \in Calls : d # c => request'[d].at = "idle" /\ request[d].at = "idle"
              /\ \A d, e \in Calls : Busy(d)' /\ Busy(e)' => d = e
            BY <1>0, <2>1, CalmMoves DEF Busy
        <2>3. \A r \in sessions :
                status'[r.token.sub] = IF r.token.sub = u THEN "INACTIVE" ELSE status[r.token.sub]
            BY <1>0, <1>r, <2>1 DEF Session!TypeOK
        <2> HIDE DEF u
        <2>4. CalmRowsInv' /\ Session!RevokedStaysRevoked'
            BY <2>1, <2>2, <2>3
            DEF CalmInv, CalmRowsInv, Numbered, SignedInTime, Session!RevokedStaysRevoked
        <2>5. Session!EachDeviceKeepsItsSession'
            BY <2>1, <2>2 DEF CalmInv, Session!EachDeviceKeepsItsSession
        <2>6. CalmCallsInv'
            BY <2>2 DEF CalmCallsInv, Session!Idle
        <2>7. CalmStatusInv'
            BY <2>1, <2>2, <2>3 DEF CalmInv, CalmStatusInv
        <2> QED BY <1>0, <2>4, <2>5, <2>6, <2>7 DEF CalmInv
    <1>13. ASSUME NEW c \in Calls, NEW u \in Holders, NEW s \in Session!UserStatus,
                  Session!ChangeUserStatus(c, u, s)
           PROVE  CalmInv'
        <2> DEFINE then == IF s = "ACTIVE" THEN Session!Idle ELSE [at |-> "revoke", user |-> u]
        <2>1. /\ Session!Goto(c, then)
              /\ status' = [status EXCEPT ![u] = s]
              /\ UNCHANGED <<now, sessions, signed, logins, revoked, closed>>
              /\ \A d \in Calls : ~Busy(d)
            BY <1>13, CalmStart DEF Session!ChangeUserStatus
        <2>2. /\ then \in Session!Call /\ then.at \in {"idle", "revoke"}
              /\ s = "INACTIVE" => then.at = "revoke" /\ then.user = u
              /\ s # "GONE"
            BY <1>0 DEF Session!Call, Session!Idle, Session!UserStatus
        <2> HIDE DEF then
        <2>3. /\ request'[c] = then
              /\ \A d \in Calls : d # c => request'[d].at = "idle" /\ request[d].at = "idle"
              /\ \A d, e \in Calls : Busy(d)' /\ Busy(e)' => d = e
            BY <2>1, <2>2, CalmMoves
        <2>4. \A r \in sessions :
                status'[r.token.sub] = IF r.token.sub = u THEN s ELSE status[r.token.sub]
            BY <1>0, <1>r, <2>1 DEF Session!TypeOK
        <2>5. CalmRowsInv' /\ Session!RevokedStaysRevoked'
            BY <2>1, <2>2, <2>3, <2>4
            DEF CalmInv, CalmRowsInv, Numbered, SignedInTime, Session!RevokedStaysRevoked
        <2>6. Session!EachDeviceKeepsItsSession'
            BY <2>1, <2>3 DEF CalmInv, Session!EachDeviceKeepsItsSession, Busy
        <2>7. CalmCallsInv'
            BY <2>2, <2>3 DEF CalmCallsInv
        <2>8. CalmStatusInv'
            BY <2>1, <2>2, <2>3, <2>4 DEF CalmInv, CalmStatusInv, Busy
        <2> QED BY <1>0, <2>5, <2>6, <2>7, <2>8 DEF CalmInv
    <1>14. ASSUME NEW c \in Calls, Session!ChangeUserStatusRevoke(c)
           PROVE  CalmInv'
        <2> DEFINE u == request[c].user
        <2>1. /\ request[c].at = "revoke" /\ Session!RevokeRows(u) /\ Session!Goto(c, Session!Idle)
              /\ UNCHANGED <<now, status, signed, logins, closed>> /\ u \in Holders
            BY <1>14, <1>t, RequestFields DEF Session!ChangeUserStatusRevoke
        <2>2. /\ request'[c] = Session!Idle
              /\ \A d \in Calls : d # c => request'[d].at = "idle" /\ request[d].at = "idle"
              /\ \A d, e \in Calls : Busy(d)' /\ Busy(e)' => d = e
            BY <1>0, <2>1, CalmMoves DEF Busy
        <2>3. \A d \in Calls : request[d].at # "recreate" /\ (request[d].at = "revoke" => d = c)
            BY <2>1, <2>2
        <2>4. \A q \in sessions' : \E r \in sessions :
                    /\ q.token = r.token /\ q.device = r.device
                    /\ q.active => q = r /\ r.token.sub # u
            BY <2>1, Revoked
        <2>5. CalmRowsInv' /\ Session!RevokedStaysRevoked' /\ Session!EachDeviceKeepsItsSession'
            <3>1. \A r \in sessions' :
                    (Numbered(r.device) /\ status[r.token.sub] # "GONE" /\ SignedInTime(r.token))'
                BY <2>1, <2>3, <2>4, Revoked, RevocationKeepsRows
            <3>2. Session!EachDeviceKeepsItsSession'
                BY <2>1, <2>3, <2>4, Revoked, RevocationKeepsRows
            <3>3. /\ \A r, q \in sessions' : r.device = q.device => r = q
                  /\ Session!RevokedStaysRevoked' /\ \A d \in revoked' : Numbered(d)
                BY <2>1, Revoked
            <3> QED BY <2>1, <2>2, <3>1, <3>2, <3>3 DEF CalmInv, CalmRowsInv, Numbered
        <2>6. CalmCallsInv'
            BY <2>2 DEF CalmCallsInv, Session!Idle
        <2>7. CalmStatusInv'
            BY <2>1, <2>3, <2>4 DEF CalmInv, CalmStatusInv
        <2> QED BY <1>0, <2>5, <2>6, <2>7 DEF CalmInv
    <1>15. ASSUME NEW c \in Calls, Session!CallFails(c)
           PROVE  CalmInv'
        <2>1. /\ request[c].at \in {"deactivate", "create"} /\ Session!Goto(c, Session!Idle)
              /\ UNCHANGED <<now, status, signed, sessions, logins, revoked, closed>>
            BY <1>15 DEF Session!CallFails, Session!CalmIf
        <2> QED BY <2>1, <1>e
    <1>16. CASE Session!Tick
        <2>1. /\ now' = now + 1 /\ now \in Nat /\ signed' = {}
              /\ UNCHANGED <<status, sessions, request, logins, revoked, closed>>
            BY <1>0, <1>16 DEF Session!Tick, Session!TypeOK
        <2>2. \A t \in Session!Token : SignedInTime(t) => SignedInTime(t)'
            BY <2>1 DEF SignedInTime, Session!Token
        <2>3. CalmRowsInv'
            <3>1. \A r \in sessions' : SignedInTime(r.token)'
                BY <1>r, <2>1, <2>2 DEF CalmInv, CalmRowsInv
            <3> HIDE DEF SignedInTime
            <3> QED BY <2>1, <3>1 DEF CalmInv, CalmRowsInv, Numbered, Busy
        <2>4. \A d \in Calls : request[d].at \in {"delete", "recreate"} =>
                    (Fresh(request[d].next) => Fresh(request[d].next)')
            BY <1>t, <2>1, <2>2, RequestFields DEF Fresh
        <2>5. CalmCallsInv'
            BY <2>1, <2>4 DEF CalmInv, CalmCallsInv, Numbered
        <2>6. CalmStatusInv' /\ Session!RevokedStaysRevoked' /\ Session!EachDeviceKeepsItsSession'
            BY <2>1 DEF CalmInv, CalmStatusInv, Session!RevokedStaysRevoked,
                        Session!EachDeviceKeepsItsSession
        <2> QED BY <1>0, <2>3, <2>5, <2>6 DEF CalmInv
    <1>17. CASE UNCHANGED Session!vars
        <2>1. UNCHANGED <<now, status, sessions, request, logins, revoked, closed, signed>>
            BY <1>17 DEF Session!vars
        <2>2. CalmRowsInv' /\ CalmStatusInv'
            BY <2>1 DEF CalmInv, CalmRowsInv, CalmStatusInv, Numbered, SignedInTime, Busy
        <2>3. CalmCallsInv'
            BY <2>1 DEF CalmInv, CalmCallsInv, Numbered, Fresh, SignedInTime
        <2>4. Session!RevokedStaysRevoked' /\ Session!EachDeviceKeepsItsSession'
            BY <2>1 DEF CalmInv, Session!RevokedStaysRevoked, Session!EachDeviceKeepsItsSession
        <2> QED BY <1>0, <2>2, <2>3, <2>4 DEF CalmInv
    <1> QED
        BY <1>1, <1>2, <1>3, <1>4, <1>5, <1>6, <1>7, <1>8, <1>9, <1>10, <1>11, <1>12, <1>13, <1>14,
           <1>15, <1>16, <1>17
        DEF Session!Next, Session!AuthStep, Session!UserStep, Session!AdminStep

LEMMA InitCalmInv ==
    ASSUME Session!SessionsAssumption, Session!Init
    PROVE  CalmInv
    <1>1. /\ CountInv /\ sessions = {} /\ logins = 0 /\ revoked = {} /\ signed = {}
          /\ \A c \in Calls : request[c].at = "idle"
        BY InitCountInv DEF Session!Init, Session!Idle
    <1> QED BY <1>1 DEF CalmInv, CalmRowsInv, CalmCallsInv, CalmStatusInv, Busy,
                        Session!RevokedStaysRevoked, Session!EachDeviceKeepsItsSession

(* Where requests come one at a time, none crashes and no two tokens of a   *)
(* user are signed in one second: a revoked device has no active row again *)
(* through any later refresh, a device that logged in keeps its session    *)
(* until it expires or the account goes, and a user who may not log in has *)
(* no active session left once the requests have ended.                    *)
THEOREM RevocationsKept == Session!Spec => []RevocationsLast
    <1>1. (calm => CalmInv) => RevocationsLast
        BY DEF CalmInv, CalmStatusInv, RevocationsLast, Session!RevocationsLast, Session!RowsOf,
               Session!InactiveHasNoActiveSession, Session!InFlight
    <1>2. CountInv /\ [Session!Next]_Session!vars => CountInv'
        BY SessionsAssumption, NextCountInv
    <1>3. CountInv /\ (calm => CalmInv) /\ [Session!Next]_Session!vars => (calm => CalmInv)'
        BY SessionsAssumption, NextCalmInv, CalmNow
    <1>4. Session!Init => CountInv /\ (calm => CalmInv)
        BY SessionsAssumption, InitCountInv, InitCalmInv
    <1> QED BY <1>1, <1>2, <1>3, <1>4, PTL DEF Session!Spec

=============================================================================
