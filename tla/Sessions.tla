------------------------------ MODULE Sessions ------------------------------
(***************************************************************************)
(* The rows of table Session: login and refresh (auth/usecase, TokenService*)
(* in auth/shared/token.ts), revocation by the user and by administrators  *)
(* (user/usecase), the deletion of an account.  Each statement on the      *)
(* database is a step; calls interleave and may crash between two steps.   *)
(*                                                                         *)
(* A refresh token is a signed payload: two tokens of one user signed in   *)
(* the same second with the same lifetime are the same string, and column  *)
(* refreshToken is unique.                                                 *)
(***************************************************************************)
EXTENDS Integers, FiniteSets

CONSTANTS
    Users,
    Calls,          \* requests in flight
    MaxTime,        \* bound on the clock, in seconds
    MaxLogins,      \* bound on the sessions opened
    ShortTtl,       \* JWT_REFRESH_EXPIRES, in seconds
    LongTtl         \* REMEMBER_REFRESH_EXPIRES, in seconds

SessionsAssumption ==
    /\ {MaxTime, MaxLogins} \subseteq Nat
    /\ {ShortTtl, LongTtl} \subseteq Nat \ {0}

VARIABLES
    now,        \* the clock
    status,     \* status[u]: UserStatus, or "GONE" once the row is deleted
    sessions,   \* the rows: [token, device, active]
    call,       \* call[c]: what the call has read and what it does next
    logins,     \* the devices that have logged in, 1 .. logins (history)
    revoked,    \* the devices whose session was revoked (history)
    closed,     \* the devices whose session ended as it should (history)
    signed,     \* the tokens signed in this second (history)
    calm        \* whether requests came one at a time, none crashed and no two
                \* tokens of a user were signed in one second (history)

vars == <<now, status, sessions, call, logins, revoked, closed, signed, calm>>

Devices == 1 .. MaxLogins
UserStatus == {"ACTIVE", "INACTIVE", "BANNED"}
Token == [sub : Users, iat : 0 .. MaxTime, ttl : {ShortTtl, LongTtl}]
Row == [token : Token, device : Devices, active : BOOLEAN]
Idle == [at |-> "idle"]
Call ==
    {Idle}
    \cup [at : {"create"}, user : Users, remember : BOOLEAN]
    \cup [at : {"delete", "recreate", "answer"}, row : Row, next : Token]
    \cup [at : {"drop"}, row : Row]
    \cup [at : {"revoke", "remove", "deactivate"}, user : Users]

TypeOK ==
    /\ now \in 0 .. MaxTime
    /\ status \in [Users -> UserStatus \cup {"GONE"}]
    /\ sessions \subseteq Row
    /\ call \in [Calls -> Call]
    /\ logins \in 0 .. MaxLogins
    /\ revoked \subseteq Devices /\ closed \subseteq Devices
    /\ signed \subseteq Token
    /\ calm \in BOOLEAN

Init ==
    /\ now = 0
    /\ status = [u \in Users |-> "ACTIVE"]
    /\ sessions = {}
    /\ call = [c \in Calls |-> Idle]
    /\ logins = 0
    /\ revoked = {} /\ closed = {} /\ signed = {}
    /\ calm = TRUE

Expiry(t) == t.iat + t.ttl
IsSessionAllowed(s) == s \in {"ACTIVE", "BANNED"}
Goto(c, state) == call' = [call EXCEPT ![c] = state]
InFlight == {c \in Calls : call[c].at # "idle"}
Start(c) == call[c].at = "idle"
CalmIf(condition) == calm' = (calm /\ condition)
Alone == InFlight = {}

CreateSessionTokens(u, ttl) == [sub |-> u, iat |-> now, ttl |-> ttl]
Sign(t) == signed' = signed \cup {t}
Apart(t) == \A s \in signed : s.sub # t.sub
Unchanged == UNCHANGED <<now, status, signed>>

\* create: a row, unless its token is there already.
NewToken(t) == \A r \in sessions : r.token # t
Insert(row) == sessions' = sessions \cup {row}

-----------------------------------------------------------------------------
(* login and the social logins: the user is read, then the session created *)
Login(c, u, remember) ==
    /\ Start(c)
    /\ IsSessionAllowed(status[u])
    /\ Goto(c, [at |-> "create", user |-> u, remember |-> remember])
    /\ CalmIf(Alone)
    /\ Unchanged /\ UNCHANGED <<sessions, logins, revoked, closed>>

IssueAuthSession(c) ==
    LET t == CreateSessionTokens(call[c].user,
                                 IF call[c].remember THEN LongTtl ELSE ShortTtl)
        works == NewToken(t) /\ status[call[c].user] # "GONE"
    IN
    /\ call[c].at = "create"
    /\ logins < MaxLogins
    /\ Sign(t) /\ CalmIf(Apart(t))
    /\ IF works
       THEN /\ Insert([token |-> t, device |-> logins + 1, active |-> TRUE])
            /\ logins' = logins + 1
       ELSE UNCHANGED <<sessions, logins>>
    /\ Goto(c, Idle)
    /\ UNCHANGED <<now, status, revoked, closed>>

(* refreshAuthSession: the row is read; its successor is signed.           *)
RefreshRead(c, row) ==
    /\ Start(c)
    /\ row \in sessions
    /\ IF Expiry(row.token) < now
       THEN Goto(c, [at |-> "drop", row |-> row]) /\ UNCHANGED signed /\ CalmIf(Alone)
       ELSE LET next == CreateSessionTokens(row.token.sub, ShortTtl) IN
            /\ now < Expiry(row.token)          \* jwt.verify
            /\ Sign(next) /\ CalmIf(Alone /\ Apart(next))
            /\ Goto(c, [at |-> "delete", row |-> row, next |-> next])
    /\ UNCHANGED <<now, status, sessions, logins, revoked, closed>>

\* deleteMany: nothing to delete is no failure.
DeleteAnyway(c, then) ==
    /\ sessions' = {r \in sessions : r.token # call[c].row.token}
    /\ Goto(c, then)

\* delete({where: refreshToken}) fails when no row has the token any more.
Delete(c, then) ==
    LET gone == {r \in sessions : r.token = call[c].row.token} IN
    /\ sessions' = sessions \ gone
    /\ Goto(c, IF gone = {} THEN Idle ELSE then)
DropExpired(c) ==
    /\ call[c].at = "drop"
    /\ Delete(c, Idle)
    /\ closed' = closed \cup {call[c].row.device}
    /\ Unchanged /\ UNCHANGED <<calm, logins, revoked>>

RefreshDelete(c) ==
    /\ call[c].at = "delete"
    /\ Delete(c, [call[c] EXCEPT !.at = "recreate"])
    /\ Unchanged /\ UNCHANGED <<calm, logins, revoked, closed>>

\* A new row with the default of isActive.
ActiveSuccessor(row, next) == [row EXCEPT !.token = next, !.active = TRUE]
\* The new row has the device and the isActive of the row read.
Successor(row, next) == [row EXCEPT !.token = next]
RefreshCreate(c) ==
    LET works == NewToken(call[c].next) /\ status[call[c].next.sub] # "GONE" IN
    /\ call[c].at = "recreate"
    /\ IF works THEN Insert(Successor(call[c].row, call[c].next)) ELSE UNCHANGED sessions
    /\ Goto(c, IF works THEN [call[c] EXCEPT !.at = "answer"] ELSE Idle)
    /\ Unchanged /\ UNCHANGED <<calm, logins, revoked, closed>>

(* refreshToken reads the user after the session was rotated: a user that  *)
(* may not go on gets an error, and the new token is never handed out.     *)
RefreshAnswer(c) ==
    /\ call[c].at = "answer"
    /\ Goto(c, Idle)
    /\ closed' = closed \cup (IF IsSessionAllowed(status[call[c].next.sub]) THEN {}
                              ELSE {call[c].row.device})
    /\ Unchanged /\ UNCHANGED <<calm, sessions, logins, revoked>>

-----------------------------------------------------------------------------
DevicesOf(rows) == {r.device : r \in rows}
RowsOf(u) == {r \in sessions : r.token.sub = u}
Deactivate(rows) ==
    sessions' = (sessions \ rows) \cup {[r EXCEPT !.active = FALSE] : r \in rows}

\* revokeSession(sessionId), one device
RevokeSession(c, row) ==
    /\ Start(c)
    /\ row \in sessions
    /\ Deactivate({row})
    /\ revoked' = revoked \cup {row.device}
    /\ CalmIf(Alone)
    /\ Unchanged /\ UNCHANGED <<call, logins, closed>>

\* revokeAllSessionsByUserId(userId): one updateMany over the active rows
RevokeRows(u) ==
    /\ Deactivate({r \in RowsOf(u) : r.active})
    /\ revoked' = revoked \cup DevicesOf({r \in RowsOf(u) : r.active})
RevokeAll(c, u) ==
    /\ Start(c)
    /\ status[u] # "GONE"
    /\ RevokeRows(u)
    /\ CalmIf(Alone)
    /\ Unchanged /\ UNCHANGED <<call, logins, closed>>

\* changeUserStatus: the status, then, to BANNED or INACTIVE, the sessions
ChangeUserStatus(c, u, s) ==
    /\ Start(c)
    /\ status[u] # "GONE"
    /\ status' = [status EXCEPT ![u] = s]
    /\ Goto(c, IF s = "ACTIVE" THEN Idle ELSE [at |-> "revoke", user |-> u])
    /\ CalmIf(Alone)
    /\ UNCHANGED <<now, sessions, logins, revoked, closed, signed>>
ChangeUserStatusRevoke(c) ==
    /\ call[c].at = "revoke"
    /\ RevokeRows(call[c].user)
    /\ Goto(c, Idle)
    /\ Unchanged /\ UNCHANGED <<calm, logins, closed>>

\* deleteAccount and the administrator's delete: the sessions, then the user
DeleteAccount(c, u, then) ==
    /\ Start(c)
    /\ status[u] # "GONE"
    /\ RevokeRows(u)
    /\ Goto(c, [at |-> then, user |-> u])
    /\ CalmIf(Alone)
    /\ Unchanged /\ UNCHANGED <<logins, closed>>
RemoveUser(c) ==
    /\ call[c].at = "remove"
    /\ status' = [status EXCEPT ![call[c].user] = "GONE"]
    /\ closed' = closed \cup DevicesOf(RowsOf(call[c].user))
    /\ sessions' = sessions \ RowsOf(call[c].user)      \* onDelete: Cascade
    /\ Goto(c, Idle)
    /\ UNCHANGED <<now, logins, revoked, signed, calm>>
DeactivateUser(c) ==
    /\ call[c].at = "deactivate"
    /\ status[call[c].user] # "GONE"
    /\ status' = [status EXCEPT ![call[c].user] = "INACTIVE"]
    /\ Goto(c, Idle)
    /\ UNCHANGED <<now, sessions, logins, revoked, closed, signed, calm>>

-----------------------------------------------------------------------------
\* A call ends: a crash, or a statement on a user that is gone.
CallFails(c) ==
    /\ call[c].at # "idle"
    /\ CalmIf(\/ call[c].at = "deactivate" /\ status[call[c].user] = "GONE"
              \/ call[c].at = "create" /\ logins = MaxLogins)
    /\ Goto(c, Idle)
    /\ Unchanged /\ UNCHANGED <<sessions, logins, revoked, closed>>

Tick ==
    /\ now < MaxTime
    /\ now' = now + 1
    /\ signed' = {}
    /\ UNCHANGED <<status, sessions, call, logins, revoked, closed, calm>>

AuthStep(c) ==
    \/ \E u \in Users, remember \in BOOLEAN : Login(c, u, remember)
    \/ IssueAuthSession(c)
    \/ \E row \in sessions : RefreshRead(c, row)
    \/ DropExpired(c) \/ RefreshDelete(c) \/ RefreshCreate(c) \/ RefreshAnswer(c)
UserStep(c) ==
    \/ \E row \in sessions : RevokeSession(c, row)
    \/ \E u \in Users : RevokeAll(c, u)
    \/ \E u \in Users, then \in {"remove", "deactivate"} : DeleteAccount(c, u, then)
    \/ RemoveUser(c) \/ DeactivateUser(c)
AdminStep(c) ==
    \/ \E u \in Users, s \in UserStatus : ChangeUserStatus(c, u, s)
    \/ ChangeUserStatusRevoke(c)

Next ==
    \/ \E c \in Calls : AuthStep(c) \/ UserStep(c) \/ AdminStep(c) \/ CallFails(c)
    \/ Tick

Spec == Init /\ [][Next]_vars

-----------------------------------------------------------------------------
(* Refreshing never multiplies sessions: the rows, and those between the   *)
(* delete and the create of a refresh, are at most as many as the logins.  *)
(* Two refreshes of one token may both have read its row; the delete of    *)
(* the second must fail.                                                   *)
NoSessionMultiplied ==
    Cardinality(sessions) + Cardinality({c \in Calls : call[c].at = "recreate"}) =< logins

(* A token is in one row, whichever way the row was created: a device is   *)
(* found by its token (findUnique).                                        *)
OneRowPerToken == \A r, s \in sessions : r.token = s.token => r = s

(* A device whose session was revoked has no active row again: revoking    *)
(* lasts through later refreshes.                                          *)
RevokedStaysRevoked == \A r \in sessions : r.device \in revoked => ~r.active

(* A device that logged in keeps its session, in its row or in a refresh   *)
(* under way, until it expires or the account goes.                        *)
EachDeviceKeepsItsSession ==
    \A d \in 1 .. logins :
        \/ d \in closed
        \/ \E r \in sessions : r.device = d
        \/ \E c \in Calls : call[c].at = "recreate" /\ call[c].row.device = d

(* Once the calls have ended, a user who may not log in has no active      *)
(* session listed as such (findByUserId).                                  *)
InactiveHasNoActiveSession ==
    \A u \in Users :
        InFlight = {} /\ status[u] = "INACTIVE" => \A r \in RowsOf(u) : ~r.active

(* However refreshes, logins, revocations and crashes interleave.          *)
SessionsNeverMultiply == NoSessionMultiplied /\ OneRowPerToken

(* As long as requests came one at a time, none crashed and no two tokens   *)
(* of a user were signed in one second.                                    *)
RevocationsLast ==
    calm => RevokedStaysRevoked /\ EachDeviceKeepsItsSession /\ InactiveHasNoActiveSession
=============================================================================
