----------------------------- MODULE UserAccounts -----------------------------
(***************************************************************************)
(* The accounts and the sessions of the same users: table User with its    *)
(* action tokens (Accounts), table Session (Sessions).                     *)
(***************************************************************************)
EXTENDS Accounts

CONSTANTS
    Holders,        \* the users with sessions
    MaxTime, MaxLogins, ShortTtl, LongTtl
VARIABLES now, status, sessions, request, logins, revoked, closed, signed, calm

Session == INSTANCE Sessions WITH Users <- Holders, call <- request
sessionVars == <<now, status, sessions, request, logins, revoked, closed, signed, calm>>

ASSUME SessionsAssumption == Session!SessionsAssumption

(* Refreshing multiplies no session and no token is in two rows, however    *)
(* refreshes, logins, revocations and crashes interleave.                  *)
SessionsNeverMultiply == Session!TypeOK /\ Session!SessionsNeverMultiply

(* As long as calls are calm: a revoked device stays revoked through later  *)
(* refreshes, a device keeps its session until it expires or is closed, and *)
(* a user who may not log in has no active session.                        *)
RevocationsLast == Session!RevocationsLast
=============================================================================
