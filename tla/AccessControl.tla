---------------------------- MODULE AccessControl ----------------------------
(***************************************************************************)
(* How a request gets to its handler: the maintenance guard, the access    *)
(* token, the row of the user, the guards of the route (share/middleware,  *)
(* share/security/permissions.ts, user/usecase/authorization.usecase.ts).  *)
(* An administrator changes the row meanwhile; a token stays as issued.    *)
(* Permission codes are told apart by the roles that have them: "own",     *)
(* "partner" (manage movies ... finance), "staff" (administrators only).   *)
(***************************************************************************)
EXTENDS FiniteSets

CONSTANTS
    Requests,   \* requests in flight
    User,       \* the user whose token is used
    Other,      \* another user, an owner of resources
    Guards,     \* the route guards in play
    Rows        \* the rows the user may get

VARIABLES
    account,      \* the row of User, Gone once it is deleted
    token,        \* the access token the client holds
    maintenance,  \* what isMaintenanceMode answers
    req           \* req[r]: how far the request has come

vars == <<account, token, maintenance, req>>

Roles == {"USER", "PARTNER", "ADMIN"}
PermissionCodes == {"own", "partner", "staff"}
RolePermissionMap ==
    [USER |-> {"own"}, PARTNER |-> {"own", "partner"}, ADMIN |-> {"*"}]
\* The row: permissionsOverride is JSON and may hold anything.
UserRow == [role : Roles, active : BOOLEAN, override : SUBSET (PermissionCodes \cup {"junk"})]
ASSUME RowsAssumption == Rows \subseteq UserRow
\* A route asks for permissions that are codes.
ASSUME GuardsAssumption ==
    \A g \in Guards :
        /\ g.kind \in {"all", "any"} => g.permissions \subseteq PermissionCodes
        /\ g.kind = "self" => g.permission \in PermissionCodes
Gone == [role |-> "none"]
NoToken == [kind |-> "none"]
NoUser == [id |-> "none"]

-----------------------------------------------------------------------------
(* AuthorizationUseCase.                                                   *)

GetPermissionsByRole(role) == RolePermissionMap[role]
NormalizeOverride(raw) == raw \cap PermissionCodes
\* Permissions that were resolved before are taken as they are.
ResolvePermissions(subject) ==
    IF subject.permissions # {} THEN subject.permissions
    ELSE GetPermissionsByRole(subject.role) \cup NormalizeOverride(subject.override)
HasPermission(subject, p) ==
    {"*", p} \cap ResolvePermissions(subject) # {}
HasAll(subject, ps) == \A p \in ps : HasPermission(subject, p)
HasAny(subject, ps) == \E p \in ps : HasPermission(subject, p)
CanAccessOwnResource(user, owner) == user = owner

(* The guards of a route, by kind, on req.user.                            *)
RequireRole(user, g) == user.role \in g.roles
RequirePermission(user, g) == HasAll(user, g.permissions)
RequireAnyPermission(user, g) == HasAny(user, g.permissions)
RequireSelfOrPermission(user, g) ==
    \/ CanAccessOwnResource(user.id, g.owner)
    \/ HasPermission(user, g.permission)
RequireActiveUser(user) == user.active
Passes(user, g) ==
    CASE g.kind = "role" -> RequireRole(user, g)
      [] g.kind = "all" -> RequirePermission(user, g)
      [] g.kind = "any" -> RequireAnyPermission(user, g)
      [] g.kind = "self" -> RequireSelfOrPermission(user, g)
      [] OTHER -> TRUE

-----------------------------------------------------------------------------
Idle == [at |-> "idle"]
Init ==
    /\ account \in Rows
    /\ token = NoToken
    /\ maintenance = FALSE
    /\ req = [r \in Requests |-> Idle]

Goto(r, state) == req' = [req EXCEPT ![r] = state]
Ends == {"handler", "unauthorized", "forbidden", "unavailable"}

(* The rest of the system: a login, an expiry, an administrator's update   *)
(* or deletion, the maintenance switch.                                    *)
Login ==
    /\ account # Gone /\ account.active
    /\ token' = [kind |-> "good", scope |-> account.role]
    /\ UNCHANGED <<account, maintenance, req>>
Spoil ==
    /\ token' \in {NoToken, [kind |-> "bad"]}
    /\ UNCHANGED <<account, maintenance, req>>
UpdateRow ==
    /\ account # Gone
    /\ account' \in Rows \cup {Gone}
    /\ UNCHANGED <<token, maintenance, req>>
SwitchMaintenance ==
    /\ maintenance' = ~maintenance
    /\ UNCHANGED <<account, token, req>>

(* A request with the token the client has now, for a route of protect     *)
(* ("active"), of authenticate or of optionalAuthMiddleware; "bypass" are  *)
(* the paths open during maintenance.                                      *)
Arrive(r, g, route, bypass) ==
    /\ req[r] = Idle
    /\ Goto(r, [at |-> "guard", guard |-> g, optional |-> route = "optional",
                activeOnly |-> route = "active", bypass |-> bypass,
                token |-> token, user |-> NoUser, seen |-> Gone])
    /\ UNCHANGED <<account, token, maintenance>>

\* extractRoleFromToken: the role the token was issued with.
RoleFromToken(t) == IF t.kind = "good" THEN t.scope ELSE "none"
MaintenanceModeGuard(r) ==
    /\ req[r].at = "guard"
    /\ IF maintenance /\ RoleFromToken(req[r].token) # "ADMIN" /\ ~req[r].bypass
       THEN Goto(r, [req[r] EXCEPT !.at = "unavailable"])
       ELSE Goto(r, [req[r] EXCEPT !.at = "token"])
    /\ UNCHANGED <<account, token, maintenance>>
\* The settings cannot be read: the request is let through.
MaintenanceUnknown(r) ==
    /\ req[r].at = "guard"
    /\ Goto(r, [req[r] EXCEPT !.at = "token"])
    /\ UNCHANGED <<account, token, maintenance>>

\* assignUserFromPayload: the user as the token tells it.
FromPayload(t) ==
    [id |-> User, role |-> t.scope, active |-> TRUE, override |-> {},
     permissions |-> GetPermissionsByRole(t.scope)]

WithoutToken(r) ==
    /\ req[r].at = "token"
    /\ req[r].token.kind # "good"
    /\ Goto(r, [req[r] EXCEPT !.at = IF req[r].optional THEN "handler" ELSE "unauthorized"])
    /\ UNCHANGED <<account, token, maintenance>>
VerifyToken(r) ==
    /\ req[r].at = "token"
    /\ req[r].token.kind = "good"
    /\ Goto(r, [req[r] EXCEPT !.at = "sync", !.user = FromPayload(req[r].token)])
    /\ UNCHANGED <<account, token, maintenance>>

\* syncUserFromDatabase: the user as the row tells it.  "seen" is history.
\* The permissions the token gave are resolved once more.
SyncedPartly(user, row) ==
    [user EXCEPT !.role = row.role, !.active = row.active,
                 !.override = NormalizeOverride(row.override),
                 !.permissions = ResolvePermissions([user EXCEPT !.role = row.role])]
Synced(user, row) ==
    [user EXCEPT !.role = row.role, !.active = row.active,
                 !.override = NormalizeOverride(row.override),
                 !.permissions = ResolvePermissions(
                    [role |-> row.role, override |-> row.override, permissions |-> {}])]
SyncUser(r) ==
    /\ req[r].at = "sync"
    /\ IF account = Gone
       THEN Goto(r, [req[r] EXCEPT !.at = IF req[r].optional THEN "handler" ELSE "unauthorized",
                                   !.user = NoUser])
       ELSE Goto(r, [req[r] EXCEPT !.at = IF req[r].optional THEN "handler" ELSE "active",
                                   !.user = Synced(req[r].user, account),
                                   !.seen = account])
    /\ UNCHANGED <<account, token, maintenance>>
\* The query fails: 401, or go on without a user.
SyncFails(r) ==
    /\ req[r].at = "sync"
    /\ Goto(r, [req[r] EXCEPT !.at = IF req[r].optional THEN "handler" ELSE "unauthorized",
                              !.user = NoUser])
    /\ UNCHANGED <<account, token, maintenance>>

\* protect: requireActiveUser, then the guards of the route, as authenticate
\* has them; no await between.
Protect(r) ==
    /\ req[r].at = "active"
    /\ Goto(r, [req[r] EXCEPT
            !.at = IF /\ req[r].activeOnly => RequireActiveUser(req[r].user)
                      /\ Passes(req[r].user, req[r].guard)
                   THEN "handler" ELSE "forbidden"])
    /\ UNCHANGED <<account, token, maintenance>>
Answer(r) ==
    /\ req[r].at \in Ends
    /\ Goto(r, Idle)
    /\ UNCHANGED <<account, token, maintenance>>

Middleware(r) ==
    \/ MaintenanceModeGuard(r) \/ MaintenanceUnknown(r)
    \/ WithoutToken(r) \/ VerifyToken(r) \/ SyncUser(r) \/ SyncFails(r) \/ Protect(r)

Next ==
    \/ Login \/ Spoil \/ UpdateRow \/ SwitchMaintenance
    \/ \E r \in Requests :
        \/ \E g \in Guards, route \in {"active", "any"}, bypass \in BOOLEAN :
            Arrive(r, g, route, bypass)
        \/ Arrive(r, [kind |-> "none"], "optional", FALSE)
        \/ Middleware(r) \/ Answer(r)

Spec == Init /\ [][Next]_vars

-----------------------------------------------------------------------------
Stages == {"guard", "token", "sync", "active"} \cup Ends
TypeOK ==
    /\ account \in Rows \cup {Gone}
    /\ token.kind \in {"none", "bad", "good"}
    /\ maintenance \in BOOLEAN
    /\ \A r \in Requests : req[r] = Idle \/
        /\ req[r].at \in Stages
        /\ req[r].seen \in Rows \cup {Gone}
        /\ req[r].user = NoUser \/ req[r].user.permissions \subseteq PermissionCodes \cup {"*"}

\* What a row allows, said without the middleware.
Effective(row) == CASE row.role = "ADMIN" -> PermissionCodes
                    [] row.role = "PARTNER" -> {"own", "partner"} \cup (row.override \cap PermissionCodes)
                    [] OTHER -> {"own"} \cup (row.override \cap PermissionCodes)
Allows(row, g, activeOnly) ==
    /\ row # Gone
    /\ activeOnly => row.active
    /\ CASE g.kind = "role" -> row.role \in g.roles
         [] g.kind = "all" -> g.permissions \subseteq Effective(row)
         [] g.kind = "any" -> g.permissions \cap Effective(row) # {}
         [] g.kind = "self" -> g.owner = User \/ g.permission \in Effective(row)
         [] OTHER -> TRUE

(* Whatever token the client holds and whatever happened to the account     *)
(* since it was issued, the row of the account decides: a handler that needs *)
(* a user runs if the row read by this request allows it, and a 403 means   *)
(* that it does not.                                                        *)
RowDecides ==
    \A r \in Requests : req[r] # Idle /\ ~req[r].optional =>
        /\ req[r].at = "handler" => Allows(req[r].seen, req[r].guard, req[r].activeOnly)
        /\ req[r].at = "forbidden" => ~Allows(req[r].seen, req[r].guard, req[r].activeOnly)

(* "Optional Auth Middleware - Doesn't fail if no token": outside           *)
(* maintenance such a request gets to its handler, with the user of the row  *)
(* or with none.                                                            *)
OptionalNeverFails ==
    \A r \in Requests : req[r] # Idle /\ req[r].optional =>
        /\ req[r].at \notin {"unauthorized", "forbidden"}
        /\ (req[r].at = "handler" /\ req[r].user # NoUser) => req[r].seen # Gone

=============================================================================
