------------------------ MODULE AdministrationProofs ------------------------
(***************************************************************************)
(* Proofs about Administration, for any routes, rows, settings, flags and  *)
(* requests.                                                               *)
(***************************************************************************)
EXTENDS Administration, Integers, Sequences, SumTheorems, TLAPS

-----------------------------------------------------------------------------
(***************************************************************************)
(* Access: every request has read what it decides on.                      *)
(***************************************************************************)
NoGuard == [kind |-> "none"]
Tokens == {NoToken, [kind |-> "bad"]} \cup [kind : {"good"}, scope : Roles]
ReqUser == [id : {User}, role : Roles, active : BOOLEAN, override : SUBSET PermissionCodes,
            permissions : SUBSET (PermissionCodes \cup {"*"})]
Request == [at : Stages, guard : Guards \cup {NoGuard}, optional : BOOLEAN, activeOnly : BOOLEAN,
            bypass : BOOLEAN, token : Tokens, user : ReqUser \cup {NoUser}, seen : Rows \cup {Gone}]

\* The permissions of a row, as the middleware resolves them.
PermissionsOf(stored) == GetPermissionsByRole(stored.role) \cup NormalizeOverride(stored.override)

\* A request knows the user of its token before it reads the row, and the row
\* itself before a guard decides; a decision is the row's.
RequestOK(q) ==
    /\ q.at \in {"guard", "token"} => q.user = NoUser
    /\ q.at = "sync" => q.token.kind = "good" /\ q.user \in ReqUser
    /\ q.at = "active" =>
         /\ ~q.optional /\ q.seen \in Rows /\ q.user \in ReqUser
         /\ q.user.role = q.seen.role /\ q.user.active = q.seen.active
         /\ q.user.permissions = PermissionsOf(q.seen)
    /\ q.at = "handler" /\ ~q.optional => Allows(q.seen, q.guard, q.activeOnly)
    /\ q.at = "forbidden" => ~q.optional /\ ~Allows(q.seen, q.guard, q.activeOnly)
    /\ q.at = "unauthorized" => ~q.optional
    /\ q.at = "handler" /\ q.optional /\ q.user # NoUser => q.seen # Gone

AccessInv ==
    /\ account \in Rows \cup {Gone}
    /\ token \in Tokens
    /\ maintenance \in BOOLEAN
    /\ req \in [Requests -> Request \cup {Idle}]
    /\ \A r \in Requests : req[r] # Idle => RequestOK(req[r])

-----------------------------------------------------------------------------
(***************************************************************************)
(* What a guard lets pass is what the row allows.                          *)
(***************************************************************************)
LEMMA HasPermissionIsEffective ==
    ASSUME NEW stored \in UserRow, NEW user \in ReqUser,
           user.permissions = PermissionsOf(stored), NEW p \in PermissionCodes
    PROVE  HasPermission(user, p) <=> p \in Effective(stored)
    <1>1. ResolvePermissions(user) = PermissionsOf(stored)
        <2>1. PermissionsOf(stored) # {}
            BY DEF PermissionsOf, GetPermissionsByRole, RolePermissionMap, UserRow, Roles
        <2> QED BY <2>1 DEF ResolvePermissions
    <1>2. HasPermission(user, p) <=> ("*" \in PermissionsOf(stored) \/ p \in PermissionsOf(stored))
        BY <1>1 DEF HasPermission
    <1>3. stored.role \in {"USER", "PARTNER", "ADMIN"} /\ p \in {"own", "partner", "staff"}
        BY DEF UserRow, Roles, PermissionCodes
    <1>4. CASE stored.role = "ADMIN"
        BY <1>2, <1>3, <1>4 DEF PermissionsOf, GetPermissionsByRole, RolePermissionMap, Effective,
           NormalizeOverride, PermissionCodes
    <1>5. CASE stored.role = "PARTNER"
        BY <1>2, <1>3, <1>5 DEF PermissionsOf, GetPermissionsByRole, RolePermissionMap, Effective,
           NormalizeOverride, PermissionCodes
    <1>6. CASE stored.role = "USER"
        BY <1>2, <1>3, <1>6 DEF PermissionsOf, GetPermissionsByRole, RolePermissionMap, Effective,
           NormalizeOverride, PermissionCodes
    <1> QED BY <1>3, <1>4, <1>5, <1>6

LEMMA PassesIsAllowed ==
    ASSUME NEW stored \in UserRow, stored # Gone, NEW user \in ReqUser, NEW g \in Guards \cup {NoGuard},
           user.role = stored.role, user.permissions = PermissionsOf(stored)
    PROVE  Passes(user, g) <=> Allows(stored, g, FALSE)
    <1>0. /\ g.kind \in {"all", "any"} => g.permissions \subseteq PermissionCodes
          /\ g.kind = "self" => g.permission \in PermissionCodes
        BY GuardsAssumption DEF NoGuard
    <1>1. \A p \in PermissionCodes : HasPermission(user, p) <=> p \in Effective(stored)
        BY HasPermissionIsEffective
    <1>2. CASE g.kind = "role"
        BY <1>2 DEF Passes, RequireRole, Allows
    <1>3. CASE g.kind = "all"
        BY <1>0, <1>1, <1>3 DEF Passes, RequirePermission, HasAll, Allows
    <1>4. CASE g.kind = "any"
        BY <1>0, <1>1, <1>4 DEF Passes, RequireAnyPermission, HasAny, Allows
    <1>5. CASE g.kind = "self"
        <2>1. user.id = User
            BY DEF ReqUser
        <2> QED BY <1>0, <1>1, <1>5, <2>1 DEF Passes, RequireSelfOrPermission, CanAccessOwnResource, Allows
    <1>6. CASE g.kind \notin {"role", "all", "any", "self"}
        BY <1>6 DEF Passes, Allows
    <1> QED BY <1>2, <1>3, <1>4, <1>5, <1>6

-----------------------------------------------------------------------------
(***************************************************************************)
(* The steps of a request.                                                 *)
(***************************************************************************)
\* A step of one request keeps the invariant if the request stays right.
LEMMA RequestMoves ==
    ASSUME AccessInv, NEW r \in Requests, NEW q \in Request \cup {Idle},
           q # Idle => RequestOK(q), Goto(r, q), UNCHANGED <<account, token, maintenance>>
    PROVE  AccessInv'
    <1>1. /\ req' \in [Requests -> Request \cup {Idle}]
          /\ \A s \in Requests : req'[s] = IF s = r THEN q ELSE req[s]
        BY DEF AccessInv, Goto
    <1> QED BY <1>1 DEF AccessInv

\* A step of one request that has its record.
LEMMA RequestRecord ==
    ASSUME AccessInv, NEW r \in Requests, req[r].at # "idle"
    PROVE  req[r] \in Request /\ req[r] # Idle /\ RequestOK(req[r])
    BY DEF AccessInv, Idle

LEMMA ArriveInv ==
    ASSUME AccessInv, NEW r \in Requests, NEW g \in Guards \cup {NoGuard},
           NEW route \in {"active", "any", "optional"}, NEW bypass \in BOOLEAN,
           Arrive(r, g, route, bypass)
    PROVE  AccessInv'
    <1> DEFINE q == [at |-> "guard", guard |-> g, optional |-> route = "optional",
                     activeOnly |-> route = "active", bypass |-> bypass,
                     token |-> token, user |-> NoUser, seen |-> Gone]
    <1>1. q \in Request
        BY DEF Request, Stages, AccessInv
    <1>2. RequestOK(q)
        BY DEF RequestOK
    <1>3. Goto(r, q) /\ UNCHANGED <<account, token, maintenance>>
        BY DEF Arrive
    <1> QED BY <1>1, <1>2, <1>3, RequestMoves

LEMMA MaintenanceInv ==
    ASSUME AccessInv, NEW r \in Requests, MaintenanceModeGuard(r) \/ MaintenanceUnknown(r)
    PROVE  AccessInv'
    <1>1. req[r] \in Request /\ RequestOK(req[r]) /\ req[r].at = "guard"
        BY RequestRecord DEF MaintenanceModeGuard, MaintenanceUnknown
    <1>2. \A a \in {"unavailable", "token"} :
            [req[r] EXCEPT !.at = a] \in Request /\ RequestOK([req[r] EXCEPT !.at = a])
        BY <1>1 DEF Request, Stages, Ends, RequestOK
    <1> QED BY <1>2, RequestMoves DEF MaintenanceModeGuard, MaintenanceUnknown

LEMMA TokenInv ==
    ASSUME AccessInv, NEW r \in Requests, WithoutToken(r) \/ VerifyToken(r)
    PROVE  AccessInv'
    <1>1. req[r] \in Request /\ RequestOK(req[r]) /\ req[r].at = "token"
        BY RequestRecord DEF WithoutToken, VerifyToken
    <1>2. CASE WithoutToken(r)
        <2> DEFINE q == [req[r] EXCEPT !.at = IF req[r].optional THEN "handler" ELSE "unauthorized"]
        <2>1. q \in Request /\ RequestOK(q)
            BY <1>1 DEF Request, Stages, Ends, RequestOK
        <2> QED BY <1>2, <2>1, RequestMoves DEF WithoutToken
    <1>3. CASE VerifyToken(r)
        <2> DEFINE t == req[r].token
                   q == [req[r] EXCEPT !.at = "sync", !.user = FromPayload(t)]
        <2>1. t.kind = "good" /\ t.scope \in Roles
            BY <1>1, <1>3 DEF VerifyToken, Request, Tokens, NoToken
        <2>2. FromPayload(t) \in ReqUser
            BY <2>1 DEF FromPayload, ReqUser, GetPermissionsByRole, RolePermissionMap, Roles, PermissionCodes
        <2>3. q \in Request
            BY <1>1, <2>2 DEF Request, Stages
        <2>4. RequestOK(q)
            BY <1>1, <2>1, <2>2 DEF Request, RequestOK
        <2> QED BY <1>3, <2>3, <2>4, RequestMoves DEF VerifyToken
    <1> QED BY <1>2, <1>3

LEMMA SyncInv ==
    ASSUME AccessInv, NEW r \in Requests, SyncUser(r) \/ SyncFails(r)
    PROVE  AccessInv'
    <1>1. req[r] \in Request /\ RequestOK(req[r]) /\ req[r].at = "sync"
        BY RequestRecord DEF SyncUser, SyncFails
    <1>2. UNCHANGED <<account, token, maintenance>>
        BY DEF SyncUser, SyncFails
    <1>3. CASE SyncFails(r) \/ account = Gone
        <2> DEFINE q == [req[r] EXCEPT !.at = IF req[r].optional THEN "handler" ELSE "unauthorized",
                                       !.user = NoUser]
        <2>1. q \in Request /\ RequestOK(q)
            BY <1>1 DEF Request, Stages, Ends, RequestOK
        <2>2. Goto(r, q)
            BY <1>3 DEF SyncUser, SyncFails
        <2> QED BY <1>2, <2>1, <2>2, RequestMoves
    <1>4. CASE SyncUser(r) /\ account # Gone
        <2> DEFINE u == Synced(req[r].user, account)
                   q == [req[r] EXCEPT !.at = IF req[r].optional THEN "handler" ELSE "active",
                                       !.user = u, !.seen = account]
        <2>1. account \in Rows /\ account \in UserRow /\ req[r].user \in ReqUser
            BY <1>1, <1>4, RowsAssumption DEF AccessInv, RequestOK
        <2>2. u.permissions = PermissionsOf(account)
            BY <2>1 DEF Synced, ReqUser, ResolvePermissions, PermissionsOf
        <2>3. PermissionsOf(account) \subseteq PermissionCodes \cup {"*"}
            BY <2>1 DEF PermissionsOf, GetPermissionsByRole, RolePermissionMap, NormalizeOverride,
               UserRow, Roles, PermissionCodes
        <2>4. u \in ReqUser /\ u.role = account.role /\ u.active = account.active
            BY <2>1, <2>2, <2>3 DEF Synced, ReqUser, UserRow, NormalizeOverride
        <2> HIDE DEF u
        <2>5. q \in Request
            BY <1>1, <2>1, <2>4 DEF Request, Stages, Ends
        <2>6. RequestOK(q)
            BY <1>1, <1>4, <2>1, <2>2, <2>4 DEF Request, RequestOK
        <2>7. Goto(r, q)
            BY <1>4 DEF SyncUser, u
        <2> QED BY <1>2, <2>5, <2>6, <2>7, RequestMoves
    <1> QED BY <1>3, <1>4

LEMMA ProtectInv ==
    ASSUME AccessInv, NEW r \in Requests, Protect(r)
    PROVE  AccessInv'
    <1>1. req[r] \in Request /\ RequestOK(req[r]) /\ req[r].at = "active"
        BY RequestRecord DEF Protect
    <1> DEFINE p == req[r]
               open == (p.activeOnly => RequireActiveUser(p.user)) /\ Passes(p.user, p.guard)
               q == [p EXCEPT !.at = IF open THEN "handler" ELSE "forbidden"]
    <1>2. /\ ~p.optional /\ p.user \in ReqUser /\ p.seen \in UserRow /\ p.seen # Gone
          /\ p.user.role = p.seen.role /\ p.user.active = p.seen.active
          /\ p.user.permissions = PermissionsOf(p.seen) /\ p.guard \in Guards \cup {NoGuard}
        BY <1>1, RowsAssumption DEF RequestOK, Request, Gone, UserRow, Roles
    <1>3. Passes(p.user, p.guard) <=> Allows(p.seen, p.guard, FALSE)
        BY <1>2, PassesIsAllowed
    <1>4. Allows(p.seen, p.guard, p.activeOnly)
            <=> (p.activeOnly => p.seen.active) /\ Allows(p.seen, p.guard, FALSE)
        BY DEF Allows
    <1>5. open <=> Allows(p.seen, p.guard, p.activeOnly)
        BY <1>2, <1>3, <1>4 DEF RequireActiveUser
    <1> HIDE DEF open
    <1>6. q \in Request
        BY <1>1 DEF Request, Stages, Ends
    <1>7. RequestOK(q)
        BY <1>1, <1>2, <1>5 DEF Request, RequestOK
    <1>8. Goto(r, q) /\ UNCHANGED <<account, token, maintenance>>
        BY DEF Protect, open
    <1> QED BY <1>6, <1>7, <1>8, RequestMoves

-----------------------------------------------------------------------------
(***************************************************************************)
(* Every step.                                                             *)
(***************************************************************************)
LEMMA OtherInv ==
    ASSUME AccessInv,
           Login \/ Spoil \/ UpdateRow \/ SwitchMaintenance \/ UNCHANGED vars
    PROVE  AccessInv'
    <1>1. req' = req
        BY DEF Login, Spoil, UpdateRow, SwitchMaintenance, vars
    <1>2. account' \in Rows \cup {Gone} /\ maintenance' \in BOOLEAN
        BY DEF AccessInv, Login, Spoil, UpdateRow, SwitchMaintenance, vars
    <1>3. token' \in Tokens
        <2>1. ASSUME Login PROVE token' \in Tokens
            BY <2>1, RowsAssumption DEF Login, AccessInv, Tokens, UserRow
        <2>2. Spoil => token' \in Tokens
            BY DEF Spoil, Tokens
        <2> QED BY <2>1, <2>2 DEF AccessInv, UpdateRow, SwitchMaintenance, vars
    <1> QED BY <1>1, <1>2, <1>3 DEF AccessInv

LEMMA InitAccessInv == Init => AccessInv
    BY DEF Init, AccessInv, Tokens

LEMMA NextAccessInv == AccessInv /\ [Next]_vars => AccessInv'
    <1> SUFFICES ASSUME AccessInv, [Next]_vars PROVE AccessInv' OBVIOUS
    <1>1. ASSUME NEW r \in Requests, NEW g \in Guards, NEW route \in {"active", "any"},
                 NEW bypass \in BOOLEAN, Arrive(r, g, route, bypass)
          PROVE  AccessInv'
        BY <1>1, ArriveInv
    <1>2. ASSUME NEW r \in Requests, Arrive(r, [kind |-> "none"], "optional", FALSE)
          PROVE  AccessInv'
        BY <1>2, ArriveInv DEF NoGuard
    <1>3. ASSUME NEW r \in Requests, Middleware(r) PROVE AccessInv'
        BY <1>3, MaintenanceInv, TokenInv, SyncInv, ProtectInv DEF Middleware
    <1>4. ASSUME NEW r \in Requests, Answer(r) PROVE AccessInv'
        BY <1>4, RequestMoves DEF Answer
    <1>5. CASE Login \/ Spoil \/ UpdateRow \/ SwitchMaintenance \/ UNCHANGED vars
        BY <1>5, OtherInv
    <1> QED BY <1>1, <1>2, <1>3, <1>4, <1>5 DEF Next

\* Every request has read what it decides on, as AccessInv says.
THEOREM AccessInvariant == Spec => []AccessInv
    BY InitAccessInv, NextAccessInv, PTL DEF Spec

\* Whatever the token says and however the row changes meanwhile, the row the
\* request has read decides, for every route and every override.
THEOREM RowsDecide == Spec => []RowDecides
    <1>1. AccessInv => RowDecides
        BY DEF AccessInv, RequestOK, RowDecides
    <1> QED BY <1>1, AccessInvariant, PTL

\* A request that may go without a user never fails for want of one.
THEOREM OptionalSucceeds == Spec => []OptionalNeverFails
    <1>1. AccessInv => OptionalNeverFails
        BY DEF AccessInv, RequestOK, OptionalNeverFails
    <1> QED BY <1>1, AccessInvariant, PTL

-----------------------------------------------------------------------------
(***************************************************************************)
(* The settings of the system: what is stored has been sanitized, so that  *)
(* sanitizing it once more changes nothing.                                *)
(***************************************************************************)
\* The values of requests and those the code itself writes (the provers do not
\* know that a literal is in STRING).
Stored == Settings!Value \cup {Settings!Word("true"), Settings!Word("false")}
                         \cup {Settings!Default[k] : k \in Keys}
Clean(k, v) == v \in Stored /\ Settings!SanitizeByKey(k, v) = v

LEMMA StoredKinds ==
    \A v \in Stored : v.kind \in Settings!Kinds /\ v # Settings!NoRow /\ v # Settings!Invalid
    <1>1. \A v \in Settings!Value : v.kind \in Settings!Kinds
        BY DEF Settings!Value, Settings!Kinds
    <1>2. ASSUME NEW k \in Keys
          PROVE  Settings!Default[k].kind \in Settings!Kinds
        <2>1. k \in {"maintenanceMode", "registrationOpen", "smtpPort", "maxDevicesPerUser", "smtpHost",
                     "storageProvider"}
            BY AdminAssumption DEF Settings!SettingsAssumption, Settings!Default
        <2>2. Settings!Default["maintenanceMode"].kind \in Settings!Kinds
            BY DEF Settings!Default, Settings!Word, Settings!Kinds
        <2>3. Settings!Default["registrationOpen"].kind \in Settings!Kinds
            BY DEF Settings!Default, Settings!Word, Settings!Kinds
        <2>4. Settings!Default["smtpPort"].kind \in Settings!Kinds
            BY DEF Settings!Default, Settings!Halves, Settings!Kinds
        <2>5. Settings!Default["maxDevicesPerUser"].kind \in Settings!Kinds
            BY DEF Settings!Default, Settings!Halves, Settings!Kinds
        <2>6. Settings!Default["smtpHost"].kind \in Settings!Kinds
            BY DEF Settings!Default, Settings!Text, Settings!Kinds
        <2>7. Settings!Default["storageProvider"].kind \in Settings!Kinds
            BY DEF Settings!Default, Settings!Text, Settings!Kinds
        <2> QED BY <2>1, <2>2, <2>3, <2>4, <2>5, <2>6, <2>7
    <1>3. Settings!Word("true").kind \in Settings!Kinds /\ Settings!Word("false").kind \in Settings!Kinds
        BY DEF Settings!Word, Settings!Kinds
    <1>4. Settings!NoRow.kind \notin Settings!Kinds /\ Settings!Invalid.kind \notin Settings!Kinds
        BY DEF Settings!NoRow, Settings!Invalid, Settings!Kinds
    <1> QED BY <1>1, <1>2, <1>3, <1>4 DEF Stored

LEMMA Values ==
    /\ \A v \in Settings!Value : v.kind = "number" => v.halves \in Int
    /\ \A v \in Settings!Value : v.kind = "text" => v.content \in STRING
    /\ \A n \in Int : /\ Settings!Halves(n) \in Settings!Value
                      /\ Settings!Halves(n).kind = "number" /\ Settings!Halves(n).halves = n
    /\ \A c \in STRING, p \in BOOLEAN :
         /\ Settings!Text(c, p) \in Settings!Value
         /\ Settings!Text(c, p).kind = "text" /\ Settings!Text(c, p).content = c
    <1>1. \A v \in Settings!Value : v.kind = "number" => v.halves \in Int
        BY DEF Settings!Value
    <1>2. \A v \in Settings!Value : v.kind = "text" => v.content \in STRING
        BY DEF Settings!Value
    <1>3. \A n \in Int : /\ Settings!Halves(n) \in Settings!Value
                         /\ Settings!Halves(n).kind = "number" /\ Settings!Halves(n).halves = n
        BY DEF Settings!Halves, Settings!Value
    <1>4. \A c \in STRING, p \in BOOLEAN :
            /\ Settings!Text(c, p) \in Settings!Value
            /\ Settings!Text(c, p).kind = "text" /\ Settings!Text(c, p).content = c
        BY DEF Settings!Text, Settings!Value
    <1> QED BY <1>1, <1>2, <1>3, <1>4

LEMMA Sanitized ==
    ASSUME NEW k, NEW v \in Settings!Value, Settings!SanitizeByKey(k, v) # Settings!Invalid
    PROVE  Clean(k, Settings!SanitizeByKey(k, v))
    <1>1. CASE k \in Settings!BooleanKeys
        <2>1. \A u : Settings!SanitizeByKey(k, u) = Settings!NormalizeBoolean(u)
            BY <1>1 DEF Settings!SanitizeByKey, Settings!BooleanKeys, Settings!NumberRange
        <2>2. Settings!NormalizeBoolean(v) \in {Settings!Word("true"), Settings!Word("false")}
            BY <2>1 DEF Settings!NormalizeBoolean
        <2>3. Settings!Word("true") \in Stored /\ Settings!Word("false") \in Stored
            BY DEF Stored
        <2>4. /\ Settings!NormalizeBoolean(Settings!Word("true")) = Settings!Word("true")
              /\ Settings!NormalizeBoolean(Settings!Word("false")) = Settings!Word("false")
            BY DEF Settings!NormalizeBoolean, Settings!Word, Settings!Halves
        <2> QED BY <2>1, <2>2, <2>3, <2>4 DEF Clean
    <1>2. CASE k \notin Settings!BooleanKeys /\ k \in DOMAIN Settings!NumberRange
        <2>1. \A u : Settings!SanitizeByKey(k, u) = Settings!SanitizeNumber(k, u)
            BY <1>2 DEF Settings!SanitizeByKey
        <2>2. v.kind = "number" /\ (v.halves \div 2) \in Settings!NumberRange[k] /\ v.halves \in Int
            BY <2>1, Values DEF Settings!SanitizeNumber
        <2>3. PICK n \in Int : n = v.halves \div 2
            BY <2>2
        <2>4. Settings!SanitizeNumber(k, v) = Settings!Halves(n * 2)
            BY <2>2, <2>3 DEF Settings!SanitizeNumber
        <2>5. (n * 2) \div 2 = n /\ n * 2 \in Int
            OBVIOUS
        <2>6. Settings!SanitizeNumber(k, Settings!Halves(n * 2)) = Settings!Halves(n * 2)
            BY <2>2, <2>3, <2>5, Values DEF Settings!SanitizeNumber
        <2> QED BY <2>1, <2>4, <2>5, <2>6, Values DEF Clean, Stored
    <1>3. CASE k \notin Settings!BooleanKeys /\ k \notin DOMAIN Settings!NumberRange
        <2>1. \A u : Settings!SanitizeByKey(k, u) = Settings!SanitizeText(k, u)
            BY <1>3 DEF Settings!SanitizeByKey
        <2>2. /\ v.kind = "text" /\ v.content \in STRING
              /\ v.content = "" => k \in Settings!NullableKeys
              /\ k \in DOMAIN Settings!EnumValues => v.content \in Settings!EnumValues[k]
            BY <2>1, Values DEF Settings!SanitizeText
        <2>3. Settings!SanitizeText(k, v) = Settings!Text(v.content, FALSE)
            BY <2>2 DEF Settings!SanitizeText
        <2>4. Settings!SanitizeText(k, Settings!Text(v.content, FALSE)) = Settings!Text(v.content, FALSE)
            BY <2>2, Values DEF Settings!SanitizeText
        <2>5. Settings!Text(v.content, FALSE) \in Settings!Value
            BY <2>2, Values
        <2> QED BY <2>1, <2>3, <2>4, <2>5 DEF Clean, Stored
    <1> QED BY <1>1, <1>2, <1>3

LEMMA NormalizeClean ==
    /\ \A k \in Keys : Settings!Normalize(k, Settings!NoRow) = Settings!Default[k]
    /\ \A k : \A v : Clean(k, v) => Settings!Normalize(k, v) = v
    /\ \A k \in Keys : Settings!Default[k] \in Stored
    <1>1. \A k \in Keys : Settings!Normalize(k, Settings!NoRow) = Settings!Default[k]
        BY DEF Settings!Normalize
    <1>2. \A k : \A v : Clean(k, v) => Settings!Normalize(k, v) = v
        BY StoredKinds DEF Clean, Settings!Normalize
    <1> QED BY <1>1, <1>2 DEF Stored

-----------------------------------------------------------------------------
\* Of the places of a key in a body there is a last one.
LEMMA LastPlace ==
    ASSUME NEW n \in Nat, NEW S, S \subseteq 1 .. n, S # {}
    PROVE  \E i \in S : \A j \in S : j <= i
    <1> DEFINE B == {n - i : i \in S}
    <1>0. \A i \in S : i \in Int /\ n - i \in Nat
        OBVIOUS
    <1>1. B \in SUBSET Nat /\ B # {}
        <2>1. \A x \in B : x \in Nat
            BY <1>0
        <2>2. PICK i \in S : TRUE
            OBVIOUS
        <2> QED BY <2>1, <2>2
    <1>2. PICK x \in B : \A y \in B : x <= y
        <2> HIDE DEF B
        <2> QED BY <1>1, LeastNatural
    <1>3. PICK i \in S : x = n - i
        BY <1>2
    <1>4. \A j \in S : n - i <= n - j
        BY <1>2, <1>3
    <1> QED BY <1>0, <1>4

LEMMA ElementOf == ASSUME NEW R, NEW s \in Seq(R), NEW i \in 1 .. Len(s) PROVE s[i] \in R
    OBVIOUS

UpdateSets == UNION {[ks -> Stored] : ks \in SUBSET Keys}

LEMMA UpdatesClean ==
    ASSUME NEW body \in Bodies, Settings!ValidBody(body)
    PROVE  /\ Settings!Updates(body) \in UpdateSets
           /\ \A k \in DOMAIN Settings!Updates(body) : k \in Keys /\ Clean(k, Settings!Updates(body)[k])
    <1> DEFINE At(k) == {i \in DOMAIN body : Settings!CanonicalKey(body[i].key) = k}
               Last(k) == CHOOSE i \in At(k) : \A j \in At(k) : j <= i
               ks == {key \in Keys : At(key) # {}}
               us == [k \in ks |-> Settings!SanitizeByKey(k, body[Last(k)].value)]
    <1>1. body \in Seq([key : STRING, value : Settings!Value])
        BY AdminAssumption DEF Settings!SettingsAssumption
    <1>2. Len(body) \in Nat /\ DOMAIN body = 1 .. Len(body) /\ \A i \in DOMAIN body : body[i].value \in Settings!Value
        <2>1. Len(body) \in Nat /\ DOMAIN body = 1 .. Len(body)
            BY <1>1
        <2>2. \A i \in 1 .. Len(body) : body[i] \in [key : STRING, value : Settings!Value]
            BY <1>1, ElementOf
        <2> QED BY <2>1, <2>2
    <1>3. Settings!Updates(body) = us
        BY DEF Settings!Updates
    <1>4. ASSUME NEW k \in ks
          PROVE  Clean(k, Settings!SanitizeByKey(k, body[Last(k)].value))
        <2>1. \E i \in At(k) : \A j \in At(k) : j <= i
            <3>1. At(k) \subseteq 1 .. Len(body) /\ At(k) # {}
                BY <1>2
            <3> HIDE DEF At
            <3> QED BY <1>2, <3>1, LastPlace
        <2>2. Last(k) \in At(k)
            BY <2>1
        <2> HIDE DEF Last
        <2>3. /\ body[Last(k)].value \in Settings!Value
              /\ Settings!SanitizeByKey(k, body[Last(k)].value) # Settings!Invalid
            BY <1>2, <2>2 DEF Settings!ValidBody
        <2> QED BY <2>3, Sanitized
    <1> HIDE DEF At, Last
    <1>5. us \in [ks -> Stored] /\ ks \in SUBSET Keys
        BY <1>4 DEF Clean
    <1> QED BY <1>3, <1>4, <1>5 DEF UpdateSets

-----------------------------------------------------------------------------
(***************************************************************************)
(* PATCH requests: the rows they have read are the rows they write over,   *)
(* as long as no other PATCH comes between.                                *)
(***************************************************************************)
PatchCall == [at : {"save", "reread"}, updates : UpdateSets, changed : SUBSET Keys,
              previous : [Keys -> Stored]]
Ending == [at |-> "invalidate"]

\* The value of a key as the settings page shows it.
Shown(rows, k) == Settings!Normalize(k, rows[k])
ChangeOf(d, k) == [key |-> k, from |-> d.previous[k], to |-> d.updates[k]]

\* What a PATCH knows of the rows.
KnowsRows(rows, done, d) ==
    /\ d.at = "save" => \A k \in Keys : d.previous[k] = Shown(rows, k)
    /\ d.at = "reread" => \A k \in d.changed : rows[k] = d.updates[k] /\ ChangeOf(d, k) \in done

SettingsInv ==
    /\ row \in [Keys -> Stored \cup {Settings!NoRow}]
    /\ \A k \in Keys : row[k] = Settings!NoRow \/ Clean(k, row[k])
    /\ \A k \in Keys : cache[k] = Settings!NoEntry \/ cache[k].value.kind \in Settings!Kinds
    /\ patch \in [Admins -> PatchCall \cup {Settings!Idle, Ending}]
    /\ \A a \in Admins : patch[a] \in PatchCall =>
          \A k \in patch[a].changed : k \in DOMAIN patch[a].updates /\ Clean(k, patch[a].updates[k])
    /\ \A r \in Readers : \/ read[r].at = "idle"
                          \/ /\ read[r].at = "fetched" /\ read[r].key \in Keys
                             /\ read[r].value.kind \in Settings!Kinds
    /\ DOMAIN cache = Keys /\ DOMAIN read = Readers
    /\ saves \in 0 .. MaxCommits
    /\ overlapped \in BOOLEAN
    /\ ~overlapped =>
         /\ \A a, b \in Admins : patch[a] # Settings!Idle /\ patch[b] # Settings!Idle => a = b
         /\ \A a \in Admins : patch[a] \in PatchCall => KnowsRows(row, commits, patch[a])
         /\ audits \subseteq commits

LEMMA PatchStages ==
    /\ \A d \in PatchCall : d.at \in {"save", "reread"} /\ d # Settings!Idle /\ d # Ending
    /\ Settings!Idle.at = "idle" /\ Ending.at = "invalidate"
    /\ Settings!Idle \notin PatchCall /\ Ending \notin PatchCall
    BY DEF PatchCall, Settings!Idle, Ending

LEMMA PatchInFlight ==
    ASSUME SettingsInv, NEW a \in Admins
    PROVE  /\ patch[a].at \in {"save", "reread"} => patch[a] \in PatchCall
           /\ patch[a].at = "invalidate" => patch[a] = Ending
           /\ patch[a].at # "idle" => patch[a] # Settings!Idle
           /\ patch[a].at \in {"idle", "save", "reread", "invalidate"}
    <1>1. patch[a] \in PatchCall \cup {Settings!Idle, Ending}
        BY DEF SettingsInv
    <1> QED BY <1>1, PatchStages

\* What the rows show is a value.
LEMMA ShownIsStored ==
    ASSUME SettingsInv, NEW k \in Keys
    PROVE  /\ Shown(row, k) \in Stored
           /\ row[k] # Settings!NoRow => Shown(row, k) = row[k]
           /\ row[k] = Settings!NoRow => Shown(row, k) = Settings!Default[k]
    <1>1. CASE row[k] = Settings!NoRow
        BY <1>1, NormalizeClean DEF Shown
    <1>2. CASE row[k] # Settings!NoRow
        <2>1. Clean(k, row[k])
            BY <1>2 DEF SettingsInv
        <2>2. Settings!Normalize(k, row[k]) = row[k]
            BY <2>1, NormalizeClean
        <2> QED BY <1>2, <2>1, <2>2 DEF Shown, Clean
    <1> QED BY <1>1, <1>2

\* The request that moves is the only one, as long as nothing overlaps.
LEMMA PatchAlone ==
    ASSUME SettingsInv, ~overlapped, NEW a \in Admins, patch[a] # Settings!Idle
    PROVE  \A b \in Admins \ {a} : patch[b] = Settings!Idle
    BY DEF SettingsInv

\* A step of PATCH a, after which it stands at d.
LEMMA PatchMoves ==
    ASSUME SettingsInv, NEW a \in Admins, NEW d \in PatchCall \cup {Settings!Idle, Ending},
           patch' = [patch EXCEPT ![a] = d],
           row' \in [Keys -> Stored \cup {Settings!NoRow}],
           \A k \in Keys : row'[k] = Settings!NoRow \/ Clean(k, row'[k]),
           cache' = cache \/ cache' = [k \in Keys |-> Settings!NoEntry], read' = read,
           d \in PatchCall => \A k \in d.changed : k \in DOMAIN d.updates /\ Clean(k, d.updates[k]),
           saves' \in 0 .. MaxCommits, overlapped' \in BOOLEAN,
           ~overlapped' =>
             /\ \A b \in Admins \ {a} : patch[b] = Settings!Idle
             /\ d \in PatchCall => KnowsRows(row', commits', d)
             /\ audits' \subseteq commits'
    PROVE  SettingsInv'
    <1>1. patch' \in [Admins -> PatchCall \cup {Settings!Idle, Ending}]
          /\ \A b \in Admins : patch'[b] = IF b = a THEN d ELSE patch[b]
        BY DEF SettingsInv
    <1>2. \A b \in Admins : patch'[b] \in PatchCall =>
             \A k \in patch'[b].changed : k \in DOMAIN patch'[b].updates /\ Clean(k, patch'[b].updates[k])
        BY <1>1 DEF SettingsInv
    <1>3. /\ DOMAIN cache' = Keys
          /\ \A k \in Keys : cache'[k] = Settings!NoEntry \/ cache'[k].value.kind \in Settings!Kinds
        BY DEF SettingsInv
    <1>4. /\ DOMAIN read' = Readers
          /\ \A r \in Readers : \/ read'[r].at = "idle"
                                \/ /\ read'[r].at = "fetched" /\ read'[r].key \in Keys
                                   /\ read'[r].value.kind \in Settings!Kinds
        BY DEF SettingsInv
    <1>5. ASSUME ~overlapped'
          PROVE  /\ \A b, c \in Admins : patch'[b] # Settings!Idle /\ patch'[c] # Settings!Idle => b = c
                 /\ \A b \in Admins : patch'[b] \in PatchCall => KnowsRows(row', commits', patch'[b])
                 /\ audits' \subseteq commits'
        BY <1>1, <1>5, PatchStages
    <1> QED BY <1>1, <1>2, <1>3, <1>4, <1>5 DEF SettingsInv

-----------------------------------------------------------------------------
LEMMA StartSettingsInv ==
    ASSUME SettingsInv, NEW a \in Admins, NEW body \in Bodies, Settings!UpdateSettings(a, body)
    PROVE  SettingsInv'
    <1> DEFINE current == Settings!NormalizeSettings(row)
    <1>1. PICK us \in UpdateSets : /\ us = Settings!Updates(body)
                                  /\ \A k \in DOMAIN us : k \in Keys /\ Clean(k, us[k])
        BY UpdatesClean DEF Settings!UpdateSettings
    <1>2. PICK changed \in SUBSET Keys : changed = Settings!Different(us) /\ changed \subseteq DOMAIN us
        BY <1>1 DEF Settings!Different
    <1>3. PICK previous \in [Keys -> Stored] : previous = current /\ \A k \in Keys : previous[k] = Shown(row, k)
        <2>1. \A k \in Keys : Settings!Normalize(k, row[k]) \in Stored
            BY ShownIsStored DEF Shown
        <2>2. current \in [Keys -> Stored] /\ \A k \in Keys : current[k] = Shown(row, k)
            BY <2>1 DEF Settings!NormalizeSettings, Shown
        <2> QED BY <2>2
    <1> HIDE DEF current
    <1>4. PICK d \in PatchCall : d = [at |-> "save", updates |-> us, changed |-> changed, previous |-> previous]
        BY DEF PatchCall
    <1>5. patch' = [patch EXCEPT ![a] = d]
        BY <1>1, <1>2, <1>3, <1>4 DEF Settings!UpdateSettings, Settings!Goto, current
    <1>6. /\ overlapped' = (overlapped \/ \E b \in Admins : patch[b] # Settings!Idle)
          /\ UNCHANGED <<row, cache, read, commits, saves, audits>>
        BY DEF Settings!UpdateSettings
    <1>7. \A k \in d.changed : k \in DOMAIN d.updates /\ Clean(k, d.updates[k])
        BY <1>1, <1>2, <1>4
    <1>8. KnowsRows(row, commits, d)
        BY <1>3, <1>4 DEF KnowsRows
    <1>9. overlapped' \in BOOLEAN
        BY <1>6
    <1>10. ~overlapped' => ~overlapped /\ \A b \in Admins : patch[b] = Settings!Idle
        BY <1>6
    <1>11. ~overlapped => audits \subseteq commits
        BY DEF SettingsInv
    <1>12. /\ row \in [Keys -> Stored \cup {Settings!NoRow}] /\ saves \in 0 .. MaxCommits
           /\ \A k \in Keys : row[k] = Settings!NoRow \/ Clean(k, row[k])
        BY DEF SettingsInv
    <1> QED BY <1>5, <1>6, <1>7, <1>8, <1>9, <1>10, <1>11, <1>12, PatchMoves

LEMMA UpsertSettingsInv ==
    ASSUME SettingsInv, NEW a \in Admins, Settings!UpsertMany(a)
    PROVE  SettingsInv'
    <1>1. patch[a] \in PatchCall /\ patch[a].at = "save" /\ patch[a] # Settings!Idle
        BY PatchInFlight DEF Settings!UpsertMany
    <1>2. PICK c \in PatchCall : c = patch[a]
        BY <1>1
    <1>3. c.changed \subseteq Keys /\ \A k \in c.changed : k \in DOMAIN c.updates /\ Clean(k, c.updates[k])
        BY <1>2 DEF SettingsInv, PatchCall
    <1>4. PICK d \in PatchCall : /\ d = [c EXCEPT !.at = "reread"]
                                /\ d.at = "reread" /\ d.updates = c.updates /\ d.changed = c.changed
                                /\ d.previous = c.previous
        <2>1. [c EXCEPT !.at = "reread"] \in PatchCall
            BY DEF PatchCall
        <2>2. LET e == [c EXCEPT !.at = "reread"]
              IN /\ e.at = "reread" /\ e.updates = c.updates /\ e.changed = c.changed
                 /\ e.previous = c.previous
            BY DEF PatchCall
        <2> QED BY <2>1, <2>2
    <1>5. patch' = [patch EXCEPT ![a] = d]
        BY <1>2, <1>4 DEF Settings!UpsertMany, Settings!Goto
    <1>6. row' = [k \in Keys |-> IF k \in c.changed THEN c.updates[k] ELSE row[k]]
        BY <1>2 DEF Settings!UpsertMany, Settings!Saved
    <1>7. commits' = commits \cup
             {[key |-> k, from |-> Settings!Normalize(k, row[k]), to |-> Settings!Saved(a)[k]] : k \in c.changed}
        BY <1>2 DEF Settings!UpsertMany
    <1>8. cache' = cache /\ read' = read /\ audits' = audits /\ overlapped' = overlapped /\ saves' = saves + 1
          /\ saves < MaxCommits
        BY DEF Settings!UpsertMany
    <1>9. \A k \in Keys : row'[k] = Settings!NoRow \/ Clean(k, row'[k])
        BY <1>3, <1>6 DEF SettingsInv
    <1>10. row' \in [Keys -> Stored \cup {Settings!NoRow}]
        BY <1>6, <1>9 DEF Clean
    <1>11. saves' \in 0 .. MaxCommits /\ overlapped' \in BOOLEAN
        BY <1>8, AdminAssumption DEF SettingsInv, Settings!SettingsAssumption
    <1>12. ASSUME ~overlapped
           PROVE  /\ \A b \in Admins \ {a} : patch[b] = Settings!Idle
                  /\ KnowsRows(row', commits', d)
                  /\ audits' \subseteq commits'
        <2>1. \A k \in Keys : c.previous[k] = Shown(row, k)
            BY <1>1, <1>2, <1>12 DEF SettingsInv, KnowsRows
        <2>2. ASSUME NEW k \in c.changed
              PROVE  row'[k] = c.updates[k] /\ ChangeOf(d, k) \in commits'
            <3>1. k \in Keys /\ row'[k] = c.updates[k]
                BY <1>3, <1>6
            <3>2. Settings!Saved(a)[k] = c.updates[k]
                BY <1>2, <1>3 DEF Settings!Saved
            <3>3. ChangeOf(d, k) = [key |-> k, from |-> Settings!Normalize(k, row[k]), to |-> Settings!Saved(a)[k]]
                BY <1>4, <2>1, <3>1, <3>2 DEF ChangeOf, Shown
            <3> QED BY <1>7, <3>1, <3>3
        <2>3. KnowsRows(row', commits', d)
            BY <1>4, <2>2 DEF KnowsRows
        <2>4. audits' \subseteq commits'
            BY <1>7, <1>8, <1>12 DEF SettingsInv
        <2> QED BY <1>1, <1>12, <2>3, <2>4, PatchAlone
    <1>13. d \in PatchCall => \A k \in d.changed : k \in DOMAIN d.updates /\ Clean(k, d.updates[k])
        BY <1>3, <1>4
    <1> QED BY <1>5, <1>8, <1>9, <1>10, <1>11, <1>12, <1>13, PatchMoves

\* A PATCH that ends without touching the rows.
LEMMA LeaveSettingsInv ==
    ASSUME SettingsInv, NEW a \in Admins,
           Settings!NothingChanged(a) \/ Settings!PatchFails(a) \/ Settings!Invalidate(a)
    PROVE  SettingsInv'
    <1>1. patch[a] # Settings!Idle
        BY PatchInFlight DEF Settings!NothingChanged, Settings!PatchFails, Settings!Invalidate
    <1>2. /\ patch' = [patch EXCEPT ![a] = Settings!Idle]
          /\ UNCHANGED <<row, read, commits, saves, audits, overlapped>>
          /\ cache' = cache \/ cache' = [k \in Keys |-> Settings!NoEntry]
        BY DEF Settings!NothingChanged, Settings!PatchFails, Settings!Invalidate, Settings!Goto, Settings!history
    <1>3. /\ row \in [Keys -> Stored \cup {Settings!NoRow}] /\ saves \in 0 .. MaxCommits
          /\ \A k \in Keys : row[k] = Settings!NoRow \/ Clean(k, row[k])
          /\ overlapped \in BOOLEAN /\ (~overlapped => audits \subseteq commits)
        BY DEF SettingsInv
    <1> QED BY <1>1, <1>2, <1>3, PatchAlone, PatchStages, PatchMoves

LEMMA AuditSettingsInv ==
    ASSUME SettingsInv, NEW a \in Admins, Settings!Audit(a)
    PROVE  SettingsInv'
    <1>1. patch[a] \in PatchCall /\ patch[a].at = "reread" /\ patch[a] # Settings!Idle
        BY PatchInFlight DEF Settings!Audit
    <1>2. PICK c \in PatchCall : c = patch[a]
        BY <1>1
    <1>3. c.changed \subseteq Keys /\ \A k \in c.changed : Clean(k, c.updates[k])
        BY <1>2 DEF SettingsInv, PatchCall
    <1>4. /\ patch' = [patch EXCEPT ![a] = Ending]
          /\ UNCHANGED <<row, cache, read, commits, saves, overlapped>>
        BY DEF Settings!Audit, Settings!Goto, Ending
    <1>5. audits' = audits \/ audits' = audits \cup
            {[key |-> k, from |-> c.previous[k], to |-> Settings!NormalizeSettings(row)[k]] : k \in c.changed}
        BY <1>2 DEF Settings!Audit, Settings!Described
    <1>6. ASSUME ~overlapped
          PROVE  audits' \subseteq commits
        <2>1. \A k \in c.changed : row[k] = c.updates[k] /\ ChangeOf(c, k) \in commits
            BY <1>1, <1>2, <1>6 DEF SettingsInv, KnowsRows
        <2>2. ASSUME NEW k \in c.changed
              PROVE  [key |-> k, from |-> c.previous[k], to |-> Settings!NormalizeSettings(row)[k]] \in commits
            <3>1. Settings!NormalizeSettings(row)[k] = Settings!Normalize(k, row[k])
                BY <1>3 DEF Settings!NormalizeSettings
            <3>2. Settings!Normalize(k, row[k]) = c.updates[k]
                BY <1>3, <2>1, NormalizeClean
            <3> QED BY <2>1, <3>1, <3>2 DEF ChangeOf
        <2>3. audits \subseteq commits
            BY <1>6 DEF SettingsInv
        <2> QED BY <1>5, <2>2, <2>3
    <1>7. /\ row \in [Keys -> Stored \cup {Settings!NoRow}] /\ saves \in 0 .. MaxCommits
          /\ \A k \in Keys : row[k] = Settings!NoRow \/ Clean(k, row[k])
          /\ overlapped \in BOOLEAN
        BY DEF SettingsInv
    <1> QED BY <1>1, <1>4, <1>6, <1>7, PatchAlone, PatchStages, PatchMoves

\* Readers and the clock.
LEMMA ReaderSettingsInv ==
    ASSUME SettingsInv,
           \/ \E r \in Readers : (\E k \in Keys : Settings!Get(r, k)) \/ Settings!Fill(r)
           \/ \E k \in Keys : Settings!Expire(k)
    PROVE  SettingsInv'
    <1>1. UNCHANGED <<row, patch, commits, saves, audits, overlapped>>
        BY DEF Settings!Get, Settings!Fill, Settings!Expire, Settings!history
    <1>2. ASSUME NEW r \in Readers, NEW k \in Keys, Settings!Get(r, k)
          PROVE  SettingsInv'
        <2>1. Settings!StoredOrDefault(k).kind \in Settings!Kinds
            <3>1. Settings!StoredOrDefault(k) \in Stored
                BY ShownIsStored DEF Settings!StoredOrDefault
            <3> QED BY <3>1, StoredKinds
        <2>2. PICK v : v = Settings!StoredOrDefault(k)
            OBVIOUS
        <2>3. PICK q : q = [at |-> "fetched", key |-> k, value |-> v]
            OBVIOUS
        <2>4. q.at = "fetched" /\ q.key \in Keys /\ q.value.kind \in Settings!Kinds
            BY <2>1, <2>2, <2>3
        <2>5. read' = [read EXCEPT ![r] = q] /\ cache' = cache
            BY <1>2, <2>2, <2>3 DEF Settings!Get
        <2> QED BY <1>1, <2>4, <2>5 DEF SettingsInv
    <1>3. ASSUME NEW r \in Readers, Settings!Fill(r)
          PROVE  SettingsInv'
        <2>1. read[r].at = "fetched" /\ read[r].key \in Keys /\ read[r].value.kind \in Settings!Kinds
            BY <1>3 DEF Settings!Fill, SettingsInv
        <2>2. PICK k \in Keys : k = read[r].key
            BY <2>1
        <2>3. PICK e : e = Settings!Entry(read[r].value) /\ e.value.kind \in Settings!Kinds
            <3>1. Settings!Entry(read[r].value).value = read[r].value
                BY DEF Settings!Entry
            <3> QED BY <2>1, <3>1
        <2>4. cache' = [cache EXCEPT ![k] = e] /\ read' = [read EXCEPT ![r] = Settings!Idle]
            BY <1>3, <2>2, <2>3 DEF Settings!Fill
        <2> QED BY <1>1, <2>3, <2>4 DEF SettingsInv, Settings!Idle
    <1>4. ASSUME NEW k \in Keys, Settings!Expire(k)
          PROVE  SettingsInv'
        <2>1. read' = read /\ cache[k] # Settings!NoEntry
            BY <1>4 DEF Settings!Expire
        <2>2. PICK e : e = [cache[k] EXCEPT !.expired = TRUE]
            OBVIOUS
        <2>3. cache' = [cache EXCEPT ![k] = e]
            BY <1>4, <2>2 DEF Settings!Expire
        <2>4. e.value = cache[k].value
            BY <2>2
        <2> QED BY <1>1, <2>1, <2>3, <2>4 DEF SettingsInv
    <1> QED BY <1>2, <1>3, <1>4

LEMMA InitSettingsInv == Settings!Init => SettingsInv
    <1> SUFFICES ASSUME Settings!Init PROVE SettingsInv
        OBVIOUS
    <1>1. /\ row = [k \in Keys |-> Settings!NoRow] /\ cache = [k \in Keys |-> Settings!NoEntry]
          /\ patch = [a \in Admins |-> Settings!Idle] /\ read = [r \in Readers |-> Settings!Idle]
          /\ commits = {} /\ saves = 0 /\ audits = {} /\ overlapped = FALSE
        BY DEF Settings!Init
    <1>2. saves \in 0 .. MaxCommits
        BY <1>1, AdminAssumption DEF Settings!SettingsAssumption
    <1> QED BY <1>1, <1>2, PatchStages DEF SettingsInv

LEMMA NextSettingsInv == SettingsInv /\ [Settings!Next]_Settings!vars => SettingsInv'
    <1> SUFFICES ASSUME SettingsInv, [Settings!Next]_Settings!vars PROVE SettingsInv'
        OBVIOUS
    <1>1. ASSUME NEW a \in Admins, Settings!UpdateStep(a) PROVE SettingsInv'
        BY <1>1, StartSettingsInv, UpsertSettingsInv, LeaveSettingsInv, AuditSettingsInv DEF Settings!UpdateStep
    <1>2. CASE UNCHANGED Settings!vars
        BY <1>2 DEF Settings!vars, SettingsInv
    <1> QED BY <1>1, <1>2, ReaderSettingsInv DEF Settings!Next

\* Every spelling is stored as the page shows it, and the log of requests that do
\* not overlap tells what happened, for any keys, bodies and requests.
THEOREM SettingsAreTold == Settings!Spec => []SettingsTrue
    <1>1. ASSUME SettingsInv PROVE SettingsTrue
        <2>1. \A k \in Keys : row[k] = Settings!NoRow \/ row[k].kind \in Settings!Kinds
            BY <1>1, StoredKinds DEF SettingsInv, Clean
        <2>2. \A r \in Readers : read[r].at \in {"idle", "fetched"}
            BY <1>1 DEF SettingsInv
        <2>3. Settings!TypeOK
            BY <1>1, <2>1, <2>2, PatchInFlight DEF SettingsInv, Settings!TypeOK
        <2>4. Settings!ReadersAgree
            BY <1>1, ShownIsStored DEF Settings!ReadersAgree, Settings!StoredOrDefault, Settings!NormalizeSettings, Shown
        <2> QED BY <1>1, <2>3, <2>4 DEF SettingsInv, SettingsTrue, Settings!AuditsHappened
    <1> QED BY <1>1, InitSettingsInv, NextSettingsInv, PTL DEF Settings!Spec

-----------------------------------------------------------------------------
(***************************************************************************)
(* Feature flags: of a flag whose last change is told in its turn at most  *)
(* one request still has an entry to write, and that entry tells the state *)
(* of the row; when nobody has, the log does.                              *)
(***************************************************************************)
FlagUpdates == [enabled : BOOLEAN] \cup [env : Flag!Envs] \cup [enabled : BOOLEAN, env : Flag!Envs]
FlagRows == Flag!Row \cup {Flag!NoFlag, Flag!Deleted}
InsertCall == [at : {"insert"}, flag : Flags,
               row : [key : FlagKeys, env : Flag!Envs, enabled : {FALSE}]]
\* A write of "enabled" without an entry writes the value the request has read.
WriteCall == {d \in [at : {"write"}, flag : Flags, from : BOOLEAN, updates : FlagUpdates, log : BOOLEAN] :
                 /\ d.log => "enabled" \in DOMAIN d.updates
                 /\ ~d.log => "enabled" \notin DOMAIN d.updates \/ d.updates.enabled = d.from}
AuditCall == [at : {"audit"}, told : UNION {[fs -> BOOLEAN] : fs \in SUBSET Flags}]
OffCall == [at : {"off"}, env : Flag!Envs, flags : SUBSET Flags]
DeleteCall == [at : {"delete"}, flag : Flags]
FlagCall == {Flag!Idle} \cup InsertCall \cup WriteCall \cup AuditCall \cup OffCall \cup DeleteCall

FlagType ==
    /\ flag \in [Flags -> FlagRows]
    /\ flagCall \in [Admins -> FlagCall]
    /\ told \in [Flags -> BOOLEAN]
    /\ changes \in 0 .. MaxChanges
    /\ untold \subseteq Flags

\* A request that has read a flag, before or after it was written.
Touches(d, f) ==
    \/ d.at \in {"write", "delete"} /\ d.flag = f
    \/ d.at = "off" /\ f \in d.flags
    \/ d.at = "audit" /\ f \in DOMAIN d.told
Tells(d, f) == d.at = "audit" /\ f \in DOMAIN d.told

\* The log tells a row's state, or the one request that will tell it does.
Agrees(rows, calls, log, f) ==
    rows[f] \in Flag!Row =>
        /\ \A a, b \in Admins : Tells(calls[a], f) /\ Tells(calls[b], f) => a = b
        /\ \A a \in Admins : Tells(calls[a], f) => calls[a].told[f] = rows[f].enabled
        /\ (\A a \in Admins : ~Tells(calls[a], f)) => rows[f].enabled = log[f]

FlagInv ==
    /\ FlagType
    /\ Flag!OneFlagPerKey
    /\ \A f \in Flags : flag[f] = Flag!NoFlag => ~told[f] /\ \A a \in Admins : ~Touches(flagCall[a], f)
    /\ \A f \in Flags \ untold : Agrees(flag, flagCall, told, f)

LEMMA FlagRowsApart ==
    Flag!NoFlag \notin Flag!Row /\ Flag!Deleted \notin Flag!Row /\ Flag!NoFlag # Flag!Deleted
    <1>1. \A r \in Flag!Row : "env" \in DOMAIN r
        BY DEF Flag!Row
    <1>2. "env" \notin DOMAIN Flag!NoFlag /\ "env" \notin DOMAIN Flag!Deleted
        BY DEF Flag!NoFlag, Flag!Deleted
    <1> QED BY <1>1, <1>2 DEF Flag!NoFlag, Flag!Deleted

LEMMA FlagExists ==
    ASSUME FlagType, NEW f \in Flags
    PROVE  Flag!Exists(f) <=> flag[f] \in Flag!Row
    BY FlagRowsApart DEF FlagType, FlagRows, Flag!Exists

LEMMA MergedFlag ==
    ASSUME NEW r \in Flag!Row, NEW u \in FlagUpdates
    PROVE  /\ Flag!Merged(r, u) \in Flag!Row
           /\ Flag!Merged(r, u).key = r.key
           /\ "enabled" \in DOMAIN u => u.enabled \in BOOLEAN /\ Flag!Merged(r, u).enabled = u.enabled
           /\ "enabled" \notin DOMAIN u => Flag!Merged(r, u).enabled = r.enabled
    <1>1. DOMAIN r = {"key", "env", "enabled"} /\ r.key \in FlagKeys /\ r.env \in Flag!Envs /\ r.enabled \in BOOLEAN
        BY DEF Flag!Row
    <1>2. /\ "key" \notin DOMAIN u
          /\ "env" \in DOMAIN u => u.env \in Flag!Envs
          /\ "enabled" \in DOMAIN u => u.enabled \in BOOLEAN
        BY DEF FlagUpdates
    <1> QED BY <1>1, <1>2 DEF Flag!Merged, Flag!Row

\* A step of request a, after which it stands at d.
LEMMA FlagMoves ==
    ASSUME FlagInv, NEW a \in Admins, NEW d \in FlagCall, flagCall' = [flagCall EXCEPT ![a] = d],
           flag' \in [Flags -> FlagRows], told' \in [Flags -> BOOLEAN],
           changes' \in 0 .. MaxChanges, untold' \subseteq Flags,
           \A f, g \in Flags : (flag'[f] \in Flag!Row /\ flag'[g] \in Flag!Row /\ flag'[f].key = flag'[g].key) => f = g,
           \A f \in Flags : flag'[f] = Flag!NoFlag => flag[f] = Flag!NoFlag /\ told'[f] = told[f] /\ ~Touches(d, f),
           \A f \in Flags \ untold' : Agrees(flag', flagCall', told', f)
    PROVE  FlagInv'
    <1>1. flagCall' \in [Admins -> FlagCall] /\ \A b \in Admins : flagCall'[b] = IF b = a THEN d ELSE flagCall[b]
        BY DEF FlagInv, FlagType
    <1>2. FlagType'
        BY <1>1 DEF FlagType
    <1>3. Flag!OneFlagPerKey'
        <2>1. \A f \in Flags : Flag!Exists(f)' <=> flag'[f] \in Flag!Row
            BY FlagRowsApart DEF FlagRows, Flag!Exists
        <2> QED BY <2>1 DEF Flag!OneFlagPerKey
    <1>4. \A f \in Flags : flag'[f] = Flag!NoFlag => ~told'[f] /\ \A b \in Admins : ~Touches(flagCall'[b], f)
        BY <1>1 DEF FlagInv
    <1> QED BY <1>2, <1>3, <1>4 DEF FlagInv

\* A flag whose row, entry and log the step of request a leaves alone.
LEMMA AgreesStill ==
    ASSUME FlagInv, NEW a \in Admins, NEW d \in FlagCall, flagCall' = [flagCall EXCEPT ![a] = d],
           NEW f \in Flags \ untold, ~Tells(flagCall[a], f), ~Tells(d, f), told'[f] = told[f],
           flag'[f] \in Flag!Row => flag[f] \in Flag!Row /\ flag'[f].enabled = flag[f].enabled
    PROVE  Agrees(flag', flagCall', told', f)
    <1>1. \A b \in Admins : flagCall'[b] = IF b = a THEN d ELSE flagCall[b]
        BY DEF FlagInv, FlagType
    <1>2. Agrees(flag, flagCall, told, f)
        BY DEF FlagInv
    <1> QED BY <1>1, <1>2 DEF Agrees

\* A flag only request a has an entry about, which tells the new row.
LEMMA AgreesInTurn ==
    ASSUME FlagInv, NEW a \in Admins, NEW d \in FlagCall, flagCall' = [flagCall EXCEPT ![a] = d],
           NEW f \in Flags, ~Flag!OutOfTurn(a, f), Tells(d, f),
           flag'[f] \in Flag!Row => d.told[f] = flag'[f].enabled
    PROVE  Agrees(flag', flagCall', told', f)
    <1>1. \A b \in Admins : flagCall'[b] = IF b = a THEN d ELSE flagCall[b]
        BY DEF FlagInv, FlagType
    <1>2. \A b \in Admins \ {a} : ~Tells(flagCall[b], f)
        BY DEF Flag!OutOfTurn, Flag!WillTell, Tells
    <1> QED BY <1>1, <1>2 DEF Agrees

-----------------------------------------------------------------------------
LEMMA CallStages ==
    /\ \A d \in InsertCall : d.at = "insert"
    /\ \A d \in WriteCall : d.at = "write"
    /\ \A d \in AuditCall : d.at = "audit"
    /\ \A d \in OffCall : d.at = "off"
    /\ \A d \in DeleteCall : d.at = "delete"
    /\ Flag!Idle.at = "idle"
    BY DEF InsertCall, WriteCall, AuditCall, OffCall, DeleteCall, Flag!Idle

\* What a statement finds in its request.
LEMMA FlagInFlight ==
    ASSUME FlagInv, NEW a \in Admins
    PROVE  /\ flagCall[a].at = "insert" => flagCall[a] \in InsertCall
           /\ flagCall[a].at = "write" => flagCall[a] \in WriteCall
           /\ flagCall[a].at = "audit" => flagCall[a] \in AuditCall
           /\ flagCall[a].at = "off" => flagCall[a] \in OffCall
           /\ flagCall[a].at = "delete" => flagCall[a] \in DeleteCall
           /\ flagCall[a].at # "idle" => flagCall[a] # Flag!Idle
    <1>1. flagCall[a] \in FlagCall
        BY DEF FlagInv, FlagType
    <1> QED BY <1>1, CallStages DEF FlagCall

LEMMA FlagIdle ==
    /\ Flag!Idle \in FlagCall
    /\ \A f : ~Touches(Flag!Idle, f) /\ ~Tells(Flag!Idle, f)
    BY DEF FlagCall, Flag!Idle, Touches, Tells

\* Two rows of one key are one row, said of the rows.
UniqueFlags(rows) ==
    \A f, g \in Flags : (rows[f] \in Flag!Row /\ rows[g] \in Flag!Row /\ rows[f].key = rows[g].key) => f = g

LEMMA FlagsAreUnique == ASSUME FlagInv PROVE UniqueFlags(flag)
    BY FlagExists DEF FlagInv, Flag!OneFlagPerKey, UniqueFlags

\* A request that begins has read the rows and changes nothing.
LEMMA FlagStarts ==
    ASSUME FlagInv, NEW a \in Admins, NEW d \in FlagCall, Flag!Start(a), Flag!Goto(a, d),
           UNCHANGED <<flag, changes, told, untold>>, d.at # "audit",
           \A f \in Flags : flag[f] = Flag!NoFlag => ~Touches(d, f)
    PROVE  FlagInv'
    <1>1. flagCall' = [flagCall EXCEPT ![a] = d]
        BY DEF Flag!Goto
    <1>2. \A f : ~Tells(d, f) /\ ~Tells(flagCall[a], f)
        BY FlagIdle DEF Flag!Start, Tells
    <1>3. /\ flag' = flag /\ changes' = changes /\ untold' = untold /\ told' = told
          /\ flag \in [Flags -> FlagRows] /\ told \in [Flags -> BOOLEAN]
          /\ changes \in 0 .. MaxChanges /\ untold \subseteq Flags
        BY DEF FlagInv, FlagType
    <1>4. \A f \in Flags \ untold' : Agrees(flag', flagCall', told', f)
        BY <1>1, <1>2, <1>3, AgreesStill
    <1> QED BY <1>1, <1>3, <1>4, FlagsAreUnique, FlagMoves DEF UniqueFlags

LEMMA RequestFlagInv ==
    ASSUME FlagInv, NEW a \in Admins, Flag!Request(a)
    PROVE  FlagInv'
    <1>1. ASSUME NEW f \in Flags, NEW key \in FlagKeys, NEW env \in Flag!Envs, Flag!Create(a, f, key, env)
          PROVE  FlagInv'
        <2>1. PICK d \in InsertCall : d = [at |-> "insert", flag |-> f,
                                           row |-> [key |-> key, env |-> env, enabled |-> FALSE]]
            BY DEF InsertCall
        <2>2. d \in FlagCall /\ d.at = "insert"
            BY <2>1 DEF FlagCall
        <2>3. \A g : ~Touches(d, g)
            BY <2>2 DEF Touches
        <2> QED BY <1>1, <2>1, <2>2, <2>3, FlagStarts DEF Flag!Create, Flag!UnchangedLog
    <1>2. ASSUME NEW f \in Flags, NEW u \in FlagUpdates, NEW log \in BOOLEAN, Flag!Read(a, f, u, log),
                 log => "enabled" \in DOMAIN u, ~log => "enabled" \notin DOMAIN u \/ u.enabled = flag[f].enabled
          PROVE  FlagInv'
        <2>1. flag[f] \in Flag!Row /\ flag[f].enabled \in BOOLEAN
            BY <1>2, FlagExists DEF Flag!Read, FlagInv, Flag!Row
        <2>2. PICK d \in WriteCall : d = [at |-> "write", flag |-> f, from |-> flag[f].enabled, updates |-> u, log |-> log]
            BY <1>2, <2>1 DEF WriteCall
        <2>3. d \in FlagCall /\ d.at # "audit"
            BY <2>2 DEF FlagCall
        <2>4. \A g \in Flags : flag[g] = Flag!NoFlag => ~Touches(d, g)
            BY <2>1, <2>2, FlagRowsApart DEF Touches
        <2> QED BY <1>2, <2>2, <2>3, <2>4, FlagStarts DEF Flag!Read, Flag!UnchangedLog
    <1>3. ASSUME NEW f \in Flags, NEW u \in Flag!Updates, Flag!Exists(f), Flag!Patch(a, f, u)
          PROVE  FlagInv'
        <2>1. u \in FlagUpdates
            BY DEF FlagUpdates, Flag!Updates
        <2>2. PICK log \in BOOLEAN : log = ("enabled" \in DOMAIN u /\ u.enabled # flag[f].enabled)
            BY Zenon
        <2>3. Flag!Read(a, f, u, log)
            BY <1>3, <2>2 DEF Flag!Patch
        <2> QED BY <1>2, <2>1, <2>2, <2>3
    <1>4. ASSUME NEW f \in Flags, Flag!Exists(f), Flag!Toggle(a, f)
          PROVE  FlagInv'
        <2>0. PICK on \in BOOLEAN : on = ~flag[f].enabled
            BY Zenon
        <2>1. PICK u \in [enabled : BOOLEAN] : u = [enabled |-> ~flag[f].enabled]
            BY <2>0
        <2>2. u \in FlagUpdates /\ "enabled" \in DOMAIN u
            BY <2>1 DEF FlagUpdates
        <2>3. Flag!Read(a, f, u, TRUE)
            BY <1>4, <2>1 DEF Flag!Toggle
        <2> QED BY <1>2, <2>2, <2>3
    <1>5. ASSUME NEW f \in Flags, Flag!Delete(a, f)
          PROVE  FlagInv'
        <2>1. flag[f] # Flag!NoFlag
            BY <1>5 DEF Flag!Delete, Flag!Exists
        <2>2. PICK d \in DeleteCall : d = [at |-> "delete", flag |-> f]
            BY DEF DeleteCall
        <2>3. d \in FlagCall /\ d.at # "audit"
            BY <2>2 DEF FlagCall
        <2>4. \A g \in Flags : flag[g] = Flag!NoFlag => ~Touches(d, g)
            BY <2>1, <2>2 DEF Touches
        <2> QED BY <1>5, <2>2, <2>3, <2>4, FlagStarts DEF Flag!Delete, Flag!UnchangedLog
    <1>6. ASSUME NEW env \in Flag!Envs, Flag!EmergencyShutdown(a, env)
          PROVE  FlagInv'
        <2>1. PICK d \in OffCall : d = [at |-> "off", env |-> env, flags |-> Flag!Active(env)]
            BY DEF OffCall, Flag!Active
        <2>2. d \in FlagCall /\ d.at # "audit"
            BY <2>1 DEF FlagCall
        <2>3. \A g \in d.flags : flag[g] \in Flag!Row
            BY <2>1, FlagExists DEF Flag!Active, FlagInv
        <2>4. \A g \in Flags : flag[g] = Flag!NoFlag => ~Touches(d, g)
            BY <2>1, <2>3, FlagRowsApart DEF Touches
        <2> QED BY <1>6, <2>1, <2>2, <2>4, FlagStarts DEF Flag!EmergencyShutdown, Flag!UnchangedLog
    <1> QED BY <1>1, <1>3, <1>4, <1>5, <1>6 DEF Flag!Request

-----------------------------------------------------------------------------
LEMMA InsertFlagInv ==
    ASSUME FlagInv, NEW a \in Admins, Flag!Insert(a)
    PROVE  FlagInv'
    <1>1. flagCall[a] \in InsertCall /\ flagCall[a].at = "insert"
        BY FlagInFlight DEF Flag!Insert
    <1>2. PICK f \in Flags : f = flagCall[a].flag
        BY <1>1 DEF InsertCall
    <1>3. PICK r \in Flag!Row : r = flagCall[a].row /\ r.enabled = FALSE
        BY <1>1 DEF InsertCall, Flag!Row
    <1>4. /\ untold' = untold /\ changes' = changes /\ told' = told
          /\ flagCall' = [flagCall EXCEPT ![a] = Flag!Idle]
        BY DEF Flag!Insert, Flag!UnchangedLog, Flag!Goto
    <1>5. \/ flag' = flag
          \/ flag[f] = Flag!NoFlag /\ ~Flag!KeyTaken(r.key) /\ flag' = [flag EXCEPT ![f] = r]
        BY <1>2, <1>3 DEF Flag!Insert
    <1>6. FlagType
        BY DEF FlagInv
    <1>7. UniqueFlags(flag')
        <2>1. CASE flag' = flag
            BY <2>1, FlagsAreUnique
        <2>2. CASE ~Flag!KeyTaken(r.key) /\ flag' = [flag EXCEPT ![f] = r]
            <3>1. \A g \in Flags : flag[g] \in Flag!Row => flag[g].key # r.key
                BY <1>6, <2>2, FlagExists DEF Flag!KeyTaken
            <3> QED BY <1>6, <2>2, <3>1, FlagsAreUnique DEF UniqueFlags, FlagType
        <2> QED BY <1>5, <2>1, <2>2
    <1>8. flag' \in [Flags -> FlagRows] /\ \A g \in Flags : flag'[g] = Flag!NoFlag => flag[g] = Flag!NoFlag
        BY <1>5, <1>6, FlagRowsApart DEF FlagRows, FlagType
    <1>9. ~Tells(flagCall[a], f) /\ \A g : ~Tells(flagCall[a], g)
        BY <1>1 DEF Tells
    <1>10. ASSUME NEW g \in Flags \ untold
           PROVE  Agrees(flag', flagCall', told', g)
        <2>1. CASE flag'[g] = flag[g]
            BY <1>4, <1>9, <2>1, FlagIdle, AgreesStill
        <2>2. CASE flag'[g] # flag[g]
            <3>1. g = f /\ flag[g] = Flag!NoFlag /\ flag'[g] = r
                BY <1>5, <1>6, <2>2 DEF FlagType
            <3>2. ~told[g] /\ \A b \in Admins : ~Tells(flagCall[b], g)
                BY <3>1 DEF FlagInv, Touches, Tells
            <3>3. \A b \in Admins : ~Tells(flagCall'[b], g)
                BY <1>4, <1>6, <3>2, FlagIdle DEF FlagType
            <3>4. told[g] = FALSE
                BY <1>6, <3>2 DEF FlagType
            <3> QED BY <1>3, <1>4, <3>1, <3>3, <3>4 DEF Agrees
        <2> QED BY <2>1, <2>2
    <1> QED BY <1>4, <1>6, <1>7, <1>8, <1>10, FlagMoves, FlagIdle DEF UniqueFlags, FlagType

LEMMA WriteFlagInv ==
    ASSUME FlagInv, NEW a \in Admins, Flag!Write(a)
    PROVE  FlagInv'
    <1>1. flagCall[a] \in WriteCall
        BY FlagInFlight DEF Flag!Write
    <1>2. PICK c \in WriteCall : c = flagCall[a]
        BY <1>1
    <1>3. PICK f \in Flags : f = c.flag
        BY DEF WriteCall
    <1>4. PICK u \in FlagUpdates : u = c.updates
        BY DEF WriteCall
    <1>5. FlagType /\ changes < MaxChanges /\ flag[f] \in Flag!Row
        BY <1>2, <1>3, FlagExists DEF FlagInv, Flag!Write
    <1>6. PICK r \in Flag!Row : r = Flag!Merged(flag[f], u)
        BY <1>5, MergedFlag
    <1>7. /\ r.key = flag[f].key
          /\ "enabled" \in DOMAIN u => u.enabled \in BOOLEAN /\ r.enabled = u.enabled
          /\ "enabled" \notin DOMAIN u => r.enabled = flag[f].enabled
        BY <1>5, <1>6, MergedFlag
    <1>8. flag' = [flag EXCEPT ![f] = r] /\ changes' = changes + 1 /\ told' = told
        BY <1>2, <1>3, <1>4, <1>6 DEF Flag!Write
    <1>9. changes' \in 0 .. MaxChanges
        BY <1>5, <1>8, AdminAssumption DEF Flag!FlagsAssumption, FlagType
    <1>10. \A g \in Flags : flag'[g] = IF g = f THEN r ELSE flag[g]
        BY <1>5, <1>8 DEF FlagType
    <1>11. flag' \in [Flags -> FlagRows] /\ \A g \in Flags : flag'[g] = Flag!NoFlag => flag[g] = Flag!NoFlag /\ g # f
        BY <1>5, <1>8, <1>10, FlagRowsApart DEF FlagRows, FlagType
    <1>12. UniqueFlags(flag')
        BY <1>5, <1>7, <1>10, FlagsAreUnique DEF UniqueFlags
    <1>13. \A g : ~Tells(flagCall[a], g)
        BY <1>2 DEF Tells, WriteCall
    <1>14. CASE c.log
        <2>1. "enabled" \in DOMAIN u /\ u.enabled \in BOOLEAN /\ r.enabled = u.enabled
            BY <1>4, <1>7, <1>14 DEF WriteCall
        <2>2. PICK t \in [{f} -> BOOLEAN] : t = [g \in {f} |-> u.enabled]
            BY <2>1
        <2>3. PICK d \in AuditCall : d = [at |-> "audit", told |-> t]
            BY <2>2 DEF AuditCall
        <2>4. /\ flagCall' = [flagCall EXCEPT ![a] = d]
              /\ untold' = IF Flag!OutOfTurn(a, f) THEN untold \cup {f} ELSE untold \ {f}
            BY <1>2, <1>3, <1>4, <1>14, <2>2, <2>3 DEF Flag!Write, Flag!Goto
        <2>5. d \in FlagCall /\ DOMAIN d.told = {f} /\ d.told[f] = u.enabled /\ d.at = "audit"
            BY <2>2, <2>3 DEF FlagCall
        <2>6. \A g : (Touches(d, g) <=> g = f) /\ (Tells(d, g) <=> g = f)
            BY <2>5 DEF Touches, Tells
        <2>7. ASSUME NEW g \in Flags \ untold'
              PROVE  Agrees(flag', flagCall', told', g)
            <3>1. CASE g = f
                <4>1. ~Flag!OutOfTurn(a, f)
                    BY <2>4, <2>7, <3>1
                <4> QED BY <1>10, <2>1, <2>4, <2>5, <2>6, <3>1, <4>1, AgreesInTurn
            <3>2. CASE g # f
                <4>1. g \in Flags \ untold
                    BY <2>4, <2>7, <3>2
                <4> QED BY <1>8, <1>10, <1>13, <2>4, <2>5, <2>6, <3>2, <4>1, AgreesStill
            <3> QED BY <3>1, <3>2
        <2>8. untold' \subseteq Flags
            BY <1>5, <2>4 DEF FlagType
        <2> QED BY <1>5, <1>8, <1>9, <1>11, <1>12, <2>4, <2>5, <2>6, <2>7, <2>8, FlagMoves
                   DEF UniqueFlags, FlagType
    <1>15. CASE ~c.log
        <2>1. /\ flagCall' = [flagCall EXCEPT ![a] = Flag!Idle]
              /\ untold' = IF Flag!Blind(a, f) THEN untold \cup {f} ELSE untold
            BY <1>2, <1>3, <1>15 DEF Flag!Write, Flag!Goto
        <2>2. ASSUME NEW g \in Flags \ untold'
              PROVE  Agrees(flag', flagCall', told', g)
            <3>1. flag'[g] \in Flag!Row => flag[g] \in Flag!Row /\ flag'[g].enabled = flag[g].enabled
                <4>1. CASE g = f
                    <5>1. ~Flag!Blind(a, f)
                        BY <2>1, <2>2, <4>1
                    <5>2. "enabled" \in DOMAIN u => c.from = flag[f].enabled /\ u.enabled = c.from
                        BY <1>2, <1>4, <1>15, <5>1 DEF Flag!Blind, WriteCall
                    <5> QED BY <1>5, <1>7, <1>10, <4>1, <5>2
                <4> QED BY <1>10, <4>1
            <3> QED BY <1>8, <1>13, <2>1, <2>2, <3>1, FlagIdle, AgreesStill
        <2>3. untold' \subseteq Flags
            BY <1>5, <2>1 DEF FlagType
        <2> QED BY <1>5, <1>8, <1>9, <1>11, <1>12, <2>1, <2>2, <2>3, FlagMoves, FlagIdle
                   DEF UniqueFlags, FlagType
    <1> QED BY <1>14, <1>15

LEMMA UpdateManyFlagInv ==
    ASSUME FlagInv, NEW a \in Admins, Flag!UpdateMany(a)
    PROVE  FlagInv'
    <1>1. flagCall[a] \in OffCall /\ flagCall[a].at = "off"
        BY FlagInFlight DEF Flag!UpdateMany
    <1>2. PICK fs \in SUBSET Flags : fs = flagCall[a].flags
        BY <1>1 DEF OffCall
    <1>3. FlagType
        BY DEF FlagInv
    <1>4. told' = told /\ changes' = changes + 1 /\ changes < MaxChanges
        BY DEF Flag!UpdateMany
    <1>5. changes' \in 0 .. MaxChanges
        BY <1>3, <1>4, AdminAssumption DEF Flag!FlagsAssumption, FlagType
    <1>6. flag' = [f \in Flags |-> IF f \in fs /\ Flag!Exists(f) THEN [flag[f] EXCEPT !.enabled = FALSE] ELSE flag[f]]
        BY <1>2 DEF Flag!UpdateMany
    <1>7. \A f \in Flags :
            /\ flag[f] \in Flag!Row => /\ flag'[f] \in Flag!Row /\ flag'[f].key = flag[f].key
                                       /\ flag'[f].enabled = IF f \in fs THEN FALSE ELSE flag[f].enabled
            /\ flag[f] \notin Flag!Row => flag'[f] = flag[f]
        <2> SUFFICES ASSUME NEW f \in Flags
                     PROVE  /\ flag[f] \in Flag!Row => /\ flag'[f] \in Flag!Row /\ flag'[f].key = flag[f].key
                                                       /\ flag'[f].enabled = IF f \in fs THEN FALSE ELSE flag[f].enabled
                            /\ flag[f] \notin Flag!Row => flag'[f] = flag[f]
            OBVIOUS
        <2>1. flag'[f] = IF f \in fs /\ flag[f] \in Flag!Row THEN [flag[f] EXCEPT !.enabled = FALSE] ELSE flag[f]
            BY <1>3, <1>6, FlagExists
        <2>2. ASSUME NEW r \in Flag!Row
              PROVE  LET q == [r EXCEPT !.enabled = FALSE]
                     IN q \in Flag!Row /\ q.key = r.key /\ q.enabled = FALSE
            BY DEF Flag!Row
        <2> QED BY <2>1, <2>2
    <1>8. UniqueFlags(flag')
        BY <1>7, FlagsAreUnique DEF UniqueFlags
    <1>9. flag' \in [Flags -> FlagRows] /\ \A f \in Flags : flag'[f] = Flag!NoFlag => flag[f] = Flag!NoFlag
        <2>1. \A f \in Flags : flag'[f] \in FlagRows
            BY <1>3, <1>7 DEF FlagRows, FlagType
        <2>2. \A f \in Flags : flag'[f] = Flag!NoFlag => flag[f] = Flag!NoFlag
            BY <1>3, <1>7, FlagRowsApart DEF FlagRows, FlagType
        <2> QED BY <1>6, <2>1, <2>2
    <1>10. PICK t \in [fs -> BOOLEAN] : t = [f \in fs |-> FALSE]
        OBVIOUS
    <1>11. PICK d \in AuditCall : d = [at |-> "audit", told |-> t]
        BY <1>10 DEF AuditCall
    <1>12. /\ flagCall' = [flagCall EXCEPT ![a] = d]
           /\ untold' = (untold \ fs) \cup {f \in fs : Flag!OutOfTurn(a, f)}
        BY <1>2, <1>10, <1>11 DEF Flag!UpdateMany, Flag!Goto
    <1>13. d \in FlagCall /\ d.at = "audit" /\ d.told = t /\ DOMAIN t = fs
        BY <1>10, <1>11 DEF FlagCall
    <1>14. \A f : (Touches(d, f) <=> f \in fs) /\ (Tells(d, f) <=> f \in fs)
        BY <1>13 DEF Touches, Tells
    <1>15. \A f \in Flags : flag[f] = Flag!NoFlag => f \notin fs
        BY <1>1, <1>2 DEF FlagInv, Touches
    <1>16. ASSUME NEW f \in Flags \ untold'
           PROVE  Agrees(flag', flagCall', told', f)
        <2>1. CASE f \in fs
            <3>1. ~Flag!OutOfTurn(a, f)
                <4> DEFINE out == {g \in fs : Flag!OutOfTurn(a, g)}
                <4>1. Flag!OutOfTurn(a, f) => f \in out
                    BY <2>1
                <4>2. untold' = (untold \ fs) \cup out
                    BY <1>12
                <4> HIDE DEF out
                <4> QED BY <1>16, <4>1, <4>2
            <3>2. flag'[f] \in Flag!Row => d.told[f] = flag'[f].enabled
                <4>1. f \in Flags /\ d.told[f] = FALSE
                    BY <1>10, <1>13, <1>16, <2>1
                <4>2. flag'[f] \in Flag!Row => flag'[f].enabled = FALSE
                    BY <1>7, <2>1, <4>1
                <4> QED BY <4>1, <4>2
            <3> QED BY <1>12, <1>13, <1>14, <2>1, <3>1, <3>2, AgreesInTurn
        <2>2. CASE f \notin fs
            <3>1. f \in Flags \ untold /\ ~Tells(flagCall[a], f)
                BY <1>1, <1>12, <1>16, <2>2 DEF Tells
            <3> QED BY <1>4, <1>7, <1>12, <1>13, <1>14, <2>2, <3>1, AgreesStill
        <2> QED BY <2>1, <2>2
    <1>17. untold' \subseteq Flags
        BY <1>3, <1>12 DEF FlagType
    <1> QED BY <1>3, <1>4, <1>5, <1>8, <1>9, <1>12, <1>13, <1>14, <1>15, <1>16, <1>17, FlagMoves
               DEF UniqueFlags, FlagType

LEMMA AuditFlagInv ==
    ASSUME FlagInv, NEW a \in Admins, Flag!Audit(a)
    PROVE  FlagInv'
    <1>1. flagCall[a] \in AuditCall /\ flagCall[a].at = "audit"
        BY FlagInFlight DEF Flag!Audit
    <1>2. PICK t \in UNION {[fs -> BOOLEAN] : fs \in SUBSET Flags} : t = flagCall[a].told
        BY <1>1 DEF AuditCall
    <1>3. DOMAIN t \subseteq Flags /\ \A f \in DOMAIN t : t[f] \in BOOLEAN
        OBVIOUS
    <1>4. FlagType
        BY DEF FlagInv
    <1>5. /\ untold' = untold /\ flag' = flag /\ changes' = changes
          /\ flagCall' = [flagCall EXCEPT ![a] = Flag!Idle]
        BY DEF Flag!Audit, Flag!Goto
    <1>6. told' = [f \in Flags |-> IF f \in DOMAIN t THEN t[f] ELSE told[f]]
        BY <1>2 DEF Flag!Audit
    <1>7. told' \in [Flags -> BOOLEAN]
        BY <1>3, <1>4, <1>6 DEF FlagType
    <1>8. \A f : Tells(flagCall[a], f) <=> f \in DOMAIN t
        BY <1>1, <1>2 DEF Tells
    <1>9. \A f \in Flags : flag[f] = Flag!NoFlag => told'[f] = told[f]
        <2>1. \A f \in Flags : flag[f] = Flag!NoFlag => f \notin DOMAIN t
            BY <1>1, <1>2 DEF FlagInv, Touches
        <2> QED BY <1>6, <2>1
    <1>10. ASSUME NEW f \in Flags \ untold
           PROVE  Agrees(flag', flagCall', told', f)
        <2>1. CASE f \in DOMAIN t
            <3>1. Agrees(flag, flagCall, told, f)
                BY DEF FlagInv
            <3>2. flag[f] \in Flag!Row => told'[f] = flag[f].enabled /\ \A b \in Admins \ {a} : ~Tells(flagCall[b], f)
                BY <1>2, <1>6, <1>8, <2>1, <3>1 DEF Agrees
            <3>3. \A b \in Admins : flagCall'[b] = IF b = a THEN Flag!Idle ELSE flagCall[b]
                BY <1>4, <1>5 DEF FlagType
            <3> QED BY <1>5, <3>2, <3>3, FlagIdle DEF Agrees
        <2>2. CASE f \notin DOMAIN t
            BY <1>5, <1>6, <1>8, <1>10, <2>2, FlagIdle, AgreesStill
        <2> QED BY <2>1, <2>2
    <1> QED BY <1>4, <1>5, <1>7, <1>9, <1>10, FlagsAreUnique, FlagMoves, FlagIdle DEF UniqueFlags, FlagType

\* The entries a request that stops would have written are not told.
LEMMA StopFlagInv ==
    ASSUME FlagInv, NEW a \in Admins, Flag!Stop(a)
    PROVE  FlagInv'
    <1>1. /\ untold' = untold \cup {f \in Flags : Flag!WillTell(a, f)}
          /\ flagCall' = [flagCall EXCEPT ![a] = Flag!Idle]
          /\ flag' = flag /\ changes' = changes /\ told' = told
        BY DEF Flag!Stop, Flag!Goto
    <1>2. FlagType
        BY DEF FlagInv
    <1>3. untold' \subseteq Flags
        BY <1>1, <1>2 DEF FlagType
    <1>4. ASSUME NEW f \in Flags \ untold'
          PROVE  Agrees(flag', flagCall', told', f)
        <2>1. f \in Flags \ untold /\ ~Tells(flagCall[a], f)
            BY <1>1, <1>4 DEF Tells, Flag!WillTell
        <2> QED BY <1>1, <2>1, FlagIdle, AgreesStill
    <1> QED BY <1>1, <1>2, <1>3, <1>4, FlagsAreUnique, FlagMoves, FlagIdle DEF UniqueFlags, FlagType

LEMMA RemoveFlagInv ==
    ASSUME FlagInv, NEW a \in Admins, Flag!Remove(a)
    PROVE  FlagInv'
    <1>1. flagCall[a] \in DeleteCall /\ flagCall[a].at = "delete"
        BY FlagInFlight DEF Flag!Remove
    <1>2. PICK f \in Flags : f = flagCall[a].flag
        BY <1>1 DEF DeleteCall
    <1>3. FlagType
        BY DEF FlagInv
    <1>4. /\ untold' = untold /\ told' = told /\ changes' = changes
          /\ flagCall' = [flagCall EXCEPT ![a] = Flag!Idle]
          /\ flag' = [flag EXCEPT ![f] = Flag!Deleted]
        BY <1>2 DEF Flag!Remove, Flag!UnchangedLog, Flag!Goto
    <1>5. \A g \in Flags : flag'[g] = IF g = f THEN Flag!Deleted ELSE flag[g]
        BY <1>3, <1>4 DEF FlagType
    <1>6. /\ flag' \in [Flags -> FlagRows] /\ UniqueFlags(flag')
          /\ \A g \in Flags : flag'[g] = Flag!NoFlag => flag[g] = Flag!NoFlag
        BY <1>3, <1>4, <1>5, FlagRowsApart, FlagsAreUnique DEF FlagRows, UniqueFlags, FlagType
    <1>7. \A g : ~Tells(flagCall[a], g)
        BY <1>1 DEF Tells
    <1>8. \A g \in Flags \ untold : Agrees(flag', flagCall', told', g)
        BY <1>4, <1>5, <1>7, FlagRowsApart, FlagIdle, AgreesStill
    <1> QED BY <1>3, <1>4, <1>6, <1>8, FlagMoves, FlagIdle DEF UniqueFlags, FlagType

LEMMA InitFlagInv == Flag!Init => FlagInv
    <1> SUFFICES ASSUME Flag!Init PROVE FlagInv
        OBVIOUS
    <1>1. /\ flag = [f \in Flags |-> Flag!NoFlag] /\ flagCall = [a \in Admins |-> Flag!Idle]
          /\ told = [f \in Flags |-> FALSE] /\ changes = 0 /\ untold = {}
        BY DEF Flag!Init
    <1>2. FlagType
        <2>1. flagCall \in [Admins -> FlagCall] /\ flag \in [Flags -> FlagRows]
            BY <1>1, FlagIdle DEF FlagRows
        <2>2. changes \in 0 .. MaxChanges
            BY <1>1, AdminAssumption DEF Flag!FlagsAssumption
        <2> QED BY <1>1, <2>1, <2>2 DEF FlagType
    <1>3. Flag!OneFlagPerKey
        BY <1>1 DEF Flag!OneFlagPerKey, Flag!Exists
    <1>4. \A f \in Flags : flag[f] \notin Flag!Row
        BY <1>1, FlagRowsApart
    <1> QED BY <1>1, <1>2, <1>3, <1>4, FlagIdle DEF FlagInv, Agrees

LEMMA NextFlagInv == FlagInv /\ [Flag!Next]_Flag!vars => FlagInv'
    <1> SUFFICES ASSUME FlagInv, [Flag!Next]_Flag!vars PROVE FlagInv'
        OBVIOUS
    <1>1. CASE UNCHANGED Flag!vars
        BY <1>1 DEF Flag!vars, FlagInv, FlagType, Flag!OneFlagPerKey, Flag!Exists
    <1>2. ASSUME NEW a \in Admins, Flag!Request(a) \/ Flag!Statement(a)
          PROVE  FlagInv'
        BY <1>2, RequestFlagInv, InsertFlagInv, WriteFlagInv, UpdateManyFlagInv, RemoveFlagInv,
           AuditFlagInv, StopFlagInv
           DEF Flag!Statement
    <1> QED BY <1>1, <1>2 DEF Flag!Next

\* However requests race, a key names one flag; and the log tells the state of every
\* flag whose last change was told in its turn, for any flags, keys and requests.
THEOREM FlagsAreTold == Flag!Spec => []FlagsTrue
    <1>1. ASSUME FlagInv PROVE FlagsTrue
        <2>1. Flag!TypeOK
            <3>1. \A a \in Admins : flagCall[a].at \in {"idle", "insert", "write", "audit", "off", "delete"}
                <4>1. \A a \in Admins : flagCall[a] \in FlagCall
                    BY <1>1 DEF FlagInv, FlagType
                <4> QED BY <4>1, CallStages DEF FlagCall
            <3> QED BY <1>1, <3>1 DEF FlagInv, FlagType, FlagRows, Flag!TypeOK
        <2>2. Flag!LogTellsState
            <3> SUFFICES ASSUME NEW f \in Flags \ untold, Flag!Exists(f), \A a \in Admins : ~Flag!WillTell(a, f)
                         PROVE  flag[f].enabled = told[f]
                BY DEF Flag!LogTellsState
            <3>1. \A a \in Admins : ~Tells(flagCall[a], f)
                BY DEF Flag!WillTell, Tells
            <3>2. flag[f] \in Flag!Row
                BY <1>1, FlagExists DEF FlagInv
            <3> QED BY <1>1, <3>1, <3>2 DEF FlagInv, Agrees
        <2> QED BY <1>1, <2>1, <2>2 DEF FlagInv, FlagsTrue
    <1> QED BY <1>1, InitFlagInv, NextFlagInv, PTL DEF Flag!Spec

-----------------------------------------------------------------------------
(***************************************************************************)
(* One user's settings: the row, when there is one, is what the user wants; *)
(* there is none only while nothing was saved, or the user is gone.        *)
(***************************************************************************)
UserCall == {OneUser!Idle} \cup [at : {"create"}, from : {"get", "default"}]
                           \cup [at : {"answer"}, row : OneUser!Setting]

UserInv ==
    /\ exists \in BOOLEAN
    /\ setting \in OneUser!Setting \cup {OneUser!NoRow}
    /\ call \in [Calls -> UserCall]
    /\ saved \in BOOLEAN /\ wanted \in OneUser!Setting /\ had \subseteq OneUser!Setting
    /\ wanted \in had
    /\ setting # OneUser!NoRow => setting = wanted /\ exists
    /\ setting = OneUser!NoRow /\ exists => ~saved
    /\ ~saved => wanted = OneUser!defaultSettings
    /\ \A c \in Calls : call[c].at = "answer" => call[c].row \in had

LEMMA MergedSetting ==
    ASSUME NEW r \in OneUser!Setting, NEW u \in OneUser!Update
    PROVE  OneUser!Merge(r, u) \in OneUser!Setting
    <1>1. PICK fields \in SUBSET OneUser!Fields : u \in [fields -> BOOLEAN]
        BY DEF OneUser!Update
    <1> QED BY <1>1 DEF OneUser!Merge, OneUser!Setting

LEMMA DefaultsMerged ==
    /\ OneUser!defaultSettings \in OneUser!Setting
    /\ OneUser!defaultSettings # OneUser!NoRow
    /\ \A r : OneUser!Merge(r, OneUser!defaultSettings) = OneUser!defaultSettings
    <1> DEFINE d == OneUser!defaultSettings
    <1>1. /\ DOMAIN d = OneUser!Fields
          /\ d["notifications"] = TRUE /\ d["marketingEmails"] = FALSE
          /\ d = [f \in DOMAIN d |-> d[f]]
        BY DEF OneUser!defaultSettings, OneUser!Fields
    <1>2. \A f \in OneUser!Fields : d[f] \in BOOLEAN
        BY <1>1 DEF OneUser!Fields
    <1> HIDE DEF d
    <1>3. d \in OneUser!Setting
        BY <1>1, <1>2 DEF OneUser!Setting
    <1>4. d # OneUser!NoRow
        <2>1. DOMAIN OneUser!NoRow = {} /\ "notifications" \in DOMAIN d
            BY <1>1 DEF OneUser!NoRow, OneUser!Fields
        <2> QED BY <2>1
    <1>5. ASSUME NEW r PROVE OneUser!Merge(r, d) = d
        BY <1>1 DEF OneUser!Merge
    <1> QED BY <1>3, <1>4, <1>5 DEF d

LEMMA SettingIsRow == \A r \in OneUser!Setting : r # OneUser!NoRow
    <1> SUFFICES ASSUME NEW r \in OneUser!Setting PROVE r # OneUser!NoRow
        OBVIOUS
    <1>1. DOMAIN r = OneUser!Fields /\ DOMAIN OneUser!NoRow = {}
        BY DEF OneUser!Setting, OneUser!NoRow
    <1>2. "notifications" \in DOMAIN r
        BY <1>1 DEF OneUser!Fields
    <1> QED BY <1>1, <1>2

LEMMA InitUserInv == OneUser!Init => UserInv
    <1> SUFFICES ASSUME OneUser!Init PROVE UserInv
        OBVIOUS
    <1>1. call \in [Calls -> UserCall] /\ \A c \in Calls : call[c].at # "answer"
        BY DEF OneUser!Init, UserCall, OneUser!Idle
    <1>2. OneUser!NoRow \in OneUser!Setting \cup {OneUser!NoRow}
        OBVIOUS
    <1>3. /\ exists = TRUE /\ setting = OneUser!NoRow /\ saved = FALSE
          /\ wanted = OneUser!defaultSettings /\ had = {OneUser!defaultSettings}
        BY DEF OneUser!Init
    <1> QED BY <1>1, <1>2, <1>3, DefaultsMerged DEF UserInv

\* A request that was acknowledged is what the row says.
LEMMA WriteUserInv ==
    ASSUME UserInv, exists, NEW u \in OneUser!Update, OneUser!Acknowledge(u),
           setting' = OneUser!Merge(IF setting = OneUser!NoRow THEN OneUser!defaultSettings ELSE setting, u),
           UNCHANGED <<exists, call>>
    PROVE  UserInv'
    <1>1. (IF setting = OneUser!NoRow THEN OneUser!defaultSettings ELSE setting) = wanted
        BY DEF UserInv
    <1>2. setting' = wanted' /\ wanted' = OneUser!Merge(wanted, u) /\ saved' = TRUE
        BY <1>1 DEF OneUser!Acknowledge
    <1>3. wanted' \in OneUser!Setting /\ setting' # OneUser!NoRow
        BY <1>2, MergedSetting, SettingIsRow DEF UserInv
    <1>4. had' = had \cup {wanted'}
        BY <1>2 DEF OneUser!Acknowledge
    <1> QED BY <1>2, <1>3, <1>4 DEF UserInv

LEMMA NextUserInv == UserInv /\ [OneUser!Next]_OneUser!vars => UserInv'
    <1> SUFFICES ASSUME UserInv, [OneUser!Next]_OneUser!vars PROVE UserInv'
        OBVIOUS
    <1>1. ASSUME NEW c \in Calls, NEW u \in OneUser!Update, OneUser!Patch(c, u)
          PROVE  UserInv'
        BY <1>1, WriteUserInv DEF OneUser!Patch, OneUser!CanWrite
    <1>2. ASSUME NEW c \in Calls, OneUser!Reset(c)
          PROVE  UserInv'
        <2>1. OneUser!defaultSettings \in OneUser!Update
            BY DefaultsMerged DEF OneUser!Setting, OneUser!Update
        <2> QED BY <1>2, <2>1, DefaultsMerged, WriteUserInv DEF OneUser!Reset, OneUser!CanWrite
    <1>3. ASSUME NEW c \in Calls, OneUser!Get(c) \/ OneUser!Default(c)
          PROVE  UserInv'
        <2>1. UNCHANGED <<exists, setting, saved, wanted, had>>
            BY <1>3 DEF OneUser!Get, OneUser!Default, OneUser!history
        <2>2. \E d \in UserCall : /\ call' = [call EXCEPT ![c] = d]
                                  /\ d.at = "answer" => d.row \in had
            <3>1. CASE OneUser!Default(c) \/ setting = OneUser!NoRow
                BY <1>3, <3>1 DEF OneUser!Get, OneUser!Default, OneUser!Goto, UserCall, OneUser!Idle
            <3>2. CASE OneUser!Get(c) /\ setting # OneUser!NoRow
                <4>1. [at |-> "answer", row |-> setting] \in UserCall
                    BY <3>2 DEF UserInv, UserCall
                <4>2. setting \in had
                    BY <3>2 DEF UserInv
                <4> QED BY <3>2, <4>1, <4>2 DEF OneUser!Get, OneUser!Goto
            <3> QED BY <1>3, <3>1, <3>2
        <2> QED BY <2>1, <2>2 DEF UserInv
    <1>4. ASSUME NEW c \in Calls, OneUser!Create(c)
          PROVE  UserInv'
        <2>1. UNCHANGED <<exists, saved, wanted, had>> /\ setting' = OneUser!defaultSettings /\ exists
            BY <1>4 DEF OneUser!Create, OneUser!history
        <2>2. wanted = OneUser!defaultSettings /\ ~saved
            BY <1>4 DEF UserInv, OneUser!Create
        <2>3. \E d \in UserCall : /\ call' = [call EXCEPT ![c] = d]
                                  /\ d.at = "answer" => d.row \in had
            <3>1. [at |-> "answer", row |-> setting'] \in UserCall /\ setting' \in had
                BY <2>1, <2>2, DefaultsMerged DEF UserCall, UserInv
            <3>2. OneUser!Idle \in UserCall /\ OneUser!Idle.at = "idle"
                BY DEF UserCall, OneUser!Idle
            <3>3. \/ call' = [call EXCEPT ![c] = [at |-> "answer", row |-> setting']]
                  \/ call' = [call EXCEPT ![c] = OneUser!Idle]
                BY <1>4 DEF OneUser!Create, OneUser!Goto
            <3> QED BY <3>1, <3>2, <3>3
        <2> QED BY <2>1, <2>2, <2>3, DefaultsMerged DEF UserInv
    <1>5. ASSUME NEW c \in Calls, OneUser!CreateRefused(c) \/ OneUser!Answer(c)
          PROVE  UserInv'
        <2>1. UNCHANGED <<exists, setting, saved, wanted, had>>
            BY <1>5 DEF OneUser!CreateRefused, OneUser!Answer, OneUser!history
        <2>2. call' = [call EXCEPT ![c] = OneUser!Idle]
            BY <1>5 DEF OneUser!CreateRefused, OneUser!Answer, OneUser!Goto
        <2> QED BY <2>1, <2>2 DEF UserInv, UserCall, OneUser!Idle
    <1>6. CASE OneUser!DeleteUser
        BY <1>6 DEF OneUser!DeleteUser, OneUser!history, UserInv
    <1>7. CASE UNCHANGED OneUser!vars
        BY <1>7 DEF OneUser!vars, UserInv
    <1> QED BY <1>1, <1>2, <1>3, <1>4, <1>5, <1>6, <1>7 DEF OneUser!Next, OneUser!HttpStep

\* However the creation of the defaults, the user's requests and the deletion
\* of the user interleave, the row is what the user has saved.
THEOREM SettingsAreTheUsers == OneUser!Spec => []UserSettingsTrue
    <1>1. UserInv => UserSettingsTrue
        <2> SUFFICES ASSUME UserInv PROVE UserSettingsTrue
            OBVIOUS
        <2>1. OneUser!TypeOK
            BY DEF UserInv, UserCall, OneUser!TypeOK
        <2> QED BY <2>1 DEF UserInv, UserSettingsTrue, OneUser!SavedIsStored,
                   OneUser!AnswersWereTrue, OneUser!NoOrphan
    <1> QED BY <1>1, InitUserInv, NextUserInv, PTL DEF OneUser!Spec
=============================================================================
