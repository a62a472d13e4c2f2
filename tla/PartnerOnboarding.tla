--------------------------- MODULE PartnerOnboarding ---------------------------
(***************************************************************************)
(* How a user becomes a partner (modules/partner, request and profile use   *)
(* cases): requests are submitted, edited, approved in six writes, rejected *)
(* and reset; the commission is changed afterwards.  Meanwhile users sign   *)
(* in and refresh.  Every statement is a step; any of them can fail and end *)
(* the request.                                                            *)
(***************************************************************************)
EXTENDS Integers, FiniteSets, FiniteSetsExt

CONSTANTS
    Users, Calls,
    MaxRequests,    \* bound on the rows of PartnerRequest, in the order of createdAt
    Data            \* contents of a request (its tax code stands for it)

Reqs == 1 .. MaxRequests
Rates == 0 .. 2     \* commission rates; 2 is more than the whole price
OnboardingAssumption == MaxRequests \in Nat

VARIABLES
    reqs,       \* reqs[r]: the row
    partners,   \* partners[u]: the Partner row of user u, with its commission
                \* and the request it was made for
    wallets, staff,   \* users whose partner has a wallet, an OWNER row
    role,       \* role[u]
    sessions,   \* sessions[u]: the scopes of the user's active sessions
    signing,    \* signing[u]: the scopes of sign-ins and refreshes in flight
    calls,
    refused,    \* users whose approval was refused as "already approved"
    disturbed,  \* whether calls overlapped, a statement failed or a request
                \* was reset (history)
    late        \* users who were signing in with the old role when their
                \* sessions were revoked (history)

signIns == <<sessions, signing, late>>
vars == <<reqs, partners, wallets, staff, role, signIns, calls, refused, disturbed>>
rows == <<partners, wallets, staff, role, signIns, refused>>

NoReq == [status |-> "none"]
NoPartner == [data |-> "none", by |-> 0]
Idle == [at |-> "idle"]
Init ==
    /\ reqs = [r \in Reqs |-> NoReq]
    /\ partners = [u \in Users |-> NoPartner]
    /\ wallets = {} /\ staff = {} /\ refused = {} /\ late = {}
    /\ role = [u \in Users |-> "USER"]
    /\ sessions = [u \in Users |-> {}]
    /\ signing = [u \in Users |-> {}]
    /\ calls = [c \in Calls |-> Idle]
    /\ disturbed = FALSE

MayStart(c) ==
    /\ calls[c] = Idle
    /\ disturbed' = (disturbed \/ \E d \in Calls : calls[d] # Idle)
Go(c, call) == calls' = [calls EXCEPT ![c] = call]
Return(c) == Go(c, Idle)

\* findByUserId: the newest request.
RequestsOf(u) == {r \in Reqs : reqs[r] # NoReq /\ reqs[r].user = u}
Latest(u) == Max(RequestsOf(u))
HasPartner(u) == partners[u] # NoPartner
\* getMyRequest.
MyStatus(u) ==
    IF HasPartner(u) THEN "partner" ELSE IF RequestsOf(u) # {} THEN "request" ELSE "none"

-----------------------------------------------------------------------------
(* submit(): no request that is pending, then the row.                     *)
CanSubmit(u) == RequestsOf(u) # {} => reqs[Latest(u)].status # "PENDING"
Submit(c, u, data) ==
    /\ MayStart(c) /\ CanSubmit(u)
    /\ Go(c, [at |-> "create", user |-> u, data |-> data])
    /\ UNCHANGED <<reqs, rows>>
RequestRow(u, data) == [status |-> "PENDING", user |-> u, data |-> data]
Create(c) ==
    /\ calls[c].at = "create"
    /\ LET free == {r \in Reqs : reqs[r] = NoReq} IN
       /\ free # {}
       /\ reqs' = [reqs EXCEPT ![Min(free)] = RequestRow(calls[c].user, calls[c].data)]
    /\ Return(c)
    /\ UNCHANGED rows

(* editSubmit(): the newest request, if it is pending, then its contents.   *)
Editable(r) == reqs[r].status = "PENDING"
Edit(c, u, data) ==
    /\ MayStart(c)
    /\ RequestsOf(u) # {} /\ Editable(Latest(u))
    /\ Go(c, [at |-> "edit", req |-> Latest(u), data |-> data])
    /\ UNCHANGED <<reqs, rows>>
EditWrite(c) ==
    /\ calls[c].at = "edit"
    /\ reqs' = [reqs EXCEPT ![calls[c].req].data = calls[c].data]
    /\ Return(c)
    /\ UNCHANGED rows

(* adminApprove(): the request, the partner row, then the six writes.      *)
Approve(c, r) ==
    /\ MayStart(c)
    /\ reqs[r].status = "PENDING"
    /\ Go(c, [at |-> "partner?", req |-> r, user |-> reqs[r].user, data |-> reqs[r].data])
    /\ UNCHANGED <<reqs, rows>>
To(c, at) == Go(c, [calls[c] EXCEPT !.at = at])
LookForPartner(c) ==
    /\ calls[c].at = "partner?"
    /\ IF HasPartner(calls[c].user)
       THEN Return(c) /\ refused' = refused \cup {calls[c].user}
       ELSE To(c, "partner") /\ UNCHANGED refused
    /\ UNCHANGED <<reqs, partners, wallets, staff, role, signIns>>
\* Partner.userId and Partner.taxCode are unique: a second insertion throws.
Clash(u, data) == HasPartner(u) \/ \E v \in Users : partners[v].data = data
PartnerRow(data, r) == [data |-> data, rate |-> 1, by |-> r]
InsertPartner(c) ==
    /\ calls[c].at = "partner"
    /\ IF Clash(calls[c].user, calls[c].data)
       THEN Return(c) /\ UNCHANGED partners
       ELSE /\ To(c, "wallet")
            /\ partners' = [partners EXCEPT ![calls[c].user] = PartnerRow(calls[c].data, calls[c].req)]
    /\ UNCHANGED <<reqs, wallets, staff, role, signIns, refused>>
InsertWallet(c) ==
    /\ calls[c].at = "wallet"
    /\ wallets' = wallets \cup {calls[c].user} /\ To(c, "staff")
    /\ UNCHANGED <<reqs, partners, staff, role, signIns, refused>>
InsertStaff(c) ==
    /\ calls[c].at = "staff"
    /\ staff' = staff \cup {calls[c].user} /\ To(c, "user")
    /\ UNCHANGED <<reqs, partners, wallets, role, signIns, refused>>
UpdateUser(c) ==
    /\ calls[c].at = "user"
    /\ role' = [role EXCEPT ![calls[c].user] = "PARTNER"] /\ To(c, "sessions")
    /\ UNCHANGED <<reqs, partners, wallets, staff, signIns, refused>>
RevokeSessions(c) ==
    /\ calls[c].at = "sessions"
    /\ sessions' = [sessions EXCEPT ![calls[c].user] = {}] /\ To(c, "APPROVED")
    /\ late' = IF "USER" \in signing[calls[c].user] THEN late \cup {calls[c].user} ELSE late
    /\ UNCHANGED <<reqs, partners, wallets, staff, role, signing, refused>>

(* updateStatus(), at the end of adminApprove, adminReject and adminReset.  *)
Rejectable(r) == reqs[r].status = "PENDING"
Reject(c, r) ==
    /\ MayStart(c)
    /\ Rejectable(r)
    /\ Go(c, [at |-> "REJECTED", req |-> r])
    /\ UNCHANGED <<reqs, rows>>
Reset(c, r) ==
    /\ calls[c] = Idle /\ disturbed' = TRUE
    /\ reqs[r].status \notin {"none", "PENDING"}
    /\ Go(c, [at |-> "PENDING", req |-> r])
    /\ UNCHANGED <<reqs, rows>>
UpdateStatus(c) ==
    /\ calls[c].at \in {"APPROVED", "REJECTED", "PENDING"}
    /\ reqs' = [reqs EXCEPT ![calls[c].req].status = calls[c].at]
    /\ Return(c)
    /\ UNCHANGED rows

\* A statement fails, or the process stops: the call ends where it stands.
\* A wallet that cannot be written is left out.
GoOn(c) == IF calls[c].at = "wallet" THEN [calls[c] EXCEPT !.at = "staff"] ELSE Idle
AfterFailure(c) == Idle
Fail(c) ==
    /\ calls[c] # Idle
    /\ Go(c, AfterFailure(c)) /\ disturbed' = TRUE
    /\ UNCHANGED <<reqs, rows>>

-----------------------------------------------------------------------------
(* updateCommissionRate(): the row, then the rate.  updateProfile() writes   *)
(* none of the columns modelled here.                                      *)
InRange(n) == 0 <= n /\ n <= 1
Commission(c, u, n) ==
    /\ MayStart(c) /\ HasPartner(u)
    /\ InRange(n)
    /\ Go(c, [at |-> "commission", user |-> u, rate |-> n])
    /\ UNCHANGED <<reqs, rows>>
CommissionWrite(c) ==
    /\ calls[c].at = "commission"
    /\ partners' = [partners EXCEPT ![calls[c].user].rate = calls[c].rate]
    /\ Return(c)
    /\ UNCHANGED <<reqs, wallets, staff, role, signIns, refused>>

-----------------------------------------------------------------------------
(* The user signs in: the role is read, then a session of it is created. A  *)
(* refresh signs the scope of the token it was given once more, deletes the *)
(* session (there may be others of that scope) and creates the next one.    *)
(* Bound: of one scope a user has one in flight.                           *)
UnchangedCalls == UNCHANGED <<reqs, partners, wallets, staff, role, late, calls, refused, disturbed>>
Signs(u, scope) == scope \notin signing[u] /\ signing' = [signing EXCEPT ![u] = @ \cup {scope}]
Login(u) == Signs(u, role[u]) /\ UNCHANGED sessions /\ UnchangedCalls
Refresh(u, scope) ==
    /\ scope \in sessions[u]
    /\ Signs(u, scope)
    /\ sessions' \in {sessions, [sessions EXCEPT ![u] = @ \ {scope}]}
    /\ UnchangedCalls
Signed(u, scope) == scope \in signing[u] /\ signing' = [signing EXCEPT ![u] = @ \ {scope}]
CreateSession(u, scope) ==
    /\ Signed(u, scope)
    /\ sessions' = [sessions EXCEPT ![u] = @ \cup {scope}]
    /\ UnchangedCalls
SignInFails(u, scope) == Signed(u, scope) /\ UNCHANGED sessions /\ UnchangedCalls
SignIn(u) ==
    \/ Login(u)
    \/ \E scope \in {"USER", "PARTNER"} :
          Refresh(u, scope) \/ CreateSession(u, scope) \/ SignInFails(u, scope)

UserStep(c, u) ==
    \E data \in Data : Submit(c, u, data) \/ Edit(c, u, data)
AdminStep(c, r) == Approve(c, r) \/ Reject(c, r) \/ Reset(c, r)
CallStep(c) ==
    \/ /\ \/ Create(c) \/ EditWrite(c) \/ LookForPartner(c) \/ InsertPartner(c) \/ InsertWallet(c)
          \/ InsertStaff(c) \/ UpdateUser(c) \/ RevokeSessions(c) \/ UpdateStatus(c)
          \/ CommissionWrite(c)
       /\ UNCHANGED disturbed
    \/ Fail(c)
Next ==
    \/ \E c \in Calls :
          \/ CallStep(c)
          \/ \E u \in Users : UserStep(c, u) \/ \E n \in Rates : Commission(c, u, n)
          \/ \E r \in Reqs : AdminStep(c, r)
    \/ \E u \in Users : SignIn(u)

Spec == Init /\ [][Next]_vars

-----------------------------------------------------------------------------
TypeOK ==
    /\ \A r \in Reqs :
          /\ reqs[r].status \in {"none", "PENDING", "APPROVED", "REJECTED"}
          /\ reqs[r] # NoReq => reqs[r].user \in Users /\ reqs[r].data \in Data
    /\ \A u \in Users : HasPartner(u) => partners[u].rate \in {0, 1}
    /\ \A S \in {wallets, staff, refused, late} : S \subseteq Users
    /\ role \in [Users -> {"USER", "PARTNER"}]
    /\ \A u \in Users : sessions[u] \cup signing[u] \subseteq {"USER", "PARTNER"}

(* Whatever fails and whoever approves at the same time: a request that is   *)
(* approved has its partner with wallet and owner, and the user's role.     *)
ApprovedIsComplete ==
    \A r \in Reqs : reqs[r].status = "APPROVED" =>
        LET u == reqs[r].user
        IN  /\ MyStatus(u) = "partner" /\ u \in wallets /\ u \in staff
            /\ role[u] = "PARTNER"

(* However often the user signs in and refreshes while the request is being  *)
(* approved, no session of the old role is left once it is, unless a sign-in *)
(* was under way as the sessions were revoked.                             *)
SessionsAreFresh ==
    \A r \in Reqs :
        reqs[r].status = "APPROVED" /\ "USER" \in sessions[reqs[r].user] => reqs[r].user \in late

(* "You already have a pending request": a user has one at most (here and    *)
(* below, as long as nothing disturbs the calls).                           *)
OnePending ==
    ~disturbed => \A r, q \in Reqs :
        (reqs[r].status = "PENDING" /\ reqs[q].status = "PENDING" /\ reqs[r].user = reqs[q].user)
            => r = q

(* "Only pending requests can be rejected": the user of a request that ends  *)
(* as rejected has not been made a partner by it.                           *)
RejectedHasNoPartner ==
    ~disturbed => \A r \in Reqs : reqs[r].status = "REJECTED" => partners[reqs[r].user].by # r

(* "Cannot edit a non-pending request": an approved request says what the    *)
(* administrator approved, which is what the partner row says.              *)
ApprovedAsReviewed ==
    ~disturbed => \A r \in Reqs : reqs[r].status = "APPROVED" => partners[reqs[r].user].data = reqs[r].data

(* "User already has an approved partner profile": an approval is refused    *)
(* with these words only if one was completed.                              *)
RefusedHasProfile ==
    ~disturbed => \A u \in refused : role[u] = "PARTNER"
=============================================================================
