-------------------------- MODULE PartnersProofs --------------------------
(***************************************************************************)
(* Proofs about what a partner does: the way to become one, its movies,    *)
(* showtimes, rooms and services, and the box office.                      *)
(***************************************************************************)
EXTENDS Partners, BookingProofs, Sequences

LEMMA GreatestNatural ==
    ASSUME NEW n \in Nat, NEW S \in SUBSET (0 .. n), S # {}
    PROVE  \E x \in S : \A y \in S : x >= y
    <1> DEFINE T == {n - x : x \in S}
    <1>1. T \in SUBSET Nat /\ T # {}
        <2>1. \A x \in S : x \in 0 .. n /\ n - x \in Nat
            OBVIOUS
        <2> QED BY <2>1
    <1>2. PICK t \in T : \A y \in T : t <= y
        BY <1>1, LeastNatural
    <1>3. PICK x \in S : t = n - x
        BY <1>2
    <1>4. \A y \in S : n - x <= n - y
        BY <1>2, <1>3
    <1>5. \A y \in S : x >= y
        BY <1>4
    <1> QED BY <1>5

-----------------------------------------------------------------------------
(***************************************************************************)
(* Becoming a partner.                                                     *)
(***************************************************************************)
RequestRow == [status : {"PENDING", "APPROVED", "REJECTED"}, user : Users, data : Data]
ProfileRow == [data : Data, rate : {0, 1}, by : Partner!Reqs]
Created == {"wallet", "staff", "user", "sessions", "APPROVED"}
Approving == {"partner?", "partner"} \cup Created
OnboardingCall ==
    {Partner!Idle}
        \cup [at : {"create"}, user : Users, data : Data]
        \cup [at : {"edit"}, req : Partner!Reqs, data : Data]
        \cup [at : Approving, req : Partner!Reqs, user : Users, data : Data]
        \cup [at : {"REJECTED", "PENDING"}, req : Partner!Reqs]
        \cup [at : {"commission"}, user : Users, rate : {0, 1}]
OnboardingType ==
    /\ reqs \in [Partner!Reqs -> {Partner!NoReq} \cup RequestRow]
    /\ partners \in [Users -> {Partner!NoPartner} \cup ProfileRow]
    /\ wallets \subseteq Users /\ staff \subseteq Users /\ refused \subseteq Users /\ late \subseteq Users
    /\ role \in [Users -> {"USER", "PARTNER"}]
    /\ sessions \in [Users -> SUBSET {"USER", "PARTNER"}]
    /\ signing \in [Users -> SUBSET {"USER", "PARTNER"}]
    /\ calls \in [Callers -> OnboardingCall]
    /\ disturbed \in BOOLEAN

\* No session of the old role is there or will be, but of a sign-in that was late.
Fresh(u) == u \in late \/ "USER" \notin sessions[u] \cup signing[u]
\* What a call relies on, once it is under way, and no other call takes away.
Relies(k) ==
    /\ k.at \in {"edit", "REJECTED", "PENDING"} \cup Approving => reqs[k.req] # Partner!NoReq
    /\ k.at \in Approving => reqs[k.req].user = k.user
    /\ k.at \in {"commission"} \cup Created => Partner!HasPartner(k.user)
    /\ k.at \in {"staff", "user", "sessions", "APPROVED"} => k.user \in wallets
    /\ k.at \in {"user", "sessions", "APPROVED"} => k.user \in staff
    /\ k.at \in {"sessions", "APPROVED"} => role[k.user] = "PARTNER"
    /\ k.at = "APPROVED" => Fresh(k.user)
Complete(u) ==
    /\ Partner!HasPartner(u) /\ u \in wallets /\ u \in staff
    /\ role[u] = "PARTNER" /\ Fresh(u)

OnboardingInv ==
    /\ OnboardingType
    /\ \A c \in Callers : Relies(calls[c])
    /\ \A r \in Partner!Reqs : reqs[r].status = "APPROVED" => Complete(reqs[r].user)
    /\ \A r, q \in Partner!Reqs : (reqs[r] # Partner!NoReq /\ q < r) => reqs[q] # Partner!NoReq

\* Rows are added and never taken back.
Grows ==
    /\ \A r \in Partner!Reqs : reqs[r] # Partner!NoReq =>
          reqs'[r] # Partner!NoReq /\ reqs'[r].user = reqs[r].user
    /\ \A u \in Users : Partner!HasPartner(u) => partners'[u] # Partner!NoPartner
    /\ wallets \subseteq wallets' /\ staff \subseteq staff'
    /\ \A u \in Users : role[u] = "PARTNER" => role'[u] = "PARTNER"
    /\ \A u \in Users : (role[u] = "PARTNER" /\ Fresh(u)) => Fresh(u)'

LEMMA KindsOfCalls ==
    ASSUME NEW k \in OnboardingCall
    PROVE  /\ k.at \in {"edit", "REJECTED", "PENDING"} \cup Approving => k.req \in Partner!Reqs
           /\ k.at \in {"create", "commission"} \cup Approving => k.user \in Users
           /\ k.at \in {"create", "edit"} \cup Approving => k.data \in Data
           /\ k.at = "commission" => k.rate \in {0, 1}
           /\ k.at \in Approving =>
                k \in [at : Approving, req : Partner!Reqs, user : Users, data : Data]
           /\ k = Partner!Idle <=> k.at = "idle"
           /\ k.at \in {"idle", "create", "edit", "REJECTED", "PENDING", "commission"}
                          \cup Approving
    BY DEF OnboardingCall, Approving, Created, Partner!Idle

LEMMA StillRelied ==
    ASSUME OnboardingType, Grows, NEW k \in OnboardingCall, Relies(k)
    PROVE  Relies(k)'
    BY KindsOfCalls DEF Relies, Grows, Approving, Created, Partner!HasPartner, OnboardingType

LEMMA StillComplete ==
    ASSUME Grows, NEW u \in Users, Complete(u)
    PROVE  Complete(u)'
    BY DEF Complete, Grows, Partner!HasPartner

\* One call moves on to k, the rows grow, and no request is newly approved.
LEMMA OnboardingMoves ==
    ASSUME OnboardingInv, OnboardingType', Grows,
           NEW c \in Callers, NEW k \in OnboardingCall,
           calls' = [calls EXCEPT ![c] = k], Relies(k)',
           \A r \in Partner!Reqs : reqs'[r].status = "APPROVED" =>
              reqs[r].status = "APPROVED" \/ Complete(reqs[r].user)',
           \A r, q \in Partner!Reqs :
              (reqs'[r] # Partner!NoReq /\ q < r) => reqs'[q] # Partner!NoReq
    PROVE  OnboardingInv'
    <1>1. ASSUME NEW d \in Callers
          PROVE  Relies(calls[d])'
        <2>1. calls[d] \in OnboardingCall /\ Relies(calls[d])
            BY DEF OnboardingInv, OnboardingType
        <2>2. CASE d = c
            <3>1. calls'[d] = k
                BY <2>2 DEF OnboardingInv, OnboardingType
            <3> QED BY <3>1
        <2>3. CASE d # c
            <3>1. calls'[d] = calls[d]
                BY <2>3 DEF OnboardingInv, OnboardingType
            <3>2. ASSUME NEW l \in OnboardingCall, Relies(l) PROVE Relies(l)'
                BY <3>2, StillRelied DEF OnboardingInv
            <3>3. PICK l \in OnboardingCall : l = calls[d]
                BY <2>1
            <3>4. Relies(l)'
                BY <2>1, <3>2, <3>3
            <3> QED BY <3>1, <3>3, <3>4
        <2> QED BY <2>2, <2>3
    <1>2. ASSUME NEW r \in Partner!Reqs, reqs'[r].status = "APPROVED"
          PROVE  Complete(reqs[r].user)'
        <2>1. CASE reqs[r].status = "APPROVED"
            <3>1. reqs[r] # Partner!NoReq /\ reqs[r].user \in Users /\ Complete(reqs[r].user)
                BY <2>1 DEF OnboardingInv, OnboardingType, RequestRow, Partner!NoReq
            <3>2. PICK u \in Users : u = reqs[r].user /\ Complete(u)
                BY <3>1
            <3>3. Complete(u)'
                BY <3>2, StillComplete
            <3>4. reqs'[r].user = u
                BY <3>1, <3>2 DEF Grows
            <3> QED BY <3>3, <3>4
        <2>2. CASE reqs[r].status # "APPROVED"
            BY <1>2, <2>2
        <2> QED BY <2>1, <2>2
    <1> QED BY <1>1, <1>2 DEF OnboardingInv, Partner!HasPartner

LEMMA OnboardingQuiet ==
    ASSUME OnboardingInv, UNCHANGED <<reqs, partners, wallets, staff, role, sessions, signing, late>>,
           refused' \subseteq Users, disturbed' \in BOOLEAN,
           NEW c \in Callers, NEW k \in OnboardingCall, Relies(k),
           calls' = [calls EXCEPT ![c] = k]
    PROVE  OnboardingInv'
    <1>1. OnboardingType'
        BY DEF OnboardingInv, OnboardingType
    <1>2. Grows
        BY DEF Grows, Partner!HasPartner, Fresh
    <1>3. Relies(k)'
        BY DEF Relies, Partner!HasPartner, Fresh
    <1>5. \A r, q \in Partner!Reqs :
              (reqs'[r] # Partner!NoReq /\ q < r) => reqs'[q] # Partner!NoReq
        BY DEF OnboardingInv
    <1> QED BY <1>1, <1>2, <1>3, <1>5, OnboardingMoves

LEMMA LatestIs ==
    ASSUME OnboardingType, NEW u \in Users, Partner!RequestsOf(u) # {}
    PROVE  /\ Partner!Latest(u) \in Partner!Reqs
           /\ reqs[Partner!Latest(u)] # Partner!NoReq /\ reqs[Partner!Latest(u)].user = u
           /\ \A q \in Partner!Reqs :
                 reqs[q] # Partner!NoReq /\ reqs[q].user = u => q <= Partner!Latest(u)
    <1>1. MaxApplications \in Nat
        BY PartnersAssumption DEF Partner!OnboardingAssumption
    <1>2. Partner!RequestsOf(u) \in SUBSET (0 .. MaxApplications)
        BY <1>1 DEF Partner!RequestsOf, Partner!Reqs
    <1>3. \E x \in Partner!RequestsOf(u) : \A y \in Partner!RequestsOf(u) : x >= y
        BY <1>1, <1>2, GreatestNatural
    <1>4. /\ Partner!Latest(u) \in Partner!RequestsOf(u)
          /\ \A y \in Partner!RequestsOf(u) : Partner!Latest(u) >= y
        BY <1>3 DEF Partner!Latest, Partner!Max
    <1> QED BY <1>1, <1>4 DEF Partner!RequestsOf, Partner!Reqs

\* The rows that are free, and the first of them.
FreeRequests == {r \in Partner!Reqs : reqs[r] = Partner!NoReq}
LEMMA FirstFreeIs ==
    ASSUME FreeRequests # {}
    PROVE  /\ Partner!Min(FreeRequests) \in Partner!Reqs
           /\ reqs[Partner!Min(FreeRequests)] = Partner!NoReq
           /\ \A q \in Partner!Reqs : q < Partner!Min(FreeRequests) => reqs[q] # Partner!NoReq
    <1>1. MaxApplications \in Nat
        BY PartnersAssumption DEF Partner!OnboardingAssumption
    <1>2. FreeRequests \in SUBSET Nat
        BY <1>1 DEF FreeRequests, Partner!Reqs
    <1>3. \E x \in FreeRequests : \A y \in FreeRequests : x <= y
        BY <1>2, LeastNatural
    <1>4. /\ Partner!Min(FreeRequests) \in FreeRequests
          /\ \A y \in FreeRequests : Partner!Min(FreeRequests) <= y
        BY <1>3 DEF Partner!Min
    <1>5. ASSUME NEW q \in Partner!Reqs, q < Partner!Min(FreeRequests)
          PROVE  reqs[q] # Partner!NoReq
        <2>1. PICK m \in Nat : m = Partner!Min(FreeRequests)
            BY <1>2, <1>4, Zenon
        <2>2. q \in Nat /\ q < m /\ \A y \in FreeRequests : m <= y
            BY <1>1, <1>4, <1>5, <2>1 DEF Partner!Reqs
        <2>3. q \notin FreeRequests
            BY <2>2
        <2> QED BY <2>3 DEF FreeRequests
    <1> QED BY <1>4, <1>5 DEF FreeRequests

LEMMA UserStepInv ==
    ASSUME OnboardingInv, NEW c \in Callers, NEW u \in Users, Partner!UserStep(c, u)
    PROVE  OnboardingInv'
    <1> USE DEF Partner!MayStart, Partner!Go, Partner!rows, Partner!signIns
    <1>0. calls[c] = Partner!Idle /\ disturbed \in BOOLEAN /\ refused \subseteq Users
        BY DEF Partner!UserStep, Partner!Submit, Partner!Edit, OnboardingInv, OnboardingType
    <1>1. ASSUME NEW d \in Data, Partner!Submit(c, u, d)
          PROVE  OnboardingInv'
        <2> DEFINE k == [at |-> "create", user |-> u, data |-> d]
        <2>1. k \in OnboardingCall /\ Relies(k)
            BY DEF OnboardingCall, Relies, Approving, Created
        <2>2. calls' = [calls EXCEPT ![c] = k]
              /\ UNCHANGED <<reqs, partners, wallets, staff, role, sessions, signing, late, refused>>
              /\ disturbed' \in BOOLEAN
            BY <1>0, <1>1 DEF Partner!Submit
        <2> HIDE DEF k
        <2> QED BY <1>0, <2>1, <2>2, OnboardingQuiet
    <1>2. ASSUME NEW d \in Data, Partner!Edit(c, u, d)
          PROVE  OnboardingInv'
        <2> DEFINE k == [at |-> "edit", req |-> Partner!Latest(u), data |-> d]
        <2>1. Partner!Latest(u) \in Partner!Reqs /\ reqs[Partner!Latest(u)] # Partner!NoReq
            BY <1>2, LatestIs DEF Partner!Edit, OnboardingInv
        <2>2. k \in OnboardingCall /\ Relies(k)
            BY <2>1 DEF OnboardingCall, Relies, Approving, Created
        <2>3. calls' = [calls EXCEPT ![c] = k]
              /\ UNCHANGED <<reqs, partners, wallets, staff, role, sessions, signing, late, refused>>
              /\ disturbed' \in BOOLEAN
            BY <1>0, <1>2 DEF Partner!Edit
        <2> HIDE DEF k
        <2> QED BY <1>0, <2>2, <2>3, OnboardingQuiet
    <1> QED BY <1>1, <1>2 DEF Partner!UserStep

LEMMA CommissionInv ==
    ASSUME OnboardingInv, NEW c \in Callers, NEW u \in Users, NEW n \in Partner!Rates,
           Partner!Commission(c, u, n)
    PROVE  OnboardingInv'
    <1> DEFINE k == [at |-> "commission", user |-> u, rate |-> n]
    <1>1. Partner!HasPartner(u) /\ n \in {0, 1}
        BY DEF Partner!Commission, Partner!InRange, Partner!Rates
    <1>2. k \in OnboardingCall /\ Relies(k)
        BY <1>1 DEF OnboardingCall, Relies, Approving, Created
    <1>3. /\ calls' = [calls EXCEPT ![c] = k]
          /\ UNCHANGED <<reqs, partners, wallets, staff, role, sessions, signing, late, refused>>
          /\ disturbed' \in BOOLEAN /\ refused \subseteq Users
        BY DEF Partner!Commission, Partner!MayStart, Partner!Go, Partner!rows, Partner!signIns, OnboardingInv, OnboardingType
    <1> HIDE DEF k
    <1> QED BY <1>2, <1>3, OnboardingQuiet

LEMMA AdminStepInv ==
    ASSUME OnboardingInv, NEW c \in Callers, NEW r \in Partner!Reqs, Partner!AdminStep(c, r)
    PROVE  OnboardingInv'
    <1>0. /\ disturbed \in BOOLEAN /\ refused \subseteq Users
          /\ reqs[r] = Partner!NoReq \/ reqs[r] \in RequestRow
        BY DEF OnboardingInv, OnboardingType
    <1> USE DEF Partner!MayStart, Partner!Go, Partner!rows, Partner!signIns
    <1>1. CASE Partner!Approve(c, r)
        <2> DEFINE k == [at |-> "partner?", req |-> r, user |-> reqs[r].user, data |-> reqs[r].data]
        <2>1. reqs[r] # Partner!NoReq /\ reqs[r].user \in Users /\ reqs[r].data \in Data
            BY <1>0, <1>1 DEF Partner!Approve, Partner!NoReq, RequestRow
        <2>2. k \in OnboardingCall /\ Relies(k)
            BY <2>1 DEF OnboardingCall, Relies, Approving, Created
        <2>3. calls' = [calls EXCEPT ![c] = k]
              /\ UNCHANGED <<reqs, partners, wallets, staff, role, sessions, signing, late, refused>>
              /\ disturbed' \in BOOLEAN
            BY <1>0, <1>1 DEF Partner!Approve
        <2> HIDE DEF k
        <2> QED BY <1>0, <2>2, <2>3, OnboardingQuiet
    <1>2. CASE Partner!Reject(c, r)
        <2> DEFINE k == [at |-> "REJECTED", req |-> r]
        <2>1. reqs[r] # Partner!NoReq
            BY <1>0, <1>2 DEF Partner!Reject, Partner!Rejectable, Partner!NoReq
        <2>2. k \in OnboardingCall /\ Relies(k)
            BY <2>1 DEF OnboardingCall, Relies, Approving, Created
        <2>3. calls' = [calls EXCEPT ![c] = k]
              /\ UNCHANGED <<reqs, partners, wallets, staff, role, sessions, signing, late, refused>>
              /\ disturbed' \in BOOLEAN
            BY <1>0, <1>2 DEF Partner!Reject
        <2> HIDE DEF k
        <2> QED BY <1>0, <2>2, <2>3, OnboardingQuiet
    <1>3. CASE Partner!Reset(c, r)
        <2> DEFINE k == [at |-> "PENDING", req |-> r]
        <2>1. reqs[r] # Partner!NoReq
            BY <1>0, <1>3 DEF Partner!Reset, Partner!NoReq
        <2>2. k \in OnboardingCall /\ Relies(k)
            BY <2>1 DEF OnboardingCall, Relies, Approving, Created
        <2>3. calls' = [calls EXCEPT ![c] = k]
              /\ UNCHANGED <<reqs, partners, wallets, staff, role, sessions, signing, late, refused>>
              /\ disturbed' \in BOOLEAN
            BY <1>0, <1>3 DEF Partner!Reset
        <2> HIDE DEF k
        <2> QED BY <1>0, <2>2, <2>3, OnboardingQuiet
    <1> QED BY <1>1, <1>2, <1>3 DEF Partner!AdminStep

LEMMA RequestWritten ==
    ASSUME OnboardingInv, NEW c \in Callers, Partner!Create(c), UNCHANGED disturbed
    PROVE  OnboardingInv'
    <1> DEFINE i == Partner!Min(FreeRequests)
               row == [status |-> "PENDING", user |-> calls[c].user, data |-> calls[c].data]
    <1>1. calls[c].user \in Users /\ calls[c].data \in Data
        BY KindsOfCalls DEF Partner!Create, OnboardingInv, OnboardingType
    <1>2. i \in Partner!Reqs /\ reqs[i] = Partner!NoReq
          /\ \A q \in Partner!Reqs : q < i => reqs[q] # Partner!NoReq
        BY FirstFreeIs DEF Partner!Create, FreeRequests
    <1>3. /\ reqs' = [reqs EXCEPT ![i] = row]
          /\ calls' = [calls EXCEPT ![c] = Partner!Idle]
          /\ UNCHANGED <<partners, wallets, staff, role, sessions, signing, late, refused>>
        BY DEF Partner!Create, FreeRequests, Partner!RequestRow, Partner!Return, Partner!Go, Partner!rows, Partner!signIns
    <1>4. row \in RequestRow /\ row # Partner!NoReq /\ row.status # "APPROVED"
        BY <1>1 DEF RequestRow, Partner!NoReq
    <1>5. Partner!Idle \in OnboardingCall /\ Relies(Partner!Idle)'
        BY DEF OnboardingCall, Relies, Approving, Created, Partner!Idle
    <1> HIDE DEF i, row
    <1>6. OnboardingType'
        BY <1>2, <1>3, <1>4, <1>5 DEF OnboardingInv, OnboardingType
    <1>7. \A r \in Partner!Reqs : reqs'[r] = IF r = i THEN row ELSE reqs[r]
        BY <1>2, <1>3 DEF OnboardingInv, OnboardingType
    <1>8. Grows
        BY <1>2, <1>3, <1>7 DEF Grows, Partner!HasPartner, Fresh
    <1>9. \A r, q \in Partner!Reqs :
              (reqs'[r] # Partner!NoReq /\ q < r) => reqs'[q] # Partner!NoReq
        BY <1>2, <1>4, <1>7 DEF OnboardingInv
    <1>10. \A r \in Partner!Reqs : reqs'[r].status = "APPROVED" => reqs[r].status = "APPROVED"
        BY <1>4, <1>7
    <1> QED BY <1>3, <1>5, <1>6, <1>8, <1>9, <1>10, OnboardingMoves

LEMMA EditWritten ==
    ASSUME OnboardingInv, NEW c \in Callers, Partner!EditWrite(c), UNCHANGED disturbed
    PROVE  OnboardingInv'
    <1> DEFINE i == calls[c].req
    <1>1. i \in Partner!Reqs /\ calls[c].data \in Data /\ reqs[i] # Partner!NoReq /\ reqs[i] \in RequestRow
        BY KindsOfCalls DEF Partner!EditWrite, OnboardingInv, OnboardingType, Relies
    <1>2. /\ reqs' = [reqs EXCEPT ![i] = [@ EXCEPT !.data = calls[c].data]]
          /\ calls' = [calls EXCEPT ![c] = Partner!Idle]
          /\ UNCHANGED <<partners, wallets, staff, role, sessions, signing, late, refused>>
        BY DEF Partner!EditWrite, Partner!Return, Partner!Go, Partner!rows, Partner!signIns
    <1>3. [reqs[i] EXCEPT !.data = calls[c].data] =
              [status |-> reqs[i].status, user |-> reqs[i].user, data |-> calls[c].data]
        BY <1>1 DEF RequestRow
    <1>4. [reqs[i] EXCEPT !.data = calls[c].data] \in RequestRow
        BY <1>1, <1>3 DEF RequestRow
    <1>5. Partner!Idle \in OnboardingCall /\ Relies(Partner!Idle)'
        BY DEF OnboardingCall, Relies, Approving, Created, Partner!Idle
    <1> HIDE DEF i
    <1>6. OnboardingType'
        BY <1>1, <1>2, <1>4, <1>5 DEF OnboardingInv, OnboardingType
    <1>7. \A r \in Partner!Reqs :
              /\ r # i => reqs'[r] = reqs[r]
              /\ r = i => reqs'[r].status = reqs[i].status /\ reqs'[r].user = reqs[i].user
                            /\ reqs'[r] # Partner!NoReq
        BY <1>1, <1>2, <1>3 DEF OnboardingInv, OnboardingType, Partner!NoReq
    <1>8. Grows
        BY <1>2, <1>7 DEF Grows, Partner!HasPartner, Fresh
    <1>9. \A r, q \in Partner!Reqs :
              (reqs'[r] # Partner!NoReq /\ q < r) => reqs'[q] # Partner!NoReq
        BY <1>1, <1>7 DEF OnboardingInv
    <1>10. \A r \in Partner!Reqs : reqs'[r].status = "APPROVED" => reqs[r].status = "APPROVED"
        BY <1>7
    <1> QED BY <1>2, <1>5, <1>6, <1>8, <1>9, <1>10, OnboardingMoves

LEMMA StatusWritten ==
    ASSUME OnboardingInv, NEW c \in Callers, Partner!UpdateStatus(c), UNCHANGED disturbed
    PROVE  OnboardingInv'
    <1> DEFINE i == calls[c].req
               at == calls[c].at
    <1>1. /\ at \in {"APPROVED", "REJECTED", "PENDING"}
          /\ i \in Partner!Reqs /\ reqs[i] # Partner!NoReq /\ reqs[i] \in RequestRow
          /\ at = "APPROVED" => calls[c].user = reqs[i].user /\ Complete(calls[c].user)
        BY KindsOfCalls DEF Partner!UpdateStatus, OnboardingInv, OnboardingType, Relies, Approving, Created, Complete
    <1>2. /\ reqs' = [reqs EXCEPT ![i] = [@ EXCEPT !.status = at]]
          /\ calls' = [calls EXCEPT ![c] = Partner!Idle]
          /\ UNCHANGED <<partners, wallets, staff, role, sessions, signing, late, refused>>
        BY DEF Partner!UpdateStatus, Partner!Return, Partner!Go, Partner!rows, Partner!signIns
    <1>3. [reqs[i] EXCEPT !.status = at] =
              [status |-> at, user |-> reqs[i].user, data |-> reqs[i].data]
        BY <1>1 DEF RequestRow
    <1>4. [reqs[i] EXCEPT !.status = at] \in RequestRow
        BY <1>1, <1>3 DEF RequestRow
    <1>5. Partner!Idle \in OnboardingCall /\ Relies(Partner!Idle)'
        BY DEF OnboardingCall, Relies, Approving, Created, Partner!Idle
    <1>6. at = "APPROVED" => Complete(reqs[i].user)
        BY <1>1
    <1> HIDE DEF i, at
    <1>7. OnboardingType'
        BY <1>1, <1>2, <1>4, <1>5 DEF OnboardingInv, OnboardingType
    <1>8. \A r \in Partner!Reqs :
              /\ r # i => reqs'[r] = reqs[r]
              /\ r = i => reqs'[r].status = at /\ reqs'[r].user = reqs[i].user
                            /\ reqs'[r] # Partner!NoReq
        BY <1>1, <1>2, <1>3 DEF OnboardingInv, OnboardingType, Partner!NoReq
    <1>9. Grows
        BY <1>2, <1>8 DEF Grows, Partner!HasPartner, Fresh
    <1>10. \A r, q \in Partner!Reqs :
              (reqs'[r] # Partner!NoReq /\ q < r) => reqs'[q] # Partner!NoReq
        BY <1>1, <1>8 DEF OnboardingInv
    <1>11. ASSUME NEW r \in Partner!Reqs, reqs'[r].status = "APPROVED"
           PROVE  reqs[r].status = "APPROVED" \/ Complete(reqs[r].user)'
        <2>1. CASE r # i
            BY <1>8, <1>11, <2>1
        <2>2. CASE r = i
            <3>1. PICK u \in Users : u = reqs[i].user
                BY <1>1 DEF RequestRow
            <3>2. Complete(u) /\ reqs'[r].user = u
                BY <1>6, <1>8, <1>11, <2>2, <3>1
            <3>3. Complete(u)'
                BY <1>9, <3>2, StillComplete
            <3> QED BY <3>2, <3>3
        <2> QED BY <2>1, <2>2
    <1> QED BY <1>2, <1>5, <1>7, <1>9, <1>10, <1>11, OnboardingMoves

\* A step of an approval that adds to the rows and goes to another place.
LEMMA ApprovalMoves ==
    ASSUME OnboardingInv, OnboardingType', Grows, UNCHANGED reqs,
           NEW c \in Callers, NEW k \in OnboardingCall, Relies(k)',
           calls' = [calls EXCEPT ![c] = k]
    PROVE  OnboardingInv'
    BY OnboardingMoves DEF OnboardingInv

LEMMA CallAt ==
    ASSUME OnboardingInv, NEW c \in Callers, calls[c].at \in Approving, NEW at \in Approving
    PROVE  /\ [calls[c] EXCEPT !.at = at] \in OnboardingCall
           /\ [calls[c] EXCEPT !.at = at] =
                [at |-> at, req |-> calls[c].req, user |-> calls[c].user, data |-> calls[c].data]
           /\ calls[c].user \in Users /\ calls[c].req \in Partner!Reqs /\ calls[c].data \in Data
           /\ reqs[calls[c].req] # Partner!NoReq /\ reqs[calls[c].req].user = calls[c].user
           /\ Relies(calls[c])
    <1>1. calls[c] \in [at : Approving, req : Partner!Reqs, user : Users, data : Data]
        BY KindsOfCalls DEF OnboardingInv, OnboardingType
    <1>2. [calls[c] EXCEPT !.at = at] =
              [at |-> at, req |-> calls[c].req, user |-> calls[c].user, data |-> calls[c].data]
        BY <1>1
    <1>3. [calls[c] EXCEPT !.at = at] \in OnboardingCall
        BY <1>1, <1>2 DEF OnboardingCall
    <1> QED BY <1>1, <1>2, <1>3 DEF OnboardingInv, Relies

LEMMA ApprovalInv ==
    ASSUME OnboardingInv, NEW c \in Callers, UNCHANGED disturbed,
           \/ Partner!LookForPartner(c) \/ Partner!InsertPartner(c) \/ Partner!InsertWallet(c)
           \/ Partner!InsertStaff(c) \/ Partner!UpdateUser(c) \/ Partner!RevokeSessions(c)
    PROVE  OnboardingInv'
    <1> DEFINE u == calls[c].user
               To(at) == [calls[c] EXCEPT !.at = at]
    <1>1. calls[c].at \in {"partner?", "partner", "wallet", "staff", "user", "sessions"}
        BY DEF Partner!LookForPartner, Partner!InsertPartner, Partner!InsertWallet,
               Partner!InsertStaff, Partner!UpdateUser, Partner!RevokeSessions
    <1>2. calls[c].at \in Approving
        BY <1>1 DEF Approving, Created
    <1>3. /\ u \in Users /\ calls[c].req \in Partner!Reqs /\ calls[c].data \in Data
          /\ reqs[calls[c].req] # Partner!NoReq /\ reqs[calls[c].req].user = u /\ Relies(calls[c])
        BY <1>2, CallAt
    <1>4. \A at \in Approving : /\ To(at) \in OnboardingCall
                                /\ To(at).at = at /\ To(at).req = calls[c].req /\ To(at).user = u
        BY <1>2, CallAt
    <1>5. Partner!Idle \in OnboardingCall /\ Relies(Partner!Idle) /\ Relies(Partner!Idle)'
        BY DEF OnboardingCall, Relies, Approving, Created, Partner!Idle
    <1>6. OnboardingType
        BY DEF OnboardingInv
    <1>7. {"partner", "wallet", "staff", "user", "sessions", "APPROVED"} \subseteq Approving
        BY DEF Approving, Created
    <1> USE DEF Partner!Return, Partner!Go, Partner!signIns
    <1>8. CASE Partner!LookForPartner(c)
        <2>1. CASE Partner!HasPartner(u)
            <3>1. /\ calls' = [calls EXCEPT ![c] = Partner!Idle] /\ refused' = refused \cup {u}
                  /\ UNCHANGED <<reqs, partners, wallets, staff, role, sessions, signing, late>>
                BY <1>8, <2>1 DEF Partner!LookForPartner
            <3>2. refused' \subseteq Users /\ disturbed' \in BOOLEAN
                BY <1>3, <1>6, <3>1 DEF OnboardingType
            <3> QED BY <1>5, <3>1, <3>2, OnboardingQuiet
        <2>2. CASE ~Partner!HasPartner(u)
            <3>1. /\ calls' = [calls EXCEPT ![c] = To("partner")]
                  /\ UNCHANGED <<reqs, partners, wallets, staff, role, sessions, signing, late, refused>>
                BY <1>8, <2>2 DEF Partner!LookForPartner, Partner!To
            <3>2. To("partner") \in OnboardingCall /\ To("partner").at = "partner"
                  /\ To("partner").req = calls[c].req /\ To("partner").user = u
                BY <1>4, <1>7
            <3>3. Relies(To("partner"))
                BY <1>3, <3>2 DEF Relies, Created
            <3>4. refused' \subseteq Users /\ disturbed' \in BOOLEAN
                BY <1>6, <3>1 DEF OnboardingType
            <3> QED BY <3>1, <3>2, <3>3, <3>4, OnboardingQuiet
        <2> QED BY <2>1, <2>2
    <1>9. CASE Partner!InsertPartner(c)
        <2>1. CASE Partner!Clash(u, calls[c].data)
            <3>1. /\ calls' = [calls EXCEPT ![c] = Partner!Idle]
                  /\ UNCHANGED <<reqs, partners, wallets, staff, role, sessions, signing, late, refused>>
                BY <1>9, <2>1 DEF Partner!InsertPartner
            <3>2. refused' \subseteq Users /\ disturbed' \in BOOLEAN
                BY <1>6, <3>1 DEF OnboardingType
            <3> QED BY <1>5, <3>1, <3>2, OnboardingQuiet
        <2>2. CASE ~Partner!Clash(u, calls[c].data)
            <3> DEFINE row == Partner!PartnerRow(calls[c].data, calls[c].req)
            <3>1. /\ calls' = [calls EXCEPT ![c] = To("wallet")]
                  /\ partners' = [partners EXCEPT ![u] = row]
                  /\ UNCHANGED <<reqs, wallets, staff, role, sessions, signing, late, refused>>
                BY <1>9, <2>2 DEF Partner!InsertPartner, Partner!To
            <3>2. row \in ProfileRow /\ row.rate = 1 /\ row # Partner!NoPartner
                BY <1>3 DEF Partner!PartnerRow, ProfileRow, Partner!NoPartner, Partner!Reqs
            <3>3. PICK k \in OnboardingCall :
                     k = To("wallet") /\ k.at = "wallet" /\ k.req = calls[c].req /\ k.user = u
                BY <1>4, <1>7
            <3> HIDE DEF row, u, To
            <3>4. OnboardingType'
                BY <1>3, <1>6, <3>1, <3>2, <3>3 DEF OnboardingType
            <3>5. \A v \in Users : partners'[v] = IF v = u THEN row ELSE partners[v]
                BY <1>3, <1>6, <3>1 DEF OnboardingType
            <3>6. Grows
                BY <3>1, <3>2, <3>5 DEF Grows, Partner!HasPartner, Fresh
            <3>7. Relies(k)'
                BY <1>3, <3>1, <3>2, <3>3, <3>5 DEF Relies, Created, Partner!HasPartner
            <3> QED BY <3>1, <3>3, <3>4, <3>6, <3>7, ApprovalMoves
        <2> QED BY <2>1, <2>2
    <1>10. CASE Partner!InsertWallet(c) \/ Partner!InsertStaff(c)
        <2> DEFINE at == IF calls[c].at = "wallet" THEN "staff" ELSE "user"
        <2>1. /\ calls' = [calls EXCEPT ![c] = To(at)]
              /\ calls[c].at = "wallet" => wallets' = wallets \cup {u} /\ UNCHANGED staff
              /\ calls[c].at = "staff" => staff' = staff \cup {u} /\ UNCHANGED wallets
              /\ calls[c].at \in {"wallet", "staff"}
              /\ UNCHANGED <<reqs, partners, role, sessions, signing, late, refused>>
            BY <1>10 DEF Partner!InsertWallet, Partner!InsertStaff, Partner!To
        <2>2. at \in {"staff", "user"} /\ at \in Approving
            BY <1>7
        <2>3. PICK k \in OnboardingCall :
                 k = To(at) /\ k.at = at /\ k.req = calls[c].req /\ k.user = u
            <3> HIDE DEF at, u, To
            <3> QED BY <1>4, <2>2
        <2>4. at = "staff" <=> calls[c].at = "wallet"
            OBVIOUS
        <2> HIDE DEF at, u, To
        <2>5. OnboardingType' /\ Grows
            BY <1>3, <1>6, <2>1, <2>3 DEF OnboardingType, Grows, Partner!HasPartner, Fresh
        <2>6. Relies(k)'
            BY <1>3, <2>1, <2>2, <2>3, <2>4 DEF Relies, Created, Approving, Partner!HasPartner
        <2>8. UNCHANGED reqs
            BY <2>1
        <2> QED BY <2>1, <2>3, <2>5, <2>6, <2>8, ApprovalMoves
    <1>11. CASE Partner!UpdateUser(c)
        <2>1. /\ calls' = [calls EXCEPT ![c] = To("sessions")] /\ calls[c].at = "user"
              /\ role' = [role EXCEPT ![u] = "PARTNER"]
              /\ UNCHANGED <<reqs, partners, wallets, staff, sessions, signing, late, refused>>
            BY <1>11 DEF Partner!UpdateUser, Partner!To
        <2>2. PICK k \in OnboardingCall :
                 k = To("sessions") /\ k.at = "sessions" /\ k.req = calls[c].req /\ k.user = u
            BY <1>4, <1>7
        <2> HIDE DEF u, To
        <2>3. role'[u] = "PARTNER" /\ \A v \in Users : v # u => role'[v] = role[v]
            BY <1>3, <1>6, <2>1 DEF OnboardingType
        <2>4. OnboardingType' /\ Grows
            BY <1>3, <1>6, <2>1, <2>2, <2>3 DEF OnboardingType, Grows, Partner!HasPartner, Fresh
        <2>5. Relies(k)'
            BY <1>3, <2>1, <2>2, <2>3 DEF Relies, Created, Approving, Partner!HasPartner, Fresh
        <2>7. UNCHANGED reqs
            BY <2>1
        <2> QED BY <2>1, <2>2, <2>4, <2>5, <2>7, ApprovalMoves
    <1>12. CASE Partner!RevokeSessions(c)
        <2>1. /\ calls' = [calls EXCEPT ![c] = To("APPROVED")] /\ calls[c].at = "sessions"
              /\ sessions' = [sessions EXCEPT ![u] = {}]
              /\ late' = IF "USER" \in signing[u] THEN late \cup {u} ELSE late
              /\ UNCHANGED <<reqs, partners, wallets, staff, role, signing, refused>>
            BY <1>12 DEF Partner!RevokeSessions, Partner!To
        <2>2. PICK k \in OnboardingCall :
                 k = To("APPROVED") /\ k.at = "APPROVED" /\ k.req = calls[c].req /\ k.user = u
            BY <1>4, <1>7
        <2> HIDE DEF u, To
        <2>3. sessions'[u] = {} /\ \A v \in Users : v # u => sessions'[v] = sessions[v]
            BY <1>3, <1>6, <2>1 DEF OnboardingType
        <2>4. OnboardingType' /\ Grows
            BY <1>3, <1>6, <2>1, <2>2, <2>3 DEF OnboardingType, Grows, Partner!HasPartner, Fresh
        <2>5. Relies(k)'
            BY <1>3, <2>1, <2>2, <2>3 DEF Relies, Created, Approving, Partner!HasPartner, Fresh
        <2>7. UNCHANGED reqs
            BY <2>1
        <2> QED BY <2>1, <2>2, <2>4, <2>5, <2>7, ApprovalMoves
    <1> QED BY <1>8, <1>9, <1>10, <1>11, <1>12

LEMMA CommissionWriteInv ==
    ASSUME OnboardingInv, NEW c \in Callers, UNCHANGED disturbed, Partner!CommissionWrite(c)
    PROVE  OnboardingInv'
    <1> DEFINE u == calls[c].user
               n == calls[c].rate
    <1>1. Partner!Idle \in OnboardingCall /\ Relies(Partner!Idle) /\ Relies(Partner!Idle)'
        BY DEF OnboardingCall, Relies, Approving, Created, Partner!Idle
    <1>2. OnboardingType
        BY DEF OnboardingInv
    <1>3. /\ calls' = [calls EXCEPT ![c] = Partner!Idle]
          /\ partners' = [partners EXCEPT ![u] = [@ EXCEPT !.rate = n]]
          /\ UNCHANGED <<reqs, wallets, staff, role, sessions, signing, late, refused>>
        BY DEF Partner!CommissionWrite, Partner!Return, Partner!Go, Partner!signIns
    <1>4. u \in Users /\ n \in {0, 1} /\ partners[u] # Partner!NoPartner
        BY KindsOfCalls DEF Partner!CommissionWrite, OnboardingInv, OnboardingType, Relies, Partner!HasPartner
    <1>5. partners[u] \in ProfileRow
        BY <1>2, <1>4 DEF OnboardingType
    <1>6. [partners[u] EXCEPT !.rate = n] = [data |-> partners[u].data, rate |-> n, by |-> partners[u].by]
        BY <1>5 DEF ProfileRow
    <1>7. [partners[u] EXCEPT !.rate = n] \in ProfileRow /\ [partners[u] EXCEPT !.rate = n] # Partner!NoPartner
        BY <1>4, <1>5, <1>6 DEF ProfileRow, Partner!NoPartner
    <1> HIDE DEF u, n
    <1>8. OnboardingType'
        BY <1>1, <1>2, <1>3, <1>4, <1>7 DEF OnboardingType
    <1>9. \A v \in Users : partners[v] # Partner!NoPartner => partners'[v] # Partner!NoPartner
        BY <1>2, <1>3, <1>4, <1>7 DEF OnboardingType
    <1>10. Grows
        BY <1>3, <1>9 DEF Grows, Partner!HasPartner, Fresh
    <1> QED BY <1>1, <1>3, <1>8, <1>10, ApprovalMoves

LEMMA FailInv ==
    ASSUME OnboardingInv, NEW c \in Callers, Partner!Fail(c)
    PROVE  OnboardingInv'
    <1>1. /\ Partner!Idle \in OnboardingCall /\ Relies(Partner!Idle)
          /\ calls' = [calls EXCEPT ![c] = Partner!Idle]
          /\ UNCHANGED <<reqs, partners, wallets, staff, role, sessions, signing, late, refused>>
          /\ disturbed' \in BOOLEAN
        BY DEF OnboardingCall, Relies, Approving, Created, Partner!Idle, Partner!Fail,
               Partner!AfterFailure, Partner!Go, Partner!rows, Partner!signIns
    <1>2. refused' \subseteq Users
        BY <1>1 DEF OnboardingInv, OnboardingType
    <1> QED BY <1>1, <1>2, OnboardingQuiet

\* A sign-in of a partner carries the new role, and a refresh the role it had.
LEMMA SignInInv ==
    ASSUME OnboardingInv, NEW u \in Users, Partner!SignIn(u)
    PROVE  OnboardingInv'
    <1>1. UNCHANGED <<reqs, partners, wallets, staff, role, late, calls, refused, disturbed>>
        BY DEF Partner!SignIn, Partner!Login, Partner!Refresh, Partner!CreateSession, Partner!SignInFails,
               Partner!UnchangedCalls
    <1>2. OnboardingType
        BY DEF OnboardingInv
    <1>3. OnboardingType' /\ \A v \in Users : role[v] = "PARTNER" /\ Fresh(v) => Fresh(v)'
        <2>1. CASE Partner!Login(u)
            BY <1>1, <1>2, <2>1 DEF Partner!Login, Partner!Signs, OnboardingType, Fresh
        <2>2. ASSUME NEW scope \in {"USER", "PARTNER"}, Partner!Refresh(u, scope)
              PROVE  OnboardingType' /\ \A v \in Users : role[v] = "PARTNER" /\ Fresh(v) => Fresh(v)'
            <3>1. scope \in sessions[u] /\ signing' = [signing EXCEPT ![u] = @ \cup {scope}]
                BY <2>2 DEF Partner!Refresh, Partner!Signs
            <3>2. sessions' = sessions \/ sessions' = [sessions EXCEPT ![u] = @ \ {scope}]
                BY <2>2 DEF Partner!Refresh
            <3> QED BY <1>1, <1>2, <3>1, <3>2 DEF OnboardingType, Fresh
        <2>3. ASSUME NEW scope \in {"USER", "PARTNER"},
                     Partner!CreateSession(u, scope) \/ Partner!SignInFails(u, scope)
              PROVE  OnboardingType' /\ \A v \in Users : role[v] = "PARTNER" /\ Fresh(v) => Fresh(v)'
            <3>1. scope \in signing[u] /\ signing' = [signing EXCEPT ![u] = @ \ {scope}]
                BY <2>3 DEF Partner!CreateSession, Partner!SignInFails, Partner!Signed
            <3>2. sessions' = sessions \/ sessions' = [sessions EXCEPT ![u] = @ \cup {scope}]
                BY <2>3 DEF Partner!CreateSession, Partner!SignInFails
            <3> QED BY <1>1, <1>2, <3>1, <3>2 DEF OnboardingType, Fresh
        <2> QED BY <2>1, <2>2, <2>3 DEF Partner!SignIn
    <1>4. Grows
        BY <1>1, <1>3 DEF Grows, Partner!HasPartner, Fresh
    <1>5. ASSUME NEW c \in Callers PROVE Relies(calls[c])'
        <2>1. PICK k \in OnboardingCall : k = calls[c] /\ Relies(k)
            BY <1>2 DEF OnboardingInv, OnboardingType
        <2>2. Relies(k)'
            BY <1>2, <1>4, <2>1, StillRelied
        <2> QED BY <1>1, <2>1, <2>2
    <1>6. ASSUME NEW r \in Partner!Reqs, reqs'[r].status = "APPROVED"
          PROVE  Complete(reqs[r].user)'
        <2>1. reqs[r].user \in Users /\ Complete(reqs[r].user)
            BY <1>1, <1>2, <1>6 DEF OnboardingInv, OnboardingType, RequestRow, Partner!NoReq
        <2>2. PICK v \in Users : v = reqs[r].user /\ Complete(v)
            BY <2>1
        <2>3. Complete(v)'
            BY <1>4, <2>2, StillComplete
        <2> QED BY <1>1, <2>2, <2>3
    <1>7. \A r, q \in Partner!Reqs : (reqs'[r] # Partner!NoReq /\ q < r) => reqs'[q] # Partner!NoReq
        BY <1>1 DEF OnboardingInv
    <1> QED BY <1>3, <1>5, <1>6, <1>7, <1>1 DEF OnboardingInv

LEMMA OnboardingStutters ==
    ASSUME OnboardingInv, UNCHANGED Partner!vars
    PROVE  OnboardingInv'
    BY DEF OnboardingInv, OnboardingType, Relies, Complete, Fresh, Partner!HasPartner, Partner!vars, Partner!signIns

LEMMA OnboardingStarts == Partner!Init => OnboardingInv
    <1> SUFFICES ASSUME Partner!Init PROVE OnboardingInv
        OBVIOUS
    <1>1. /\ \A r \in Partner!Reqs : reqs[r] = Partner!NoReq
          /\ \A u \in Users : ~Partner!HasPartner(u)
          /\ \A c \in Callers : calls[c] = Partner!Idle
        BY DEF Partner!Init, Partner!HasPartner
    <1>2. OnboardingType
        BY DEF Partner!Init, OnboardingType, OnboardingCall
    <1>3. \A c \in Callers : Relies(calls[c])
        BY <1>1 DEF Relies, Partner!Idle, Approving, Created
    <1> QED BY <1>1, <1>2, <1>3 DEF OnboardingInv, Partner!NoReq

LEMMA OnboardingSteps ==
    ASSUME OnboardingInv, [Partner!Next]_(Partner!vars)
    PROVE  OnboardingInv'
    <1>1. CASE UNCHANGED Partner!vars
        BY <1>1, OnboardingStutters
    <1>2. ASSUME NEW c \in Callers, Partner!CallStep(c) PROVE OnboardingInv'
        BY <1>2, RequestWritten, EditWritten, StatusWritten, ApprovalInv, CommissionWriteInv, FailInv
           DEF Partner!CallStep
    <1>3. ASSUME Partner!Next PROVE OnboardingInv'
        BY <1>2, <1>3, UserStepInv, CommissionInv, AdminStepInv, SignInInv DEF Partner!Next
    <1> QED BY <1>1, <1>3

-----------------------------------------------------------------------------
\* What holds of a call as long as nothing disturbs it.
CalmCall(k) ==
    /\ k.at # "PENDING"
    /\ k.at = "create" => \A r \in Partner!Reqs : ~(reqs[r].status = "PENDING" /\ reqs[r].user = k.user)
    /\ k.at \in {"edit", "REJECTED"} \cup Approving => reqs[k.req].status = "PENDING"
    /\ k.at \in Approving => reqs[k.req].data = k.data
    /\ k.at \in Created => partners[k.user].data = k.data
\* The call under way is k.
CalmWith(k) ==
    /\ CalmCall(k)
    /\ \A r, q \in Partner!Reqs :
          (reqs[r].status = "PENDING" /\ reqs[q] # Partner!NoReq /\ reqs[q].user = reqs[r].user) => q <= r
    /\ \A u \in Users : Partner!HasPartner(u) =>
          role[u] = "PARTNER" \/ (k.at \in {"wallet", "staff", "user"} /\ k.user = u)
    /\ \A r \in Partner!Reqs, u \in Users :
          partners[u].by = r => reqs[r].status = "APPROVED" \/ (k.at \in Created /\ k.req = r)
    /\ \A r \in Partner!Reqs :
          reqs[r].status = "APPROVED" => partners[reqs[r].user].data = reqs[r].data
    /\ \A u \in refused : role[u] = "PARTNER"
OnlyCall(k) ==
    \/ k = Partner!Idle /\ \A d \in Callers : calls[d] = Partner!Idle
    \/ \E c \in Callers : calls[c] = k /\ \A d \in Callers : d # c => calls[d] = Partner!Idle
CalmInv == ~disturbed => \E k \in OnboardingCall : CalmWith(k) /\ OnlyCall(k)

LEMMA OneCall ==
    ASSUME OnboardingType, CalmInv, ~disturbed, NEW c \in Callers,
           calls[c] # Partner!Idle \/ \A d \in Callers : calls[d] = Partner!Idle
    PROVE  CalmWith(calls[c]) /\ \A d \in Callers : d # c => calls[d] = Partner!Idle
    BY DEF CalmInv, OnlyCall

LEMMA StaysCalm ==
    ASSUME OnboardingType, NEW c \in Callers, \A d \in Callers : d # c => calls[d] = Partner!Idle,
           NEW k \in OnboardingCall, calls' = [calls EXCEPT ![c] = k], CalmWith(k)'
    PROVE  CalmInv'
    <1>1. calls'[c] = k /\ \A d \in Callers : d # c => calls'[d] = Partner!Idle
        BY DEF OnboardingType
    <1>2. OnlyCall(k)'
        BY <1>1 DEF OnlyCall
    <1> QED BY <1>2 DEF CalmInv

\* A call begins: no other is under way unless something is disturbed.
LEMMA CalmBegins ==
    ASSUME OnboardingType, CalmInv, NEW c \in Callers, Partner!MayStart(c),
           NEW k \in OnboardingCall, calls' = [calls EXCEPT ![c] = k],
           UNCHANGED <<reqs, Partner!rows>>,
           CalmWith(Partner!Idle) => CalmCall(k)
    PROVE  CalmInv'
    <1>1. CASE disturbed'
        BY <1>1 DEF CalmInv
    <1>2. CASE ~disturbed'
        <2>1. ~disturbed /\ calls[c] = Partner!Idle /\ \A d \in Callers : calls[d] = Partner!Idle
            BY <1>2 DEF Partner!MayStart
        <2>2. CalmWith(Partner!Idle)
            BY <2>1, OneCall
        <2>3. CalmWith(k)'
            BY <2>2 DEF CalmWith, CalmCall, Partner!HasPartner, Partner!rows, Partner!signIns, Created, Partner!Idle
        <2> QED BY <2>1, <2>3, StaysCalm
    <1> QED BY <1>1, <1>2

\* A call goes on: it is the only one.
LEMMA CalmGoesOn ==
    ASSUME OnboardingType, CalmInv, UNCHANGED disturbed,
           NEW c \in Callers, calls[c] # Partner!Idle,
           NEW k \in OnboardingCall, calls' = [calls EXCEPT ![c] = k],
           CalmWith(calls[c]) => CalmWith(k)'
    PROVE  CalmInv'
    <1>1. CASE disturbed
        BY <1>1 DEF CalmInv
    <1>2. CASE ~disturbed
        <2>1. CalmWith(calls[c]) /\ \A d \in Callers : d # c => calls[d] = Partner!Idle
            BY <1>2, OneCall
        <2> QED BY <2>1, StaysCalm
    <1> QED BY <1>1, <1>2

LEMMA UserStepCalm ==
    ASSUME OnboardingInv, CalmInv, NEW c \in Callers, NEW u \in Users, Partner!UserStep(c, u)
    PROVE  CalmInv'
    <1> USE DEF Partner!Go, Approving, Created
    <1>0. OnboardingType
        BY DEF OnboardingInv
    <1>1. ASSUME NEW d \in Data, Partner!Submit(c, u, d)
          PROVE  CalmInv'
        <2> DEFINE k == [at |-> "create", user |-> u, data |-> d]
        <2>1. k \in OnboardingCall /\ k.at = "create" /\ k.user = u
            BY DEF OnboardingCall
        <2>2. /\ calls' = [calls EXCEPT ![c] = k] /\ UNCHANGED <<reqs, Partner!rows>>
              /\ Partner!MayStart(c) /\ Partner!CanSubmit(u)
            BY <1>1 DEF Partner!Submit
        <2> HIDE DEF k
        <2>3. ASSUME CalmWith(Partner!Idle), NEW r \in Partner!Reqs,
                     reqs[r].status = "PENDING", reqs[r].user = u
              PROVE  FALSE
            <3>1. reqs[r] # Partner!NoReq /\ r \in Partner!RequestsOf(u)
                BY <2>3 DEF Partner!NoReq, Partner!RequestsOf
            <3>2. PICK l \in Partner!Reqs : /\ l = Partner!Latest(u)
                                            /\ reqs[l] # Partner!NoReq /\ reqs[l].user = u /\ r <= l
                BY <1>0, <2>3, <3>1, LatestIs
            <3>3. l <= r /\ r \in Int /\ l \in Int
                BY <2>3, <3>2 DEF CalmWith, Partner!Reqs
            <3>4. reqs[l].status # "PENDING"
                BY <2>2, <3>1, <3>2 DEF Partner!CanSubmit
            <3> QED BY <2>3, <3>2, <3>3, <3>4
        <2>4. CalmWith(Partner!Idle) => CalmCall(k)
            BY <2>1, <2>3 DEF CalmCall
        <2> QED BY <1>0, <2>1, <2>2, <2>4, CalmBegins
    <1>2. ASSUME NEW d \in Data, Partner!Edit(c, u, d)
          PROVE  CalmInv'
        <2> DEFINE k == [at |-> "edit", req |-> Partner!Latest(u), data |-> d]
        <2>1. Partner!Latest(u) \in Partner!Reqs /\ reqs[Partner!Latest(u)].status = "PENDING"
            BY <1>0, <1>2, LatestIs DEF Partner!Edit, Partner!Editable
        <2>2. k \in OnboardingCall /\ CalmCall(k)
            BY <2>1 DEF OnboardingCall, CalmCall
        <2>3. /\ calls' = [calls EXCEPT ![c] = k] /\ UNCHANGED <<reqs, Partner!rows>>
              /\ Partner!MayStart(c)
            BY <1>2 DEF Partner!Edit
        <2> HIDE DEF k
        <2> QED BY <1>0, <2>2, <2>3, CalmBegins
    <1> QED BY <1>1, <1>2 DEF Partner!UserStep

LEMMA AdminCalm ==
    ASSUME OnboardingInv, CalmInv, NEW c \in Callers,
           \/ \E u \in Users, n \in Partner!Rates : Partner!Commission(c, u, n)
           \/ \E r \in Partner!Reqs : Partner!AdminStep(c, r)
    PROVE  CalmInv'
    <1> USE DEF Partner!Go, Approving, Created
    <1>0. OnboardingType
        BY DEF OnboardingInv
    <1>1. ASSUME NEW u \in Users, NEW n \in Partner!Rates, Partner!Commission(c, u, n)
          PROVE  CalmInv'
        <2> DEFINE k == [at |-> "commission", user |-> u, rate |-> n]
        <2>1. k \in OnboardingCall /\ CalmCall(k)
            BY <1>1 DEF OnboardingCall, CalmCall, Partner!Commission, Partner!InRange, Partner!Rates
        <2>2. /\ calls' = [calls EXCEPT ![c] = k] /\ UNCHANGED <<reqs, Partner!rows>>
              /\ Partner!MayStart(c)
            BY <1>1 DEF Partner!Commission
        <2> HIDE DEF k
        <2> QED BY <1>0, <2>1, <2>2, CalmBegins
    <1>2. ASSUME NEW r \in Partner!Reqs, Partner!Approve(c, r)
          PROVE  CalmInv'
        <2> DEFINE k == [at |-> "partner?", req |-> r, user |-> reqs[r].user, data |-> reqs[r].data]
        <2>1. reqs[r] \in RequestRow /\ reqs[r].status = "PENDING"
            BY <1>0, <1>2 DEF Partner!Approve, OnboardingType, Partner!NoReq
        <2>2. k \in OnboardingCall /\ CalmCall(k)
            BY <2>1 DEF OnboardingCall, CalmCall, RequestRow
        <2>3. /\ calls' = [calls EXCEPT ![c] = k] /\ UNCHANGED <<reqs, Partner!rows>>
              /\ Partner!MayStart(c)
            BY <1>2 DEF Partner!Approve
        <2> HIDE DEF k
        <2> QED BY <1>0, <2>2, <2>3, CalmBegins
    <1>3. ASSUME NEW r \in Partner!Reqs, Partner!Reject(c, r)
          PROVE  CalmInv'
        <2> DEFINE k == [at |-> "REJECTED", req |-> r]
        <2>1. k \in OnboardingCall /\ CalmCall(k)
            BY <1>3 DEF OnboardingCall, CalmCall, Partner!Reject, Partner!Rejectable
        <2>2. /\ calls' = [calls EXCEPT ![c] = k] /\ UNCHANGED <<reqs, Partner!rows>>
              /\ Partner!MayStart(c)
            BY <1>3 DEF Partner!Reject
        <2> HIDE DEF k
        <2> QED BY <1>0, <2>1, <2>2, CalmBegins
    <1>4. ASSUME NEW r \in Partner!Reqs, Partner!Reset(c, r)
          PROVE  CalmInv'
        BY <1>4 DEF Partner!Reset, CalmInv
    <1> QED BY <1>1, <1>2, <1>3, <1>4 DEF Partner!AdminStep

\* The writes of an approval.
LEMMA ApprovalCalm ==
    ASSUME OnboardingInv, CalmInv, NEW c \in Callers, UNCHANGED disturbed,
           \/ Partner!LookForPartner(c) \/ Partner!InsertPartner(c) \/ Partner!InsertWallet(c)
           \/ Partner!InsertStaff(c) \/ Partner!UpdateUser(c) \/ Partner!RevokeSessions(c)
    PROVE  CalmInv'
    <1> DEFINE k == calls[c]
    <1>1. /\ k.at \in {"partner?", "partner", "wallet", "staff", "user", "sessions"} /\ k # Partner!Idle
          /\ UNCHANGED reqs
        BY DEF Partner!LookForPartner, Partner!InsertPartner, Partner!InsertWallet,
               Partner!InsertStaff, Partner!UpdateUser, Partner!RevokeSessions, Partner!Idle
    <1>2. k.at \in Approving
        BY <1>1 DEF Approving, Created
    <1>3. /\ k.user \in Users /\ k.req \in Partner!Reqs /\ k.data \in Data
          /\ reqs[k.req].user = k.user /\ Relies(k)
        BY <1>2, CallAt
    <1>4. Partner!Idle \in OnboardingCall /\ Partner!Idle.at = "idle"
        BY DEF OnboardingCall, Partner!Idle
    <1>5. OnboardingType
        BY DEF OnboardingInv
    <1>6. \A at \in Approving : \E l \in OnboardingCall :
              /\ l = [k EXCEPT !.at = at]
              /\ l.at = at /\ l.req = k.req /\ l.user = k.user /\ l.data = k.data
        BY <1>2, CallAt
    <1>7. {"partner", "wallet", "staff", "user", "sessions", "APPROVED"} \subseteq Approving
        BY DEF Approving, Created
    <1> USE DEF Partner!Return, Partner!Go, Partner!signIns
    <1>8. CASE Partner!LookForPartner(c)
        <2>1. CASE Partner!HasPartner(k.user)
            <3>1. /\ calls' = [calls EXCEPT ![c] = Partner!Idle] /\ refused' = refused \cup {k.user}
                  /\ UNCHANGED <<reqs, partners, wallets, staff, role, sessions, signing, late>> /\ k.at = "partner?"
                BY <1>8, <2>1 DEF Partner!LookForPartner
            <3> HIDE DEF k
            <3>2. CalmWith(k) => CalmWith(Partner!Idle)'
                BY <1>3, <1>4, <2>1, <3>1 DEF CalmWith, CalmCall, Created, Approving, Partner!HasPartner
            <3> QED BY <1>1, <1>4, <1>5, <3>1, <3>2, CalmGoesOn DEF k
        <2>2. CASE ~Partner!HasPartner(k.user)
            <3>1. PICK l \in OnboardingCall : /\ l = [k EXCEPT !.at = "partner"]
                      /\ l.at = "partner" /\ l.req = k.req /\ l.user = k.user /\ l.data = k.data
                BY <1>6, <1>7
            <3>2. /\ calls' = [calls EXCEPT ![c] = l] /\ k.at = "partner?"
                  /\ UNCHANGED <<reqs, partners, wallets, staff, role, sessions, signing, late, refused>>
                BY <1>8, <2>2, <3>1 DEF Partner!LookForPartner, Partner!To
            <3> HIDE DEF k
            <3>3. CalmWith(k) => CalmWith(l)'
                BY <1>3, <3>1, <3>2 DEF CalmWith, CalmCall, Created, Approving, Partner!HasPartner
            <3> QED BY <1>1, <1>5, <3>2, <3>3, CalmGoesOn DEF k
        <2> QED BY <2>1, <2>2
    <1>9. CASE Partner!InsertPartner(c)
        <2>1. CASE Partner!Clash(k.user, k.data)
            <3>1. /\ calls' = [calls EXCEPT ![c] = Partner!Idle] /\ k.at = "partner"
                  /\ UNCHANGED <<reqs, partners, wallets, staff, role, sessions, signing, late, refused>>
                BY <1>9, <2>1 DEF Partner!InsertPartner
            <3> HIDE DEF k
            <3>2. CalmWith(k) => CalmWith(Partner!Idle)'
                BY <1>3, <1>4, <3>1 DEF CalmWith, CalmCall, Created, Approving, Partner!HasPartner
            <3> QED BY <1>1, <1>4, <1>5, <3>1, <3>2, CalmGoesOn DEF k
        <2>2. CASE ~Partner!Clash(k.user, k.data)
            <3> DEFINE row == Partner!PartnerRow(k.data, k.req)
            <3>1. PICK l \in OnboardingCall : /\ l = [k EXCEPT !.at = "wallet"]
                      /\ l.at = "wallet" /\ l.req = k.req /\ l.user = k.user /\ l.data = k.data
                BY <1>6, <1>7
            <3>2. /\ calls' = [calls EXCEPT ![c] = l] /\ k.at = "partner"
                  /\ partners' = [partners EXCEPT ![k.user] = row] /\ ~Partner!HasPartner(k.user)
                  /\ UNCHANGED <<reqs, wallets, staff, role, sessions, signing, late, refused>>
                BY <1>9, <2>2, <3>1 DEF Partner!InsertPartner, Partner!To, Partner!Clash
            <3>3. row.data = k.data /\ row.by = k.req
                BY DEF Partner!PartnerRow
            <3> HIDE DEF k, row
            <3>4. \A u \in Users : /\ u # k.user => partners'[u] = partners[u]
                                   /\ u = k.user => partners'[u] = row
                BY <1>3, <1>5, <3>2 DEF OnboardingType
            <3>5. \A r \in Partner!Reqs : reqs[r].status = "APPROVED" =>
                      reqs[r].user \in Users /\ reqs[r].user # k.user
                BY <3>2 DEF OnboardingInv, OnboardingType, Complete, RequestRow, Partner!NoReq
            <3>6. CalmWith(k) => CalmWith(l)'
                <4> SUFFICES ASSUME CalmWith(k) PROVE CalmWith(l)'
                    OBVIOUS
                <4>1. CalmCall(l)'
                    BY <1>3, <3>1, <3>2, <3>3, <3>4 DEF CalmWith, CalmCall, Created, Approving
                <4>2. \A r \in Partner!Reqs :
                          reqs'[r].status = "APPROVED" => partners'[reqs'[r].user].data = reqs'[r].data
                    BY <3>2, <3>4, <3>5 DEF CalmWith
                <4>3. \A u \in Users : partners'[u] # Partner!NoPartner => role'[u] = "PARTNER" \/ u = k.user
                    BY <3>2, <3>4 DEF CalmWith, Partner!HasPartner
                <4>4. \A r \in Partner!Reqs, u \in Users :
                          partners'[u].by = r => reqs'[r].status = "APPROVED" \/ k.req = r
                    BY <3>2, <3>3, <3>4 DEF CalmWith, Created
                <4> QED BY <3>1, <3>2, <4>1, <4>2, <4>3, <4>4 DEF CalmWith, Created, Partner!HasPartner
            <3> QED BY <1>1, <1>5, <3>2, <3>6, CalmGoesOn DEF k
        <2> QED BY <2>1, <2>2
    <1>10. CASE \/ Partner!InsertWallet(c) \/ Partner!InsertStaff(c)
               \/ Partner!UpdateUser(c) \/ Partner!RevokeSessions(c)
        <2>1. PICK at \in {"staff", "user", "sessions", "APPROVED"} :
                  /\ calls' = [calls EXCEPT ![c] = [k EXCEPT !.at = at]]
                  /\ UNCHANGED <<reqs, partners, refused>>
                  /\ k.at \in {"wallet", "staff", "user", "sessions"}
                  /\ \/ UNCHANGED role /\ k.at # "user" /\ (at \in {"staff", "user"} <=> k.at \in {"wallet", "staff"})
                     \/ role' = [role EXCEPT ![k.user] = "PARTNER"] /\ k.at = "user"
            BY <1>10 DEF Partner!InsertWallet, Partner!InsertStaff, Partner!UpdateUser,
                         Partner!RevokeSessions, Partner!To
        <2>2. PICK l \in OnboardingCall : /\ l = [k EXCEPT !.at = at]
                  /\ l.at = at /\ l.req = k.req /\ l.user = k.user /\ l.data = k.data
            BY <1>6, <1>7
        <2> HIDE DEF k
        <2>3. \A u \in Users : /\ role[u] = "PARTNER" => role'[u] = "PARTNER"
                               /\ k.at = "user" => role'[k.user] = "PARTNER"
            BY <1>3, <1>5, <2>1 DEF OnboardingType
        <2>4. CalmWith(k) => CalmWith(l)'
            <3> SUFFICES ASSUME CalmWith(k) PROVE CalmWith(l)'
                OBVIOUS
            <3>1. CalmCall(l)'
                BY <2>1, <2>2 DEF CalmWith, CalmCall, Created, Approving
            <3>2. \A u \in Users : partners'[u] # Partner!NoPartner =>
                      role'[u] = "PARTNER" \/ (l.at \in {"wallet", "staff", "user"} /\ l.user = u)
                BY <1>3, <2>1, <2>2, <2>3 DEF CalmWith, Partner!HasPartner
            <3>3. \A u \in refused' : role'[u] = "PARTNER"
                BY <1>5, <2>1, <2>3 DEF CalmWith, OnboardingType
            <3> QED BY <2>1, <2>2, <3>1, <3>2, <3>3 DEF CalmWith, Created, Partner!HasPartner
        <2> QED BY <1>1, <1>5, <2>1, <2>2, <2>4, CalmGoesOn DEF k
    <1> QED BY <1>8, <1>9, <1>10

\* The step of the call at c: where it goes, and that its own writes keep the calm.
LEMMA CallStepCalm ==
    ASSUME OnboardingInv, OnboardingInv', CalmInv, NEW c \in Callers, Partner!CallStep(c)
    PROVE  CalmInv'
    <1> DEFINE k == calls[c]
    <1>0. OnboardingType /\ k \in OnboardingCall /\ Relies(k)
        BY DEF OnboardingInv, OnboardingType
    <1>1. Partner!Idle \in OnboardingCall /\ Partner!Idle.at = "idle"
        BY DEF OnboardingCall, Partner!Idle
    <1> USE DEF Partner!Return, Partner!Go, Partner!rows, Partner!signIns
    <1>2. CASE Partner!Create(c) /\ UNCHANGED disturbed
        <2> DEFINE i == Partner!Min(FreeRequests)
        <2>1. k.user \in Users /\ k.data \in Data /\ k.at = "create" /\ k # Partner!Idle
            BY <1>0, <1>2, KindsOfCalls DEF Partner!Create
        <2>2. i \in Partner!Reqs /\ reqs[i] = Partner!NoReq
            BY <1>2, FirstFreeIs DEF Partner!Create, FreeRequests
        <2>3. /\ reqs' = [reqs EXCEPT ![i] = Partner!RequestRow(k.user, k.data)]
              /\ calls' = [calls EXCEPT ![c] = Partner!Idle]
              /\ UNCHANGED <<partners, wallets, staff, role, sessions, signing, late, refused>>
            BY <1>2 DEF Partner!Create, FreeRequests
        <2> HIDE DEF i, k
        <2>4. \A r \in Partner!Reqs :
                  /\ r # i => reqs'[r] = reqs[r]
                  /\ r = i => reqs'[r].status = "PENDING" /\ reqs'[r].user = k.user
            BY <1>0, <2>2, <2>3 DEF OnboardingType, Partner!RequestRow
        <2>5. \A q \in Partner!Reqs : reqs'[q] # Partner!NoReq => q <= i
            <3>1. \A q \in Partner!Reqs : reqs[q] # Partner!NoReq => ~(i < q)
                BY <2>2 DEF OnboardingInv
            <3>2. \A q \in Partner!Reqs : q \in Int /\ i \in Int
                BY <2>2 DEF Partner!Reqs
            <3> QED BY <2>4, <3>1, <3>2
        <2>6. CalmWith(k) => CalmWith(Partner!Idle)'
            <3>1. SUFFICES ASSUME CalmWith(k) PROVE CalmWith(Partner!Idle)'
                OBVIOUS
            <3>2. \A u \in Users : partners[u].by # i
                BY <2>1, <2>2, <3>1 DEF CalmWith, Created, Partner!NoReq
            <3>3. \A r, q \in Partner!Reqs :
                      (reqs'[r].status = "PENDING" /\ reqs'[q] # Partner!NoReq /\ reqs'[q].user = reqs'[r].user)
                          => q <= r
                BY <2>1, <2>4, <2>5, <3>1 DEF CalmWith, CalmCall, Partner!NoReq
            <3>4. \A r \in Partner!Reqs, u \in Users : partners'[u].by = r => reqs'[r].status = "APPROVED"
                BY <2>1, <2>3, <2>4, <3>1, <3>2 DEF CalmWith, Created
            <3>5. \A r \in Partner!Reqs :
                      reqs'[r].status = "APPROVED" => partners'[reqs'[r].user].data = reqs'[r].data
                BY <2>3, <2>4, <3>1 DEF CalmWith
            <3>6. \A u \in Users : partners'[u] # Partner!NoPartner => role'[u] = "PARTNER"
                BY <2>1, <2>3, <3>1 DEF CalmWith, Partner!HasPartner
            <3> QED BY <1>1, <2>3, <3>1, <3>3, <3>4, <3>5, <3>6
                    DEF CalmWith, CalmCall, Created, Approving, Partner!HasPartner
        <2> QED BY <1>0, <1>1, <1>2, <2>1, <2>3, <2>6, CalmGoesOn DEF k
    <1>3. CASE Partner!EditWrite(c) /\ UNCHANGED disturbed
        <2> DEFINE i == k.req
        <2>1. k.at = "edit" /\ k # Partner!Idle /\ i \in Partner!Reqs /\ reqs[i] # Partner!NoReq
              /\ reqs[i] \in RequestRow
            BY <1>0, <1>3, KindsOfCalls DEF Partner!EditWrite, Relies, OnboardingType
        <2>2. /\ reqs' = [reqs EXCEPT ![i] = [@ EXCEPT !.data = k.data]]
              /\ calls' = [calls EXCEPT ![c] = Partner!Idle]
              /\ UNCHANGED <<partners, wallets, staff, role, sessions, signing, late, refused>>
            BY <1>3 DEF Partner!EditWrite
        <2> HIDE DEF i, k
        <2>3. \A r \in Partner!Reqs :
                  /\ r # i => reqs'[r] = reqs[r]
                  /\ r = i => reqs'[r].status = reqs[i].status /\ reqs'[r].user = reqs[i].user
            BY <1>0, <2>1, <2>2 DEF OnboardingType, RequestRow
        <2>4. CalmWith(k) => reqs[i].status = "PENDING"
            BY <2>1 DEF CalmWith, CalmCall, i
        <2>5. CalmWith(k) => CalmWith(Partner!Idle)'
            BY <1>1, <2>1, <2>2, <2>3, <2>4
               DEF CalmWith, CalmCall, Created, Approving, Partner!HasPartner
        <2> QED BY <1>0, <1>1, <1>3, <2>1, <2>2, <2>5, CalmGoesOn DEF k
    <1>4. CASE Partner!UpdateStatus(c) /\ UNCHANGED disturbed
        <2> DEFINE i == k.req
        <2>1. /\ k.at \in {"APPROVED", "REJECTED", "PENDING"} /\ k # Partner!Idle
              /\ i \in Partner!Reqs /\ reqs[i] # Partner!NoReq /\ reqs[i] \in RequestRow
              /\ k.at = "APPROVED" => reqs[i].user = k.user
            BY <1>0, <1>4, KindsOfCalls DEF Partner!UpdateStatus, Relies, OnboardingType, Approving, Created
        <2>2. /\ reqs' = [reqs EXCEPT ![i] = [@ EXCEPT !.status = k.at]]
              /\ calls' = [calls EXCEPT ![c] = Partner!Idle]
              /\ UNCHANGED <<partners, wallets, staff, role, sessions, signing, late, refused>>
            BY <1>4 DEF Partner!UpdateStatus
        <2> HIDE DEF i, k
        <2>3. \A r \in Partner!Reqs :
                  /\ r # i => reqs'[r] = reqs[r]
                  /\ r = i => /\ reqs'[r].status = k.at /\ reqs'[r].user = reqs[i].user
                             /\ reqs'[r].data = reqs[i].data
            BY <1>0, <2>1, <2>2 DEF OnboardingType, RequestRow
        <2>4. CalmWith(k) => k.at # "PENDING" /\ reqs[i].status = "PENDING"
            BY <2>1 DEF CalmWith, CalmCall, i, Approving, Created
        <2>5. ASSUME CalmWith(k), k.at = "APPROVED"
              PROVE  partners[reqs[i].user].data = reqs[i].data
            BY <2>1, <2>5 DEF CalmWith, CalmCall, i, Approving, Created
        <2>6. CalmWith(k) => CalmWith(Partner!Idle)'
            <3> SUFFICES ASSUME CalmWith(k) PROVE CalmWith(Partner!Idle)'
                OBVIOUS
            <3>1. \A r \in Partner!Reqs, u \in Users : partners'[u].by = r => reqs'[r].status = "APPROVED"
                BY <2>1, <2>2, <2>3, <2>4 DEF CalmWith, Created, i
            <3>2. \A r \in Partner!Reqs :
                      reqs'[r].status = "APPROVED" => partners'[reqs'[r].user].data = reqs'[r].data
                BY <2>2, <2>3, <2>5 DEF CalmWith
            <3>3. \A u \in Users : partners'[u] # Partner!NoPartner => role'[u] = "PARTNER"
                BY <2>1, <2>2 DEF CalmWith, Partner!HasPartner
            <3> QED BY <1>1, <2>1, <2>2, <2>3, <2>4, <3>1, <3>2, <3>3
                    DEF CalmWith, CalmCall, Created, Approving, Partner!HasPartner
        <2> QED BY <1>0, <1>1, <1>4, <2>1, <2>2, <2>6, CalmGoesOn DEF k
    <1>5. CASE Partner!Fail(c)
        BY <1>5 DEF Partner!Fail, CalmInv
    <1>6. CASE Partner!CommissionWrite(c) /\ UNCHANGED disturbed
        <2>1. /\ k.at = "commission" /\ k # Partner!Idle
              /\ UNCHANGED <<reqs, role, refused>> /\ calls' = [calls EXCEPT ![c] = Partner!Idle]
            BY <1>6 DEF Partner!CommissionWrite, Partner!Idle
        <2>2. \A u \in Users : /\ Partner!HasPartner(u)' <=> Partner!HasPartner(u)
                               /\ partners'[u].by = partners[u].by /\ partners'[u].data = partners[u].data
            <3>1. k.user \in Users /\ partners[k.user] \in ProfileRow
                BY <1>0, <2>1, KindsOfCalls DEF Relies, OnboardingType, Partner!HasPartner
            <3>2. partners' = [partners EXCEPT ![k.user] = [@ EXCEPT !.rate = k.rate]]
                BY <1>6 DEF Partner!CommissionWrite
            <3> HIDE DEF k
            <3>3. \A u \in Users : u # k.user => partners'[u] = partners[u]
                BY <1>0, <3>1, <3>2 DEF OnboardingType
            <3>4. partners'[k.user] = [data |-> partners[k.user].data, rate |-> k.rate, by |-> partners[k.user].by]
                BY <1>0, <3>1, <3>2 DEF OnboardingType, ProfileRow
            <3>5. partners[k.user] # Partner!NoPartner /\ partners'[k.user] # Partner!NoPartner
                BY <3>1, <3>4 DEF Partner!NoPartner, ProfileRow
            <3> QED BY <3>1, <3>3, <3>4, <3>5 DEF Partner!HasPartner
        <2> HIDE DEF k
        <2>3. ASSUME CalmWith(k), NEW r \in Partner!Reqs, reqs'[r].status = "APPROVED"
              PROVE  partners'[reqs'[r].user].data = reqs'[r].data
            <3>1. reqs[r].user \in Users /\ reqs'[r] = reqs[r]
                BY <1>0, <2>1, <2>3 DEF OnboardingType, RequestRow, Partner!NoReq
            <3> QED BY <2>2, <2>3, <3>1 DEF CalmWith
        <2>4. CalmWith(k) => CalmWith(Partner!Idle)'
            BY <1>1, <2>1, <2>2, <2>3 DEF CalmWith, CalmCall, Created, Approving
        <2> QED BY <1>0, <1>1, <1>6, <2>1, <2>4, CalmGoesOn DEF k
    <1>7. CASE /\ UNCHANGED disturbed
               /\ \/ Partner!LookForPartner(c) \/ Partner!InsertPartner(c) \/ Partner!InsertWallet(c)
                  \/ Partner!InsertStaff(c) \/ Partner!UpdateUser(c) \/ Partner!RevokeSessions(c)
        BY <1>7, ApprovalCalm DEF OnboardingInv
    <1> QED BY <1>2, <1>3, <1>4, <1>5, <1>6, <1>7 DEF Partner!CallStep

LEMMA OnboardingStartsCalm == Partner!Init => CalmInv
    <1> SUFFICES ASSUME Partner!Init PROVE CalmInv
        OBVIOUS
    <1>1. Partner!Idle \in OnboardingCall /\ Partner!Idle.at = "idle"
        BY DEF OnboardingCall, Partner!Idle
    <1>2. /\ \A r \in Partner!Reqs : reqs[r] = Partner!NoReq /\ reqs[r].status = "none"
          /\ \A u \in Users : ~Partner!HasPartner(u) /\ partners[u].by = 0
          /\ \A c \in Callers : calls[c] = Partner!Idle
          /\ refused = {}
        BY DEF Partner!Init, Partner!HasPartner, Partner!NoPartner, Partner!NoReq
    <1>3. \A r \in Partner!Reqs : r # 0
        BY DEF Partner!Reqs
    <1>4. CalmWith(Partner!Idle)
        BY <1>1, <1>2, <1>3 DEF CalmWith, CalmCall, Approving, Created
    <1> QED BY <1>1, <1>2, <1>4 DEF CalmInv, OnlyCall

LEMMA OnboardingStaysCalm ==
    ASSUME OnboardingInv, OnboardingInv', CalmInv, [Partner!Next]_(Partner!vars)
    PROVE  CalmInv'
    <1>1. ASSUME UNCHANGED <<reqs, partners, role, refused, calls, disturbed>> PROVE CalmInv'
        BY <1>1 DEF CalmInv, CalmWith, CalmCall, OnlyCall, Partner!HasPartner
    <1>2. CASE UNCHANGED Partner!vars
        BY <1>1, <1>2 DEF Partner!vars
    <1>3. ASSUME NEW u \in Users, Partner!SignIn(u) PROVE CalmInv'
        BY <1>1, <1>3 DEF Partner!SignIn, Partner!Login, Partner!Refresh, Partner!CreateSession,
                          Partner!SignInFails, Partner!UnchangedCalls
    <1>4. ASSUME Partner!Next PROVE CalmInv'
        BY <1>3, <1>4, CallStepCalm, UserStepCalm, AdminCalm DEF Partner!Next
    <1> QED BY <1>2, <1>4

\* What the two invariants say together.
LEMMA OnboardingPromises == OnboardingInv /\ CalmInv => PartnersComplete
    <1> SUFFICES ASSUME OnboardingInv, CalmInv PROVE PartnersComplete
        OBVIOUS
    <1>1. OnboardingType
        BY DEF OnboardingInv
    <1>2. Partner!TypeOK
        <2>1. ASSUME NEW r \in Partner!Reqs
              PROVE  /\ reqs[r].status \in {"none", "PENDING", "APPROVED", "REJECTED"}
                     /\ reqs[r] # Partner!NoReq => reqs[r].user \in Users /\ reqs[r].data \in Data
            BY <1>1 DEF OnboardingType, RequestRow, Partner!NoReq
        <2>2. ASSUME NEW u \in Users, Partner!HasPartner(u) PROVE partners[u].rate \in {0, 1}
            BY <1>1, <2>2 DEF OnboardingType, ProfileRow, Partner!HasPartner
        <2>3. \A u \in Users : sessions[u] \cup signing[u] \subseteq {"USER", "PARTNER"}
            BY <1>1 DEF OnboardingType
        <2> QED BY <1>1, <2>1, <2>2, <2>3 DEF Partner!TypeOK, OnboardingType
    <1>3. Partner!ApprovedIsComplete
        BY DEF Partner!ApprovedIsComplete, OnboardingInv, Complete, Partner!MyStatus
    <1>4. Partner!SessionsAreFresh
        BY DEF Partner!SessionsAreFresh, OnboardingInv, Complete, Fresh
    <1>6. ASSUME ~disturbed
          PROVE  \E k \in OnboardingCall : CalmWith(k)
        BY <1>6 DEF CalmInv
    <1>7. Partner!OnePending
        <2> SUFFICES ASSUME ~disturbed, NEW r \in Partner!Reqs, NEW q \in Partner!Reqs,
                            reqs[r].status = "PENDING", reqs[q].status = "PENDING",
                            reqs[r].user = reqs[q].user
                     PROVE  r = q
            BY DEF Partner!OnePending
        <2>1. reqs[r] # Partner!NoReq /\ reqs[q] # Partner!NoReq /\ r \in Int /\ q \in Int
            BY DEF Partner!NoReq, Partner!Reqs
        <2>2. q <= r /\ r <= q
            BY <1>6, <2>1 DEF CalmWith
        <2> QED BY <2>1, <2>2
    <1>8. Partner!RejectedHasNoPartner
        <2> SUFFICES ASSUME ~disturbed, NEW r \in Partner!Reqs, reqs[r].status = "REJECTED",
                            partners[reqs[r].user].by = r
                     PROVE  FALSE
            BY DEF Partner!RejectedHasNoPartner
        <2>1. reqs[r].user \in Users
            BY <1>1 DEF OnboardingType, RequestRow, Partner!NoReq
        <2>2. PICK k \in OnboardingCall : CalmWith(k)
            BY <1>6
        <2>3. k.at \in Created /\ k.req = r
            BY <2>1, <2>2 DEF CalmWith
        <2>4. reqs[r].status = "PENDING"
            BY <2>2, <2>3 DEF CalmWith, CalmCall, Approving
        <2> QED BY <2>4
    <1>9. Partner!ApprovedAsReviewed
        BY <1>6 DEF Partner!ApprovedAsReviewed, CalmWith
    <1>10. Partner!RefusedHasProfile
        BY <1>6 DEF Partner!RefusedHasProfile, CalmWith
    <1> QED BY <1>2, <1>3, <1>4, <1>7, <1>8, <1>9, <1>10 DEF PartnersComplete

(* Becoming a partner keeps its promises for any number of users, requests   *)
(* and calls: in every interleaving with every failure an approved request   *)
(* has its partner, wallet, owner and role, and of the old role no session   *)
(* but one whose sign-in was under way as they were revoked; undisturbed     *)
(* there is one pending request and every decision stands (adminApprove,     *)
(* submit, editSubmit, adminReject, adminReset, login, refresh).            *)
THEOREM PartnersAreComplete == Partner!Spec => []PartnersComplete
    <1>1. Partner!Init => OnboardingInv /\ CalmInv
        BY OnboardingStarts, OnboardingStartsCalm
    <1>2. OnboardingInv /\ CalmInv /\ [Partner!Next]_(Partner!vars) => (OnboardingInv /\ CalmInv)'
        BY OnboardingSteps, OnboardingStaysCalm
    <1>3. OnboardingInv /\ CalmInv => PartnersComplete
        BY OnboardingPromises
    <1> QED BY <1>1, <1>2, <1>3, PTL DEF Partner!Spec

-----------------------------------------------------------------------------
(***************************************************************************)
(* Movies.                                                                 *)
(***************************************************************************)
MovieRow ==
    [status : {"DRAFT", "SUBMITTED", "APPROVED", "REJECTED"}, from : Movie!Days, to : Movie!Days,
     content : Content, cast : {{}} \cup {{l} : l \in Casts}, shows : Nat, planned : Nat,
     published : BOOLEAN]
GoneRow == [status : {"gone"}, was : {"DRAFT", "SUBMITTED", "APPROVED", "REJECTED"}]
CreateCall ==
    [at : {"insert", "cast", "shows"}, movie : Movies, row : MovieRow,
     cast : Casts \cup {Movie!NoList}, plans : Nat]
UpdateCall ==
    [at : {"update", "cast", "done"}, movie : Movies, from : Movie!Days, to : Movie!Days,
     content : Content, cast : Casts \cup {Movie!NoList},
     given : [from : Movie!Days \cup {Movie!NotGiven}, to : Movie!Days \cup {Movie!NotGiven}]]
DeleteCall == [at : {"delete", "done"}, movie : Movies]
StatusCall ==
    [at : {"publish", "status", "audit", "done"}, movie : Movies,
     status : {"SUBMITTED", "APPROVED", "REJECTED"}]
EditCall == {Movie!Idle} \cup CreateCall \cup UpdateCall \cup DeleteCall \cup StatusCall
MovieType ==
    /\ movies \in [Movies -> {Movie!NoMovie} \cup MovieRow \cup GoneRow]
    /\ edits \in [Callers -> EditCall]
    /\ created \subseteq Movies
    /\ audit \subseteq Movies \X {"APPROVED", "REJECTED"}
    /\ edited \in BOOLEAN

\* What a call relies on.
EditHolds(k) ==
    /\ k.at = "insert" =>
          /\ movies[k.movie] = Movie!NoMovie
          /\ k.row.from < k.row.to /\ k.row.shows = 0 /\ k.row.status = "DRAFT" /\ ~k.row.published
    /\ k.at \notin {"idle", "insert"} => movies[k.movie] # Movie!NoMovie
    /\ (k \in CreateCall /\ k.at # "insert" /\ Movie!Exists(k.movie)) =>
          movies[k.movie].shows + k.plans = movies[k.movie].planned
    /\ k.at = "cast" => k.cast \in Casts
    /\ k.at = "update" => k.from < k.to
    /\ k.at = "publish" => k.status = "APPROVED"
    /\ k.at = "audit" => k.status # "SUBMITTED"
    /\ (k.at \in {"status", "audit"} /\ k.status = "APPROVED" /\ Movie!Exists(k.movie)) =>
          movies[k.movie].published
RowHolds(row) ==
    row \in MovieRow =>
        /\ row.from < row.to /\ row.shows <= row.planned
        /\ row.status = "APPROVED" => row.published
MovieInv ==
    /\ MovieType
    /\ \A c \in Callers : EditHolds(edits[c])
    /\ \A c, d \in Callers :
          (edits[c] \in CreateCall /\ edits[d] \in CreateCall /\ edits[c].movie = edits[d].movie) => c = d
    /\ \A m \in Movies : RowHolds(movies[m])
    /\ \A m \in created :
          movies[m] # Movie!NoMovie /\ (Movie!Exists(m) => movies[m].shows = movies[m].planned)
    /\ \A m \in Movies : <<m, "APPROVED">> \in audit =>
          movies[m] # Movie!NoMovie /\ (Movie!Exists(m) => movies[m].published)

\* What a write does to the row of a movie, and of no other.
RowMoves(row, new) ==
    /\ row # Movie!NoMovie => new # Movie!NoMovie
    /\ (row # Movie!NoMovie /\ new \in MovieRow) =>
          row \in MovieRow /\ (row.published => new.published)
\* It leaves the showtimes and the plans of movie m as they are.
SameShows(m) ==
    movies'[m] \in MovieRow => movies'[m].shows = movies[m].shows /\ movies'[m].planned = movies[m].planned

LEMMA ExistingRows ==
    ASSUME MovieType, NEW m \in Movies
    PROVE  /\ Movie!Exists(m) <=> movies[m] \in MovieRow
           /\ movies[m] = Movie!NoMovie => movies[m] \notin MovieRow \cup GoneRow
           /\ movies[m] = Movie!NoMovie <=> movies[m].status = "none"
           /\ movies[m] \in GoneRow <=> movies[m].status = "gone"
    BY DEF MovieType, Movie!Exists, Movie!NoMovie, MovieRow, GoneRow

LEMMA KindsOfEdits ==
    ASSUME NEW k \in EditCall
    PROVE  /\ k = Movie!Idle <=> k.at = "idle"
           /\ k.at # "idle" => k.movie \in Movies
           /\ k.at \in {"insert", "shows"} => k \in CreateCall
           /\ k.at = "update" => k \in UpdateCall
           /\ k.at = "delete" => k \in DeleteCall
           /\ k.at \in {"publish", "status", "audit"} => k \in StatusCall
           /\ k.at = "cast" => k \in CreateCall \cup UpdateCall
           /\ k \in CreateCall => k.at \in {"insert", "cast", "shows"}
           /\ k.at \in {"idle", "insert", "cast", "shows", "update", "done", "delete", "publish", "status", "audit"}
    BY DEF EditCall, CreateCall, UpdateCall, DeleteCall, StatusCall, Movie!Idle

LEMMA StillHolds ==
    ASSUME MovieType, MovieType', \A m \in Movies : RowMoves(movies[m], movies'[m]),
           NEW k \in EditCall, EditHolds(k),
           k.at = "insert" => movies'[k.movie] = Movie!NoMovie,
           k \in CreateCall /\ k.at # "insert" => SameShows(k.movie)
    PROVE  EditHolds(k)'
    <1>1. k.at # "idle" => k.movie \in Movies
        BY KindsOfEdits
    <1>2. \A m \in Movies : Movie!Exists(m) <=> movies[m] \in MovieRow
        BY ExistingRows
    <1>3. \A m \in Movies : Movie!Exists(m)' <=> movies'[m] \in MovieRow
        BY DEF MovieType, Movie!Exists, Movie!NoMovie, MovieRow, GoneRow
    <1>4. k.at \notin {"idle", "insert"} =>
              /\ movies'[k.movie] # Movie!NoMovie
              /\ Movie!Exists(k.movie)' =>
                    /\ Movie!Exists(k.movie) /\ movies'[k.movie] \in MovieRow
                    /\ movies[k.movie].published => movies'[k.movie].published
        BY <1>1, <1>2, <1>3 DEF EditHolds, RowMoves
    <1>5. k \in CreateCall => k.at # "idle"
        BY KindsOfEdits
    <1> QED BY <1>4, <1>5 DEF EditHolds, SameShows

\* A call goes on to k; the rows move as they may.
LEMMA MovieMoves ==
    ASSUME MovieInv, MovieType', \A m \in Movies : RowMoves(movies[m], movies'[m]),
           NEW c \in Callers, NEW k \in EditCall, edits' = [edits EXCEPT ![c] = k], EditHolds(k)',
           k \in CreateCall =>
              \/ edits[c] \in CreateCall /\ edits[c].movie = k.movie
              \/ \A d \in Callers : edits[d] \in CreateCall => edits[d].movie # k.movie,
           \A m \in Movies : SameShows(m) \/ (edits[c] \in CreateCall /\ edits[c].movie = m),
           \A m \in Movies : (movies[m] = Movie!NoMovie /\ movies'[m] # Movie!NoMovie) =>
              edits[c].at = "insert" /\ edits[c].movie = m,
           \A m \in Movies : RowHolds(movies'[m]),
           \A m \in created' :
              movies'[m] # Movie!NoMovie /\ (movies'[m] \in MovieRow => movies'[m].shows = movies'[m].planned),
           \A m \in Movies : <<m, "APPROVED">> \in audit' =>
              movies'[m] # Movie!NoMovie /\ (movies'[m] \in MovieRow => movies'[m].published)
    PROVE  MovieInv'
    <1>1. MovieType
        BY DEF MovieInv
    <1>2. edits'[c] = k /\ \A d \in Callers : d # c => edits'[d] = edits[d]
        BY <1>1 DEF MovieType
    <1>3. ASSUME NEW d \in Callers PROVE EditHolds(edits[d])'
        <2>1. CASE d = c
            BY <1>2, <2>1
        <2>2. CASE d # c
            <3>1. PICK l \in EditCall : l = edits[d] /\ EditHolds(l)
                BY <1>1 DEF MovieInv, MovieType
            <3>2. l.at = "insert" => movies'[l.movie] = Movie!NoMovie
                <4> SUFFICES ASSUME l.at = "insert" PROVE movies'[l.movie] = Movie!NoMovie
                    OBVIOUS
                <4>1. l \in CreateCall /\ l.movie \in Movies /\ movies[l.movie] = Movie!NoMovie
                    BY <3>1, KindsOfEdits DEF EditHolds
                <4>2. (edits[c].at = "insert" /\ edits[c].movie = l.movie) => edits[c] \in CreateCall
                    BY <1>1, KindsOfEdits DEF MovieType
                <4> QED BY <2>2, <3>1, <4>1, <4>2 DEF MovieInv
            <3>3. l \in CreateCall /\ l.at # "insert" => SameShows(l.movie)
                BY <2>2, <3>1, KindsOfEdits DEF MovieInv
            <3>4. EditHolds(l)'
                BY <1>1, <3>1, <3>2, <3>3, StillHolds
            <3> QED BY <1>2, <2>2, <3>1, <3>4
        <2> QED BY <2>1, <2>2
    <1>4. \A d, e \in Callers :
              (edits'[d] \in CreateCall /\ edits'[e] \in CreateCall /\ edits'[d].movie = edits'[e].movie) => d = e
        BY <1>2 DEF MovieInv
    <1>5. \A m \in Movies : Movie!Exists(m)' => movies'[m] \in MovieRow
        BY DEF MovieType, Movie!Exists, Movie!NoMovie, MovieRow, GoneRow
    <1>6. created' \subseteq Movies
        BY DEF MovieType
    <1> QED BY <1>3, <1>4, <1>5, <1>6 DEF MovieInv, RowHolds, MovieRow

\* A call goes on without a write.
LEMMA EditQuiet ==
    ASSUME MovieInv, UNCHANGED movies, NEW c \in Callers, NEW k \in EditCall,
           edits' = [edits EXCEPT ![c] = k], EditHolds(k),
           k \in CreateCall =>
              \/ edits[c] \in CreateCall /\ edits[c].movie = k.movie
              \/ \A d \in Callers : edits[d] \in CreateCall => edits[d].movie # k.movie,
           edited' \in BOOLEAN,
           \/ UNCHANGED created
           \/ \E m \in Movies : /\ created' = created \cup {m} /\ movies[m] # Movie!NoMovie
                                /\ Movie!Exists(m) => movies[m].shows = movies[m].planned,
           \/ UNCHANGED audit
           \/ \E m \in Movies, s \in {"APPROVED", "REJECTED"} :
                 /\ audit' = audit \cup {<<m, s>>} /\ movies[m] # Movie!NoMovie
                 /\ (s = "APPROVED" /\ Movie!Exists(m)) => movies[m].published
    PROVE  MovieInv'
    <1>1. MovieType /\ \A m \in Movies : Movie!Exists(m) <=> movies[m] \in MovieRow
        BY ExistingRows DEF MovieInv
    <1>2. MovieType'
        BY <1>1 DEF MovieType
    <1>3. EditHolds(k)'
        BY DEF EditHolds, Movie!Exists
    <1>4. \A m \in Movies : RowMoves(movies[m], movies'[m]) /\ RowHolds(movies'[m]) /\ SameShows(m)
        BY DEF RowMoves, MovieInv, RowHolds, SameShows
    <1>5. \A m \in created' :
              movies'[m] # Movie!NoMovie /\ (movies'[m] \in MovieRow => movies'[m].shows = movies'[m].planned)
        BY <1>1 DEF MovieInv, MovieType
    <1>6. \A m \in Movies : <<m, "APPROVED">> \in audit' =>
              movies'[m] # Movie!NoMovie /\ (movies'[m] \in MovieRow => movies'[m].published)
        BY <1>1 DEF MovieInv
    <1> QED BY <1>2, <1>3, <1>4, <1>5, <1>6, MovieMoves

\* A call writes the row of a movie that exists.
LEMMA MovieWritten ==
    ASSUME MovieInv, NEW c \in Callers, NEW k \in EditCall, NEW m \in Movies, Movie!Exists(m),
           NEW row \in MovieRow \cup GoneRow,
           edits' = [edits EXCEPT ![c] = k], movies' = [movies EXCEPT ![m] = row],
           UNCHANGED <<created, audit, edited>>,
           k \in CreateCall => edits[c] \in CreateCall /\ edits[c].movie = k.movie,
           EditHolds(k)', RowHolds(row), RowMoves(movies[m], row),
           \/ row \in MovieRow => row.shows = movies[m].shows /\ row.planned = movies[m].planned
           \/ edits[c] \in CreateCall /\ edits[c].movie = m /\ movies[m].shows < movies[m].planned
    PROVE  MovieInv'
    <1>1. MovieType /\ movies[m] \in MovieRow /\ movies[m] # Movie!NoMovie
        BY ExistingRows DEF MovieInv
    <1>2. \A x \in Movies : /\ x = m => movies'[x] = row
                            /\ x # m => movies'[x] = movies[x]
        BY <1>1 DEF MovieType
    <1>3. MovieType'
        BY <1>1 DEF MovieType
    <1>4. \A x \in Movies : RowMoves(movies[x], movies'[x]) /\ RowHolds(movies'[x])
        BY <1>2 DEF RowMoves, MovieInv, RowHolds
    <1>5. row # Movie!NoMovie
        BY DEF Movie!NoMovie, MovieRow, GoneRow
    <1>6. \A x \in Movies : Movie!Exists(x) <=> movies[x] \in MovieRow
        BY <1>1, ExistingRows
    <1>7. ASSUME NEW x \in created'
          PROVE  /\ movies'[x] # Movie!NoMovie
                 /\ movies'[x] \in MovieRow => movies'[x].shows = movies'[x].planned
        <2>1. x \in Movies /\ movies[x] # Movie!NoMovie
              /\ (movies[x] \in MovieRow => movies[x].shows = movies[x].planned)
            BY <1>1, <1>6 DEF MovieInv, MovieType
        <2>2. CASE x # m
            BY <1>2, <2>1, <2>2
        <2>3. CASE x = m
            <3>1. movies[m].shows = movies[m].planned /\ movies[m].shows \in Nat
                BY <1>1, <2>1, <2>3 DEF MovieRow
            <3> QED BY <1>2, <1>5, <2>3, <3>1
        <2> QED BY <2>2, <2>3
    <1>8. ASSUME NEW x \in Movies, <<x, "APPROVED">> \in audit'
          PROVE  movies'[x] # Movie!NoMovie /\ (movies'[x] \in MovieRow => movies'[x].published)
        BY <1>1, <1>2, <1>4, <1>5, <1>6, <1>8 DEF MovieInv, RowMoves
    <1>9. \A x \in Movies : movies[x] = Movie!NoMovie => movies'[x] = Movie!NoMovie
        BY <1>1, <1>2
    <1>10. \A x \in Movies : SameShows(x) \/ (edits[c] \in CreateCall /\ edits[c].movie = x)
        BY <1>1, <1>2 DEF SameShows
    <1> QED BY <1>3, <1>4, <1>7, <1>8, <1>9, <1>10, MovieMoves

LEMMA MovieBegins ==
    ASSUME MovieInv, NEW c \in Callers, NEW k \in EditCall, Movie!Start(c, k),
           UNCHANGED <<movies, created, audit>>, EditHolds(k),
           k \in CreateCall => \A d \in Callers : edits[d] \in CreateCall => edits[d].movie # k.movie
    PROVE  MovieInv'
    <1>1. edits' = [edits EXCEPT ![c] = k] /\ edited' \in BOOLEAN
        BY DEF Movie!Start, Movie!MayStart, MovieInv, MovieType
    <1> QED BY <1>1, EditQuiet

LEMMA CreationBegins ==
    ASSUME MovieInv, NEW c \in Callers, NEW m \in Movies, NEW from \in Movie!Days, NEW to \in Movie!Days,
           NEW content \in Content, NEW list \in Casts \cup {Movie!NoList}, NEW n \in 0 .. MaxPlans,
           Movie!CreateMovie(c, m, from, to, content, list, n)
    PROVE  MovieInv'
    <1> DEFINE row == Movie!DraftRow(from, to, content)
               k == [at |-> "insert", movie |-> m, row |-> row, cast |-> list, plans |-> n]
    <1>1. MaxPlans \in Nat
        BY PartnersAssumption DEF Movie!CatalogueAssumption
    <1>2. row \in MovieRow /\ row.from < row.to /\ row.shows = 0 /\ row.status = "DRAFT" /\ ~row.published
        BY DEF Movie!CreateMovie, Movie!ValidRange, Movie!DraftRow, MovieRow
    <1> HIDE DEF row
    <1>3. k \in CreateCall /\ n \in Nat
        BY <1>1, <1>2 DEF CreateCall
    <1>4. /\ k.at = "insert" /\ k.movie = m /\ k.row = row
          /\ movies[m] = Movie!NoMovie
          /\ \A d \in Callers : edits[d].at = "insert" => edits[d].movie # m
        BY DEF Movie!CreateMovie, Movie!At, Movie!Movie
    <1>5. Movie!Start(c, k) /\ UNCHANGED <<movies, created, audit>>
        BY DEF Movie!CreateMovie, row
    <1> HIDE DEF k
    <1>6. k \in EditCall /\ EditHolds(k)
        BY <1>2, <1>3, <1>4 DEF EditCall, EditHolds
    <1>7. \A d \in Callers : edits[d] \in CreateCall => edits[d].movie # m
        BY <1>4, KindsOfEdits DEF MovieInv, MovieType, EditHolds
    <1> QED BY <1>4, <1>5, <1>6, <1>7, MovieBegins

LEMMA UpdateBegins ==
    ASSUME MovieInv, NEW c \in Callers, NEW m \in Movies,
           NEW from \in Movie!Days \cup {Movie!NotGiven}, NEW to \in Movie!Days \cup {Movie!NotGiven},
           NEW content \in Content, NEW list \in Casts \cup {Movie!NoList},
           Movie!UpdateMovie(c, m, from, to, content, list)
    PROVE  MovieInv'
    <1> DEFINE f == Movie!Parsed(from, movies[m].from)
               t == Movie!Parsed(to, movies[m].to)
               k == [at |-> "update", movie |-> m, from |-> f, to |-> t, content |-> content,
                     cast |-> list, given |-> [from |-> from, to |-> to]]
    <1>1. movies[m] \in MovieRow /\ movies[m] # Movie!NoMovie /\ f < t
        BY ExistingRows DEF Movie!UpdateMovie, MovieInv, Movie!ValidRange
    <1>2. f \in Movie!Days /\ t \in Movie!Days
        BY <1>1 DEF Movie!Parsed, MovieRow
    <1>3. Movie!Start(c, k) /\ UNCHANGED <<movies, created, audit>>
        BY DEF Movie!UpdateMovie
    <1> HIDE DEF f, t
    <1>4. k \in UpdateCall /\ k.at = "update" /\ k.movie = m /\ k.from < k.to
        BY <1>1, <1>2 DEF UpdateCall
    <1> HIDE DEF k
    <1>5. k \in EditCall /\ k \notin CreateCall
        BY <1>4 DEF EditCall, CreateCall
    <1>6. EditHolds(k)
        BY <1>1, <1>4, <1>5 DEF EditHolds
    <1> QED BY <1>3, <1>4, <1>5, <1>6, MovieBegins

LEMMA ShortCallsBegin ==
    ASSUME MovieInv, NEW c \in Callers, NEW m \in Movies,
           Movie!DeleteMovie(c, m) \/ Movie!SubmitMovie(c, m) \/ Movie!AdminStep(c, m)
    PROVE  MovieInv'
    <1>1. MovieType /\ (Movie!Exists(m) => movies[m] # Movie!NoMovie)
        BY ExistingRows DEF MovieInv
    <1>2. CASE Movie!DeleteMovie(c, m)
        <2> DEFINE k == [at |-> "delete", movie |-> m]
        <2>1. k \in EditCall /\ k.at = "delete" /\ k.movie = m /\ k \notin CreateCall
            BY DEF EditCall, DeleteCall, CreateCall
        <2>2. Movie!Start(c, k) /\ UNCHANGED <<movies, created, audit>> /\ Movie!Exists(m)
            BY <1>2 DEF Movie!DeleteMovie
        <2> HIDE DEF k
        <2>3. EditHolds(k)
            BY <1>1, <2>1, <2>2 DEF EditHolds
        <2> QED BY <2>1, <2>2, <2>3, MovieBegins
    <1>3. CASE Movie!SubmitMovie(c, m) \/ Movie!AdminStep(c, m)
        <2>1. PICK at \in {"publish", "status"}, s \in {"SUBMITTED", "APPROVED", "REJECTED"} :
                  /\ Movie!Start(c, [at |-> at, movie |-> m, status |-> s])
                  /\ UNCHANGED <<movies, created, audit>> /\ Movie!Exists(m)
                  /\ at = "publish" <=> s = "APPROVED"
            BY <1>3 DEF Movie!SubmitMovie, Movie!AdminStep, Movie!ApproveMovie, Movie!RejectMovie, Movie!FirstWrite
        <2> DEFINE k == [at |-> at, movie |-> m, status |-> s]
        <2>2. k \in EditCall /\ k.at = at /\ k.movie = m /\ k.status = s /\ k \notin CreateCall
            BY DEF EditCall, StatusCall, CreateCall
        <2> HIDE DEF k
        <2>3. EditHolds(k)
            BY <1>1, <2>1, <2>2 DEF EditHolds
        <2>4. Movie!Start(c, k)
            BY <2>1 DEF k
        <2> QED BY <2>1, <2>2, <2>3, <2>4, MovieBegins
    <1> QED BY <1>2, <1>3

\* A call ends, with its answer, with an error or on a row that is gone.
LEMMA EditEnds ==
    ASSUME MovieInv, NEW c \in Callers, Movie!Return(c), UNCHANGED <<movies, created, audit>>,
           edited' \in BOOLEAN
    PROVE  MovieInv'
    <1>1. Movie!Idle \in EditCall /\ Movie!Idle.at = "idle" /\ Movie!Idle \notin CreateCall
        BY DEF EditCall, Movie!Idle, CreateCall
    <1>2. EditHolds(Movie!Idle)
        BY <1>1 DEF EditHolds
    <1>3. edits' = [edits EXCEPT ![c] = Movie!Idle]
        BY DEF Movie!Return
    <1> QED BY <1>1, <1>2, <1>3, EditQuiet

\* The call at c, and the same call at another statement.
LEMMA EditAt ==
    ASSUME MovieInv, NEW c \in Callers, NEW at
    PROVE  /\ edits[c] \in EditCall /\ EditHolds(edits[c])
           /\ (edits[c] \in CreateCall /\ at \in {"cast", "shows"}) =>
                 [edits[c] EXCEPT !.at = at] \in CreateCall
           /\ (edits[c] \in UpdateCall /\ at \in {"cast", "done"}) =>
                 [edits[c] EXCEPT !.at = at] \in UpdateCall
           /\ (edits[c] \in DeleteCall /\ at \in {"done"}) =>
                 [edits[c] EXCEPT !.at = at] \in DeleteCall
           /\ (edits[c] \in StatusCall /\ at \in {"status", "audit", "done"}) =>
                 [edits[c] EXCEPT !.at = at] \in StatusCall
           /\ edits[c].at # "idle" =>
                 /\ [edits[c] EXCEPT !.at = at].at = at
                 /\ [edits[c] EXCEPT !.at = at].movie = edits[c].movie
           /\ edits[c] \in CreateCall =>
                 [edits[c] EXCEPT !.at = at].plans = edits[c].plans
           /\ edits[c] \in CreateCall \cup UpdateCall =>
                 [edits[c] EXCEPT !.at = at].cast = edits[c].cast
           /\ edits[c] \in StatusCall =>
                 [edits[c] EXCEPT !.at = at].status = edits[c].status
    <1>1. edits[c] \in EditCall /\ EditHolds(edits[c])
        BY DEF MovieInv, MovieType
    <1>2. PICK k \in EditCall : k = edits[c]
        BY <1>1
    <1>3. k \in CreateCall =>
              [k EXCEPT !.at = at] = [at |-> at, movie |-> k.movie, row |-> k.row, cast |-> k.cast, plans |-> k.plans]
        BY DEF CreateCall
    <1>4. k \in UpdateCall =>
              [k EXCEPT !.at = at] = [at |-> at, movie |-> k.movie, from |-> k.from, to |-> k.to,
                                      content |-> k.content, cast |-> k.cast, given |-> k.given]
        BY DEF UpdateCall
    <1>5. k \in DeleteCall => [k EXCEPT !.at = at] = [at |-> at, movie |-> k.movie]
        BY DEF DeleteCall
    <1>6. k \in StatusCall => [k EXCEPT !.at = at] = [at |-> at, movie |-> k.movie, status |-> k.status]
        BY DEF StatusCall
    <1>7. (k \in CreateCall /\ at \in {"cast", "shows"}) => [k EXCEPT !.at = at] \in CreateCall
        BY <1>3 DEF CreateCall
    <1>8. (k \in UpdateCall /\ at \in {"cast", "done"}) => [k EXCEPT !.at = at] \in UpdateCall
        BY <1>4 DEF UpdateCall
    <1>9. (k \in DeleteCall /\ at \in {"done"}) => [k EXCEPT !.at = at] \in DeleteCall
        BY <1>5 DEF DeleteCall
    <1>10. (k \in StatusCall /\ at \in {"status", "audit", "done"}) => [k EXCEPT !.at = at] \in StatusCall
        BY <1>6 DEF StatusCall
    <1>11. k.at # "idle" => k \in CreateCall \cup UpdateCall \cup DeleteCall \cup StatusCall
        BY KindsOfEdits DEF EditCall
    <1> QED BY <1>1, <1>2, <1>3, <1>4, <1>5, <1>6, <1>7, <1>8, <1>9, <1>10, <1>11

\* The call at c after one of its plans.
LEMMA EditNext ==
    ASSUME MovieInv, NEW c \in Callers, Movie!PlansLeft(c)
    PROVE  LET k == [edits[c] EXCEPT !.plans = @ - 1]
           IN  /\ edits[c] \in CreateCall /\ edits[c].at = "shows" /\ EditHolds(edits[c])
               /\ edits[c].movie \in Movies /\ edits[c].plans \in Nat /\ edits[c].plans > 0
               /\ k \in CreateCall /\ k.at = "shows" /\ k.movie = edits[c].movie
               /\ k.plans = edits[c].plans - 1
    <1>1. edits[c] \in CreateCall /\ EditHolds(edits[c]) /\ edits[c].at = "shows" /\ edits[c].plans > 0
        BY EditAt, KindsOfEdits DEF Movie!PlansLeft, Movie!At
    <1>2. PICK l \in CreateCall : l = edits[c]
        BY <1>1
    <1>3. [l EXCEPT !.plans = @ - 1] =
              [at |-> l.at, movie |-> l.movie, row |-> l.row, cast |-> l.cast, plans |-> l.plans - 1]
        BY DEF CreateCall
    <1>4. l.plans \in Nat /\ l.movie \in Movies
        BY DEF CreateCall
    <1>5. [l EXCEPT !.plans = @ - 1] \in CreateCall
        BY <1>1, <1>2, <1>3, <1>4 DEF CreateCall
    <1> QED BY <1>1, <1>2, <1>3, <1>4, <1>5

LEMMA InsertInv ==
    ASSUME MovieInv, NEW c \in Callers, Movie!InsertMovie(c), UNCHANGED edited
    PROVE  MovieInv'
    <1> DEFINE m == edits[c].movie
               row == [edits[c].row EXCEPT !.planned = edits[c].plans]
    <1>1. /\ edits[c].at = "insert" /\ edits[c] \in CreateCall /\ m \in Movies
          /\ EditHolds(edits[c]) /\ edits[c].row \in MovieRow /\ edits[c].plans \in Nat
        BY EditAt, KindsOfEdits DEF Movie!InsertMovie, Movie!At, CreateCall
    <1>2. PICK at \in {"cast", "shows"} :
              /\ edits' = [edits EXCEPT ![c] = [edits[c] EXCEPT !.at = at]]
              /\ at = "cast" => edits[c].cast # Movie!NoList
              /\ movies' = [movies EXCEPT ![m] = row] /\ UNCHANGED <<created, audit>>
        BY DEF Movie!InsertMovie, Movie!To, Movie!Movie
    <1>3. PICK k \in CreateCall : /\ k = [edits[c] EXCEPT !.at = at]
                                  /\ k.at = at /\ k.movie = m /\ k.plans = edits[c].plans
                                  /\ k.cast = edits[c].cast
        BY <1>1, EditAt
    <1>4. row = [status |-> edits[c].row.status, from |-> edits[c].row.from, to |-> edits[c].row.to,
                 content |-> edits[c].row.content, cast |-> edits[c].row.cast, shows |-> edits[c].row.shows,
                 planned |-> edits[c].plans, published |-> edits[c].row.published]
        BY <1>1 DEF MovieRow
    <1>5. /\ row \in MovieRow /\ row.planned = edits[c].plans /\ row.shows = 0 /\ row.from < row.to
          /\ row.status = "DRAFT" /\ ~row.published
        BY <1>1, <1>4 DEF MovieRow, EditHolds
    <1>6. movies[m] = Movie!NoMovie /\ MovieType
        BY <1>1 DEF EditHolds, MovieInv
    <1>7. edits[c].cast \in Casts \cup {Movie!NoList}
        BY <1>1 DEF CreateCall
    <1> HIDE DEF m, row
    <1>8. \A x \in Movies : /\ x = m => movies'[x] = row
                            /\ x # m => movies'[x] = movies[x]
        BY <1>2, <1>6 DEF MovieType
    <1>9. k \in EditCall /\ row # Movie!NoMovie
        BY <1>5 DEF EditCall, Movie!NoMovie, MovieRow
    <1>10. MovieType'
        BY <1>2, <1>3, <1>5, <1>6, <1>9 DEF MovieType
    <1>11. EditHolds(k)'
        BY <1>1, <1>2, <1>3, <1>5, <1>7, <1>8, <1>9 DEF EditHolds
    <1>12. \A x \in Movies : RowMoves(movies[x], movies'[x]) /\ RowHolds(movies'[x])
        BY <1>1, <1>5, <1>6, <1>8, <1>9 DEF RowMoves, MovieInv, RowHolds
    <1>17. \A x \in Movies : SameShows(x) \/ (edits[c] \in CreateCall /\ edits[c].movie = x)
        BY <1>1, <1>8 DEF SameShows, m
    <1>18. edits[c] \in CreateCall /\ edits[c].movie = k.movie
        BY <1>1, <1>3 DEF m
    <1>13. \A x \in Movies : Movie!Exists(x) <=> movies[x] \in MovieRow
        BY <1>6, ExistingRows
    <1>14. \A x \in created' :
              movies'[x] # Movie!NoMovie /\ (movies'[x] \in MovieRow => movies'[x].shows = movies'[x].planned)
        BY <1>2, <1>6, <1>8, <1>13 DEF MovieInv, MovieType
    <1>15. \A x \in Movies : <<x, "APPROVED">> \in audit' =>
              movies'[x] # Movie!NoMovie /\ (movies'[x] \in MovieRow => movies'[x].published)
        BY <1>2, <1>6, <1>8, <1>13 DEF MovieInv
    <1>16. \A x \in Movies : (movies[x] = Movie!NoMovie /\ movies'[x] # Movie!NoMovie) =>
              edits[c].at = "insert" /\ edits[c].movie = x
        BY <1>1, <1>8 DEF m
    <1> QED BY <1>2, <1>3, <1>9, <1>10, <1>11, <1>12, <1>14, <1>15, <1>16, <1>17, <1>18, MovieMoves

LEMMA CastInv ==
    ASSUME MovieInv, NEW c \in Callers, Movie!ReplaceCast(c), UNCHANGED edited
    PROVE  MovieInv'
    <1> DEFINE m == edits[c].movie
               row == [movies[m] EXCEPT !.cast = {edits[c].cast}]
    <1>1. /\ edits[c].at = "cast" /\ edits[c] \in CreateCall \cup UpdateCall /\ m \in Movies
          /\ EditHolds(edits[c]) /\ edits[c].cast \in Casts
        BY EditAt, KindsOfEdits DEF Movie!ReplaceCast, Movie!At, EditHolds
    <1>2. CASE ~Movie!Exists(m)
        <2>1. Movie!Return(c) /\ UNCHANGED <<movies, created, audit>>
            BY <1>2 DEF Movie!ReplaceCast, Movie!Write, Movie!Movie
        <2>2. edited' \in BOOLEAN
            BY DEF MovieInv, MovieType
        <2> QED BY <2>1, <2>2, EditEnds
    <1>3. CASE Movie!Exists(m)
        <2>1. movies[m] \in MovieRow /\ movies[m] # Movie!NoMovie
            BY <1>1, <1>3, ExistingRows DEF MovieInv
        <2>2. /\ movies' = [movies EXCEPT ![m] = row] /\ UNCHANGED <<created, audit, edited>>
              /\ edits' = [edits EXCEPT ![c] =
                    [edits[c] EXCEPT !.at = IF "plans" \in DOMAIN edits[c] THEN "shows" ELSE "done"]]
            BY <1>3 DEF Movie!ReplaceCast, Movie!Write, Movie!Movie, Movie!To
        <2>3. edits[c] \in CreateCall <=> "plans" \in DOMAIN edits[c]
            BY <1>1 DEF CreateCall, UpdateCall
        <2>4. PICK k \in CreateCall \cup UpdateCall :
                  /\ edits' = [edits EXCEPT ![c] = k]
                  /\ k.at \in {"shows", "done"} /\ k.movie = m
                  /\ k \in CreateCall => edits[c] \in CreateCall /\ k.plans = edits[c].plans
            <3>1. CASE edits[c] \in CreateCall
                <4>1. [edits[c] EXCEPT !.at = "shows"] \in CreateCall
                      /\ [edits[c] EXCEPT !.at = "shows"].at = "shows"
                      /\ [edits[c] EXCEPT !.at = "shows"].movie = m
                      /\ [edits[c] EXCEPT !.at = "shows"].plans = edits[c].plans
                    BY <1>1, <3>1, EditAt
                <4> QED BY <2>2, <2>3, <3>1, <4>1
            <3>2. CASE edits[c] \notin CreateCall
                <4>1. [edits[c] EXCEPT !.at = "done"] \in UpdateCall
                      /\ [edits[c] EXCEPT !.at = "done"].at = "done"
                      /\ [edits[c] EXCEPT !.at = "done"].movie = m
                    BY <1>1, <3>2, EditAt
                <4>2. [edits[c] EXCEPT !.at = "done"] \notin CreateCall
                    BY <4>1 DEF CreateCall
                <4> QED BY <2>2, <2>3, <3>2, <4>1, <4>2
            <3> QED BY <3>1, <3>2
        <2>5. row = [status |-> movies[m].status, from |-> movies[m].from, to |-> movies[m].to,
                     content |-> movies[m].content, cast |-> {edits[c].cast}, shows |-> movies[m].shows,
                     planned |-> movies[m].planned, published |-> movies[m].published]
            BY <2>1 DEF MovieRow
        <2>6. row \in MovieRow /\ RowHolds(row) /\ RowMoves(movies[m], row) /\ row.shows = movies[m].shows
              /\ row.planned = movies[m].planned
            <3>1. row \in MovieRow
                BY <1>1, <2>1, <2>5 DEF MovieRow
            <3>2. row # Movie!NoMovie
                BY <2>5 DEF Movie!NoMovie
            <3> QED BY <1>1, <2>1, <2>5, <3>1, <3>2 DEF RowHolds, RowMoves, MovieInv
        <2> HIDE DEF m, row
        <2>7. movies'[m] = row
            BY <1>1, <2>2 DEF MovieInv, MovieType
        <2>8. EditHolds(k)'
            BY <1>1, <1>3, <2>1, <2>4, <2>6, <2>7 DEF EditHolds, RowMoves, m
        <2>9. k \in EditCall /\ (k \in CreateCall => edits[c] \in CreateCall /\ edits[c].movie = k.movie)
            BY <2>4 DEF EditCall, m
        <2> QED BY <1>1, <1>3, <2>2, <2>4, <2>6, <2>8, <2>9, MovieWritten
    <1> QED BY <1>2, <1>3

\* A plan becomes a showtime or is skipped.
LEMMA ShowtimeInv ==
    ASSUME MovieInv, NEW c \in Callers, Movie!InsertShowtime(c) \/ Movie!SkipPlan(c), UNCHANGED edited
    PROVE  MovieInv'
    <1>1. PICK m \in Movies, k \in CreateCall :
              /\ edits[c] \in CreateCall /\ edits[c].at = "shows" /\ EditHolds(edits[c])
              /\ m = edits[c].movie /\ edits[c].plans \in Nat /\ edits[c].plans > 0
              /\ k = [edits[c] EXCEPT !.plans = @ - 1]
              /\ k.at = "shows" /\ k.movie = m /\ k.plans = edits[c].plans - 1
        BY EditNext DEF Movie!InsertShowtime, Movie!SkipPlan
    <1>2. k \in EditCall /\ MovieType /\ UNCHANGED <<created, audit>>
        BY <1>1 DEF EditCall, MovieInv, Movie!InsertShowtime, Movie!SkipPlan
    <1>3. CASE ~Movie!Exists(m) /\ Movie!InsertShowtime(c)
        <2>1. Movie!Return(c) /\ UNCHANGED <<movies, created, audit>>
            BY <1>1, <1>3 DEF Movie!InsertShowtime, Movie!Movie
        <2>2. edited' \in BOOLEAN
            BY DEF MovieInv, MovieType
        <2> QED BY <2>1, <2>2, EditEnds
    <1>4. CASE ~Movie!Exists(m) /\ Movie!SkipPlan(c)
        <2>1. edits' = [edits EXCEPT ![c] = k] /\ UNCHANGED movies
            BY <1>1, <1>4 DEF Movie!SkipPlan, Movie!NextPlan, Movie!Movie
        <2>2. edited' \in BOOLEAN
            BY DEF MovieInv, MovieType
        <2>3. EditHolds(k)
            <3>1. movies[m] # Movie!NoMovie
                BY <1>1 DEF EditHolds
            <3> QED BY <1>1, <1>4, <3>1 DEF EditHolds
        <2> QED BY <1>1, <1>2, <2>1, <2>2, <2>3, EditQuiet
    <1>5. CASE Movie!Exists(m)
        <2>1. movies[m] \in MovieRow /\ movies[m] # Movie!NoMovie
            BY <1>1, <1>2, <1>5, ExistingRows
        <2>2. /\ movies[m].shows \in Nat /\ movies[m].planned \in Nat
              /\ movies[m].shows + edits[c].plans = movies[m].planned
            BY <1>1, <1>5, <2>1 DEF EditHolds, MovieRow
        <2>3. PICK row : /\ movies' = [movies EXCEPT ![m] = row] /\ edits' = [edits EXCEPT ![c] = k]
                         /\ \/ row = [movies[m] EXCEPT !.shows = @ + 1]
                            \/ row = [movies[m] EXCEPT !.planned = @ - 1]
            <3>1. CASE Movie!InsertShowtime(c)
                BY <1>1, <1>5, <3>1 DEF Movie!InsertShowtime, Movie!NextPlan, Movie!Movie
            <3>2. CASE Movie!SkipPlan(c)
                BY <1>1, <1>5, <3>2 DEF Movie!SkipPlan, Movie!NextPlan, Movie!Movie
            <3> QED BY <3>1, <3>2
        <2>4. PICK s \in Nat, n \in Nat :
                  /\ row = [status |-> movies[m].status, from |-> movies[m].from, to |-> movies[m].to,
                            content |-> movies[m].content, cast |-> movies[m].cast, shows |-> s,
                            planned |-> n, published |-> movies[m].published]
                  /\ s + k.plans = n /\ s <= n
            <3>1. CASE row = [movies[m] EXCEPT !.shows = @ + 1]
                <4>1. row = [status |-> movies[m].status, from |-> movies[m].from, to |-> movies[m].to,
                             content |-> movies[m].content, cast |-> movies[m].cast, shows |-> movies[m].shows + 1,
                             planned |-> movies[m].planned, published |-> movies[m].published]
                    BY <2>1, <3>1 DEF MovieRow
                <4>2. /\ movies[m].shows + 1 \in Nat /\ movies[m].shows + 1 <= movies[m].planned
                      /\ (movies[m].shows + 1) + (edits[c].plans - 1) = movies[m].planned
                    BY <1>1, <2>2
                <4> QED BY <1>1, <2>2, <4>1, <4>2
            <3>2. CASE row = [movies[m] EXCEPT !.planned = @ - 1]
                <4>1. row = [status |-> movies[m].status, from |-> movies[m].from, to |-> movies[m].to,
                             content |-> movies[m].content, cast |-> movies[m].cast, shows |-> movies[m].shows,
                             planned |-> movies[m].planned - 1, published |-> movies[m].published]
                    BY <2>1, <3>2 DEF MovieRow
                <4>2. /\ movies[m].planned - 1 \in Nat /\ movies[m].shows <= movies[m].planned - 1
                      /\ movies[m].shows + (edits[c].plans - 1) = movies[m].planned - 1
                    BY <1>1, <2>2
                <4> QED BY <1>1, <2>2, <4>1, <4>2
            <3> QED BY <2>3, <3>1, <3>2
        <2>5. /\ row \in MovieRow /\ row.shows = s /\ row.planned = n /\ row.published = movies[m].published
              /\ row.status = movies[m].status /\ row.from = movies[m].from /\ row.to = movies[m].to
            BY <2>1, <2>4 DEF MovieRow
        <2>6. row # Movie!NoMovie
            BY <2>4 DEF Movie!NoMovie
        <2>7. RowHolds(row) /\ RowMoves(movies[m], row)
            <3>1. RowHolds(movies[m])
                BY <1>1 DEF MovieInv
            <3> QED BY <2>1, <2>4, <2>5, <2>6, <3>1 DEF RowHolds, RowMoves
        <2>8. movies'[m] = row
            BY <1>1, <1>2, <2>3 DEF MovieType
        <2>9. EditHolds(k)'
            <3>1. /\ k.at = "shows" /\ movies'[k.movie] # Movie!NoMovie
                  /\ movies'[k.movie].shows + k.plans = movies'[k.movie].planned
                BY <1>1, <2>4, <2>5, <2>6, <2>8
            <3> QED BY <3>1 DEF EditHolds
        <2>10. edits[c].movie = m /\ movies[m].shows < movies[m].planned
            BY <1>1, <2>2
        <2>11. k \in CreateCall => edits[c] \in CreateCall /\ edits[c].movie = k.movie
            BY <1>1, <2>10
        <2>12. UNCHANGED <<created, audit, edited>> /\ row \in MovieRow \cup GoneRow
            BY <1>2, <2>5
        <2> HIDE DEF RowHolds, RowMoves, EditHolds
        <2> QED BY <1>1, <1>2, <1>5, <2>3, <2>7, <2>9, <2>10, <2>11, <2>12, MovieWritten
    <1> QED BY <1>3, <1>4, <1>5

LEMMA UpdateInv ==
    ASSUME MovieInv, NEW c \in Callers, Movie!WriteUpdate(c), UNCHANGED edited
    PROVE  MovieInv'
    <1> DEFINE m == edits[c].movie
               row == [movies[m] EXCEPT !.from = edits[c].from, !.to = edits[c].to, !.content = edits[c].content]
    <1>1. /\ edits[c].at = "update" /\ edits[c] \in UpdateCall /\ m \in Movies
          /\ EditHolds(edits[c]) /\ edits[c].from < edits[c].to
        BY EditAt, KindsOfEdits DEF Movie!WriteUpdate, Movie!At, EditHolds
    <1>2. CASE ~Movie!Exists(m)
        <2>1. Movie!Return(c) /\ UNCHANGED <<movies, created, audit>>
            BY <1>2 DEF Movie!WriteUpdate, Movie!Write, Movie!Movie
        <2>2. edited' \in BOOLEAN
            BY DEF MovieInv, MovieType
        <2> QED BY <2>1, <2>2, EditEnds
    <1>3. CASE Movie!Exists(m)
        <2>1. movies[m] \in MovieRow /\ movies[m] # Movie!NoMovie
            BY <1>1, <1>3, ExistingRows DEF MovieInv
        <2>2. PICK at \in {"cast", "done"} :
                  /\ movies' = [movies EXCEPT ![m] = row] /\ UNCHANGED <<created, audit, edited>>
                  /\ edits' = [edits EXCEPT ![c] = [edits[c] EXCEPT !.at = at]]
                  /\ at = "cast" => edits[c].cast # Movie!NoList
            BY <1>3 DEF Movie!WriteUpdate, Movie!Write, Movie!Movie, Movie!To, Movie!UpdatedRow
        <2>3. PICK k \in UpdateCall :
                  /\ edits' = [edits EXCEPT ![c] = k]
                  /\ k.at = at /\ k.movie = m /\ k.cast = edits[c].cast
            <3>1. PICK k : k = [edits[c] EXCEPT !.at = at]
                OBVIOUS
            <3>2. k \in UpdateCall
                BY <1>1, <2>2, <3>1, EditAt
            <3>3. k.at = at /\ k.movie = m /\ k.cast = edits[c].cast
                BY <1>1, <3>1 DEF UpdateCall
            <3>4. edits' = [edits EXCEPT ![c] = k]
                BY <2>2, <3>1
            <3> QED BY <3>2, <3>3, <3>4
        <2>4. row = [status |-> movies[m].status, from |-> edits[c].from, to |-> edits[c].to,
                     content |-> edits[c].content, cast |-> movies[m].cast, shows |-> movies[m].shows,
                     planned |-> movies[m].planned, published |-> movies[m].published]
            <3>1. ASSUME NEW x \in MovieRow, NEW from, NEW to, NEW text
                  PROVE  [x EXCEPT !.from = from, !.to = to, !.content = text] =
                            [status |-> x.status, from |-> from, to |-> to, content |-> text,
                             cast |-> x.cast, shows |-> x.shows, planned |-> x.planned,
                             published |-> x.published]
                <4> DEFINE y == [x EXCEPT !.from = from]
                           z == [y EXCEPT !.to = to]
                <4>1. [x EXCEPT !.from = from, !.to = to, !.content = text] = [z EXCEPT !.content = text]
                    OBVIOUS
                <4>2. y = [status |-> x.status, from |-> from, to |-> x.to, content |-> x.content,
                           cast |-> x.cast, shows |-> x.shows, planned |-> x.planned, published |-> x.published]
                    BY DEF MovieRow
                <4> HIDE DEF y
                <4>3. z = [status |-> x.status, from |-> from, to |-> to, content |-> x.content,
                           cast |-> x.cast, shows |-> x.shows, planned |-> x.planned, published |-> x.published]
                    BY <4>2
                <4> HIDE DEF z
                <4>4. [z EXCEPT !.content = text] =
                          [status |-> x.status, from |-> from, to |-> to, content |-> text,
                           cast |-> x.cast, shows |-> x.shows, planned |-> x.planned, published |-> x.published]
                    BY <4>3
                <4> QED BY <4>1, <4>4
            <3> QED BY <2>1, <3>1
        <2>5. /\ row \in MovieRow /\ RowHolds(row) /\ RowMoves(movies[m], row)
              /\ row.shows = movies[m].shows /\ row.planned = movies[m].planned
            <3>1. row \in MovieRow
                BY <1>1, <2>1, <2>4 DEF MovieRow, UpdateCall
            <3>2. row # Movie!NoMovie
                BY <2>4 DEF Movie!NoMovie
            <3> QED BY <1>1, <2>1, <2>4, <3>1, <3>2 DEF RowHolds, RowMoves, MovieInv
        <2>6. k.cast \in Casts \cup {Movie!NoList} /\ k \notin CreateCall
            BY DEF UpdateCall, CreateCall
        <2> HIDE DEF m, row
        <2>7. movies'[m] = row
            BY <1>1, <2>2 DEF MovieInv, MovieType
        <2>8. EditHolds(k)'
            BY <1>1, <2>1, <2>2, <2>3, <2>5, <2>6, <2>7 DEF EditHolds, RowMoves
        <2>9. k \in EditCall
            BY DEF EditCall
        <2> QED BY <1>1, <1>3, <2>2, <2>3, <2>5, <2>6, <2>8, <2>9, MovieWritten
    <1> QED BY <1>2, <1>3

LEMMA DeleteInv ==
    ASSUME MovieInv, NEW c \in Callers, Movie!WriteDelete(c), UNCHANGED edited
    PROVE  MovieInv'
    <1> DEFINE m == edits[c].movie
               row == Movie!Gone(movies[m].status)
    <1>1. edits[c].at = "delete" /\ edits[c] \in DeleteCall /\ m \in Movies
        BY EditAt, KindsOfEdits DEF Movie!WriteDelete, Movie!At
    <1>2. CASE ~Movie!Exists(m)
        <2>1. Movie!Return(c) /\ UNCHANGED <<movies, created, audit>>
            BY <1>2 DEF Movie!WriteDelete, Movie!Write, Movie!Movie
        <2>2. edited' \in BOOLEAN
            BY DEF MovieInv, MovieType
        <2> QED BY <2>1, <2>2, EditEnds
    <1>3. CASE Movie!Exists(m)
        <2>1. movies[m] \in MovieRow /\ movies[m] # Movie!NoMovie
            BY <1>1, <1>3, ExistingRows DEF MovieInv
        <2>2. /\ movies' = [movies EXCEPT ![m] = row] /\ UNCHANGED <<created, audit, edited>>
              /\ edits' = [edits EXCEPT ![c] = [edits[c] EXCEPT !.at = "done"]]
            BY <1>3 DEF Movie!WriteDelete, Movie!Write, Movie!Movie, Movie!To
        <2>3. PICK k \in DeleteCall :
                  edits' = [edits EXCEPT ![c] = k] /\ k.at = "done" /\ k.movie = m
            BY <1>1, <2>2, EditAt
        <2>4. row \in GoneRow /\ row # Movie!NoMovie /\ row \notin MovieRow
            BY <2>1 DEF Movie!Gone, GoneRow, MovieRow, Movie!NoMovie
        <2>5. RowHolds(row) /\ RowMoves(movies[m], row)
            BY <2>4 DEF RowHolds, RowMoves
        <2>6. k \in EditCall /\ k \notin CreateCall
            BY DEF EditCall, DeleteCall, CreateCall
        <2> HIDE DEF m, row
        <2>7. movies'[m] = row
            BY <1>1, <2>2 DEF MovieInv, MovieType
        <2>8. EditHolds(k)'
            BY <2>3, <2>4, <2>6, <2>7 DEF EditHolds
        <2> QED BY <1>1, <1>3, <2>2, <2>3, <2>4, <2>5, <2>6, <2>8, MovieWritten
    <1> QED BY <1>2, <1>3

LEMMA DecisionInv ==
    ASSUME MovieInv, NEW c \in Callers, Movie!Publish(c) \/ Movie!WriteStatus(c), UNCHANGED edited
    PROVE  MovieInv'
    <1> DEFINE m == edits[c].movie
               row == IF edits[c].at = "publish" THEN [movies[m] EXCEPT !.published = TRUE]
                      ELSE [movies[m] EXCEPT !.status = edits[c].status]
    <1>1. /\ edits[c].at \in {"publish", "status"} /\ edits[c] \in StatusCall /\ m \in Movies
          /\ EditHolds(edits[c])
          /\ Movie!Publish(c) <=> edits[c].at = "publish"
        BY EditAt, KindsOfEdits DEF Movie!Publish, Movie!WriteStatus, Movie!At
    <1>2. CASE ~Movie!Exists(m)
        <2>1. Movie!Return(c) /\ UNCHANGED <<movies, created, audit>>
            BY <1>2 DEF Movie!Publish, Movie!WriteStatus, Movie!Write, Movie!Movie
        <2>2. edited' \in BOOLEAN
            BY DEF MovieInv, MovieType
        <2> QED BY <2>1, <2>2, EditEnds
    <1>3. CASE Movie!Exists(m)
        <2>1. movies[m] \in MovieRow /\ movies[m] # Movie!NoMovie
            BY <1>1, <1>3, ExistingRows DEF MovieInv
        <2>2. PICK at \in {"status", "audit", "done"} :
                  /\ movies' = [movies EXCEPT ![m] = row] /\ UNCHANGED <<created, audit, edited>>
                  /\ edits' = [edits EXCEPT ![c] = [edits[c] EXCEPT !.at = at]]
                  /\ at = "status" <=> edits[c].at = "publish"
                  /\ at = "audit" => edits[c].status # "SUBMITTED"
            BY <1>1, <1>3 DEF Movie!Publish, Movie!WriteStatus, Movie!SetStatus, Movie!Write, Movie!Movie,
                              Movie!To, Movie!At
        <2>3. PICK k \in StatusCall :
                  /\ edits' = [edits EXCEPT ![c] = k]
                  /\ k.at = at /\ k.movie = m /\ k.status = edits[c].status
            BY <1>1, <2>2, EditAt
        <2>4. /\ edits[c].at = "status" /\ edits[c].status = "APPROVED" => movies[m].published
              /\ edits[c].status \in {"SUBMITTED", "APPROVED", "REJECTED"}
              /\ edits[c].at = "publish" => edits[c].status = "APPROVED"
            BY <1>1, <1>3 DEF EditHolds, StatusCall
        <2>5. /\ row \in MovieRow /\ RowHolds(row) /\ RowMoves(movies[m], row)
              /\ row.shows = movies[m].shows /\ row.planned = movies[m].planned
              /\ edits[c].at = "publish" => row.published
              /\ movies[m].published => row.published
            <3>1. \/ edits[c].at = "publish"
                     /\ row = [status |-> movies[m].status, from |-> movies[m].from, to |-> movies[m].to,
                     content |-> movies[m].content, cast |-> movies[m].cast, shows |-> movies[m].shows,
                     planned |-> movies[m].planned, published |-> TRUE]
                  \/ edits[c].at = "status"
                     /\ row = [status |-> edits[c].status, from |-> movies[m].from, to |-> movies[m].to,
                     content |-> movies[m].content, cast |-> movies[m].cast, shows |-> movies[m].shows,
                     planned |-> movies[m].planned, published |-> movies[m].published]
                BY <1>1, <2>1 DEF MovieRow
            <3> HIDE DEF row
            <3>2. row \in MovieRow
                <4>1. CASE edits[c].at = "publish"
                    <5>1. [status |-> movies[m].status, from |-> movies[m].from, to |-> movies[m].to,
                           content |-> movies[m].content, cast |-> movies[m].cast, shows |-> movies[m].shows,
                           planned |-> movies[m].planned, published |-> TRUE] \in MovieRow
                        BY <2>1 DEF MovieRow
                    <5> QED BY <3>1, <4>1, <5>1
                <4>2. CASE edits[c].at = "status"
                    <5>1. edits[c].status \in {"DRAFT", "SUBMITTED", "APPROVED", "REJECTED"}
                        BY <2>4
                    <5> QED BY <2>1, <3>1, <4>2, <5>1 DEF MovieRow
                <4> QED BY <1>1, <4>1, <4>2
            <3>3. row # Movie!NoMovie
                BY <3>1 DEF Movie!NoMovie
            <3>4. RowHolds(row)
                BY <1>1, <2>1, <2>4, <3>1 DEF RowHolds, MovieInv
            <3> QED BY <2>1, <3>1, <3>2, <3>3, <3>4 DEF RowMoves
        <2>6. k \in EditCall /\ k \notin CreateCall
            BY DEF EditCall, StatusCall, CreateCall
        <2> HIDE DEF m, row
        <2>7. movies'[m] = row
            BY <1>1, <2>2 DEF MovieInv, MovieType
        <2>8. /\ k.at \in {"status", "audit", "done"} /\ movies'[k.movie] = row /\ row # Movie!NoMovie
              /\ k.at = "audit" => k.status # "SUBMITTED"
              /\ (k.at \in {"status", "audit"} /\ k.status = "APPROVED") => row.published
            <3>1. k.at \in {"status", "audit", "done"} /\ (k.at = "audit" => k.status # "SUBMITTED")
                BY <2>2, <2>3
            <3>2. movies'[k.movie] = row /\ row # Movie!NoMovie
                BY <2>1, <2>3, <2>5, <2>7 DEF RowMoves
            <3>3. k.status = "APPROVED" => row.published
                BY <1>1, <2>3, <2>4, <2>5
            <3> QED BY <3>1, <3>2, <3>3
        <2>9. EditHolds(k)' /\ k.at # "insert"
            BY <2>6, <2>8 DEF EditHolds
        <2>10. movies' = [movies EXCEPT ![m] = row] /\ UNCHANGED <<created, audit, edited>>
               /\ edits' = [edits EXCEPT ![c] = k]
            BY <2>2, <2>3
        <2> HIDE DEF RowHolds, RowMoves, EditHolds
        <2> QED BY <1>1, <1>3, <2>5, <2>6, <2>9, <2>10, MovieWritten
    <1> QED BY <1>2, <1>3

LEMMA EditEndsInv ==
    ASSUME MovieInv, NEW c \in Callers,
           \/ (Movie!CreateDone(c) \/ Movie!AuditEntry(c) \/ Movie!Done(c)) /\ UNCHANGED edited
           \/ Movie!Fail(c)
    PROVE  MovieInv'
    <1>1. edited' \in BOOLEAN
        BY DEF MovieInv, MovieType, Movie!Fail
    <1>2. CASE Movie!Done(c)
        BY <1>1, <1>2, EditEnds DEF Movie!Done
    <1>3. CASE Movie!Fail(c)
        BY <1>1, <1>3, EditEnds DEF Movie!Fail, Movie!Thrown, Movie!Return
    <1>4. Movie!Idle \in EditCall /\ Movie!Idle \notin CreateCall /\ EditHolds(Movie!Idle)
        BY DEF EditCall, Movie!Idle, EditHolds, CreateCall
    <1>5. CASE Movie!CreateDone(c)
        <2>1. /\ edits[c].at = "shows" /\ edits[c] \in CreateCall /\ edits[c].movie \in Movies
              /\ EditHolds(edits[c])
            BY <1>5, EditAt, KindsOfEdits DEF Movie!CreateDone, Movie!At
        <2>2. PICK m \in Movies : m = edits[c].movie
            BY <2>1
        <2>3. /\ edits' = [edits EXCEPT ![c] = Movie!Idle] /\ created' = created \cup {m}
              /\ UNCHANGED <<movies, audit>> /\ edits[c].plans = 0
            BY <1>5, <2>2 DEF Movie!CreateDone, Movie!Return, Movie!Movie
        <2>4. movies[m] # Movie!NoMovie /\ (Movie!Exists(m) => movies[m].shows = movies[m].planned)
            <3>1. Movie!Exists(m) => movies[m].shows + 0 = movies[m].planned /\ movies[m].shows \in Nat
                BY <2>1, <2>2, <2>3, ExistingRows DEF EditHolds, MovieInv, MovieRow
            <3> QED BY <2>1, <2>2, <3>1 DEF EditHolds
        <2> QED BY <1>1, <1>4, <2>3, <2>4, EditQuiet
    <1>6. CASE Movie!AuditEntry(c)
        <2>1. /\ edits[c].at = "audit" /\ edits[c] \in StatusCall /\ edits[c].movie \in Movies
              /\ EditHolds(edits[c]) /\ edits[c].status \in {"SUBMITTED", "APPROVED", "REJECTED"}
            BY <1>6, EditAt, KindsOfEdits DEF Movie!AuditEntry, Movie!At, StatusCall
        <2>2. edits[c].status \in {"APPROVED", "REJECTED"}
            BY <2>1 DEF EditHolds
        <2>3. PICK m \in Movies, s \in {"APPROVED", "REJECTED"} : m = edits[c].movie /\ s = edits[c].status
            BY <2>1, <2>2
        <2>4. /\ edits' = [edits EXCEPT ![c] = Movie!Idle] /\ audit' = audit \cup {<<m, s>>}
              /\ UNCHANGED <<movies, created>> /\ movies[m] # Movie!NoMovie
              /\ (s = "APPROVED" /\ Movie!Exists(m)) => movies[m].published
            BY <1>6, <2>1, <2>3 DEF Movie!AuditEntry, Movie!Return, Movie!Movie, EditHolds
        <2> QED BY <1>1, <1>4, <2>4, EditQuiet
    <1> QED BY <1>2, <1>3, <1>5, <1>6

LEMMA MovieSteps ==
    ASSUME MovieInv, [Movie!Next]_(Movie!vars)
    PROVE  MovieInv'
    <1>1. CASE UNCHANGED Movie!vars
        BY <1>1 DEF Movie!vars, MovieInv, MovieType, EditHolds, Movie!Exists
    <1>2. ASSUME NEW c \in Callers, Movie!CallStep(c) PROVE MovieInv'
        BY <1>2, InsertInv, CastInv, ShowtimeInv, UpdateInv, DeleteInv, DecisionInv, EditEndsInv
           DEF Movie!CallStep
    <1>3. ASSUME NEW c \in Callers, NEW m \in Movies, Movie!PartnerStep(c, m) \/ Movie!AdminStep(c, m)
          PROVE  MovieInv'
        <2>1. CASE \E from, to \in Movie!Days, content \in Content, list \in Casts \cup {Movie!NoList},
                       n \in 0 .. MaxPlans : Movie!CreateMovie(c, m, from, to, content, list, n)
            BY <2>1, CreationBegins
        <2>2. CASE \E from, to \in Movie!Days \cup {Movie!NotGiven}, content \in Content,
                       list \in Casts \cup {Movie!NoList} : Movie!UpdateMovie(c, m, from, to, content, list)
            BY <2>2, UpdateBegins
        <2> QED BY <1>3, <2>1, <2>2, ShortCallsBegin DEF Movie!PartnerStep
    <1> QED BY <1>1, <1>2, <1>3 DEF Movie!Next

LEMMA MovieStarts == Movie!Init => MovieInv
    <1> SUFFICES ASSUME Movie!Init PROVE MovieInv
        OBVIOUS
    <1>1. /\ \A m \in Movies : movies[m] = Movie!NoMovie
          /\ \A c \in Callers : edits[c] = Movie!Idle /\ edits[c].at = "idle"
          /\ created = {} /\ audit = {}
        BY DEF Movie!Init, Movie!Idle
    <1>2. MovieType
        BY DEF Movie!Init, MovieType, EditCall
    <1>3. \A c \in Callers : EditHolds(edits[c])
        BY <1>1 DEF EditHolds, CreateCall, Movie!Idle
    <1>4. Movie!NoMovie \notin MovieRow /\ Movie!Idle \notin CreateCall
        BY DEF Movie!NoMovie, MovieRow, Movie!Idle, CreateCall
    <1> QED BY <1>1, <1>2, <1>3, <1>4 DEF MovieInv, RowHolds

\* What holds as long as nothing disturbs the calls, of which k is under way.
EditCalm(k) ==
    /\ k.at = "delete" => movies[k.movie].status = "DRAFT"
    /\ k.at \in {"publish", "status"} =>
          movies[k.movie].status = IF k.status = "SUBMITTED" THEN "DRAFT" ELSE "SUBMITTED"
CatalogueCalm(k) ==
    /\ EditCalm(k)
    /\ \A m \in Movies : movies[m].status = "gone" => movies[m].was = "DRAFT"
    /\ \A m \in Movies : (movies[m] \in MovieRow /\ movies[m].published) =>
          \/ movies[m].status = "APPROVED"
          \/ k.at = "status" /\ k.status = "APPROVED" /\ k.movie = m
OnlyEdit(k) ==
    \/ k = Movie!Idle /\ \A d \in Callers : edits[d] = Movie!Idle
    \/ \E c \in Callers : edits[c] = k /\ \A d \in Callers : d # c => edits[d] = Movie!Idle
MovieCalm == ~edited => \E k \in EditCall : CatalogueCalm(k) /\ OnlyEdit(k)

LEMMA OneEdit ==
    ASSUME MovieType, MovieCalm, ~edited, NEW c \in Callers,
           edits[c] # Movie!Idle \/ \A d \in Callers : edits[d] = Movie!Idle
    PROVE  CatalogueCalm(edits[c]) /\ \A d \in Callers : d # c => edits[d] = Movie!Idle
    BY DEF MovieCalm, OnlyEdit

LEMMA MovieStaysCalm ==
    ASSUME MovieType, NEW c \in Callers, \A d \in Callers : d # c => edits[d] = Movie!Idle,
           NEW k \in EditCall, edits' = [edits EXCEPT ![c] = k], CatalogueCalm(k)'
    PROVE  MovieCalm'
    <1>1. edits'[c] = k /\ \A d \in Callers : d # c => edits'[d] = Movie!Idle
        BY DEF MovieType
    <1>2. OnlyEdit(k)'
        BY <1>1 DEF OnlyEdit
    <1> QED BY <1>2 DEF MovieCalm

LEMMA MovieCalmBegins ==
    ASSUME MovieType, MovieCalm, NEW c \in Callers, NEW k \in EditCall, Movie!Start(c, k),
           UNCHANGED movies, EditCalm(k)
    PROVE  MovieCalm'
    <1>1. CASE edited'
        BY <1>1 DEF MovieCalm
    <1>2. CASE ~edited'
        <2>1. /\ ~edited /\ edits[c] = Movie!Idle /\ \A d \in Callers : edits[d] = Movie!Idle
              /\ edits' = [edits EXCEPT ![c] = k]
            BY <1>2 DEF Movie!Start, Movie!MayStart
        <2>2. CatalogueCalm(Movie!Idle)
            BY <2>1, OneEdit
        <2>3. CatalogueCalm(k)'
            BY <2>2 DEF CatalogueCalm, EditCalm, Movie!Idle
        <2> QED BY <2>1, <2>3, MovieStaysCalm
    <1> QED BY <1>1, <1>2

LEMMA MovieCalmGoesOn ==
    ASSUME MovieType, MovieCalm, UNCHANGED edited, NEW c \in Callers, edits[c] # Movie!Idle,
           NEW k \in EditCall, edits' = [edits EXCEPT ![c] = k],
           CatalogueCalm(edits[c]) => CatalogueCalm(k)'
    PROVE  MovieCalm'
    <1>1. CASE edited
        BY <1>1 DEF MovieCalm
    <1>2. CASE ~edited
        <2>1. CatalogueCalm(edits[c]) /\ \A d \in Callers : d # c => edits[d] = Movie!Idle
            BY <1>2, OneEdit
        <2> QED BY <2>1, MovieStaysCalm
    <1> QED BY <1>1, <1>2

LEMMA MovieRequestsCalm ==
    ASSUME MovieInv, MovieCalm, NEW c \in Callers, NEW m \in Movies,
           Movie!PartnerStep(c, m) \/ Movie!AdminStep(c, m)
    PROVE  MovieCalm'
    <1>1. MovieType
        BY DEF MovieInv
    <1>2. PICK k \in EditCall : Movie!Start(c, k) /\ UNCHANGED movies /\ EditCalm(k)
        <2>0. ASSUME NEW k, Movie!Start(c, k), MovieInv'
              PROVE  k \in EditCall
            <3>1. edits'[c] = k
                BY <1>1, <2>0 DEF Movie!Start, MovieType
            <3> QED BY <2>0, <3>1 DEF MovieInv, MovieType
        <2>1. MovieInv'
            BY MovieSteps DEF Movie!Next
        <2>2. ASSUME NEW from \in Movie!Days, NEW to \in Movie!Days, NEW content \in Content,
                     NEW list \in Casts \cup {Movie!NoList}, NEW n \in 0 .. MaxPlans,
                     Movie!CreateMovie(c, m, from, to, content, list, n)
              PROVE  \E k \in EditCall : Movie!Start(c, k) /\ UNCHANGED movies /\ EditCalm(k)
            <3> DEFINE k == [at |-> "insert", movie |-> m, row |-> Movie!DraftRow(from, to, content),
                             cast |-> list, plans |-> n]
            <3>1. Movie!Start(c, k) /\ UNCHANGED movies
                BY <2>2 DEF Movie!CreateMovie
            <3>2. EditCalm(k)
                BY DEF EditCalm
            <3> HIDE DEF k
            <3> QED BY <2>0, <2>1, <3>1, <3>2
        <2>3. ASSUME NEW from \in Movie!Days \cup {Movie!NotGiven}, NEW to \in Movie!Days \cup {Movie!NotGiven},
                     NEW content \in Content, NEW list \in Casts \cup {Movie!NoList},
                     Movie!UpdateMovie(c, m, from, to, content, list)
              PROVE  \E k \in EditCall : Movie!Start(c, k) /\ UNCHANGED movies /\ EditCalm(k)
            <3> DEFINE k == [at |-> "update", movie |-> m, from |-> Movie!Parsed(from, movies[m].from),
                             to |-> Movie!Parsed(to, movies[m].to), content |-> content,
                             cast |-> list, given |-> [from |-> from, to |-> to]]
            <3>1. Movie!Start(c, k) /\ UNCHANGED movies
                BY <2>3 DEF Movie!UpdateMovie
            <3>2. EditCalm(k)
                BY DEF EditCalm
            <3> HIDE DEF k
            <3> QED BY <2>0, <2>1, <3>1, <3>2
        <2>4. CASE Movie!DeleteMovie(c, m)
            <3> DEFINE k == [at |-> "delete", movie |-> m]
            <3>1. Movie!Start(c, k) /\ UNCHANGED movies /\ EditCalm(k)
                BY <2>4 DEF Movie!DeleteMovie, Movie!Deletable, EditCalm
            <3> HIDE DEF k
            <3> QED BY <2>0, <2>1, <3>1
        <2>5. CASE Movie!SubmitMovie(c, m)
            <3> DEFINE k == [at |-> "status", movie |-> m, status |-> "SUBMITTED"]
            <3>1. Movie!Start(c, k) /\ UNCHANGED movies /\ EditCalm(k)
                BY <2>5 DEF Movie!SubmitMovie, EditCalm
            <3> HIDE DEF k
            <3> QED BY <2>0, <2>1, <3>1
        <2>6. CASE Movie!ApproveMovie(c, m)
            <3> DEFINE k == [at |-> "publish", movie |-> m, status |-> "APPROVED"]
            <3>1. Movie!Start(c, k) /\ UNCHANGED movies /\ EditCalm(k)
                BY <2>6 DEF Movie!ApproveMovie, Movie!FirstWrite, EditCalm
            <3> HIDE DEF k
            <3> QED BY <2>0, <2>1, <3>1
        <2>7. CASE Movie!RejectMovie(c, m)
            <3> DEFINE k == [at |-> "status", movie |-> m, status |-> "REJECTED"]
            <3>1. Movie!Start(c, k) /\ UNCHANGED movies /\ EditCalm(k)
                BY <2>7 DEF Movie!RejectMovie, Movie!Rejectable, EditCalm
            <3> HIDE DEF k
            <3> QED BY <2>0, <2>1, <3>1
        <2>8. CASE Movie!PartnerStep(c, m)
            <3>1. CASE \E from, to \in Movie!Days, content \in Content, list \in Casts \cup {Movie!NoList},
                           n \in 0 .. MaxPlans : Movie!CreateMovie(c, m, from, to, content, list, n)
                BY <2>2, <3>1
            <3>2. CASE \E from, to \in Movie!Days \cup {Movie!NotGiven}, content \in Content,
                           list \in Casts \cup {Movie!NoList} : Movie!UpdateMovie(c, m, from, to, content, list)
                BY <2>3, <3>2
            <3> QED BY <2>4, <2>5, <2>8, <3>1, <3>2 DEF Movie!PartnerStep
        <2> QED BY <2>6, <2>7, <2>8 DEF Movie!AdminStep
    <1> QED BY <1>1, <1>2, MovieCalmBegins

\* A call ends, or goes on after a write that leaves status and publication.
RowsStayCalm(c) ==
    \A m \in Movies :
       \/ movies'[m] = movies[m]
       \/ movies'[m].status = "gone" /\ (CatalogueCalm(edits[c]) => movies'[m].was = "DRAFT")
       \/ /\ movies[m] \in MovieRow /\ movies'[m].status = movies[m].status
          /\ movies'[m].published = movies[m].published
       \/ movies'[m].status = "DRAFT" /\ ~movies'[m].published
LEMMA CalmAsBefore ==
    ASSUME MovieInv, MovieType', MovieCalm, UNCHANGED edited, NEW c \in Callers, edits[c] # Movie!Idle,
           edits[c].at \notin {"publish", "status"},
           NEW k \in EditCall, edits' = [edits EXCEPT ![c] = k],
           k.at \notin {"delete", "publish", "status"},
           RowsStayCalm(c)
    PROVE  MovieCalm'
    <1>1. MovieType
        BY DEF MovieInv
    <1>2. ASSUME CatalogueCalm(edits[c])
          PROVE  CatalogueCalm(k)'
        <2>1. EditCalm(k)'
            BY DEF EditCalm
        <2>2. ASSUME NEW m \in Movies
              PROVE  /\ movies'[m].status = "gone" => movies'[m].was = "DRAFT"
                     /\ (movies'[m] \in MovieRow /\ movies'[m].published) => movies'[m].status = "APPROVED"
            <3>1. movies[m] \in MovieRow => movies[m].status # "gone"
                BY DEF MovieRow
            <3>2. movies'[m] \in MovieRow => movies'[m].status # "gone"
                BY DEF MovieRow
            <3> QED BY <1>2, <3>1, <3>2 DEF CatalogueCalm, RowsStayCalm
        <2> QED BY <2>1, <2>2 DEF CatalogueCalm
    <1> QED BY <1>1, <1>2, MovieCalmGoesOn

LEMMA EditEndsCalm ==
    ASSUME MovieInv, MovieCalm, UNCHANGED <<movies, edited>>, NEW c \in Callers, edits[c] # Movie!Idle,
           Movie!Return(c), edits[c].at = "status" => ~Movie!Exists(edits[c].movie)
    PROVE  MovieCalm'
    <1>1. MovieType /\ \A m \in Movies : Movie!Exists(m) <=> movies[m] \in MovieRow
        BY ExistingRows DEF MovieInv
    <1>2. Movie!Idle \in EditCall /\ Movie!Idle.at = "idle" /\ edits' = [edits EXCEPT ![c] = Movie!Idle]
        BY DEF EditCall, Movie!Idle, Movie!Return
    <1>3. CatalogueCalm(edits[c]) => CatalogueCalm(Movie!Idle)'
        BY <1>1, <1>2 DEF CatalogueCalm, EditCalm
    <1> QED BY <1>1, <1>2, <1>3, MovieCalmGoesOn

LEMMA MovieCallsCalm ==
    ASSUME MovieInv, MovieInv', MovieCalm, NEW c \in Callers, Movie!CallStep(c)
    PROVE  MovieCalm'
    <1> DEFINE m == edits[c].movie
    <1>1. MovieType /\ MovieType'
        BY DEF MovieInv
    <1>2. edits[c] \in EditCall /\ EditHolds(edits[c]) /\ (edits[c] = Movie!Idle <=> edits[c].at = "idle")
          /\ (edits[c].at # "idle" => m \in Movies)
        BY EditAt, KindsOfEdits
    <1>3. m \in Movies => (Movie!Exists(m) <=> movies[m] \in MovieRow)
        BY <1>1, ExistingRows
    <1>4. ASSUME NEW at, edits' = [edits EXCEPT ![c] = [edits[c] EXCEPT !.at = at]], edits[c].at # "idle"
          PROVE  /\ [edits[c] EXCEPT !.at = at] \in EditCall
                 /\ [edits[c] EXCEPT !.at = at].at = at /\ [edits[c] EXCEPT !.at = at].movie = m
                 /\ edits[c] \in StatusCall => [edits[c] EXCEPT !.at = at].status = edits[c].status
        <2>1. edits'[c] = [edits[c] EXCEPT !.at = at]
            BY <1>1, <1>4 DEF MovieType
        <2> QED BY <1>1, <1>4, <2>1, EditAt DEF MovieType
    <1>5. CASE Movie!Fail(c)
        BY <1>5 DEF Movie!Fail, MovieCalm
    <1>6. CASE (Movie!CreateDone(c) \/ Movie!AuditEntry(c) \/ Movie!Done(c)) /\ UNCHANGED edited
        <2>1. edits[c].at \in {"shows", "audit", "done"} /\ Movie!Return(c) /\ UNCHANGED movies
            BY <1>6 DEF Movie!CreateDone, Movie!AuditEntry, Movie!Done, Movie!At
        <2> QED BY <1>2, <1>6, <2>1, EditEndsCalm
    <1>7. CASE Movie!InsertMovie(c) /\ UNCHANGED edited
        <2> DEFINE row == [edits[c].row EXCEPT !.planned = edits[c].plans]
        <2>1. /\ edits[c].at = "insert" /\ edits[c].row \in MovieRow
              /\ edits[c].row.status = "DRAFT" /\ ~edits[c].row.published
            BY <1>2, <1>7, KindsOfEdits DEF Movie!InsertMovie, Movie!At, CreateCall, EditHolds
        <2>2. PICK at \in {"cast", "shows"} :
                  /\ edits' = [edits EXCEPT ![c] = [edits[c] EXCEPT !.at = at]]
                  /\ movies' = [movies EXCEPT ![m] = row]
            BY <1>7 DEF Movie!InsertMovie, Movie!To, Movie!Movie
        <2>3. PICK k \in EditCall : edits' = [edits EXCEPT ![c] = k] /\ k.at \in {"cast", "shows"}
            BY <1>4, <2>1, <2>2
        <2>4. row.status = "DRAFT" /\ ~row.published
            BY <2>1 DEF MovieRow
        <2> HIDE DEF row, m
        <2>5. RowsStayCalm(c)
            BY <1>1, <2>2, <2>4 DEF MovieType, RowsStayCalm
        <2>6. /\ k.at \notin {"delete", "publish", "status"} /\ edits[c].at \notin {"publish", "status"}
              /\ edits[c] # Movie!Idle
            BY <1>2, <2>1, <2>3
        <2> QED BY <1>1, <1>7, <2>3, <2>5, <2>6, CalmAsBefore
    <1>8. ASSUME UNCHANGED edited, NEW row, NEW at, edits[c].at # "idle",
                 Movie!Write(c, row, at)
          PROVE  \/ ~Movie!Exists(m) /\ MovieCalm'
                 \/ /\ Movie!Exists(m) /\ movies[m] \in MovieRow
                    /\ movies' = [movies EXCEPT ![m] = row]
                    /\ \A x \in Movies : /\ x = m => movies'[x] = row
                                         /\ x # m => movies'[x] = movies[x]
                    /\ \E k \in EditCall :
                          /\ edits' = [edits EXCEPT ![c] = k] /\ k.at = at /\ k.movie = m
                          /\ edits[c] \in StatusCall => k.status = edits[c].status
        <2>1. CASE ~Movie!Exists(m)
            <3>1. Movie!Return(c) /\ UNCHANGED movies
                BY <1>8, <2>1 DEF Movie!Write, Movie!Movie
            <3> QED BY <1>2, <1>8, <2>1, <3>1, EditEndsCalm
        <2>2. CASE Movie!Exists(m)
            <3>1. /\ movies' = [movies EXCEPT ![m] = row]
                  /\ edits' = [edits EXCEPT ![c] = [edits[c] EXCEPT !.at = at]]
                BY <1>8, <2>2 DEF Movie!Write, Movie!Movie, Movie!To
            <3>2. m \in Movies /\ movies[m] \in MovieRow
                BY <1>2, <1>3, <1>8, <2>2
            <3>3. PICK k \in EditCall :
                      /\ edits' = [edits EXCEPT ![c] = k] /\ k.at = at /\ k.movie = m
                      /\ edits[c] \in StatusCall => k.status = edits[c].status
                <4>1. PICK k : k = [edits[c] EXCEPT !.at = at]
                    OBVIOUS
                <4>2. k \in EditCall /\ k.at = at /\ k.movie = m
                    BY <1>4, <1>8, <3>1, <4>1
                <4>3. edits[c] \in StatusCall => k.status = edits[c].status
                    BY <1>4, <1>8, <3>1, <4>1
                <4>4. edits' = [edits EXCEPT ![c] = k]
                    BY <3>1, <4>1
                <4> QED BY <4>2, <4>3, <4>4
            <3> HIDE DEF m
            <3>4. \A x \in Movies : /\ x = m => movies'[x] = row
                                    /\ x # m => movies'[x] = movies[x]
                BY <1>1, <3>1, <3>2 DEF MovieType
            <3> QED BY <2>2, <3>1, <3>2, <3>3, <3>4
        <2> QED BY <2>1, <2>2
    <1>9. CASE (Movie!ReplaceCast(c) \/ Movie!WriteUpdate(c)) /\ UNCHANGED edited
        <2> DEFINE Same(row) == movies[m] \in MovieRow =>
                       row.status = movies[m].status /\ row.published = movies[m].published
        <2>1. PICK row : /\ \E at \in {"shows", "done", "cast"} : Movie!Write(c, row, at)
                         /\ edits[c].at \in {"cast", "update"} /\ Same(row)
            <3>1. CASE Movie!ReplaceCast(c)
                <4> DEFINE r == [movies[m] EXCEPT !.cast = {edits[c].cast}]
                <4>1. Same(r)
                    BY DEF MovieRow
                <4>2. \E at \in {"shows", "done", "cast"} : Movie!Write(c, r, at) /\ edits[c].at = "cast"
                    BY <3>1 DEF Movie!ReplaceCast, Movie!At, Movie!Movie
                <4> HIDE DEF r, Same
                <4> QED BY <4>1, <4>2
            <3>2. CASE Movie!WriteUpdate(c)
                <4> DEFINE r == Movie!UpdatedRow(c)
                <4>1. Same(r)
                    BY DEF MovieRow, Movie!UpdatedRow, Movie!Movie
                <4>2. \E at \in {"shows", "done", "cast"} : Movie!Write(c, r, at) /\ edits[c].at = "update"
                    BY <3>2 DEF Movie!WriteUpdate, Movie!At
                <4> HIDE DEF r, Same
                <4> QED BY <4>1, <4>2
            <3> QED BY <1>9, <3>1, <3>2
        <2>4. PICK at \in {"shows", "done", "cast"} : Movie!Write(c, row, at)
            BY <2>1
        <2>5. edits[c].at # "idle"
            BY <2>1
        <2>2. CASE ~Movie!Exists(m)
            BY <1>8, <1>9, <2>2, <2>4, <2>5
        <2>3. CASE Movie!Exists(m)
            <3>1. PICK k \in EditCall : edits' = [edits EXCEPT ![c] = k] /\ k.at = at
                BY <1>8, <1>9, <2>3, <2>4, <2>5
            <3>2. /\ movies[m] \in MovieRow
                  /\ \A x \in Movies : /\ x = m => movies'[x] = row
                                       /\ x # m => movies'[x] = movies[x]
                BY <1>8, <1>9, <2>3, <2>4, <2>5
            <3>3. RowsStayCalm(c)
                BY <2>1, <3>2 DEF RowsStayCalm
            <3>4. k.at \notin {"delete", "publish", "status"} /\ edits[c].at \notin {"publish", "status"}
                BY <2>1, <3>1
            <3> HIDE DEF m
            <3> QED BY <1>1, <1>2, <1>9, <2>5, <3>1, <3>3, <3>4, CalmAsBefore
        <2> QED BY <2>2, <2>3
    <1>10. CASE Movie!WriteDelete(c) /\ UNCHANGED edited
        <2> DEFINE row == Movie!Gone(movies[m].status)
        <2>1. Movie!Write(c, row, "done") /\ edits[c].at = "delete"
            BY <1>10 DEF Movie!WriteDelete, Movie!At, Movie!Movie
        <2>2. CASE ~Movie!Exists(m)
            BY <1>8, <1>10, <2>1, <2>2
        <2>3. CASE Movie!Exists(m)
            <3>1. PICK k \in EditCall : edits' = [edits EXCEPT ![c] = k] /\ k.at = "done"
                BY <1>8, <1>10, <2>1, <2>3
            <3>2. \A x \in Movies : /\ x = m => movies'[x] = row
                                    /\ x # m => movies'[x] = movies[x]
                BY <1>8, <1>10, <2>1, <2>3
            <3>3. row.status = "gone" /\ (CatalogueCalm(edits[c]) => row.was = "DRAFT")
                BY <2>1 DEF Movie!Gone, CatalogueCalm, EditCalm
            <3> HIDE DEF m, row
            <3>4. RowsStayCalm(c)
                BY <3>2, <3>3 DEF RowsStayCalm
            <3>5. /\ k.at \notin {"delete", "publish", "status"} /\ edits[c].at \notin {"publish", "status"}
                  /\ edits[c] # Movie!Idle
                BY <1>2, <2>1, <3>1
            <3> QED BY <1>1, <1>10, <3>1, <3>4, <3>5, CalmAsBefore
        <2> QED BY <2>2, <2>3
    <1>11. CASE Movie!Publish(c) /\ UNCHANGED edited
        <2> DEFINE row == [movies[m] EXCEPT !.published = TRUE]
        <2>1. Movie!Write(c, row, "status") /\ edits[c].at = "publish" /\ edits[c] \in StatusCall
              /\ edits[c].status = "APPROVED"
            BY <1>2, <1>11, KindsOfEdits DEF Movie!Publish, Movie!At, Movie!Movie, EditHolds
        <2>2. CASE ~Movie!Exists(m)
            BY <1>8, <1>11, <2>1, <2>2
        <2>3. CASE Movie!Exists(m)
            <3>1. PICK k \in EditCall : /\ edits' = [edits EXCEPT ![c] = k] /\ k.at = "status" /\ k.movie = m
                                        /\ k.status = "APPROVED"
                BY <1>8, <1>11, <2>1, <2>3
            <3>2. /\ movies[m] \in MovieRow
                  /\ \A x \in Movies : /\ x = m => movies'[x] = row
                                       /\ x # m => movies'[x] = movies[x]
                BY <1>8, <1>11, <2>1, <2>3
            <3>3. row.status = movies[m].status /\ m \in Movies /\ row.status # "gone"
                BY <1>2, <2>1, <3>2 DEF MovieRow
            <3> HIDE DEF row
            <3>4. ASSUME CatalogueCalm(edits[c]) PROVE CatalogueCalm(k)'
                <4>1. EditCalm(k)'
                    BY <2>1, <3>1, <3>2, <3>3, <3>4 DEF CatalogueCalm, EditCalm
                <4> QED BY <2>1, <3>1, <3>2, <3>3, <3>4, <4>1 DEF CatalogueCalm
            <3> QED BY <1>1, <1>2, <1>11, <2>1, <3>1, <3>4, MovieCalmGoesOn
        <2> QED BY <2>2, <2>3
    <1>12. CASE Movie!WriteStatus(c) /\ UNCHANGED edited
        <2> DEFINE row == Movie!SetStatus(c)
        <2>1. PICK at \in {"done", "audit"} : Movie!Write(c, row, at)
            BY <1>12 DEF Movie!WriteStatus
        <2>2. edits[c].at = "status" /\ edits[c] \in StatusCall /\ edits[c].status \in {"SUBMITTED", "APPROVED", "REJECTED"}
            BY <1>2, <1>12, KindsOfEdits DEF Movie!WriteStatus, Movie!At, StatusCall
        <2>3. CASE ~Movie!Exists(m)
            BY <1>8, <1>12, <2>1, <2>2, <2>3
        <2>4. CASE Movie!Exists(m)
            <3>1. PICK k \in EditCall : edits' = [edits EXCEPT ![c] = k] /\ k.at \in {"done", "audit"}
                BY <1>8, <1>12, <2>1, <2>2, <2>4
            <3>2. /\ movies[m] \in MovieRow
                  /\ \A x \in Movies : /\ x = m => movies'[x] = row
                                       /\ x # m => movies'[x] = movies[x]
                BY <1>8, <1>12, <2>1, <2>2, <2>4
            <3>3. row.status = edits[c].status /\ row.published = movies[m].published
                BY <3>2 DEF Movie!SetStatus, Movie!Movie, MovieRow
            <3> HIDE DEF row
            <3>4. ASSUME CatalogueCalm(edits[c]) PROVE CatalogueCalm(k)'
                <4>1. EditCalm(k)'
                    BY <3>1 DEF EditCalm
                <4>2. \A x \in Movies : movies'[x].status = "gone" => movies'[x].was = "DRAFT"
                    BY <2>2, <3>2, <3>3, <3>4 DEF CatalogueCalm
                <4>3. \A x \in Movies : (movies'[x] \in MovieRow /\ movies'[x].published) => movies'[x].status = "APPROVED"
                    BY <2>2, <3>2, <3>3, <3>4 DEF CatalogueCalm, EditCalm
                <4> QED BY <4>1, <4>2, <4>3 DEF CatalogueCalm
            <3> QED BY <1>1, <1>2, <1>12, <2>2, <3>1, <3>4, MovieCalmGoesOn
        <2> QED BY <2>3, <2>4
    <1>13. CASE (Movie!InsertShowtime(c) \/ Movie!SkipPlan(c)) /\ UNCHANGED edited
        <2>1. PICK k \in EditCall : /\ k = [edits[c] EXCEPT !.plans = @ - 1] /\ k.at = "shows"
                                    /\ edits[c].at = "shows" /\ m \in Movies
            BY <1>13, EditNext DEF EditCall, Movie!InsertShowtime, Movie!SkipPlan
        <2>2. CASE Movie!Return(c) /\ UNCHANGED movies
            BY <1>2, <1>13, <2>1, <2>2, EditEndsCalm
        <2>3. CASE edits' = [edits EXCEPT ![c] = k] /\ UNCHANGED movies
            <3>1. RowsStayCalm(c)
                BY <2>3 DEF RowsStayCalm
            <3> HIDE DEF m
            <3> QED BY <1>1, <1>2, <1>13, <2>1, <2>3, <3>1, CalmAsBefore
        <2>4. ASSUME NEW row, Movie!Exists(m), edits' = [edits EXCEPT ![c] = k],
                     movies' = [movies EXCEPT ![m] = row],
                     movies[m] \in MovieRow => row.status = movies[m].status /\ row.published = movies[m].published
              PROVE  MovieCalm'
            <3> HIDE DEF m
            <3>1. RowsStayCalm(c)
                BY <1>1, <1>3, <2>1, <2>4 DEF RowsStayCalm, MovieType
            <3> QED BY <1>1, <1>2, <1>13, <2>1, <2>4, <3>1, CalmAsBefore
        <2>5. CASE Movie!InsertShowtime(c) /\ Movie!Exists(m)
            <3> DEFINE row == [movies[m] EXCEPT !.shows = @ + 1]
            <3>1. movies' = [movies EXCEPT ![m] = row] /\ edits' = [edits EXCEPT ![c] = k]
                BY <2>1, <2>5 DEF Movie!InsertShowtime, Movie!NextPlan, Movie!Movie
            <3>2. movies[m] \in MovieRow => row.status = movies[m].status /\ row.published = movies[m].published
                BY DEF MovieRow
            <3> HIDE DEF row, m
            <3> QED BY <2>4, <2>5, <3>1, <3>2
        <2>6. CASE Movie!SkipPlan(c) /\ Movie!Exists(m)
            <3> DEFINE row == [movies[m] EXCEPT !.planned = @ - 1]
            <3>1. movies' = [movies EXCEPT ![m] = row] /\ edits' = [edits EXCEPT ![c] = k]
                BY <2>1, <2>6 DEF Movie!SkipPlan, Movie!NextPlan, Movie!Movie
            <3>2. movies[m] \in MovieRow => row.status = movies[m].status /\ row.published = movies[m].published
                BY DEF MovieRow
            <3> HIDE DEF row, m
            <3> QED BY <2>4, <2>6, <3>1, <3>2
        <2>7. CASE ~Movie!Exists(m)
            <3>1. CASE Movie!InsertShowtime(c)
                BY <2>2, <2>7, <3>1 DEF Movie!InsertShowtime, Movie!Movie
            <3>2. CASE Movie!SkipPlan(c)
                BY <2>1, <2>3, <2>7, <3>2 DEF Movie!SkipPlan, Movie!NextPlan, Movie!Movie
            <3> QED BY <1>13, <3>1, <3>2
        <2> QED BY <1>13, <2>5, <2>6, <2>7
    <1> QED BY <1>5, <1>6, <1>7, <1>9, <1>10, <1>11, <1>12, <1>13 DEF Movie!CallStep

LEMMA MovieStartsCalm == Movie!Init => MovieCalm
    <1> SUFFICES ASSUME Movie!Init PROVE MovieCalm
        OBVIOUS
    <1>1. Movie!Idle \in EditCall /\ Movie!Idle.at = "idle"
        BY DEF EditCall, Movie!Idle
    <1>2. /\ \A m \in Movies : movies[m].status = "none" /\ movies[m] \notin MovieRow
          /\ \A c \in Callers : edits[c] = Movie!Idle
        BY DEF Movie!Init, Movie!NoMovie, MovieRow
    <1>3. CatalogueCalm(Movie!Idle)
        BY <1>1, <1>2 DEF CatalogueCalm, EditCalm
    <1> QED BY <1>1, <1>2, <1>3 DEF MovieCalm, OnlyEdit

LEMMA MovieStepsCalm ==
    ASSUME MovieInv, MovieInv', MovieCalm, [Movie!Next]_(Movie!vars)
    PROVE  MovieCalm'
    <1>1. CASE UNCHANGED Movie!vars
        BY <1>1 DEF MovieCalm, CatalogueCalm, EditCalm, OnlyEdit, Movie!vars
    <1> QED BY <1>1, MovieCallsCalm, MovieRequestsCalm DEF Movie!Next

LEMMA MoviePromises == MovieInv /\ MovieCalm => MoviesConsistent
    <1> SUFFICES ASSUME MovieInv, MovieCalm PROVE MoviesConsistent
        OBVIOUS
    <1>1. MovieType
        BY DEF MovieInv
    <1>2. \A m \in Movies : Movie!Exists(m) <=> movies[m] \in MovieRow
        BY <1>1, ExistingRows
    <1>3. Movie!TypeOK
        <2>1. ASSUME NEW m \in Movies
              PROVE  movies[m].status \in {"none", "gone", "DRAFT", "SUBMITTED", "APPROVED", "REJECTED"}
            BY <1>1 DEF MovieType, MovieRow, GoneRow, Movie!NoMovie
        <2>2. ASSUME NEW m \in Movies, Movie!Exists(m)
              PROVE  /\ movies[m].from \in Movie!Days /\ movies[m].to \in Movie!Days
                     /\ movies[m].content \in Content /\ movies[m].cast \subseteq Casts
                     /\ movies[m].shows \in 0 .. movies[m].planned
            <3>1. movies[m] \in MovieRow /\ RowHolds(movies[m])
                BY <1>2, <2>2 DEF MovieInv
            <3>2. movies[m].cast \in {{}} \cup {{l} : l \in Casts}
                BY <3>1 DEF MovieRow
            <3>3. movies[m].shows \in 0 .. movies[m].planned
                BY <3>1 DEF MovieRow, RowHolds
            <3> QED BY <3>1, <3>2, <3>3 DEF MovieRow
        <2> QED BY <1>1, <2>1, <2>2 DEF Movie!TypeOK, MovieType
    <1>4. Movie!CastIsOneList
        <2> SUFFICES ASSUME NEW m \in Movies, Movie!Exists(m)
                     PROVE  \A a, b \in movies[m].cast : a = b
            BY DEF Movie!CastIsOneList
        <2>1. movies[m].cast = {} \/ \E l \in Casts : movies[m].cast = {l}
            BY <1>2 DEF MovieRow
        <2> QED BY <2>1
    <1>5. Movie!ApprovedIsPublished
        <2> SUFFICES ASSUME NEW m \in Movies, movies[m].status = "APPROVED" PROVE movies[m].published
            BY DEF Movie!ApprovedIsPublished
        <2>1. movies[m] \in MovieRow
            BY <1>2 DEF Movie!Exists
        <2> QED BY <2>1 DEF MovieInv, RowHolds
    <1>6. Movie!CreatedHasShows
        BY DEF Movie!CreatedHasShows, MovieInv
    <1>7. Movie!AuditIsTrue
        BY DEF Movie!AuditIsTrue, MovieInv
    <1>8. Movie!DatesInOrder
        BY <1>2 DEF Movie!DatesInOrder, MovieInv, RowHolds
    <1>9. Movie!DeletedWasDraft
        BY DEF Movie!DeletedWasDraft, MovieCalm, CatalogueCalm
    <1>10. Movie!RejectedUnpublished
        <2> SUFFICES ASSUME ~edited, NEW m \in Movies, movies[m].status = "REJECTED" PROVE ~movies[m].published
            BY DEF Movie!RejectedUnpublished
        <2>1. movies[m] \in MovieRow
            BY <1>2 DEF Movie!Exists
        <2>2. PICK k \in EditCall : CatalogueCalm(k)
            BY DEF MovieCalm
        <2>3. ASSUME k.at = "status", k.status = "APPROVED", k.movie = m PROVE FALSE
            <3>1. movies[m].status = "SUBMITTED"
                BY <2>2, <2>3 DEF CatalogueCalm, EditCalm
            <3> QED BY <3>1
        <2> QED BY <2>1, <2>2, <2>3 DEF CatalogueCalm
    <1> QED BY <1>3, <1>4, <1>5, <1>6, <1>7, <1>8, <1>9, <1>10 DEF MoviesConsistent

(* The movies of a partner stay consistent for any number of movies and      *)
(* calls: creation, edits, deletion and both decisions, each in several       *)
(* statements that may fail or interleave (createMovie, updateMovie,         *)
(* deleteMovie, adminApproveMovie, adminRejectMovie, replaceCast).          *)
THEOREM MoviesStayConsistent == Movie!Spec => []MoviesConsistent
    <1>1. Movie!Init => MovieInv /\ MovieCalm
        BY MovieStarts, MovieStartsCalm
    <1>2. MovieInv /\ MovieCalm /\ [Movie!Next]_(Movie!vars) => (MovieInv /\ MovieCalm)'
        BY MovieSteps, MovieStepsCalm
    <1>3. MovieInv /\ MovieCalm => MoviesConsistent
        BY MoviePromises
    <1> QED BY <1>1, <1>2, <1>3, PTL DEF Movie!Spec

-----------------------------------------------------------------------------
(***************************************************************************)
(* Showtimes.                                                              *)
(***************************************************************************)
LEMMA OneToOne ==
    ASSUME NEW S, IsFiniteSet(S), NEW T, NEW f \in [S -> T],
           \A x, y \in S : f[x] = f[y] => x = y,
           \A t \in T : \E x \in S : f[x] = t
    PROVE  IsFiniteSet(T) /\ Cardinality(T) = Cardinality(S)
    <1>1. f \in Surjection(S, T)
        BY DEF Surjection
    <1>2. f \in Injection(S, T)
        BY DEF Injection, IsInjective
    <1> QED BY <1>1, <1>2, FS_Surjection

LEMMA SameCardinality == \A S : Show!Cardinality(S) = Cardinality(S)
    BY DEF Show!Cardinality, Cardinality

LEMMA Division ==
    ASSUME NEW k \in Nat \ {0}, NEW i \in Nat
    PROVE  /\ i \div k \in Nat /\ i % k \in Nat
           /\ i = k * (i \div k) + (i % k)
    OBVIOUS

SeatRow == [row : Nat, col : Nat, price : Nat]
Position(x) == <<x.row, x.col>>
OnePlaceEach(seats) == \A x, y \in seats : (x.row = y.row /\ x.col = y.col) => x = y
Priced(seats, asked) ==
    \A x \in seats : IF asked = {} THEN x.price = DefaultPrice ELSE x.price \in asked
\* The seats a showtime is made with.
SeatsFor(seats, total, asked) ==
    /\ seats \subseteq SeatRow /\ IsFiniteSet(seats) /\ Cardinality(seats) = total
    /\ OnePlaceEach(seats) /\ Priced(seats, asked)

LEMMA RowOfSeatsIs ==
    ASSUME NEW n \in Nat, NEW price \in Nat
    PROVE  SeatsFor(Show!RowOfSeats(n, price), n, {price})
    <1> DEFINE seat(i) == [row |-> i \div SeatsPerRow, col |-> (i % SeatsPerRow) + 1, price |-> price]
               S == 0 .. n - 1
               T == Show!RowOfSeats(n, price)
               f == [i \in S |-> seat(i)]
    <1>1. SeatsPerRow \in Nat \ {0}
        BY PartnersAssumption DEF Show!SchedulingAssumption
    <1>2. T = {seat(i) : i \in S}
        BY DEF Show!RowOfSeats
    <1>3. \A i \in S : i \in Nat /\ i \div SeatsPerRow \in Nat /\ i % SeatsPerRow \in Nat
        BY <1>1, Division
    <1>4. T \subseteq SeatRow
        BY <1>2, <1>3 DEF SeatRow
    <1>5. ASSUME NEW i \in S, NEW j \in S, seat(i).row = seat(j).row, seat(i).col = seat(j).col
          PROVE  i = j
        <2>1. i \div SeatsPerRow = j \div SeatsPerRow /\ i % SeatsPerRow = j % SeatsPerRow
            BY <1>3, <1>5
        <2>2. i = SeatsPerRow * (i \div SeatsPerRow) + (i % SeatsPerRow)
            BY <1>1, <1>3, Division
        <2>3. j = SeatsPerRow * (j \div SeatsPerRow) + (j % SeatsPerRow)
            BY <1>1, <1>3, Division
        <2> QED BY <2>1, <2>2, <2>3
    <1>6. OnePlaceEach(T)
        BY <1>2, <1>5 DEF OnePlaceEach
    <1>7. Priced(T, {price})
        BY <1>2 DEF Priced
    <1>8. IsFiniteSet(S) /\ Cardinality(S) = n
        BY FS_Interval
    <1>9. \A i, j \in S : f[i] = f[j] => i = j
        BY <1>5
    <1>10. f \in [S -> T] /\ \A t \in T : \E i \in S : f[i] = t
        BY <1>2
    <1> HIDE DEF f, S, T
    <1>11. IsFiniteSet(T) /\ Cardinality(T) = n
        BY <1>8, <1>9, <1>10, OneToOne
    <1> QED BY <1>4, <1>6, <1>7, <1>11 DEF SeatsFor, T

PlanPriceRow ==
    [standard : Prices \cup {Show!Absent}, vip : Prices \cup {Show!Absent},
     couple : Prices \cup {Show!Absent}, premium : Prices \cup {Show!Absent}]
LEMMA PlanPricesAre ==
    ASSUME NEW prices \in PlanPrices
    PROVE  prices \in PlanPriceRow /\ Prices \subseteq Nat \ {0}
    BY PartnersAssumption DEF Show!SchedulingAssumption, PlanPriceRow

LEMMA PriceIs ==
    ASSUME NEW prices \in PlanPrices, NEW cell
    PROVE  /\ Show!Given(prices) \subseteq Nat
           /\ Show!PriceOf(cell, prices) \in Nat
           /\ IF Show!Given(prices) = {} THEN Show!PriceOf(cell, prices) = DefaultPrice
              ELSE Show!PriceOf(cell, prices) \in Show!Given(prices)
    <1> DEFINE G == Show!Given(prices)
    <1>1. prices \in PlanPriceRow /\ Prices \subseteq Nat \ {0} /\ DefaultPrice \in Nat
        BY PlanPricesAre, PartnersAssumption DEF Show!SchedulingAssumption
    <1>2. G = {prices.standard, prices.vip, prices.couple, prices.premium} \ {Show!Absent}
        BY <1>1 DEF Show!Given, PlanPriceRow
    <1>3. G \in SUBSET Nat
        BY <1>1, <1>2 DEF PlanPriceRow, Show!Absent
    <1>4. ASSUME G # {} PROVE Show!Min(G) \in G
        <2>1. \E x \in G : \A y \in G : x <= y
            BY <1>3, <1>4, LeastNatural
        <2> QED BY <2>1 DEF Show!Min
    <1>5. IF G = {} THEN Show!BasePrice(prices) = DefaultPrice ELSE Show!BasePrice(prices) \in G
        BY <1>2, <1>4 DEF Show!BasePrice
    <1>6. IF G = {} THEN Show!PriceOf(cell, prices) = DefaultPrice ELSE Show!PriceOf(cell, prices) \in G
        BY <1>2, <1>5 DEF Show!PriceOf
    <1> QED BY <1>1, <1>3, <1>6

LEMMA SeatsOfIs ==
    ASSUME NEW layout \in Layouts, NEW prices \in PlanPrices
    PROVE  /\ SeatsFor(Show!SeatsOf(layout, prices), Show!TotalSeats(layout), Show!Given(prices))
           /\ Show!TotalSeats(layout) \in Nat
    <1> DEFINE C == Show!Cells(layout)
               seat(x) == [row |-> x[1] - 1, col |-> x[2], price |-> Show!PriceOf(layout[x[1]][x[2]], prices)]
               T == Show!SeatsOf(layout, prices)
               f == [x \in C |-> seat(x)]
    <1>1. layout \in Seq(Seq(Int))
        BY PartnersAssumption DEF Show!SchedulingAssumption
    <1>2. /\ DOMAIN layout = 1 .. Len(layout) /\ Len(layout) \in Nat
          /\ \A r \in DOMAIN layout : /\ layout[r] \in Seq(Int)
                                      /\ DOMAIN layout[r] = 1 .. Len(layout[r]) /\ Len(layout[r]) \in Nat
        BY <1>1
    <1>3. \A x \in C : x[1] \in DOMAIN layout /\ x[2] \in DOMAIN layout[x[1]] /\ x = <<x[1], x[2]>>
        BY DEF Show!Cells
    <1>4. \A x \in C : x[1] - 1 \in Nat /\ x[2] \in Nat /\ x[1] \in Nat
        BY <1>2, <1>3
    <1>5. IsFiniteSet(C)
        <2> DEFINE rowCells == [r \in DOMAIN layout |-> {r} \X DOMAIN layout[r]]
                   R == {{r} \X DOMAIN layout[r] : r \in DOMAIN layout}
        <2>1. IsFiniteSet(DOMAIN layout)
            BY <1>2, FS_Interval
        <2>2. \A r \in DOMAIN layout : IsFiniteSet({r} \X DOMAIN layout[r])
            <3> TAKE r \in DOMAIN layout
            <3>1. IsFiniteSet({r})
                BY FS_Singleton
            <3>2. PICK n \in Nat : DOMAIN layout[r] = 1 .. n
                BY <1>2
            <3>3. IsFiniteSet(1 .. n)
                BY FS_Interval
            <3> QED BY <3>1, <3>2, <3>3, FS_Product
        <2>3. rowCells \in Surjection(DOMAIN layout, R)
            BY DEF Surjection
        <2>4. IsFiniteSet(R)
            <3> HIDE DEF rowCells, R
            <3> QED BY <2>1, <2>3, FS_Surjection
        <2>5. \A x \in R : IsFiniteSet(x)
            BY <2>2
        <2>6. C \subseteq UNION R
            BY DEF Show!Cells
        <2> HIDE DEF R, C
        <2>7. IsFiniteSet(UNION R)
            BY <2>4, <2>5, FS_UNION
        <2> QED BY <2>6, <2>7, FS_Subset
    <1>6. T = {seat(x) : x \in C}
        BY DEF Show!SeatsOf
    <1>7. \A x \in C : seat(x) \in SeatRow
        BY <1>4, PriceIs DEF SeatRow
    <1>8. ASSUME NEW x \in C, NEW y \in C, seat(x).row = seat(y).row, seat(x).col = seat(y).col
          PROVE  x = y
        BY <1>3, <1>4, <1>8
    <1>9. OnePlaceEach(T)
        BY <1>6, <1>8 DEF OnePlaceEach
    <1>10. Priced(T, Show!Given(prices))
        BY <1>6, PriceIs DEF Priced
    <1>11. \A x, y \in C : f[x] = f[y] => x = y
        BY <1>8
    <1>12. f \in [C -> T] /\ \A t \in T : \E x \in C : f[x] = t
        BY <1>6
    <1>13. T \subseteq SeatRow
        BY <1>6, <1>7
    <1>14. Show!TotalSeats(layout) = Cardinality(C)
        BY SameCardinality DEF Show!TotalSeats
    <1> HIDE DEF f, C, T
    <1>15. IsFiniteSet(T) /\ Cardinality(T) = Cardinality(C)
        BY <1>5, <1>11, <1>12, OneToOne
    <1> QED BY <1>5, <1>9, <1>10, <1>13, <1>14, <1>15, FS_CardinalityType DEF SeatsFor, T

LEMMA NextSeatIs ==
    ASSUME NEW seats \in SUBSET SeatRow, seats # {}
    PROVE  Show!NextSeat(seats) \in seats
    <1> DEFINE R == {x.row : x \in seats}
    <1>1. R \in SUBSET Nat /\ R # {}
        BY DEF SeatRow
    <1>2. PICK r \in R : \A y \in R : r <= y
        BY <1>1, LeastNatural
    <1> DEFINE S == {x \in seats : x.row = r}
               N == {x.col : x \in S}
    <1>3. N \in SUBSET Nat /\ N # {}
        BY DEF SeatRow
    <1> HIDE DEF N
    <1>4. PICK n \in N : \A y \in N : n <= y
        BY <1>3, LeastNatural
    <1>5. PICK x \in seats : x.row = r /\ x.col = n
        BY <1>4 DEF N
    <1>6. ASSUME NEW y \in seats PROVE ~Show!Earlier(y, x)
        <2>1. y.row \in Nat /\ y.col \in Nat /\ r \in Nat /\ n \in Nat /\ r <= y.row
            BY <1>1, <1>2, <1>3, <1>4 DEF SeatRow
        <2>2. y.row = r => n <= y.col
            BY <1>4 DEF N
        <2> QED BY <1>5, <2>1, <2>2 DEF Show!Earlier
    <1>7. \E z \in seats : \A y \in seats : ~Show!Earlier(y, z)
        BY <1>6
    <1> QED BY <1>7 DEF Show!NextSeat

ShownRow ==
    [status : {"SCHEDULED", "CANCELLED"}, room : Rooms, start : Nat, end : Nat,
     total : Nat, asked : SUBSET Nat, seats : SUBSET SeatRow]
Insertion ==
    [at : {"insert"}, room : Rooms, start : Nat, end : Nat,
     total : Nat, seats : SUBSET SeatRow, asked : SUBSET Nat]
Seating == [at : {"seats"}, show : Show!Shows, seats : SUBSET SeatRow]
PlanCall == {Show!Idle} \cup Insertion \cup Seating

ShowType ==
    /\ shows \in [Show!Shows -> ShownRow \cup {Show!NoShow, Show!GoneShow}]
    /\ rooms \in [Rooms -> Layouts \cup {Show!NoRoom}]
    /\ plans \in [Callers -> PlanCall]
    /\ complete \subseteq Show!Shows

RowAdds(row) ==
    /\ row.start < row.end
    /\ IsFiniteSet(row.seats) /\ OnePlaceEach(row.seats) /\ Priced(row.seats, row.asked)
    /\ Cardinality(row.seats) <= row.total
ShowRows ==
    \A s \in Show!Shows :
        /\ Show!Stored(s) => /\ RowAdds(shows[s]) /\ rooms[shows[s].room] # Show!NoRoom
                             /\ s \in complete => Cardinality(shows[s].seats) = shows[s].total
        /\ s \in complete => shows[s] # Show!NoShow
PlanHolds(k) ==
    /\ k.at = "insert" => k.start < k.end /\ SeatsFor(k.seats, k.total, k.asked)
    /\ k.at = "seats" =>
          /\ shows[k.show] # Show!NoShow /\ k.show \notin complete
          /\ Show!Stored(k.show) =>
                SeatsFor(k.seats \cup shows[k.show].seats, shows[k.show].total, shows[k.show].asked)
ShowCalls ==
    /\ \A c \in Callers : PlanHolds(plans[c])
    /\ \A c, d \in Callers : (c # d /\ plans[c].at = "seats" /\ plans[d].at = "seats")
                                => plans[c].show # plans[d].show
ShowInv == ShowType /\ ShowRows /\ ShowCalls

LEMMA StoredIs ==
    ASSUME ShowType, NEW s \in Show!Shows
    PROVE  /\ Show!Stored(s) => shows[s] \in ShownRow
           /\ ~Show!Stored(s) => shows[s] \in {Show!NoShow, Show!GoneShow}
           /\ shows[s] # Show!NoShow => Show!Stored(s) \/ shows[s] = Show!GoneShow
           /\ shows[s].status = "SCHEDULED" => Show!Stored(s)
    BY DEF ShowType, Show!Stored, ShownRow, Show!NoShow, Show!GoneShow

\* A showtime seated further, or to its end.
LEMMA SeatedRow ==
    ASSUME NEW seats, NEW more \in SUBSET seats, NEW total, NEW asked, SeatsFor(seats, total, asked)
    PROVE  /\ IsFiniteSet(more) /\ OnePlaceEach(more) /\ Priced(more, asked)
           /\ Cardinality(more) <= total
    <1>1. IsFiniteSet(more) /\ Cardinality(more) <= Cardinality(seats)
        BY FS_Subset DEF SeatsFor
    <1> QED BY <1>1 DEF SeatsFor, OnePlaceEach, Priced

LEMMA ShowInit == Show!Init => ShowInv
    <1> SUFFICES ASSUME Show!Init PROVE ShowInv
        OBVIOUS
    <1>1. /\ shows \in [Show!Shows -> {Show!NoShow}] /\ rooms \in [Rooms -> Layouts]
          /\ plans \in [Callers -> {Show!Idle}] /\ complete = {}
        BY DEF Show!Init
    <1>2. ShowType
        BY <1>1 DEF ShowType, PlanCall
    <1>3. \A s \in Show!Shows : ~Show!Stored(s)
        BY <1>1 DEF Show!Stored, Show!NoShow
    <1>4. \A c \in Callers : plans[c].at = "idle"
        BY <1>1 DEF Show!Idle
    <1> QED BY <1>1, <1>2, <1>3, <1>4 DEF ShowInv, ShowRows, ShowCalls, PlanHolds

\* One call goes on and nothing else changes.
LEMMA PlanGoes ==
    ASSUME ShowInv, NEW c \in Callers, NEW k \in PlanCall,
           plans' = [plans EXCEPT ![c] = k], UNCHANGED <<shows, rooms, complete>>,
           k.at # "seats", PlanHolds(k)
    PROVE  ShowInv'
    <1>1. ShowType'
        BY DEF ShowInv, ShowType
    <1>2. ShowRows'
        BY DEF ShowInv, ShowRows, Show!Stored
    <1>3. \A d \in Callers : plans'[d] = IF d = c THEN k ELSE plans[d]
        BY DEF ShowInv, ShowType
    <1>4. ASSUME NEW d \in Callers PROVE PlanHolds(plans[d])'
        <2>1. PICK e : e = plans'[d]
            OBVIOUS
        <2>2. PlanHolds(e)
            BY <1>3, <2>1 DEF ShowInv, ShowCalls
        <2>3. PlanHolds(e)'
            BY <2>2 DEF PlanHolds, Show!Stored
        <2> QED BY <2>1, <2>3 DEF PlanHolds, Show!Stored
    <1> QED BY <1>1, <1>2, <1>3, <1>4 DEF ShowInv, ShowCalls

LEMMA IdleHolds == Show!Idle \in PlanCall /\ Show!Idle.at = "idle" /\ PlanHolds(Show!Idle)
    BY DEF Show!Idle, PlanCall, PlanHolds

LEMMA ShowReturns ==
    ASSUME ShowInv, NEW c \in Callers, Show!Return(c), UNCHANGED <<shows, rooms, complete>>
    PROVE  ShowInv'
    <1>1. plans' = [plans EXCEPT ![c] = Show!Idle]
        BY DEF Show!Return, Show!Go
    <1> QED BY <1>1, IdleHolds, PlanGoes

LEMMA CreateShowtimeStep ==
    ASSUME ShowInv, NEW c \in Callers, NEW room \in Rooms, NEW start \in Starts, NEW length \in Lengths,
           NEW n \in Totals, NEW price \in Prices,
           Show!CreateShowtime(c, room, start, length, n, price)
    PROVE  ShowInv'
    <1> DEFINE k == [at |-> "insert", room |-> room, start |-> start, end |-> start + length,
                     total |-> n, seats |-> Show!RowOfSeats(n, price), asked |-> {price}]
    <1>1. start \in Nat /\ length \in Nat \ {0} /\ n \in Nat /\ price \in Nat
        BY PartnersAssumption DEF Show!SchedulingAssumption
    <1>2. SeatsFor(Show!RowOfSeats(n, price), n, {price})
        BY <1>1, RowOfSeatsIs
    <1>3. k \in PlanCall
        BY <1>1, <1>2 DEF PlanCall, Insertion, SeatsFor
    <1>4. PlanHolds(k)
        BY <1>1, <1>2 DEF PlanHolds
    <1>5. plans' = [plans EXCEPT ![c] = k] /\ UNCHANGED <<shows, rooms, complete>> /\ k.at # "seats"
        BY DEF Show!CreateShowtime, Show!Go
    <1> HIDE DEF k
    <1> QED BY <1>3, <1>4, <1>5, PlanGoes

LEMMA PlanStep ==
    ASSUME ShowInv, NEW c \in Callers, NEW room \in Rooms, NEW start \in Starts, NEW length \in Lengths,
           NEW prices \in PlanPrices,
           Show!Plan(c, room, start, length, prices)
    PROVE  ShowInv'
    <1> DEFINE k == [at |-> "insert", room |-> room, start |-> start, end |-> start + length,
                     total |-> Show!TotalSeats(rooms[room]), seats |-> Show!SeatsOf(rooms[room], prices),
                     asked |-> Show!Given(prices)]
    <1>1. start \in Nat /\ length \in Nat \ {0}
        BY PartnersAssumption DEF Show!SchedulingAssumption
    <1>2. rooms[room] \in Layouts
        BY DEF ShowInv, ShowType, Show!Plan
    <1>3. /\ SeatsFor(Show!SeatsOf(rooms[room], prices), Show!TotalSeats(rooms[room]), Show!Given(prices))
          /\ Show!TotalSeats(rooms[room]) \in Nat
        BY <1>2, SeatsOfIs
    <1>4. Show!Given(prices) \subseteq Nat
        BY PriceIs
    <1>5. k \in PlanCall
        BY <1>1, <1>3, <1>4 DEF PlanCall, Insertion, SeatsFor
    <1>6. PlanHolds(k)
        BY <1>1, <1>3 DEF PlanHolds
    <1>7. plans' = [plans EXCEPT ![c] = k] /\ UNCHANGED <<shows, rooms, complete>> /\ k.at # "seats"
        BY DEF Show!Plan, Show!Go
    <1> HIDE DEF k
    <1> QED BY <1>5, <1>6, <1>7, PlanGoes

\* A call writes a row and goes on.
LEMMA RowGoes ==
    ASSUME ShowInv, NEW c \in Callers, NEW k \in PlanCall, NEW s \in Show!Shows, NEW w \in ShownRow,
           shows' = [shows EXCEPT ![s] = w], plans' = [plans EXCEPT ![c] = k],
           UNCHANGED <<rooms, complete>>,
           RowAdds(w), rooms[w.room] # Show!NoRoom, s \notin complete,
           k.at = "seats", k.show = s, SeatsFor(k.seats \cup w.seats, w.total, w.asked),
           \A d \in Callers \ {c} : plans[d].at = "seats" => plans[d].show # s
    PROVE  ShowInv'
    <1>1. ShowType'
        BY DEF ShowInv, ShowType
    <1>2. /\ \A t \in Show!Shows : shows'[t] = IF t = s THEN w ELSE shows[t]
          /\ \A d \in Callers : plans'[d] = IF d = c THEN k ELSE plans[d]
        BY DEF ShowInv, ShowType
    <1>3. w.status \in {"SCHEDULED", "CANCELLED"} /\ w \notin {Show!NoShow, Show!GoneShow}
        BY DEF ShownRow, Show!NoShow, Show!GoneShow
    <1>4. ShowRows'
        <2> SUFFICES ASSUME NEW t \in Show!Shows
                     PROVE  /\ Show!Stored(t)' => /\ RowAdds(shows'[t]) /\ rooms[shows'[t].room] # Show!NoRoom
                                                  /\ t \in complete => Cardinality(shows'[t].seats) = shows'[t].total
                            /\ t \in complete => shows'[t] # Show!NoShow
            BY DEF ShowRows
        <2>1. CASE t = s
            BY <1>2, <1>3, <2>1
        <2>2. CASE t # s
            <3>1. shows'[t] = shows[t]
                BY <1>2, <2>2
            <3> QED BY <3>1 DEF ShowInv, ShowRows, Show!Stored
        <2> QED BY <2>1, <2>2
    <1>5. ASSUME NEW d \in Callers PROVE PlanHolds(plans[d])'
        <2>1. CASE d = c
            <3>1. plans'[d] = k
                BY <1>2, <2>1
            <3>2. shows'[k.show] = w
                BY <1>2
            <3>3. k.show \notin complete' /\ shows'[k.show] # Show!NoShow
                BY <1>3, <3>2
            <3>4. SeatsFor(k.seats \cup shows'[k.show].seats, shows'[k.show].total, shows'[k.show].asked)
                BY <3>2
            <3>5. PlanHolds(k)'
                BY <3>3, <3>4 DEF PlanHolds
            <3> QED BY <3>1, <3>5 DEF PlanHolds, Show!Stored
        <2>2. CASE d # c
            <3>1. PICK e : e = plans[d]
                OBVIOUS
            <3>2. PlanHolds(e) /\ (e.at = "seats" => e.show # s) /\ e \in PlanCall
                BY <2>2, <3>1 DEF ShowInv, ShowCalls, ShowType
            <3>3. e.at = "seats" => e.show \in Show!Shows /\ shows'[e.show] = shows[e.show]
                BY <1>2, <3>2 DEF PlanCall, Seating, Insertion, Show!Idle
            <3>4. PlanHolds(e)'
                BY <3>2, <3>3 DEF PlanHolds, Show!Stored
            <3>5. plans'[d] = e
                BY <1>2, <2>2, <3>1
            <3> QED BY <3>4, <3>5 DEF PlanHolds, Show!Stored
        <2> QED BY <2>1, <2>2
    <1> QED BY <1>1, <1>2, <1>4, <1>5 DEF ShowInv, ShowCalls

SeatWritten(c, k, s, w) ==
    /\ shows' = [shows EXCEPT ![s] = w] /\ plans' = [plans EXCEPT ![c] = k]
    /\ UNCHANGED <<rooms, complete>>
    /\ RowAdds(w) /\ rooms[w.room] # Show!NoRoom /\ s \notin complete
    /\ k.at = "seats" /\ k.show = s /\ SeatsFor(k.seats \cup w.seats, w.total, w.asked)
    /\ \A d \in Callers \ {c} : plans[d].at = "seats" => plans[d].show # s
LEMMA SeatGoes ==
    ASSUME ShowInv, NEW c \in Callers, NEW k \in PlanCall, NEW s \in Show!Shows, NEW w \in ShownRow,
           SeatWritten(c, k, s, w)
    PROVE  ShowInv'
    BY RowGoes DEF SeatWritten

\* Rows cancelled or gone, rooms changed: the calls find the rest as it was.
LEMMA RowsKeep ==
    ASSUME ShowInv, UNCHANGED <<plans, complete>>, ShowType',
           \A t \in Show!Shows :
              \/ shows'[t] = shows[t]
              \/ Show!Stored(t) /\ shows'[t] = Show!GoneShow
              \/ Show!Stored(t) /\ shows'[t] = [shows[t] EXCEPT !.status = "CANCELLED"],
           \A t \in Show!Shows : Show!Stored(t)' => rooms'[shows'[t].room] # Show!NoRoom
    PROVE  ShowInv'
    <1>1. \A t \in Show!Shows :
              /\ Show!Stored(t)' => /\ Show!Stored(t)
                                    /\ shows'[t].seats = shows[t].seats /\ shows'[t].total = shows[t].total
                                    /\ shows'[t].asked = shows[t].asked
                                    /\ shows'[t].start = shows[t].start /\ shows'[t].end = shows[t].end
              /\ shows[t] # Show!NoShow => shows'[t] # Show!NoShow
        <2> TAKE t \in Show!Shows
        <2>1. CASE shows'[t] = shows[t]
            BY <2>1 DEF Show!Stored
        <2>2. CASE Show!Stored(t) /\ shows'[t] = Show!GoneShow
            BY <2>2 DEF Show!Stored, Show!GoneShow, Show!NoShow
        <2>3. CASE Show!Stored(t) /\ shows'[t] = [shows[t] EXCEPT !.status = "CANCELLED"]
            <3>1. shows[t] \in ShownRow
                BY <2>3, StoredIs DEF ShowInv
            <3> QED BY <2>3, <3>1 DEF ShownRow, Show!NoShow
        <2> QED BY <2>1, <2>2, <2>3
    <1>2. ASSUME NEW t \in Show!Shows, Show!Stored(t)' PROVE RowAdds(shows'[t])
        <2>1. RowAdds(shows[t])
            BY <1>1, <1>2 DEF ShowInv, ShowRows
        <2> QED BY <1>1, <1>2, <2>1 DEF RowAdds
    <1>3. ShowRows'
        <2> SUFFICES ASSUME NEW t \in Show!Shows
                     PROVE  /\ Show!Stored(t)' => /\ RowAdds(shows'[t]) /\ rooms'[shows'[t].room] # Show!NoRoom
                                                  /\ t \in complete => Cardinality(shows'[t].seats) = shows'[t].total
                            /\ t \in complete => shows'[t] # Show!NoShow
            BY DEF ShowRows
        <2>1. /\ Show!Stored(t) => (t \in complete => Cardinality(shows[t].seats) = shows[t].total)
              /\ t \in complete => shows[t] # Show!NoShow
            BY DEF ShowInv, ShowRows
        <2> QED BY <1>1, <1>2, <2>1
    <1>4. ASSUME NEW d \in Callers PROVE PlanHolds(plans[d])'
        <2>1. PICK e : e = plans[d]
            OBVIOUS
        <2>2. PlanHolds(e) /\ e \in PlanCall
            BY <2>1 DEF ShowInv, ShowCalls, ShowType
        <2>3. e.at = "seats" => e.show \in Show!Shows
            BY <2>2 DEF PlanCall, Seating, Insertion, Show!Idle
        <2>4. PlanHolds(e)'
            <3>1. e.at = "insert" => e.start < e.end /\ SeatsFor(e.seats, e.total, e.asked)
                BY <2>2 DEF PlanHolds
            <3>2. ASSUME e.at = "seats"
                  PROVE  /\ shows'[e.show] # Show!NoShow /\ e.show \notin complete
                         /\ Show!Stored(e.show)' =>
                               SeatsFor(e.seats \cup shows'[e.show].seats, shows'[e.show].total, shows'[e.show].asked)
                <4>1. PICK t \in Show!Shows : t = e.show
                    BY <2>3, <3>2
                <4>2. /\ shows[t] # Show!NoShow /\ t \notin complete
                      /\ Show!Stored(t) => SeatsFor(e.seats \cup shows[t].seats, shows[t].total, shows[t].asked)
                    BY <2>2, <3>2, <4>1 DEF PlanHolds
                <4>3. /\ shows'[t] # Show!NoShow /\ t \notin complete
                      /\ Show!Stored(t)' => SeatsFor(e.seats \cup shows'[t].seats, shows'[t].total, shows'[t].asked)
                    BY <1>1, <4>2
                <4> QED BY <4>1, <4>3 DEF Show!Stored
            <3> QED BY <3>1, <3>2 DEF PlanHolds, Show!Stored
        <2> QED BY <2>1, <2>4 DEF PlanHolds, Show!Stored
    <1> QED BY <1>3, <1>4 DEF ShowInv, ShowCalls

LEMMA FreeIs ==
    ASSUME NEW S \in SUBSET Show!Shows, S # {}
    PROVE  Show!Min(S) \in S
    <1>1. S \in SUBSET Nat
        BY DEF Show!Shows
    <1>2. \E x \in S : \A y \in S : x <= y
        BY <1>1, LeastNatural
    <1> QED BY <1>2 DEF Show!Min

LEMMA InsertShowtimeStep ==
    ASSUME ShowInv, NEW c \in Callers, Show!InsertShowtime(c)
    PROVE  ShowInv'
    <1>1. PICK k : k = plans[c]
        OBVIOUS
    <1>2. k \in Insertion
        BY <1>1 DEF ShowInv, ShowType, PlanCall, Seating, Show!Idle, Show!InsertShowtime, Show!At
    <1>3. k.at = "insert" /\ k.start < k.end /\ SeatsFor(k.seats, k.total, k.asked)
        BY <1>1, <1>2 DEF ShowInv, ShowCalls, PlanHolds, Insertion
    <1>4. CASE rooms[k.room] = Show!NoRoom
        <2>1. Show!Return(c) /\ UNCHANGED <<shows, rooms, complete>>
            BY <1>1, <1>4 DEF Show!InsertShowtime
        <2> QED BY <2>1, ShowReturns
    <1>5. CASE rooms[k.room] # Show!NoRoom
        <2> DEFINE F == {t \in Show!Shows : shows[t] = Show!NoShow}
        <2>1. F # {} /\ F \in SUBSET Show!Shows
            BY <1>1, <1>5 DEF Show!InsertShowtime
        <2>2. PICK s \in Show!Shows : s = Show!Min(F) /\ shows[s] = Show!NoShow
            BY <2>1, FreeIs
        <2> DEFINE w == [status |-> "SCHEDULED", room |-> k.room, start |-> k.start, end |-> k.end,
                         total |-> k.total, asked |-> k.asked, seats |-> {}]
                   g == [at |-> "seats", show |-> s, seats |-> k.seats]
        <2>3. /\ shows' = [shows EXCEPT ![s] = w] /\ plans' = [plans EXCEPT ![c] = g]
              /\ UNCHANGED <<rooms, complete>>
            BY <1>1, <1>5, <2>2 DEF Show!InsertShowtime, Show!Go
        <2>4. w \in ShownRow /\ g \in PlanCall
            BY <1>2 DEF Insertion, ShownRow, PlanCall, Seating
        <2>5. /\ w.room = k.room /\ w.seats = {} /\ w.total = k.total /\ w.asked = k.asked
              /\ w.start = k.start /\ w.end = k.end
              /\ g.at = "seats" /\ g.show = s /\ g.seats = k.seats
            OBVIOUS
        <2> HIDE DEF w, g, F
        <2>6. SeatsFor(g.seats \cup w.seats, w.total, w.asked)
            <3>1. g.seats \cup w.seats = k.seats
                BY <2>5
            <3> QED BY <1>3, <2>5, <3>1
        <2>7. RowAdds(w)
            <3>1. w.seats \in SUBSET (g.seats \cup w.seats)
                OBVIOUS
            <3>2. /\ IsFiniteSet(w.seats) /\ OnePlaceEach(w.seats) /\ Priced(w.seats, w.asked)
                  /\ Cardinality(w.seats) <= w.total
                BY <2>6, <3>1, SeatedRow
            <3> QED BY <1>3, <2>5, <3>2 DEF RowAdds
        <2>8. s \notin complete
            BY <2>2 DEF ShowInv, ShowRows
        <2>9. ASSUME NEW d \in Callers \ {c}, plans[d].at = "seats" PROVE plans[d].show # s
            BY <2>2, <2>9 DEF ShowInv, ShowCalls, PlanHolds
        <2> QED BY <1>5, <2>3, <2>4, <2>5, <2>6, <2>7, <2>8, <2>9, RowGoes
    <1> QED BY <1>4, <1>5

LEMMA InsertSeatStep ==
    ASSUME ShowInv, NEW c \in Callers, Show!InsertSeat(c)
    PROVE  ShowInv'
    <1>1. PICK k : k = plans[c]
        OBVIOUS
    <1>2. k \in Seating /\ k.at = "seats" /\ k.seats # {} /\ k.seats \in SUBSET SeatRow /\ k.show \in Show!Shows
        BY <1>1 DEF ShowInv, ShowType, PlanCall, Seating, Insertion, Show!Idle, Show!InsertSeat, Show!At
    <1>3. CASE ~Show!Stored(k.show)
        <2>1. Show!Return(c) /\ UNCHANGED <<shows, rooms, complete>>
            BY <1>1, <1>3 DEF Show!InsertSeat, Show!Stored
        <2> QED BY <2>1, ShowReturns
    <1>4. CASE Show!Stored(k.show)
        <2>1. PICK s \in Show!Shows : s = k.show
            BY <1>2
        <2>2. PICK v \in ShownRow : v = shows[s]
            BY <1>4, <2>1, StoredIs DEF ShowInv
        <2>3. PICK x \in k.seats : x = Show!NextSeat(k.seats)
            BY <1>2, NextSeatIs
        <2> DEFINE w == [v EXCEPT !.seats = v.seats \cup {x}]
                   g == [k EXCEPT !.seats = k.seats \ {x}]
        <2>4. /\ shows' = [shows EXCEPT ![s] = w] /\ plans' = [plans EXCEPT ![c] = g]
              /\ UNCHANGED <<rooms, complete>>
            BY <1>1, <1>4, <2>1, <2>2, <2>3 DEF Show!InsertSeat, Show!Go, Show!Stored
        <2>5. w \in ShownRow /\ g \in PlanCall
            <3>1. w = [status |-> v.status, room |-> v.room, start |-> v.start, end |-> v.end,
                       total |-> v.total, asked |-> v.asked, seats |-> v.seats \cup {x}]
                BY DEF ShownRow
            <3>2. g = [at |-> k.at, show |-> k.show, seats |-> k.seats \ {x}]
                BY <1>2 DEF Seating
            <3>3. x \in SeatRow
                BY <1>2
            <3> HIDE DEF w, g
            <3> QED BY <1>2, <3>1, <3>2, <3>3 DEF ShownRow, PlanCall, Seating
        <2>6. /\ w.room = v.room /\ w.seats = v.seats \cup {x} /\ w.total = v.total /\ w.asked = v.asked
              /\ w.start = v.start /\ w.end = v.end
              /\ g.at = "seats" /\ g.show = s /\ g.seats = k.seats \ {x}
            BY <1>2, <2>1 DEF ShownRow, Seating
        <2> HIDE DEF w, g
        <2>7. s \notin complete /\ SeatsFor(k.seats \cup v.seats, v.total, v.asked)
            BY <1>1, <1>2, <1>4, <2>1, <2>2 DEF ShowInv, ShowCalls, PlanHolds
        <2>8. SeatsFor(g.seats \cup w.seats, w.total, w.asked)
            <3>1. g.seats \cup w.seats = k.seats \cup v.seats
                BY <2>3, <2>6
            <3> QED BY <2>6, <2>7, <3>1
        <2>9. RowAdds(w) /\ rooms[w.room] # Show!NoRoom
            <3>1. w.seats \in SUBSET (g.seats \cup w.seats)
                OBVIOUS
            <3>2. /\ IsFiniteSet(w.seats) /\ OnePlaceEach(w.seats) /\ Priced(w.seats, w.asked)
                  /\ Cardinality(w.seats) <= w.total
                BY <2>8, <3>1, SeatedRow
            <3>3. v.start < v.end /\ rooms[v.room] # Show!NoRoom
                BY <1>4, <2>1, <2>2 DEF ShowInv, ShowRows, RowAdds
            <3> QED BY <2>6, <3>2, <3>3 DEF RowAdds
        <2>10. ASSUME NEW d \in Callers \ {c}, plans[d].at = "seats" PROVE plans[d].show # s
            BY <1>1, <1>2, <2>1, <2>10 DEF ShowInv, ShowCalls
        <2>11. s \notin complete
            BY <2>7
        <2>12. RowAdds(w) /\ rooms[w.room] # Show!NoRoom /\ g.at = "seats" /\ g.show = s
            BY <2>6, <2>9
        <2>13. SeatWritten(c, g, s, w)
            BY <2>4, <2>8, <2>10, <2>11, <2>12 DEF SeatWritten
        <2> QED BY <2>5, <2>13, SeatGoes
    <1> QED BY <1>3, <1>4

LEMMA CreateDoneStep ==
    ASSUME ShowInv, NEW c \in Callers, Show!CreateDone(c)
    PROVE  ShowInv'
    <1>1. PICK k : k = plans[c]
        OBVIOUS
    <1>2. k \in Seating /\ k.at = "seats" /\ k.seats = {} /\ k.show \in Show!Shows
        BY <1>1 DEF ShowInv, ShowType, PlanCall, Seating, Insertion, Show!Idle, Show!CreateDone, Show!At
    <1>3. PICK s \in Show!Shows : s = k.show
        BY <1>2
    <1>4. /\ complete' = complete \cup {s} /\ plans' = [plans EXCEPT ![c] = Show!Idle]
          /\ UNCHANGED <<shows, rooms>>
        BY <1>1, <1>3 DEF Show!CreateDone, Show!Return, Show!Go
    <1>5. /\ shows[s] # Show!NoShow
          /\ Show!Stored(s) => SeatsFor(k.seats \cup shows[s].seats, shows[s].total, shows[s].asked)
        BY <1>1, <1>2, <1>3 DEF ShowInv, ShowCalls, PlanHolds
    <1>6. Show!Stored(s) => Cardinality(shows[s].seats) = shows[s].total
        <2>1. k.seats \cup shows[s].seats = shows[s].seats
            BY <1>2
        <2> QED BY <1>5, <2>1 DEF SeatsFor
    <1>7. ShowType'
        BY <1>4, IdleHolds DEF ShowInv, ShowType
    <1>8. ShowRows'
        BY <1>4, <1>5, <1>6 DEF ShowInv, ShowRows, Show!Stored
    <1>9. \A d \in Callers : plans'[d] = IF d = c THEN Show!Idle ELSE plans[d]
        BY <1>4 DEF ShowInv, ShowType
    <1>10. ASSUME NEW d \in Callers PROVE PlanHolds(plans[d])'
        <2>1. CASE d = c
            <3>1. plans'[d] = Show!Idle
                BY <1>9, <2>1
            <3> QED BY <3>1, IdleHolds DEF PlanHolds
        <2>2. CASE d # c
            <3>1. PICK e : e = plans[d]
                OBVIOUS
            <3>2. PlanHolds(e) /\ (e.at = "seats" => e.show # s)
                BY <1>1, <1>2, <1>3, <2>2, <3>1 DEF ShowInv, ShowCalls
            <3>3. PlanHolds(e)'
                BY <1>4, <3>2 DEF PlanHolds, Show!Stored
            <3>4. plans'[d] = e
                BY <1>9, <2>2, <3>1
            <3> QED BY <3>3, <3>4 DEF PlanHolds, Show!Stored
        <2> QED BY <2>1, <2>2
    <1> QED BY <1>7, <1>8, <1>9, <1>10, IdleHolds DEF ShowInv, ShowCalls

LEMMA CancelShowtimeStep ==
    ASSUME ShowInv, NEW s \in Show!Shows, Show!CancelShowtime(s)
    PROVE  ShowInv'
    <1>1. PICK v \in ShownRow : v = shows[s]
        BY StoredIs DEF ShowInv, Show!CancelShowtime
    <1> DEFINE w == [v EXCEPT !.status = "CANCELLED"]
    <1>2. shows' = [shows EXCEPT ![s] = w] /\ UNCHANGED <<rooms, plans, complete>>
        BY <1>1 DEF Show!CancelShowtime
    <1>3. w \in ShownRow /\ w.room = v.room
        BY DEF ShownRow
    <1>4. Show!Stored(s)
        BY StoredIs DEF ShowInv, Show!CancelShowtime
    <1>5. w = [shows[s] EXCEPT !.status = "CANCELLED"]
        BY <1>1
    <1> HIDE DEF w
    <1>6. \A t \in Show!Shows : shows'[t] = IF t = s THEN w ELSE shows[t]
        BY <1>2 DEF ShowInv, ShowType
    <1>7. ShowType'
        BY <1>2, <1>3 DEF ShowInv, ShowType
    <1>8. ASSUME NEW t \in Show!Shows, Show!Stored(t)' PROVE rooms'[shows'[t].room] # Show!NoRoom
        BY <1>1, <1>2, <1>3, <1>4, <1>6, <1>8 DEF ShowInv, ShowRows, Show!Stored
    <1> QED BY <1>2, <1>4, <1>5, <1>6, <1>7, <1>8, RowsKeep

LEMMA NoRoomIsNoLayout == Show!NoRoom \notin Layouts
    BY PartnersAssumption DEF Show!SchedulingAssumption, Show!NoRoom

LEMMA UpdateRoomStep ==
    ASSUME ShowInv, NEW r \in Rooms, NEW layout \in Layouts, Show!UpdateRoom(r, layout)
    PROVE  ShowInv'
    <1>1. rooms' = [rooms EXCEPT ![r] = layout] /\ UNCHANGED <<shows, plans, complete>>
        BY DEF Show!UpdateRoom
    <1>2. ShowType'
        BY <1>1 DEF ShowInv, ShowType
    <1>3. ASSUME NEW t \in Show!Shows, Show!Stored(t)' PROVE rooms'[shows'[t].room] # Show!NoRoom
        <2>1. Show!Stored(t) /\ shows[t].room \in Rooms
            BY <1>1, <1>3, StoredIs DEF ShowInv, Show!Stored, ShownRow
        <2>2. rooms[shows[t].room] # Show!NoRoom
            BY <2>1 DEF ShowInv, ShowRows
        <2> QED BY <1>1, <2>1, <2>2, NoRoomIsNoLayout DEF ShowInv, ShowType
    <1> QED BY <1>1, <1>2, <1>3, RowsKeep

LEMMA DeleteRoomStep ==
    ASSUME ShowInv, NEW r \in Rooms, Show!DeleteRoom(r)
    PROVE  ShowInv'
    <1>1. /\ rooms' = [rooms EXCEPT ![r] = Show!NoRoom] /\ UNCHANGED <<plans, complete>>
          /\ shows' = [s \in Show!Shows |-> Show!Cascade(s, r)]
        BY DEF Show!DeleteRoom
    <1>2. \A t \in Show!Shows : shows'[t] = IF Show!Stored(t) /\ shows[t].room = r THEN Show!GoneShow ELSE shows[t]
        BY <1>1 DEF Show!Cascade
    <1>3. \A t \in Show!Shows : shows'[t] \in ShownRow \cup {Show!NoShow, Show!GoneShow}
        BY <1>2 DEF ShowInv, ShowType
    <1>4. ShowType'
        BY <1>1, <1>3 DEF ShowInv, ShowType
    <1>5. ASSUME NEW t \in Show!Shows, Show!Stored(t)' PROVE rooms'[shows'[t].room] # Show!NoRoom
        <2>1. shows'[t] = shows[t] /\ Show!Stored(t) /\ shows[t].room # r
            BY <1>2, <1>5 DEF Show!Stored, Show!GoneShow
        <2>2. shows[t].room \in Rooms /\ rooms[shows[t].room] # Show!NoRoom
            BY <2>1, StoredIs DEF ShowInv, ShowRows, ShownRow
        <2> QED BY <1>1, <2>1, <2>2 DEF ShowInv, ShowType
    <1> QED BY <1>1, <1>2, <1>4, <1>5, RowsKeep

LEMMA ShowStep == ShowInv /\ [Show!Next]_(Show!vars) => ShowInv'
    <1> SUFFICES ASSUME ShowInv, [Show!Next]_(Show!vars) PROVE ShowInv'
        OBVIOUS
    <1>1. CASE UNCHANGED Show!vars
        BY <1>1 DEF Show!vars, ShowInv, ShowType, ShowRows, ShowCalls, PlanHolds, Show!Stored
    <1>2. ASSUME NEW c \in Callers, Show!CreateStep(c) PROVE ShowInv'
        BY <1>2, CreateShowtimeStep, PlanStep DEF Show!CreateStep
    <1>3. ASSUME NEW c \in Callers, Show!CallStep(c) PROVE ShowInv'
        <2>1. ASSUME Show!Fail(c) PROVE ShowInv'
            <3>1. Show!Return(c) /\ UNCHANGED <<shows, rooms, complete>>
                BY <2>1 DEF Show!Fail, Show!Thrown, Show!Return
            <3> QED BY <3>1, ShowReturns
        <2> QED BY <1>3, <2>1, InsertShowtimeStep, InsertSeatStep, CreateDoneStep DEF Show!CallStep
    <1>4. ASSUME NEW s \in Show!Shows, Show!CancelShowtime(s) PROVE ShowInv'
        BY <1>4, CancelShowtimeStep
    <1>5. ASSUME NEW r \in Rooms, Show!RoomStep(r) PROVE ShowInv'
        BY <1>5, UpdateRoomStep, DeleteRoomStep DEF Show!RoomStep
    <1> QED BY <1>1, <1>2, <1>3, <1>4, <1>5 DEF Show!Next

\* Creations one at a time: the rows known to the check are apart.
Apart(a, b) == a.end <= b.start \/ b.end <= a.start
AllListed == \A s \in Show!Shows : shows[s] # Show!NoShow => s <= PageLimit
RoomsCalm ==
    /\ \A c, d \in Callers : (plans[c] # Show!Idle /\ plans[d] # Show!Idle) => c = d
    /\ AllListed =>
          /\ \A s, t \in Show!Shows :
                (s # t /\ shows[s].status = "SCHEDULED" /\ shows[t].status = "SCHEDULED"
                       /\ shows[s].room = shows[t].room)
                    => Apart(shows[s], shows[t])
          /\ \A c \in Callers, s \in Show!Shows :
                (plans[c].at = "insert" /\ shows[s].status = "SCHEDULED"
                                        /\ shows[s].room = plans[c].room)
                    => Apart(plans[c], shows[s])
ShowCalm == ~unchecked => RoomsCalm

\* The check sees every row there is.
LEMMA PageIsAll ==
    ASSUME ShowType, AllListed, NEW s \in Show!Shows, Show!Stored(s)
    PROVE  s \in Show!FirstPage
    <1> DEFINE E == {t \in Show!Shows : Show!Stored(t) /\ Show!Before(t, s)}
               P == 1 .. PageLimit
    <1>1. PageLimit \in Nat \ {0} /\ MaxShows \in Nat
        BY PartnersAssumption DEF Show!SchedulingAssumption
    <1>2. \A t \in Show!Shows : Show!Stored(t) => t \in P
        BY <1>1 DEF AllListed, Show!Shows, Show!Stored, Show!NoShow
    <1>3. ~Show!Before(s, s)
        BY StoredIs DEF Show!Before, ShownRow, Show!Shows
    <1>4. E \in SUBSET (P \ {s}) /\ s \in P
        BY <1>2, <1>3
    <1>5. IsFiniteSet(P) /\ Cardinality(P) = PageLimit
        BY <1>1, FS_Interval
    <1> HIDE DEF P, E
    <1>6. IsFiniteSet(P \ {s}) /\ Cardinality(P \ {s}) = PageLimit - 1
        BY <1>4, <1>5, FS_RemoveElement
    <1>7. Cardinality(E) <= PageLimit - 1 /\ Cardinality(E) \in Nat
        BY <1>4, <1>6, FS_Subset, FS_CardinalityType
    <1>8. Show!Cardinality(E) < PageLimit
        BY <1>1, <1>7, SameCardinality
    <1> QED BY <1>8 DEF Show!FirstPage, E

LEMMA ShowCalmInit == Show!Init => ShowCalm
    BY DEF Show!Init, ShowCalm, RoomsCalm, Show!Idle, Show!NoShow

\* Rows kept, cancelled or gone; calls that go on or return.
LEMMA ShowCalmGoes ==
    ASSUME ShowCalm, ~unchecked' => ~unchecked,
           \A t \in Show!Shows :
              /\ shows'[t].status = "SCHEDULED" =>
                    /\ shows[t].status = "SCHEDULED" /\ shows'[t].room = shows[t].room
                    /\ shows'[t].start = shows[t].start /\ shows'[t].end = shows[t].end
              /\ shows[t] # Show!NoShow => shows'[t] # Show!NoShow,
           \A d \in Callers :
              /\ plans'[d] # Show!Idle => plans[d] # Show!Idle
              /\ plans'[d].at = "insert" => plans'[d] = plans[d]
    PROVE  ShowCalm'
    <1> SUFFICES ASSUME ~unchecked' PROVE RoomsCalm'
        BY DEF ShowCalm
    <1>1. RoomsCalm
        BY DEF ShowCalm
    <1>2. \A c, d \in Callers : (plans'[c] # Show!Idle /\ plans'[d] # Show!Idle) => c = d
        BY <1>1 DEF RoomsCalm
    <1>3. ASSUME AllListed' PROVE AllListed
        BY <1>3 DEF AllListed
    <1>4. ASSUME AllListed', NEW s \in Show!Shows, NEW t \in Show!Shows,
                 s # t, shows'[s].status = "SCHEDULED", shows'[t].status = "SCHEDULED",
                 shows'[s].room = shows'[t].room
          PROVE  Apart(shows'[s], shows'[t])
        <2>1. Apart(shows[s], shows[t])
            BY <1>1, <1>3, <1>4 DEF RoomsCalm
        <2> QED BY <1>4, <2>1 DEF Apart
    <1>5. ASSUME AllListed', NEW c \in Callers, NEW s \in Show!Shows,
                 plans'[c].at = "insert", shows'[s].status = "SCHEDULED", shows'[s].room = plans'[c].room
          PROVE  Apart(plans'[c], shows'[s])
        <2>1. plans'[c] = plans[c]
            BY <1>5
        <2>2. Apart(plans[c], shows[s])
            BY <1>1, <1>3, <1>5, <2>1 DEF RoomsCalm
        <2> QED BY <1>5, <2>1, <2>2 DEF Apart
    <1> QED BY <1>2, <1>4, <1>5 DEF RoomsCalm

LEMMA CreateCalm ==
    ASSUME ShowInv, ShowCalm, NEW c \in Callers, NEW room \in Rooms, NEW start \in Starts, NEW length \in Lengths,
           NEW n \in Totals, NEW price \in Prices,
           Show!CreateShowtime(c, room, start, length, n, price)
    PROVE  ShowCalm'
    <1> DEFINE k == [at |-> "insert", room |-> room, start |-> start, end |-> start + length,
                     total |-> n, seats |-> Show!RowOfSeats(n, price), asked |-> {price}]
    <1> SUFFICES ASSUME ~unchecked' PROVE RoomsCalm'
        BY DEF ShowCalm
    <1>1. ~unchecked /\ ~Show!Busy /\ plans' = [plans EXCEPT ![c] = k] /\ shows' = shows
        BY DEF Show!CreateShowtime, Show!Go
    <1>2. \A d \in Callers : plans'[d] = IF d = c THEN k ELSE Show!Idle
        BY <1>1 DEF ShowInv, ShowType, Show!Busy
    <1>3. RoomsCalm
        BY <1>1 DEF ShowCalm
    <1>4. AllListed' <=> AllListed
        BY <1>1 DEF AllListed
    <1>5. start \in Nat /\ length \in Nat
        BY PartnersAssumption DEF Show!SchedulingAssumption
    <1>6. ASSUME AllListed, NEW s \in Show!Shows, shows[s].status = "SCHEDULED", shows[s].room = room
          PROVE  Apart(k, shows[s])
        <2>1. Show!Stored(s) /\ shows[s] \in ShownRow
            BY <1>6, StoredIs DEF ShowInv
        <2>2. s \in Show!FirstPage
            BY <1>6, <2>1, PageIsAll DEF ShowInv
        <2>3. ~Show!Overlaps(s, start, start + length)
            BY <1>6, <2>2 DEF Show!CreateShowtime, Show!Conflict
        <2>4. shows[s].start \in Nat /\ shows[s].end \in Nat
            BY <2>1 DEF ShownRow
        <2> QED BY <1>5, <2>3, <2>4 DEF Apart, Show!Overlaps
    <1>7. k.at = "insert" /\ k.room = room /\ k # Show!Idle /\ Show!Idle.at = "idle"
        BY DEF Show!Idle
    <1> HIDE DEF k
    <1>8. \A d, e \in Callers : (plans'[d] # Show!Idle /\ plans'[e] # Show!Idle) => d = e
        BY <1>2
    <1>9. ASSUME AllListed', NEW d \in Callers, NEW s \in Show!Shows,
                 plans'[d].at = "insert", shows'[s].status = "SCHEDULED", shows'[s].room = plans'[d].room
          PROVE  Apart(plans'[d], shows'[s])
        <2>1. plans'[d] = k
            BY <1>2, <1>7, <1>9
        <2> QED BY <1>1, <1>4, <1>6, <1>7, <1>9, <2>1
    <1>10. AllListed' => \A s, t \in Show!Shows :
                (s # t /\ shows'[s].status = "SCHEDULED" /\ shows'[t].status = "SCHEDULED"
                       /\ shows'[s].room = shows'[t].room)
                    => Apart(shows'[s], shows'[t])
        BY <1>1, <1>3, <1>4 DEF RoomsCalm
    <1> QED BY <1>8, <1>9, <1>10 DEF RoomsCalm

LEMMA InsertCalm ==
    ASSUME ShowInv, ShowCalm, NEW c \in Callers, Show!InsertShowtime(c), UNCHANGED unchecked
    PROVE  ShowCalm'
    <1>1. PICK k : k = plans[c]
        OBVIOUS
    <1>2. k \in Insertion /\ k.at = "insert" /\ k # Show!Idle
        BY <1>1 DEF ShowInv, ShowType, PlanCall, Insertion, Seating, Show!Idle, Show!InsertShowtime, Show!At
    <1>3. CASE rooms[k.room] = Show!NoRoom
        <2>1. plans' = [plans EXCEPT ![c] = Show!Idle] /\ UNCHANGED shows
            BY <1>1, <1>3 DEF Show!InsertShowtime, Show!Return, Show!Go
        <2>2. \A d \in Callers : plans'[d] = IF d = c THEN Show!Idle ELSE plans[d]
            BY <2>1 DEF ShowInv, ShowType
        <2>3. \A d \in Callers : /\ plans'[d] # Show!Idle => plans[d] # Show!Idle
                                 /\ plans'[d].at = "insert" => plans'[d] = plans[d]
            BY <2>2 DEF Show!Idle
        <2> QED BY <2>1, <2>3, ShowCalmGoes
    <1>4. CASE rooms[k.room] # Show!NoRoom
        <2> SUFFICES ASSUME ~unchecked' PROVE RoomsCalm'
            BY DEF ShowCalm
        <2>1. RoomsCalm
            BY DEF ShowCalm
        <2> DEFINE F == {t \in Show!Shows : shows[t] = Show!NoShow}
        <2>2. F # {} /\ F \in SUBSET Show!Shows
            BY <1>1, <1>4 DEF Show!InsertShowtime
        <2>3. PICK s \in Show!Shows : s = Show!Min(F) /\ shows[s] = Show!NoShow
            BY <2>2, FreeIs
        <2> DEFINE w == [status |-> "SCHEDULED", room |-> k.room, start |-> k.start, end |-> k.end,
                         total |-> k.total, asked |-> k.asked, seats |-> {}]
                   g == [at |-> "seats", show |-> s, seats |-> k.seats]
        <2>4. shows' = [shows EXCEPT ![s] = w] /\ plans' = [plans EXCEPT ![c] = g]
            BY <1>1, <1>4, <2>3 DEF Show!InsertShowtime, Show!Go
        <2>5. /\ w.room = k.room /\ w.start = k.start /\ w.end = k.end
              /\ g.at = "seats" /\ w # Show!NoShow
            BY DEF Show!NoShow
        <2> HIDE DEF w, g, F
        <2>6. /\ \A t \in Show!Shows : shows'[t] = IF t = s THEN w ELSE shows[t]
              /\ \A d \in Callers : plans'[d] = IF d = c THEN g ELSE plans[d]
            BY <2>4 DEF ShowInv, ShowType
        <2>7. \A d \in Callers \ {c} : plans[d] = Show!Idle
            BY <1>1, <1>2, <2>1 DEF RoomsCalm
        <2>8. \A d, e \in Callers : (plans'[d] # Show!Idle /\ plans'[e] # Show!Idle) => d = e
            BY <2>6, <2>7
        <2>9. \A d \in Callers : plans'[d].at # "insert"
            BY <2>5, <2>6, <2>7 DEF Show!Idle
        <2>10. AllListed' => AllListed
            BY <2>5, <2>6 DEF AllListed
        <2>11. ASSUME AllListed', NEW t \in Show!Shows, t # s, shows[t].status = "SCHEDULED", shows[t].room = w.room
               PROVE  Apart(w, shows[t]) /\ Apart(shows[t], w)
            <3>1. Apart(k, shows[t])
                BY <1>1, <1>2, <2>1, <2>5, <2>10, <2>11 DEF RoomsCalm
            <3> QED BY <2>5, <3>1 DEF Apart
        <2>12. ASSUME AllListed', NEW t \in Show!Shows, NEW u \in Show!Shows,
                      t # u, shows'[t].status = "SCHEDULED", shows'[u].status = "SCHEDULED",
                      shows'[t].room = shows'[u].room
               PROVE  Apart(shows'[t], shows'[u])
            <3>1. CASE t = s
                BY <2>6, <2>11, <2>12, <3>1
            <3>2. CASE u = s
                BY <2>6, <2>11, <2>12, <3>2
            <3>3. CASE t # s /\ u # s
                <4>1. shows'[t] = shows[t] /\ shows'[u] = shows[u]
                    BY <2>6, <3>3
                <4> QED BY <2>1, <2>10, <2>12, <4>1 DEF RoomsCalm
            <3> QED BY <3>1, <3>2, <3>3
        <2> QED BY <2>8, <2>9, <2>12 DEF RoomsCalm
    <1> QED BY <1>3, <1>4

LEMMA CallCalm ==
    ASSUME ShowInv, ShowCalm, NEW c \in Callers, Show!CallStep(c)
    PROVE  ShowCalm'
    <1>1. CASE Show!InsertShowtime(c)
        BY <1>1, InsertCalm DEF Show!CallStep
    <1>2. CASE Show!InsertSeat(c)
        <2>1. PICK k : k = plans[c]
            OBVIOUS
        <2>2. k \in Seating /\ k # Show!Idle
            BY <1>2, <2>1 DEF ShowInv, ShowType, PlanCall, Seating, Insertion, Show!Idle, Show!InsertSeat, Show!At
        <2>3. PICK g : /\ plans' = [plans EXCEPT ![c] = g] /\ (g = Show!Idle \/ g.at = "seats")
                       /\ unchecked' = unchecked
            BY <1>2, <2>1, <2>2 DEF Show!CallStep, Show!InsertSeat, Show!Return, Show!Go, Seating
        <2>4. \A d \in Callers : plans'[d] = IF d = c THEN g ELSE plans[d]
            BY <2>3 DEF ShowInv, ShowType
        <2>5. \A d \in Callers : /\ plans'[d] # Show!Idle => plans[d] # Show!Idle
                                 /\ plans'[d].at = "insert" => plans'[d] = plans[d]
            BY <2>1, <2>2, <2>3, <2>4 DEF Show!Idle
        <2>6. \A t \in Show!Shows :
                 /\ shows'[t].status = "SCHEDULED" =>
                       /\ shows[t].status = "SCHEDULED" /\ shows'[t].room = shows[t].room
                       /\ shows'[t].start = shows[t].start /\ shows'[t].end = shows[t].end
                 /\ shows[t] # Show!NoShow => shows'[t] # Show!NoShow
            <3>1. CASE UNCHANGED shows
                BY <3>1
            <3>2. CASE ~UNCHANGED shows
                <4>1. PICK s \in Show!Shows : s = k.show
                    BY <2>2 DEF Seating
                <4>2. /\ Show!Stored(s)
                      /\ \E x : shows' = [shows EXCEPT ![s].seats = x]
                    BY <1>2, <2>1, <3>2, <4>1 DEF Show!InsertSeat, Show!Stored
                <4>3. PICK x : shows' = [shows EXCEPT ![s].seats = x]
                    BY <4>2
                <4>4. PICK v \in ShownRow : v = shows[s]
                    BY <4>2, StoredIs DEF ShowInv
                <4> DEFINE w == [v EXCEPT !.seats = x]
                <4>5. /\ w.status = v.status /\ w.room = v.room /\ w.start = v.start /\ w.end = v.end
                      /\ w # Show!NoShow
                    BY DEF ShownRow, Show!NoShow
                <4>6. shows' = [shows EXCEPT ![s] = w]
                    BY <4>3, <4>4
                <4> HIDE DEF w
                <4>7. \A t \in Show!Shows : shows'[t] = IF t = s THEN w ELSE shows[t]
                    BY <4>6 DEF ShowInv, ShowType
                <4> QED BY <4>4, <4>5, <4>7
            <3> QED BY <3>1, <3>2
        <2> QED BY <2>3, <2>5, <2>6, ShowCalmGoes
    <1>3. CASE Show!CreateDone(c) \/ Show!Fail(c)
        <2>1. plans' = [plans EXCEPT ![c] = Show!Idle] /\ UNCHANGED <<shows, unchecked>>
            BY <1>3 DEF Show!CreateDone, Show!Fail, Show!Thrown, Show!Return, Show!Go, Show!CallStep
        <2>2. \A d \in Callers : plans'[d] = IF d = c THEN Show!Idle ELSE plans[d]
            BY <2>1 DEF ShowInv, ShowType
        <2>3. \A d \in Callers : /\ plans'[d] # Show!Idle => plans[d] # Show!Idle
                                 /\ plans'[d].at = "insert" => plans'[d] = plans[d]
            BY <2>2 DEF Show!Idle
        <2> QED BY <2>1, <2>3, ShowCalmGoes
    <1> QED BY <1>1, <1>2, <1>3 DEF Show!CallStep

LEMMA ShowCalmStep == ShowInv /\ ShowCalm /\ [Show!Next]_(Show!vars) => ShowCalm'
    <1> SUFFICES ASSUME ShowInv, ShowCalm, [Show!Next]_(Show!vars) PROVE ShowCalm'
        OBVIOUS
    <1>1. CASE UNCHANGED Show!vars
        BY <1>1, ShowCalmGoes DEF Show!vars
    <1>2. ASSUME NEW c \in Callers, Show!CreateStep(c) PROVE ShowCalm'
        <2>1. ASSUME NEW room \in Rooms, NEW start \in Starts, NEW length \in Lengths, NEW prices \in PlanPrices,
                     Show!Plan(c, room, start, length, prices)
              PROVE  ShowCalm'
            BY <2>1 DEF Show!Plan, ShowCalm
        <2> QED BY <1>2, <2>1, CreateCalm DEF Show!CreateStep
    <1>3. ASSUME NEW c \in Callers, Show!CallStep(c) PROVE ShowCalm'
        BY <1>3, CallCalm
    <1>4. ASSUME NEW s \in Show!Shows, Show!CancelShowtime(s) PROVE ShowCalm'
        <2>1. PICK v \in ShownRow : v = shows[s]
            BY <1>4, StoredIs DEF ShowInv, Show!CancelShowtime
        <2> DEFINE w == [v EXCEPT !.status = "CANCELLED"]
        <2>2. shows' = [shows EXCEPT ![s] = w] /\ UNCHANGED <<plans, unchecked>>
            BY <1>4, <2>1 DEF Show!CancelShowtime
        <2>3. w.status = "CANCELLED" /\ w # Show!NoShow
            BY DEF ShownRow, Show!NoShow
        <2> HIDE DEF w
        <2>4. \A t \in Show!Shows : shows'[t] = IF t = s THEN w ELSE shows[t]
            BY <2>2 DEF ShowInv, ShowType
        <2> QED BY <2>2, <2>3, <2>4, ShowCalmGoes
    <1>5. ASSUME NEW r \in Rooms, Show!RoomStep(r) PROVE ShowCalm'
        <2>1. UNCHANGED <<plans, unchecked>>
            BY <1>5 DEF Show!RoomStep, Show!DeleteRoom, Show!UpdateRoom
        <2>2. \A t \in Show!Shows : shows'[t] \in {shows[t], Show!GoneShow}
            BY <1>5 DEF Show!RoomStep, Show!DeleteRoom, Show!UpdateRoom, Show!Cascade
        <2>3. Show!GoneShow.status = "gone" /\ Show!GoneShow # Show!NoShow
            BY DEF Show!GoneShow, Show!NoShow
        <2> QED BY <2>1, <2>2, <2>3, ShowCalmGoes
    <1> QED BY <1>1, <1>2, <1>3, <1>4, <1>5 DEF Show!Next

LEMMA ShowImplies == ShowInv /\ ShowCalm => ShowtimesConsistent
    <1> SUFFICES ASSUME ShowInv, ShowCalm PROVE ShowtimesConsistent
        OBVIOUS
    <1>1. Show!TypeOK
        BY StoredIs DEF ShowInv, ShowType, ShowRows, RowAdds, ShownRow, Show!TypeOK
    <1>2. Show!SeatsMatchTotal
        <2> SUFFICES ASSUME NEW s \in Show!Shows, Show!Stored(s)
                     PROVE  LET seats == {<<x.row, x.col>> : x \in shows[s].seats} IN
                            /\ Show!Cardinality(seats) = Show!Cardinality(shows[s].seats)
                            /\ Show!Cardinality(seats) <= shows[s].total
                            /\ s \in complete => Show!Cardinality(seats) = shows[s].total
            BY DEF Show!SeatsMatchTotal
        <2>1. /\ RowAdds(shows[s])
              /\ s \in complete => Cardinality(shows[s].seats) = shows[s].total
            BY DEF ShowInv, ShowRows
        <2> DEFINE S == shows[s].seats
                   T == {<<x.row, x.col>> : x \in S}
                   f == [x \in S |-> <<x.row, x.col>>]
        <2>2. f \in [S -> T] /\ \A t \in T : \E x \in S : f[x] = t
            OBVIOUS
        <2>3. \A x, y \in S : f[x] = f[y] => x = y
            BY <2>1 DEF RowAdds, OnePlaceEach
        <2>4. IsFiniteSet(S) /\ Cardinality(S) <= shows[s].total
            BY <2>1 DEF RowAdds
        <2>5. Cardinality(T) = Cardinality(S)
            <3> HIDE DEF S, T, f
            <3> QED BY <2>2, <2>3, <2>4, OneToOne
        <2> QED BY <2>1, <2>4, <2>5, SameCardinality
    <1>3. Show!SeatsArePriced
        BY DEF ShowInv, ShowRows, RowAdds, Priced, Show!SeatsArePriced
    <1>4. Show!NoOverlap
        BY DEF ShowCalm, RoomsCalm, AllListed, Apart, Show!NoOverlap
    <1> QED BY <1>1, <1>2, <1>3, <1>4 DEF ShowtimesConsistent

(* A showtime has its seats and their prices, whoever changes the room or     *)
(* fails in between, and the showtimes of a room made one at a time never     *)
(* overlap.                                                                *)
THEOREM ShowtimesStayConsistent == Show!Spec => []ShowtimesConsistent
    <1>1. Show!Init => ShowInv /\ ShowCalm
        BY ShowInit, ShowCalmInit
    <1>2. ShowInv /\ ShowCalm /\ [Show!Next]_(Show!vars) => (ShowInv /\ ShowCalm)'
        BY ShowStep, ShowCalmStep
    <1>3. ShowInv /\ ShowCalm => ShowtimesConsistent
        BY ShowImplies
    <1> QED BY <1>1, <1>2, <1>3, PTL DEF Show!Spec

-----------------------------------------------------------------------------
(***************************************************************************)
(* Rooms and services.                                                     *)
(***************************************************************************)
LEMMA ListIs ==
    ASSUME NEW list \in Link!Lists
    PROVE  Link!ToSet(list) \subseteq Services /\ list # Link!KeepAll
    <1>1. PICK m \in 0 .. MaxLinks : list \in [1 .. m -> Services]
        BY DEF Link!Lists, Link!BoundedSeq, Link!SeqOf
    <1>2. Link!ToSet(list) \subseteq Services
        BY <1>1 DEF Link!ToSet
    <1>3. ASSUME list = <<"Keep">> PROVE FALSE
        <2>1. list[1] = "Keep" /\ 1 \in DOMAIN list
            BY <1>3
        <2>2. "Keep" \in Services
            BY <1>1, <2>1
        <2> QED BY <2>2, PartnersAssumption DEF Link!RoomServicesAssumption
    <1> QED BY <1>2, <1>3 DEF Link!KeepAll

LEMMA NamesAre == /\ Link!NotYet \notin Names /\ Link!Gone \notin Names /\ Link!Keep \notin Names
                  /\ Link!NotYet # Link!Gone
    BY PartnersAssumption DEF Link!RoomServicesAssumption, Link!NotYet, Link!Gone, Link!Keep

LinkCall == {Link!Idle} \cup Link!RoomCall \cup Link!ServiceCall
LinkType ==
    /\ name \in [Rooms -> Names \cup {Link!NotYet, Link!Gone}]
    /\ services \in [Services -> {"NotYet", "Stored", "Gone"}]
    /\ links \subseteq Rooms \X Services
    /\ request \in [Callers -> LinkCall]
    /\ known \in [Rooms -> (SUBSET Services) \cup {Link!Unsure}]
RoomNames == \A r, q \in Rooms : (Link!Stored(r) /\ name[r] = name[q]) => r = q
\* A call that changes links has the list of the new ones.
HasList(k) == k.at \in {"clear", "link"} => k.list # Link!KeepAll
LinkInv ==
    /\ LinkType /\ RoomNames /\ Link!NoDangling
    /\ \A c \in Callers : HasList(request[c])

LEMMA RoomCallIs ==
    ASSUME NEW k \in LinkCall, k.at \in {"clear", "link", "save"}
    PROVE  k \in Link!RoomCall
    BY DEF LinkCall, Link!RoomCall, Link!ServiceCall, Link!Idle

LEMMA ServiceCallIs ==
    ASSUME NEW k \in LinkCall, k.at = "commit"
    PROVE  k \in Link!ServiceCall
    BY DEF LinkCall, Link!RoomCall, Link!ServiceCall, Link!Idle

LEMMA LinkInit == Link!Init => LinkInv
    <1> SUFFICES ASSUME Link!Init PROVE LinkInv
        OBVIOUS
    <1>1. LinkType
        BY DEF Link!Init, LinkType, LinkCall
    <1>2. RoomNames
        BY NamesAre DEF Link!Init, RoomNames, Link!Stored
    <1>3. Link!NoDangling
        BY DEF Link!Init, Link!NoDangling
    <1> QED BY <1>1, <1>2, <1>3 DEF Link!Init, LinkInv, HasList, Link!Idle

\* The rows change, and one call goes on.
LEMMA CallGoes ==
    ASSUME LinkInv, NEW c \in Callers, NEW k \in LinkCall, HasList(k),
           request' = request \/ request' = [request EXCEPT ![c] = k]
    PROVE  /\ request' \in [Callers -> LinkCall]
           /\ \A d \in Callers : HasList(request'[d])
    <1>1. request \in [Callers -> LinkCall] /\ \A d \in Callers : HasList(request[d])
        BY DEF LinkInv, LinkType
    <1> QED BY <1>1

LEMMA LinkIdle == Link!Idle \in LinkCall /\ HasList(Link!Idle)
    BY DEF Link!Idle, LinkCall, HasList

\* A call goes on without the rows.
LEMMA RowsStay ==
    ASSUME LinkInv, NEW c \in Callers, NEW k \in LinkCall, HasList(k),
           request' = [request EXCEPT ![c] = k],
           UNCHANGED <<name, services, links>>,
           known' \in [Rooms -> (SUBSET Services) \cup {Link!Unsure}]
    PROVE  LinkInv'
    <1>1. /\ request' \in [Callers -> LinkCall]
          /\ \A d \in Callers : HasList(request'[d])
        BY CallGoes
    <1> QED BY <1>1 DEF LinkInv, LinkType, RoomNames, Link!NoDangling, Link!Stored, HasList

\* Links between what is there; names that are free.
LEMMA LinksChange ==
    ASSUME LinkInv, NEW c \in Callers, NEW k \in LinkCall, HasList(k),
           request' = request \/ request' = [request EXCEPT ![c] = k],
           UNCHANGED <<name, services>>,
           NEW more \in SUBSET (Rooms \X Services),
           \A l \in more : Link!Stored(l[1]) /\ services[l[2]] = "Stored",
           links' \subseteq links \cup more,
           known' \in [Rooms -> (SUBSET Services) \cup {Link!Unsure}]
    PROVE  LinkInv'
    <1>1. /\ request' \in [Callers -> LinkCall]
          /\ \A d \in Callers : HasList(request'[d])
        BY CallGoes
    <1>2. LinkType'
        BY <1>1 DEF LinkInv, LinkType
    <1>3. RoomNames'
        BY DEF LinkInv, RoomNames, Link!Stored
    <1>4. Link!NoDangling'
        BY DEF LinkInv, Link!NoDangling, Link!Stored
    <1> QED BY <1>1, <1>2, <1>3, <1>4 DEF LinkInv, HasList

LEMMA KnownNow ==
    ASSUME LinkType, NEW s \in Services, NEW rs
    PROVE  Link!Now(s, rs) \in [Rooms -> (SUBSET Services) \cup {Link!Unsure}]
    <1>1. ASSUME NEW r \in Rooms
          PROVE  (IF known[r] = Link!Unsure THEN Link!Unsure
                  ELSE IF r \in rs THEN known[r] \cup {s} ELSE known[r] \ {s})
                     \in (SUBSET Services) \cup {Link!Unsure}
        <2>1. known[r] \in (SUBSET Services) \cup {Link!Unsure}
            BY DEF LinkType
        <2> QED BY <2>1
    <1> QED BY <1>1 DEF Link!Now

LEMMA CreateRoomStep ==
    ASSUME LinkInv, NEW c \in Callers, NEW r \in Rooms, NEW n \in Names, NEW list \in Link!Lists,
           Link!CreateRoom(c, r, n, list)
    PROVE  LinkInv'
    <1>1. Link!ToSet(list) \subseteq Services
        BY ListIs
    <1>2. /\ name' = [name EXCEPT ![r] = n] /\ name[r] = Link!NotYet
          /\ links' = links \cup ({r} \X Link!ToSet(list))
          /\ known' = [known EXCEPT ![r] = Link!ToSet(list)]
          /\ UNCHANGED <<services, request>>
          /\ \A q \in Rooms \ {r} : name[q] # n
          /\ \A s \in Link!ToSet(list) : services[s] = "Stored"
        BY DEF Link!CreateRoom, Link!Pairs, Link!FreeName
    <1>3. LinkType'
        BY <1>1, <1>2 DEF LinkInv, LinkType
    <1>4. \A q \in Rooms : name'[q] = IF q = r THEN n ELSE name[q]
        BY <1>2 DEF LinkInv, LinkType
    <1>5. RoomNames'
        BY <1>2, <1>4 DEF LinkInv, RoomNames, Link!Stored
    <1>6. ASSUME NEW l \in links' PROVE Link!Stored(l[1])' /\ services'[l[2]] = "Stored"
        <2>1. CASE l \in links
            <3>1. Link!Stored(l[1]) /\ services[l[2]] = "Stored" /\ l[1] \in Rooms
                BY <2>1 DEF LinkInv, LinkType, Link!NoDangling
            <3> QED BY <1>2, <1>4, <3>1 DEF Link!Stored
        <2>2. CASE l \in {r} \X Link!ToSet(list)
            BY <1>2, <1>4, <2>2 DEF Link!Stored
        <2> QED BY <1>2, <2>1, <2>2
    <1> QED BY <1>2, <1>3, <1>5, <1>6 DEF LinkInv, Link!NoDangling, HasList

LEMMA StartUpdateStep ==
    ASSUME LinkInv, NEW c \in Callers, NEW r \in Rooms, NEW n \in Names \cup {Link!Keep},
           NEW list \in Link!Lists \cup {Link!KeepAll},
           Link!UpdateRoom(c, r, n, list)
    PROVE  LinkInv'
    <1> DEFINE k == [at |-> IF list = Link!KeepAll THEN "save" ELSE "clear", room |-> r, name |-> n, list |-> list]
    <1>1. k \in LinkCall /\ HasList(k)
        BY DEF LinkCall, Link!RoomCall, HasList
    <1>2. request' = [request EXCEPT ![c] = k] /\ UNCHANGED <<name, services, links, known>>
        BY DEF Link!UpdateRoom, Link!Goto
    <1> HIDE DEF k
    <1>3. known' \in [Rooms -> (SUBSET Services) \cup {Link!Unsure}]
        BY <1>2 DEF LinkInv, LinkType
    <1> QED BY <1>1, <1>2, <1>3, RowsStay

LEMMA ClearLinksStep ==
    ASSUME LinkInv, NEW c \in Callers, Link!ClearLinks(c)
    PROVE  LinkInv'
    <1>1. PICK k \in LinkCall : k = request[c] /\ k.at = "clear" /\ HasList(k)
        BY DEF LinkInv, LinkType, Link!ClearLinks
    <1>2. k \in Link!RoomCall
        BY <1>1, RoomCallIs
    <1> DEFINE g == [k EXCEPT !.at = IF k.list = <<>> THEN "save" ELSE "link"]
    <1>3. g \in LinkCall /\ HasList(g)
        BY <1>1, <1>2 DEF LinkCall, Link!RoomCall, HasList
    <1>4. /\ request' = [request EXCEPT ![c] = g] /\ links' \subseteq links \cup {}
          /\ UNCHANGED <<name, services, known>>
        BY <1>1 DEF Link!ClearLinks, Link!Goto
    <1> HIDE DEF g
    <1>5. known' \in [Rooms -> (SUBSET Services) \cup {Link!Unsure}]
        BY <1>4 DEF LinkInv, LinkType
    <1>6. {} \in SUBSET (Rooms \X Services) /\ \A l \in {} : Link!Stored(l[1]) /\ services[l[2]] = "Stored"
        OBVIOUS
    <1> QED BY <1>3, <1>4, <1>5, <1>6, LinksChange

LEMMA AddLinksStep ==
    ASSUME LinkInv, NEW c \in Callers, Link!AddLinks(c)
    PROVE  LinkInv'
    <1>1. PICK k \in LinkCall : k = request[c] /\ k.at = "link" /\ HasList(k)
        BY DEF LinkInv, LinkType, Link!AddLinks
    <1>2. k \in Link!RoomCall /\ k.room \in Rooms /\ k.list \in Link!Lists
        BY <1>1, RoomCallIs DEF Link!RoomCall, HasList
    <1> DEFINE g == [k EXCEPT !.at = "save"]
               more == {k.room} \X Link!ToSet(k.list)
    <1>3. g \in LinkCall /\ HasList(g)
        BY <1>2 DEF LinkCall, Link!RoomCall, HasList
    <1>4. /\ request' = [request EXCEPT ![c] = g] /\ links' \subseteq links \cup more
          /\ UNCHANGED <<name, services, known>>
        BY <1>1 DEF Link!AddLinks, Link!Goto, Link!Pairs
    <1>5. more \in SUBSET (Rooms \X Services)
        BY <1>2, ListIs
    <1>6. \A l \in more : Link!Stored(l[1]) /\ services[l[2]] = "Stored"
        BY <1>1 DEF Link!AddLinks, Link!Insertable
    <1> HIDE DEF g, more
    <1>7. known' \in [Rooms -> (SUBSET Services) \cup {Link!Unsure}]
        BY <1>4 DEF LinkInv, LinkType
    <1> QED BY <1>3, <1>4, <1>5, <1>6, <1>7, LinksChange

LEMMA SaveRoomStep ==
    ASSUME LinkInv, NEW c \in Callers, Link!SaveRoom(c)
    PROVE  LinkInv'
    <1>1. PICK k \in LinkCall : k = request[c] /\ k.at = "save"
        BY DEF LinkInv, LinkType, Link!SaveRoom
    <1>2. /\ k.room \in Rooms /\ k.list \in Link!Lists \cup {Link!KeepAll}
          /\ k.name \in Names \cup {Link!Keep}
        BY <1>1, RoomCallIs DEF Link!RoomCall
    <1>3. /\ request' = [request EXCEPT ![c] = Link!Idle] /\ UNCHANGED <<services, links>>
          /\ name' = IF k.name = Link!Keep THEN name ELSE [name EXCEPT ![k.room] = k.name]
          /\ known' = IF k.list = Link!KeepAll THEN known ELSE [known EXCEPT ![k.room] = Link!ToSet(k.list)]
          /\ k.name = Link!Keep \/ (\A q \in Rooms \ {k.room} : name[q] # k.name)
          /\ Link!Stored(k.room)
        BY <1>1 DEF Link!SaveRoom, Link!Answered, Link!Goto, Link!FreeName
    <1>4. known' \in [Rooms -> (SUBSET Services) \cup {Link!Unsure}]
        BY <1>2, <1>3, ListIs DEF LinkInv, LinkType
    <1>5. CASE k.name = Link!Keep
        <2>1. UNCHANGED <<name, services, links>>
            BY <1>3, <1>5
        <2> QED BY <1>3, <1>4, <2>1, LinkIdle, RowsStay
    <1>6. CASE k.name # Link!Keep
        <2>1. k.name \in Names /\ name' = [name EXCEPT ![k.room] = k.name]
            BY <1>2, <1>3, <1>6
        <2>2. \A q \in Rooms : name'[q] = IF q = k.room THEN k.name ELSE name[q]
            BY <2>1 DEF LinkInv, LinkType
        <2>3. /\ request' \in [Callers -> LinkCall]
              /\ \A d \in Callers : HasList(request'[d])
            BY <1>3, LinkIdle, CallGoes
        <2>4. LinkType'
            BY <1>3, <1>4, <2>1, <2>3 DEF LinkInv, LinkType
        <2>5. RoomNames'
            BY <1>3, <1>6, <2>2 DEF LinkInv, RoomNames, Link!Stored
        <2>6. \A r \in Rooms : Link!Stored(r) => Link!Stored(r)'
            BY <2>1, <2>2 DEF Link!Stored
        <2>7. Link!NoDangling'
            BY <1>3, <2>6 DEF LinkInv, LinkType, Link!NoDangling
        <2> QED BY <2>3, <2>4, <2>5, <2>7 DEF LinkInv, HasList
    <1> QED BY <1>5, <1>6

LEMMA UpdateFailsStep ==
    ASSUME LinkInv, NEW c \in Callers, Link!UpdateFails(c)
    PROVE  LinkInv'
    <1>1. request' = [request EXCEPT ![c] = Link!Idle] /\ UNCHANGED <<name, services, links>>
        BY DEF Link!UpdateFails, Link!Answered, Link!Goto
    <1>2. known' \in [Rooms -> (SUBSET Services) \cup {Link!Unsure}]
        <2>1. known \in [Rooms -> (SUBSET Services) \cup {Link!Unsure}]
            BY DEF LinkInv, LinkType
        <2>2. known' = known \/ \E x : known' = [known EXCEPT ![x] = Link!Unsure]
            BY DEF Link!UpdateFails
        <2>3. PICK x : known' = known \/ known' = [known EXCEPT ![x] = Link!Unsure]
            BY <2>2
        <2>4. known' = known \/ known' = [r \in Rooms |-> IF r = x THEN Link!Unsure ELSE known[r]]
            BY <2>1, <2>3
        <2> QED BY <2>1, <2>4
    <1> QED BY <1>1, <1>2, LinkIdle, RowsStay

LEMMA DeleteRoomLinks ==
    ASSUME LinkInv, NEW c \in Callers, NEW r \in Rooms, Link!DeleteRoom(c, r)
    PROVE  LinkInv'
    <1>1. /\ name' = [name EXCEPT ![r] = Link!Gone]
          /\ links' = {l \in links : l[1] # r}
          /\ known' = [known EXCEPT ![r] = {}] /\ UNCHANGED <<services, request>>
        BY DEF Link!DeleteRoom, Link!LinksOfRoom
    <1>2. \A q \in Rooms : name'[q] = IF q = r THEN Link!Gone ELSE name[q]
        BY <1>1 DEF LinkInv, LinkType
    <1>3. LinkType'
        BY <1>1 DEF LinkInv, LinkType
    <1>4. RoomNames'
        BY <1>2, NamesAre DEF LinkInv, RoomNames, Link!Stored
    <1>5. Link!NoDangling'
        BY <1>1, <1>2 DEF LinkInv, LinkType, Link!NoDangling, Link!Stored
    <1> QED BY <1>1, <1>3, <1>4, <1>5 DEF LinkInv, HasList

LEMMA CreateServiceStep ==
    ASSUME LinkInv, NEW c \in Callers, NEW s \in Services, NEW rs \in SUBSET Rooms,
           Link!CreateService(c, s, rs)
    PROVE  LinkInv'
    <1>1. /\ services[s] = "NotYet" /\ \A r \in rs : Link!Stored(r)
          /\ services' = [services EXCEPT ![s] = "Stored"]
          /\ links' = links \cup (rs \X {s}) /\ known' = Link!Now(s, rs)
          /\ UNCHANGED <<name, request>>
        BY DEF Link!CreateService
    <1>2. known' \in [Rooms -> (SUBSET Services) \cup {Link!Unsure}]
        BY <1>1, KnownNow DEF LinkInv
    <1>3. LinkType'
        BY <1>1, <1>2 DEF LinkInv, LinkType
    <1>4. RoomNames'
        BY <1>1 DEF LinkInv, RoomNames, Link!Stored
    <1>5. ASSUME NEW l \in links' PROVE Link!Stored(l[1])' /\ services'[l[2]] = "Stored"
        <2>1. CASE l \in links
            <3>1. Link!Stored(l[1]) /\ services[l[2]] = "Stored" /\ l[2] \in Services
                BY <2>1 DEF LinkInv, LinkType, Link!NoDangling
            <3> QED BY <1>1, <3>1 DEF LinkInv, LinkType, Link!Stored
        <2>2. CASE l \in rs \X {s}
            BY <1>1, <2>2 DEF LinkInv, LinkType, Link!Stored
        <2> QED BY <1>1, <2>1, <2>2
    <1> QED BY <1>1, <1>3, <1>4, <1>5 DEF LinkInv, Link!NoDangling, HasList

LEMMA StartServiceStep ==
    ASSUME LinkInv, NEW c \in Callers, NEW s \in Services, NEW rs \in SUBSET Rooms,
           Link!UpdateService(c, s, rs)
    PROVE  LinkInv'
    <1> DEFINE k == [at |-> "commit", service |-> s, rooms |-> rs, old |-> Link!LinksOfService(s)]
    <1>1. k \in LinkCall /\ HasList(k)
        BY DEF LinkInv, LinkType, LinkCall, Link!ServiceCall, Link!LinksOfService, HasList
    <1>2. request' = [request EXCEPT ![c] = k] /\ UNCHANGED <<name, services, links, known>>
        BY DEF Link!UpdateService, Link!Goto
    <1> HIDE DEF k
    <1>3. known' \in [Rooms -> (SUBSET Services) \cup {Link!Unsure}]
        BY <1>2 DEF LinkInv, LinkType
    <1> QED BY <1>1, <1>2, <1>3, RowsStay

LEMMA CommitServiceStep ==
    ASSUME LinkInv, NEW c \in Callers, Link!CommitService(c)
    PROVE  LinkInv'
    <1>1. PICK k \in LinkCall : k = request[c] /\ k.at = "commit"
        BY DEF LinkInv, LinkType, Link!CommitService
    <1>2. k.service \in Services /\ k.rooms \in SUBSET Rooms
        BY <1>1, ServiceCallIs DEF Link!ServiceCall
    <1> DEFINE more == k.rooms \X {k.service}
    <1>3. /\ request' = [request EXCEPT ![c] = Link!Idle] /\ UNCHANGED <<name, services>>
          /\ links' \subseteq links \cup more /\ known' = Link!Now(k.service, k.rooms)
          /\ services[k.service] = "Stored" /\ \A r \in k.rooms : Link!Stored(r)
        BY <1>1 DEF Link!CommitService, Link!Answered, Link!Goto, Link!CanCommit, Link!NewLinks
    <1>4. more \in SUBSET (Rooms \X Services) /\ \A l \in more : Link!Stored(l[1]) /\ services[l[2]] = "Stored"
        BY <1>2, <1>3
    <1>5. known' \in [Rooms -> (SUBSET Services) \cup {Link!Unsure}]
        BY <1>2, <1>3, KnownNow DEF LinkInv
    <1> HIDE DEF more
    <1> QED BY <1>3, <1>4, <1>5, LinkIdle, LinksChange

LEMMA DeleteServiceStep ==
    ASSUME LinkInv, NEW c \in Callers, NEW s \in Services, Link!DeleteService(c, s)
    PROVE  LinkInv'
    <1>1. /\ services' = [services EXCEPT ![s] = "Gone"]
          /\ links' = {l \in links : l[2] # s} /\ known' = Link!Now(s, {})
          /\ UNCHANGED <<name, request>>
        BY DEF Link!DeleteService, Link!LinksOfService
    <1>2. known' \in [Rooms -> (SUBSET Services) \cup {Link!Unsure}]
        BY <1>1, KnownNow DEF LinkInv
    <1>3. LinkType'
        BY <1>1, <1>2 DEF LinkInv, LinkType
    <1>4. RoomNames'
        BY <1>1 DEF LinkInv, RoomNames, Link!Stored
    <1>5. Link!NoDangling'
        BY <1>1 DEF LinkInv, LinkType, Link!NoDangling, Link!Stored
    <1> QED BY <1>1, <1>3, <1>4, <1>5 DEF LinkInv, HasList

LEMMA LinkStep == LinkInv /\ [Link!Next]_(Link!vars) => LinkInv'
    <1> SUFFICES ASSUME LinkInv, [Link!Next]_(Link!vars) PROVE LinkInv'
        OBVIOUS
    <1>1. CASE UNCHANGED Link!vars
        BY <1>1 DEF Link!vars, LinkInv, LinkType, RoomNames, Link!NoDangling, Link!Stored, HasList
    <1>2. ASSUME NEW c \in Callers, Link!RoomStep(c) PROVE LinkInv'
        BY <1>2, DeleteRoomLinks, CreateRoomStep, StartUpdateStep, ClearLinksStep, AddLinksStep,
           SaveRoomStep, UpdateFailsStep DEF Link!RoomStep
    <1>3. ASSUME NEW c \in Callers, Link!ServiceStep(c) PROVE LinkInv'
        <2>1. ASSUME Link!RollBack(c) PROVE LinkInv'
            <3>1. request' = [request EXCEPT ![c] = Link!Idle] /\ UNCHANGED <<name, services, links, known>>
                BY <2>1 DEF Link!RollBack, Link!Answered, Link!Goto
            <3>2. known' \in [Rooms -> (SUBSET Services) \cup {Link!Unsure}]
                BY <3>1 DEF LinkInv, LinkType
            <3> QED BY <3>1, <3>2, LinkIdle, RowsStay
        <2> QED BY <1>3, <2>1, DeleteServiceStep, CreateServiceStep, StartServiceStep, CommitServiceStep
               DEF Link!ServiceStep
    <1> QED BY <1>1, <1>2, <1>3 DEF Link!Next

\* Requests one after the other: the rooms have the services of the answers,
\* but for the one whose links a request is replacing.
RoomAgrees(r) == (Link!Stored(r) /\ known[r] # Link!Unsure) => Link!ServicesOf(r) = known[r]
Replacing(k, r) == k.at \in {"link", "save"} /\ k.list # Link!KeepAll /\ k.room = r
CallAgrees(k) ==
    /\ k.at = "link" => Link!LinksOfRoom(k.room) = {}
    /\ k.at = "save" => (k.list = Link!KeepAll \/ Link!LinksOfRoom(k.room) = Link!Pairs(k.room, k.list))
    /\ k.at = "commit" => k.old = Link!LinksOfService(k.service)
LinksCalm ==
    /\ \A c, d \in Callers : (request[c] # Link!Idle /\ request[d] # Link!Idle) => c = d
    /\ \A c \in Callers : CallAgrees(request[c])
    /\ \A r \in Rooms : RoomAgrees(r) \/ \E c \in Callers : Replacing(request[c], r)
LinkCalm == ~mixed => LinksCalm

LEMMA IdleAgrees == /\ CallAgrees(Link!Idle) /\ CallAgrees(Link!Idle)'
                    /\ \A r : ~Replacing(Link!Idle, r)
    BY DEF Link!Idle, CallAgrees, Replacing

LEMMA LinkCalmInit == Link!Init => LinkCalm
    <1> SUFFICES ASSUME Link!Init PROVE LinksCalm
        BY DEF LinkCalm
    <1>1. \A c \in Callers : request[c] = Link!Idle
        BY DEF Link!Init
    <1>2. \A r \in Rooms : RoomAgrees(r)
        BY DEF Link!Init, RoomAgrees, Link!ServicesOf
    <1> QED BY <1>1, <1>2, IdleAgrees DEF LinksCalm

\* At most one request after the step.
LEMMA OneCalm ==
    ASSUME NEW c \in Callers, NEW k, request'[c] = k, CallAgrees(k)',
           \A d \in Callers \ {c} : request'[d] = Link!Idle,
           \A r \in Rooms : RoomAgrees(r)' \/ Replacing(k, r)
    PROVE  LinksCalm'
    <1>1. \A d, e \in Callers : (request'[d] # Link!Idle /\ request'[e] # Link!Idle) => d = e
        OBVIOUS
    <1>2. \A d \in Callers : request'[d] = k \/ request'[d] = Link!Idle
        OBVIOUS
    <1>3. ASSUME NEW d \in Callers PROVE CallAgrees(request[d])'
        <2>1. CASE request'[d] = k
            BY <2>1 DEF CallAgrees
        <2>2. CASE request'[d] = Link!Idle
            BY <2>2, IdleAgrees DEF CallAgrees
        <2> QED BY <1>2, <2>1, <2>2
    <1>4. ASSUME NEW r \in Rooms
          PROVE  RoomAgrees(r)' \/ \E d \in Callers : Replacing(request[d], r)'
        BY DEF Replacing
    <1> QED BY <1>1, <1>3, <1>4 DEF LinksCalm

\* The starts of requests: nobody else is under way.
LEMMA AllIdle ==
    ASSUME LinkCalm, NEW c \in Callers, Link!MayStart(c), ~mixed'
    PROVE  /\ \A d \in Callers : request[d] = Link!Idle
           /\ \A r \in Rooms : RoomAgrees(r)
    <1>1. ~mixed /\ \A d \in Callers : request[d] = Link!Idle
        BY DEF Link!MayStart
    <1>2. LinksCalm
        BY <1>1 DEF LinkCalm
    <1> QED BY <1>1, <1>2, IdleAgrees DEF LinksCalm

LEMMA CalmAtOnce ==
    ASSUME NEW c \in Callers, \A d \in Callers : request[d] = Link!Idle, request' = request,
           \A r \in Rooms : RoomAgrees(r)'
    PROVE  LinksCalm'
    <1>1. request'[c] = Link!Idle
        OBVIOUS
    <1> QED BY <1>1, IdleAgrees, OneCalm

\* One service set anew.
LEMMA AgreesNow ==
    ASSUME NEW s \in Services, NEW rs, NEW r \in Rooms, RoomAgrees(r),
           name' = name, known' = Link!Now(s, rs),
           \A t \in Services : <<r, t>> \in links' <=> IF t = s THEN r \in rs ELSE <<r, t>> \in links
    PROVE  RoomAgrees(r)'
    <1>1. known'[r] = IF known[r] = Link!Unsure THEN Link!Unsure
                      ELSE IF r \in rs THEN known[r] \cup {s} ELSE known[r] \ {s}
        BY DEF Link!Now
    <1> SUFFICES ASSUME Link!Stored(r)', known'[r] # Link!Unsure
                 PROVE  Link!ServicesOf(r)' = known'[r]
        BY DEF RoomAgrees
    <1>2. known[r] # Link!Unsure /\ Link!ServicesOf(r) = known[r]
        BY <1>1 DEF RoomAgrees, Link!Stored
    <1>3. Link!ServicesOf(r)' = {t \in Services : IF t = s THEN r \in rs ELSE t \in known[r]}
        BY <1>2 DEF Link!ServicesOf
    <1>4. known[r] \subseteq Services
        BY <1>2 DEF Link!ServicesOf
    <1>5. known'[r] = IF r \in rs THEN known[r] \cup {s} ELSE known[r] \ {s}
        BY <1>1, <1>2
    <1>6. CASE r \in rs
        BY <1>3, <1>4, <1>5, <1>6
    <1>7. CASE r \notin rs
        BY <1>3, <1>4, <1>5, <1>7
    <1> QED BY <1>6, <1>7

LEMMA DoneAtOnceCalm ==
    ASSUME LinkInv, LinkCalm, NEW c \in Callers,
           \/ \E r \in Rooms : Link!DeleteRoom(c, r)
           \/ \E r \in Rooms, n \in Names, list \in Link!Lists : Link!CreateRoom(c, r, n, list)
           \/ \E s \in Services : Link!DeleteService(c, s)
           \/ \E s \in Services, rs \in SUBSET Rooms : Link!CreateService(c, s, rs)
    PROVE  LinkCalm'
    <1> SUFFICES ASSUME ~mixed' PROVE LinksCalm'
        BY DEF LinkCalm
    <1>1. Link!MayStart(c) /\ request' = request
        BY DEF Link!DeleteRoom, Link!CreateRoom, Link!DeleteService, Link!CreateService
    <1>2. /\ \A d \in Callers : request[d] = Link!Idle
          /\ \A r \in Rooms : RoomAgrees(r)
        BY <1>1, AllIdle
    <1>3. /\ name \in [Rooms -> Names \cup {Link!NotYet, Link!Gone}]
          /\ links \subseteq Rooms \X Services
          /\ known \in [Rooms -> (SUBSET Services) \cup {Link!Unsure}]
        BY DEF LinkInv, LinkType
    <1>4. ASSUME NEW q \in Rooms, Link!DeleteRoom(c, q), NEW r \in Rooms PROVE RoomAgrees(r)'
        <2>1. /\ name' = [name EXCEPT ![q] = Link!Gone] /\ known' = [known EXCEPT ![q] = {}]
              /\ links' = {l \in links : l[1] # q}
            BY <1>4 DEF Link!DeleteRoom, Link!LinksOfRoom
        <2>2. CASE r = q
            BY <1>3, <2>1, <2>2, NamesAre DEF RoomAgrees, Link!Stored
        <2>3. CASE r # q
            <3>1. name'[r] = name[r] /\ known'[r] = known[r]
                BY <1>3, <2>1, <2>3
            <3>2. \A s \in Services : <<r, s>> \in links' <=> <<r, s>> \in links
                BY <2>1, <2>3
            <3> QED BY <1>2, <3>1, <3>2 DEF RoomAgrees, Link!Stored, Link!ServicesOf
        <2> QED BY <2>2, <2>3
    <1>5. ASSUME NEW q \in Rooms, NEW n \in Names, NEW list \in Link!Lists, Link!CreateRoom(c, q, n, list),
                 NEW r \in Rooms
          PROVE  RoomAgrees(r)'
        <2>1. /\ name' = [name EXCEPT ![q] = n] /\ known' = [known EXCEPT ![q] = Link!ToSet(list)]
              /\ links' = links \cup ({q} \X Link!ToSet(list)) /\ name[q] = Link!NotYet
            BY <1>5 DEF Link!CreateRoom, Link!Pairs
        <2>2. Link!ToSet(list) \subseteq Services
            BY ListIs
        <2>3. CASE r = q
            <3>1. \A s \in Services : <<q, s>> \notin links
                BY <2>1, NamesAre DEF LinkInv, Link!NoDangling, Link!Stored
            <3>2. \A s \in Services : <<r, s>> \in links' <=> s \in Link!ToSet(list)
                BY <2>1, <2>3, <3>1
            <3>3. known'[r] = Link!ToSet(list)
                BY <1>3, <2>1, <2>3
            <3> QED BY <2>2, <3>2, <3>3 DEF RoomAgrees, Link!ServicesOf
        <2>4. CASE r # q
            <3>1. name'[r] = name[r] /\ known'[r] = known[r]
                BY <1>3, <2>1, <2>4
            <3>2. \A s \in Services : <<r, s>> \in links' <=> <<r, s>> \in links
                BY <2>1, <2>4
            <3> QED BY <1>2, <3>1, <3>2 DEF RoomAgrees, Link!Stored, Link!ServicesOf
        <2> QED BY <2>3, <2>4
    <1>6. ASSUME NEW s \in Services, Link!DeleteService(c, s), NEW r \in Rooms PROVE RoomAgrees(r)'
        <2>1. name' = name /\ known' = Link!Now(s, {}) /\ links' = {l \in links : l[2] # s}
            BY <1>6 DEF Link!DeleteService, Link!LinksOfService
        <2>2. \A t \in Services : <<r, t>> \in links' <=> IF t = s THEN r \in {} ELSE <<r, t>> \in links
            BY <2>1
        <2> QED BY <1>2, <2>1, <2>2, AgreesNow
    <1>7. ASSUME NEW s \in Services, NEW rs \in SUBSET Rooms, Link!CreateService(c, s, rs), NEW r \in Rooms
          PROVE  RoomAgrees(r)'
        <2>1. /\ name' = name /\ known' = Link!Now(s, rs) /\ links' = links \cup (rs \X {s})
              /\ services[s] = "NotYet"
            BY <1>7 DEF Link!CreateService
        <2>2. <<r, s>> \notin links
            BY <2>1 DEF LinkInv, Link!NoDangling
        <2>3. \A t \in Services : <<r, t>> \in links' <=> IF t = s THEN r \in rs ELSE <<r, t>> \in links
            BY <2>1, <2>2
        <2> QED BY <1>2, <2>1, <2>3, AgreesNow
    <1>8. \A r \in Rooms : RoomAgrees(r)'
        BY <1>4, <1>5, <1>6, <1>7
    <1> QED BY <1>1, <1>2, <1>8, CalmAtOnce

LEMMA BeginsCalm ==
    ASSUME LinkInv, LinkCalm, NEW c \in Callers,
           \/ \E r \in Rooms, n \in Names \cup {Link!Keep}, list \in Link!Lists \cup {Link!KeepAll} :
                 Link!UpdateRoom(c, r, n, list)
           \/ \E s \in Services, rs \in SUBSET Rooms : Link!UpdateService(c, s, rs)
    PROVE  LinkCalm'
    <1> SUFFICES ASSUME ~mixed' PROVE LinksCalm'
        BY DEF LinkCalm
    <1>1. Link!MayStart(c) /\ UNCHANGED <<name, services, links, known>>
        BY DEF Link!UpdateRoom, Link!UpdateService
    <1>2. /\ \A d \in Callers : request[d] = Link!Idle
          /\ \A r \in Rooms : RoomAgrees(r)
        BY <1>1, AllIdle
    <1>3. \A r \in Rooms : RoomAgrees(r)'
        BY <1>1, <1>2 DEF RoomAgrees, Link!Stored, Link!ServicesOf
    <1>4. PICK k : request' = [request EXCEPT ![c] = k] /\ CallAgrees(k)'
        <2>1. ASSUME NEW r \in Rooms, NEW n \in Names \cup {Link!Keep}, NEW list \in Link!Lists \cup {Link!KeepAll},
                     Link!UpdateRoom(c, r, n, list)
              PROVE  \E k : request' = [request EXCEPT ![c] = k] /\ CallAgrees(k)'
            <3> DEFINE k == [at |-> IF list = Link!KeepAll THEN "save" ELSE "clear", room |-> r, name |-> n, list |-> list]
            <3>1. request' = [request EXCEPT ![c] = k]
                BY <2>1 DEF Link!UpdateRoom, Link!Goto
            <3>2. k.at = "clear" \/ (k.at = "save" /\ k.list = Link!KeepAll)
                OBVIOUS
            <3> HIDE DEF k
            <3>3. CallAgrees(k)'
                BY <3>2 DEF CallAgrees
            <3> QED BY <3>1, <3>3
        <2>2. ASSUME NEW s \in Services, NEW rs \in SUBSET Rooms, Link!UpdateService(c, s, rs)
              PROVE  \E k : request' = [request EXCEPT ![c] = k] /\ CallAgrees(k)'
            <3>1. PICK old : old = Link!LinksOfService(s)
                OBVIOUS
            <3> DEFINE k == [at |-> "commit", service |-> s, rooms |-> rs, old |-> old]
            <3>2. request' = [request EXCEPT ![c] = k]
                BY <2>2, <3>1 DEF Link!UpdateService, Link!Goto
            <3>3. k.at = "commit" /\ k.service = s /\ k.old = old
                OBVIOUS
            <3> HIDE DEF k
            <3>4. CallAgrees(k)'
                BY <1>1, <3>1, <3>3 DEF CallAgrees, Link!LinksOfService
            <3> QED BY <3>2, <3>4
        <2> QED BY <2>1, <2>2
    <1>5. request'[c] = k /\ \A d \in Callers \ {c} : request'[d] = Link!Idle
        BY <1>2, <1>4 DEF LinkInv, LinkType
    <1> QED BY <1>3, <1>4, <1>5, OneCalm

\* The one request under way goes on or returns.
LEMMA OnlyOne ==
    ASSUME LinkInv, LinksCalm, NEW c \in Callers, request[c] # Link!Idle,
           NEW g, request' = [request EXCEPT ![c] = g]
    PROVE  /\ request'[c] = g /\ \A d \in Callers \ {c} : request'[d] = Link!Idle
           /\ CallAgrees(request[c])
           /\ \A r \in Rooms : RoomAgrees(r) \/ Replacing(request[c], r)
    <1>1. \A d \in Callers \ {c} : request[d] = Link!Idle
        BY DEF LinksCalm
    <1>2. \A d \in Callers : request'[d] = IF d = c THEN g ELSE request[d]
        BY DEF LinkInv, LinkType
    <1>3. \A r \in Rooms : RoomAgrees(r) \/ Replacing(request[c], r)
        BY <1>1, IdleAgrees DEF LinksCalm
    <1> QED BY <1>1, <1>2, <1>3 DEF LinksCalm

LEMMA ClearLinksCalm ==
    ASSUME LinkInv, LinksCalm, NEW c \in Callers, Link!ClearLinks(c)
    PROVE  LinksCalm'
    <1>1. PICK k \in LinkCall : k = request[c] /\ k.at = "clear" /\ HasList(k)
        BY DEF LinkInv, LinkType, Link!ClearLinks
    <1>2. k \in Link!RoomCall /\ k # Link!Idle
        BY <1>1, RoomCallIs DEF Link!Idle
    <1> DEFINE g == [k EXCEPT !.at = IF k.list = <<>> THEN "save" ELSE "link"]
    <1>3. /\ g.room = k.room /\ g.list = k.list /\ g.list # Link!KeepAll
          /\ g.at = IF k.list = <<>> THEN "save" ELSE "link"
        BY <1>1, <1>2 DEF Link!RoomCall, HasList
    <1>4. /\ request' = [request EXCEPT ![c] = g] /\ links' = {l \in links : l[1] # k.room}
          /\ UNCHANGED <<name, known>>
        BY <1>1 DEF Link!ClearLinks, Link!Goto, Link!LinksOfRoom
    <1> HIDE DEF g
    <1>5. /\ request'[c] = g /\ \A d \in Callers \ {c} : request'[d] = Link!Idle
          /\ \A r \in Rooms : RoomAgrees(r) \/ Replacing(k, r)
        BY <1>1, <1>2, <1>4, OnlyOne
    <1>6. Link!LinksOfRoom(k.room)' = {}
        BY <1>4 DEF Link!LinksOfRoom
    <1>7. k.list = <<>> => Link!Pairs(k.room, k.list) = {}
        BY DEF Link!Pairs, Link!ToSet
    <1>8. CallAgrees(g)'
        BY <1>3, <1>6, <1>7 DEF CallAgrees
    <1>9. ASSUME NEW r \in Rooms PROVE RoomAgrees(r)' \/ Replacing(g, r)
        <2>1. CASE r = k.room
            BY <1>3, <2>1 DEF Replacing
        <2>2. CASE r # k.room
            <3>1. RoomAgrees(r)
                BY <1>1, <1>5 DEF Replacing
            <3>2. \A s \in Services : <<r, s>> \in links' <=> <<r, s>> \in links
                BY <1>4, <2>2
            <3> QED BY <1>4, <3>1, <3>2 DEF RoomAgrees, Link!Stored, Link!ServicesOf
        <2> QED BY <2>1, <2>2
    <1> QED BY <1>5, <1>8, <1>9, OneCalm

LEMMA AddLinksCalm ==
    ASSUME LinkInv, LinksCalm, NEW c \in Callers, Link!AddLinks(c)
    PROVE  LinksCalm'
    <1>1. PICK k \in LinkCall : k = request[c] /\ k.at = "link" /\ HasList(k)
        BY DEF LinkInv, LinkType, Link!AddLinks
    <1>2. k \in Link!RoomCall /\ k # Link!Idle
        BY <1>1, RoomCallIs DEF Link!Idle
    <1> DEFINE g == [k EXCEPT !.at = "save"]
    <1>3. g.room = k.room /\ g.list = k.list /\ g.list # Link!KeepAll /\ g.at = "save"
        BY <1>1, <1>2 DEF Link!RoomCall, HasList
    <1>4. /\ request' = [request EXCEPT ![c] = g] /\ links' = links \cup Link!Pairs(k.room, k.list)
          /\ UNCHANGED <<name, known>>
        BY <1>1 DEF Link!AddLinks, Link!Goto
    <1> HIDE DEF g
    <1>5. /\ request'[c] = g /\ \A d \in Callers \ {c} : request'[d] = Link!Idle
          /\ CallAgrees(k)
          /\ \A r \in Rooms : RoomAgrees(r) \/ Replacing(k, r)
        BY <1>1, <1>2, <1>4, OnlyOne
    <1>6. Link!LinksOfRoom(k.room)' = Link!Pairs(k.room, k.list)
        <2>1. \A l \in links : l[1] # k.room
            BY <1>1, <1>5 DEF CallAgrees, Link!LinksOfRoom
        <2>2. \A l \in Link!Pairs(k.room, k.list) : l[1] = k.room
            BY DEF Link!Pairs
        <2>3. Link!LinksOfRoom(k.room)' = {l \in links' : l[1] = k.room}
            BY DEF Link!LinksOfRoom
        <2> QED BY <1>4, <2>1, <2>2, <2>3
    <1>7. CallAgrees(g)'
        <2>1. Link!LinksOfRoom(g.room)' = Link!Pairs(g.room, g.list)
            BY <1>3, <1>6 DEF Link!LinksOfRoom
        <2>2. (Link!LinksOfRoom(g.room) = Link!Pairs(g.room, g.list))'
            BY <2>1 DEF Link!Pairs
        <2> QED BY <1>3, <2>2 DEF CallAgrees
    <1>8. ASSUME NEW r \in Rooms PROVE RoomAgrees(r)' \/ Replacing(g, r)
        <2>1. CASE r = k.room
            BY <1>3, <2>1 DEF Replacing
        <2>2. CASE r # k.room
            <3>1. RoomAgrees(r)
                BY <1>5, <2>2 DEF Replacing
            <3>2. \A s \in Services : <<r, s>> \in links' <=> <<r, s>> \in links
                BY <1>4, <2>2 DEF Link!Pairs
            <3> QED BY <1>4, <3>1, <3>2 DEF RoomAgrees, Link!Stored, Link!ServicesOf
        <2> QED BY <2>1, <2>2
    <1> QED BY <1>5, <1>7, <1>8, OneCalm

LEMMA SaveRoomCalm ==
    ASSUME LinkInv, LinksCalm, NEW c \in Callers, Link!SaveRoom(c)
    PROVE  LinksCalm'
    <1>1. PICK k \in LinkCall : k = request[c] /\ k.at = "save"
        BY DEF LinkInv, LinkType, Link!SaveRoom
    <1>2. /\ k.room \in Rooms /\ k.list \in Link!Lists \cup {Link!KeepAll} /\ k # Link!Idle
          /\ k.name \in Names \cup {Link!Keep}
        BY <1>1, RoomCallIs DEF Link!RoomCall, Link!Idle
    <1>3. /\ request' = [request EXCEPT ![c] = Link!Idle] /\ UNCHANGED <<services, links>>
          /\ name' = IF k.name = Link!Keep THEN name ELSE [name EXCEPT ![k.room] = k.name]
          /\ known' = IF k.list = Link!KeepAll THEN known ELSE [known EXCEPT ![k.room] = Link!ToSet(k.list)]
          /\ Link!Stored(k.room)
        BY <1>1 DEF Link!SaveRoom, Link!Answered, Link!Goto
    <1>4. /\ request'[c] = Link!Idle /\ \A d \in Callers \ {c} : request'[d] = Link!Idle
          /\ CallAgrees(k)
          /\ \A r \in Rooms : RoomAgrees(r) \/ Replacing(k, r)
        BY <1>1, <1>2, <1>3, OnlyOne
    <1>5. \A r \in Rooms : Link!Stored(r)' => Link!Stored(r)
        BY <1>3 DEF LinkInv, LinkType, Link!Stored
    <1>6. ASSUME NEW r \in Rooms PROVE RoomAgrees(r)'
        <2>1. CASE Replacing(k, r)
            <3>1. r = k.room /\ k.list # Link!KeepAll /\ k.list \in Link!Lists
                BY <1>2, <2>1 DEF Replacing
            <3>2. Link!LinksOfRoom(r) = Link!Pairs(r, k.list)
                BY <1>1, <1>4, <3>1 DEF CallAgrees
            <3>3. known'[r] = Link!ToSet(k.list)
                BY <1>3, <3>1 DEF LinkInv, LinkType
            <3>4. Link!ToSet(k.list) \subseteq Services
                BY <3>1, ListIs
            <3>5. \A s \in Services : <<r, s>> \in links <=> s \in Link!ToSet(k.list)
                <4> TAKE s \in Services
                <4>1. <<r, s>> \in links <=> <<r, s>> \in Link!LinksOfRoom(r)
                    BY DEF Link!LinksOfRoom
                <4>2. <<r, s>> \in Link!Pairs(r, k.list) <=> s \in Link!ToSet(k.list)
                    BY DEF Link!Pairs
                <4> QED BY <3>2, <4>1, <4>2
            <3> QED BY <1>3, <3>3, <3>4, <3>5 DEF RoomAgrees, Link!ServicesOf
        <2>2. CASE ~Replacing(k, r)
            <3>1. RoomAgrees(r) /\ known'[r] = known[r]
                BY <1>1, <1>3, <1>4, <2>2 DEF Replacing, LinkInv, LinkType
            <3> QED BY <1>3, <1>5, <3>1 DEF RoomAgrees, Link!ServicesOf
        <2> QED BY <2>1, <2>2
    <1> QED BY <1>4, <1>6, IdleAgrees, OneCalm

LEMMA UpdateFailsCalm ==
    ASSUME LinkInv, LinksCalm, NEW c \in Callers, Link!UpdateFails(c)
    PROVE  LinksCalm'
    <1>1. PICK k \in LinkCall : k = request[c] /\ k.at \in {"clear", "link", "save"}
        BY DEF LinkInv, LinkType, Link!UpdateFails
    <1>2. k.room \in Rooms /\ k # Link!Idle
        BY <1>1, RoomCallIs DEF Link!RoomCall, Link!Idle
    <1>3. /\ request' = [request EXCEPT ![c] = Link!Idle] /\ UNCHANGED <<name, links>>
          /\ known' = IF k.list = Link!KeepAll THEN known ELSE [known EXCEPT ![k.room] = Link!Unsure]
        BY <1>1 DEF Link!UpdateFails, Link!Answered, Link!Goto
    <1>4. /\ request'[c] = Link!Idle /\ \A d \in Callers \ {c} : request'[d] = Link!Idle
          /\ \A r \in Rooms : RoomAgrees(r) \/ Replacing(k, r)
        BY <1>1, <1>2, <1>3, OnlyOne
    <1>5. ASSUME NEW r \in Rooms PROVE RoomAgrees(r)'
        <2>1. CASE k.list # Link!KeepAll /\ r = k.room
            <3>1. known'[r] = Link!Unsure
                BY <1>3, <2>1 DEF LinkInv, LinkType
            <3> QED BY <3>1 DEF RoomAgrees
        <2>2. CASE ~(k.list # Link!KeepAll /\ r = k.room)
            <3>1. RoomAgrees(r) /\ known'[r] = known[r]
                BY <1>3, <1>4, <2>2 DEF Replacing, LinkInv, LinkType
            <3> QED BY <1>3, <3>1 DEF RoomAgrees, Link!Stored, Link!ServicesOf
        <2> QED BY <2>1, <2>2
    <1> QED BY <1>4, <1>5, IdleAgrees, OneCalm

LEMMA CommitServiceCalm ==
    ASSUME LinkInv, LinksCalm, NEW c \in Callers, Link!CommitService(c)
    PROVE  LinksCalm'
    <1>1. PICK k \in LinkCall : k = request[c] /\ k.at = "commit"
        BY DEF LinkInv, LinkType, Link!CommitService
    <1>2. k.service \in Services /\ k.rooms \in SUBSET Rooms /\ k # Link!Idle
        BY <1>1, ServiceCallIs DEF Link!ServiceCall, Link!Idle
    <1>3. /\ request' = [request EXCEPT ![c] = Link!Idle] /\ UNCHANGED name
          /\ links' = (links \ k.old) \cup (k.rooms \X {k.service})
          /\ known' = Link!Now(k.service, k.rooms)
        BY <1>1 DEF Link!CommitService, Link!Answered, Link!Goto, Link!NewLinks
    <1>4. /\ request'[c] = Link!Idle /\ \A d \in Callers \ {c} : request'[d] = Link!Idle
          /\ CallAgrees(k)
          /\ \A r \in Rooms : RoomAgrees(r) \/ Replacing(k, r)
        BY <1>1, <1>2, <1>3, OnlyOne
    <1>5. k.old = {l \in links : l[2] = k.service}
        BY <1>1, <1>4 DEF CallAgrees, Link!LinksOfService
    <1>6. ASSUME NEW r \in Rooms PROVE RoomAgrees(r)'
        <2>1. RoomAgrees(r)
            BY <1>1, <1>4 DEF Replacing
        <2>2. \A t \in Services :
                 <<r, t>> \in links' <=> IF t = k.service THEN r \in k.rooms ELSE <<r, t>> \in links
            BY <1>3, <1>5
        <2> QED BY <1>2, <1>3, <2>1, <2>2, AgreesNow
    <1> QED BY <1>4, <1>6, IdleAgrees, OneCalm

LEMMA RollBackCalm ==
    ASSUME LinkInv, LinksCalm, NEW c \in Callers, Link!RollBack(c)
    PROVE  LinksCalm'
    <1>1. PICK k \in LinkCall : k = request[c] /\ k.at = "commit" /\ k # Link!Idle
        BY DEF LinkInv, LinkType, Link!RollBack, Link!Idle
    <1>2. request' = [request EXCEPT ![c] = Link!Idle] /\ UNCHANGED <<name, links, known>>
        BY DEF Link!RollBack, Link!Answered, Link!Goto
    <1>3. /\ request'[c] = Link!Idle /\ \A d \in Callers \ {c} : request'[d] = Link!Idle
          /\ \A r \in Rooms : RoomAgrees(r) \/ Replacing(k, r)
        BY <1>1, <1>2, OnlyOne
    <1>4. \A r \in Rooms : RoomAgrees(r)'
        BY <1>1, <1>2, <1>3 DEF Replacing, RoomAgrees, Link!Stored, Link!ServicesOf
    <1> QED BY <1>3, <1>4, IdleAgrees, OneCalm

LEMMA LinkCalmStep == LinkInv /\ LinkCalm /\ [Link!Next]_(Link!vars) => LinkCalm'
    <1> SUFFICES ASSUME LinkInv, LinkCalm, [Link!Next]_(Link!vars) PROVE LinkCalm'
        OBVIOUS
    <1>1. CASE UNCHANGED Link!vars
        BY <1>1 DEF Link!vars, LinkCalm, LinksCalm, CallAgrees, RoomAgrees, Replacing,
                    Link!Stored, Link!ServicesOf, Link!LinksOfRoom, Link!LinksOfService
    <1>2. ASSUME NEW c \in Callers, UNCHANGED mixed,
                 \/ Link!ClearLinks(c) \/ Link!AddLinks(c) \/ Link!SaveRoom(c) \/ Link!UpdateFails(c)
                 \/ Link!CommitService(c) \/ Link!RollBack(c)
          PROVE  LinkCalm'
        BY <1>2, ClearLinksCalm, AddLinksCalm, SaveRoomCalm, UpdateFailsCalm, CommitServiceCalm,
           RollBackCalm DEF LinkCalm
    <1>3. ASSUME NEW c \in Callers, Link!RoomStep(c) PROVE LinkCalm'
        BY <1>2, <1>3, DoneAtOnceCalm, BeginsCalm DEF Link!RoomStep
    <1>4. ASSUME NEW c \in Callers, Link!ServiceStep(c) PROVE LinkCalm'
        BY <1>2, <1>4, DoneAtOnceCalm, BeginsCalm DEF Link!ServiceStep
    <1> QED BY <1>1, <1>3, <1>4 DEF Link!Next

LEMMA LinkImplies == LinkInv /\ LinkCalm => LinksConsistent
    <1> SUFFICES ASSUME LinkInv, LinkCalm PROVE LinksConsistent
        OBVIOUS
    <1>1. Link!TypeOK
        BY DEF LinkInv, LinkType, RoomNames, LinkCall, Link!TypeOK
    <1>2. Link!NoDangling
        BY DEF LinkInv
    <1>3. Link!LinksAsAnswered
        BY IdleAgrees DEF LinkCalm, LinksCalm, RoomAgrees, Link!LinksAsAnswered
    <1> QED BY <1>1, <1>2, <1>3 DEF LinksConsistent

(* Links join a room and a service that exist, whatever requests interleave   *)
(* and fail, no two rooms have one name, and requests one after the other     *)
(* leave every room with the services of the answers.                        *)
THEOREM LinksStayConsistent == Link!Spec => []LinksConsistent
    <1>1. Link!Init => LinkInv /\ LinkCalm
        BY LinkInit, LinkCalmInit
    <1>2. LinkInv /\ LinkCalm /\ [Link!Next]_(Link!vars) => (LinkInv /\ LinkCalm)'
        BY LinkStep, LinkCalmStep
    <1>3. LinkInv /\ LinkCalm => LinksConsistent
        BY LinkImplies
    <1> QED BY <1>1, <1>2, <1>3, PTL DEF Link!Spec

-----------------------------------------------------------------------------
(***************************************************************************)
(* The box office.  What a step of the sale does to the tickets, and what  *)
(* a step of the staff does to everything a refund or a scan depends on.   *)
(***************************************************************************)
LEMMA BoxAssumes ==
    /\ NoSeat \notin Seats /\ MaxPartnerCalls \in Nat
    /\ IsFiniteSet(PartnerCalls) /\ IsFiniteSet(Seats) /\ IsFiniteSet(Orders)
    /\ \A s \in Seats : PartnerTotal[{s}] \in Nat
    BY PartnersAssumption, BookingAssumption DEF BoxOfficeAssumption

SaleTicket(o, s) ==
    \/ ticket'[o][s] = ticket[o][s]
    \/ ticket'[o][s] = "CANCELLED" /\ ticket[o][s] # "none"
    \/ ticket'[o][s] = "RESERVED" /\ s \notin Ticketed
    \/ ticket'[o][s] = "CONFIRMED" /\ ticket[o][s] # "none" /\ revenue'[o] = revenue[o] + 1
SaleMoves ==
    /\ \A o \in Orders : revenue'[o] = revenue[o] \/ revenue'[o] = revenue[o] + 1
    /\ \A o \in Orders, s \in Seats : SaleTicket(o, s)
    /\ \A o, p \in Orders, s \in Seats :
          (ticket[o][s] = "none" /\ ticket'[o][s] # "none" /\ p # o) => ticket'[p][s] = "none"
    /\ wallet'.totalWithdrawn = wallet.totalWithdrawn
    /\ wallet'.balance - wallet'.totalEarned = wallet.balance - wallet.totalEarned

LEMMA QuietMoves ==
    ASSUME TypeOK, UNCHANGED <<ticket, revenue, wallet>>
    PROVE  SaleMoves
    BY DEF SaleMoves, SaleTicket

\* Reserved tickets are cancelled.
LEMMA CancelMoves ==
    ASSUME TypeOK, UNCHANGED <<revenue, wallet>>, DOMAIN ticket' = Orders,
           \A o \in Orders, s \in Seats :
              ticket'[o][s] = ticket[o][s] \/ (ticket'[o][s] = "CANCELLED" /\ ticket[o][s] = "RESERVED")
    PROVE  SaleMoves
    BY DEF SaleMoves, SaleTicket

LEMMA SetTicketsIs ==
    ASSUME TypeOK, NEW q \in Orders, NEW from, NEW to, SetTickets(q, from, to)
    PROVE  /\ DOMAIN ticket' = Orders
           /\ \A o \in Orders, s \in Seats :
                 ticket'[o][s] = IF o = q /\ ticket[o][s] \in from THEN to ELSE ticket[o][s]
    BY DEF TypeOK, SetTickets

LEMMA LockMoves ==
    ASSUME TypeOK, NEW c \in Calls, LockCommit(c)
    PROVE  SaleMoves
    <1>1. PICK q \in Orders : q = call[c].order
        BY DEF TypeOK, CallTypeOK, LockCommit, At
    <1>2. PICK S \in SUBSET Seats : S = call[c].seats
        BY DEF TypeOK, CallState
    <1>3. /\ ticket' = [ticket EXCEPT ![q] = [s \in Seats |-> IF s \in S THEN "RESERVED" ELSE ticket[q][s]]]
          /\ S \cap Ticketed = {} /\ UNCHANGED <<revenue, wallet>>
        BY <1>1, <1>2 DEF LockCommit, TicketSeatIdUnique, moneyVars, TypeOK
    <1>4. \A o \in Orders, s \in Seats :
             ticket'[o][s] = IF o = q /\ s \in S THEN "RESERVED" ELSE ticket[o][s]
        BY <1>3 DEF TypeOK
    <1>5. \A s \in S, o \in Orders : s \notin Ticketed /\ ticket[o][s] = "none"
        BY <1>2, <1>3 DEF Ticketed
    <1> QED BY <1>3, <1>4, <1>5 DEF SaleMoves, SaleTicket

LEMMA ConfirmMoves ==
    ASSUME TypeOK, NEW c \in Calls, ConfirmSuccess(c)
    PROVE  SaleMoves
    <1>1. PICK q \in Orders : q = call[c].order
        BY DEF TypeOK, CallTypeOK, ConfirmSuccess, At
    <1>2. PICK n \in Nat : n = PartnerTotal[TicketsOf(q)]
        <2>1. TicketsOf(q) \in SUBSET Seats
            BY DEF TicketsOf
        <2> QED BY <2>1, BookingAssumption
    <1>3. /\ SetTickets(q, TicketStatus, "CONFIRMED") /\ CreditWallet(n)
          /\ revenue' = [revenue EXCEPT ![q] = @ + 1]
        BY <1>1, <1>2 DEF ConfirmSuccess
    <1>4. \A o \in Orders, s \in Seats :
             ticket'[o][s] = IF o = q /\ ticket[o][s] \in TicketStatus THEN "CONFIRMED" ELSE ticket[o][s]
        BY <1>3, SetTicketsIs
    <1>5. \A o \in Orders : revenue'[o] = IF o = q THEN revenue[o] + 1 ELSE revenue[o]
        BY <1>3 DEF TypeOK
    <1>6. "none" \notin TicketStatus
        BY DEF TicketStatus
    <1>7. \A o \in Orders, s \in Seats : SaleTicket(o, s)
        BY <1>4, <1>5, <1>6 DEF SaleTicket
    <1>8. \A o \in Orders, s \in Seats : ticket[o][s] = "none" => ticket'[o][s] = "none"
        BY <1>4, <1>6
    <1>9. /\ wallet'.totalWithdrawn = wallet.totalWithdrawn
          /\ wallet'.balance - wallet'.totalEarned = wallet.balance - wallet.totalEarned
        <2>1. PICK w \in [balance : Int, totalEarned : Int, totalWithdrawn : Int] : w = wallet
            BY DEF TypeOK
        <2> DEFINE y == [w EXCEPT !.balance = w.balance + n]
        <2>2. y = [balance |-> w.balance + n, totalEarned |-> w.totalEarned, totalWithdrawn |-> w.totalWithdrawn]
            OBVIOUS
        <2>3. wallet' = [y EXCEPT !.totalEarned = w.totalEarned + n]
            BY <1>3, <2>1 DEF CreditWallet
        <2> HIDE DEF y
        <2>4. wallet' = [balance |-> w.balance + n, totalEarned |-> w.totalEarned + n, totalWithdrawn |-> w.totalWithdrawn]
            BY <2>2, <2>3
        <2> QED BY <2>1, <2>4
    <1> QED BY <1>5, <1>7, <1>8, <1>9 DEF SaleMoves

LEMMA SaleStepMoves ==
    ASSUME TypeOK, [Next]_vars
    PROVE  SaleMoves
    <1>1. ASSUME NEW c \in Calls, NEW o \in Orders, NewCall(c, o) PROVE SaleMoves
        BY <1>1, QuietMoves DEF NewCall, LockReadShowtime, GetOrderExpired, CancelOrder, PayReadOrder,
                                ConfirmReadOrder, moneyVars
    <1>2. ASSUME NEW c \in Calls, CallStep(c) \/ CallCrash(c) PROVE SaleMoves
        <2>1. CASE ReleaseCommit(c) \/ ConfirmFailed(c)
            <3>1. PICK q \in Orders : q = call[c].order
                BY <2>1 DEF TypeOK, CallTypeOK, ReleaseCommit, ConfirmFailed, At
            <3>2. SetTickets(q, {"RESERVED"}, "CANCELLED") /\ UNCHANGED <<revenue, wallet>>
                BY <2>1, <3>1 DEF ReleaseCommit, ConfirmFailed, moneyVars
            <3>3. /\ DOMAIN ticket' = Orders
                  /\ \A o \in Orders, s \in Seats :
                       ticket'[o][s] = IF o = q /\ ticket[o][s] \in {"RESERVED"} THEN "CANCELLED" ELSE ticket[o][s]
                BY <3>2, SetTicketsIs
            <3> QED BY <3>2, <3>3, CancelMoves
        <2>2. CASE LockCommit(c)
            BY <2>2, LockMoves
        <2>3. CASE ConfirmSuccess(c)
            BY <2>3, ConfirmMoves
        <2>4. CASE UNCHANGED <<ticket, revenue, wallet>>
            BY <2>4, QuietMoves
        <2> QED BY <1>2, <2>1, <2>2, <2>3, <2>4 DEF CallStep, CallCrash, LockReadSeats, LockAbort,
                   ReleaseRead, SetStatus, PayInsert, PaySetStatus, moneyVars
    <1>3. ASSUME CleanTickets PROVE SaleMoves
        <2>1. /\ UNCHANGED <<revenue, wallet>>
              /\ ticket' = [o \in Orders |-> [s \in Seats |->
                              IF s \in cleaner.seats /\ ticket[o][s] = "RESERVED"
                              THEN "CANCELLED" ELSE ticket[o][s]]]
            BY <1>3 DEF CleanTickets, moneyVars
        <2> QED BY <2>1, CancelMoves
    <1>4. ASSUME \/ CleanFindSeats \/ CleanSeats \/ CleanOrders \/ CleanNothing \/ CleanCrash
                 \/ (\E o \in Orders : Tick(o)) \/ UNCHANGED vars
          PROVE  SaleMoves
        BY <1>4, QuietMoves DEF CleanFindSeats, CleanSeats, CleanOrders, CleanNothing, CleanCrash, Tick,
                                vars, moneyVars
    <1> QED BY <1>1, <1>2, <1>3, <1>4 DEF Next, CleanStep

\* What the staff's step changes, g being the call's next state.
TicketSet(s, status) ==
    \A o \in Orders, t \in Seats :
        ticket'[o][t] = IF t = s /\ ticket[o][t] # "none" THEN status ELSE ticket[o][t]
KeepsTickets == UNCHANGED ticket
KeepsMoney == UNCHANGED <<refunds, wallet>>
KeepsScans == UNCHANGED scanned
BoxRow(pc, todo, s, status) == [pc |-> pc, todo |-> todo, seat |-> s, status |-> status]

BoxBegins(b, k, g) ==
    /\ BoxStarts(b) /\ k = IdleBox /\ KeepsTickets /\ KeepsMoney /\ KeepsScans
    /\ \/ g = IdleBox
       \/ \E status \in ShowtimeStatus : g = BoxRow("updateShowtime", {}, NoSeat, status)
       \/ g = BoxRow("readTickets", {}, NoSeat, "none")
       \/ \E s \in Seats : g = BoxRow("insertCheckIn", {}, s, "none")
BoxEnds(k, g) == g = IdleBox /\ KeepsTickets /\ KeepsMoney /\ KeepsScans
BoxReads(k, g) ==
    /\ k.pc = "readTickets" /\ g = BoxRow("refundTicket", SoldSeats, k.seat, k.status)
    /\ KeepsTickets /\ KeepsMoney /\ KeepsScans
BoxRefunds(k, g) ==
    /\ k.pc = "refundTicket"
    /\ \E s \in k.todo : g = BoxRow("freeSeat", k.todo \ {s}, s, k.status) /\ TicketSet(s, "REFUNDED")
    /\ KeepsMoney /\ KeepsScans
BoxFrees(k, g) ==
    /\ k.pc = "freeSeat"
    /\ \E pc \in {"debitWallet", "refundTicket"} : g = BoxRow(pc, k.todo, k.seat, k.status)
    /\ KeepsTickets /\ KeepsMoney /\ KeepsScans
BoxDebits(k, g) ==
    /\ k.pc = "debitWallet" /\ g = BoxRow("insertRefund", k.todo, k.seat, k.status)
    /\ wallet'.totalWithdrawn = wallet.totalWithdrawn + PartnerTotal[{k.seat}]
    /\ wallet'.balance = wallet.balance - PartnerTotal[{k.seat}]
    /\ wallet'.totalEarned = wallet.totalEarned
    /\ UNCHANGED refunds /\ KeepsTickets /\ KeepsScans
BoxInserts(k, g) ==
    /\ k.pc = "insertRefund" /\ g = BoxRow("refundTicket", k.todo, k.seat, k.status)
    /\ refunds' = [refunds EXCEPT ![k.seat] = @ + 1]
    /\ UNCHANGED wallet /\ KeepsTickets /\ KeepsScans
BoxScans(k, g) ==
    /\ k.pc = "insertCheckIn"
    /\ g = IdleBox \/ g = BoxRow("markUsed", k.todo, k.seat, k.status)
    /\ scanned' = scanned \cup {k.seat}
    /\ KeepsTickets /\ KeepsMoney
BoxMarks(k, g) ==
    /\ k.pc = "markUsed" /\ g = IdleBox /\ TicketSet(k.seat, "USED")
    /\ KeepsMoney /\ KeepsScans
BoxMove(k, g) ==
    /\ UNCHANGED <<made, overlapped>>
    /\ \/ BoxEnds(k, g) \/ BoxReads(k, g) \/ BoxRefunds(k, g) \/ BoxFrees(k, g) \/ BoxDebits(k, g)
       \/ BoxInserts(k, g) \/ BoxScans(k, g) \/ BoxMarks(k, g)

LEMMA RowWith ==
    /\ IdleBox \in BoxState /\ IdleBox.todo = {} /\ IdleBox.seat = NoSeat /\ IdleBox.status = "none"
    /\ IdleBox.pc = "idle"
    /\ \A k \in BoxState : \A v : [k EXCEPT !.pc = v] = BoxRow(v, k.todo, k.seat, k.status)
    BY DEF IdleBox, BoxState, BoxPC, BoxRow

\* More than one field, one after the other.
LEMMA TodoWith ==
    ASSUME NEW k \in BoxState, NEW v, NEW w
    PROVE  [[k EXCEPT !.pc = v] EXCEPT !.todo = w] = BoxRow(v, w, k.seat, k.status)
    <1>1. PICK y : y = BoxRow(v, k.todo, k.seat, k.status)
        OBVIOUS
    <1>2. [k EXCEPT !.pc = v] = y
        BY <1>1, RowWith
    <1>3. [y EXCEPT !.todo = w] = BoxRow(v, w, k.seat, k.status)
        BY <1>1 DEF BoxRow
    <1> QED BY <1>2, <1>3
LEMMA SeatWith ==
    ASSUME NEW k \in BoxState, NEW v, NEW s
    PROVE  [[k EXCEPT !.pc = v] EXCEPT !.seat = s] = BoxRow(v, k.todo, s, k.status)
    <1>1. PICK y : y = BoxRow(v, k.todo, k.seat, k.status)
        OBVIOUS
    <1>2. [k EXCEPT !.pc = v] = y
        BY <1>1, RowWith
    <1>3. [y EXCEPT !.seat = s] = BoxRow(v, k.todo, s, k.status)
        BY <1>1 DEF BoxRow
    <1> QED BY <1>2, <1>3
LEMMA StatusWith ==
    ASSUME NEW k \in BoxState, NEW v, NEW status
    PROVE  [[k EXCEPT !.pc = v] EXCEPT !.status = status] = BoxRow(v, k.todo, k.seat, status)
    <1>1. PICK y : y = BoxRow(v, k.todo, k.seat, k.status)
        OBVIOUS
    <1>2. [k EXCEPT !.pc = v] = y
        BY <1>1, RowWith
    <1>3. [y EXCEPT !.status = status] = BoxRow(v, k.todo, k.seat, status)
        BY <1>1 DEF BoxRow
    <1> QED BY <1>2, <1>3
LEMMA RefundWith ==
    ASSUME NEW k \in BoxState, NEW v, NEW w, NEW s
    PROVE  [[[k EXCEPT !.pc = v] EXCEPT !.todo = w] EXCEPT !.seat = s] = BoxRow(v, w, s, k.status)
    <1>1. PICK y : y = BoxRow(v, w, k.seat, k.status)
        OBVIOUS
    <1>2. [[k EXCEPT !.pc = v] EXCEPT !.todo = w] = y
        BY <1>1, TodoWith
    <1>3. [y EXCEPT !.seat = s] = BoxRow(v, w, s, k.status)
        BY <1>1 DEF BoxRow
    <1> QED BY <1>2, <1>3

LEMMA SetTicketOfIs ==
    ASSUME NEW s, NEW status, SetTicketOf(s, status)
    PROVE  TicketSet(s, status)
    BY DEF SetTicketOf, TicketSet

\* One call of the staff is where the step is.
LEMMA BoxGoesTo ==
    ASSUME BoxTypeOK, NEW b \in PartnerCalls, NEW k, k = box[b], NEW pc, BoxGoto(b, pc)
    PROVE  /\ box' = [box EXCEPT ![b] = BoxRow(pc, k.todo, k.seat, k.status)]
           /\ UNCHANGED <<made, overlapped>>
    <1>1. k \in BoxState
        BY DEF BoxTypeOK
    <1>2. [k EXCEPT !.pc = pc] = BoxRow(pc, k.todo, k.seat, k.status)
        BY <1>1 DEF BoxState, BoxRow
    <1> QED BY <1>2 DEF BoxGoto, BoxTypeOK

LEMMA BoxStepMoves ==
    ASSUME TypeOK, BoxTypeOK, NEW b \in PartnerCalls, BoxStep(b)
    PROVE  /\ UNCHANGED revenue
           /\ \E k \in BoxState : \E g :
                 /\ k = box[b] /\ box' = [box EXCEPT ![b] = g]
                 /\ BoxBegins(b, k, g) \/ BoxMove(k, g)
    <1>1. PICK k \in BoxState : k = box[b]
        BY DEF BoxTypeOK
    <1> SUFFICES /\ UNCHANGED revenue
                 /\ \E g : box' = [box EXCEPT ![b] = g] /\ (BoxBegins(b, k, g) \/ BoxMove(k, g))
        BY <1>1
    <1>2. ASSUME NEW status \in ShowtimeStatus, UpdateShowtime(b, status)
          PROVE  /\ UNCHANGED revenue
                 /\ \E g : box' = [box EXCEPT ![b] = g] /\ (BoxBegins(b, k, g) \/ BoxMove(k, g))
        <2>1. BoxStarts(b) /\ k = IdleBox /\ KeepsTickets /\ KeepsMoney /\ KeepsScans /\ UNCHANGED revenue
            BY <1>1, <1>2 DEF UpdateShowtime, BoxBegin, BoxStarts, vars, KeepsTickets, KeepsMoney, KeepsScans
        <2>2. box' = [box EXCEPT ![b] = [[IdleBox EXCEPT !.pc = "updateShowtime"] EXCEPT !.status = status]]
            BY <1>2 DEF UpdateShowtime, BoxBegin
        <2>3. [[IdleBox EXCEPT !.pc = "updateShowtime"] EXCEPT !.status = status]
                 = BoxRow("updateShowtime", {}, NoSeat, status)
            <3>1. IdleBox \in BoxState
                BY RowWith
            <3>2. [[IdleBox EXCEPT !.pc = "updateShowtime"] EXCEPT !.status = status]
                     = BoxRow("updateShowtime", IdleBox.todo, IdleBox.seat, status)
                BY <3>1, StatusWith
            <3> QED BY <3>2, RowWith
        <2> QED BY <2>1, <2>2, <2>3 DEF BoxBegins
    <1>3. ASSUME CancelShowtime(b)
          PROVE  /\ UNCHANGED revenue
                 /\ \E g : box' = [box EXCEPT ![b] = g] /\ (BoxBegins(b, k, g) \/ BoxMove(k, g))
        <2>1. BoxStarts(b) /\ k = IdleBox /\ KeepsTickets /\ KeepsMoney /\ KeepsScans /\ UNCHANGED revenue
            BY <1>1, <1>3 DEF CancelShowtime, BoxBegin, BoxStarts, vars, KeepsTickets, KeepsMoney, KeepsScans
        <2>2. box' = [box EXCEPT ![b] = [IdleBox EXCEPT !.pc = "readTickets"]]
            BY <1>3 DEF CancelShowtime, BoxBegin
        <2>3. [IdleBox EXCEPT !.pc = "readTickets"] = BoxRow("readTickets", {}, NoSeat, "none")
            BY RowWith
        <2> QED BY <2>1, <2>2, <2>3 DEF BoxBegins
    <1>4. ASSUME NEW s \in Seats, CheckIn(b, s)
          PROVE  /\ UNCHANGED revenue
                 /\ \E g : box' = [box EXCEPT ![b] = g] /\ (BoxBegins(b, k, g) \/ BoxMove(k, g))
        <2>1. BoxStarts(b) /\ k = IdleBox /\ KeepsTickets /\ KeepsMoney /\ KeepsScans /\ UNCHANGED revenue
            BY <1>1, <1>4 DEF CheckIn, BoxBegin, BoxStarts, vars, KeepsTickets, KeepsMoney, KeepsScans
        <2>2. box' = [box EXCEPT ![b] = [[IdleBox EXCEPT !.pc = "insertCheckIn"] EXCEPT !.seat = s]]
            BY <1>4 DEF CheckIn, BoxBegin
        <2>3. [[IdleBox EXCEPT !.pc = "insertCheckIn"] EXCEPT !.seat = s] = BoxRow("insertCheckIn", {}, s, "none")
            <3>1. IdleBox \in BoxState
                BY RowWith
            <3>2. [[IdleBox EXCEPT !.pc = "insertCheckIn"] EXCEPT !.seat = s]
                     = BoxRow("insertCheckIn", IdleBox.todo, s, IdleBox.status)
                BY <3>1, SeatWith
            <3> QED BY <3>2, RowWith
        <2> QED BY <2>1, <2>2, <2>3 DEF BoxBegins
    <1>5. ASSUME NEW s \in Seats, NEW status \in SeatStatus, UpdateSeat(b, s, status)
          PROVE  /\ UNCHANGED revenue
                 /\ \E g : box' = [box EXCEPT ![b] = g] /\ (BoxBegins(b, k, g) \/ BoxMove(k, g))
        <2>1. BoxStarts(b) /\ k = IdleBox /\ KeepsTickets /\ KeepsMoney /\ KeepsScans /\ UNCHANGED <<revenue, box>>
            BY <1>1, <1>5 DEF UpdateSeat, BoxStarts, saleVars, KeepsTickets, KeepsMoney, KeepsScans
        <2>2. box' = [box EXCEPT ![b] = IdleBox]
            BY <1>1, <2>1 DEF BoxTypeOK
        <2> QED BY <2>1, <2>2 DEF BoxBegins
    <1>6. ASSUME WriteShowtime(b) \/ SetCancelled(b) \/ BoxCrash(b)
          PROVE  /\ UNCHANGED revenue
                 /\ \E g : box' = [box EXCEPT ![b] = g] /\ (BoxBegins(b, k, g) \/ BoxMove(k, g))
        <2>1. KeepsTickets /\ KeepsMoney /\ KeepsScans /\ UNCHANGED <<revenue, made, overlapped>>
            BY <1>6 DEF WriteShowtime, SetCancelled, BoxCrash, BoxReturn, vars, saleVars,
                        KeepsTickets, KeepsMoney, KeepsScans
        <2>2. box' = [box EXCEPT ![b] = IdleBox]
            BY <1>6 DEF WriteShowtime, SetCancelled, BoxCrash, BoxReturn
        <2> QED BY <2>1, <2>2 DEF BoxMove, BoxEnds
    <1>7. ASSUME ReadTickets(b)
          PROVE  /\ UNCHANGED revenue
                 /\ \E g : box' = [box EXCEPT ![b] = g] /\ (BoxBegins(b, k, g) \/ BoxMove(k, g))
        <2> DEFINE g == BoxRow("refundTicket", SoldSeats, k.seat, k.status)
        <2>1. k.pc = "readTickets" /\ KeepsTickets /\ KeepsMoney /\ KeepsScans /\ UNCHANGED <<revenue, made, overlapped>>
            BY <1>1, <1>7 DEF ReadTickets, BoxAt, vars, KeepsTickets, KeepsMoney, KeepsScans
        <2>2. box' = [box EXCEPT ![b] = [[k EXCEPT !.pc = "refundTicket"] EXCEPT !.todo = SoldSeats]]
            BY <1>1, <1>7 DEF ReadTickets, BoxTypeOK
        <2>3. [[k EXCEPT !.pc = "refundTicket"] EXCEPT !.todo = SoldSeats] = g
            BY TodoWith
        <2> QED BY <2>1, <2>2, <2>3 DEF BoxMove, BoxReads
    <1>8. ASSUME NEW s \in k.todo, RefundTicket(b, s)
          PROVE  /\ UNCHANGED revenue
                 /\ \E g : box' = [box EXCEPT ![b] = g] /\ (BoxBegins(b, k, g) \/ BoxMove(k, g))
        <2> DEFINE g == BoxRow("freeSeat", k.todo \ {s}, s, k.status)
        <2>1. k.pc = "refundTicket" /\ KeepsMoney /\ KeepsScans /\ UNCHANGED <<revenue, made, overlapped>>
            BY <1>1, <1>8 DEF RefundTicket, BoxAt, saleVars, KeepsMoney, KeepsScans
        <2>2. box' = [box EXCEPT ![b] = [[[k EXCEPT !.pc = "freeSeat"] EXCEPT !.todo = k.todo \ {s}] EXCEPT !.seat = s]]
            BY <1>1, <1>8 DEF RefundTicket, BoxTypeOK
        <2>3. [[[k EXCEPT !.pc = "freeSeat"] EXCEPT !.todo = k.todo \ {s}] EXCEPT !.seat = s] = g
            BY RefundWith
        <2>4. TicketSet(s, "REFUNDED")
            BY <1>8, SetTicketOfIs DEF RefundTicket
        <2> QED BY <2>1, <2>2, <2>3, <2>4 DEF BoxMove, BoxRefunds
    <1>9. ASSUME FreeSeat(b)
          PROVE  /\ UNCHANGED revenue
                 /\ \E g : box' = [box EXCEPT ![b] = g] /\ (BoxBegins(b, k, g) \/ BoxMove(k, g))
        <2>1. k.pc = "freeSeat" /\ KeepsTickets /\ KeepsMoney /\ KeepsScans /\ UNCHANGED revenue
            BY <1>1, <1>9 DEF FreeSeat, BoxAt, saleVars, KeepsTickets, KeepsMoney, KeepsScans
        <2>2. PICK pc \in {"debitWallet", "refundTicket"} : BoxGoto(b, pc)
            BY <1>9 DEF FreeSeat
        <2>3. /\ box' = [box EXCEPT ![b] = BoxRow(pc, k.todo, k.seat, k.status)]
              /\ UNCHANGED <<made, overlapped>>
            BY <1>1, <2>2, BoxGoesTo
        <2> QED BY <2>1, <2>3 DEF BoxMove, BoxFrees
    <1>10. ASSUME DebitWallet(b)
           PROVE  /\ UNCHANGED revenue
                  /\ \E g : box' = [box EXCEPT ![b] = g] /\ (BoxBegins(b, k, g) \/ BoxMove(k, g))
        <2>1. /\ k.pc = "debitWallet" /\ KeepsTickets /\ KeepsScans /\ UNCHANGED <<revenue, refunds>>
              /\ BoxGoto(b, "insertRefund") /\ DebitRefund(PartnerTotal[{k.seat}])
            BY <1>1, <1>10 DEF DebitWallet, BoxAt, saleVars, KeepsTickets, KeepsScans
        <2>2. /\ box' = [box EXCEPT ![b] = BoxRow("insertRefund", k.todo, k.seat, k.status)]
              /\ UNCHANGED <<made, overlapped>>
            BY <1>1, <2>1, BoxGoesTo
        <2>3. PICK w \in [balance : Int, totalEarned : Int, totalWithdrawn : Int] : w = wallet
            BY DEF TypeOK
        <2>4. PICK n : n = PartnerTotal[{k.seat}]
            OBVIOUS
        <2> DEFINE y == [w EXCEPT !.balance = w.balance - n]
        <2>5. y = [balance |-> w.balance - n, totalEarned |-> w.totalEarned, totalWithdrawn |-> w.totalWithdrawn]
            OBVIOUS
        <2>6. wallet' = [y EXCEPT !.totalWithdrawn = w.totalWithdrawn + n]
            BY <2>1, <2>3, <2>4 DEF DebitRefund
        <2> HIDE DEF y
        <2>7. wallet' = [balance |-> w.balance - n, totalEarned |-> w.totalEarned, totalWithdrawn |-> w.totalWithdrawn + n]
            BY <2>5, <2>6
        <2>8. /\ wallet'.totalWithdrawn = wallet.totalWithdrawn + PartnerTotal[{k.seat}]
              /\ wallet'.balance = wallet.balance - PartnerTotal[{k.seat}]
              /\ wallet'.totalEarned = wallet.totalEarned
            BY <2>3, <2>4, <2>7
        <2> QED BY <2>1, <2>2, <2>8 DEF BoxMove, BoxDebits
    <1>11. ASSUME InsertRefund(b)
           PROVE  /\ UNCHANGED revenue
                  /\ \E g : box' = [box EXCEPT ![b] = g] /\ (BoxBegins(b, k, g) \/ BoxMove(k, g))
        <2>1. /\ k.pc = "insertRefund" /\ KeepsTickets /\ KeepsScans /\ UNCHANGED <<revenue, wallet>>
              /\ BoxGoto(b, "refundTicket") /\ refunds' = [refunds EXCEPT ![k.seat] = @ + 1]
            BY <1>1, <1>11 DEF InsertRefund, BoxAt, vars, KeepsTickets, KeepsScans
        <2>2. /\ box' = [box EXCEPT ![b] = BoxRow("refundTicket", k.todo, k.seat, k.status)]
              /\ UNCHANGED <<made, overlapped>>
            BY <1>1, <2>1, BoxGoesTo
        <2> QED BY <2>1, <2>2 DEF BoxMove, BoxInserts
    <1>12. ASSUME InsertCheckIn(b)
           PROVE  /\ UNCHANGED revenue
                  /\ \E g : box' = [box EXCEPT ![b] = g] /\ (BoxBegins(b, k, g) \/ BoxMove(k, g))
        <2>1. /\ k.pc = "insertCheckIn" /\ KeepsTickets /\ KeepsMoney /\ UNCHANGED revenue
            BY <1>1, <1>12 DEF InsertCheckIn, BoxAt, vars, KeepsTickets, KeepsMoney
        <2>2. scanned' = scanned \cup {k.seat}
            BY <1>1, <1>12 DEF InsertCheckIn
        <2>3. BoxReturn(b) \/ BoxGoto(b, "markUsed")
            BY <1>12 DEF InsertCheckIn
        <2>4. PICK g : /\ box' = [box EXCEPT ![b] = g] /\ UNCHANGED <<made, overlapped>>
                       /\ (g = IdleBox \/ g = BoxRow("markUsed", k.todo, k.seat, k.status))
            BY <1>1, <2>3, BoxGoesTo DEF BoxReturn
        <2> QED BY <2>1, <2>2, <2>4 DEF BoxMove, BoxScans
    <1>13. ASSUME MarkUsed(b)
           PROVE  /\ UNCHANGED revenue
                  /\ \E g : box' = [box EXCEPT ![b] = g] /\ (BoxBegins(b, k, g) \/ BoxMove(k, g))
        <2>1. /\ k.pc = "markUsed" /\ KeepsMoney /\ KeepsScans /\ UNCHANGED <<revenue, made, overlapped>>
              /\ box' = [box EXCEPT ![b] = IdleBox] /\ SetTicketOf(k.seat, "USED")
            BY <1>1, <1>13 DEF MarkUsed, BoxAt, BoxReturn, saleVars, KeepsMoney, KeepsScans
        <2>2. TicketSet(k.seat, "USED")
            BY <2>1, SetTicketOfIs
        <2> QED BY <2>1, <2>2 DEF BoxMove, BoxMarks
    <1> QED BY <1>1, <1>2, <1>3, <1>4, <1>5, <1>6, <1>7, <1>8, <1>9, <1>10, <1>11, <1>12, <1>13 DEF BoxStep

\* The rows of the sale keep their shape under the staff's writes.
LEMMA BoxSaleType ==
    ASSUME TypeOK, BoxTypeOK, NEW b \in PartnerCalls, BoxStep(b)
    PROVE  TypeOK'
    <1>1. box[b] \in BoxState /\ (BoxAt(b, "updateShowtime") => box[b].status \in ShowtimeStatus)
          /\ (BoxAt(b, "freeSeat") => box[b].seat \in Seats)
          /\ (BoxAt(b, "debitWallet") => PartnerTotal[{box[b].seat}] \in Nat)
        BY BoxAssumes DEF BoxTypeOK, BoxState, BoxAt
    <1>2. UNCHANGED <<orderStatus, overdue, payments, revenue, requests, call, cleaner>>
        BY DEF BoxStep, UpdateShowtime, WriteShowtime, CancelShowtime, ReadTickets, RefundTicket, FreeSeat,
               DebitWallet, InsertRefund, SetCancelled, UpdateSeat, CheckIn, InsertCheckIn, MarkUsed, BoxCrash,
               vars, saleVars
    <1>3. /\ seatStatus' \in [Seats -> SeatStatus]
          /\ lockedBy' \in [Seats -> Orders \cup {NoOrder}]
        <2>1. CASE UNCHANGED <<seatStatus, lockedBy>>
            BY <2>1 DEF TypeOK
        <2>2. CASE ~UNCHANGED <<seatStatus, lockedBy>>
            <3>1. PICK s \in Seats, status \in SeatStatus : SetSeatStatus(s, status)
                <4>1. FreeSeat(b) \/ \E s \in Seats, status \in SeatStatus : UpdateSeat(b, s, status)
                    BY <2>2 DEF BoxStep, UpdateShowtime, WriteShowtime, CancelShowtime, ReadTickets, RefundTicket,
                           DebitWallet, InsertRefund, SetCancelled, CheckIn, InsertCheckIn, MarkUsed, BoxCrash,
                           vars, seatVars
                <4> QED BY <1>1, <4>1 DEF FreeSeat, UpdateSeat, SeatStatus
            <3> QED BY <3>1 DEF SetSeatStatus, TypeOK
        <2> QED BY <2>1, <2>2
    <1>4. ticket' \in [Orders -> [Seats -> TicketStatus \cup {"none"}]]
        <2>1. CASE UNCHANGED ticket
            BY <2>1 DEF TypeOK
        <2>2. CASE ~UNCHANGED ticket
            <3>1. MarkUsed(b) \/ \E s \in box[b].todo : RefundTicket(b, s)
                BY <2>2 DEF BoxStep, UpdateShowtime, WriteShowtime, CancelShowtime, ReadTickets, FreeSeat, UpdateSeat,
                       DebitWallet, InsertRefund, SetCancelled, CheckIn, InsertCheckIn, BoxCrash, vars
            <3>2. PICK status \in {"USED", "REFUNDED"} : \E s : SetTicketOf(s, status)
                BY <3>1, Zenon DEF MarkUsed, RefundTicket
            <3>3. status \in TicketStatus
                BY DEF TicketStatus
            <3> QED BY <3>2, <3>3 DEF SetTicketOf, TypeOK
        <2> QED BY <2>1, <2>2
    <1>5. showtime' \in [status : ShowtimeStatus, availableSeats : Int, bookedSeats : Nat]
        <2>1. CASE UNCHANGED showtime
            BY <2>1 DEF TypeOK
        <2>2. CASE ~UNCHANGED showtime
            <3>1. WriteShowtime(b) \/ SetCancelled(b)
                BY <2>2 DEF BoxStep, UpdateShowtime, CancelShowtime, ReadTickets, RefundTicket, FreeSeat, UpdateSeat,
                       DebitWallet, InsertRefund, CheckIn, InsertCheckIn, MarkUsed, BoxCrash, vars, saleVars
            <3>2. PICK status \in ShowtimeStatus : showtime' = [showtime EXCEPT !.status = status]
                BY <1>1, <3>1 DEF WriteShowtime, SetCancelled, ShowtimeStatus
            <3> QED BY <3>2 DEF TypeOK
        <2> QED BY <2>1, <2>2
    <1>6. wallet' \in [balance : Int, totalEarned : Int, totalWithdrawn : Int]
        <2>1. CASE UNCHANGED wallet
            BY <2>1 DEF TypeOK
        <2>2. CASE ~UNCHANGED wallet
            <3>1. DebitWallet(b)
                BY <2>2 DEF BoxStep, UpdateShowtime, WriteShowtime, CancelShowtime, ReadTickets, RefundTicket, FreeSeat,
                       UpdateSeat, InsertRefund, SetCancelled, CheckIn, InsertCheckIn, MarkUsed, BoxCrash, vars
            <3>2. PICK n \in Nat : DebitRefund(n)
                BY <1>1, <3>1 DEF DebitWallet
            <3>3. PICK w \in [balance : Int, totalEarned : Int, totalWithdrawn : Int] : w = wallet
                BY DEF TypeOK
            <3> DEFINE y == [w EXCEPT !.balance = w.balance - n]
            <3>4. y \in [balance : Int, totalEarned : Int, totalWithdrawn : Int]
                OBVIOUS
            <3>5. wallet' = [y EXCEPT !.totalWithdrawn = w.totalWithdrawn + n]
                BY <3>2, <3>3 DEF DebitRefund
            <3> HIDE DEF y
            <3> QED BY <3>4, <3>5
        <2> QED BY <2>1, <2>2
    <1>7. (\A c \in Calls : CallTypeOK(c))'
        BY <1>2 DEF TypeOK, CallTypeOK
    <1> QED BY <1>2, <1>3, <1>4, <1>5, <1>6, <1>7 DEF TypeOK

AtSeat(k) ==
    /\ k.pc \in {"freeSeat", "debitWallet", "insertRefund", "insertCheckIn", "markUsed"} => k.seat \in Seats
    /\ k.pc = "updateShowtime" => k.status # "none"
LEMMA BoxRowIs ==
    ASSUME NEW pc \in BoxPC, NEW todo \in SUBSET Seats, NEW s \in Seats \cup {NoSeat},
           NEW status \in ShowtimeStatus \cup {"none"}
    PROVE  /\ BoxRow(pc, todo, s, status) \in BoxState
           /\ BoxRow(pc, todo, s, status).pc = pc /\ BoxRow(pc, todo, s, status).todo = todo
           /\ BoxRow(pc, todo, s, status).seat = s /\ BoxRow(pc, todo, s, status).status = status
    BY DEF BoxRow, BoxState

LEMMA BoxBeginsType ==
    ASSUME NEW b \in PartnerCalls, NEW k \in BoxState, NEW g, BoxBegins(b, k, g)
    PROVE  g \in BoxState /\ AtSeat(g)
    <1>1. {} \in SUBSET Seats /\ NoSeat \in Seats \cup {NoSeat} /\ "none" \in ShowtimeStatus \cup {"none"}
        OBVIOUS
    <1>2. "none" \notin ShowtimeStatus /\ {"updateShowtime", "readTickets", "insertCheckIn"} \subseteq BoxPC
        BY DEF ShowtimeStatus, BoxPC
    <1>3. CASE g = IdleBox
        BY <1>3, RowWith DEF AtSeat
    <1>4. ASSUME NEW status \in ShowtimeStatus, g = BoxRow("updateShowtime", {}, NoSeat, status)
          PROVE  g \in BoxState /\ AtSeat(g)
        BY <1>1, <1>2, <1>4, BoxRowIs DEF AtSeat
    <1>5. CASE g = BoxRow("readTickets", {}, NoSeat, "none")
        BY <1>1, <1>2, <1>5, BoxRowIs DEF AtSeat
    <1>6. ASSUME NEW s \in Seats, g = BoxRow("insertCheckIn", {}, s, "none")
          PROVE  g \in BoxState /\ AtSeat(g)
        BY <1>1, <1>2, <1>6, BoxRowIs DEF AtSeat
    <1> QED BY <1>3, <1>4, <1>5, <1>6 DEF BoxBegins

LEMMA BoxMoveType ==
    ASSUME NEW k \in BoxState, AtSeat(k), NEW g, BoxMove(k, g)
    PROVE  g \in BoxState /\ AtSeat(g)
    <1>1. /\ k.pc \in BoxPC /\ k.todo \in SUBSET Seats /\ k.seat \in Seats \cup {NoSeat}
          /\ k.status \in ShowtimeStatus \cup {"none"}
        BY DEF BoxState
    <1>2. {"refundTicket", "freeSeat", "debitWallet", "insertRefund", "markUsed"} \subseteq BoxPC
        BY DEF BoxPC
    <1>3. CASE g = IdleBox
        BY <1>3, RowWith DEF AtSeat
    <1>4. CASE BoxReads(k, g)
        <2>1. SoldSeats \in SUBSET Seats
            BY DEF SoldSeats
        <2> QED BY <1>1, <1>2, <1>4, <2>1, BoxRowIs DEF BoxReads, AtSeat
    <1>5. CASE BoxRefunds(k, g)
        <2>1. PICK s \in k.todo : g = BoxRow("freeSeat", k.todo \ {s}, s, k.status)
            BY <1>5 DEF BoxRefunds
        <2>2. s \in Seats /\ k.todo \ {s} \in SUBSET Seats
            BY <1>1
        <2> QED BY <1>1, <1>2, <2>1, <2>2, BoxRowIs DEF AtSeat
    <1>6. CASE BoxFrees(k, g)
        <2>1. PICK pc \in {"debitWallet", "refundTicket"} : g = BoxRow(pc, k.todo, k.seat, k.status)
            BY <1>6 DEF BoxFrees
        <2>2. k.seat \in Seats /\ pc \in BoxPC
            BY <1>2, <1>6 DEF BoxFrees, AtSeat
        <2> QED BY <1>1, <2>1, <2>2, BoxRowIs DEF AtSeat
    <1>7. CASE BoxDebits(k, g)
        BY <1>1, <1>2, <1>7, BoxRowIs DEF BoxDebits, AtSeat
    <1>8. CASE BoxInserts(k, g)
        BY <1>1, <1>2, <1>8, BoxRowIs DEF BoxInserts, AtSeat
    <1>9. CASE BoxScans(k, g)
        BY <1>1, <1>2, <1>3, <1>9, BoxRowIs DEF BoxScans, AtSeat
    <1> QED BY <1>3, <1>4, <1>5, <1>6, <1>7, <1>8, <1>9 DEF BoxMove, BoxEnds, BoxMarks

LEMMA BoxTypeStep ==
    ASSUME TypeOK, BoxTypeOK, NEW b \in PartnerCalls, BoxStep(b)
    PROVE  BoxTypeOK'
    <1>1. PICK k \in BoxState : \E g : /\ k = box[b] /\ box' = [box EXCEPT ![b] = g]
                                       /\ BoxBegins(b, k, g) \/ BoxMove(k, g)
        BY BoxStepMoves
    <1>2. PICK g : /\ k = box[b] /\ box' = [box EXCEPT ![b] = g]
                   /\ BoxBegins(b, k, g) \/ BoxMove(k, g)
        BY <1>1
    <1>3. AtSeat(k)
        BY <1>2 DEF BoxTypeOK, AtSeat, BoxAt
    <1>4. g \in BoxState /\ AtSeat(g)
        BY <1>2, <1>3, BoxBeginsType, BoxMoveType
    <1>5. box' \in [PartnerCalls -> BoxState] /\ \A d \in PartnerCalls : box'[d] = IF d = b THEN g ELSE box[d]
        BY <1>2, <1>4 DEF BoxTypeOK
    <1>6. \A d \in PartnerCalls : AtSeat(box'[d])
        <2> TAKE d \in PartnerCalls
        <2>1. CASE d = b
            BY <1>4, <1>5, <2>1
        <2>2. CASE d # b
            BY <1>5, <2>2 DEF BoxTypeOK, AtSeat, BoxAt
        <2> QED BY <2>1, <2>2
    <1>7. scanned' \subseteq Seats
        <2>1. CASE UNCHANGED scanned
            BY <2>1 DEF BoxTypeOK
        <2>2. CASE ~UNCHANGED scanned
            <3>1. BoxScans(k, g)
                BY <1>2, <2>2 DEF BoxBegins, BoxMove, BoxEnds, BoxReads, BoxRefunds, BoxFrees, BoxDebits,
                                  BoxInserts, BoxMarks, KeepsScans
            <3> QED BY <1>3, <3>1 DEF BoxScans, AtSeat, BoxTypeOK
        <2> QED BY <2>1, <2>2
    <1>8. refunds' \in [Seats -> Nat]
        <2>1. CASE UNCHANGED refunds
            BY <2>1 DEF BoxTypeOK
        <2>2. CASE ~UNCHANGED refunds
            <3>1. BoxInserts(k, g)
                BY <1>2, <2>2 DEF BoxBegins, BoxMove, BoxEnds, BoxReads, BoxRefunds, BoxFrees, BoxDebits,
                                  BoxScans, BoxMarks, KeepsMoney
            <3>2. k.seat \in Seats /\ refunds' = [refunds EXCEPT ![k.seat] = refunds[k.seat] + 1]
                BY <1>3, <3>1 DEF BoxInserts, AtSeat
            <3>3. refunds[k.seat] + 1 \in Nat
                BY <3>2 DEF BoxTypeOK
            <3> QED BY <3>2, <3>3 DEF BoxTypeOK
        <2> QED BY <2>1, <2>2
    <1>9. made' \in 0 .. MaxPartnerCalls /\ overlapped' \in BOOLEAN
        <2>1. CASE BoxBegins(b, k, g)
            <3>1. made < MaxPartnerCalls /\ made' = made + 1 /\ made \in 0 .. MaxPartnerCalls
                BY <2>1 DEF BoxBegins, BoxStarts, BoxTypeOK
            <3>2. made' \in 0 .. MaxPartnerCalls
                BY <3>1, BoxAssumes
            <3>3. overlapped' = TRUE \/ overlapped' = FALSE
                BY <2>1, Zenon DEF BoxBegins, BoxStarts
            <3> QED BY <3>2, <3>3
        <2>2. CASE BoxMove(k, g)
            BY <2>2 DEF BoxMove, BoxTypeOK
        <2> QED BY <1>2, <2>1, <2>2
    <1> QED BY <1>5, <1>6, <1>7, <1>8, <1>9 DEF BoxTypeOK, AtSeat, BoxAt

\* Whoever is about to mark a ticket has scanned it.
ScanInv ==
    /\ TypeOK /\ BoxTypeOK /\ UsedWasScanned
    /\ \A b \in PartnerCalls : box[b].pc = "markUsed" => box[b].seat \in scanned

LEMMA BoxTypeInit == BoxInit => TypeOK /\ BoxTypeOK
    <1> SUFFICES ASSUME BoxInit PROVE TypeOK /\ BoxTypeOK
        OBVIOUS
    <1>1. TypeOK
        BY InitTypeOK DEF BoxInit
    <1>2. /\ box \in [PartnerCalls -> BoxState]
          /\ \A b \in PartnerCalls : box[b].pc = "idle"
        BY RowWith DEF BoxInit
    <1>3. /\ scanned \subseteq Seats /\ refunds \in [Seats -> Nat]
          /\ made \in 0 .. MaxPartnerCalls /\ overlapped \in BOOLEAN
        <2>1. scanned = {} /\ refunds = [s \in Seats |-> 0] /\ made = 0 /\ overlapped = FALSE
            BY DEF BoxInit
        <2>2. 0 \in 0 .. MaxPartnerCalls
            BY BoxAssumes
        <2> QED BY <2>1, <2>2
    <1> QED BY <1>1, <1>2, <1>3 DEF BoxTypeOK, BoxAt

LEMMA ScanInit == BoxInit => ScanInv
    <1> SUFFICES ASSUME BoxInit PROVE ScanInv
        OBVIOUS
    <1>1. TypeOK /\ BoxTypeOK
        BY BoxTypeInit
    <1>2. \A b \in PartnerCalls : box[b].pc = "idle"
        BY RowWith DEF BoxInit
    <1>3. UsedWasScanned
        BY DEF BoxInit, Init, UsedWasScanned
    <1> QED BY <1>1, <1>2, <1>3 DEF ScanInv

LEMMA SaleStepTypes ==
    ASSUME TypeOK, BoxTypeOK, [Next]_vars, UNCHANGED boxVars
    PROVE  TypeOK' /\ BoxTypeOK' /\ SaleMoves
    <1>1. TypeOK'
        BY NextTypeOK
    <1>2. BoxTypeOK'
        BY DEF boxVars, BoxTypeOK, BoxAt
    <1> QED BY <1>1, <1>2, SaleStepMoves

LEMMA ScanSaleStep ==
    ASSUME ScanInv, [Next]_vars, UNCHANGED boxVars
    PROVE  ScanInv'
    <1>1. TypeOK' /\ BoxTypeOK' /\ SaleMoves
        BY SaleStepTypes DEF ScanInv
    <1>2. \A o \in Orders, s \in Seats : ticket'[o][s] = "USED" => ticket[o][s] = "USED"
        BY <1>1 DEF SaleMoves, SaleTicket
    <1>3. UsedWasScanned'
        BY <1>2 DEF ScanInv, UsedWasScanned, boxVars
    <1> QED BY <1>1, <1>3 DEF ScanInv, boxVars

LEMMA ScanBoxStep ==
    ASSUME ScanInv, NEW b \in PartnerCalls, BoxStep(b)
    PROVE  ScanInv'
    <1>1. TypeOK /\ BoxTypeOK /\ TypeOK' /\ BoxTypeOK'
        BY BoxSaleType, BoxTypeStep DEF ScanInv
    <1>2. PICK k \in BoxState : \E g : /\ k = box[b] /\ box' = [box EXCEPT ![b] = g]
                                       /\ BoxBegins(b, k, g) \/ BoxMove(k, g)
        BY <1>1, BoxStepMoves
    <1>3. PICK g : /\ k = box[b] /\ box' = [box EXCEPT ![b] = g]
                   /\ BoxBegins(b, k, g) \/ BoxMove(k, g)
        BY <1>2
    <1>4. \A d \in PartnerCalls : box'[d] = IF d = b THEN g ELSE box[d]
        BY <1>1, <1>3 DEF BoxTypeOK
    <1>5. /\ k \in BoxState /\ AtSeat(k) /\ g \in BoxState
          /\ k.pc = "markUsed" => k.seat \in scanned
        BY <1>1, <1>3, <1>4 DEF ScanInv, BoxTypeOK, AtSeat, BoxAt
    <1>6. scanned \subseteq scanned'
        BY <1>3 DEF BoxBegins, BoxMove, BoxEnds, BoxReads, BoxRefunds, BoxFrees, BoxDebits, BoxInserts,
                    BoxScans, BoxMarks, KeepsScans
    <1>7. g.pc = "markUsed" => g.seat \in scanned'
        <2> SUFFICES ASSUME g.pc = "markUsed" PROVE g.seat \in scanned'
            OBVIOUS
        <2>1. \A pc, todo, s, status : BoxRow(pc, todo, s, status).pc = pc /\ BoxRow(pc, todo, s, status).seat = s
            BY DEF BoxRow
        <2>2. ~BoxBegins(b, k, g)
            BY <2>1, RowWith DEF BoxBegins
        <2>3. ~BoxEnds(k, g) /\ ~BoxReads(k, g) /\ ~BoxDebits(k, g) /\ ~BoxInserts(k, g) /\ ~BoxMarks(k, g)
            BY <2>1, RowWith DEF BoxEnds, BoxReads, BoxDebits, BoxInserts, BoxMarks
        <2>4. ~BoxRefunds(k, g) /\ ~BoxFrees(k, g)
            <3>1. CASE BoxRefunds(k, g)
                <4>1. PICK s \in k.todo : g = BoxRow("freeSeat", k.todo \ {s}, s, k.status)
                    BY <3>1 DEF BoxRefunds
                <4> QED BY <2>1, <4>1
            <3>2. CASE BoxFrees(k, g)
                <4>1. PICK pc \in {"debitWallet", "refundTicket"} : g = BoxRow(pc, k.todo, k.seat, k.status)
                    BY <3>2 DEF BoxFrees
                <4> QED BY <2>1, <4>1
            <3> QED BY <3>1, <3>2
        <2>5. BoxScans(k, g)
            BY <1>3, <2>2, <2>3, <2>4 DEF BoxMove
        <2>6. g = BoxRow("markUsed", k.todo, k.seat, k.status) /\ k.seat \in scanned'
            BY <2>5, RowWith DEF BoxScans
        <2> QED BY <2>1, <2>6
    <1>8. UsedWasScanned'
        <2> SUFFICES ASSUME NEW o \in Orders, NEW s \in Seats, ticket'[o][s] = "USED" PROVE s \in scanned'
            BY DEF UsedWasScanned
        <2>1. CASE ticket[o][s] = "USED"
            BY <1>6, <2>1 DEF ScanInv, UsedWasScanned
        <2>2. CASE ticket[o][s] # "USED"
            <3>1. k.pc = "markUsed" /\ s = k.seat
                BY <1>3, <2>2 DEF BoxBegins, BoxMove, BoxEnds, BoxReads, BoxRefunds, BoxFrees, BoxDebits,
                                  BoxInserts, BoxScans, BoxMarks, KeepsTickets, TicketSet
            <3> QED BY <1>5, <1>6, <3>1
        <2> QED BY <2>1, <2>2
    <1>9. ASSUME NEW d \in PartnerCalls, box'[d].pc = "markUsed" PROVE box'[d].seat \in scanned'
        <2>1. CASE d = b
            BY <1>4, <1>7, <1>9, <2>1
        <2>2. CASE d # b
            BY <1>4, <1>6, <1>9, <2>2 DEF ScanInv
        <2> QED BY <2>1, <2>2
    <1> QED BY <1>1, <1>8, <1>9 DEF ScanInv

LEMMA ScanStep == ScanInv /\ [BoxNext]_allVars => ScanInv'
    <1> SUFFICES ASSUME ScanInv, [BoxNext]_allVars PROVE ScanInv'
        OBVIOUS
    <1>1. CASE UNCHANGED allVars
        <2>1. UNCHANGED vars /\ UNCHANGED boxVars
            BY <1>1 DEF allVars
        <2> QED BY <2>1, ScanSaleStep
    <1>2. CASE Next /\ UNCHANGED boxVars
        BY <1>2, ScanSaleStep
    <1> QED BY <1>1, <1>2, ScanBoxStep DEF BoxNext

(* A ticket is marked USED only after its scan was recorded, in every         *)
(* interleaving of scans, refunds, crashes and late payments.                *)
THEOREM ScansComeFirst == BoxSpec => []ScannedBeforeUse
    <1>1. BoxInit => ScanInv
        BY ScanInit
    <1>2. ScanInv /\ [BoxNext]_allVars => ScanInv'
        BY ScanStep
    <1>3. ScanInv => ScannedBeforeUse
        BY DEF ScanInv, ScannedBeforeUse
    <1> QED BY <1>1, <1>2, <1>3, PTL DEF BoxSpec

-----------------------------------------------------------------------------
(***************************************************************************)
(* Refunds and the wallet: what the REFUND rows stand for, and what calls  *)
(* have taken from the wallet without a row yet, never exceed what left it.*)
(***************************************************************************)
Refunded == [s \in Seats |-> refunds[s] * PartnerTotal[{s}]]
Unrecorded ==
    [b \in PartnerCalls |-> IF box[b].pc = "insertRefund" THEN PartnerTotal[{box[b].seat}] ELSE 0]

Covered ==
    /\ SumFunctionOnSet(Refunded, Seats) + SumFunctionOnSet(Unrecorded, PartnerCalls)
          <= wallet.totalWithdrawn
    /\ wallet.balance = wallet.totalEarned - wallet.totalWithdrawn

CoveredInv == TypeOK /\ BoxTypeOK /\ Covered

LEMMA WalletInts ==
    ASSUME TypeOK
    PROVE  wallet.balance \in Int /\ wallet.totalEarned \in Int /\ wallet.totalWithdrawn \in Int
    BY DEF TypeOK

LEMMA RefundEntries ==
    ASSUME BoxTypeOK, BoxTypeOK'
    PROVE  /\ \A s \in Seats : /\ Refunded[s] = refunds[s] * PartnerTotal[{s}]
                               /\ Refunded'[s] = refunds'[s] * PartnerTotal[{s}]
                               /\ Refunded[s] \in Nat /\ Refunded'[s] \in Nat
           /\ \A b \in PartnerCalls :
                /\ Unrecorded[b] = IF box[b].pc = "insertRefund" THEN PartnerTotal[{box[b].seat}] ELSE 0
                /\ Unrecorded'[b] = IF box'[b].pc = "insertRefund" THEN PartnerTotal[{box'[b].seat}] ELSE 0
                /\ Unrecorded[b] \in Nat /\ Unrecorded'[b] \in Nat
    <1>1. \A x, y \in Nat : x * y \in Nat
        OBVIOUS
    <1>2. \A s \in Seats : PartnerTotal[{s}] \in Nat
        BY BoxAssumes
    <1>3. ASSUME NEW s \in Seats
          PROVE  /\ Refunded[s] = refunds[s] * PartnerTotal[{s}]
                 /\ Refunded'[s] = refunds'[s] * PartnerTotal[{s}]
                 /\ Refunded[s] \in Nat /\ Refunded'[s] \in Nat
        <2>1. refunds[s] \in Nat /\ refunds'[s] \in Nat
            BY DEF BoxTypeOK
        <2>2. /\ Refunded[s] = refunds[s] * PartnerTotal[{s}]
              /\ Refunded'[s] = refunds'[s] * PartnerTotal[{s}]
            BY DEF Refunded
        <2>3. refunds[s] * PartnerTotal[{s}] \in Nat /\ refunds'[s] * PartnerTotal[{s}] \in Nat
            BY <1>1, <1>2, <2>1
        <2> QED BY <2>2, <2>3
    <1>4. ASSUME NEW b \in PartnerCalls
          PROVE  /\ Unrecorded[b] = IF box[b].pc = "insertRefund" THEN PartnerTotal[{box[b].seat}] ELSE 0
                 /\ Unrecorded'[b] = IF box'[b].pc = "insertRefund" THEN PartnerTotal[{box'[b].seat}] ELSE 0
                 /\ Unrecorded[b] \in Nat /\ Unrecorded'[b] \in Nat
        <2>1. /\ Unrecorded[b] = IF box[b].pc = "insertRefund" THEN PartnerTotal[{box[b].seat}] ELSE 0
              /\ Unrecorded'[b] = IF box'[b].pc = "insertRefund" THEN PartnerTotal[{box'[b].seat}] ELSE 0
            BY DEF Unrecorded
        <2>2. /\ box[b].pc = "insertRefund" => box[b].seat \in Seats
              /\ box'[b].pc = "insertRefund" => box'[b].seat \in Seats
            BY DEF BoxTypeOK
        <2> QED BY <1>2, <2>1, <2>2
    <1> QED BY <1>3, <1>4

LEMMA RefundSums ==
    ASSUME BoxTypeOK, BoxTypeOK'
    PROVE  /\ SumFunctionOnSet(Refunded, Seats) \in Int /\ SumFunctionOnSet(Refunded', Seats) \in Int
           /\ SumFunctionOnSet(Unrecorded, PartnerCalls) \in Int
           /\ SumFunctionOnSet(Unrecorded', PartnerCalls) \in Int
    <1>1. /\ \A s \in Seats : Refunded[s] \in Int /\ Refunded'[s] \in Int
          /\ \A b \in PartnerCalls : Unrecorded[b] \in Int /\ Unrecorded'[b] \in Int
        <2>1. /\ \A s \in Seats : Refunded[s] \in Nat /\ Refunded'[s] \in Nat
              /\ \A b \in PartnerCalls : Unrecorded[b] \in Nat /\ Unrecorded'[b] \in Nat
            BY RefundEntries, Zenon
        <2> QED BY <2>1
    <1>2. IsFiniteSet(Seats) /\ IsFiniteSet(PartnerCalls)
        BY BoxAssumes
    <1> QED BY <1>1, <1>2, SumInt

LEMMA RefundsKept ==
    ASSUME BoxTypeOK, BoxTypeOK', UNCHANGED refunds
    PROVE  SumFunctionOnSet(Refunded', Seats) = SumFunctionOnSet(Refunded, Seats)
    <1>1. Refunded' = Refunded
        BY DEF Refunded
    <1> QED BY <1>1

LEMMA UnrecordedChange ==
    ASSUME BoxTypeOK, BoxTypeOK', NEW b \in PartnerCalls, NEW g, box' = [box EXCEPT ![b] = g]
    PROVE  SumFunctionOnSet(Unrecorded', PartnerCalls)
             = SumFunctionOnSet(Unrecorded, PartnerCalls) + (Unrecorded'[b] - Unrecorded[b])
    <1>1. \A d \in PartnerCalls : Unrecorded[d] \in Int /\ Unrecorded'[d] \in Int
        <2>1. \A d \in PartnerCalls : Unrecorded[d] \in Nat /\ Unrecorded'[d] \in Nat
            BY RefundEntries, Zenon
        <2> QED BY <2>1
    <1>2. \A d \in PartnerCalls \ {b} : box'[d] = box[d]
        BY DEF BoxTypeOK
    <1>3. \A d \in PartnerCalls \ {b} : Unrecorded[d] = Unrecorded'[d]
        BY <1>2 DEF Unrecorded
    <1>4. IsFiniteSet(PartnerCalls)
        BY BoxAssumes
    <1> QED BY <1>1, <1>3, <1>4, SumChange

LEMMA CoveredInit == BoxInit => CoveredInv
    <1> SUFFICES ASSUME BoxInit PROVE CoveredInv
        OBVIOUS
    <1>1. TypeOK /\ BoxTypeOK
        BY BoxTypeInit
    <1>2. IsFiniteSet(Seats) /\ IsFiniteSet(PartnerCalls)
        BY BoxAssumes
    <1>3. \A s \in Seats : Refunded[s] = 0
        <2>1. \A n \in Nat : 0 * n = 0
            OBVIOUS
        <2>2. \A s \in Seats : PartnerTotal[{s}] \in Nat
            BY BoxAssumes
        <2>3. \A s \in Seats : Refunded[s] = 0 * PartnerTotal[{s}]
            BY DEF Refunded, BoxInit
        <2> QED BY <2>1, <2>2, <2>3
    <1>4. \A b \in PartnerCalls : Unrecorded[b] = 0
        <2>1. \A b \in PartnerCalls : box[b].pc = "idle"
            BY RowWith DEF BoxInit
        <2> QED BY <2>1 DEF Unrecorded
    <1>5. SumFunctionOnSet(Refunded, Seats) = 0 /\ SumFunctionOnSet(Unrecorded, PartnerCalls) = 0
        BY <1>2, <1>3, <1>4, SumZero
    <1>6. wallet = [balance |-> 0, totalEarned |-> 0, totalWithdrawn |-> 0]
        BY DEF BoxInit, Init
    <1> QED BY <1>1, <1>5, <1>6 DEF CoveredInv, Covered

LEMMA CoveredSaleStep ==
    ASSUME CoveredInv, [Next]_vars, UNCHANGED boxVars
    PROVE  CoveredInv'
    <1>1. TypeOK /\ BoxTypeOK /\ TypeOK' /\ BoxTypeOK' /\ SaleMoves
        BY SaleStepTypes DEF CoveredInv
    <1>2. Refunded' = Refunded /\ Unrecorded' = Unrecorded
        BY DEF boxVars, Refunded, Unrecorded
    <1>3. /\ wallet'.totalWithdrawn = wallet.totalWithdrawn
          /\ wallet'.balance - wallet'.totalEarned = wallet.balance - wallet.totalEarned
        BY <1>1 DEF SaleMoves
    <1>4. /\ wallet.balance \in Int /\ wallet.totalEarned \in Int /\ wallet.totalWithdrawn \in Int
          /\ wallet'.balance \in Int /\ wallet'.totalEarned \in Int /\ wallet'.totalWithdrawn \in Int
        BY <1>1 DEF TypeOK
    <1>5. wallet'.balance = wallet'.totalEarned - wallet'.totalWithdrawn
        BY <1>3, <1>4 DEF CoveredInv, Covered
    <1> QED BY <1>1, <1>2, <1>3, <1>5 DEF CoveredInv, Covered

LEMMA CoveredBoxStep ==
    ASSUME CoveredInv, NEW b \in PartnerCalls, BoxStep(b)
    PROVE  CoveredInv'
    <1>1. TypeOK /\ BoxTypeOK /\ TypeOK' /\ BoxTypeOK'
        BY BoxSaleType, BoxTypeStep DEF CoveredInv
    <1>2. PICK k \in BoxState : \E g : /\ k = box[b] /\ box' = [box EXCEPT ![b] = g]
                                       /\ BoxBegins(b, k, g) \/ BoxMove(k, g)
        BY <1>1, BoxStepMoves
    <1>3. PICK g : /\ k = box[b] /\ box' = [box EXCEPT ![b] = g]
                   /\ BoxBegins(b, k, g) \/ BoxMove(k, g)
        BY <1>2
    <1>4. box'[b] = g
        BY <1>1, <1>3 DEF BoxTypeOK
    <1>5. \A pc, todo, s, status : BoxRow(pc, todo, s, status).pc = pc /\ BoxRow(pc, todo, s, status).seat = s
        BY DEF BoxRow
    <1>6. PICK r \in Int, r2 \in Int, u \in Int, u2 \in Int :
             /\ r = SumFunctionOnSet(Refunded, Seats) /\ r2 = SumFunctionOnSet(Refunded', Seats)
             /\ u = SumFunctionOnSet(Unrecorded, PartnerCalls)
             /\ u2 = SumFunctionOnSet(Unrecorded', PartnerCalls)
        BY <1>1, RefundSums
    <1>7. PICK d \in Nat, d2 \in Nat : d = Unrecorded[b] /\ d2 = Unrecorded'[b]
        BY <1>1, RefundEntries
    <1>8. /\ d = IF k.pc = "insertRefund" THEN PartnerTotal[{k.seat}] ELSE 0
          /\ d2 = IF g.pc = "insertRefund" THEN PartnerTotal[{g.seat}] ELSE 0
        BY <1>1, <1>3, <1>4, <1>7, RefundEntries
    <1>9. u2 = u + (d2 - d)
        BY <1>1, <1>3, <1>6, <1>7, UnrecordedChange
    <1>10. /\ wallet.balance \in Int /\ wallet.totalEarned \in Int /\ wallet.totalWithdrawn \in Int
           /\ r + u <= wallet.totalWithdrawn
           /\ wallet.balance = wallet.totalEarned - wallet.totalWithdrawn
        BY <1>1, <1>6, WalletInts DEF CoveredInv, Covered
    <1>11. Covered'
        <2> SUFFICES r2 + u2 <= wallet'.totalWithdrawn /\ wallet'.balance = wallet'.totalEarned - wallet'.totalWithdrawn
            BY <1>6 DEF Covered
        <2>1. CASE BoxDebits(k, g)
            <3>1. r2 = r
                BY <1>1, <1>6, <2>1, RefundsKept DEF BoxDebits
            <3>2. k.pc # "insertRefund" /\ g.pc = "insertRefund" /\ g.seat = k.seat
                BY <1>5, <2>1 DEF BoxDebits
            <3>3. d = 0 /\ d2 = PartnerTotal[{k.seat}]
                BY <1>8, <3>2
            <3>4. /\ wallet'.totalWithdrawn = wallet.totalWithdrawn + d2
                  /\ wallet'.balance = wallet.balance - d2
                  /\ wallet'.totalEarned = wallet.totalEarned
                BY <2>1, <3>3 DEF BoxDebits
            <3> QED BY <1>9, <1>10, <3>1, <3>3, <3>4
        <2>2. CASE BoxInserts(k, g)
            <3>1. k.pc = "insertRefund" /\ g.pc = "refundTicket" /\ UNCHANGED wallet
                  /\ refunds' = [refunds EXCEPT ![k.seat] = refunds[k.seat] + 1]
                BY <1>5, <2>2 DEF BoxInserts
            <3>2. PICK s \in Seats : s = k.seat
                BY <1>1, <1>3, <3>1 DEF BoxTypeOK
            <3>3. d = PartnerTotal[{s}] /\ d2 = 0
                BY <1>8, <3>1, <3>2
            <3>4. Refunded'[s] = Refunded[s] + d
                <4>1. PICK n \in Nat : n = refunds[s]
                    BY <1>1 DEF BoxTypeOK
                <4>2. refunds'[s] = n + 1
                    BY <1>1, <3>1, <3>2, <4>1 DEF BoxTypeOK
                <4>3. \A x \in Nat : (n + 1) * x = n * x + x
                    OBVIOUS
                <4>4. Refunded'[s] = (n + 1) * d /\ Refunded[s] = n * d
                    <5>1. /\ Refunded[s] = refunds[s] * PartnerTotal[{s}]
                          /\ Refunded'[s] = refunds'[s] * PartnerTotal[{s}]
                        BY DEF Refunded
                    <5> QED BY <3>3, <4>1, <4>2, <5>1
                <4> QED BY <4>3, <4>4
            <3>5. \A t \in Seats \ {s} : Refunded[t] = Refunded'[t]
                <4>1. \A t \in Seats \ {s} : refunds'[t] = refunds[t]
                    BY <1>1, <3>1, <3>2 DEF BoxTypeOK
                <4> QED BY <4>1 DEF Refunded
            <3>6. \A t \in Seats : Refunded[t] \in Int /\ Refunded'[t] \in Int
                <4>1. \A t \in Seats : Refunded[t] \in Nat /\ Refunded'[t] \in Nat
                    BY <1>1, RefundEntries, Zenon
                <4> QED BY <4>1
            <3>7. IsFiniteSet(Seats)
                BY BoxAssumes
            <3>8. r2 = r + (Refunded'[s] - Refunded[s])
                BY <1>6, <3>5, <3>6, <3>7, SumChange
            <3> QED BY <1>9, <1>10, <3>1, <3>3, <3>4, <3>6, <3>8
        <2>3. CASE ~BoxDebits(k, g) /\ ~BoxInserts(k, g)
            <3>1. UNCHANGED <<refunds, wallet>>
                BY <1>3, <2>3 DEF BoxBegins, BoxMove, BoxEnds, BoxReads, BoxRefunds, BoxFrees, BoxScans, BoxMarks,
                                  KeepsMoney
            <3>2. g.pc # "insertRefund"
                <4>1. CASE BoxBegins(b, k, g)
                    BY <1>5, <4>1, RowWith DEF BoxBegins
                <4>2. CASE BoxEnds(k, g) \/ BoxReads(k, g) \/ BoxScans(k, g) \/ BoxMarks(k, g)
                    BY <1>5, <4>2, RowWith DEF BoxEnds, BoxReads, BoxScans, BoxMarks
                <4>3. CASE BoxRefunds(k, g)
                    <5>1. PICK s \in k.todo : g = BoxRow("freeSeat", k.todo \ {s}, s, k.status)
                        BY <4>3 DEF BoxRefunds
                    <5> QED BY <1>5, <5>1
                <4>4. CASE BoxFrees(k, g)
                    <5>1. PICK pc \in {"debitWallet", "refundTicket"} : g = BoxRow(pc, k.todo, k.seat, k.status)
                        BY <4>4 DEF BoxFrees
                    <5> QED BY <1>5, <5>1
                <4> QED BY <1>3, <2>3, <4>1, <4>2, <4>3, <4>4 DEF BoxMove
            <3>3. r2 = r /\ d2 = 0
                BY <1>1, <1>6, <1>8, <3>1, <3>2, RefundsKept
            <3> QED BY <1>9, <1>10, <3>1, <3>3
        <2> QED BY <2>1, <2>2, <2>3
    <1> QED BY <1>1, <1>11 DEF CoveredInv

LEMMA CoveredStep == CoveredInv /\ [BoxNext]_allVars => CoveredInv'
    <1> SUFFICES ASSUME CoveredInv, [BoxNext]_allVars PROVE CoveredInv'
        OBVIOUS
    <1>1. CASE UNCHANGED allVars
        <2>1. UNCHANGED vars /\ UNCHANGED boxVars
            BY <1>1 DEF allVars
        <2> QED BY <2>1, CoveredSaleStep
    <1>2. CASE Next /\ UNCHANGED boxVars
        BY <1>2, CoveredSaleStep
    <1> QED BY <1>1, <1>2, CoveredBoxStep DEF BoxNext

LEMMA CoveredHolds == CoveredInv => RefundsCovered
    <1> SUFFICES ASSUME CoveredInv PROVE RefundsCovered
        OBVIOUS
    <1>1. DOMAIN Refunded = Seats
        BY DEF Refunded
    <1>2. SumFunction(Refunded) = SumFunctionOnSet(Refunded, Seats)
        BY <1>1, Zenon DEF SumFunction
    <1>3. SumFunction([s \in Seats |-> refunds[s] * PartnerTotal[{s}]]) = SumFunctionOnSet(Refunded, Seats)
        BY <1>2, Zenon DEF Refunded
    <1>4. /\ \A b \in PartnerCalls : Unrecorded[b] \in Nat
          /\ \A s \in Seats : Refunded[s] \in Int
        <2>1. \A s \in Seats : PartnerTotal[{s}] \in Nat /\ refunds[s] \in Nat
            BY BoxAssumes DEF CoveredInv, BoxTypeOK
        <2>2. \A x, y \in Nat : x * y \in Int
            OBVIOUS
        <2>3. \A s \in Seats : Refunded[s] \in Int
            BY <2>1, <2>2 DEF Refunded
        <2>4. \A b \in PartnerCalls : box[b].pc = "insertRefund" => box[b].seat \in Seats
            BY DEF CoveredInv, BoxTypeOK
        <2> QED BY <2>1, <2>3, <2>4 DEF Unrecorded
    <1>5. IsFiniteSet(PartnerCalls) /\ IsFiniteSet(Seats)
        BY BoxAssumes
    <1>6. SumFunctionOnSet(Unrecorded, {}) <= SumFunctionOnSet(Unrecorded, PartnerCalls)
        <2>1. {} \subseteq PartnerCalls
            OBVIOUS
        <2> QED BY <1>4, <1>5, <2>1, SumSubset
    <1>7. 0 <= SumFunctionOnSet(Unrecorded, PartnerCalls)
        BY <1>6, SumEmpty
    <1>8. SumFunctionOnSet(Unrecorded, PartnerCalls) \in Int /\ SumFunctionOnSet(Refunded, Seats) \in Int
        <2>1. \A b \in PartnerCalls : Unrecorded[b] \in Int
            BY <1>4
        <2> QED BY <1>4, <1>5, <2>1, SumInt
    <1>9. wallet.totalWithdrawn \in Int
        BY WalletInts DEF CoveredInv
    <1>10. SumFunctionOnSet(Refunded, Seats) <= wallet.totalWithdrawn
        BY <1>7, <1>8, <1>9 DEF CoveredInv, Covered
    <1> QED BY <1>3, <1>10 DEF RefundsCovered, CoveredInv, Covered

-----------------------------------------------------------------------------
(***************************************************************************)
(* With one staff call at a time: the refunds of a ticket, the one at hand *)
(* and the one still to come (the ticket is sold, or on the call's list)   *)
(* never exceed what its order earned by more than one.                    *)
(***************************************************************************)
AtHand(k, s) == k.pc \in {"freeSeat", "debitWallet", "insertRefund"} /\ k.seat = s
ToCome(k, o, s) == ticket[o][s] \in {"CONFIRMED", "RESERVED"} \/ s \in k.todo
Due(k, o, s) == (IF AtHand(k, s) THEN 1 ELSE 0) + (IF ToCome(k, o, s) THEN 1 ELSE 0)
DueOnce(k) == \A o \in Orders : \A s \in TicketsOf(o) : refunds[s] + Due(k, o, s) <= revenue[o] + 1

\* A call works on seats that have a ticket.
OnTickets(k) == k.todo \subseteq Ticketed /\ \A s \in Seats : AtHand(k, s) => s \in Ticketed

DueInv ==
    /\ TypeOK /\ BoxTypeOK /\ OneTicketPerSeat
    /\ \A s \in Seats \ Ticketed : refunds[s] = 0
    /\ \A b \in PartnerCalls : OnTickets(box[b])
    /\ ~overlapped => /\ \A b, d \in PartnerCalls : b # d => box[b] = IdleBox \/ box[d] = IdleBox
                      /\ DueOnce(IdleBox)
                      /\ \A b \in PartnerCalls : DueOnce(box[b])

LEMMA DueBounds ==
    ASSUME NEW k, NEW o, NEW s
    PROVE  /\ Due(k, o, s) \in {0, 1, 2} /\ Due(k, o, s)' \in {0, 1, 2}
           /\ (AtHand(k, s) \/ ToCome(k, o, s)) <=> Due(k, o, s) # 0
    BY DEF Due

LEMMA IdleDue == \A s \in Seats : ~AtHand(IdleBox, s)
    BY RowWith DEF AtHand

LEMMA DueInit == BoxInit => DueInv
    <1> SUFFICES ASSUME BoxInit PROVE DueInv
        OBVIOUS
    <1>1. TypeOK /\ BoxTypeOK
        BY BoxTypeInit
    <1>2. /\ \A b \in PartnerCalls : box[b] = IdleBox
          /\ \A s \in Seats : refunds[s] = 0
          /\ \A o \in Orders : TicketsOf(o) = {}
        BY DEF BoxInit, Init, TicketsOf
    <1>3. DueOnce(IdleBox)
        BY <1>2 DEF DueOnce
    <1>4. OnTickets(IdleBox)
        BY IdleDue, RowWith DEF OnTickets
    <1>5. OneTicketPerSeat
        BY DEF BoxInit, Init, OneTicketPerSeat
    <1> QED BY <1>1, <1>2, <1>3, <1>4, <1>5 DEF DueInv

\* Tickets never disappear.
LEMMA TicketedGrows ==
    ASSUME \A o \in Orders, s \in Seats : ticket[o][s] # "none" => ticket'[o][s] # "none"
    PROVE  /\ Ticketed \subseteq Ticketed'
           /\ \A k : OnTickets(k) => OnTickets(k)'
           /\ \A o \in Orders : TicketsOf(o) \subseteq TicketsOf(o)'
    <1>1. Ticketed \subseteq Ticketed'
        BY DEF Ticketed
    <1>2. \A o \in Orders : TicketsOf(o) \subseteq TicketsOf(o)'
        BY DEF TicketsOf
    <1> QED BY <1>1, <1>2 DEF OnTickets, AtHand

LEMMA SaleOneTicket ==
    ASSUME OneTicketPerSeat, SaleMoves
    PROVE  OneTicketPerSeat'
    BY DEF SaleMoves, OneTicketPerSeat

LEMMA SaleKeepsTickets ==
    ASSUME SaleMoves
    PROVE  \A o \in Orders, s \in Seats : ticket[o][s] # "none" => ticket'[o][s] # "none"
    BY DEF SaleMoves, SaleTicket

\* A step of the sale: a credit pays for the ticket it confirms, and a
\* reservation takes a seat that has had no ticket.
LEMMA DueSale ==
    ASSUME TypeOK, BoxTypeOK, SaleMoves, UNCHANGED refunds,
           \A s \in Seats \ Ticketed : refunds[s] = 0,
           NEW k, OnTickets(k), DueOnce(k)
    PROVE  DueOnce(k)'
    <1> SUFFICES ASSUME NEW o \in Orders, NEW s \in Seats, ticket'[o][s] # "none"
                 PROVE  refunds[s] + Due(k, o, s)' <= revenue'[o] + 1
        BY DEF DueOnce, TicketsOf
    <1>1. PICK n \in Nat, r \in Nat : n = refunds[s] /\ r = revenue[o]
        BY DEF TypeOK, BoxTypeOK
    <1>2. revenue'[o] = r \/ revenue'[o] = r + 1
        BY <1>1 DEF SaleMoves
    <1>3. SaleTicket(o, s)
        BY DEF SaleMoves
    <1>4. CASE s \notin Ticketed
        <2>1. n = 0 /\ ~AtHand(k, s) /\ s \notin k.todo
            BY <1>1, <1>4 DEF OnTickets
        <2>2. Due(k, o, s)' \in {0, 1}
            BY <2>1 DEF Due, AtHand
        <2> QED BY <1>1, <1>2, <2>1, <2>2
    <1>5. CASE s \in Ticketed
        <2>1. ticket[o][s] # "none"
            BY <1>3, <1>5 DEF SaleTicket
        <2>2. n + Due(k, o, s) <= r + 1
            BY <1>1, <2>1 DEF DueOnce, TicketsOf
        <2>3. Due(k, o, s)' <= Due(k, o, s) \/ (Due(k, o, s)' = Due(k, o, s) + 1 /\ revenue'[o] = r + 1)
            <3>1. \/ ticket'[o][s] = ticket[o][s] \/ ticket'[o][s] = "CANCELLED"
                  \/ ticket'[o][s] = "CONFIRMED" /\ revenue'[o] = r + 1
                BY <1>1, <1>3, <1>5 DEF SaleTicket
            <3>2. CASE ticket'[o][s] = ticket[o][s] \/ ticket'[o][s] = "CANCELLED"
                BY <3>2 DEF Due, AtHand, ToCome
            <3>3. CASE revenue'[o] = r + 1
                BY <3>3 DEF Due, AtHand, ToCome
            <3> QED BY <3>1, <3>2, <3>3
        <2> QED BY <1>1, <1>2, <2>2, <2>3, DueBounds
    <1> QED BY <1>4, <1>5

LEMMA DueSaleStep ==
    ASSUME DueInv, [Next]_vars, UNCHANGED boxVars
    PROVE  DueInv'
    <1>1. TypeOK /\ BoxTypeOK /\ TypeOK' /\ BoxTypeOK' /\ SaleMoves
        BY SaleStepTypes DEF DueInv
    <1>2. UNCHANGED <<refunds, box, overlapped>>
        BY DEF boxVars
    <1>0. OneTicketPerSeat'
        BY <1>1, SaleOneTicket DEF DueInv
    <1>3. Ticketed \subseteq Ticketed' /\ \A k : OnTickets(k) => OnTickets(k)'
        BY <1>1, SaleKeepsTickets, TicketedGrows
    <1>4. \A b \in PartnerCalls : OnTickets(box[b])
        BY DEF DueInv
    <1>5. ASSUME NEW b \in PartnerCalls PROVE OnTickets(box[b])'
        <2>1. PICK k : k = box[b]
            OBVIOUS
        <2>2. OnTickets(k)'
            BY <1>3, <1>4, <2>1
        <2> QED BY <1>2, <2>1, <2>2
    <1>6. \A s \in Seats \ Ticketed : refunds[s] = 0
        BY DEF DueInv
    <1>7. \A s \in Seats \ Ticketed' : refunds'[s] = 0
        BY <1>2, <1>3, <1>6
    <1>8. ASSUME ~overlapped
          PROVE  /\ \A b, d \in PartnerCalls : b # d => box'[b] = IdleBox \/ box'[d] = IdleBox
                 /\ DueOnce(IdleBox)' /\ \A b \in PartnerCalls : DueOnce(box[b])'
        <2>1. /\ \A b, d \in PartnerCalls : b # d => box[b] = IdleBox \/ box[d] = IdleBox
              /\ DueOnce(IdleBox) /\ \A b \in PartnerCalls : DueOnce(box[b])
            BY <1>8 DEF DueInv
        <2>2. OnTickets(IdleBox)
            BY IdleDue, RowWith DEF OnTickets
        <2>3. DueOnce(IdleBox)'
            BY <1>1, <1>2, <1>6, <2>1, <2>2, DueSale
        <2>4. ASSUME NEW b \in PartnerCalls PROVE DueOnce(box[b])'
            <3>1. PICK k : k = box[b]
                OBVIOUS
            <3>2. OnTickets(k) /\ DueOnce(k)
                BY <1>4, <2>1, <3>1
            <3>3. DueOnce(k)'
                BY <1>1, <1>2, <1>6, <3>2, DueSale
            <3> QED BY <1>2, <3>1, <3>3
        <2> QED BY <1>2, <2>1, <2>3, <2>4
    <1> QED BY <1>0, <1>1, <1>2, <1>5, <1>7, <1>8 DEF DueInv

\* What a step of the staff moves, for a ticket.
LEMMA BoxKeepsTickets ==
    ASSUME NEW b, NEW k, NEW g, BoxBegins(b, k, g) \/ BoxMove(k, g)
    PROVE  \A o \in Orders, s \in Seats : ticket[o][s] # "none" <=> ticket'[o][s] # "none"
    <1>1. CASE UNCHANGED ticket
        BY <1>1
    <1>2. ASSUME NEW s, TicketSet(s, "REFUNDED") \/ TicketSet(s, "USED")
          PROVE  \A o \in Orders, t \in Seats : ticket[o][t] # "none" <=> ticket'[o][t] # "none"
        BY <1>2 DEF TicketSet
    <1> QED BY <1>1, <1>2 DEF BoxBegins, BoxMove, BoxEnds, BoxReads, BoxRefunds, BoxFrees, BoxDebits, BoxInserts,
                              BoxScans, BoxMarks, KeepsTickets

LEMMA RowIs ==
    \A pc, todo, s, status :
        /\ BoxRow(pc, todo, s, status).pc = pc /\ BoxRow(pc, todo, s, status).todo = todo
        /\ BoxRow(pc, todo, s, status).seat = s
    BY DEF BoxRow

LEMMA DueBoxStays ==
    ASSUME TypeOK, BoxTypeOK, OneTicketPerSeat, NEW b, NEW k \in BoxState, AtSeat(k), NEW g, UNCHANGED revenue,
           BoxBegins(b, k, g) \/ BoxMove(k, g), DueOnce(k)
    PROVE  DueOnce(g)'
    <1> SUFFICES ASSUME NEW o \in Orders, NEW s \in Seats, ticket'[o][s] # "none"
                 PROVE  refunds'[s] + Due(g, o, s)' <= revenue[o] + 1
        BY DEF DueOnce, TicketsOf
    <1>1. PICK n \in Nat, r \in Nat : n = refunds[s] /\ r = revenue[o]
        BY DEF TypeOK, BoxTypeOK
    <1>2. ticket[o][s] # "none"
        BY BoxKeepsTickets
    <1>3. n + Due(k, o, s) <= r + 1
        BY <1>1, <1>2 DEF DueOnce, TicketsOf
    <1>4. CASE BoxInserts(k, g)
        <2>1. refunds'[s] = (IF s = k.seat THEN n + 1 ELSE n) /\ UNCHANGED ticket
            BY <1>1, <1>4 DEF BoxInserts, BoxTypeOK, KeepsTickets
        <2>2. /\ k.pc = "insertRefund" /\ g.pc = "refundTicket" /\ g.todo = k.todo
            BY <1>4, RowIs DEF BoxInserts
        <2>3. Due(g, o, s)' = IF s = k.seat THEN Due(k, o, s) - 1 ELSE Due(k, o, s)
            BY <2>1, <2>2 DEF Due, AtHand, ToCome
        <2> QED BY <1>1, <1>3, <2>1, <2>3, DueBounds
    <1>5. CASE BoxRefunds(k, g)
        <2>1. PICK t \in k.todo : g = BoxRow("freeSeat", k.todo \ {t}, t, k.status) /\ TicketSet(t, "REFUNDED")
            BY <1>5 DEF BoxRefunds
        <2>2. k.pc = "refundTicket" /\ UNCHANGED refunds
            BY <1>5 DEF BoxRefunds, KeepsMoney
        <2>3. g.pc = "freeSeat" /\ g.todo = k.todo \ {t} /\ g.seat = t
            BY <2>1, RowIs
        <2>4. ticket'[o][s] = IF s = t THEN "REFUNDED" ELSE ticket[o][s]
            BY <1>2, <2>1 DEF TicketSet
        <2>5. Due(g, o, s)' <= Due(k, o, s)
            <3>1. CASE s = t
                <4>1. ToCome(k, o, s) /\ ~AtHand(k, s) /\ ~ToCome(g, o, s)'
                    BY <2>1, <2>2, <2>3, <2>4, <3>1 DEF ToCome, AtHand
                <4> QED BY <4>1 DEF Due
            <3>2. CASE s # t
                BY <2>2, <2>3, <2>4, <3>2 DEF Due, ToCome, AtHand
            <3> QED BY <3>1, <3>2
        <2> QED BY <1>1, <1>3, <2>2, <2>5, DueBounds
    <1>6. CASE BoxReads(k, g)
        <2>1. k.pc = "readTickets" /\ g.pc = "refundTicket" /\ g.todo = SoldSeats /\ UNCHANGED <<ticket, refunds>>
            BY <1>6, RowIs DEF BoxReads, KeepsTickets, KeepsMoney
        <2>2. CASE ToCome(k, o, s)
            BY <1>1, <1>3, <2>1, <2>2 DEF Due, AtHand
        <2>3. CASE ~ToCome(k, o, s)
            <3>1. s \notin SoldSeats
                BY <1>2, <2>3 DEF SoldSeats, TicketStatusOf, OneTicketPerSeat, ToCome
            <3> QED BY <1>1, <1>3, <2>1, <2>3, <3>1 DEF Due, AtHand, ToCome
        <2> QED BY <2>2, <2>3
    <1>7. CASE BoxMarks(k, g)
        <2>1. /\ k.pc = "markUsed" /\ TicketSet(k.seat, "USED") /\ UNCHANGED refunds
              /\ g.pc = "idle" /\ g.todo = {}
            BY <1>7, RowWith DEF BoxMarks, KeepsMoney
        <2>2. ticket'[o][s] = ticket[o][s] \/ ticket'[o][s] = "USED"
            BY <2>1 DEF TicketSet
        <2>3. Due(g, o, s)' <= Due(k, o, s)
            BY <2>1, <2>2 DEF Due, AtHand, ToCome
        <2> QED BY <1>1, <1>3, <2>1, <2>3, DueBounds
    <1>8. ASSUME g.todo \subseteq k.todo, AtHand(g, s) => AtHand(k, s), UNCHANGED <<ticket, refunds>>
          PROVE  refunds'[s] + Due(g, o, s)' <= revenue[o] + 1
        <2>1. Due(g, o, s)' <= Due(k, o, s)
            BY <1>8 DEF Due, AtHand, ToCome
        <2> QED BY <1>1, <1>3, <1>8, <2>1, DueBounds
    <1>9. CASE BoxBegins(b, k, g)
        <2>1. g.todo = {} /\ g.pc \in {"idle", "updateShowtime", "readTickets", "insertCheckIn"}
            BY <1>9, RowIs, RowWith DEF BoxBegins
        <2>2. UNCHANGED <<ticket, refunds>>
            BY <1>9 DEF BoxBegins, KeepsTickets, KeepsMoney
        <2> QED BY <1>8, <2>1, <2>2 DEF AtHand
    <1>10. CASE BoxEnds(k, g) \/ BoxScans(k, g)
        <2>1. (g.todo = {} \/ g.todo = k.todo) /\ g.pc \in {"idle", "markUsed"}
            BY <1>10, RowIs, RowWith DEF BoxEnds, BoxScans
        <2>2. UNCHANGED <<ticket, refunds>>
            BY <1>10 DEF BoxEnds, BoxScans, KeepsTickets, KeepsMoney
        <2> QED BY <1>8, <2>1, <2>2 DEF AtHand
    <1>11. CASE BoxFrees(k, g) \/ BoxDebits(k, g)
        <2>1. k.pc \in {"freeSeat", "debitWallet"} /\ g.todo = k.todo /\ g.seat = k.seat
            <3>1. CASE BoxFrees(k, g)
                <4>1. PICK pc \in {"debitWallet", "refundTicket"} : g = BoxRow(pc, k.todo, k.seat, k.status)
                    BY <3>1 DEF BoxFrees
                <4> QED BY <3>1, <4>1, RowIs DEF BoxFrees
            <3>2. CASE BoxDebits(k, g)
                BY <3>2, RowIs DEF BoxDebits
            <3> QED BY <1>11, <3>1, <3>2
        <2>2. UNCHANGED <<ticket, refunds>>
            BY <1>11 DEF BoxFrees, BoxDebits, KeepsTickets, KeepsMoney
        <2> QED BY <1>8, <2>1, <2>2 DEF AtHand
    <1> QED BY <1>4, <1>5, <1>6, <1>7, <1>9, <1>10, <1>11 DEF BoxMove

LEMMA DueBoxOn ==
    ASSUME BoxTypeOK, NEW b, NEW k \in BoxState, OnTickets(k), NEW g,
           BoxBegins(b, k, g) \/ BoxMove(k, g)
    PROVE  OnTickets(g)'
    <1>1. Ticketed' = Ticketed
        BY BoxKeepsTickets DEF Ticketed
    <1> SUFFICES g.todo \subseteq Ticketed /\ \A s \in Seats : AtHand(g, s) => s \in Ticketed
        BY <1>1 DEF OnTickets, AtHand
    <1>2. SoldSeats \subseteq Ticketed
        BY DEF SoldSeats, TicketStatusOf, Ticketed
    <1>3. k.todo \subseteq Ticketed /\ \A s \in Seats : AtHand(k, s) => s \in Ticketed
        BY DEF OnTickets
    <1>4. CASE BoxBegins(b, k, g)
        <2>1. g.todo = {} /\ g.pc \in {"idle", "updateShowtime", "readTickets", "insertCheckIn"}
            BY <1>4, RowIs, RowWith DEF BoxBegins
        <2> QED BY <2>1 DEF AtHand
    <1>5. CASE BoxReads(k, g)
        <2>1. g.todo = SoldSeats /\ g.pc = "refundTicket"
            BY <1>5, RowIs DEF BoxReads
        <2> QED BY <1>2, <2>1 DEF AtHand
    <1>6. CASE BoxRefunds(k, g)
        <2>1. PICK t \in k.todo : g = BoxRow("freeSeat", k.todo \ {t}, t, k.status)
            BY <1>6 DEF BoxRefunds
        <2>2. g.todo = k.todo \ {t} /\ g.seat = t
            BY <2>1, RowIs
        <2> QED BY <1>3, <2>2 DEF AtHand
    <1>7. CASE BoxFrees(k, g)
        <2>1. PICK pc \in {"debitWallet", "refundTicket"} : g = BoxRow(pc, k.todo, k.seat, k.status)
            BY <1>7 DEF BoxFrees
        <2>2. k.pc = "freeSeat" /\ g.todo = k.todo /\ g.seat = k.seat
            BY <1>7, <2>1, RowIs DEF BoxFrees
        <2> QED BY <1>3, <2>2 DEF AtHand
    <1>8. CASE BoxDebits(k, g)
        <2>1. k.pc = "debitWallet" /\ g.todo = k.todo /\ g.seat = k.seat
            BY <1>8, RowIs DEF BoxDebits
        <2> QED BY <1>3, <2>1 DEF AtHand
    <1>9. CASE BoxInserts(k, g) \/ BoxScans(k, g) \/ BoxEnds(k, g) \/ BoxMarks(k, g)
        <2>1. (g.todo = {} \/ g.todo = k.todo) /\ g.pc \in {"idle", "refundTicket", "markUsed"}
            BY <1>9, RowIs, RowWith DEF BoxInserts, BoxScans, BoxEnds, BoxMarks
        <2> QED BY <1>3, <2>1 DEF AtHand
    <1> QED BY <1>4, <1>5, <1>6, <1>7, <1>8, <1>9 DEF BoxMove

\* The call that begins alone is the only one that is not idle.
LEMMA DueAlone ==
    ASSUME DueInv, NEW b \in PartnerCalls, NEW k, k = box[b], NEW g, box' = [box EXCEPT ![b] = g],
           BoxBegins(b, k, g) \/ BoxMove(k, g), k # IdleBox \/ BoxBegins(b, k, g), ~overlapped'
    PROVE  ~overlapped /\ \A d \in PartnerCalls \ {b} : box[d] = IdleBox /\ box'[d] = IdleBox
    <1>1. \A d \in PartnerCalls \ {b} : box'[d] = box[d]
        BY DEF DueInv, BoxTypeOK
    <1>2. CASE BoxBegins(b, k, g)
        BY <1>1, <1>2 DEF BoxBegins, BoxStarts
    <1>3. CASE BoxMove(k, g) /\ k # IdleBox
        BY <1>1, <1>3 DEF BoxMove, DueInv
    <1> QED BY <1>2, <1>3

LEMMA DueBoxStep ==
    ASSUME DueInv, NEW b \in PartnerCalls, BoxStep(b)
    PROVE  DueInv'
    <1>1. TypeOK /\ BoxTypeOK /\ TypeOK' /\ BoxTypeOK' /\ OneTicketPerSeat /\ UNCHANGED revenue
        BY BoxSaleType, BoxTypeStep, BoxStepMoves DEF DueInv
    <1>2. PICK k \in BoxState : \E g : /\ k = box[b] /\ box' = [box EXCEPT ![b] = g]
                                       /\ BoxBegins(b, k, g) \/ BoxMove(k, g)
        BY <1>1, BoxStepMoves
    <1>3. PICK g : /\ k = box[b] /\ box' = [box EXCEPT ![b] = g]
                   /\ BoxBegins(b, k, g) \/ BoxMove(k, g)
        BY <1>2
    <1>4. \A d \in PartnerCalls : box'[d] = IF d = b THEN g ELSE box[d]
        BY <1>1, <1>3 DEF BoxTypeOK
    <1>5. AtSeat(k) /\ OnTickets(k)
        BY <1>1, <1>3 DEF BoxTypeOK, AtSeat, BoxAt, DueInv
    <1>6. \A o \in Orders, s \in Seats : ticket[o][s] # "none" <=> ticket'[o][s] # "none"
        BY <1>3, BoxKeepsTickets
    <1>7. OneTicketPerSeat' /\ Ticketed' = Ticketed
        BY <1>1, <1>6 DEF OneTicketPerSeat, Ticketed
    <1>8. \A s \in Seats \ Ticketed' : refunds'[s] = 0
        <2> SUFFICES ASSUME NEW s \in Seats, s \notin Ticketed PROVE refunds'[s] = 0
            BY <1>7
        <2>1. refunds[s] = 0
            BY DEF DueInv
        <2>2. CASE BoxInserts(k, g)
            <3>1. k.seat # s
                BY <1>5, <2>2 DEF BoxInserts, OnTickets, AtHand
            <3> QED BY <1>1, <2>1, <2>2, <3>1 DEF BoxInserts, BoxTypeOK
        <2>3. CASE UNCHANGED refunds
            BY <2>1, <2>3
        <2> QED BY <1>3, <2>2, <2>3 DEF BoxBegins, BoxMove, BoxEnds, BoxReads, BoxRefunds, BoxFrees, BoxDebits,
                                        BoxScans, BoxMarks, KeepsMoney
    <1>9. OnTickets(g)'
        BY <1>1, <1>3, <1>5, DueBoxOn
    <1>10. ASSUME NEW d \in PartnerCalls PROVE OnTickets(box[d])'
        <2>1. PICK h : h = box'[d]
            OBVIOUS
        <2>2. OnTickets(h)'
            <3>1. CASE d = b
                BY <1>4, <1>9, <2>1, <3>1
            <3>2. CASE d # b
                <4>1. OnTickets(h)
                    BY <1>4, <2>1, <3>2 DEF DueInv
                <4> QED BY <1>7, <4>1 DEF OnTickets, AtHand
            <3> QED BY <3>1, <3>2
        <2> QED BY <2>1, <2>2
    <1>11. k # IdleBox \/ BoxBegins(b, k, g) \/ (k = IdleBox /\ UNCHANGED <<ticket, refunds>> /\ g = IdleBox)
        <2>1. IdleBox.pc = "idle"
            BY RowWith
        <2> QED BY <1>3, <2>1 DEF BoxMove, BoxEnds, BoxReads, BoxRefunds, BoxFrees, BoxDebits, BoxInserts,
                                  BoxScans, BoxMarks, KeepsTickets, KeepsMoney
    <1>12. CASE k # IdleBox \/ BoxBegins(b, k, g)
        <2> SUFFICES ASSUME ~overlapped'
                     PROVE  /\ \A c, d \in PartnerCalls : c # d => box'[c] = IdleBox \/ box'[d] = IdleBox
                            /\ DueOnce(IdleBox)' /\ \A d \in PartnerCalls : DueOnce(box[d])'
            BY <1>1, <1>7, <1>8, <1>10 DEF DueInv
        <2>1. ~overlapped /\ \A d \in PartnerCalls \ {b} : box'[d] = IdleBox
            BY <1>3, <1>12, DueAlone
        <2>2. DueOnce(k)
            BY <1>3, <2>1 DEF DueInv
        <2>3. DueOnce(g)'
            BY <1>1, <1>3, <1>5, <2>2, DueBoxStays
        <2>4. DueOnce(IdleBox)'
            <3> SUFFICES ASSUME NEW o \in Orders, NEW s \in Seats, ticket'[o][s] # "none"
                         PROVE  refunds'[s] + Due(IdleBox, o, s)' <= revenue[o] + 1
                BY <1>1 DEF DueOnce, TicketsOf
            <3>1. refunds'[s] + Due(g, o, s)' <= revenue[o] + 1
                BY <1>1, <2>3 DEF DueOnce, TicketsOf
            <3>2. Due(IdleBox, o, s)' <= Due(g, o, s)'
                BY IdleDue, RowWith DEF Due, ToCome, AtHand
            <3>3. refunds'[s] \in Nat /\ revenue[o] \in Nat
                BY <1>1 DEF TypeOK, BoxTypeOK
            <3>4. Due(IdleBox, o, s)' \in {0, 1, 2} /\ Due(g, o, s)' \in {0, 1, 2}
                BY DueBounds
            <3> QED BY <3>1, <3>2, <3>3, <3>4
        <2>5. ASSUME NEW d \in PartnerCalls PROVE DueOnce(box[d])'
            <3>1. PICK h : h = box'[d]
                OBVIOUS
            <3>2. h = g \/ h = IdleBox
                BY <1>4, <2>1, <3>1
            <3>3. DueOnce(h)'
                BY <2>3, <2>4, <3>2
            <3> QED BY <3>1, <3>3
        <2> QED BY <2>1, <2>4, <2>5
    <1>13. CASE k = IdleBox /\ UNCHANGED <<ticket, refunds>> /\ g = IdleBox /\ ~BoxBegins(b, k, g)
        <2>1. UNCHANGED <<ticket, refunds, revenue, box, overlapped>>
            BY <1>1, <1>3, <1>13 DEF BoxMove, BoxTypeOK
        <2> QED BY <1>1, <1>7, <2>1 DEF DueInv, DueOnce, OnTickets, Due, AtHand, ToCome, TicketsOf, Ticketed
    <1> QED BY <1>11, <1>12, <1>13

LEMMA DueStep == DueInv /\ [BoxNext]_allVars => DueInv'
    <1> SUFFICES ASSUME DueInv, [BoxNext]_allVars PROVE DueInv'
        OBVIOUS
    <1>1. CASE UNCHANGED allVars
        <2>1. UNCHANGED vars /\ UNCHANGED boxVars
            BY <1>1 DEF allVars
        <2> QED BY <2>1, DueSaleStep
    <1>2. CASE Next /\ UNCHANGED boxVars
        BY <1>2, DueSaleStep
    <1> QED BY <1>1, <1>2, DueBoxStep DEF BoxNext

LEMMA DueHolds == DueInv => OneUnearnedRefund
    <1> SUFFICES ASSUME DueInv, ~overlapped, NEW o \in Orders, NEW s \in TicketsOf(o)
                 PROVE  refunds[s] <= revenue[o] + 1
        BY DEF OneUnearnedRefund
    <1>1. refunds[s] + Due(IdleBox, o, s) <= revenue[o] + 1
        BY DEF DueInv, DueOnce
    <1>2. refunds[s] \in Nat /\ revenue[o] \in Nat
        BY DEF DueInv, TypeOK, BoxTypeOK, TicketsOf
    <1> QED BY <1>1, <1>2, DueBounds

(* Every refund stands for money that left the wallet, whatever overlaps and  *)
(* crashes; with one staff call at a time a sale is refunded at most once     *)
(* more than it was earned.                                                  *)
THEOREM RefundsAreAccounted == BoxSpec => []RefundsAccounted
    <1>1. BoxInit => CoveredInv /\ DueInv
        BY CoveredInit, DueInit
    <1>2. CoveredInv /\ DueInv /\ [BoxNext]_allVars => (CoveredInv /\ DueInv)'
        BY CoveredStep, DueStep
    <1>3. CoveredInv /\ DueInv => RefundsAccounted
        BY CoveredHolds, DueHolds DEF RefundsAccounted
    <1> QED BY <1>1, <1>2, <1>3, PTL DEF BoxSpec
=============================================================================
