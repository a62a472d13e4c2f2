---------------------------- MODULE DeliveryProofs ----------------------------
(***************************************************************************)
(* Proofs about what reaches the users, for any users, sizes and bounds.   *)
(***************************************************************************)
EXTENDS Delivery, Sequences, FiniteSetTheorems, WellFoundedInduction, TLAPS

-----------------------------------------------------------------------------
(***************************************************************************)
(* Sets of numbers.                                                        *)
(***************************************************************************)
LEMMA Smallest ==
    ASSUME NEW S \in SUBSET Nat, S # {}
    PROVE  \E x \in S : \A y \in S : x <= y
    <1>1. \E x \in S : \A y \in S : ~(<<y, x>> \in OpToRel(<, Nat))
        BY NatLessThanWellFounded, WFMin
    <1>2. PICK x \in S : \A y \in S : ~(<<y, x>> \in OpToRel(<, Nat))
        BY <1>1
    <1>3. \A y \in S : ~(y < x)
        BY <1>2, Zenon DEF OpToRel
    <1> QED BY <1>3

LEMMA Largest ==
    ASSUME NEW S \in SUBSET Nat, S # {}, NEW m \in Nat, \A y \in S : y <= m
    PROVE  \E x \in S : \A y \in S : x >= y
    <1> DEFINE B == {k \in Nat : \A y \in S : y <= k}
    <1>1. PICK k \in B : \A l \in B : k <= l
        BY Smallest
    <1>2. CASE k \in S
        BY <1>1, <1>2
    <1>3. CASE k \notin S
        <2>0. PICK y \in S : TRUE
            OBVIOUS
        <2>1. k \in Nat /\ k # 0
            BY <1>1, <1>3, <2>0
        <2>2. \A z \in S : z <= k - 1
            BY <1>1, <1>3, <2>1
        <2> QED BY <1>1, <2>1, <2>2
    <1> QED BY <1>2, <1>3

(* The first n of a set: those with fewer than n below them.               *)
Below(S, u) == {v \in S : v < u}
First(S, n) == {u \in S : Cardinality(Below(S, u)) < n}

LEMMA FirstFew ==
    ASSUME NEW m \in Nat, NEW S, \A x \in S : x \in Nat /\ x <= m, NEW n \in Nat
    PROVE  /\ First(S, n) \subseteq S
           /\ \A u \in First(S, n) : \A v \in S : v < u => v \in First(S, n)
           /\ S # {} /\ n > 0 => First(S, n) # {}
           /\ IsFiniteSet(First(S, n)) /\ Cardinality(First(S, n)) <= n
    <1>a. S \in SUBSET Nat
        OBVIOUS
    <1>0. \A u : Below(S, u) \in SUBSET S
        BY DEF Below
    <1>1. IsFiniteSet(S)
        BY <1>a, FS_BoundedSetOfNaturals
    <1>2. \A u \in S : IsFiniteSet(Below(S, u)) /\ Cardinality(Below(S, u)) \in Nat
        BY <1>0, <1>1, FS_Subset, FS_CardinalityType
    <1>3. ASSUME NEW u \in First(S, n), NEW v \in S, v < u PROVE v \in First(S, n)
        <2>1. u \in S /\ Cardinality(Below(S, u)) < n
            BY DEF First
        <2>2. Below(S, v) \in SUBSET Below(S, u)
            BY <2>1, <1>3 DEF Below
        <2>3. Cardinality(Below(S, v)) <= Cardinality(Below(S, u))
            BY <2>1, <2>2, <1>2, FS_Subset
        <2> QED BY <2>1, <2>3, <1>2 DEF First
    <1>4. ASSUME S # {}, n > 0 PROVE First(S, n) # {}
        <2>1. PICK x \in S : \A y \in S : x <= y
            BY <1>a, <1>4, Smallest
        <2>2. Below(S, x) = {}
            BY <2>1 DEF Below
        <2>3. Cardinality(Below(S, x)) = 0
            BY <2>2, FS_EmptySet
        <2> QED BY <2>1, <2>3, <1>4 DEF First
    <1>5. First(S, n) \in SUBSET S
        BY DEF First
    <1>6. IsFiniteSet(First(S, n)) /\ Cardinality(First(S, n)) \in Nat
        BY <1>1, <1>5, FS_Subset, FS_CardinalityType
    <1>7. Cardinality(First(S, n)) <= n
        <2>1. CASE First(S, n) = {}
            BY <2>1, FS_EmptySet
        <2>2. CASE First(S, n) # {}
            <3>0. \A y \in First(S, n) : y <= m
                BY <1>a, <1>5
            <3>1. PICK x \in First(S, n) : \A y \in First(S, n) : x >= y
                BY <2>2, <1>a, <1>5, <3>0, Largest
            <3>2. First(S, n) \ {x} \in SUBSET Below(S, x)
                BY <3>1, <1>5 DEF Below
            <3>3. Cardinality(First(S, n) \ {x}) <= Cardinality(Below(S, x))
                BY <3>1, <3>2, <1>2, <1>5, FS_Subset
            <3>4. Cardinality(First(S, n) \ {x}) = Cardinality(First(S, n)) - 1
                BY <3>1, <1>6, FS_RemoveElement
            <3>5. Cardinality(Below(S, x)) < n
                BY <3>1 DEF First
            <3>6. Cardinality(Below(S, x)) \in Nat
                BY <1>2, <1>5, <3>1
            <3> QED BY <3>3, <3>4, <3>5, <3>6, <1>6
        <2> QED BY <2>1, <2>2
    <1> QED BY <1>3, <1>4, <1>5, <1>6, <1>7

-----------------------------------------------------------------------------
(***************************************************************************)
(* Scheduled e-mails.                                                      *)
(***************************************************************************)
\* The instances bring their own names for the library's operators.
LEMMA ScheduleCardinality ==
    ASSUME NEW S
    PROVE  Schedule!Cardinality(S) = Cardinality(S)
    BY DEF Schedule!Cardinality, Cardinality

Ids == Schedule!Ids
Current == Schedule!Current
ScheduledRow == [status : {"none", "PENDING", "SENT", "FAILED"}, due : BOOLEAN]
Requests ==
    [at : {"idle"}] \cup [at : {"campaign"}, left : Nat, success : Nat, failure : Nat]
    \cup [at : {"answered"}, kind : {"user", "campaign"}, status : {200, 500}]
    \cup [at : {"answered"}, kind : {"campaign"}, status : {200}, success : Nat, failure : Nat]
Batches == {B \in SUBSET Ids : B # {} /\ IsFiniteSet(B) /\ Cardinality(B) <= Batch}
Ticks == {Schedule!NoTick} \cup [at : {"send", "sent", "failed"}, batch : Batches]

ScheduleType ==
    /\ scheduled \in [Ids -> ScheduledRow]
    /\ requests \in Requests
    /\ requests.at = "campaign" => requests.success + requests.failure + requests.left = Campaign
    /\ tick \in Ticks
    /\ delivered \in [Ids -> Nat]
    /\ lost \in 0 .. MaxLost

(* The rows of the batch are due, those after the current one are pending, *)
(* and so is the current one unless setting SENT took effect although it   *)
(* threw; a row that is pending was not delivered more often than replies  *)
(* were lost, but for the one that was sent right now.                     *)
JustSent(i) == tick.at = "sent" /\ i = Current
BatchInv ==
    tick.at # "idle" =>
        /\ \A i \in tick.batch : scheduled[i].due
        /\ \A i \in tick.batch \ {Current} : scheduled[i].status = "PENDING"
        /\ scheduled[Current].status \in {"PENDING", "SENT"}
        /\ tick.at # "failed" => scheduled[Current].status = "PENDING"
        /\ tick.at = "sent" => delivered[Current] >= 1
CopiesInv ==
    \A i \in Ids :
        /\ scheduled[i].status = "none" => delivered[i] = 0 /\ ~scheduled[i].due
        /\ delivered[i] > 0 => scheduled[i].due
        /\ scheduled[i].status = "SENT" => delivered[i] >= 1
        /\ delivered[i] <= 1 + lost
        /\ scheduled[i].status = "PENDING" /\ ~JustSent(i) => delivered[i] <= lost
ScheduleInv == ScheduleType /\ BatchInv /\ CopiesInv

LEMMA CurrentInBatch ==
    ASSUME ScheduleAssumption, ScheduleType, tick.at # "idle"
    PROVE  /\ tick.batch \in Batches /\ tick.at \in {"send", "sent", "failed"}
           /\ Current \in tick.batch /\ Current \in Ids
           /\ tick = [at |-> tick.at, batch |-> tick.batch]
    <1>1. tick \in [at : {"send", "sent", "failed"}, batch : Batches]
        BY DEF ScheduleType, Ticks, Schedule!NoTick
    <1>2. \A i \in tick.batch : i \in Nat
        BY <1>1 DEF Batches, Ids, Schedule!Ids
    <1>3. \E x \in tick.batch : \A y \in tick.batch : x <= y
        BY <1>1, <1>2, Smallest DEF Batches
    <1>4. Schedule!Min(tick.batch) \in tick.batch
        BY <1>3 DEF Schedule!Min
    <1> QED BY <1>1, <1>4 DEF Batches, Current, Schedule!Current

LEMMA FreshRow ==
    ASSUME ScheduleAssumption, Schedule!HasRoom
    PROVE  Schedule!FreshId \in Ids /\ scheduled[Schedule!FreshId] = Schedule!NoRow
    <1> DEFINE F == {i \in Ids : scheduled[i] = Schedule!NoRow}
    <1>1. F # {} /\ F \in SUBSET Nat
        BY DEF Schedule!HasRoom, Ids, Schedule!Ids
    <1>2. PICK x \in F : \A y \in F : x <= y
        BY <1>1, Smallest
    <1>3. \A j \in 1 .. x - 1 : j \in Ids /\ j < x
        BY ScheduleAssumption DEF Ids, Schedule!Ids, Schedule!ScheduledEmailsAssumption
    <1>4. \A j \in 1 .. x - 1 : scheduled[j] # Schedule!NoRow
        BY <1>2, <1>3 DEF Ids, Schedule!Ids
    <1>5. \E i \in Ids : scheduled[i] = Schedule!NoRow
                           /\ \A j \in 1 .. i - 1 : scheduled[j] # Schedule!NoRow
        BY <1>2, <1>4
    <1> QED BY <1>5 DEF Schedule!FreshId, Ids

LEMMA TakenIsBatch ==
    ASSUME ScheduleAssumption, Schedule!Taken # {}
    PROVE  Schedule!Taken \in Batches /\ \A i \in Schedule!Taken : Schedule!Pending(i)
    <1> DEFINE P == {i \in Ids : Schedule!Pending(i)}
    <1>1. Batch \in Nat /\ MaxScheduled \in Nat
        BY ScheduleAssumption DEF Schedule!ScheduledEmailsAssumption
    <1>2. \A i \in P : i \in Nat /\ i <= MaxScheduled
        BY <1>1 DEF Ids, Schedule!Ids
    <1>3. Schedule!Taken = First(P, Batch)
        BY ScheduleCardinality DEF Schedule!Taken, Schedule!Oldest, First, Below, Ids
    <1> HIDE DEF P
    <1>4. /\ First(P, Batch) \subseteq P /\ IsFiniteSet(First(P, Batch))
          /\ Cardinality(First(P, Batch)) <= Batch
        BY <1>1, <1>2, FirstFew
    <1> QED BY <1>3, <1>4 DEF P, Batches

LEMMA InitScheduleInv ==
    ASSUME ScheduleAssumption, Schedule!Init
    PROVE  ScheduleInv
    BY DEF Schedule!Init, ScheduleInv, ScheduleType, BatchInv, CopiesInv, JustSent,
           Ids, ScheduledRow, Requests, Ticks, Schedule!NoRow, Schedule!NoTick,
           Schedule!ScheduledEmailsAssumption

(* A row is written.                                                       *)
LEMMA StoredRow ==
    ASSUME ScheduleAssumption, ScheduleInv, UNCHANGED <<tick, delivered, lost>>,
           Schedule!HasRoom, NEW due \in BOOLEAN, Schedule!Stored(due)
    PROVE  /\ scheduled' \in [Ids -> ScheduledRow]
           /\ BatchInv' /\ CopiesInv'
    <1> DEFINE f == Schedule!FreshId
    <1>1. f \in Ids /\ scheduled[f] = Schedule!NoRow
        BY FreshRow
    <1>2. scheduled' = [scheduled EXCEPT ![f] = [status |-> "PENDING", due |-> due]]
        BY DEF Schedule!Stored
    <1>3. Current' = Current /\ (\A i : JustSent(i)' <=> JustSent(i))
        BY DEF JustSent, Current, Schedule!Current
    <1> HIDE DEF f
    <1>4. scheduled \in [Ids -> ScheduledRow] /\ lost \in Nat
        BY DEF ScheduleInv, ScheduleType
    <1>5. scheduled' \in [Ids -> ScheduledRow]
        BY <1>1, <1>2, <1>4 DEF ScheduledRow
    <1>6. BatchInv'
        <2>1. CASE tick.at = "idle"
            BY <2>1 DEF BatchInv
        <2>2. CASE tick.at # "idle"
            <3>1. tick.batch \subseteq Ids /\ Current \in tick.batch
                BY <2>2, CurrentInBatch DEF ScheduleInv, Batches
            <3>2. f \notin tick.batch
                BY <1>1, <2>2, <3>1 DEF ScheduleInv, BatchInv, Schedule!NoRow
            <3>3. \A i \in tick.batch : scheduled'[i] = scheduled[i]
                BY <1>2, <1>4, <3>1, <3>2
            <3> QED BY <1>3, <2>2, <3>1, <3>3 DEF ScheduleInv, BatchInv
        <2> QED BY <2>1, <2>2
    <1>7. CopiesInv'
        <2> SUFFICES ASSUME NEW i \in Ids
                     PROVE  /\ scheduled'[i].status = "none" => delivered[i] = 0 /\ ~scheduled'[i].due
                            /\ delivered[i] > 0 => scheduled'[i].due
                            /\ scheduled'[i].status = "SENT" => delivered[i] >= 1
                            /\ delivered[i] <= 1 + lost
                            /\ scheduled'[i].status = "PENDING" /\ ~JustSent(i) => delivered[i] <= lost
            BY <1>3 DEF CopiesInv
        <2>1. CASE i = f
            BY <1>1, <1>2, <1>4, <2>1 DEF ScheduleInv, CopiesInv, Schedule!NoRow
        <2>2. CASE i # f
            BY <1>2, <1>4, <2>2 DEF ScheduleInv, CopiesInv
        <2> QED BY <2>1, <2>2
    <1> QED BY <1>5, <1>6, <1>7

LEMMA RowsStay ==
    ASSUME ScheduleInv, UNCHANGED <<scheduled, tick, delivered, lost>>
    PROVE  BatchInv' /\ CopiesInv'
    <1>1. Current' = Current /\ (\A i : JustSent(i)' <=> JustSent(i))
        BY DEF JustSent, Current, Schedule!Current
    <1> QED BY <1>1 DEF ScheduleInv, BatchInv, CopiesInv

LEMMA NextRequests ==
    ASSUME ScheduleAssumption, ScheduleInv,
           \/ \E due \in BOOLEAN : Schedule!ScheduleEmail(due)
           \/ Schedule!StartCampaign \/ Schedule!ScheduleNext
           \/ Schedule!AnswerCampaign \/ Schedule!NextRequest
    PROVE  ScheduleInv'
    <1> USE DEF ScheduleInv
    <1>1. ASSUME NEW due \in BOOLEAN, Schedule!ScheduleEmail(due) PROVE ScheduleInv'
        <2>1. CASE EmptyTemplate
            BY <1>1, <2>1, StoredRow DEF ScheduleType, Schedule!ScheduleEmail
        <2>2. CASE ~EmptyTemplate
            <3>1. requests' \in Requests /\ requests'.at # "campaign"
                BY <1>1, <2>2 DEF Schedule!ScheduleEmail, Requests
            <3> QED BY <1>1, <2>2, <3>1, RowsStay DEF ScheduleType, Schedule!ScheduleEmail
        <2> QED BY <2>1, <2>2
    <1>2. ASSUME Schedule!StartCampaign PROVE ScheduleInv'
        <2>1. requests' \in Requests
              /\ requests'.success + requests'.failure + requests'.left = Campaign
            BY <1>2, ScheduleAssumption
            DEF Schedule!StartCampaign, Requests, Schedule!ScheduledEmailsAssumption
        <2> QED BY <1>2, <2>1, RowsStay DEF ScheduleType, Schedule!StartCampaign
    <1>3. ASSUME Schedule!ScheduleNext PROVE ScheduleInv'
        <2>1. requests \in [at : {"campaign"}, left : Nat, success : Nat, failure : Nat]
              /\ requests.left > 0 /\ requests.at = "campaign"
            BY <1>3 DEF Schedule!ScheduleNext, ScheduleType, Requests
        <2>2. ASSUME NEW stored \in BOOLEAN, requests' = Schedule!Counted(stored)
              PROVE  /\ requests' \in Requests /\ requests'.at = "campaign"
                     /\ requests'.success + requests'.failure + requests'.left = Campaign
            <3>1. /\ requests.left \in Nat /\ requests.success \in Nat /\ requests.failure \in Nat
                  /\ requests.success + requests.failure + requests.left = Campaign
                BY <2>1 DEF ScheduleType
            <3>2. /\ requests' = [at |-> "campaign", left |-> requests.left - 1,
                                  success |-> requests'.success, failure |-> requests'.failure]
                  /\ requests'.success = IF stored THEN requests.success + 1 ELSE requests.success
                  /\ requests'.failure = IF stored THEN requests.failure ELSE requests.failure + 1
                BY <2>1, <2>2 DEF Schedule!Counted
            <3>3. /\ requests'.at = "campaign" /\ requests'.left = requests.left - 1
                  /\ requests'.left \in Nat /\ requests'.success \in Nat /\ requests'.failure \in Nat
                BY <3>1, <3>2, <2>1
            <3>4. requests' \in [at : {"campaign"}, left : Nat, success : Nat, failure : Nat]
                BY <3>2, <3>3
            <3> QED BY <3>1, <3>2, <3>3, <3>4 DEF Requests
        <2>3. CASE EmptyTemplate /\ Schedule!HasRoom /\ Schedule!Stored(TRUE)
                   /\ requests' = Schedule!Counted(TRUE)
            BY <1>3, <2>2, <2>3, StoredRow DEF ScheduleType, Schedule!ScheduleNext
        <2>4. CASE UNCHANGED scheduled /\ requests' = Schedule!Counted(FALSE)
            BY <1>3, <2>2, <2>4, RowsStay DEF ScheduleType, Schedule!ScheduleNext
        <2> QED BY <1>3, <2>3, <2>4 DEF Schedule!ScheduleNext
    <1>4. ASSUME Schedule!AnswerCampaign PROVE ScheduleInv'
        <2>1. requests' \in Requests /\ requests'.at # "campaign"
            BY <1>4 DEF Schedule!AnswerCampaign, Requests, ScheduleType
        <2> QED BY <1>4, <2>1, RowsStay DEF ScheduleType, Schedule!AnswerCampaign
    <1>5. ASSUME Schedule!NextRequest PROVE ScheduleInv'
        <2>1. requests' \in Requests /\ requests'.at # "campaign"
            BY <1>5 DEF Schedule!NextRequest, Requests
        <2> QED BY <1>5, <2>1, RowsStay DEF ScheduleType, Schedule!NextRequest
    <1> QED BY <1>1, <1>2, <1>3, <1>4, <1>5

LEMMA OldestInBatch ==
    ASSUME NEW B \in Batches
    PROVE  Schedule!Min(B) \in B
    <1>1. \A i \in B : i \in Nat
        BY DEF Batches, Ids, Schedule!Ids
    <1>2. \E x \in B : \A y \in B : x <= y
        BY <1>1, Smallest DEF Batches
    <1> QED BY <1>2 DEF Schedule!Min

LEMMA NextDue ==
    ASSUME ScheduleAssumption, ScheduleInv, NEW i \in Ids, Schedule!Due(i)
    PROVE  ScheduleInv'
    <1>1. /\ scheduled \in [Ids -> ScheduledRow] /\ delivered \in [Ids -> Nat] /\ lost \in Nat
          /\ scheduled[i].status = "PENDING" /\ ~scheduled[i].due
          /\ scheduled' = [scheduled EXCEPT ![i].due = TRUE]
          /\ UNCHANGED <<requests, tick, delivered, lost>>
        BY DEF ScheduleInv, ScheduleType, Schedule!Due
    <1>2. /\ scheduled' \in [Ids -> ScheduledRow]
          /\ scheduled'[i].status = "PENDING" /\ scheduled'[i].due
          /\ \A j \in Ids \ {i} : scheduled'[j] = scheduled[j]
        BY <1>1 DEF ScheduledRow
    <1>3. Current' = Current /\ (\A j : JustSent(j)' <=> JustSent(j))
        BY <1>1 DEF JustSent, Current, Schedule!Current
    <1>4. ScheduleType'
        BY <1>1, <1>2 DEF ScheduleInv, ScheduleType
    <1>5. BatchInv'
        <2>1. CASE tick.at = "idle"
            BY <1>1, <2>1 DEF BatchInv
        <2>2. CASE tick.at # "idle"
            <3>1. tick.batch \subseteq Ids /\ Current \in tick.batch
                BY <2>2, CurrentInBatch DEF ScheduleInv, Batches
            <3>2. \A j \in tick.batch : scheduled'[j] = scheduled[j]
                BY <1>1, <1>2, <2>2, <3>1 DEF ScheduleInv, BatchInv
            <3> QED BY <1>1, <1>3, <2>2, <3>1, <3>2 DEF ScheduleInv, BatchInv
        <2> QED BY <2>1, <2>2
    <1>6. CopiesInv'
        <2> SUFFICES ASSUME NEW j \in Ids
                     PROVE  /\ scheduled'[j].status = "none" => delivered[j] = 0 /\ ~scheduled'[j].due
                            /\ delivered[j] > 0 => scheduled'[j].due
                            /\ scheduled'[j].status = "SENT" => delivered[j] >= 1
                            /\ delivered[j] <= 1 + lost
                            /\ scheduled'[j].status = "PENDING" /\ ~JustSent(j) => delivered[j] <= lost
            BY <1>1, <1>3 DEF CopiesInv
        <2>1. CASE j = i
            BY <1>1, <1>2, <2>1 DEF ScheduleInv, CopiesInv
        <2>2. CASE j # i
            BY <1>2, <2>2 DEF ScheduleInv, CopiesInv
        <2> QED BY <2>1, <2>2
    <1> QED BY <1>4, <1>5, <1>6 DEF ScheduleInv

LEMMA NextStartTick ==
    ASSUME ScheduleAssumption, ScheduleInv, Schedule!StartTick
    PROVE  ScheduleInv'
    <1>1. /\ tick' = [at |-> "send", batch |-> Schedule!Taken] /\ tick.at = "idle"
          /\ UNCHANGED <<scheduled, requests, delivered, lost>>
        BY DEF Schedule!StartTick, Schedule!NoTick
    <1>2. Schedule!Taken \in Batches /\ \A i \in Schedule!Taken : Schedule!Pending(i)
        BY TakenIsBatch DEF Schedule!StartTick
    <1> DEFINE B == Schedule!Taken
    <1> HIDE DEF B
    <1>3. /\ B \in Batches /\ tick'.batch = B /\ tick'.at = "send"
          /\ tick' = [at |-> "send", batch |-> B]
          /\ \A i \in B : scheduled'[i].status = "PENDING" /\ scheduled'[i].due
        BY <1>1, <1>2 DEF B, Schedule!Pending
    <1>4. Current' \in B
        BY <1>3, OldestInBatch DEF Current, Schedule!Current
    <1>5. ScheduleType'
        BY <1>1, <1>3 DEF ScheduleInv, ScheduleType, Ticks
    <1>6. BatchInv'
        BY <1>3, <1>4 DEF BatchInv
    <1>7. \A i : ~JustSent(i) /\ ~JustSent(i)'
        BY <1>1, <1>3 DEF JustSent
    <1>8. CopiesInv'
        BY <1>1, <1>7 DEF ScheduleInv, CopiesInv
    <1> QED BY <1>5, <1>6, <1>8 DEF ScheduleInv

LEMMA NextSendCurrent ==
    ASSUME ScheduleAssumption, ScheduleInv, Schedule!SendCurrent
    PROVE  ScheduleInv'
    <1>1. /\ tick.at = "send" /\ tick.batch \in Batches
          /\ Current \in tick.batch /\ Current \in Ids
          /\ tick = [at |-> "send", batch |-> tick.batch]
          /\ UNCHANGED <<scheduled, requests>>
        BY CurrentInBatch DEF Schedule!SendCurrent, ScheduleInv
    <1>2. scheduled[Current].status = "PENDING" /\ scheduled[Current].due
        BY <1>1 DEF ScheduleInv, BatchInv
    <1>3. delivered \in [Ids -> Nat] /\ lost \in 0 .. MaxLost /\ lost \in Nat /\ MaxLost \in Nat
        BY ScheduleAssumption DEF ScheduleInv, ScheduleType, Schedule!ScheduledEmailsAssumption
    <1>4. delivered[Current] <= lost
        BY <1>1, <1>2 DEF ScheduleInv, CopiesInv, JustSent
    <1>5. PICK at \in {"sent", "failed"} :
              /\ tick' = [tick EXCEPT !.at = at]
              /\ \/ /\ delivered' = [delivered EXCEPT ![Current] = @ + 1]
                    /\ lost' = IF at = "sent" THEN lost ELSE lost + 1
                    /\ lost' \in 0 .. MaxLost
                 \/ at = "failed" /\ UNCHANGED <<delivered, lost>>
        BY <1>3 DEF Schedule!SendCurrent, Schedule!At, Schedule!Deliver, Schedule!Fault, Current
    <1>6. tick' = [at |-> at, batch |-> tick.batch] /\ tick'.at = at /\ tick'.batch = tick.batch
        BY <1>1, <1>5
    <1>7. Current' = Current
        BY <1>6 DEF Current, Schedule!Current
    <1>8. /\ delivered' \in [Ids -> Nat] /\ lost' \in Nat /\ lost <= lost'
          /\ \A i \in Ids \ {Current} : delivered'[i] = delivered[i]
          /\ delivered'[Current] \in {delivered[Current], delivered[Current] + 1}
          /\ at = "sent" => delivered'[Current] = delivered[Current] + 1 /\ lost' = lost
          /\ at = "failed" => delivered'[Current] <= lost'
        BY <1>1, <1>3, <1>4, <1>5
    <1>9. ScheduleType'
        BY <1>1, <1>3, <1>5, <1>6, <1>8 DEF ScheduleInv, ScheduleType, Ticks
    <1>10. BatchInv'
        BY <1>1, <1>2, <1>3, <1>6, <1>7, <1>8 DEF ScheduleInv, BatchInv
    <1>11. CopiesInv'
        <2> SUFFICES ASSUME NEW i \in Ids
                     PROVE  /\ scheduled[i].status = "none" => delivered'[i] = 0 /\ ~scheduled[i].due
                            /\ delivered'[i] > 0 => scheduled[i].due
                            /\ scheduled[i].status = "SENT" => delivered'[i] >= 1
                            /\ delivered'[i] <= 1 + lost'
                            /\ scheduled[i].status = "PENDING" /\ ~JustSent(i)' => delivered'[i] <= lost'
            BY <1>1 DEF CopiesInv
        <2>1. CASE i = Current
            BY <1>1, <1>2, <1>3, <1>4, <1>6, <1>7, <1>8, <2>1 DEF JustSent
        <2>2. CASE i # Current
            <3>1. /\ delivered'[i] = delivered[i] /\ delivered[i] \in Nat /\ ~JustSent(i) /\ ~JustSent(i)'
                  /\ lost \in Nat /\ lost' \in Nat /\ lost <= lost'
                BY <1>3, <1>7, <1>8, <2>2 DEF JustSent
            <3> QED BY <3>1 DEF ScheduleInv, CopiesInv
        <2> QED BY <2>1, <2>2
    <1> QED BY <1>9, <1>10, <1>11 DEF ScheduleInv

(* The current row is settled, or the run ends: those after it are pending. *)
LEMMA RestIsPending ==
    ASSUME ScheduleAssumption, ScheduleInv, tick.at # "idle",
           Schedule!Onward \/ tick' = Schedule!NoTick,
           scheduled' \in [Ids -> ScheduledRow],
           \A i \in Ids \ {Current} : scheduled'[i] = scheduled[i]
    PROVE  tick' \in Ticks /\ BatchInv' /\ \A i : ~JustSent(i)'
    <1> DEFINE B == tick.batch \ {Current}
    <1>1. tick.batch \in Batches /\ Current \in tick.batch
        BY CurrentInBatch DEF ScheduleInv
    <1>2. CASE tick' = Schedule!NoTick
        BY <1>2 DEF Schedule!NoTick, Ticks, BatchInv, JustSent
    <1>3. CASE tick' # Schedule!NoTick
        <2>1. tick' = [at |-> "send", batch |-> B] /\ tick.batch # {Current}
            BY <1>3 DEF Schedule!Onward, Current
        <2>2. B \in Batches
            <3>1. B \in SUBSET tick.batch /\ B # {}
                BY <1>1, <2>1
            <3>2. IsFiniteSet(B) /\ Cardinality(B) <= Cardinality(tick.batch)
                BY <1>1, <3>1, FS_Subset DEF Batches
            <3>3. Cardinality(B) \in Nat /\ Cardinality(tick.batch) \in Nat /\ Batch \in Nat
                BY <1>1, <3>2, FS_CardinalityType, ScheduleAssumption
                DEF Batches, Schedule!ScheduledEmailsAssumption
            <3>4. Cardinality(B) <= Batch
                BY <1>1, <3>2, <3>3 DEF Batches
            <3> QED BY <1>1, <3>1, <3>2, <3>4 DEF Batches
        <2>3. /\ tick'.at = "send" /\ tick'.batch = B /\ tick' \in Ticks
              /\ \A i : ~JustSent(i)'
            BY <2>1, <2>2 DEF Ticks, JustSent
        <2>4. Current' \in B
            BY <2>2, <2>3, OldestInBatch DEF Current, Schedule!Current
        <2>5. \A i \in B : i \in Ids /\ i # Current /\ i \in tick.batch
            BY <1>1 DEF Batches
        <2>6. \A i \in B : scheduled'[i].status = "PENDING" /\ scheduled'[i].due
            BY <2>5 DEF ScheduleInv, BatchInv
        <2>7. BatchInv'
            BY <2>3, <2>4, <2>6 DEF BatchInv
        <2> QED BY <2>3, <2>7
    <1> QED BY <1>2, <1>3

(* The row of a tick that runs.                                            *)
LEMMA CurrentRow ==
    ASSUME ScheduleAssumption, ScheduleInv, tick.at # "idle"
    PROVE  /\ Current \in Ids /\ scheduled[Current].due /\ scheduled[Current] \in ScheduledRow
           /\ scheduled[Current].status \in {"PENDING", "SENT"}
           /\ delivered[Current] \in Nat /\ lost \in Nat /\ MaxLost \in Nat /\ lost <= MaxLost
           /\ delivered[Current] <= 1 + lost
           /\ tick.at = "sent" => delivered[Current] >= 1 /\ scheduled[Current].status = "PENDING"
           /\ scheduled[Current].status = "SENT" => delivered[Current] >= 1
           /\ tick.at # "sent" /\ scheduled[Current].status = "PENDING" => delivered[Current] <= lost
    BY CurrentInBatch, ScheduleAssumption
    DEF ScheduleInv, ScheduleType, BatchInv, CopiesInv, JustSent, Schedule!ScheduledEmailsAssumption

LEMMA OtherCopies ==
    ASSUME ScheduleInv, UNCHANGED delivered, lost' \in Nat, lost <= lost', lost \in Nat,
           NEW i \in Ids, i # Current, scheduled'[i] = scheduled[i]
    PROVE  /\ scheduled'[i].status = "none" => delivered'[i] = 0 /\ ~scheduled'[i].due
           /\ delivered'[i] > 0 => scheduled'[i].due
           /\ scheduled'[i].status = "SENT" => delivered'[i] >= 1
           /\ delivered'[i] <= 1 + lost'
           /\ scheduled'[i].status = "PENDING" => delivered'[i] <= lost'
    <1>1. delivered[i] \in Nat /\ ~JustSent(i)
        BY DEF ScheduleInv, ScheduleType, JustSent
    <1> QED BY <1>1 DEF ScheduleInv, CopiesInv

LEMMA NextMarkSent ==
    ASSUME ScheduleAssumption, ScheduleInv, Schedule!MarkSent
    PROVE  ScheduleInv'
    <1>1. tick.at = "sent" /\ UNCHANGED <<requests, delivered>>
        BY DEF Schedule!MarkSent
    <1>2. scheduled \in [Ids -> ScheduledRow]
        BY DEF ScheduleInv, ScheduleType
    <1> DEFINE marked == [scheduled EXCEPT ![Current].status = "SENT"]
    <1>3. /\ marked \in [Ids -> ScheduledRow]
          /\ marked[Current].status = "SENT" /\ marked[Current].due = scheduled[Current].due
          /\ \A i \in Ids \ {Current} : marked[i] = scheduled[i]
        BY <1>1, <1>2, CurrentRow DEF ScheduledRow
    <1>4. CASE scheduled' = marked /\ Schedule!Onward /\ UNCHANGED lost
        <2> HIDE DEF marked
        <2>1. tick' \in Ticks /\ BatchInv' /\ \A i : ~JustSent(i)'
            BY <1>1, <1>3, <1>4, RestIsPending
        <2>2. ScheduleType'
            BY <1>1, <1>3, <1>4, <2>1 DEF ScheduleInv, ScheduleType
        <2>3. CopiesInv'
            BY <1>1, <1>3, <1>4, <2>1, CurrentRow, OtherCopies DEF CopiesInv
        <2> QED BY <2>1, <2>2, <2>3 DEF ScheduleInv
    <1>5. CASE Schedule!Fault /\ scheduled' \in {scheduled, marked} /\ Schedule!At("failed")
        <2> HIDE DEF marked
        <2>1. lost' = lost + 1 /\ lost' \in 0 .. MaxLost /\ lost' \in Nat /\ lost \in Nat /\ lost <= lost'
            BY <1>1, <1>5, CurrentRow DEF Schedule!Fault
        <2>2. /\ tick' = [at |-> "failed", batch |-> tick.batch]
              /\ tick'.at = "failed" /\ tick'.batch = tick.batch /\ tick' \in Ticks
            BY <1>1, <1>5, CurrentInBatch DEF Schedule!At, Ticks, ScheduleInv
        <2>3. Current' = Current /\ \A i : ~JustSent(i)'
            BY <2>2 DEF Current, Schedule!Current, JustSent
        <2>4. /\ scheduled' \in [Ids -> ScheduledRow]
              /\ \A i \in Ids \ {Current} : scheduled'[i] = scheduled[i]
              /\ scheduled'[Current].status \in {"PENDING", "SENT"} /\ scheduled'[Current].due
            BY <1>1, <1>2, <1>3, <1>5, CurrentRow
        <2>5. ScheduleType'
            BY <1>1, <2>1, <2>2, <2>4 DEF ScheduleInv, ScheduleType
        <2>6. tick.batch \subseteq Ids
            BY <1>1, CurrentInBatch DEF ScheduleInv, Batches
        <2>7. BatchInv'
            BY <1>1, <2>2, <2>3, <2>4, <2>6 DEF ScheduleInv, BatchInv
        <2>8. CopiesInv'
            BY <1>1, <2>1, <2>3, <2>4, CurrentRow, OtherCopies DEF CopiesInv
        <2> QED BY <2>5, <2>7, <2>8 DEF ScheduleInv
    <1> QED BY <1>4, <1>5 DEF Schedule!MarkSent, Current

LEMMA NextMarkFailed ==
    ASSUME ScheduleAssumption, ScheduleInv, Schedule!MarkFailed \/ Schedule!Stop
    PROVE  ScheduleInv'
    <1>1. tick.at # "idle" /\ UNCHANGED <<requests, delivered>>
        <2>1. tick.at = "idle" => tick = Schedule!NoTick
            BY DEF ScheduleInv, ScheduleType, Ticks, Schedule!NoTick
        <2> QED BY <2>1 DEF Schedule!MarkFailed, Schedule!Stop
    <1>2. scheduled \in [Ids -> ScheduledRow]
        BY DEF ScheduleInv, ScheduleType
    <1>3. CASE /\ tick.at = "failed" /\ Schedule!Onward /\ UNCHANGED lost
               /\ scheduled' = [scheduled EXCEPT ![Current].status = "FAILED"]
        <2>1. /\ scheduled' \in [Ids -> ScheduledRow]
              /\ scheduled'[Current].status = "FAILED" /\ scheduled'[Current].due
              /\ \A i \in Ids \ {Current} : scheduled'[i] = scheduled[i]
            BY <1>1, <1>2, <1>3, CurrentRow DEF ScheduledRow
        <2>2. tick' \in Ticks /\ BatchInv' /\ \A i : ~JustSent(i)'
            BY <1>1, <1>3, <2>1, RestIsPending
        <2>3. ScheduleType'
            BY <1>1, <1>3, <2>1, <2>2 DEF ScheduleInv, ScheduleType
        <2>4. CopiesInv'
            BY <1>1, <1>3, <2>1, <2>2, CurrentRow, OtherCopies DEF CopiesInv
        <2> QED BY <2>2, <2>3, <2>4 DEF ScheduleInv
    <1>4. CASE Schedule!Fault /\ UNCHANGED scheduled /\ tick' = Schedule!NoTick
        <2>1. lost' = lost + 1 /\ lost' \in 0 .. MaxLost /\ lost' \in Nat /\ lost \in Nat /\ lost <= lost'
            BY <1>1, <1>4, CurrentRow DEF Schedule!Fault
        <2>2. tick' \in Ticks /\ BatchInv' /\ \A i : ~JustSent(i)'
            BY <1>1, <1>2, <1>4, RestIsPending
        <2>3. ScheduleType'
            BY <1>1, <1>4, <2>1, <2>2 DEF ScheduleInv, ScheduleType
        <2>4. CopiesInv'
            BY <1>1, <1>4, <2>1, <2>2, CurrentRow, OtherCopies DEF CopiesInv
        <2> QED BY <2>2, <2>3, <2>4 DEF ScheduleInv
    <1> QED BY <1>3, <1>4 DEF Schedule!MarkFailed, Schedule!Stop, Current

LEMMA NextScheduleInv ==
    ASSUME ScheduleAssumption, ScheduleInv, [Schedule!Next]_Schedule!vars
    PROVE  ScheduleInv'
    <1>1. CASE UNCHANGED Schedule!vars
        BY <1>1, RowsStay DEF Schedule!vars, ScheduleInv, ScheduleType
    <1> QED BY <1>1, NextRequests, NextDue, NextStartTick, NextSendCurrent, NextMarkSent, NextMarkFailed
            DEF Schedule!Next, Schedule!TickStep, Ids

(* However the tick, the administrator's requests, lost replies and stops   *)
(* interleave: no scheduled e-mail is early, a row that says SENT was      *)
(* delivered, and is delivered again at most once per loss or stop.        *)
THEOREM ScheduledEmailsSentOnce == Schedule!Spec => []ScheduledOnce
    <1>1. ScheduleInv => ScheduledOnce
        <2> SUFFICES ASSUME ScheduleInv PROVE ScheduledOnce
            OBVIOUS
        <2>1. \A i \in Ids : delivered[i] \in 0 .. 1 + MaxLost
            BY ScheduleAssumption
            DEF ScheduleInv, ScheduleType, CopiesInv, Schedule!ScheduledEmailsAssumption
        <2>2. tick # Schedule!NoTick => /\ tick.batch \subseteq Ids /\ tick.batch # {}
                                        /\ Schedule!Cardinality(tick.batch) <= Batch
            BY ScheduleCardinality DEF ScheduleInv, ScheduleType, Ticks, Batches
        <2>3. tick.at \in {"idle", "send", "sent", "failed"}
            BY DEF ScheduleInv, ScheduleType, Ticks, Schedule!NoTick
        <2>4. requests.at \in {"idle", "campaign", "answered"}
            BY DEF ScheduleInv, ScheduleType, Requests
        <2>5. Schedule!TypeOK
            BY <2>1, <2>2, <2>3, <2>4
            DEF ScheduleInv, ScheduleType, ScheduledRow, Schedule!TypeOK, Ids
        <2>6. Schedule!NeverEarly /\ Schedule!SentWasDelivered
            BY DEF ScheduleInv, CopiesInv, Schedule!NeverEarly, Schedule!SentWasDelivered, Ids
        <2> QED BY <2>5, <2>6 DEF ScheduledOnce
    <1>2. ScheduleInv /\ [Schedule!Next]_Schedule!vars => ScheduleInv'
        BY ScheduleAssumption, NextScheduleInv
    <1>3. Schedule!Init => ScheduleInv
        BY ScheduleAssumption, InitScheduleInv
    <1> QED BY <1>1, <1>2, <1>3, PTL DEF Schedule!Spec

-----------------------------------------------------------------------------
(***************************************************************************)
(* Transactional e-mails.                                                  *)
(***************************************************************************)
Events == Email!Events
Variables == (UNION Texts) \cup (UNION {Email!Subject(e) \cup Email!Body(e) : e \in Events})
TemplateRow ==
    [at : {"row"}, active : BOOLEAN, subject : SUBSET Variables, body : SUBSET Variables,
     edited : BOOLEAN]
Template(e) ==
    {Email!NoTemplate} \cup
    {r \in TemplateRow : ~r.edited => r.subject = Email!Subject(e) /\ r.body = Email!Body(e)}
Seed == [at : {"look", "create"}, left : Seq(Events), event : Events \cup {"none"}]
Asked == [at : {"template"}, service : Services, event : Events]
Unfilled == [subject : SUBSET Variables, body : SUBSET Variables]
Filled ==
    [at : {"enqueue", "direct", "thrown"}, service : Services, event : Events,
     unfilled : Unfilled, edited : BOOLEAN]
Tried ==
    [at : {"returned", "direct", "thrown"}, service : Services, event : Events,
     unfilled : Unfilled, edited : BOOLEAN, time : Nat]
Mail == [at : {"new", "skipped", "thrown"}] \cup Asked \cup Filled \cup Tried
Keys == {<<m>> : m \in Mails} \cup {<<To[m], t>> : m \in Mails, t \in Nat}
MailJob ==
    [at : {"none"}] \cup
    [at : {"waiting", "active", "completed", "failed"}, left : 0 .. Attempts, key : Keys]

EmailType ==
    /\ DOMAIN templates = Events /\ \A e \in Events : templates[e] \in Template(e)
    /\ seeds \in [Seeders -> Seed]
    /\ \A s \in Seeders : seeds[s].at = "create" => seeds[s].event \in Events
    /\ mails \in [Mails -> Mail]
    /\ \A m \in Mails : mails[m].at = "template" => mails[m].event \in Email!Sends(mails[m].service)
    /\ jobs \in [Mails -> MailJob]
    /\ sent \in [Mails -> Nat]
    /\ now \in 0 .. MaxTime
    /\ faults \in [Mails -> 0 .. MaxFaults]

(* An attempt is left to a job that waits, and one is used up in a job that *)
(* is active; a request has a job once it has tried the queue.              *)
JobsInv ==
    \A m \in Mails :
        /\ jobs[m].at = "waiting" => jobs[m].left >= 1
        /\ jobs[m].at = "active" => jobs[m].left < Attempts
        /\ mails[m].at \in {"new", "template", "enqueue"} => jobs[m].at = "none"

(* A mail that was sent, may still be sent by its job, or may still be sent *)
(* by its request, counts once, and once more per reply or worker lost.    *)
ByJob(m) == IF jobs[m].at \in {"waiting", "active"} THEN 1 ELSE 0
ByRequest(m) == IF mails[m].at \in {"new", "template", "enqueue", "direct"} THEN 1 ELSE 0
CopyBound == \A m \in Mails : sent[m] + ByJob(m) + ByRequest(m) <= 1 + faults[m]

(* What FilledIn says of one mail.                                         *)
Legible(mail) ==
    /\ ~mail.edited => mail.unfilled.subject = {} /\ mail.unfilled.body = {}
    /\ mail.unfilled.body \cap Email!Body(mail.event) = {}
    /\ mail.service = "admin" => mail.unfilled.subject \cap Email!Body(mail.event) = {}

MailsInv == EmailType /\ JobsInv /\ CopyBound /\ Email!NoneLost /\ Email!FilledIn

(* The variables a service gives to the texts of what it sends: those of     *)
(* the seeded texts, and all that the template declares.                   *)
LEMMA VariablesGiven ==
    ASSUME MailsAssumption, NEW service \in Services, NEW event \in Events,
           event \in Email!Sends(service)
    PROVE  /\ Email!Body(event) \subseteq Email!BodyVars(service, event)
           /\ Email!Subject(event) \subseteq Email!SubjectVars(service, event)
           /\ service = "admin" => Email!Body(event) \subseteq Email!SubjectVars(service, event)
    <1>1. service \in {"auth", "user", "admin"}
        BY MailsAssumption DEF Email!EmailsAssumption
    <1>2. event \in Email!EmailTemplates
        BY <1>1 DEF Email!Sends, Email!EmailTemplates
    <1>3. Email!Body(event) \subseteq Email!BodyVars(service, event)
        BY <1>2 DEF Email!Body, Email!BodyVars, Email!EmailTemplates
    <1>4. Email!Subject(event) \subseteq Email!SubjectVars(service, event)
        BY <1>1 DEF Email!Subject, Email!SubjectVars, Email!BodyVars, Email!Sends
    <1> QED BY <1>3, <1>4 DEF Email!SubjectVars

LEMMA RowIsLegible ==
    ASSUME MailsAssumption, NEW service \in Services, NEW event \in Events,
           event \in Email!Sends(service), NEW row \in TemplateRow, row \in Template(event),
           NEW mail, mail.service = service, mail.event = event, mail.edited = row.edited,
           mail.unfilled = Email!Rendered(service, event, row)
    PROVE  Legible(mail) /\ mail.unfilled \in Unfilled
    <1>1. /\ mail.unfilled.subject = row.subject \ Email!SubjectVars(service, event)
          /\ mail.unfilled.body = row.body \ Email!BodyVars(service, event)
        BY DEF Email!Rendered
    <1>2. row.subject \subseteq Variables /\ row.body \subseteq Variables
        BY DEF TemplateRow
    <1>3. mail.unfilled \in Unfilled
        BY <1>1, <1>2 DEF Email!Rendered, Unfilled
    <1>4. ~row.edited => row.subject = Email!Subject(event) /\ row.body = Email!Body(event)
        BY DEF Template, TemplateRow, Email!NoTemplate
    <1> QED BY <1>1, <1>3, <1>4, VariablesGiven DEF Legible

LEMMA EventsOfList ==
    ASSUME MailsAssumption
    PROVE  EventList \in Seq(Events) /\ Editable \subseteq Events
    BY MailsAssumption DEF Email!EmailsAssumption, Events, Email!Events

LEMMA InitMailsInv ==
    ASSUME MailsAssumption, Email!Init
    PROVE  MailsInv
    <1>1. EmailType
        BY EventsOfList, MailsAssumption
        DEF Email!Init, EmailType, Events, Template, Seed, Mail, MailJob, Email!EmailsAssumption
    <1>2. JobsInv /\ CopyBound /\ Email!NoneLost /\ Email!FilledIn
        BY DEF Email!Init, JobsInv, CopyBound, ByJob, ByRequest, Email!NoneLost, Email!FilledIn
    <1> QED BY <1>1, <1>2 DEF MailsInv

(* Steps on the templates and of the clock.                                *)
LEMMA MailsStay ==
    ASSUME MailsInv, UNCHANGED <<mails, jobs, sent, faults>>
    PROVE  JobsInv' /\ CopyBound' /\ Email!NoneLost' /\ Email!FilledIn'
    BY DEF MailsInv, JobsInv, CopyBound, ByJob, ByRequest, Email!NoneLost, Email!FilledIn

LEMMA NextTemplates ==
    ASSUME MailsAssumption, MailsInv,
           Email!SeedStep \/ Email!Tick \/ (\E e \in Editable : Email!Patch(e))
           \/ UNCHANGED Email!vars
    PROVE  MailsInv'
    <1> USE DEF MailsInv
    <1>1. ASSUME NEW s \in Seeders, Email!SeedLook(s) PROVE MailsInv'
        <2> DEFINE left == seeds[s].left
        <2>1. left \in Seq(Events) /\ left # <<>> /\ seeds \in [Seeders -> Seed]
            BY <1>1 DEF EmailType, Seed, Email!SeedLook
        <2>2. Head(left) \in Events /\ Tail(left) \in Seq(Events)
            BY <2>1
        <2>3. PICK at \in {"look", "create"} :
                  seeds' = [seeds EXCEPT ![s] = [at |-> at, left |-> Tail(left), event |-> Head(left)]]
            BY <1>1 DEF Email!SeedLook
        <2> HIDE DEF left
        <2>4. /\ seeds' \in [Seeders -> Seed]
              /\ \A t \in Seeders : seeds'[t].at = "create" => seeds'[t].event \in Events
            BY <2>1, <2>2, <2>3 DEF EmailType, Seed
        <2>5. EmailType' /\ UNCHANGED <<mails, jobs, sent, faults>>
            BY <1>1, <2>4 DEF EmailType, Email!SeedLook
        <2> QED BY <2>5, MailsStay
    <1>2. ASSUME NEW s \in Seeders, Email!SeedCreate(s) PROVE MailsInv'
        <2>1. seeds[s].event \in Events /\ seeds \in [Seeders -> Seed]
            BY <1>2 DEF EmailType, Email!SeedCreate
        <2>2. ASSUME NEW e \in Events PROVE Email!NewRow(e) \in Template(e)
            <3>1. Email!Subject(e) \subseteq Variables /\ Email!Body(e) \subseteq Variables
                BY DEF Variables
            <3> QED BY <3>1 DEF Email!NewRow, Template, TemplateRow
        <2>3. DOMAIN templates' = Events /\ \A e \in Events : templates'[e] \in Template(e)
            BY <1>2, <2>1, <2>2 DEF EmailType, Email!SeedCreate, Email!Created
        <2>4. /\ seeds' \in [Seeders -> Seed]
              /\ \A t \in Seeders : seeds'[t].at = "create" => seeds'[t].event \in Events
            BY <1>2, <2>1 DEF EmailType, Seed, Email!SeedCreate
        <2>5. EmailType' /\ UNCHANGED <<mails, jobs, sent, faults>>
            BY <1>2, <2>3, <2>4 DEF EmailType, Email!SeedCreate
        <2> QED BY <2>5, MailsStay
    <1>3. ASSUME NEW e \in Editable, Email!Patch(e) PROVE MailsInv'
        <2>1. e \in Events
            BY EventsOfList
        <2>2. templates[e] \in TemplateRow
            <3>1. templates[e].at = "row" /\ templates[e] \in Template(e)
                BY <1>3, <2>1 DEF Email!Patch, EmailType
            <3> QED BY <3>1 DEF Template, Email!NoTemplate
        <2>3. PICK active \in BOOLEAN, subject \in SUBSET Variables, body \in SUBSET Variables :
                  templates' = [templates EXCEPT ![e] = [at |-> "row", active |-> active,
                                    subject |-> subject, body |-> body, edited |-> TRUE]]
            <3>1. PICK active \in BOOLEAN, subject \in Texts \cup {templates[e].subject},
                       body \in Texts \cup {templates[e].body} :
                      templates' = [templates EXCEPT ![e] = [at |-> "row", active |-> active,
                                        subject |-> subject, body |-> body, edited |-> TRUE]]
                BY <1>3 DEF Email!Patch
            <3>2. templates[e].subject \subseteq Variables /\ templates[e].body \subseteq Variables
                BY <2>2 DEF TemplateRow
            <3>3. \A text \in Texts : text \subseteq Variables
                BY DEF Variables
            <3>4. subject \subseteq Variables /\ body \subseteq Variables
                BY <3>1, <3>2, <3>3
            <3> QED BY <3>1, <3>4
        <2>4. templates'[e] \in Template(e)
            <3>1. [at |-> "row", active |-> active, subject |-> subject, body |-> body,
                   edited |-> TRUE] \in Template(e)
                BY <2>3 DEF Template, TemplateRow
            <3> QED BY <2>1, <2>3, <3>1 DEF EmailType
        <2>5. DOMAIN templates' = Events /\ \A f \in Events : templates'[f] \in Template(f)
            BY <2>3, <2>4 DEF EmailType
        <2>6. EmailType' /\ UNCHANGED <<mails, jobs, sent, faults>>
            BY <1>3, <2>5 DEF EmailType, Email!Patch
        <2> QED BY <2>6, MailsStay
    <1>4. ASSUME Email!Tick PROVE MailsInv'
        <2>1. now' \in 0 .. MaxTime
            BY <1>4, MailsAssumption DEF Email!Tick, EmailType, Email!EmailsAssumption
        <2>2. EmailType' /\ UNCHANGED <<mails, jobs, sent, faults>>
            BY <1>4, <2>1 DEF EmailType, Email!Tick
        <2> QED BY <2>2, MailsStay
    <1>5. ASSUME UNCHANGED Email!vars PROVE MailsInv'
        BY <1>5, MailsStay DEF EmailType, Email!vars
    <1> QED BY <1>1, <1>2, <1>3, <1>4, <1>5 DEF Email!SeedStep

(* A step of one mail, its request or its job.                             *)
Lost(m) ==
    /\ jobs[m].at = "none" /\ ~(sent[m] > 0)
    /\ ~\E n \in Mails \ {m} : jobs[n].at # "none" /\ jobs[n].key = <<To[m], mails[m].time>>
LEMMA OneMail ==
    ASSUME MailsInv, EmailType', NEW m \in Mails,
           \A n \in Mails \ {m} : /\ mails'[n] = mails[n] /\ jobs'[n] = jobs[n]
                                   /\ sent'[n] = sent[n] /\ faults'[n] = faults[n],
           jobs[m].at # "none" => jobs'[m].at # "none" /\ jobs'[m].key = jobs[m].key,
           sent[m] <= sent'[m],
           mails'[m].at = "returned" => UNCHANGED mails \/ ~Lost(m)',
           mails'[m].at \in {"enqueue", "direct"} => UNCHANGED mails \/ Legible(mails'[m]),
           jobs'[m].at = "waiting" => jobs'[m].left >= 1,
           jobs'[m].at = "active" => jobs'[m].left < Attempts,
           mails'[m].at \in {"new", "template", "enqueue"} => jobs'[m].at = "none",
           sent'[m] + ByJob(m)' + ByRequest(m)' <= 1 + faults'[m]
    PROVE  MailsInv'
    <1>1. JobsInv'
        BY DEF MailsInv, JobsInv
    <1>2. CopyBound'
        BY DEF MailsInv, CopyBound, ByJob, ByRequest
    <1>3. \A n \in Mails : jobs[n].at # "none" => jobs'[n].at # "none" /\ jobs'[n].key = jobs[n].key
        OBVIOUS
    <1>4. \A n \in Mails : sent[n] > 0 => sent'[n] > 0
        BY DEF MailsInv, EmailType
    <1>5. ASSUME NEW n \in Mails, mails'[n].at = "returned", mails'[n] = mails[n] PROVE ~Lost(n)'
        <2>1. mails[n].at = "returned" /\ mails[n].time = mails'[n].time
            BY <1>5
        <2>2. ~Lost(n)
            BY <2>1 DEF MailsInv, Email!NoneLost, Lost
        <2> QED BY <2>1, <2>2, <1>3, <1>4 DEF Lost
    <1>6. \A n \in Mails : mails'[n].at = "returned" => ~Lost(n)'
        BY <1>5
    <1>7. Email!NoneLost'
        BY <1>6 DEF Lost, Email!NoneLost
    <1>8. \A n \in Mails : mails'[n].at \in {"enqueue", "direct"} => Legible(mails'[n])
        BY DEF MailsInv, Email!FilledIn, Legible
    <1>9. Email!FilledIn'
        BY <1>8 DEF Email!FilledIn, Legible
    <1> QED BY <1>1, <1>2, <1>7, <1>9 DEF MailsInv

LEMMA NextAsk ==
    ASSUME MailsAssumption, MailsInv, NEW m \in Mails,
           NEW service \in Services, NEW event \in Events, Email!Ask(m, service, event)
    PROVE  MailsInv'
    <1>1. /\ mails[m].at = "new" /\ event \in Email!Sends(service)
          /\ mails' = [mails EXCEPT ![m] = [at |-> "template", service |-> service, event |-> event]]
          /\ UNCHANGED <<templates, seeds, jobs, sent, now, faults>>
        BY DEF Email!Ask
    <1>2. /\ mails' \in [Mails -> Mail]
          /\ mails'[m].at = "template" /\ mails'[m].service = service /\ mails'[m].event = event
          /\ \A n \in Mails \ {m} : mails'[n] = mails[n]
        BY <1>1 DEF MailsInv, EmailType, Mail, Asked
    <1>3. EmailType'
        BY <1>1, <1>2 DEF MailsInv, EmailType
    <1>4. jobs'[m] = jobs[m] /\ jobs[m].at = "none"
        BY <1>1 DEF MailsInv, JobsInv
    <1>5. sent'[m] + ByJob(m)' + ByRequest(m)' <= 1 + faults'[m]
        BY <1>1, <1>2 DEF MailsInv, CopyBound, ByJob, ByRequest
    <1>6. sent[m] <= sent'[m]
        BY <1>1 DEF MailsInv, EmailType
    <1> QED BY <1>1, <1>2, <1>3, <1>4, <1>5, <1>6, OneMail

LEMMA NextGetTemplate ==
    ASSUME MailsAssumption, MailsInv, NEW m \in Mails, Email!GetTemplate(m)
    PROVE  MailsInv'
    <1> DEFINE service == mails[m].service
               event == mails[m].event
    <1>1. /\ mails[m].at = "template" /\ service \in Services /\ event \in Events
          /\ event \in Email!Sends(service)
          /\ UNCHANGED <<templates, seeds, jobs, sent, now, faults>>
        BY DEF Email!GetTemplate, MailsInv, EmailType, Mail, Asked, Filled, Tried
    <1> DEFINE unfilled == Email!Rendered(service, event, templates[event])
               edited == templates[event].edited
    <1>2. Email!Active(event) => /\ templates[event] \in TemplateRow
                                 /\ templates[event] \in Template(event)
        BY <1>1 DEF Email!Active, MailsInv, EmailType, Template, Email!NoTemplate
    <1>20. ASSUME Email!Active(event), NEW mail, mail.service = service, mail.event = event,
                  mail.edited = edited, mail.unfilled = unfilled
           PROVE  Legible(mail) /\ unfilled \in Unfilled /\ edited \in BOOLEAN
        <2>1. Legible(mail) /\ mail.unfilled \in Unfilled
            BY <1>1, <1>2, <1>20, RowIsLegible
        <2> QED BY <1>2, <1>20, <2>1 DEF TemplateRow
    <1>3. PICK at \in {"enqueue", "direct", "thrown"}, end \in {"skipped", "thrown"} :
              mails' = [mails EXCEPT ![m] = IF Email!Active(event)
                            THEN [at |-> at, service |-> service, event |-> event,
                                  unfilled |-> unfilled, edited |-> edited]
                            ELSE [at |-> end]]
        <2> DEFINE at == IF QueueEnabled THEN "enqueue"
                         ELSE IF service = "admin" THEN "thrown" ELSE "direct"
                   end == IF service = "admin" THEN "skipped" ELSE "thrown"
        <2>1. at \in {"enqueue", "direct", "thrown"} /\ end \in {"skipped", "thrown"}
            OBVIOUS
        <2>2. mails' = [mails EXCEPT ![m] = IF Email!Active(event)
                            THEN [at |-> at, service |-> service, event |-> event,
                                  unfilled |-> unfilled, edited |-> edited]
                            ELSE [at |-> end]]
            BY <1>1, Zenon DEF Email!GetTemplate, EmailType, MailsInv
        <2> QED BY <2>1, <2>2, Zenon
    <1> HIDE DEF service, event, unfilled, edited
    <1>30. mails \in [Mails -> Mail]
        BY DEF MailsInv, EmailType
    <1>4. /\ mails'[m] \in Mail /\ mails'[m].at \in {"enqueue", "direct", "skipped", "thrown"}
          /\ mails'[m].at \in {"enqueue", "direct"} => Legible(mails'[m])
          /\ \A n \in Mails \ {m} : mails'[n] = mails[n]
        <2>1. CASE Email!Active(event)
            <3> DEFINE mail == [at |-> at, service |-> service, event |-> event,
                                unfilled |-> unfilled, edited |-> edited]
            <3>1. mails'[m] = mail /\ \A n \in Mails \ {m} : mails'[n] = mails[n]
                BY <1>3, <1>30, <2>1
            <3>2. /\ mail.service = service /\ mail.event = event
                  /\ mail.edited = edited /\ mail.unfilled = unfilled
                OBVIOUS
            <3>3. Legible(mail) /\ unfilled \in Unfilled /\ edited \in BOOLEAN
                BY <1>20, <2>1, <3>2
            <3>4. mail \in Filled /\ mail.at = at
                BY <1>1, <3>3 DEF Filled
            <3> HIDE DEF mail
            <3> QED BY <3>1, <3>3, <3>4 DEF Mail
        <2>2. CASE ~Email!Active(event)
            <3>1. /\ mails'[m] = [at |-> end] /\ mails'[m].at = end
                  /\ \A n \in Mails \ {m} : mails'[n] = mails[n]
                BY <1>3, <1>30, <2>2
            <3> QED BY <3>1 DEF Mail
        <2> QED BY <2>1, <2>2
    <1>5. mails' \in [Mails -> Mail]
        BY <1>3, <1>4 DEF MailsInv, EmailType
    <1>6. EmailType'
        BY <1>1, <1>4, <1>5 DEF MailsInv, EmailType
    <1>7. jobs'[m] = jobs[m] /\ jobs[m].at = "none"
        BY <1>1 DEF MailsInv, JobsInv
    <1>8. sent'[m] + ByJob(m)' + ByRequest(m)' <= 1 + faults'[m] /\ sent[m] <= sent'[m]
        BY <1>1, <1>4, <1>7 DEF MailsInv, EmailType, CopyBound, ByJob, ByRequest
    <1> QED BY <1>1, <1>4, <1>6, <1>7, <1>8, OneMail

(* The request with its variables filled in, and its answer.               *)
LEMMA ReturnedMail ==
    ASSUME MailsAssumption, MailsInv, NEW m \in Mails, mails[m].at \in {"enqueue", "direct"},
           NEW at \in {"returned", "direct", "thrown"}, Email!Returned(m, at)
    PROVE  /\ mails' \in [Mails -> Mail]
           /\ mails'[m].at = at /\ mails'[m].time = now /\ Legible(mails'[m])
           /\ \A n \in Mails \ {m} : mails'[n] = mails[n]
    <1>0. mails[m] \in Mail /\ mails \in [Mails -> Mail] /\ now \in Nat
        BY MailsAssumption DEF MailsInv, EmailType, Email!EmailsAssumption
    <1>1. mails[m] \in Filled \cup Tried
        BY <1>0 DEF Mail, Asked
    <1>2. /\ mails[m].service \in Services /\ mails[m].event \in Events
          /\ mails[m].unfilled \in Unfilled /\ mails[m].edited \in BOOLEAN
        BY <1>1 DEF Filled, Tried
    <1> DEFINE mail == [at |-> at, service |-> mails[m].service, event |-> mails[m].event,
                        unfilled |-> mails[m].unfilled, edited |-> mails[m].edited, time |-> now]
    <1>3. mails' = [mails EXCEPT ![m] = mail]
        BY <1>0 DEF Email!Returned
    <1>4. mail \in Tried /\ mail.at = at /\ mail.time = now
        BY <1>0, <1>2 DEF Tried
    <1>5. Legible(mails[m])
        BY DEF MailsInv, Email!FilledIn, Legible
    <1>6. Legible(mail)
        BY <1>5 DEF Legible
    <1> HIDE DEF mail
    <1> QED BY <1>0, <1>3, <1>4, <1>6 DEF Mail

LEMMA AddedJob ==
    ASSUME MailsAssumption, MailsInv, NEW m \in Mails, jobs[m].at = "none"
    PROVE  /\ Email!Added(m) \in [Mails -> MailJob]
           /\ \A n \in Mails \ {m} : Email!Added(m)[n] = jobs[n]
           /\ \/ Email!Added(m)[m].at = "waiting" /\ Email!Added(m)[m].left = Attempts
              \/ /\ Email!Added(m)[m].at = "none"
                 /\ \E n \in Mails \ {m} : jobs[n].at # "none" /\ jobs[n].key = <<To[m], now>>
    <1>0. jobs \in [Mails -> MailJob] /\ now \in Nat /\ Attempts \in Nat /\ Attempts >= 1
        BY MailsAssumption DEF MailsInv, EmailType, Email!EmailsAssumption
    <1>1. CASE Email!Known(m)
        BY <1>0, <1>1 DEF Email!Known, Email!Added
    <1>2. CASE ~Email!Known(m)
        <2>1. PICK key \in Keys : Email!Added(m) =
                  [jobs EXCEPT ![m] = [at |-> "waiting", left |-> Attempts, key |-> key]]
            <3>1. <<m>> \in Keys /\ <<To[m], now>> \in Keys
                BY <1>0 DEF Keys
            <3>2. CASE mails[m].service = "admin"
                BY <1>2, <3>1, <3>2 DEF Email!Added
            <3>3. CASE mails[m].service # "admin"
                BY <1>2, <3>1, <3>3 DEF Email!Added
            <3> QED BY <3>2, <3>3
        <2> QED BY <1>0, <2>1 DEF MailJob
    <1> QED BY <1>1, <1>2

LEMMA NextEnqueue ==
    ASSUME MailsAssumption, MailsInv, NEW m \in Mails, Email!Enqueue(m)
    PROVE  MailsInv'
    <1>1. /\ mails[m].at = "enqueue" /\ jobs[m].at = "none"
          /\ UNCHANGED <<templates, seeds, sent, now>>
        BY DEF Email!Enqueue, MailsInv, JobsInv
    <1>2. /\ sent[m] \in Nat /\ faults \in [Mails -> 0 .. MaxFaults] /\ MaxFaults \in Nat
          /\ faults[m] \in Nat /\ now \in Nat /\ jobs \in [Mails -> MailJob]
          /\ Attempts \in Nat /\ Attempts >= 1
        BY MailsAssumption DEF MailsInv, EmailType, Email!EmailsAssumption
    <1>3. sent[m] <= faults[m]
        BY <1>1, <1>2 DEF MailsInv, CopyBound, ByJob, ByRequest
    <1> DEFINE added == Email!Added(m)
    <1>4. /\ added \in [Mails -> MailJob]
          /\ \A n \in Mails \ {m} : added[n] = jobs[n]
          /\ \/ added[m].at = "waiting" /\ added[m].left = Attempts
             \/ /\ added[m].at = "none"
                /\ \E n \in Mails \ {m} : jobs[n].at # "none" /\ jobs[n].key = <<To[m], now>>
        BY <1>1, AddedJob
    <1> HIDE DEF added
    <1>5. CASE jobs' = added /\ UNCHANGED faults /\ Email!Returned(m, "returned")
        <2>1. /\ mails' \in [Mails -> Mail] /\ mails'[m].at = "returned" /\ mails'[m].time = now
              /\ \A n \in Mails \ {m} : mails'[n] = mails[n]
            BY <1>1, <1>5, ReturnedMail
        <2>2. EmailType'
            BY <1>1, <1>4, <1>5, <2>1 DEF MailsInv, EmailType
        <2>3. ~Lost(m)'
            BY <1>4, <1>5, <2>1 DEF Lost
        <2>4. sent'[m] + ByJob(m)' + ByRequest(m)' <= 1 + faults'[m]
            BY <1>1, <1>2, <1>3, <1>4, <1>5, <2>1 DEF ByJob, ByRequest
        <2> QED BY <1>1, <1>2, <1>4, <1>5, <2>1, <2>2, <2>3, <2>4, OneMail
    <1>6. CASE Email!Fault(m) /\ jobs' \in {jobs, added} /\ Email!Returned(m, Email!OnFailure(m))
        <2>1. /\ mails' \in [Mails -> Mail] /\ mails'[m].at \in {"direct", "thrown"}
              /\ Legible(mails'[m])
              /\ \A n \in Mails \ {m} : mails'[n] = mails[n]
            BY <1>1, <1>6, ReturnedMail DEF Email!OnFailure
        <2>2. /\ faults' \in [Mails -> 0 .. MaxFaults] /\ faults'[m] = faults[m] + 1
              /\ \A n \in Mails \ {m} : faults'[n] = faults[n]
            BY <1>2, <1>6 DEF Email!Fault
        <2>3. /\ jobs' \in [Mails -> MailJob]
              /\ \A n \in Mails \ {m} : jobs'[n] = jobs[n]
              /\ \/ jobs'[m].at = "none"
                 \/ jobs'[m].at = "waiting" /\ jobs'[m].left = Attempts
            BY <1>1, <1>2, <1>4, <1>6
        <2>4. EmailType'
            BY <1>1, <2>1, <2>2, <2>3 DEF MailsInv, EmailType
        <2>5. sent'[m] + ByJob(m)' + ByRequest(m)' <= 1 + faults'[m]
            BY <1>1, <1>2, <1>3, <2>1, <2>2, <2>3 DEF ByJob, ByRequest
        <2> QED BY <1>1, <1>2, <2>1, <2>2, <2>3, <2>4, <2>5, OneMail
    <1> QED BY <1>5, <1>6 DEF Email!Enqueue, added

LEMMA NextDirect ==
    ASSUME MailsAssumption, MailsInv, NEW m \in Mails, Email!Direct(m)
    PROVE  MailsInv'
    <1>1. mails[m].at = "direct" /\ UNCHANGED <<templates, seeds, jobs, now>>
        BY DEF Email!Direct
    <1>2. /\ sent \in [Mails -> Nat] /\ faults \in [Mails -> 0 .. MaxFaults] /\ MaxFaults \in Nat
          /\ sent[m] \in Nat /\ faults[m] \in Nat
        BY MailsAssumption DEF MailsInv, EmailType, Email!EmailsAssumption
    <1>3. sent[m] + ByJob(m) <= faults[m] /\ ByJob(m) \in {0, 1} /\ ByJob(m)' = ByJob(m)
        BY <1>1, <1>2 DEF MailsInv, CopyBound, ByJob, ByRequest
    <1>4. PICK at \in {"returned", "thrown"} :
              /\ Email!Returned(m, at)
              /\ \/ sent' = [sent EXCEPT ![m] = @ + 1]
                 \/ at = "thrown" /\ sent' = sent
              /\ UNCHANGED faults \/ Email!Fault(m)
        BY DEF Email!Direct
    <1>5. /\ mails' \in [Mails -> Mail] /\ mails'[m].at = at
          /\ \A n \in Mails \ {m} : mails'[n] = mails[n]
        BY <1>1, <1>4, ReturnedMail
    <1>6. /\ sent' \in [Mails -> Nat] /\ sent[m] <= sent'[m] /\ sent'[m] <= sent[m] + 1
          /\ at = "returned" => sent'[m] > 0
          /\ \A n \in Mails \ {m} : sent'[n] = sent[n]
        BY <1>2, <1>4
    <1>7. /\ faults' \in [Mails -> 0 .. MaxFaults] /\ faults'[m] \in Nat /\ faults[m] <= faults'[m]
          /\ \A n \in Mails \ {m} : faults'[n] = faults[n]
        BY <1>2, <1>4 DEF Email!Fault
    <1>8. EmailType'
        BY <1>1, <1>5, <1>6, <1>7 DEF MailsInv, EmailType
    <1>9. ByRequest(m)' = 0
        BY <1>5 DEF ByRequest
    <1>10. sent'[m] + ByJob(m)' + ByRequest(m)' <= 1 + faults'[m]
        BY <1>2, <1>3, <1>6, <1>7, <1>9
    <1>11. mails'[m].at = "returned" => ~Lost(m)'
        BY <1>5, <1>6 DEF Lost
    <1>12. /\ jobs[m].at = "waiting" => jobs[m].left >= 1
           /\ jobs[m].at = "active" => jobs[m].left < Attempts
        BY DEF MailsInv, JobsInv
    <1> QED BY <1>1, <1>5, <1>6, <1>7, <1>8, <1>10, <1>11, <1>12, OneMail
LEMMA NextTake ==
    ASSUME MailsAssumption, MailsInv, NEW m \in Mails, Email!Take(m)
    PROVE  MailsInv'
    <1>1. jobs[m].at = "waiting" /\ UNCHANGED <<templates, seeds, mails, sent, now, faults>>
        BY DEF Email!Take
    <1>2. /\ jobs \in [Mails -> MailJob] /\ Attempts \in Nat
          /\ jobs[m].left \in 1 .. Attempts /\ jobs[m].key \in Keys /\ sent[m] \in Nat
        <2>1. jobs[m] \in MailJob /\ jobs[m].left >= 1 /\ jobs \in [Mails -> MailJob]
            BY <1>1 DEF MailsInv, EmailType, JobsInv
        <2>2. Attempts \in Nat /\ sent[m] \in Nat
            BY MailsAssumption DEF MailsInv, EmailType, Email!EmailsAssumption
        <2> QED BY <1>1, <2>1, <2>2 DEF MailJob
    <1>3. jobs' = [jobs EXCEPT ![m] = [at |-> "active", left |-> jobs[m].left - 1, key |-> jobs[m].key]]
        <2>1. jobs[m] = [at |-> "waiting", left |-> jobs[m].left, key |-> jobs[m].key]
            BY <1>1, <1>2 DEF MailJob
        <2> QED BY <1>2, <2>1 DEF Email!Take
    <1>4. /\ jobs' \in [Mails -> MailJob]
          /\ jobs'[m].at = "active" /\ jobs'[m].key = jobs[m].key /\ jobs'[m].left < Attempts
          /\ \A n \in Mails \ {m} : jobs'[n] = jobs[n]
        BY <1>2, <1>3 DEF MailJob
    <1>5. EmailType'
        BY <1>1, <1>4 DEF MailsInv, EmailType
    <1>6. mails'[m].at \notin {"new", "template", "enqueue"}
        BY <1>1 DEF MailsInv, JobsInv
    <1>7. sent'[m] + ByJob(m)' + ByRequest(m)' <= 1 + faults'[m] /\ sent[m] <= sent'[m]
        BY <1>1, <1>2, <1>4 DEF MailsInv, CopyBound, ByJob, ByRequest
    <1> QED BY <1>1, <1>4, <1>5, <1>6, <1>7, OneMail

(* The worker's steps: what may become of an active job and its mail.       *)
LEMMA Worked ==
    ASSUME MailsAssumption, MailsInv, NEW m \in Mails, jobs[m].at = "active",
           UNCHANGED <<templates, seeds, mails, now>>,
           NEW at \in {"waiting", "completed", "failed"}, NEW left \in 0 .. Attempts,
           jobs' = [jobs EXCEPT ![m].at = at, ![m].left = left],
           at = "waiting" => left >= 1,
           sent' = sent \/ sent' = [sent EXCEPT ![m] = @ + 1],
           UNCHANGED faults \/ Email!Fault(m),
           sent' # sent /\ at = "waiting" => Email!Fault(m)
    PROVE  MailsInv'
    <1>1. /\ jobs \in [Mails -> MailJob] /\ jobs[m].key \in Keys
          /\ sent \in [Mails -> Nat] /\ sent[m] \in Nat
          /\ faults \in [Mails -> 0 .. MaxFaults] /\ MaxFaults \in Nat /\ faults[m] \in Nat
        <2>1. /\ jobs \in [Mails -> MailJob] /\ sent \in [Mails -> Nat]
              /\ faults \in [Mails -> 0 .. MaxFaults] /\ MaxFaults \in Nat
            BY MailsAssumption DEF MailsInv, EmailType, Email!EmailsAssumption
        <2>2. jobs[m] \in MailJob
            BY <2>1
        <2> QED BY <2>1, <2>2 DEF MailJob
    <1>2. jobs' = [jobs EXCEPT ![m] = [at |-> at, left |-> left, key |-> jobs[m].key]]
        <2>1. jobs[m] \in MailJob
            BY <1>1
        <2>2. jobs[m] = [at |-> "active", left |-> jobs[m].left, key |-> jobs[m].key]
            BY <2>1 DEF MailJob
        <2>3. [jobs[m] EXCEPT !.at = at] = [at |-> at, left |-> jobs[m].left, key |-> jobs[m].key]
            BY <2>2
        <2>4. [[jobs[m] EXCEPT !.at = at] EXCEPT !.left = left] =
                  [at |-> at, left |-> left, key |-> jobs[m].key]
            <3>1. [[at |-> at, left |-> jobs[m].left, key |-> jobs[m].key] EXCEPT !.left = left] =
                      [at |-> at, left |-> left, key |-> jobs[m].key]
                OBVIOUS
            <3> QED BY <2>3, <3>1, Zenon
        <2> QED BY <1>1, <2>4
    <1>3. /\ jobs' \in [Mails -> MailJob]
          /\ jobs'[m].at = at /\ jobs'[m].left = left /\ jobs'[m].key = jobs[m].key
          /\ \A n \in Mails \ {m} : jobs'[n] = jobs[n]
        <2>1. [at |-> at, left |-> left, key |-> jobs[m].key] \in MailJob
            BY <1>1 DEF MailJob
        <2> QED BY <1>1, <1>2, <2>1
    <1>4. /\ sent' \in [Mails -> Nat] /\ sent[m] <= sent'[m] /\ sent'[m] <= sent[m] + 1
          /\ sent' # sent \/ sent'[m] = sent[m]
          /\ \A n \in Mails \ {m} : sent'[n] = sent[n]
        BY <1>1
    <1>5. /\ faults' \in [Mails -> 0 .. MaxFaults] /\ faults'[m] \in Nat
          /\ faults'[m] \in {faults[m], faults[m] + 1}
          /\ Email!Fault(m) => faults'[m] = faults[m] + 1
          /\ \A n \in Mails \ {m} : faults'[n] = faults[n]
        BY <1>1 DEF Email!Fault
    <1>6. EmailType'
        BY <1>3, <1>4, <1>5 DEF MailsInv, EmailType
    <1>7. mails'[m].at \notin {"new", "template", "enqueue"}
        BY DEF MailsInv, JobsInv
    <1>8. ByRequest(m)' = ByRequest(m) /\ ByRequest(m) \in {0, 1}
          /\ sent[m] + 1 + ByRequest(m) <= 1 + faults[m]
        BY DEF MailsInv, CopyBound, ByJob, ByRequest
    <1>9. ByJob(m)' = IF at = "waiting" THEN 1 ELSE 0
        BY <1>3 DEF ByJob
    <1>10. sent'[m] + ByJob(m)' + ByRequest(m)' <= 1 + faults'[m]
        BY <1>1, <1>4, <1>5, <1>8, <1>9
    <1> QED BY <1>3, <1>4, <1>5, <1>6, <1>7, <1>10, OneMail

LEMMA NextSend ==
    ASSUME MailsAssumption, MailsInv, NEW m \in Mails, Email!Send(m) \/ Email!Stall(m)
    PROVE  MailsInv'
    <1>1. jobs[m].at = "active" /\ UNCHANGED <<templates, seeds, mails, now>>
        BY DEF Email!Send, Email!Stall
    <1>2. /\ jobs \in [Mails -> MailJob] /\ jobs[m].left \in 0 .. Attempts
          /\ jobs[m].left < Attempts /\ Attempts \in Nat
          /\ jobs[m] = [jobs[m] EXCEPT !.left = jobs[m].left]
        <2>1. /\ jobs \in [Mails -> MailJob] /\ jobs[m] \in MailJob /\ Attempts \in Nat
              /\ jobs[m].left < Attempts
            BY <1>1, MailsAssumption DEF MailsInv, EmailType, JobsInv, Email!EmailsAssumption
        <2> QED BY <1>1, <2>1 DEF MailJob
    <1> DEFINE left == jobs[m].left
    <1>3. \A at : [jobs EXCEPT ![m].at = at] = [jobs EXCEPT ![m].at = at, ![m].left = left]
        <2>1. jobs[m] \in MailJob /\ jobs[m].at # "none" /\ jobs \in [Mails -> MailJob]
            BY <1>1, <1>2
        <2>2. \A at : [jobs[m] EXCEPT !.at = at] = [[jobs[m] EXCEPT !.at = at] EXCEPT !.left = left]
            BY <2>1 DEF MailJob
        <2> QED BY <2>1, <2>2
    <1>4. PICK at \in {"waiting", "completed", "failed"} :
              /\ Email!Send(m) => jobs' = [jobs EXCEPT ![m].at = at]
              /\ Email!Send(m) /\ at = "waiting" => left # 0
              /\ Email!Send(m) /\ sent' # sent /\ at = "waiting" => Email!Fault(m)
        BY DEF Email!Send, Email!Throw
    <1>5. /\ sent' = sent \/ sent' = [sent EXCEPT ![m] = @ + 1]
          /\ UNCHANGED faults \/ Email!Fault(m)
        BY DEF Email!Send, Email!Stall
    <1>6. CASE Email!Send(m)
        <2>1. jobs' = [jobs EXCEPT ![m].at = at, ![m].left = left]
            BY <1>3, <1>4, <1>6
        <2>2. at = "waiting" => left >= 1
            BY <1>2, <1>4, <1>6
        <2> QED BY <1>1, <1>2, <1>4, <1>5, <1>6, <2>1, <2>2, Worked
    <1>7. CASE Email!Stall(m)
        <2>1. /\ Email!Fault(m) /\ left + 1 \in 0 .. Attempts /\ left + 1 >= 1
              /\ jobs' = [jobs EXCEPT ![m].at = "waiting", ![m].left = left + 1]
            BY <1>2, <1>7 DEF Email!Stall
        <2> QED BY <1>1, <1>5, <2>1, Worked
    <1> QED BY <1>6, <1>7

LEMMA NextMailsInv ==
    ASSUME MailsAssumption, MailsInv, [Email!Next]_Email!vars
    PROVE  MailsInv'
    <1>1. CASE \E m \in Mails :
                  \/ \E service \in Services, event \in Events : Email!Ask(m, service, event)
                  \/ Email!GetTemplate(m) \/ Email!Enqueue(m) \/ Email!Direct(m)
                  \/ Email!WorkerStep(m) \/ Email!Stall(m)
        BY <1>1, NextAsk, NextGetTemplate, NextEnqueue, NextDirect, NextTake, NextSend
        DEF Email!WorkerStep
    <1>2. CASE Email!SeedStep \/ Email!Tick \/ (\E e \in Editable : Email!Patch(e))
               \/ UNCHANGED Email!vars
        BY <1>2, NextTemplates
    <1> QED BY <1>1, <1>2 DEF Email!Next, Events

(* However the seeds, the administrator's edits, the requests, the queue    *)
(* and the worker interleave: a mail of a seeded text has no placeholder    *)
(* left and one of an edited text none of those its template declares (in   *)
(* the body, and in the subject where the administrator's service sends),   *)
(* none is lost, and each is sent at most once per lost reply or worker.    *)
THEOREM MailsSentOnce == Email!Spec => []MailsOnce
    <1>1. ASSUME MailsInv PROVE MailsOnce
        <2>1. Email!TypeOK
            <3>1. \A e \in Events : templates[e].at \in {"none", "row"}
                BY <1>1 DEF MailsInv, EmailType, Template, TemplateRow, Email!NoTemplate
            <3>2. \A s \in Seeders : seeds[s].at \in {"look", "create"} /\ seeds[s].left \in Seq(Events)
                BY <1>1 DEF MailsInv, EmailType, Seed
            <3>3. ASSUME NEW m \in Mails
                  PROVE  mails[m].at \in {"new", "template", "enqueue", "direct", "returned", "thrown", "skipped"}
                BY <1>1 DEF MailsInv, EmailType, Mail, Asked, Filled, Tried
            <3>4. ASSUME NEW m \in Mails
                  PROVE  /\ jobs[m].at \in {"none", "waiting", "active", "completed", "failed"}
                         /\ jobs[m].at # "none" => jobs[m].left \in 0 .. Attempts
                BY <1>1 DEF MailsInv, EmailType, MailJob
            <3> QED BY <1>1, <3>1, <3>2, <3>3, <3>4 DEF MailsInv, EmailType, Email!TypeOK, Events
        <2>2. Email!FilledIn
            BY <1>1 DEF MailsInv
        <2>3. Email!OncePerFault
            <3> SUFFICES ASSUME NEW m \in Mails PROVE sent[m] <= 1 + faults[m]
                BY DEF Email!OncePerFault
            <3>1. sent[m] \in Nat /\ faults[m] \in Nat /\ sent[m] + ByJob(m) + ByRequest(m) <= 1 + faults[m]
                BY <1>1, MailsAssumption DEF MailsInv, EmailType, CopyBound, Email!EmailsAssumption
            <3> QED BY <3>1 DEF ByJob, ByRequest
        <2> QED BY <1>1, <2>1, <2>2, <2>3 DEF MailsInv, MailsOnce
    <1>2. MailsInv /\ [Email!Next]_Email!vars => MailsInv'
        BY MailsAssumption, NextMailsInv
    <1>3. Email!Init => MailsInv
        BY MailsAssumption, InitMailsInv
    <1> QED BY <1>1, <1>2, <1>3, PTL DEF Email!Spec

-----------------------------------------------------------------------------
(***************************************************************************)
(* Broadcasts.                                                             *)
(***************************************************************************)
Recipients == Broadcast!Users
Segment == Broadcast!Segment(job.target)
Running == {"fetch", "write", "mail", "finish"}
BroadcastJob ==
    {Broadcast!NoJob}
    \cup [at : {"enqueue"}, later : BOOLEAN, target : Targets, channel : Channels]
    \cup [at : {"lost", "delayed", "waiting", "completed", "failed"}, left : 0 .. Attempts,
          target : Targets, channel : Channels]
    \cup [at : Running, left : 0 .. Attempts - 1, target : Targets, channel : Channels,
          cursor : 0 .. N, total : Nat, page : SUBSET Recipients]

BroadcastType ==
    /\ status \in [Recipients -> {"ACTIVE", "INACTIVE", "gone"}]
    /\ "status" \in DOMAIN broadcast /\ broadcast.status \in {"none", "SCHEDULED", "SENT"}
    /\ job \in BroadcastJob
    /\ rows \in [Recipients -> 0 .. Cap] /\ emails \in [Recipients -> 0 .. Cap]
    /\ missed \subseteq Recipients
    /\ crashes \in 0 .. MaxCrashes

(* There is one broadcast, and it has its row until it is deleted.         *)
RowInv == job.at # "none" /\ deleter # "deleted" => broadcast # Broadcast!NoBroadcast

(* What a run has not come to yet is bounded by the runs before it; the     *)
(* page lies beyond the cursor.                                            *)
Runs == Attempts - job.left + crashes
Written(u) == u <= job.cursor \/ (job.at = "mail" /\ u \in job.page)
Mailed(u) == u <= job.cursor
RunsInv ==
    /\ job.at \in {"none", "enqueue", "lost", "delayed"} =>
           /\ crashes = 0 /\ missed = {} /\ \A u \in Recipients : rows[u] = 0 /\ emails[u] = 0
           /\ job.at = "delayed" => job.left = Attempts
    /\ job.at = "waiting" => job.left >= 1
    /\ job.at \in {"waiting", "completed", "failed"} =>
           \A u \in Recipients : rows[u] <= Runs /\ emails[u] <= Runs
    /\ job.at \in Running =>
           /\ \A u \in Recipients :
                 /\ rows[u] < Runs + (IF Written(u) THEN 1 ELSE 0)
                 /\ emails[u] < Runs + (IF Mailed(u) THEN 1 ELSE 0)
           /\ job.at \in {"write", "mail"} => job.page # {} /\ \A u \in job.page : job.cursor < u

(* While nothing disturbs the run: those of the segment up to the cursor    *)
(* have what they shall have (no e-mail where none could be enqueued), the  *)
(* page is the next part of the segment, and at the end there is no one     *)
(* beyond the cursor.                                                      *)
Has(S, u) == IF u \in S THEN 1 ELSE 0
Pushed == {u \in Segment : Broadcast!ShouldPush(job.channel)}
Emailed == {u \in Segment \ missed : Broadcast!ShouldEmail(job.channel)}
ExactInv ==
    /\ job.at = "waiting" => missed = {} /\ \A u \in Recipients : rows[u] = 0 /\ emails[u] = 0
    /\ job.at \in Running =>
           /\ \A u \in missed : Mailed(u)
           /\ \A u \in Recipients : /\ rows[u] = Has({v \in Pushed : Written(v)}, u)
                                    /\ emails[u] = Has({v \in Emailed : Mailed(v)}, u)
           /\ job.cursor = 0 \/ job.cursor \in Segment
    /\ job.at \in {"write", "mail"} =>
           /\ job.page \subseteq Segment
           /\ \A u \in job.page, v \in Segment : job.cursor < v /\ v < u => v \in job.page
    /\ job.at = "finish" => \A u \in Segment : u <= job.cursor
    /\ job.at = "completed" =>
           \A u \in Recipients : rows[u] = Has(Pushed, u) /\ emails[u] = Has(Emailed, u)

BroadcastInv ==
    BroadcastType /\ RowInv /\ RunsInv /\ (Broadcast!Undisturbed => ExactInv)

LEMMA BroadcastFirst ==
    ASSUME NEW S, NEW n
    PROVE  Broadcast!First(S, n) = First(S, n)
    <1>1. \A T : Broadcast!Cardinality(T) = Cardinality(T)
        BY DEF Broadcast!Cardinality, Cardinality
    <1> QED BY <1>1 DEF Broadcast!First, First, Below

LEMMA SmallBroadcast ==
    ASSUME BroadcastAssumption
    PROVE  /\ N \in Nat /\ BatchSize \in Nat /\ BatchSize >= 1
           /\ Attempts \in Nat /\ Attempts >= 1 /\ MaxCrashes \in Nat
           /\ Cap \in Nat /\ Attempts + MaxCrashes < Cap
           /\ Recipients = 1 .. N /\ \A u \in Recipients : u \in Nat /\ u <= N /\ u > 0
    BY BroadcastAssumption DEF Broadcast!BroadcastsAssumption, Recipients, Broadcast!Users

(* The page findMany returns: what the run has not come to, next in line.   *)
LEMMA NextPage ==
    ASSUME BroadcastAssumption, BroadcastType, job.at = "fetch"
    PROVE  /\ Broadcast!Page \subseteq Recipients
           /\ \A u \in Broadcast!Page : job.cursor < u
           /\ Broadcast!Undisturbed /\ (job.cursor = 0 \/ job.cursor \in Segment) =>
                 /\ Broadcast!Page \subseteq Segment
                 /\ \A u \in Broadcast!Page, v \in Segment :
                        job.cursor < v /\ v < u => v \in Broadcast!Page
                 /\ Broadcast!Page = {} => \A u \in Segment : u <= job.cursor
    <1> DEFINE c == job.cursor
               from == Broadcast!From(c)
               rest == IF c = 0 THEN from ELSE from \ First(from, 1)
    <1>1. c \in 0 .. N /\ c \in Nat
        <2>1. job \in [at : Running, left : 0 .. Attempts - 1, target : Targets, channel : Channels,
                       cursor : 0 .. N, total : Nat, page : SUBSET Recipients]
            BY DEF BroadcastType, BroadcastJob, Broadcast!NoJob
        <2> QED BY <2>1, SmallBroadcast
    <1>2. Broadcast!Page = First(rest, BatchSize)
        BY BroadcastFirst DEF Broadcast!Page
    <1>3. Segment \subseteq Recipients
        BY DEF Segment, Broadcast!Segment, Recipients
    <1>4. from \subseteq {u \in Segment : u >= c}
        BY DEF Broadcast!From, Segment
    <1> HIDE DEF c
    <1>5. \A x \in from : x \in Nat /\ x <= N /\ x > 0
        BY <1>3, <1>4, SmallBroadcast
    <1> HIDE DEF from
    <1>6. ASSUME c # 0, c \in from PROVE First(from, 1) = {c}
        <2>1. Below(from, c) = {}
            BY <1>1, <1>4, <1>5 DEF Below
        <2>2. c \in First(from, 1)
            BY <1>6, <2>1, FS_EmptySet DEF First
        <2>3. ASSUME NEW u \in First(from, 1) PROVE u = c
            <3>1. u \in from /\ Cardinality(Below(from, u)) < 1
                BY DEF First
            <3>2. IsFiniteSet(Below(from, u)) /\ Cardinality(Below(from, u)) \in Nat
                <4>1. Below(from, u) \in SUBSET (1 .. N)
                    BY <1>5, SmallBroadcast DEF Below
                <4>2. IsFiniteSet(1 .. N)
                    BY SmallBroadcast, FS_Interval
                <4> QED BY <4>1, <4>2, FS_Subset, FS_CardinalityType
            <3>3. Below(from, u) = {}
                BY <3>1, <3>2, FS_EmptySet
            <3>4. ~(c < u)
                BY <1>6, <3>3 DEF Below
            <3>5. u >= c
                BY <1>4, <3>1
            <3> QED BY <1>1, <1>5, <3>1, <3>4, <3>5
        <2> QED BY <2>2, <2>3
    <1>7. rest \subseteq from /\ \A u \in rest : c < u
        <2>1. CASE c = 0
            BY <1>5, <2>1
        <2>2. CASE c # 0
            BY <1>1, <1>4, <1>5, <1>6, <2>2
        <2> QED BY <2>1, <2>2
    <1>8. Broadcast!Undisturbed /\ (c = 0 \/ c \in Segment) => rest = {u \in Segment : c < u}
        <2> SUFFICES ASSUME Broadcast!Undisturbed, c = 0 \/ c \in Segment
                     PROVE  rest = {u \in Segment : c < u}
            OBVIOUS
        <2>1. from = {u \in Segment : u >= c}
            <3>1. c # 0 => status[c] # "gone"
                BY <1>3 DEF Broadcast!Undisturbed, Recipients
            <3> QED BY <3>1 DEF Broadcast!From, Segment, from
        <2>2. CASE c = 0
            BY <1>3, <2>1, <2>2, SmallBroadcast
        <2>3. CASE c # 0
            <3>1. rest = from \ {c}
                BY <1>1, <1>6, <2>1, <2>3
            <3> QED BY <1>1, <1>3, <2>1, <3>1, SmallBroadcast
        <2> QED BY <2>2, <2>3
    <1> HIDE DEF rest
    <1>9. /\ First(rest, BatchSize) \subseteq rest
          /\ \A u \in First(rest, BatchSize) : \A v \in rest : v < u => v \in First(rest, BatchSize)
          /\ rest # {} => First(rest, BatchSize) # {}
        <2>1. \A x \in rest : x \in Nat /\ x <= N
            BY <1>5, <1>7
        <2> QED BY <2>1, SmallBroadcast, FirstFew
    <1>10. \A u \in Segment : u \in Nat
        BY <1>3, SmallBroadcast
    <1>11. Broadcast!Page \subseteq Recipients /\ \A u \in Broadcast!Page : c < u
        BY <1>2, <1>3, <1>4, <1>7, <1>9
    <1>12. ASSUME Broadcast!Undisturbed, c = 0 \/ c \in Segment
           PROVE  /\ Broadcast!Page \subseteq Segment
                  /\ \A u \in Broadcast!Page, v \in Segment : c < v /\ v < u => v \in Broadcast!Page
                  /\ Broadcast!Page = {} => \A u \in Segment : u <= c
        BY <1>1, <1>2, <1>8, <1>9, <1>10, <1>12
    <1> QED BY <1>11, <1>12 DEF c

LEMMA RunningJob ==
    ASSUME BroadcastAssumption, BroadcastType, job.at \in Running
    PROVE  /\ job.left \in 0 .. Attempts - 1 /\ job.target \in Targets /\ job.channel \in Channels
           /\ job.cursor \in 0 .. N /\ job.total \in Nat /\ job.page \in SUBSET Recipients
           /\ job = [at |-> job.at, left |-> job.left, target |-> job.target, channel |-> job.channel,
                     cursor |-> job.cursor, total |-> job.total, page |-> job.page]
    <1>1. job \in [at : Running, left : 0 .. Attempts - 1, target : Targets, channel : Channels,
                   cursor : 0 .. N, total : Nat, page : SUBSET Recipients]
        BY DEF BroadcastType, BroadcastJob, Broadcast!NoJob, Running
    <1> QED BY <1>1

LEMMA QueuedJob ==
    ASSUME BroadcastType, job.at \in {"lost", "delayed", "waiting", "completed", "failed"}
    PROVE  /\ job.left \in 0 .. Attempts /\ job.target \in Targets /\ job.channel \in Channels
           /\ job = [at |-> job.at, left |-> job.left, target |-> job.target, channel |-> job.channel]
    <1>1. job \in [at : {"lost", "delayed", "waiting", "completed", "failed"}, left : 0 .. Attempts,
                   target : Targets, channel : Channels]
        BY DEF BroadcastType, BroadcastJob, Broadcast!NoJob, Running
    <1> QED BY <1>1

LEMMA SameSegment ==
    ASSUME UNCHANGED <<status, deleter, crashes>>, job'.target = job.target
    PROVE  /\ Broadcast!Undisturbed' = Broadcast!Undisturbed
           /\ Segment' = Segment
    BY DEF Broadcast!Undisturbed, Segment, Broadcast!Segment, Broadcast!Users

LEMMA InitBroadcastInv ==
    ASSUME BroadcastAssumption, Broadcast!Init
    PROVE  BroadcastInv
    <1>1. BroadcastType
        BY SmallBroadcast DEF Broadcast!Init, BroadcastType, BroadcastJob, Broadcast!NoBroadcast, Recipients
    <1>2. /\ job.at = "none" /\ crashes = 0 /\ missed = {}
          /\ \A u \in Recipients : rows[u] = 0 /\ emails[u] = 0
        BY DEF Broadcast!Init, Broadcast!NoJob, Recipients
    <1> QED BY <1>1, <1>2 DEF BroadcastInv, RowInv, RunsInv, ExactInv, Running

(* The request, and the queue before the worker takes the job.              *)
LEMMA NextRequest ==
    ASSUME BroadcastAssumption, BroadcastInv,
           Broadcast!CreateStep \/ Broadcast!Enqueue \/ Broadcast!EnqueueFails \/ Broadcast!Due
    PROVE  BroadcastInv'
    <1>1. ASSUME Broadcast!CreateStep PROVE BroadcastInv'
        <2>1. PICK target \in Targets, channel \in Channels, later \in BOOLEAN :
                  Broadcast!Create(target, channel, later)
            BY <1>1 DEF Broadcast!CreateStep
        <2>2. job.at = "none"
            BY <1>1, <2>1 DEF BroadcastInv, RowInv, Broadcast!CreateStep, Broadcast!Create
        <2>3. /\ job' = [at |-> "enqueue", later |-> later, target |-> target, channel |-> channel]
              /\ job'.at = "enqueue" /\ job' \in BroadcastJob
              /\ UNCHANGED <<status, rows, emails, missed, deleter, crashes>>
            BY <2>1 DEF Broadcast!Create, BroadcastJob
        <2>4. /\ "status" \in DOMAIN broadcast' /\ broadcast'.status \in {"SCHEDULED", "SENT"}
              /\ broadcast' # Broadcast!NoBroadcast
            BY <2>1 DEF Broadcast!Create, Broadcast!NoBroadcast
        <2>5. BroadcastType'
            BY <2>3, <2>4 DEF BroadcastInv, BroadcastType
        <2>6. RowInv' /\ RunsInv' /\ ExactInv'
            BY <2>2, <2>3, <2>4 DEF BroadcastInv, RowInv, RunsInv, ExactInv, Running
        <2> QED BY <2>5, <2>6 DEF BroadcastInv
    <1>2. ASSUME Broadcast!Enqueue \/ Broadcast!EnqueueFails PROVE BroadcastInv'
        <2>1. job.at = "enqueue" /\ UNCHANGED <<status, broadcast, rows, emails, missed, deleter, crashes>>
            BY <1>2 DEF Broadcast!Enqueue, Broadcast!EnqueueFails
        <2>2. job.target \in Targets /\ job.channel \in Channels
            BY <2>1 DEF BroadcastInv, BroadcastType, BroadcastJob, Broadcast!NoJob, Running
        <2>3. PICK at \in {"delayed", "waiting", "lost"} :
                  job' = Broadcast!Queued(at, IF at = "lost" THEN 0 ELSE Attempts, job)
            BY <1>2 DEF Broadcast!Enqueue, Broadcast!EnqueueFails
        <2>4. job'.at = at /\ job'.left = (IF at = "lost" THEN 0 ELSE Attempts)
            BY <2>3 DEF Broadcast!Queued
        <2>5. job' \in BroadcastJob
            BY <2>2, <2>3, SmallBroadcast DEF Broadcast!Queued, BroadcastJob
        <2>6. BroadcastType' /\ RowInv'
            BY <2>1, <2>4, <2>5 DEF BroadcastInv, BroadcastType, RowInv
        <2>7. crashes = 0 /\ missed = {} /\ \A u \in Recipients : rows[u] = 0 /\ emails[u] = 0
            BY <2>1 DEF BroadcastInv, RunsInv
        <2>8. RunsInv' /\ ExactInv'
            BY <2>1, <2>4, <2>7, SmallBroadcast DEF RunsInv, ExactInv, Running, Runs
        <2> QED BY <2>6, <2>8 DEF BroadcastInv
    <1>3. ASSUME Broadcast!Due PROVE BroadcastInv'
        <2>1. job.at = "delayed" /\ UNCHANGED <<status, broadcast, rows, emails, missed, deleter, crashes>>
            BY <1>3 DEF Broadcast!Due
        <2>2. job' = [at |-> "waiting", left |-> job.left, target |-> job.target, channel |-> job.channel]
            BY <1>3, <2>1, QueuedJob DEF Broadcast!Due, BroadcastInv
        <2>3. job' \in BroadcastJob /\ job'.at = "waiting" /\ job'.left = job.left
            BY <2>1, <2>2, QueuedJob DEF BroadcastInv, BroadcastJob
        <2>4. BroadcastType' /\ RowInv'
            BY <2>1, <2>3 DEF BroadcastInv, BroadcastType, RowInv
        <2>5. job.left = Attempts /\ crashes = 0 /\ missed = {} /\ \A u \in Recipients : rows[u] = 0 /\ emails[u] = 0
            BY <2>1 DEF BroadcastInv, RunsInv
        <2>6. RunsInv' /\ ExactInv'
            BY <2>1, <2>3, <2>5, SmallBroadcast DEF RunsInv, ExactInv, Running, Runs
        <2> QED BY <2>4, <2>6 DEF BroadcastInv
    <1> QED BY <1>1, <1>2, <1>3

LEMMA NextTakeJob ==
    ASSUME BroadcastAssumption, BroadcastInv, Broadcast!Take
    PROVE  BroadcastInv'
    <1>1. job.at = "waiting" /\ UNCHANGED <<status, broadcast, rows, emails, missed, deleter, crashes>>
        BY DEF Broadcast!Take
    <1>2. /\ job.left \in 0 .. Attempts /\ job.target \in Targets /\ job.channel \in Channels
          /\ job.left >= 1
        BY <1>1, QueuedJob DEF BroadcastInv, RunsInv
    <1>3. job' = [at |-> "fetch", left |-> job.left - 1, target |-> job.target,
                  channel |-> job.channel, cursor |-> 0, total |-> 0, page |-> {}]
        BY DEF Broadcast!Take
    <1>4. /\ job'.at = "fetch" /\ job'.left = job.left - 1 /\ job'.cursor = 0 /\ job'.page = {}
          /\ job'.target = job.target /\ job' \in BroadcastJob
        BY <1>2, <1>3, SmallBroadcast DEF BroadcastJob, Running
    <1>5. BroadcastType' /\ RowInv'
        BY <1>1, <1>4 DEF BroadcastInv, BroadcastType, RowInv
    <1>6. \A u \in Recipients : rows[u] <= Runs /\ emails[u] <= Runs
        BY <1>1 DEF BroadcastInv, RunsInv
    <1>7. \A u \in Recipients : /\ rows[u] \in Nat /\ emails[u] \in Nat
                                /\ ~Written(u)' /\ ~Mailed(u)'
        BY <1>4, SmallBroadcast DEF BroadcastInv, BroadcastType, Written, Mailed
    <1>8. crashes \in Nat /\ Attempts \in Nat /\ Runs' = Runs + 1 /\ Runs \in Int
        BY <1>1, <1>2, <1>4, SmallBroadcast DEF BroadcastInv, BroadcastType, Runs
    <1>9. RunsInv'
        BY <1>1, <1>4, <1>6, <1>7, <1>8 DEF RunsInv, Running
    <1>10. Broadcast!Undisturbed' => ExactInv'
        <2> SUFFICES ASSUME Broadcast!Undisturbed' PROVE ExactInv'
            OBVIOUS
        <2>1. Broadcast!Undisturbed
            BY <1>1, <1>4, SameSegment
        <2>2. missed = {} /\ \A u \in Recipients : rows[u] = 0 /\ emails[u] = 0
            BY <1>1, <2>1 DEF BroadcastInv, ExactInv
        <2>3. Pushed' \subseteq Recipients /\ Emailed' \subseteq Recipients
            <3>1. Segment' \subseteq Recipients
                BY DEF Segment, Broadcast!Segment, Recipients
            <3> QED BY <3>1 DEF Pushed, Emailed
        <2>4. \A u \in Recipients : /\ Has({v \in Pushed : Written(v)}, u)' = 0
                                    /\ Has({v \in Emailed : Mailed(v)}, u)' = 0
            BY <1>7, <2>3 DEF Has
        <2> QED BY <1>1, <1>4, <2>2, <2>4 DEF ExactInv, Running
    <1> QED BY <1>5, <1>9, <1>10 DEF BroadcastInv

LEMMA NextFetch ==
    ASSUME BroadcastAssumption, BroadcastInv, Broadcast!Fetch
    PROVE  BroadcastInv'
    <1> DEFINE page == Broadcast!Page
    <1>1. job.at = "fetch" /\ UNCHANGED <<status, broadcast, rows, emails, missed, deleter, crashes>>
        BY DEF Broadcast!Fetch
    <1>2. BroadcastType
        BY DEF BroadcastInv
    <1>3. /\ page \subseteq Recipients /\ \A u \in page : job.cursor < u
          /\ Broadcast!Undisturbed /\ (job.cursor = 0 \/ job.cursor \in Segment) =>
                /\ page \subseteq Segment
                /\ \A u \in page, v \in Segment : job.cursor < v /\ v < u => v \in page
                /\ page = {} => \A u \in Segment : u <= job.cursor
        BY <1>1, <1>2, NextPage
    <1> DEFINE at == IF page = {} THEN "finish" ELSE "write"
    <1>4. job' = [job EXCEPT !.page = page, !.at = at]
        BY DEF Broadcast!Fetch
    <1> HIDE DEF page
    <1>5. /\ job.left \in 0 .. Attempts - 1 /\ job.target \in Targets /\ job.channel \in Channels
          /\ job.cursor \in 0 .. N /\ job.total \in Nat
          /\ job = [at |-> "fetch", left |-> job.left, target |-> job.target, channel |-> job.channel,
                    cursor |-> job.cursor, total |-> job.total, page |-> job.page]
        BY <1>1, <1>2, RunningJob DEF Running
    <1>6. job' = [at |-> at, left |-> job.left, target |-> job.target, channel |-> job.channel,
                  cursor |-> job.cursor, total |-> job.total, page |-> page]
        BY <1>4, <1>5
    <1>7. /\ job'.at = at /\ job'.left = job.left /\ job'.target = job.target
          /\ job'.channel = job.channel /\ job'.cursor = job.cursor /\ job'.page = page
          /\ job' \in BroadcastJob
        BY <1>3, <1>5, <1>6 DEF BroadcastJob, Running
    <1>8. BroadcastType' /\ RowInv'
        BY <1>1, <1>7 DEF BroadcastInv, BroadcastType, RowInv
    <1>9. \A u : Written(u)' = Written(u) /\ Mailed(u)' = Mailed(u)
        BY <1>1, <1>7 DEF Written, Mailed
    <1>10. Runs' = Runs
        BY <1>1, <1>7 DEF Runs
    <1>11. /\ \A u \in Recipients :
                /\ rows[u] < Runs + (IF Written(u) THEN 1 ELSE 0)
                /\ emails[u] < Runs + (IF Mailed(u) THEN 1 ELSE 0)
        BY <1>1 DEF BroadcastInv, RunsInv, Running
    <1>12. RunsInv'
        BY <1>1, <1>3, <1>7, <1>9, <1>10, <1>11 DEF RunsInv, Running
    <1>13. Broadcast!Undisturbed' => ExactInv'
        <2> SUFFICES ASSUME Broadcast!Undisturbed' PROVE ExactInv'
            OBVIOUS
        <2>1. Broadcast!Undisturbed /\ Segment' = Segment
            BY <1>1, <1>7, SameSegment
        <2>2. /\ \A u \in Recipients : /\ rows[u] = Has({v \in Pushed : Written(v)}, u)
                                       /\ emails[u] = Has({v \in Emailed : Mailed(v)}, u)
              /\ job.cursor = 0 \/ job.cursor \in Segment
              /\ \A u \in missed : Mailed(u)
            BY <1>1, <2>1 DEF BroadcastInv, ExactInv, Running
        <2>3. Pushed' = Pushed /\ Emailed' = Emailed
            BY <1>1, <1>7, <2>1 DEF Pushed, Emailed
        <2>4. \A u : /\ Has({v \in Pushed : Written(v)}, u)' = Has({v \in Pushed : Written(v)}, u)
                     /\ Has({v \in Emailed : Mailed(v)}, u)' = Has({v \in Emailed : Mailed(v)}, u)
            BY <1>9, <2>3 DEF Has
        <2> QED BY <1>1, <1>3, <1>7, <1>9, <2>1, <2>2, <2>4 DEF ExactInv, Running
    <1> QED BY <1>8, <1>12, <1>13 DEF BroadcastInv

(* A run that is over, whose job goes back to the queue or has failed.      *)
LEMMA JobThrown ==
    ASSUME BroadcastAssumption, BroadcastInv, job.at \in {"write", "finish"},
           job' = Broadcast!Thrown(job), ~Broadcast!Undisturbed,
           UNCHANGED <<status, broadcast, rows, emails, missed, deleter, crashes>>
    PROVE  BroadcastInv'
    <1>1. job.left \in 0 .. Attempts - 1 /\ job.target \in Targets /\ job.channel \in Channels
        BY RunningJob DEF BroadcastInv, Running
    <1>2. PICK at \in {"failed", "waiting"} :
              /\ at = "waiting" => job.left >= 1
              /\ job' = [at |-> at, left |-> job.left, target |-> job.target, channel |-> job.channel]
        BY <1>1, SmallBroadcast DEF Broadcast!Thrown, Broadcast!Queued
    <1>3. /\ job'.at = at /\ job'.left = job.left /\ job'.target = job.target
          /\ job' \in BroadcastJob
        BY <1>1, <1>2, SmallBroadcast DEF BroadcastJob
    <1>4. BroadcastType' /\ RowInv'
        BY <1>3 DEF BroadcastInv, BroadcastType, RowInv
    <1>5. ~Broadcast!Undisturbed'
        BY <1>3, SameSegment
    <1>6. Runs' = Runs /\ Runs \in Int
        BY <1>1, <1>3, SmallBroadcast DEF Runs, BroadcastInv, BroadcastType
    <1>7. \A u \in Recipients : rows[u] <= Runs /\ emails[u] <= Runs
        <2> SUFFICES ASSUME NEW u \in Recipients PROVE rows[u] <= Runs /\ emails[u] <= Runs
            OBVIOUS
        <2>1. /\ rows[u] < Runs + (IF Written(u) THEN 1 ELSE 0)
              /\ emails[u] < Runs + (IF Mailed(u) THEN 1 ELSE 0)
            BY DEF BroadcastInv, RunsInv, Running
        <2>2. rows[u] \in Nat /\ emails[u] \in Nat
            BY SmallBroadcast DEF BroadcastInv, BroadcastType
        <2> QED BY <1>6, <2>1, <2>2
    <1>8. RunsInv'
        BY <1>2, <1>3, <1>6, <1>7 DEF RunsInv, Running
    <1> QED BY <1>4, <1>5, <1>8 DEF BroadcastInv

LEMMA CountedUp ==
    ASSUME BroadcastAssumption, NEW count \in [Recipients -> 0 .. Cap], NEW S
    PROVE  /\ Broadcast!CountUp(count, S) \in [Recipients -> 0 .. Cap]
           /\ \A u \in Recipients :
                 /\ count[u] <= Broadcast!CountUp(count, S)[u]
                 /\ Broadcast!CountUp(count, S)[u] <= count[u] + 1
                 /\ u \notin S => Broadcast!CountUp(count, S)[u] = count[u]
                 /\ u \in S /\ count[u] = 0 => Broadcast!CountUp(count, S)[u] = 1
    BY SmallBroadcast DEF Broadcast!CountUp, Recipients

LEMMA NextWriteRows ==
    ASSUME BroadcastAssumption, BroadcastInv, Broadcast!WriteRows
    PROVE  BroadcastInv'
    <1>1. job.at = "write" /\ UNCHANGED <<status, broadcast, emails, missed, deleter, crashes>>
        BY DEF Broadcast!WriteRows
    <1>2. /\ job.left \in 0 .. Attempts - 1 /\ job.target \in Targets /\ job.channel \in Channels
          /\ job.cursor \in 0 .. N /\ job.total \in Nat /\ job.page \in SUBSET Recipients
          /\ job = [at |-> "write", left |-> job.left, target |-> job.target, channel |-> job.channel,
                    cursor |-> job.cursor, total |-> job.total, page |-> job.page]
        BY <1>1, RunningJob DEF BroadcastInv, Running
    <1>3. CASE Broadcast!ShouldPush(job.channel) /\ \E u \in job.page : status[u] = "gone"
        <2>1. ~Broadcast!Undisturbed
            BY <1>2, <1>3 DEF Broadcast!Undisturbed, Recipients
        <2>2. job' = Broadcast!Thrown(job) /\ UNCHANGED rows
            BY <1>3 DEF Broadcast!WriteRows
        <2> QED BY <1>1, <2>1, <2>2, JobThrown
    <1>4. CASE ~(Broadcast!ShouldPush(job.channel) /\ \E u \in job.page : status[u] = "gone")
        <2> DEFINE S == IF Broadcast!ShouldPush(job.channel) THEN job.page ELSE {}
        <2>1. job' = [job EXCEPT !.at = "mail"]
            BY <1>4 DEF Broadcast!WriteRows
        <2>2. rows' = IF Broadcast!ShouldPush(job.channel) THEN Broadcast!CountUp(rows, job.page) ELSE rows
            BY <1>4 DEF Broadcast!WriteRows
        <2>3. /\ job'.at = "mail" /\ job'.left = job.left /\ job'.target = job.target
              /\ job'.channel = job.channel /\ job'.cursor = job.cursor /\ job'.page = job.page
              /\ job' \in BroadcastJob
            <3>1. job' = [at |-> "mail", left |-> job.left, target |-> job.target, channel |-> job.channel,
                          cursor |-> job.cursor, total |-> job.total, page |-> job.page]
                BY <1>2, <2>1
            <3> QED BY <1>2, <3>1 DEF BroadcastJob, Running
        <2>4. rows \in [Recipients -> 0 .. Cap]
            BY DEF BroadcastInv, BroadcastType
        <2>5. /\ rows' \in [Recipients -> 0 .. Cap]
              /\ \A u \in Recipients :
                    /\ rows'[u] <= rows[u] + 1
                    /\ u \notin S => rows'[u] = rows[u]
                    /\ u \in S /\ rows[u] = 0 => rows'[u] = 1
            BY <2>2, <2>4, CountedUp, SmallBroadcast
        <2>6. BroadcastType' /\ RowInv'
            BY <1>1, <2>3, <2>5 DEF BroadcastInv, BroadcastType, RowInv
        <2>7. \A u : (Written(u)' <=> Written(u) \/ u \in job.page) /\ (Mailed(u)' <=> Mailed(u))
                     /\ (Written(u) <=> Mailed(u))
            BY <1>1, <2>3 DEF Written, Mailed
        <2>8. Runs' = Runs /\ Runs \in Int
            BY <1>1, <1>2, <2>3, SmallBroadcast DEF Runs, BroadcastInv, BroadcastType
        <2>9. /\ job.page # {} /\ \A u \in job.page : job.cursor < u
              /\ \A u \in Recipients :
                    /\ rows[u] < Runs + (IF Written(u) THEN 1 ELSE 0)
                    /\ emails[u] < Runs + (IF Mailed(u) THEN 1 ELSE 0)
            BY <1>1 DEF BroadcastInv, RunsInv, Running
        <2>10. ASSUME NEW u \in Recipients
               PROVE  /\ rows'[u] < Runs' + (IF Written(u)' THEN 1 ELSE 0)
                      /\ emails'[u] < Runs' + (IF Mailed(u)' THEN 1 ELSE 0)
            <3>1. rows[u] \in Nat /\ rows'[u] \in Nat
                BY <2>4, <2>5, SmallBroadcast
            <3>2. u \in job.page => ~Written(u)
                <4>1. u \in job.page => job.cursor < u
                    BY <2>9
                <4> QED BY <1>1, <1>2, <4>1, SmallBroadcast DEF Written
            <3>3. emails'[u] < Runs' + (IF Mailed(u)' THEN 1 ELSE 0)
                BY <1>1, <2>7, <2>8, <2>9
            <3>4. CASE u \in job.page
                BY <3>1, <3>2, <3>3, <3>4, <2>5, <2>7, <2>8, <2>9
            <3>5. CASE u \notin job.page
                BY <3>1, <3>3, <3>5, <2>5, <2>7, <2>8, <2>9
            <3> QED BY <3>4, <3>5
        <2>11. RunsInv'
            BY <1>1, <2>3, <2>9, <2>10 DEF RunsInv, Running
        <2>12. Broadcast!Undisturbed' => ExactInv'
            <3> SUFFICES ASSUME Broadcast!Undisturbed' PROVE ExactInv'
                OBVIOUS
            <3>1. Broadcast!Undisturbed /\ Segment' = Segment
                BY <1>1, <2>3, SameSegment
            <3>2. /\ \A u \in Recipients : /\ rows[u] = Has({v \in Pushed : Written(v)}, u)
                                           /\ emails[u] = Has({v \in Emailed : Mailed(v)}, u)
                  /\ job.cursor = 0 \/ job.cursor \in Segment
                  /\ job.page \subseteq Segment
                  /\ \A u \in job.page, v \in Segment : job.cursor < v /\ v < u => v \in job.page
                  /\ \A u \in missed : Mailed(u)
                BY <1>1, <3>1 DEF BroadcastInv, ExactInv, Running
            <3>3. Pushed' = Pushed /\ Emailed' = Emailed
                BY <1>1, <2>3, <3>1 DEF Pushed, Emailed
            <3>4. ASSUME NEW u \in Recipients
                  PROVE  /\ rows'[u] = Has({v \in Pushed : Written(v)}, u)'
                         /\ emails'[u] = Has({v \in Emailed : Mailed(v)}, u)'
                <4>1. u \in job.page => ~Written(u)
                    <5>1. u \in job.page => job.cursor < u
                        BY <2>9
                    <5> QED BY <1>1, <1>2, <5>1, SmallBroadcast DEF Written
                <4>2. u \in S <=> u \in job.page /\ u \in Pushed
                    BY <3>2 DEF Pushed
                <4>3. rows[u] = Has({v \in Pushed : Written(v)}, u)
                    BY <3>2
                <4>4. CASE u \in S
                    <5>1. rows[u] = 0 /\ rows'[u] = 1
                        BY <2>5, <4>1, <4>2, <4>3, <4>4 DEF Has
                    <5>2. u \in {v \in Pushed' : Written(v)'}
                        BY <2>7, <3>3, <4>2, <4>4
                    <5>3. Has({v \in Pushed : Written(v)}, u)' = 1
                        BY <5>2 DEF Has
                    <5> QED BY <1>1, <2>7, <3>2, <3>3, <5>1, <5>3 DEF Has
                <4>5. CASE u \notin S
                    <5>1. rows'[u] = rows[u]
                        BY <2>5, <4>5
                    <5>2. (u \in Pushed /\ Written(u)') <=> (u \in Pushed /\ Written(u))
                        BY <2>7, <4>2, <4>5
                    <5> QED BY <1>1, <2>7, <3>2, <3>3, <5>1, <5>2 DEF Has
                <4> QED BY <4>4, <4>5
            <3> QED BY <1>1, <2>3, <2>7, <3>1, <3>2, <3>4 DEF ExactInv, Running
        <2> QED BY <2>6, <2>11, <2>12 DEF BroadcastInv
    <1> QED BY <1>3, <1>4

LEMMA BroadcastMax ==
    ASSUME BroadcastAssumption, NEW S \in SUBSET Recipients, S # {}
    PROVE  Broadcast!Max(S) \in S /\ \A u \in S : u <= Broadcast!Max(S)
    <1>1. \A u \in S : u \in Nat /\ u <= N
        BY SmallBroadcast
    <1>2. \E x \in S : \A y \in S : x >= y
        BY <1>1, SmallBroadcast, Largest
    <1> QED BY <1>2 DEF Broadcast!Max

LEMMA NextSendEmails ==
    ASSUME BroadcastAssumption, BroadcastInv, Broadcast!SendEmails
    PROVE  BroadcastInv'
    <1>0. PICK failed \in SUBSET job.page :
              /\ Broadcast!ShouldEmail(job.channel) =>
                     /\ emails' = Broadcast!CountUp(emails, job.page \ failed)
                     /\ missed' = missed \cup failed
              /\ ~Broadcast!ShouldEmail(job.channel) => UNCHANGED <<emails, missed>>
        BY DEF Broadcast!SendEmails
    <1> DEFINE top == Broadcast!Max(job.page)
               total == job.total + Broadcast!Cardinality(job.page)
               S == IF Broadcast!ShouldEmail(job.channel) THEN job.page \ failed ELSE {}
               T == IF Broadcast!ShouldEmail(job.channel) THEN failed ELSE {}
    <1>1. job.at = "mail" /\ UNCHANGED <<status, broadcast, rows, deleter, crashes>>
        BY DEF Broadcast!SendEmails
    <1>2. /\ job.left \in 0 .. Attempts - 1 /\ job.target \in Targets /\ job.channel \in Channels
          /\ job.cursor \in 0 .. N /\ job.total \in Nat /\ job.page \in SUBSET Recipients
          /\ job = [at |-> "mail", left |-> job.left, target |-> job.target, channel |-> job.channel,
                    cursor |-> job.cursor, total |-> job.total, page |-> job.page]
        BY <1>1, RunningJob DEF BroadcastInv, Running
    <1>3. /\ job.page # {} /\ \A u \in job.page : job.cursor < u
          /\ \A u \in Recipients :
                /\ rows[u] < Runs + (IF Written(u) THEN 1 ELSE 0)
                /\ emails[u] < Runs + (IF Mailed(u) THEN 1 ELSE 0)
        BY <1>1 DEF BroadcastInv, RunsInv, Running
    <1>4. top \in job.page /\ \A u \in job.page : u <= top
        BY <1>2, <1>3, BroadcastMax
    <1>5. total \in Nat
        <2>1. N \in Nat /\ job.page \in SUBSET (1 .. N)
            BY <1>2, SmallBroadcast
        <2>2. Cardinality(job.page) \in Nat
            <3>1. IsFiniteSet(1 .. N)
                BY <2>1, FS_Interval
            <3> QED BY <2>1, <3>1, FS_Subset, FS_CardinalityType
        <2>3. Broadcast!Cardinality(job.page) = Cardinality(job.page)
            BY DEF Broadcast!Cardinality, Cardinality
        <2>4. job.total \in Nat
            BY <1>2
        <2> QED BY <2>2, <2>3, <2>4
    <1>6. job' = [at |-> "fetch", left |-> job.left, target |-> job.target, channel |-> job.channel,
                  cursor |-> top, total |-> total, page |-> {}]
        BY <1>2 DEF Broadcast!SendEmails
    <1>7. /\ emails' = IF Broadcast!ShouldEmail(job.channel)
                       THEN Broadcast!CountUp(emails, job.page \ failed) ELSE emails
          /\ missed' = missed \cup T
        BY <1>0
    <1> HIDE DEF top, total
    <1>8. top \in 0 .. N /\ top \in Nat /\ job.cursor < top
        BY <1>2, <1>3, <1>4, SmallBroadcast
    <1>9. /\ job'.at = "fetch" /\ job'.left = job.left /\ job'.target = job.target
          /\ job'.channel = job.channel /\ job'.cursor = top /\ job'.page = {}
          /\ job' \in BroadcastJob
        BY <1>2, <1>5, <1>6, <1>8 DEF BroadcastJob, Running
    <1>10. /\ rows \in [Recipients -> 0 .. Cap] /\ emails \in [Recipients -> 0 .. Cap]
           /\ missed \subseteq Recipients /\ missed' \subseteq Recipients
        BY <1>2, <1>7 DEF BroadcastInv, BroadcastType
    <1>11. /\ emails' \in [Recipients -> 0 .. Cap]
           /\ \A u \in Recipients :
                 /\ emails'[u] <= emails[u] + 1
                 /\ u \notin S => emails'[u] = emails[u]
                 /\ u \in S /\ emails[u] = 0 => emails'[u] = 1
        BY <1>7, <1>10, CountedUp, SmallBroadcast
    <1>12. BroadcastType' /\ RowInv'
        BY <1>1, <1>9, <1>10, <1>11 DEF BroadcastInv, BroadcastType, RowInv
    <1>13. ASSUME NEW u \in Recipients
           PROVE  /\ Written(u) => Written(u)'
                  /\ Mailed(u) \/ u \in job.page => Mailed(u)'
                  /\ u \in job.page => Written(u)'
                  /\ u \in job.page => ~Mailed(u)
        <2>1. u \in Nat /\ (u \in job.page => u <= top /\ job.cursor < u)
            BY <1>3, <1>4, SmallBroadcast
        <2> QED BY <1>1, <1>2, <1>8, <1>9, <2>1, SmallBroadcast DEF Written, Mailed
    <1>14. Runs' = Runs /\ Runs \in Int
        BY <1>1, <1>2, <1>9, SmallBroadcast DEF Runs, BroadcastInv, BroadcastType
    <1>15. ASSUME NEW u \in Recipients
           PROVE  /\ rows'[u] < Runs' + (IF Written(u)' THEN 1 ELSE 0)
                  /\ emails'[u] < Runs' + (IF Mailed(u)' THEN 1 ELSE 0)
        <2>1. rows[u] \in Nat /\ emails[u] \in Nat /\ emails'[u] \in Nat /\ rows'[u] = rows[u]
            BY <1>1, <1>10, <1>11, SmallBroadcast
        <2>2. rows'[u] < Runs' + (IF Written(u)' THEN 1 ELSE 0)
            BY <1>3, <1>13, <1>14, <2>1
        <2>3. CASE u \in job.page
            BY <2>1, <2>2, <2>3, <1>3, <1>11, <1>13, <1>14
        <2>4. CASE u \notin job.page
            BY <2>1, <2>2, <2>4, <1>3, <1>11, <1>13, <1>14
        <2> QED BY <2>3, <2>4
    <1>16. RunsInv'
        BY <1>9, <1>15 DEF RunsInv, Running
    <1>17. Broadcast!Undisturbed' => ExactInv'
        <2> SUFFICES ASSUME Broadcast!Undisturbed' PROVE ExactInv'
            OBVIOUS
        <2>1. Broadcast!Undisturbed /\ Segment' = Segment
            BY <1>1, <1>9, SameSegment
        <2>2. /\ \A u \in Recipients : /\ rows[u] = Has({v \in Pushed : Written(v)}, u)
                                       /\ emails[u] = Has({v \in Emailed : Mailed(v)}, u)
              /\ job.page \subseteq Segment
              /\ \A u \in job.page, v \in Segment : job.cursor < v /\ v < u => v \in job.page
              /\ \A u \in missed : Mailed(u)
            BY <1>1, <2>1 DEF BroadcastInv, ExactInv, Running
        <2>3. Pushed' = Pushed /\ Emailed' = Emailed \ T
            BY <1>7, <1>9, <2>1 DEF Pushed, Emailed
        <2>30. \A u \in missed' : Mailed(u)'
            BY <1>2, <1>7, <1>10, <1>13, <2>2
        <2>4. ASSUME NEW u \in Recipients, u \in Segment
              PROVE  /\ Written(u)' <=> Written(u)
                     /\ Mailed(u)' <=> Mailed(u) \/ u \in job.page
            <3>1. u <= top => u <= job.cursor \/ u \in job.page
                BY <1>2, <1>4, <1>8, <2>2, <2>4, SmallBroadcast
            <3> QED BY <1>1, <1>9, <1>13, <3>1 DEF Written, Mailed
        <2>5. Pushed \subseteq Segment /\ Emailed \subseteq Segment
            BY DEF Pushed, Emailed
        <2>6. ASSUME NEW u \in Recipients
              PROVE  rows'[u] = Has({v \in Pushed : Written(v)}, u)'
            <3>1. u \in {v \in Pushed' : Written(v)'} <=> u \in {v \in Pushed : Written(v)}
                BY <2>3, <2>4, <2>5
            <3> QED BY <1>1, <2>2, <3>1 DEF Has
        <2>7. ASSUME NEW u \in Recipients
              PROVE  emails'[u] = Has({v \in Emailed : Mailed(v)}, u)'
            <3>1. u \in S <=> u \in job.page /\ u \in Emailed \ T
                BY <1>13, <2>2 DEF Emailed
            <3>2. u \in {v \in Emailed' : Mailed(v)'} <=> u \in {v \in Emailed : Mailed(v)} \/ u \in S
                <4>1. u \in T => u \in job.page
                    OBVIOUS
                <4>2. u \in job.page => ~Mailed(u)
                    BY <1>13
                <4> HIDE DEF T, S
                <4> QED BY <2>3, <2>4, <2>5, <3>1, <4>1, <4>2
            <3>3. CASE u \in S
                <4>1. emails[u] = 0 /\ emails'[u] = 1
                    BY <1>11, <1>13, <2>2, <3>1, <3>3 DEF Has
                <4> QED BY <3>1, <3>2, <3>3, <4>1 DEF Has
            <3>4. CASE u \notin S
                BY <1>11, <2>2, <3>1, <3>2, <3>4 DEF Has
            <3> QED BY <3>3, <3>4
        <2> QED BY <1>4, <1>9, <2>1, <2>2, <2>30, <2>6, <2>7 DEF ExactInv, Running
    <1> QED BY <1>12, <1>16, <1>17 DEF BroadcastInv

LEMMA NextFinish ==
    ASSUME BroadcastAssumption, BroadcastInv, Broadcast!Finish
    PROVE  BroadcastInv'
    <1>1. job.at = "finish" /\ UNCHANGED <<status, rows, emails, missed, deleter, crashes>>
        BY DEF Broadcast!Finish
    <1>2. /\ job.left \in 0 .. Attempts - 1 /\ job.target \in Targets /\ job.channel \in Channels
          /\ job.cursor \in 0 .. N
        BY <1>1, RunningJob DEF BroadcastInv, Running
    <1>3. CASE broadcast = Broadcast!NoBroadcast
        <2>1. job' = Broadcast!Thrown(job) /\ UNCHANGED broadcast
            BY <1>3 DEF Broadcast!Finish
        <2>2. ~Broadcast!Undisturbed
            BY <1>1, <1>3 DEF BroadcastInv, RowInv, Broadcast!Undisturbed
        <2> QED BY <1>1, <2>1, <2>2, JobThrown
    <1>4. CASE broadcast # Broadcast!NoBroadcast
        <2>1. job' = [at |-> "completed", left |-> job.left, target |-> job.target, channel |-> job.channel]
            BY <1>4 DEF Broadcast!Finish, Broadcast!Queued
        <2>2. /\ job'.at = "completed" /\ job'.left = job.left /\ job'.target = job.target
              /\ job'.channel = job.channel /\ job' \in BroadcastJob
            BY <1>2, <2>1, SmallBroadcast DEF BroadcastJob
        <2>3. /\ "status" \in DOMAIN broadcast' /\ broadcast'.status = "SENT"
              /\ broadcast' # Broadcast!NoBroadcast
            <3>1. /\ "status" \in DOMAIN broadcast
                  /\ broadcast' = [broadcast EXCEPT !.status = "SENT", !.totalSent = job.total]
                BY <1>4 DEF Broadcast!Finish, BroadcastInv, BroadcastType
            <3>2. "status" \in DOMAIN broadcast' /\ broadcast'.status = "SENT"
                BY <3>1
            <3> QED BY <3>2 DEF Broadcast!NoBroadcast
        <2>4. BroadcastType' /\ RowInv'
            BY <1>1, <2>2, <2>3 DEF BroadcastInv, BroadcastType, RowInv
        <2>5. Runs' = Runs /\ Runs \in Int
            BY <1>1, <1>2, <2>2, SmallBroadcast DEF Runs, BroadcastInv, BroadcastType
        <2>6. ASSUME NEW u \in Recipients PROVE rows[u] <= Runs /\ emails[u] <= Runs
            <3>1. /\ rows[u] < Runs + (IF Written(u) THEN 1 ELSE 0)
                  /\ emails[u] < Runs + (IF Mailed(u) THEN 1 ELSE 0)
                BY <1>1 DEF BroadcastInv, RunsInv, Running
            <3>2. rows[u] \in Nat /\ emails[u] \in Nat
                BY SmallBroadcast DEF BroadcastInv, BroadcastType
            <3> QED BY <2>5, <3>1, <3>2
        <2>7. RunsInv'
            BY <1>1, <2>2, <2>5, <2>6 DEF RunsInv, Running
        <2>8. Broadcast!Undisturbed' => ExactInv'
            <3> SUFFICES ASSUME Broadcast!Undisturbed' PROVE ExactInv'
                OBVIOUS
            <3>1. Broadcast!Undisturbed /\ Segment' = Segment
                BY <1>1, <2>2, SameSegment
            <3>2. /\ \A u \in Recipients : /\ rows[u] = Has({v \in Pushed : Written(v)}, u)
                                           /\ emails[u] = Has({v \in Emailed : Mailed(v)}, u)
                  /\ \A u \in Segment : u <= job.cursor
                BY <1>1, <3>1 DEF BroadcastInv, ExactInv, Running
            <3>3. Pushed' = Pushed /\ Emailed' = Emailed
                BY <1>1, <2>2, <3>1 DEF Pushed, Emailed
            <3>4. {v \in Pushed : Written(v)} = Pushed /\ {v \in Emailed : Mailed(v)} = Emailed
                BY <3>2 DEF Pushed, Emailed, Written, Mailed
            <3>5. \A u \in Recipients : rows'[u] = Has(Pushed', u) /\ emails'[u] = Has(Emailed', u)
                BY <1>1, <3>2, <3>3, <3>4
            <3> QED BY <2>2, <3>5 DEF ExactInv, Running, Has
        <2> QED BY <2>4, <2>7, <2>8 DEF BroadcastInv
    <1> QED BY <1>3, <1>4

LEMMA NextCrash ==
    ASSUME BroadcastAssumption, BroadcastInv, Broadcast!Crash
    PROVE  BroadcastInv'
    <1>1. /\ crashes < MaxCrashes /\ job.at \in Running /\ crashes' = crashes + 1
          /\ UNCHANGED <<status, broadcast, rows, emails, missed, deleter>>
        BY DEF Broadcast!Crash, Broadcast!Running, Running
    <1>2. /\ job.left \in 0 .. Attempts - 1 /\ job.target \in Targets /\ job.channel \in Channels
        BY <1>1, RunningJob DEF BroadcastInv
    <1>3. job' = [at |-> "waiting", left |-> job.left + 1, target |-> job.target, channel |-> job.channel]
        BY DEF Broadcast!Crash, Broadcast!Queued
    <1>4. job'.at = "waiting" /\ job'.left = job.left + 1 /\ job' \in BroadcastJob
        BY <1>2, <1>3, SmallBroadcast DEF BroadcastJob
    <1>5. crashes \in Nat /\ crashes' \in 0 .. MaxCrashes /\ crashes' # 0
        BY <1>1, SmallBroadcast DEF BroadcastInv, BroadcastType
    <1>6. BroadcastType' /\ RowInv'
        BY <1>1, <1>4, <1>5, Zenon DEF BroadcastInv, BroadcastType, RowInv, Running
    <1>7. Runs' = Runs /\ Runs \in Int
        BY <1>1, <1>2, <1>4, <1>5, SmallBroadcast DEF Runs
    <1>8. ASSUME NEW u \in Recipients PROVE rows[u] <= Runs /\ emails[u] <= Runs
        <2>1. /\ rows[u] < Runs + (IF Written(u) THEN 1 ELSE 0)
              /\ emails[u] < Runs + (IF Mailed(u) THEN 1 ELSE 0)
            BY <1>1 DEF BroadcastInv, RunsInv
        <2>2. rows[u] \in Nat /\ emails[u] \in Nat
            BY SmallBroadcast DEF BroadcastInv, BroadcastType
        <2> QED BY <1>7, <2>1, <2>2
    <1>9. RunsInv'
        BY <1>1, <1>2, <1>4, <1>7, <1>8 DEF RunsInv, Running
    <1>10. ~Broadcast!Undisturbed'
        BY <1>5 DEF Broadcast!Undisturbed
    <1> QED BY <1>6, <1>9, <1>10 DEF BroadcastInv

LEMMA NextStatementFails ==
    ASSUME BroadcastAssumption, BroadcastInv, Broadcast!StatementFails
    PROVE  BroadcastInv'
    <1>1. /\ crashes < MaxCrashes /\ job.at \in Running /\ crashes' = crashes + 1
          /\ UNCHANGED <<status, broadcast, rows, emails, missed, deleter>>
          /\ job.at # "none"
        BY DEF Broadcast!StatementFails, Running
    <1>2. /\ job.left \in 0 .. Attempts - 1 /\ job.target \in Targets /\ job.channel \in Channels
        BY <1>1, RunningJob DEF BroadcastInv
    <1>3. PICK at \in {"failed", "waiting"} :
              /\ at = "waiting" => job.left >= 1
              /\ job' = [at |-> at, left |-> job.left, target |-> job.target, channel |-> job.channel]
        BY <1>2, SmallBroadcast DEF Broadcast!StatementFails, Broadcast!Thrown, Broadcast!Queued
    <1>4. job'.at = at /\ job'.left = job.left /\ job' \in BroadcastJob
        BY <1>2, <1>3, SmallBroadcast DEF BroadcastJob
    <1>5. crashes \in Nat /\ crashes' \in 0 .. MaxCrashes /\ crashes' # 0
        BY <1>1, SmallBroadcast DEF BroadcastInv, BroadcastType
    <1>6. BroadcastType' /\ RowInv'
        <2>1. BroadcastType'
            BY <1>1, <1>4, <1>5 DEF BroadcastInv, BroadcastType
        <2>2. RowInv'
            BY <1>1 DEF BroadcastInv, RowInv
        <2> QED BY <2>1, <2>2
    <1>7. Runs' = Runs + 1 /\ Runs \in Int
        <2>1. Attempts \in Nat /\ job.left \in Nat /\ crashes \in Nat
            BY <1>2, <1>5, SmallBroadcast
        <2>2. job'.left = job.left /\ crashes' = crashes + 1
            BY <1>1, <1>4
        <2> QED BY <2>1, <2>2 DEF Runs
    <1>8. ASSUME NEW u \in Recipients PROVE rows[u] <= Runs' /\ emails[u] <= Runs'
        <2>1. /\ rows[u] < Runs + (IF Written(u) THEN 1 ELSE 0)
              /\ emails[u] < Runs + (IF Mailed(u) THEN 1 ELSE 0)
            BY <1>1 DEF BroadcastInv, RunsInv
        <2>2. rows[u] \in Nat /\ emails[u] \in Nat
            BY SmallBroadcast DEF BroadcastInv, BroadcastType
        <2> QED BY <1>7, <2>1, <2>2
    <1>9. RunsInv'
        BY <1>1, <1>3, <1>4, <1>8 DEF RunsInv, Running
    <1>10. ~Broadcast!Undisturbed'
        BY <1>5 DEF Broadcast!Undisturbed
    <1> QED BY <1>6, <1>9, <1>10 DEF BroadcastInv

(* Deleting the broadcast, and users who leave: rows only disappear, and    *)
(* the run is not undisturbed any more.                                    *)
LEMMA NextDisturb ==
    ASSUME BroadcastAssumption, BroadcastInv,
           Broadcast!DeleteStep \/ \E u \in Recipients : Broadcast!Leave(u)
    PROVE  BroadcastInv'
    <1>0. rows \in [Recipients -> 0 .. Cap]
        BY DEF BroadcastInv, BroadcastType
    <1>1. UNCHANGED <<job, emails, missed, crashes>>
        BY DEF Broadcast!DeleteStep, Broadcast!Delete, Broadcast!DeleteUserNotifications,
               Broadcast!DeleteRow, Broadcast!Leave
    <1>2. /\ rows' \in [Recipients -> 0 .. Cap]
          /\ \A u \in Recipients : rows'[u] = rows[u] \/ rows'[u] = 0
        <2>1. CASE Broadcast!DeleteStep
            BY <1>0, <2>1, SmallBroadcast
            DEF Broadcast!DeleteStep, Broadcast!Delete, Broadcast!DeleteUserNotifications,
                Broadcast!DeleteRow, Recipients
        <2>2. CASE \E u \in Recipients : Broadcast!Leave(u)
            BY <1>0, <2>2, SmallBroadcast DEF Broadcast!Leave
        <2> QED BY <2>1, <2>2
    <1>3. /\ status' \in [Recipients -> {"ACTIVE", "INACTIVE", "gone"}]
          /\ ~Broadcast!Undisturbed'
        <2>1. CASE Broadcast!DeleteStep
            BY <2>1 DEF Broadcast!DeleteStep, Broadcast!Delete, Broadcast!DeleteUserNotifications,
                        Broadcast!DeleteRow, Broadcast!Undisturbed, BroadcastInv, BroadcastType
        <2>2. ASSUME NEW u \in Recipients, Broadcast!Leave(u)
              PROVE  /\ status' \in [Recipients -> {"ACTIVE", "INACTIVE", "gone"}]
                     /\ ~Broadcast!Undisturbed'
            <3>1. status' \in [Recipients -> {"ACTIVE", "INACTIVE", "gone"}] /\ status'[u] # "ACTIVE"
                BY <2>2 DEF Broadcast!Leave, BroadcastInv, BroadcastType
            <3> QED BY <3>1 DEF Broadcast!Undisturbed, Recipients
        <2> QED BY <2>1, <2>2
    <1>4. /\ "status" \in DOMAIN broadcast' /\ broadcast'.status \in {"none", "SCHEDULED", "SENT"}
          /\ RowInv'
        BY <1>1 DEF Broadcast!DeleteStep, Broadcast!Delete, Broadcast!DeleteUserNotifications,
                    Broadcast!DeleteRow, Broadcast!Leave, Broadcast!NoBroadcast,
                    BroadcastInv, BroadcastType, RowInv
    <1>5. BroadcastType'
        BY <1>1, <1>2, <1>3, <1>4 DEF BroadcastInv, BroadcastType
    <1>6. Runs' = Runs /\ \A u : Written(u)' = Written(u) /\ Mailed(u)' = Mailed(u)
        BY <1>1 DEF Runs, Written, Mailed
    <1>7. \A u \in Recipients : rows[u] \in Nat /\ rows'[u] <= rows[u]
        BY <1>0, <1>2, SmallBroadcast
    <1>8. job.at \in {"waiting", "completed", "failed"} \cup Running => Runs \in Int
        <2>1. job.at \in Running => job.left \in 0 .. Attempts - 1
            BY RunningJob DEF BroadcastInv
        <2>2. job.at \in {"waiting", "completed", "failed"} => job.left \in 0 .. Attempts
            BY QueuedJob DEF BroadcastInv
        <2> QED BY <2>1, <2>2, SmallBroadcast DEF Runs, BroadcastInv, BroadcastType
    <1>9. ASSUME NEW u \in Recipients
          PROVE  /\ job.at \in {"none", "enqueue", "lost", "delayed"} => rows'[u] = 0 /\ emails'[u] = 0
                 /\ job.at \in {"waiting", "completed", "failed"} => rows'[u] <= Runs' /\ emails'[u] <= Runs'
                 /\ job.at \in Running =>
                        /\ rows'[u] < Runs' + (IF Written(u)' THEN 1 ELSE 0)
                        /\ emails'[u] < Runs' + (IF Mailed(u)' THEN 1 ELSE 0)
        <2>1. rows[u] \in Nat /\ (rows'[u] = rows[u] \/ rows'[u] = 0) /\ emails'[u] = emails[u]
            BY <1>1, <1>2, <1>7
        <2>2. CASE job.at \in {"none", "enqueue", "lost", "delayed"}
            BY <2>1, <2>2 DEF BroadcastInv, RunsInv, Running
        <2>3. CASE job.at \in {"waiting", "completed", "failed"}
            <3>1. rows[u] <= Runs /\ emails[u] <= Runs
                BY <2>3 DEF BroadcastInv, RunsInv
            <3>2. Runs \in Int /\ rows'[u] <= Runs'
                BY <1>6, <1>8, <2>1, <2>3, <3>1
            <3> QED BY <1>6, <2>1, <2>3, <3>1, <3>2 DEF Running
        <2>4. CASE job.at \in Running
            <3>1. /\ rows[u] < Runs + (IF Written(u) THEN 1 ELSE 0)
                  /\ emails[u] < Runs + (IF Mailed(u) THEN 1 ELSE 0)
                BY <2>4 DEF BroadcastInv, RunsInv
            <3>2. Runs \in Int /\ rows'[u] < Runs' + (IF Written(u)' THEN 1 ELSE 0)
                BY <1>6, <1>8, <2>1, <2>4, <3>1
            <3> QED BY <1>6, <2>1, <2>4, <3>1, <3>2 DEF Running
        <2> QED BY <2>2, <2>3, <2>4
    <1>10. RunsInv'
        BY <1>1, <1>9 DEF BroadcastInv, RunsInv
    <1> QED BY <1>3, <1>4, <1>5, <1>10 DEF BroadcastInv

LEMMA NextBroadcastInv ==
    ASSUME BroadcastAssumption, BroadcastInv, [Broadcast!Next]_Broadcast!vars
    PROVE  BroadcastInv'
    <1>1. CASE UNCHANGED Broadcast!vars
        BY <1>1 DEF Broadcast!vars, BroadcastInv, BroadcastType, RowInv, RunsInv, ExactInv, Runs,
                    Written, Mailed, Pushed, Emailed, Has, Segment, Broadcast!Segment,
                    Broadcast!Undisturbed
    <1> QED BY <1>1, NextRequest, NextTakeJob, NextFetch, NextWriteRows, NextSendEmails, NextFinish,
               NextCrash, NextStatementFails, NextDisturb
            DEF Broadcast!Next, Broadcast!WorkerStep, Recipients

(* However users leave between two pages, the worker stops or its writes    *)
(* fail: a run of the job gives a user one notification and one e-mail at   *)
(* most, and an undisturbed one gives exactly what the channel asks for to  *)
(* everyone in the segment, but for e-mails that could not be enqueued.     *)
THEOREM BroadcastsReachTheirSegment == Broadcast!Spec => []BroadcastsExact
    <1>1. ASSUME BroadcastInv PROVE BroadcastsExact
        <2>1. Broadcast!TypeOK
            <3>1. job.at \in Broadcast!Stages
                BY <1>1 DEF BroadcastInv, BroadcastType, BroadcastJob, Broadcast!NoJob, Running,
                            Broadcast!Stages, Broadcast!Running
            <3>2. job.at \in Broadcast!Running \cup {"waiting", "failed"} =>
                      job.left \in 0 .. Attempts + MaxCrashes
                <4>1. job.at \in Running => job.left \in 0 .. Attempts - 1
                    BY <1>1, BroadcastAssumption, RunningJob DEF BroadcastInv
                <4>2. job.at \in {"waiting", "failed"} => job.left \in 0 .. Attempts
                    BY <1>1, QueuedJob DEF BroadcastInv
                <4> QED BY <4>1, <4>2, BroadcastAssumption, SmallBroadcast DEF Running, Broadcast!Running
            <3>3. job.at \in Broadcast!Running => job.page \subseteq Recipients /\ job.cursor \in 0 .. N
                BY <1>1, BroadcastAssumption, RunningJob DEF BroadcastInv, Running, Broadcast!Running
            <3> QED BY <1>1, <3>1, <3>2, <3>3 DEF BroadcastInv, BroadcastType, Broadcast!TypeOK, Recipients
        <2>2. Broadcast!OncePerRun
            <3> SUFFICES ASSUME job.at \notin {"none", "enqueue", "lost", "delayed"}, NEW u \in Recipients
                         PROVE  rows[u] <= Runs /\ emails[u] <= Runs
                BY DEF Broadcast!OncePerRun, Runs, Recipients
            <3>1. CASE job.at \in {"waiting", "completed", "failed"}
                BY <1>1, <3>1 DEF BroadcastInv, RunsInv
            <3>2. CASE job.at \in Running
                <4>1. Runs \in Int /\ rows[u] \in Nat /\ emails[u] \in Nat
                    BY <1>1, <3>2, BroadcastAssumption, RunningJob, SmallBroadcast
                    DEF BroadcastInv, BroadcastType, Runs
                <4>2. /\ rows[u] < Runs + (IF Written(u) THEN 1 ELSE 0)
                      /\ emails[u] < Runs + (IF Mailed(u) THEN 1 ELSE 0)
                    BY <1>1, <3>2 DEF BroadcastInv, RunsInv
                <4> QED BY <4>1, <4>2
            <3> QED BY <1>1, <3>1, <3>2 DEF BroadcastInv, BroadcastType, BroadcastJob, Broadcast!NoJob, Running
        <2>3. Broadcast!DeliveredExactly
            BY <1>1 DEF BroadcastInv, ExactInv, Broadcast!DeliveredExactly, Has, Pushed, Emailed,
                        Segment, Recipients
        <2> QED BY <2>1, <2>2, <2>3 DEF BroadcastsExact
    <1>2. BroadcastInv /\ [Broadcast!Next]_Broadcast!vars => BroadcastInv'
        BY BroadcastAssumption, NextBroadcastInv
    <1>3. Broadcast!Init => BroadcastInv
        BY BroadcastAssumption, InitBroadcastInv
    <1> QED BY <1>1, <1>2, <1>3, PTL DEF Broadcast!Spec

-----------------------------------------------------------------------------
(***************************************************************************)
(* Notifications.  The pages of a list: a row's place is the number of      *)
(* newer ones, and a page holds those in an interval of places.             *)
(***************************************************************************)
NoticeIds == Notice!Ids
Place(S, i) == Cardinality(Notice!Newer(S, i))
Part(S, n, limit) ==
    {i \in S : Place(S, i) \in Notice!Skip(n, limit) .. Notice!Skip(n, limit) + limit - 1}

LEMMA NoticeCardinality ==
    ASSUME NEW S
    PROVE  Notice!Cardinality(S) = Cardinality(S)
    BY DEF Notice!Cardinality, Cardinality

LEMMA Multiples ==
    ASSUME NEW k \in Nat, NEW l \in Nat, l >= 1
    PROVE  /\ k * l \in Nat /\ k * l >= k /\ (k + 1) * l = k * l + l
           /\ \A m \in Nat : k <= m => k * l <= m * l
    OBVIOUS

LEMMA Places ==
    ASSUME NEW m \in Nat, NEW S \in SUBSET (1 .. m)
    PROVE  /\ IsFiniteSet(S)
           /\ \A i \in S : Place(S, i) \in Nat /\ Place(S, i) < m
           /\ \A i, j \in S : i < j => Place(S, j) < Place(S, i)
    <1>1. IsFiniteSet(1 .. m) /\ Cardinality(1 .. m) = m
        BY FS_Interval
    <1>2. IsFiniteSet(S) /\ Cardinality(S) \in Nat /\ Cardinality(S) <= m
        BY <1>1, FS_Subset, FS_CardinalityType
    <1>3. \A i : Notice!Newer(S, i) \in SUBSET S
        BY DEF Notice!Newer
    <1>4. \A i : IsFiniteSet(Notice!Newer(S, i)) /\ Place(S, i) \in Nat
        BY <1>2, <1>3, FS_Subset, FS_CardinalityType DEF Place
    <1>5. ASSUME NEW i \in S PROVE Place(S, i) < m
        <2>1. Notice!Newer(S, i) \in SUBSET (S \ {i})
            BY DEF Notice!Newer
        <2>2. IsFiniteSet(S \ {i}) /\ Cardinality(S \ {i}) = Cardinality(S) - 1
            BY <1>2, FS_RemoveElement
        <2>3. Cardinality(Notice!Newer(S, i)) <= Cardinality(S \ {i})
            BY <2>1, <2>2, FS_Subset
        <2> QED BY <1>2, <1>4, <2>2, <2>3 DEF Place
    <1>6. ASSUME NEW i \in S, NEW j \in S, i < j PROVE Place(S, j) < Place(S, i)
        <2>0. \A k \in S : k \in Nat
            OBVIOUS
        <2>00. \A k \in S : k > j => k > i /\ k # j
            BY <1>6, <2>0
        <2>1. Notice!Newer(S, j) \in SUBSET (Notice!Newer(S, i) \ {j}) /\ j \in Notice!Newer(S, i)
            BY <1>6, <2>0, <2>00 DEF Notice!Newer
        <2>2. /\ IsFiniteSet(Notice!Newer(S, i) \ {j})
              /\ Cardinality(Notice!Newer(S, i) \ {j}) = Place(S, i) - 1
            BY <1>4, <2>1, FS_RemoveElement DEF Place
        <2>3. Place(S, j) <= Cardinality(Notice!Newer(S, i) \ {j})
            BY <2>1, <2>2, FS_Subset DEF Place
        <2> QED BY <1>4, <2>2, <2>3
    <1> QED BY <1>2, <1>4, <1>5, <1>6

LEMMA Parts ==
    ASSUME NEW max \in Nat, NEW S \in SUBSET (1 .. max), NEW limit \in Nat, limit >= 1
    PROVE  /\ UNION {Part(S, n, limit) : n \in 1 .. max} = S
           /\ \A n \in 1 .. max :
                 /\ Cardinality(Part(S, n, limit)) <= limit
                 /\ \A m \in 1 .. n - 1 :
                        \A i \in Part(S, m, limit), j \in Part(S, n, limit) : i > j
    <1>0. \A i \in S : Place(S, i) \in Nat /\ Place(S, i) < max /\ i \in Nat
        BY Places
    <1>1. ASSUME NEW i \in S PROVE \E n \in 1 .. max : i \in Part(S, n, limit)
        <2> DEFINE p == Place(S, i)
                   K == {k \in Nat : p < (k + 1) * limit}
        <2>1. p \in Nat /\ p < max
            BY <1>0
        <2> HIDE DEF p
        <2>2. (p + 1) * limit >= p + 1
            BY <2>1, Multiples
        <2>3. p \in K
            BY <2>1, <2>2, Multiples
        <2>4. PICK k \in K : \A l \in K : k <= l
            BY <2>3, Smallest
        <2>5. k * limit <= p
            <3>1. CASE k = 0
                BY <2>1, <3>1
            <3>2. CASE k # 0
                <4>1. k - 1 \in Nat /\ k - 1 \notin K
                    BY <2>4, <3>2
                <4>2. ~(p < ((k - 1) + 1) * limit)
                    BY <4>1
                <4>3. (k - 1) + 1 = k
                    BY <4>1
                <4>4. k * limit \in Nat
                    BY <2>4, Multiples
                <4> QED BY <2>1, <4>2, <4>3, <4>4
            <3> QED BY <3>1, <3>2
        <2>6. k * limit >= k /\ k * limit \in Nat /\ (k + 1) * limit = k * limit + limit
            BY <2>4, Multiples
        <2>7. p < k * limit + limit /\ k \in Nat
            BY <2>4, <2>6
        <2>8. k + 1 \in 1 .. max
            BY <2>1, <2>5, <2>6, <2>7
        <2>9. Notice!Skip(k + 1, limit) = k * limit
            BY <2>7 DEF Notice!Skip
        <2>10. p \in k * limit .. k * limit + limit - 1
            BY <2>1, <2>5, <2>6, <2>7
        <2> QED BY <2>8, <2>9, <2>10 DEF Part, p
    <1>2. ASSUME NEW n \in 1 .. max PROVE Notice!Skip(n, limit) \in Nat
        <2>1. n - 1 \in Nat
            OBVIOUS
        <2> QED BY <2>1, Multiples DEF Notice!Skip
    <1>3. ASSUME NEW n \in 1 .. max PROVE Cardinality(Part(S, n, limit)) <= limit
        <2> DEFINE P == Part(S, n, limit)
                   lo == Notice!Skip(n, limit)
                   hi == lo + limit - 1
                   f == [i \in P |-> Place(S, i)]
        <2>1. lo \in Nat
            BY <1>2
        <2>2. P \in SUBSET S /\ \A i \in P : Place(S, i) \in lo .. hi
            BY DEF Part
        <2> HIDE DEF P, lo
        <2>3. \A i, j \in P : Place(S, i) = Place(S, j) => i = j
            <3> SUFFICES ASSUME NEW i \in P, NEW j \in P, i # j PROVE Place(S, i) # Place(S, j)
                OBVIOUS
            <3>1. i \in S /\ j \in S /\ i \in Nat /\ j \in Nat /\ (i < j \/ j < i)
                BY <1>0, <2>2
            <3>2. Place(S, i) < Place(S, j) \/ Place(S, j) < Place(S, i)
                BY <3>1, Places
            <3> QED BY <1>0, <3>1, <3>2
        <2>4. f \in Injection(P, lo .. hi)
            BY <2>2, <2>3 DEF Injection, IsInjective
        <2>5. IsFiniteSet(lo .. hi) /\ Cardinality(lo .. hi) = limit
            BY <2>1, FS_Interval
        <2> HIDE DEF f, hi
        <2>6. Cardinality(P) <= Cardinality(lo .. hi)
            BY <2>4, <2>5, FS_Injection
        <2> QED BY <2>5, <2>6 DEF P
    <1>4. ASSUME NEW n \in 1 .. max, NEW m \in 1 .. n - 1,
                 NEW i \in Part(S, m, limit), NEW j \in Part(S, n, limit)
          PROVE  i > j
        <2>1. /\ i \in S /\ j \in S /\ i \in Nat /\ j \in Nat
              /\ Place(S, i) \in Nat /\ Place(S, j) \in Nat
              /\ Place(S, i) <= Notice!Skip(m, limit) + limit - 1
              /\ Notice!Skip(n, limit) <= Place(S, j)
            BY <1>0 DEF Part
        <2>2. Notice!Skip(m, limit) + limit <= Notice!Skip(n, limit)
            <3>1. m - 1 \in Nat /\ m \in Nat /\ n - 1 \in Nat /\ m <= n - 1 /\ (m - 1) + 1 = m
                OBVIOUS
            <3>2. m * limit = (m - 1) * limit + limit
                BY <3>1, Multiples
            <3>3. m * limit <= (n - 1) * limit
                BY <3>1, Multiples
            <3> QED BY <3>2, <3>3 DEF Notice!Skip
        <2>3. Notice!Skip(m, limit) \in Nat /\ Notice!Skip(n, limit) \in Nat
            BY <1>2
        <2>4. Place(S, i) < Place(S, j)
            BY <2>1, <2>2, <2>3
        <2>5. ~(i < j)
            BY <2>1, <2>4, Places
        <2> QED BY <2>1, <2>4, <2>5
    <1>5. \A n : Part(S, n, limit) \subseteq S
        BY DEF Part
    <1> QED BY <1>1, <1>3, <1>4, <1>5

-----------------------------------------------------------------------------
(***************************************************************************)
(* Notifications and the counts of their broadcasts.                       *)
(***************************************************************************)
Sources == DOMAIN Announced
Types == Kinds \cup {"SYSTEM"} \cup Notice!BTypes
Notification ==
    {Notice!NoRow} \cup
    [at : {"here", "gone"}, owner : Readers, type : Types, bc : Sources \cup {"none"}, read : BOOLEAN]
PushJob ==
    {Notice!NoJob} \cup
    [at : {"owed", "waiting", "lost", "active", "completed"}, user : Readers, type : Types]
Increments == UNION {[B -> Nat] : B \in SUBSET Sources}
Call ==
    {Notice!Idle}
    \cup [at : {"enqueue"}, id : NoticeIds, user : Readers, type : Types]
    \cup [at : {"update"}, user : Readers, id : NoticeIds, bc : Sources \cup {"none"}]
    \cup [at : {"updateAll"}, user : Readers, incs : Increments]
    \cup [at : {"count"}, incs : Increments]

NoticeType ==
    /\ notices \in [NoticeIds -> Notification]
    /\ pushJobs \in [NoticeIds -> PushJob]
    /\ readCount \in [Sources -> Nat] /\ everRead \in [Sources -> Nat]
    /\ alive \subseteq Sources
    /\ calls \in [Calls -> Call]
    /\ stops \in 0 .. MaxStops

(* A push, queued, on its way or delivered, shows the row of its user.      *)
Shows(i, u, type) ==
    /\ notices[i].at # "none" /\ notices[i].owner = u
    /\ type = Notice!ResolveDisplayType(notices[i].type, notices[i].bc)
PushInv ==
    /\ \A p \in pushed : p[2] \in NoticeIds /\ Shows(p[2], p[1], p[3])
    /\ \A i \in NoticeIds :
           pushJobs[i].at # "none" => Shows(i, pushJobs[i].user, pushJobs[i].type)
    /\ \A c \in Calls :
           calls[c].at = "enqueue" => Shows(calls[c].id, calls[c].user, calls[c].type)

(* What a request is going to count belongs to its user.                    *)
Owned(i, u, b) == notices[i].at # "none" /\ notices[i].owner = u /\ notices[i].bc = b
CallInv ==
    \A c \in Calls :
        /\ calls[c].at = "update" => Owned(calls[c].id, calls[c].user, calls[c].bc)
        /\ calls[c].at = "updateAll" =>
               \A b \in DOMAIN calls[c].incs : \E i \in NoticeIds : Owned(i, calls[c].user, b)

(* While no row is deleted: a row that is read, an increment that was not   *)
(* yet made and a count above zero each come from a row that became read.   *)
ReadInv ==
    Notice!NoneDeleted =>
        /\ \A b \in Sources : readCount[b] > 0 => everRead[b] > 0
        /\ \A i \in NoticeIds : notices[i].at # "none" /\ notices[i].read /\ notices[i].bc # "none"
                                    => everRead[notices[i].bc] > 0
        /\ \A c \in Calls :
               calls[c].at = "count" => \A b \in DOMAIN calls[c].incs : everRead[b] > 0

(* While nothing begins during a request and nothing stops: there is one    *)
(* request at most, what it collected is still so, and what it has not yet  *)
(* counted is what the counts lack.                                        *)
Inc(incs, b) == IF b \in DOMAIN incs THEN incs[b] ELSE 0
Behind(c, b) == IF calls[c].at = "count" THEN Inc(calls[c].incs, b) ELSE 0
ExactCount ==
    ~overlapped /\ stops = 0 =>
        /\ \A c, d \in Calls : calls[c] # Notice!Idle /\ calls[d] # Notice!Idle => c = d
        /\ Notice!Quiet => \A b \in alive : everRead[b] = readCount[b]
        /\ \A c \in Calls :
               /\ calls[c] # Notice!Idle =>
                      \A b \in alive : everRead[b] = readCount[b] + Behind(c, b)
               /\ calls[c].at = "update" => Notice!Found(calls[c].user, calls[c].id)
               /\ calls[c].at = "updateAll" =>
                      \A b \in Sources : Inc(calls[c].incs, b) =
                                             Notice!MadeRead(Notice!Unread(calls[c].user), b)

CountsInv ==
    NoticeType /\ overlapped \in BOOLEAN /\ PushInv /\ CallInv /\ ReadInv /\ ExactCount

LEMMA SmallNotices ==
    ASSUME NoticesAssumption
    PROVE  /\ MaxRows \in Nat /\ MaxStops \in Nat /\ NoticeIds = 1 .. MaxRows
           /\ \A b \in Sources : Announced[b] \in Types /\ b # "none"
    BY NoticesAssumption
    DEF Notice!NotificationsAssumption, NoticeIds, Notice!Ids, Sources, Types

LEMMA FreshNotice ==
    ASSUME NoticesAssumption, NoticeType, Notice!HasRoom
    PROVE  Notice!FreshId \in NoticeIds /\ notices[Notice!FreshId].at = "none"
    <1> DEFINE F == {i \in NoticeIds : notices[i] = Notice!NoRow}
    <1>1. F # {} /\ F \in SUBSET Nat
        BY SmallNotices DEF Notice!HasRoom, NoticeIds, Notice!Ids
    <1>2. PICK x \in F : \A y \in F : x <= y
        BY <1>1, Smallest
    <1>3. x \in Nat /\ \A j \in 1 .. x - 1 : j \in NoticeIds /\ j \in Nat /\ j < x
        BY <1>1, <1>2, SmallNotices
    <1>4. \A j \in 1 .. x - 1 : notices[j] # Notice!NoRow
        <2> SUFFICES ASSUME NEW j \in 1 .. x - 1, notices[j] = Notice!NoRow PROVE FALSE
            OBVIOUS
        <2>1. j \in F
            BY <1>3
        <2> QED BY <1>2, <1>3, <2>1
    <1>5. \E i \in NoticeIds : notices[i] = Notice!NoRow
                                 /\ \A j \in 1 .. i - 1 : notices[j] # Notice!NoRow
        BY <1>2, <1>4
    <1>6. Notice!FreshId \in NoticeIds /\ notices[Notice!FreshId] = Notice!NoRow
        BY <1>5 DEF Notice!FreshId, NoticeIds
    <1> QED BY <1>6 DEF Notice!NoRow

LEMMA MadeReadCounts ==
    ASSUME NoticesAssumption, NEW S \in SUBSET NoticeIds, NEW b
    PROVE  /\ Notice!MadeRead(S, b) \in Nat
           /\ (\E i \in S : notices[i].bc = b) <=> Notice!MadeRead(S, b) > 0
           /\ \A i : S = {i} => Notice!MadeRead(S, b) = IF notices[i].bc = b THEN 1 ELSE 0
    <1> DEFINE T == {i \in S : notices[i].bc = b}
    <1>1. IsFiniteSet(NoticeIds)
        BY SmallNotices, FS_Interval
    <1>2. T \in SUBSET NoticeIds
        OBVIOUS
    <1>3. IsFiniteSet(T) /\ Cardinality(T) \in Nat
        BY <1>1, <1>2, FS_Subset, FS_CardinalityType
    <1>4. Notice!MadeRead(S, b) = Cardinality(T)
        BY NoticeCardinality DEF Notice!MadeRead
    <1>5. (\E i \in S : notices[i].bc = b) <=> T # {}
        OBVIOUS
    <1>6. ASSUME NEW i, S = {i} PROVE Cardinality(T) = IF notices[i].bc = b THEN 1 ELSE 0
        <2>1. CASE notices[i].bc = b
            <3>1. T = {i}
                BY <1>6, <2>1
            <3> QED BY <2>1, <3>1, FS_Singleton
        <2>2. CASE notices[i].bc # b
            <3>1. T = {}
                BY <1>6, <2>2
            <3> QED BY <2>2, <3>1, FS_EmptySet
        <2> QED BY <2>1, <2>2
    <1> HIDE DEF T
    <1>7. T # {} <=> Cardinality(T) > 0
        BY <1>3, FS_EmptySet
    <1> QED BY <1>3, <1>4, <1>5, <1>6, <1>7

LEMMA InitCountsInv ==
    ASSUME NoticesAssumption, Notice!Init
    PROVE  CountsInv
    <1>1. NoticeType
        BY SmallNotices DEF Notice!Init, NoticeType, Notification, PushJob, Call, Sources, NoticeIds
    <1>2. /\ \A i \in NoticeIds : notices[i].at = "none" /\ pushJobs[i].at = "none"
          /\ pushed = {} /\ overlapped = FALSE
          /\ \A b \in Sources : readCount[b] = 0 /\ everRead[b] = 0
          /\ \A c \in Calls : calls[c] = Notice!Idle /\ calls[c].at = "idle"
        BY DEF Notice!Init, Notice!NoRow, Notice!NoJob, Notice!Idle, Sources, NoticeIds
    <1>3. PushInv /\ CallInv /\ ReadInv
        BY <1>2 DEF PushInv, CallInv, ReadInv
    <1>4. ExactCount
        BY <1>1, <1>2 DEF ExactCount, NoticeType
    <1> QED BY <1>1, <1>2, <1>3, <1>4 DEF CountsInv

(* A row that is there keeps its owner, its type and its broadcast, and one  *)
(* that is deleted stays so.                                               *)
Kept ==
    \A i \in NoticeIds : notices[i].at # "none" =>
        /\ notices'[i].at # "none" /\ notices'[i].owner = notices[i].owner
        /\ notices'[i].type = notices[i].type /\ notices'[i].bc = notices[i].bc
        /\ notices[i].at = "gone" => notices'[i].at = "gone"

LEMMA KeptRows ==
    ASSUME Kept
    PROVE  /\ \A i \in NoticeIds : \A u, type : Shows(i, u, type) => Shows(i, u, type)'
           /\ \A i \in NoticeIds : \A u, b : Owned(i, u, b) => Owned(i, u, b)'
           /\ Notice!NoneDeleted' => Notice!NoneDeleted
    <1>1. \A i \in NoticeIds : \A u, type : Shows(i, u, type) => Shows(i, u, type)'
        BY DEF Kept, Shows, Notice!ResolveDisplayType
    <1>2. \A i \in NoticeIds : \A u, b : Owned(i, u, b) => Owned(i, u, b)'
        BY DEF Kept, Owned
    <1>3. Notice!NoneDeleted' => Notice!NoneDeleted
        BY DEF Kept, Notice!NoneDeleted, NoticeIds
    <1> QED BY <1>1, <1>2, <1>3

LEMMA CallIds ==
    ASSUME NoticeType, NEW c \in Calls
    PROVE  /\ calls[c].at \in {"idle", "enqueue", "update", "updateAll", "count"}
           /\ calls[c].at = "idle" => calls[c] = Notice!Idle
           /\ calls[c].at = "enqueue" =>
                  calls[c].id \in NoticeIds /\ calls[c].user \in Readers /\ calls[c].type \in Types
           /\ calls[c].at = "update" =>
                  calls[c].id \in NoticeIds /\ calls[c].user \in Readers
                  /\ calls[c].bc \in Sources \cup {"none"}
           /\ calls[c].at = "updateAll" => calls[c].user \in Readers
           /\ calls[c].at \in {"updateAll", "count"} => calls[c].incs \in Increments
    <1>1. calls[c] \in Call
        BY DEF NoticeType
    <1> QED BY <1>1 DEF Call, Notice!Idle

LEMMA PushKept ==
    ASSUME NoticeType, PushInv, Kept,
           \A p \in pushed' : p \in pushed \/ (p[2] \in NoticeIds /\ Shows(p[2], p[1], p[3])'),
           \A i \in NoticeIds :
               pushJobs'[i].at # "none" =>
                   \/ /\ pushJobs[i].at # "none"
                      /\ pushJobs'[i].user = pushJobs[i].user /\ pushJobs'[i].type = pushJobs[i].type
                   \/ Shows(i, pushJobs[i].user, pushJobs[i].type)',
           \A c \in Calls :
               calls'[c].at = "enqueue" =>
                   \/ calls'[c] = calls[c]
                   \/ Shows(calls[c].id, calls[c].user, calls[c].type)'
    PROVE  PushInv'
    <1>1. \A p \in pushed' : p[2] \in NoticeIds /\ Shows(p[2], p[1], p[3])'
        BY KeptRows DEF PushInv
    <1>2. \A i \in NoticeIds :
              pushJobs'[i].at # "none" => Shows(i, pushJobs[i].user, pushJobs[i].type)'
        <2> SUFFICES ASSUME NEW i \in NoticeIds, pushJobs[i].at # "none",
                            pushJobs'[i].user = pushJobs[i].user, pushJobs'[i].type = pushJobs[i].type
                     PROVE  Shows(i, pushJobs[i].user, pushJobs[i].type)'
            OBVIOUS
        <2>1. Shows(i, pushJobs[i].user, pushJobs[i].type)
            BY DEF PushInv
        <2>2. Shows(i, pushJobs[i].user, pushJobs[i].type) =>
                  /\ notices'[i].at # "none" /\ notices'[i].owner = pushJobs[i].user
                  /\ pushJobs[i].type = Notice!ResolveDisplayType(notices'[i].type, notices'[i].bc)
            BY DEF Kept, Shows
        <2> QED BY <2>1, <2>2 DEF Shows, Notice!ResolveDisplayType
    <1>3. \A c \in Calls :
              calls'[c].at = "enqueue" => Shows(calls[c].id, calls[c].user, calls[c].type)'
        <2> SUFFICES ASSUME NEW c \in Calls, calls'[c].at = "enqueue", calls'[c] = calls[c]
                     PROVE  Shows(calls[c].id, calls[c].user, calls[c].type)'
            OBVIOUS
        <2>1. calls[c].id \in NoticeIds /\ Shows(calls[c].id, calls[c].user, calls[c].type)
            BY CallIds DEF PushInv
        <2> QED BY <2>1 DEF Kept, Shows, Notice!ResolveDisplayType
    <1> QED BY <1>1, <1>2, <1>3 DEF PushInv

LEMMA CallsKept ==
    ASSUME NoticeType, CallInv, Kept,
           \A c \in Calls : calls'[c] = calls[c] \/ calls'[c].at \notin {"update", "updateAll"}
    PROVE  CallInv'
    <1>1. ASSUME NEW c \in Calls, calls'[c].at = "update"
          PROVE  Owned(calls[c].id, calls[c].user, calls[c].bc)'
        <2>1. calls'[c] = calls[c] /\ calls[c].id \in NoticeIds
            BY <1>1, CallIds
        <2>2. Owned(calls[c].id, calls[c].user, calls[c].bc)
            BY <1>1, <2>1 DEF CallInv
        <2> QED BY <2>1, <2>2 DEF Kept, Owned
    <1>2. ASSUME NEW c \in Calls, calls'[c].at = "updateAll", NEW b \in DOMAIN calls'[c].incs
          PROVE  \E i \in NoticeIds : Owned(i, calls[c].user, b)'
        <2>1. calls'[c] = calls[c]
            BY <1>2
        <2>2. PICK i \in NoticeIds : Owned(i, calls[c].user, b)
            BY <1>2, <2>1 DEF CallInv
        <2> QED BY <2>1, <2>2 DEF Kept, Owned
    <1> QED BY <1>1, <1>2 DEF CallInv

LEMMA ReadKept ==
    ASSUME NoticeType, ReadInv, Kept, UNCHANGED <<readCount, everRead>>,
           \A i \in NoticeIds : notices'[i].at # "none" /\ notices'[i].read =>
                                    notices[i].at # "none" /\ notices[i].read,
           \A c \in Calls : calls'[c] = calls[c] \/ calls'[c].at # "count"
                            \/ (calls[c].at = "count" /\ DOMAIN calls'[c].incs \subseteq DOMAIN calls[c].incs)
    PROVE  ReadInv'
    <1> SUFFICES ASSUME Notice!NoneDeleted' PROVE ReadInv'
        BY DEF ReadInv
    <1>1. Notice!NoneDeleted
        BY KeptRows
    <1>2. \A b \in Sources : readCount'[b] > 0 => everRead'[b] > 0
        BY <1>1 DEF ReadInv
    <1>3. \A i \in NoticeIds : notices'[i].at # "none" /\ notices'[i].read /\ notices'[i].bc # "none"
                                    => everRead'[notices'[i].bc] > 0
        BY <1>1 DEF ReadInv, Kept
    <1>4. \A c \in Calls :
              calls'[c].at = "count" => \A b \in DOMAIN calls'[c].incs : everRead'[b] > 0
        BY <1>1 DEF ReadInv
    <1> QED BY <1>2, <1>3, <1>4 DEF ReadInv

(* Before a step that begins something, or of the one request there is.     *)
LEMMA Began ==
    ASSUME NoticeType, ExactCount, overlapped \in BOOLEAN, Notice!Begins,
           UNCHANGED stops, ~overlapped', stops' = 0
    PROVE  /\ ~overlapped /\ stops = 0
           /\ \A c \in Calls : calls[c] = Notice!Idle
           /\ \A b \in alive : everRead[b] = readCount[b]
    <1>1. ~overlapped /\ Notice!Quiet
        BY DEF Notice!Begins
    <1> QED BY <1>1 DEF ExactCount, Notice!Quiet

LEMMA ExactOneCall ==
    ASSUME NoticeType', NEW c \in Calls,
           ~overlapped' /\ stops' = 0 =>
               /\ \A d \in Calls \ {c} : calls'[d] = Notice!Idle
               /\ \A b \in alive' : everRead'[b] = readCount'[b] + Behind(c, b)'
               /\ calls'[c].at = "update" => Notice!Found(calls[c].user, calls[c].id)'
               /\ calls'[c].at = "updateAll" =>
                      \A b \in Sources : (Inc(calls[c].incs, b) =
                                              Notice!MadeRead(Notice!Unread(calls[c].user), b))'
    PROVE  ExactCount'
    <1> SUFFICES ASSUME ~overlapped', stops' = 0 PROVE ExactCount'
        BY DEF ExactCount
    <1>1. \A d \in Calls : calls'[d] # Notice!Idle => d = c
        OBVIOUS
    <1>2. \A d \in Calls : calls'[d].at \in {"update", "updateAll"} => d = c
        BY <1>1 DEF Notice!Idle
    <1>3. Notice!Quiet' => \A b \in alive' : everRead'[b] = readCount'[b]
        <2> SUFFICES ASSUME Notice!Quiet', NEW b \in alive' PROVE everRead'[b] = readCount'[b]
            OBVIOUS
        <2>1. calls'[c].at = "idle"
            BY DEF Notice!Quiet, Notice!Idle
        <2>2. Behind(c, b)' = 0
            BY <2>1 DEF Behind
        <2>3. everRead'[b] = readCount'[b] + 0 /\ readCount'[b] \in Nat
            BY <2>2 DEF NoticeType
        <2> QED BY <2>3
    <1> QED BY <1>1, <1>2, <1>3, Zenon DEF ExactCount

LEMMA NextSendNotice ==
    ASSUME NoticesAssumption, CountsInv, NEW c \in Calls, NEW u \in Readers, NEW type \in Kinds,
           Notice!Send(c, u, type)
    PROVE  CountsInv'
    <1> DEFINE f == Notice!FreshId
    <1>1. /\ calls[c] = Notice!Idle /\ Notice!HasRoom /\ Notice!Begins
          /\ UNCHANGED <<pushJobs, pushed, readCount, alive, everRead, stops>>
        BY DEF Notice!Send
    <1>2. f \in NoticeIds /\ notices[f].at = "none"
        BY <1>1, FreshNotice DEF CountsInv
    <1>3. overlapped' \in BOOLEAN
        BY <1>1 DEF Notice!Begins, CountsInv
    <1>4. CASE UNCHANGED <<notices, calls>>
        <2>1. NoticeType' /\ Kept
            BY <1>1, <1>4 DEF CountsInv, NoticeType, Kept
        <2>2. PushInv' /\ CallInv' /\ ReadInv'
            BY <1>1, <1>4, <2>1, PushKept, CallsKept, ReadKept DEF CountsInv
        <2>3. ExactCount'
            <3>1. ~overlapped' /\ stops' = 0 =>
                      /\ \A d \in Calls : calls[d] = Notice!Idle /\ calls[d].at = "idle"
                      /\ \A b \in alive : everRead[b] = readCount[b]
                BY <1>1, Began DEF CountsInv, Notice!Idle
            <3>2. \A b \in alive : readCount[b] \in Nat
                BY DEF CountsInv, NoticeType
            <3>3. ~overlapped' /\ stops' = 0 =>
                      /\ \A d \in Calls \ {c} : calls'[d] = Notice!Idle
                      /\ calls'[c].at = "idle"
                      /\ \A b \in alive' : everRead'[b] = readCount'[b] + Behind(c, b)'
                BY <1>1, <1>4, <3>1, <3>2 DEF Behind
            <3> QED BY <2>1, <3>3, ExactOneCall
        <2> QED BY <1>3, <2>1, <2>2, <2>3 DEF CountsInv
    <1>5. CASE /\ notices' = [notices EXCEPT ![f] = Notice!Row(u, type, Notice!None)]
               /\ calls' = [calls EXCEPT ![c] = [at |-> "enqueue", id |-> f, user |-> u, type |-> type]]
        <2> HIDE DEF f
        <2>1. Notice!Row(u, type, Notice!None) \in Notification
            BY DEF Notice!Row, Notice!None, Notification, Types
        <2>2. [at |-> "enqueue", id |-> f, user |-> u, type |-> type] \in Call
            BY <1>2 DEF Call, Types
        <2>3. NoticeType'
            BY <1>1, <1>2, <1>5, <2>1, <2>2 DEF CountsInv, NoticeType
        <2>4. /\ notices'[f] = Notice!Row(u, type, Notice!None)
              /\ \A i \in NoticeIds \ {f} : notices'[i] = notices[i]
              /\ calls'[c] = [at |-> "enqueue", id |-> f, user |-> u, type |-> type]
              /\ \A d \in Calls \ {c} : calls'[d] = calls[d]
            BY <1>2, <1>5 DEF CountsInv, NoticeType
        <2>5. Kept
            BY <1>2, <2>4 DEF Kept
        <2>6. Shows(calls[c].id, calls[c].user, calls[c].type)'
            BY <2>4 DEF Shows, Notice!Row, Notice!ResolveDisplayType
        <2>7. PushInv'
            BY <1>1, <2>4, <2>5, <2>6, PushKept DEF CountsInv
        <2>8. calls'[c].at = "enqueue" /\ ~notices'[f].read
            BY <2>4 DEF Notice!Row
        <2>9. CallInv' /\ ReadInv'
            BY <1>1, <2>4, <2>5, <2>8, CallsKept, ReadKept DEF CountsInv
        <2>10. ExactCount'
            <3>1. ~overlapped' /\ stops' = 0 =>
                      /\ \A d \in Calls : calls[d] = Notice!Idle
                      /\ \A b \in alive : everRead[b] = readCount[b]
                BY <1>1, Began DEF CountsInv
            <3>2. \A b \in alive : readCount[b] \in Nat
                BY DEF CountsInv, NoticeType
            <3>3. ~overlapped' /\ stops' = 0 =>
                      /\ \A d \in Calls \ {c} : calls'[d] = Notice!Idle
                      /\ \A b \in alive' : everRead'[b] = readCount'[b] + Behind(c, b)'
                BY <1>1, <2>4, <2>8, <3>1, <3>2 DEF Behind
            <3> QED BY <2>3, <2>8, <3>3, ExactOneCall
        <2> QED BY <1>3, <2>3, <2>7, <2>9, <2>10 DEF CountsInv
    <1> QED BY <1>4, <1>5 DEF Notice!Send

(* A step of the only request there is, before and after.                  *)
LEMMA OnlyCall ==
    ASSUME NoticeType, ExactCount, NEW c \in Calls, calls[c].at # "idle", ~overlapped, stops = 0,
           \A d \in Calls \ {c} : calls'[d] = calls[d]
    PROVE  /\ \A d \in Calls \ {c} : calls'[d] = Notice!Idle
           /\ \A b \in alive : everRead[b] = readCount[b] + Behind(c, b)
    <1>1. calls[c] # Notice!Idle
        BY DEF Notice!Idle
    <1> QED BY <1>1 DEF ExactCount

LEMMA NextEnqueueNotice ==
    ASSUME NoticesAssumption, CountsInv, NEW c \in Calls, Notice!Enqueue(c)
    PROVE  CountsInv'
    <1>1. /\ calls[c].at = "enqueue"
          /\ UNCHANGED <<notices, pushed, readCount, alive, everRead, stops, overlapped>>
          /\ calls' = [calls EXCEPT ![c] = Notice!Idle]
        BY DEF Notice!Enqueue
    <1>2. PICK i \in NoticeIds : i = calls[c].id
        BY <1>1, CallIds DEF CountsInv
    <1>20. PICK at \in {"waiting", "lost"} :
              pushJobs' = [pushJobs EXCEPT ![i] = [at |-> at, user |-> calls[c].user, type |-> calls[c].type]]
        BY <1>2 DEF Notice!Enqueue
    <1>3. i \in NoticeIds /\ calls[c].user \in Readers /\ calls[c].type \in Types
        BY <1>1, CallIds DEF CountsInv
    <1>4. Shows(i, calls[c].user, calls[c].type)
        BY <1>1, <1>2 DEF CountsInv, PushInv
    <1>5. [at |-> at, user |-> calls[c].user, type |-> calls[c].type] \in PushJob
        BY <1>3 DEF PushJob
    <1>6. NoticeType'
        BY <1>1, <1>20, <1>3, <1>5 DEF CountsInv, NoticeType, Call
    <1>7. /\ pushJobs'[i].user = calls[c].user /\ pushJobs'[i].type = calls[c].type
          /\ \A j \in NoticeIds \ {i} : pushJobs'[j] = pushJobs[j]
          /\ calls'[c] = Notice!Idle /\ calls'[c].at = "idle"
          /\ \A d \in Calls \ {c} : calls'[d] = calls[d]
        BY <1>1, <1>20, <1>3 DEF CountsInv, NoticeType, Notice!Idle
    <1>8. Kept /\ Shows(i, pushJobs[i].user, pushJobs[i].type)'
        BY <1>1, <1>3, <1>4, <1>7 DEF Kept, Shows, Notice!ResolveDisplayType
    <1>9. PushInv'
        BY <1>1, <1>7, <1>8, PushKept DEF CountsInv
    <1>10. CallInv' /\ ReadInv'
        BY <1>1, <1>7, <1>8, CallsKept, ReadKept DEF CountsInv
    <1>11. ExactCount'
        <2>1. ~overlapped' /\ stops' = 0 =>
                  /\ \A d \in Calls \ {c} : calls'[d] = Notice!Idle
                  /\ \A b \in alive : everRead[b] = readCount[b] + Behind(c, b)
            BY <1>1, <1>7, OnlyCall DEF CountsInv
        <2>2. \A b : Behind(c, b) = 0 /\ Behind(c, b)' = 0
            BY <1>1, <1>7 DEF Behind
        <2> QED BY <1>1, <1>6, <1>7, <2>1, <2>2, ExactOneCall
    <1> QED BY <1>1, <1>6, <1>9, <1>10, <1>11 DEF CountsInv

LEMMA NextDeliver ==
    ASSUME NoticesAssumption, CountsInv, NEW u \in Readers, NEW b \in Sources, Notice!Deliver(u, b)
    PROVE  CountsInv'
    <1>0. PICK f \in NoticeIds : f = Notice!FreshId /\ notices[f].at = "none"
        BY FreshNotice DEF CountsInv, Notice!Deliver
    <1>1. /\ Notice!HasRoom /\ Notice!Begins
          /\ UNCHANGED <<pushed, readCount, alive, everRead, calls, stops>>
          /\ notices' = [notices EXCEPT ![f] = Notice!Row(u, "SYSTEM", b)]
          /\ pushJobs' = [pushJobs EXCEPT ![f] = [at |-> "owed", user |-> u, type |-> Announced[b]]]
        BY <1>0 DEF Notice!Deliver
    <1>2. f \in NoticeIds /\ notices[f].at = "none"
        BY <1>0
    <1>3. overlapped' \in BOOLEAN
        BY <1>1 DEF Notice!Begins, CountsInv
    <1>4. /\ Notice!Row(u, "SYSTEM", b) \in Notification
          /\ [at |-> "owed", user |-> u, type |-> Announced[b]] \in PushJob
        BY SmallNotices DEF Notice!Row, Notification, PushJob, Types
    <1>5. NoticeType'
        BY <1>1, <1>2, <1>4 DEF CountsInv, NoticeType
    <1>6. /\ notices'[f] = Notice!Row(u, "SYSTEM", b) /\ ~notices'[f].read
          /\ \A i \in NoticeIds \ {f} : notices'[i] = notices[i]
          /\ pushJobs'[f] = [at |-> "owed", user |-> u, type |-> Announced[b]]
          /\ \A i \in NoticeIds \ {f} : pushJobs'[i] = pushJobs[i]
        BY <1>1, <1>2 DEF CountsInv, NoticeType, Notice!Row
    <1>7. Kept
        BY <1>2, <1>6 DEF Kept
    <1>8. Shows(f, pushJobs[f].user, pushJobs[f].type)'
        BY <1>6, SmallNotices DEF Shows, Notice!Row, Notice!ResolveDisplayType, Notice!None
    <1>9. PushInv'
        BY <1>1, <1>6, <1>7, <1>8, PushKept DEF CountsInv
    <1>10. CallInv' /\ ReadInv'
        BY <1>1, <1>6, <1>7, CallsKept, ReadKept DEF CountsInv
    <1>11. ExactCount'
        <2> SUFFICES ASSUME ~overlapped', stops' = 0 PROVE ExactCount'
            BY DEF ExactCount
        <2>1. /\ \A d \in Calls : calls[d] = Notice!Idle /\ calls[d].at = "idle"
              /\ \A a \in alive : everRead[a] = readCount[a]
            BY <1>1, Began DEF CountsInv, Notice!Idle
        <2> QED BY <1>1, <2>1 DEF ExactCount
    <1> QED BY <1>3, <1>5, <1>9, <1>10, <1>11 DEF CountsInv

LEMMA NextPush ==
    ASSUME NoticesAssumption, CountsInv, NEW i \in NoticeIds,
           Notice!EnqueuePush(i) \/ Notice!Push(i) \/ Notice!Complete(i) \/ Notice!Stall(i)
    PROVE  CountsInv'
    <1>1. UNCHANGED <<notices, readCount, alive, everRead, calls, overlapped>>
        BY DEF Notice!EnqueuePush, Notice!Push, Notice!Complete, Notice!Stall
    <1>2. PICK at \in {"active", "completed", "waiting", "lost"} : pushJobs' = [pushJobs EXCEPT ![i].at = at]
        BY DEF Notice!EnqueuePush, Notice!Push, Notice!Complete, Notice!Stall
    <1>3. /\ pushJobs \in [NoticeIds -> PushJob] /\ pushJobs[i].at # "none"
          /\ pushJobs[i].user \in Readers /\ pushJobs[i].type \in Types
          /\ pushJobs[i] = [at |-> pushJobs[i].at, user |-> pushJobs[i].user, type |-> pushJobs[i].type]
        <2>1. pushJobs[i].at # "none" /\ pushJobs[i] \in PushJob /\ pushJobs \in [NoticeIds -> PushJob]
            BY DEF CountsInv, NoticeType, Notice!EnqueuePush, Notice!Push, Notice!Complete,
                   Notice!Stall
        <2> QED BY <2>1 DEF PushJob, Notice!NoJob
    <1>4. pushJobs' = [pushJobs EXCEPT ![i] = [at |-> at, user |-> pushJobs[i].user, type |-> pushJobs[i].type]]
        <2>1. [pushJobs[i] EXCEPT !.at = at] = [at |-> at, user |-> pushJobs[i].user, type |-> pushJobs[i].type]
            BY <1>3
        <2> QED BY <1>2, <1>3, <2>1
    <1>5. [at |-> at, user |-> pushJobs[i].user, type |-> pushJobs[i].type] \in PushJob
        BY <1>3 DEF PushJob
    <1>6. /\ pushJobs' \in [NoticeIds -> PushJob]
          /\ \A j \in NoticeIds : pushJobs'[j].at # "none" =>
                 /\ pushJobs[j].at # "none"
                 /\ pushJobs'[j].user = pushJobs[j].user /\ pushJobs'[j].type = pushJobs[j].type
        BY <1>3, <1>4, <1>5
    <1>7. stops' \in 0 .. MaxStops /\ (stops' = 0 => stops = 0)
        <2>1. stops \in 0 .. MaxStops /\ MaxStops \in Nat
            BY SmallNotices DEF CountsInv, NoticeType
        <2> QED BY <2>1 DEF Notice!EnqueuePush, Notice!Push, Notice!Complete, Notice!Stall
    <1>8. NoticeType' /\ Kept
        BY <1>1, <1>6, <1>7 DEF CountsInv, NoticeType, Kept
    <1>9. \A p \in pushed' : p \in pushed \/ (p[2] \in NoticeIds /\ Shows(p[2], p[1], p[3])')
        <2>1. pushed' \subseteq pushed \cup {<<pushJobs[i].user, i, pushJobs[i].type>>}
            BY DEF Notice!EnqueuePush, Notice!Push, Notice!Complete, Notice!Stall
        <2>2. Shows(i, pushJobs[i].user, pushJobs[i].type)
            BY <1>3 DEF CountsInv, PushInv
        <2>3. \A p : p = <<pushJobs[i].user, i, pushJobs[i].type>> =>
                  p[2] = i /\ Shows(p[2], p[1], p[3])'
            BY <1>1, <2>2 DEF Shows, Notice!ResolveDisplayType
        <2> QED BY <2>1, <2>3
    <1>10. PushInv'
        BY <1>1, <1>6, <1>8, <1>9, PushKept DEF CountsInv
    <1>11. CallInv' /\ ReadInv'
        BY <1>1, <1>8, CallsKept, ReadKept DEF CountsInv
    <1>12. ExactCount'
        BY <1>1, <1>7 DEF CountsInv, ExactCount, Notice!Quiet, Behind, Inc, Notice!Found, Notice!Here,
                          Notice!MadeRead, Notice!Unread, Notice!Of
    <1> QED BY <1>1, <1>8, <1>10, <1>11, <1>12 DEF CountsInv

LEMMA NextMarkRead ==
    ASSUME NoticesAssumption, CountsInv, NEW c \in Calls, NEW u \in Readers, NEW i \in NoticeIds,
           Notice!MarkRead(c, u, i)
    PROVE  CountsInv'
    <1>1. /\ calls[c] = Notice!Idle /\ Notice!Found(u, i) /\ Notice!Begins
          /\ calls' = [calls EXCEPT ![c] = [at |-> "update", user |-> u, id |-> i, bc |-> notices[i].bc]]
          /\ UNCHANGED <<notices, pushJobs, pushed, readCount, alive, everRead, stops>>
        BY DEF Notice!MarkRead
    <1>2. notices[i].bc \in Sources \cup {"none"} /\ Owned(i, u, notices[i].bc)
        <2>1. notices[i] \in Notification /\ notices[i].at = "here" /\ notices[i].owner = u
            BY <1>1 DEF CountsInv, NoticeType, Notice!Found, Notice!Here
        <2> QED BY <2>1 DEF Notification, Notice!NoRow, Owned
    <1>3. [at |-> "update", user |-> u, id |-> i, bc |-> notices[i].bc] \in Call
        BY <1>2 DEF Call
    <1>4. /\ calls'[c] = [at |-> "update", user |-> u, id |-> i, bc |-> notices[i].bc]
          /\ \A d \in Calls \ {c} : calls'[d] = calls[d]
        BY <1>1 DEF CountsInv, NoticeType
    <1>5. NoticeType' /\ Kept
        BY <1>1, <1>3 DEF CountsInv, NoticeType, Kept
    <1>6. overlapped' \in BOOLEAN
        BY <1>1 DEF Notice!Begins, CountsInv
    <1>7. calls'[c].at = "update"
        BY <1>4
    <1>8. PushInv' /\ ReadInv'
        BY <1>1, <1>4, <1>5, <1>7, PushKept, ReadKept DEF CountsInv
    <1>9. CallInv'
        <2>1. Owned(calls[c].id, calls[c].user, calls[c].bc)'
            BY <1>1, <1>2, <1>4 DEF Owned
        <2>2. \A d \in Calls \ {c} :
                  /\ calls'[d].at = "update" => Owned(calls[d].id, calls[d].user, calls[d].bc)'
                  /\ calls'[d].at = "updateAll" =>
                         \A b \in DOMAIN calls'[d].incs : \E j \in NoticeIds : Owned(j, calls[d].user, b)'
            BY <1>1, <1>4 DEF CountsInv, CallInv, Owned
        <2> QED BY <1>7, <2>1, <2>2 DEF CallInv
    <1>10. ExactCount'
        <2>1. ~overlapped' /\ stops' = 0 =>
                  /\ \A d \in Calls : calls[d] = Notice!Idle
                  /\ \A b \in alive : everRead[b] = readCount[b]
            BY <1>1, Began DEF CountsInv
        <2>2. \A b \in alive : readCount[b] \in Nat
            BY DEF CountsInv, NoticeType
        <2>3. \A b : Behind(c, b)' = 0
            BY <1>7 DEF Behind
        <2>4. Notice!Found(calls[c].user, calls[c].id)'
            BY <1>1, <1>4 DEF Notice!Found, Notice!Here
        <2>5. ~overlapped' /\ stops' = 0 =>
                  /\ \A d \in Calls \ {c} : calls'[d] = Notice!Idle
                  /\ \A b \in alive' : everRead'[b] = readCount'[b] + Behind(c, b)'
            BY <1>1, <1>4, <2>1, <2>2, <2>3
        <2> QED BY <1>5, <1>7, <2>4, <2>5, ExactOneCall
    <1> QED BY <1>5, <1>6, <1>8, <1>9, <1>10 DEF CountsInv

LEMMA UnreadRows ==
    ASSUME NoticeType, NEW u
    PROVE  /\ Notice!Unread(u) \in SUBSET NoticeIds
           /\ \A i \in Notice!Unread(u) :
                  /\ notices[i].at = "here" /\ notices[i].owner = u
                  /\ notices[i].bc \in Sources \cup {"none"}
    <1>1. \A i \in Notice!Unread(u) : i \in NoticeIds /\ notices[i].at = "here" /\ notices[i].owner = u
        BY DEF Notice!Unread, Notice!Of, Notice!Here, NoticeIds
    <1>2. ASSUME NEW i \in Notice!Unread(u) PROVE notices[i].bc \in Sources \cup {"none"}
        <2>1. notices[i] \in Notification /\ notices[i].at = "here"
            BY <1>1 DEF NoticeType
        <2> QED BY <2>1 DEF Notification, Notice!NoRow
    <1> QED BY <1>1, <1>2

LEMMA NextMarkAllRead ==
    ASSUME NoticesAssumption, CountsInv, NEW c \in Calls, NEW u \in Readers, Notice!MarkAllRead(c, u)
    PROVE  CountsInv'
    <1>1. /\ calls[c] = Notice!Idle /\ Notice!Begins
          /\ UNCHANGED <<notices, pushJobs, pushed, readCount, alive, everRead, stops>>
        BY DEF Notice!MarkAllRead
    <1>2. PICK B : B = {notices[i].bc : i \in Notice!Unread(u)} \ {"none"}
        OBVIOUS
    <1>3. PICK incs : incs = [b \in B |-> Notice!MadeRead(Notice!Unread(u), b)]
        OBVIOUS
    <1>4. calls' = [calls EXCEPT ![c] = [at |-> "updateAll", user |-> u, incs |-> incs]]
        BY <1>2, <1>3 DEF Notice!MarkAllRead, Notice!None
    <1>5. /\ Notice!Unread(u) \in SUBSET NoticeIds
          /\ \A i \in Notice!Unread(u) :
                 /\ notices[i].at = "here" /\ notices[i].owner = u
                 /\ notices[i].bc \in Sources \cup {"none"}
        BY UnreadRows DEF CountsInv
    <1>6. \A b : Notice!MadeRead(Notice!Unread(u), b) \in Nat
        BY <1>5, MadeReadCounts
    <1>7. B \in SUBSET Sources /\ incs \in [B -> Nat]
        BY <1>2, <1>3, <1>5, <1>6
    <1>8. [at |-> "updateAll", user |-> u, incs |-> incs] \in Call
        BY <1>7 DEF Call, Increments
    <1>9. /\ calls'[c] = [at |-> "updateAll", user |-> u, incs |-> incs]
          /\ \A d \in Calls \ {c} : calls'[d] = calls[d]
        BY <1>1, <1>4 DEF CountsInv, NoticeType
    <1>10. /\ calls'[c].at = "updateAll" /\ calls'[c].user = u /\ calls'[c].incs = incs
        BY <1>9
    <1>11. NoticeType' /\ Kept
        BY <1>1, <1>4, <1>8 DEF CountsInv, NoticeType, Kept
    <1>12. overlapped' \in BOOLEAN
        BY <1>1 DEF Notice!Begins, CountsInv
    <1>13. PushInv' /\ ReadInv'
        BY <1>1, <1>9, <1>10, <1>11, PushKept, ReadKept DEF CountsInv
    <1>14. CallInv'
        <2>1. ASSUME NEW b \in B PROVE \E i \in NoticeIds : Owned(i, u, b)'
            <3>1. PICK i \in Notice!Unread(u) : notices[i].bc = b
                BY <1>2
            <3> QED BY <1>1, <1>5, <3>1 DEF Owned
        <2>2. \A d \in Calls \ {c} :
                  /\ calls'[d].at = "update" => Owned(calls[d].id, calls[d].user, calls[d].bc)'
                  /\ calls'[d].at = "updateAll" =>
                         \A b \in DOMAIN calls'[d].incs : \E j \in NoticeIds : Owned(j, calls[d].user, b)'
            BY <1>1, <1>9 DEF CountsInv, CallInv, Owned
        <2>3. DOMAIN incs = B
            BY <1>7
        <2>4. \A b \in DOMAIN calls'[c].incs : \E j \in NoticeIds : Owned(j, calls[c].user, b)'
            BY <1>10, <2>1, <2>3 DEF Owned
        <2> QED BY <1>10, <2>2, <2>4 DEF CallInv
    <1>15. ExactCount'
        <2>1. ~overlapped' /\ stops' = 0 =>
                  /\ \A d \in Calls : calls[d] = Notice!Idle
                  /\ \A b \in alive : everRead[b] = readCount[b]
            BY <1>1, Began DEF CountsInv
        <2>2. \A b \in alive : readCount[b] \in Nat
            BY DEF CountsInv, NoticeType
        <2>3. \A b : Behind(c, b)' = 0
            BY <1>10 DEF Behind
        <2>4. ASSUME NEW b \in Sources
              PROVE  Inc(incs, b) = Notice!MadeRead(Notice!Unread(u), b)
            <3>1. CASE b \in B
                BY <1>3, <1>7, <3>1 DEF Inc
            <3>2. CASE b \notin B
                <4>1. ~(\E i \in Notice!Unread(u) : notices[i].bc = b)
                    BY <1>2, <3>2, SmallNotices
                <4>2. ~(Notice!MadeRead(Notice!Unread(u), b) > 0)
                    BY <1>5, <4>1, MadeReadCounts
                <4>3. Notice!MadeRead(Notice!Unread(u), b) = 0
                    BY <1>6, <4>2
                <4> QED BY <1>7, <3>2, <4>3 DEF Inc
            <3> QED BY <3>1, <3>2
        <2>5. \A b \in Sources : (Inc(calls[c].incs, b) = Notice!MadeRead(Notice!Unread(calls[c].user), b))'
            BY <1>1, <1>10, <2>4 DEF Inc, Notice!MadeRead, Notice!Unread, Notice!Of, Notice!Here
        <2>6. ~overlapped' /\ stops' = 0 =>
                  /\ \A d \in Calls \ {c} : calls'[d] = Notice!Idle
                  /\ \A b \in alive' : everRead'[b] = readCount'[b] + Behind(c, b)'
            BY <1>1, <1>9, <2>1, <2>2, <2>3
        <2> QED BY <1>10, <1>11, <2>5, <2>6, ExactOneCall
    <1> QED BY <1>11, <1>12, <1>13, <1>14, <1>15 DEF CountsInv

LEMMA SetReadRows ==
    ASSUME NoticesAssumption, NoticeType, NEW S \in SUBSET NoticeIds,
           \A i \in S : notices[i].at = "here", Notice!SetRead(S)
    PROVE  /\ notices' \in [NoticeIds -> Notification] /\ everRead' \in [Sources -> Nat]
           /\ Kept
           /\ \A i \in NoticeIds : notices'[i].read = IF i \in S THEN TRUE ELSE notices[i].read
           /\ \A i \in NoticeIds \ S : notices'[i] = notices[i]
           /\ \A b \in Sources : everRead'[b] = everRead[b] + Notice!MadeRead(S, b)
    <1>1. /\ \A i \in NoticeIds : notices'[i] = IF i \in S THEN [notices[i] EXCEPT !.read = TRUE] ELSE notices[i]
          /\ DOMAIN notices' = NoticeIds
          /\ notices' = [i \in NoticeIds |-> notices'[i]]
        BY DEF Notice!SetRead, NoticeIds
    <1>2. ASSUME NEW i \in S
          PROVE  /\ notices'[i] \in Notification /\ notices'[i].read = TRUE
                 /\ notices'[i].at = "here" /\ notices'[i].owner = notices[i].owner
                 /\ notices'[i].type = notices[i].type /\ notices'[i].bc = notices[i].bc
        <2>1. notices[i] \in Notification /\ notices[i].at = "here"
            BY DEF NoticeType
        <2>2. notices[i] \in [at : {"here", "gone"}, owner : Readers, type : Types,
                              bc : Sources \cup {"none"}, read : BOOLEAN]
            BY <2>1 DEF Notification, Notice!NoRow
        <2>3. notices'[i] = [notices[i] EXCEPT !.read = TRUE]
            BY <1>1
        <2> QED BY <2>1, <2>2, <2>3 DEF Notification
    <1>3. \A i \in NoticeIds : notices'[i] \in Notification
        BY <1>1, <1>2 DEF NoticeType
    <1>4. notices' \in [NoticeIds -> Notification]
        BY <1>1, <1>3
    <1>5. Kept
        <2>1. \A i \in NoticeIds : i \in S \/ notices'[i] = notices[i]
            BY <1>1
        <2> QED BY <1>2, <2>1 DEF Kept
    <1>6. everRead' \in [Sources -> Nat] /\ \A b \in Sources : everRead'[b] = everRead[b] + Notice!MadeRead(S, b)
        <2>1. \A b : Notice!MadeRead(S, b) \in Nat
            BY MadeReadCounts
        <2> QED BY <2>1 DEF Notice!SetRead, Sources, NoticeType
    <1>7. \A i \in NoticeIds : notices'[i].read = IF i \in S THEN TRUE ELSE notices[i].read
        BY <1>1, <1>2
    <1> QED BY <1>1, <1>4, <1>5, <1>6, <1>7

LEMMA ReadSet ==
    ASSUME NoticesAssumption, NoticeType, ReadInv, NEW S \in SUBSET NoticeIds,
           \A i \in S : notices[i].at = "here", Notice!SetRead(S),
           UNCHANGED readCount, NEW c \in Calls, \A d \in Calls \ {c} : calls'[d] = calls[d],
           calls'[c].at = "count" /\ Notice!NoneDeleted =>
               \A b \in DOMAIN calls'[c].incs :
                   b \in Sources /\ (everRead[b] > 0 \/ \E i \in S : notices[i].bc = b)
    PROVE  ReadInv'
    <1> SUFFICES ASSUME Notice!NoneDeleted' PROVE ReadInv'
        BY DEF ReadInv
    <1>1. /\ Kept
          /\ \A i \in NoticeIds : notices'[i].read = IF i \in S THEN TRUE ELSE notices[i].read
          /\ \A i \in NoticeIds \ S : notices'[i] = notices[i]
          /\ \A b \in Sources : everRead'[b] = everRead[b] + Notice!MadeRead(S, b)
        BY SetReadRows
    <1>2. Notice!NoneDeleted
        BY <1>1, KeptRows
    <1>3. \A b \in Sources : /\ everRead[b] \in Nat /\ Notice!MadeRead(S, b) \in Nat
                             /\ everRead[b] > 0 => everRead'[b] > 0
                             /\ (\E i \in S : notices[i].bc = b) => everRead'[b] > 0
        BY <1>1, MadeReadCounts DEF NoticeType
    <1>4. \A b \in Sources : readCount'[b] > 0 => everRead'[b] > 0
        BY <1>2, <1>3 DEF ReadInv
    <1>5. ASSUME NEW i \in NoticeIds, notices'[i].at # "none", notices'[i].read, notices'[i].bc # "none"
          PROVE  everRead'[notices'[i].bc] > 0
        <2>1. notices'[i] \in Notification
            BY SetReadRows
        <2>2. notices'[i].bc \in Sources
            BY <1>5, <2>1 DEF Notification, Notice!NoRow
        <2>3. CASE i \in S
            BY <1>1, <1>3, <2>2, <2>3 DEF Kept
        <2>4. CASE i \notin S
            BY <1>1, <1>2, <1>3, <1>5, <2>2, <2>4 DEF ReadInv
        <2> QED BY <2>3, <2>4
    <1>6. ASSUME NEW d \in Calls, calls'[d].at = "count", NEW b \in DOMAIN calls'[d].incs
          PROVE  everRead'[b] > 0
        <2>1. CASE d = c
            BY <1>2, <1>3, <1>6, <2>1
        <2>2. CASE d # c
            <3>1. calls'[d] = calls[d] /\ calls[d].incs \in Increments
                BY <1>6, <2>2, CallIds
            <3>2. b \in Sources /\ everRead[b] > 0
                BY <1>2, <1>6, <3>1 DEF ReadInv, Increments
            <3> QED BY <1>3, <3>2
        <2> QED BY <2>1, <2>2
    <1> QED BY <1>4, <1>5, <1>6 DEF ReadInv

LEMMA NextMarkReadUpdate ==
    ASSUME NoticesAssumption, CountsInv, NEW c \in Calls, Notice!MarkReadUpdate(c)
    PROVE  CountsInv'
    <1> DEFINE S == {calls[c].id} \cap Notice!Unread(calls[c].user)
    <1>1. /\ calls[c].at = "update" /\ Notice!SetRead(S)
          /\ UNCHANGED <<pushJobs, pushed, readCount, alive, stops, overlapped>>
        BY DEF Notice!MarkReadUpdate
    <1>2. PICK b : b = calls[c].bc
        OBVIOUS
    <1>3. /\ calls[c].id \in NoticeIds /\ b \in Sources \cup {"none"}
          /\ Owned(calls[c].id, calls[c].user, b)
        BY <1>1, <1>2, CallIds DEF CountsInv, CallInv
    <1>4. PICK new : /\ new = IF b = "none" THEN Notice!Idle
                              ELSE [at |-> "count", incs |-> [a \in {b} |-> 1]]
                     /\ calls' = [calls EXCEPT ![c] = new]
        BY <1>2 DEF Notice!MarkReadUpdate, Notice!None
    <1>5. S \in SUBSET NoticeIds /\ \A i \in S : notices[i].at = "here"
        BY <1>3, UnreadRows DEF CountsInv
    <1>6. \/ b = "none" /\ new = Notice!Idle /\ new.at = "idle"
          \/ /\ b \in Sources /\ new.at = "count" /\ new.incs = [a \in {b} |-> 1]
             /\ DOMAIN new.incs = {b} /\ new.incs[b] = 1 /\ new.incs \in Increments
             /\ new = [at |-> "count", incs |-> new.incs]
        <2>1. CASE b = "none"
            BY <1>4, <2>1 DEF Notice!Idle
        <2>2. CASE b # "none"
            <3>1. new = [at |-> "count", incs |-> [a \in {b} |-> 1]] /\ b \in Sources
                BY <1>3, <1>4, <2>2
            <3>2. [a \in {b} |-> 1] \in [{b} -> Nat] /\ {b} \in SUBSET Sources
                BY <3>1
            <3> QED BY <3>1, <3>2 DEF Increments
        <2> QED BY <2>1, <2>2
    <1>7. new \in Call
        <2>1. CASE new = Notice!Idle
            BY <2>1 DEF Call
        <2>2. CASE new = [at |-> "count", incs |-> new.incs] /\ new.incs \in Increments
            BY <2>2 DEF Call
        <2> QED BY <1>6, <2>1, <2>2
    <1>8. calls'[c] = new /\ \A d \in Calls \ {c} : calls'[d] = calls[d]
        BY <1>4 DEF CountsInv, NoticeType
    <1> HIDE DEF S
    <1>9. /\ notices' \in [NoticeIds -> Notification] /\ everRead' \in [Sources -> Nat] /\ Kept
          /\ \A a \in Sources : everRead'[a] = everRead[a] + Notice!MadeRead(S, a)
        BY <1>1, <1>5, SetReadRows DEF CountsInv
    <1>10. NoticeType'
        BY <1>1, <1>4, <1>7, <1>9 DEF CountsInv, NoticeType
    <1>11. PushInv' /\ CallInv'
        BY <1>1, <1>6, <1>8, <1>9, PushKept, CallsKept DEF CountsInv
    <1>12. ReadInv'
        <2>1. ASSUME calls'[c].at = "count", Notice!NoneDeleted, NEW a \in DOMAIN calls'[c].incs
              PROVE  a \in Sources /\ (everRead[a] > 0 \/ \E i \in S : notices[i].bc = a)
            <3>1. a = b /\ b \in Sources /\ b # "none"
                BY <1>6, <1>8, <2>1, SmallNotices
            <3>2. PICK i \in NoticeIds : i = calls[c].id
                BY <1>3
            <3>3. notices[i].at # "none" /\ notices[i].bc = b /\ notices[i].owner = calls[c].user
                BY <1>3, <3>2 DEF Owned
            <3>4. notices[i].at = "here"
                <4>1. notices[i] \in Notification /\ notices[i].at # "gone"
                    BY <2>1 DEF CountsInv, NoticeType, Notice!NoneDeleted, NoticeIds
                <4> QED BY <3>3, <4>1 DEF Notification, Notice!NoRow
            <3>5. CASE notices[i].read
                BY <2>1, <3>1, <3>3, <3>5 DEF CountsInv, ReadInv
            <3>6. CASE ~notices[i].read
                <4>1. i \in Notice!Unread(calls[c].user)
                    BY <3>3, <3>4, <3>6 DEF Notice!Unread, Notice!Of, Notice!Here, NoticeIds
                <4> QED BY <3>1, <3>2, <3>3, <4>1 DEF S
            <3> QED BY <3>1, <3>5, <3>6
        <2> QED BY <1>1, <1>5, <1>8, <2>1, ReadSet DEF CountsInv
    <1>13. ExactCount'
        <2>1. ASSUME ~overlapped', stops' = 0
              PROVE  /\ \A d \in Calls \ {c} : calls'[d] = Notice!Idle
                     /\ \A a \in alive' : everRead'[a] = readCount'[a] + Behind(c, a)'
            <3>1. ~overlapped /\ stops = 0 /\ calls[c].at # "idle" /\ calls[c] # Notice!Idle
                BY <1>1, <2>1 DEF Notice!Idle
            <3>2. /\ \A d \in Calls \ {c} : calls'[d] = Notice!Idle
                  /\ \A a \in alive : everRead[a] = readCount[a] + Behind(c, a)
                BY <1>8, <3>1, OnlyCall DEF CountsInv
            <3>3. \A a : Behind(c, a) = 0
                BY <1>1 DEF Behind
            <3>4. Notice!Found(calls[c].user, calls[c].id)
                BY <1>1, <3>1 DEF CountsInv, ExactCount
            <3>5. S = {calls[c].id} /\ notices[calls[c].id].bc = b
                BY <1>3, <3>4 DEF S, Notice!Found, Notice!Here, Notice!Unread, Notice!Of, NoticeIds, Owned
            <3>6. \A a : Notice!MadeRead(S, a) = IF b = a THEN 1 ELSE 0
                BY <1>5, <3>5, MadeReadCounts
            <3>7. \A a \in Sources : Behind(c, a)' = IF b = a THEN 1 ELSE 0
                BY <1>6, <1>8, SmallNotices DEF Behind, Inc
            <3>8. \A a \in alive : a \in Sources /\ readCount[a] \in Nat /\ everRead[a] \in Nat
                BY DEF CountsInv, NoticeType
            <3>9. \A a \in alive' : everRead'[a] = readCount'[a] + Behind(c, a)'
                BY <1>1, <1>9, <3>2, <3>3, <3>6, <3>7, <3>8
            <3> QED BY <3>2, <3>9
        <2> QED BY <1>6, <1>8, <1>10, <2>1, ExactOneCall
    <1> QED BY <1>1, <1>10, <1>11, <1>12, <1>13 DEF CountsInv

LEMMA NextMarkAllUpdate ==
    ASSUME NoticesAssumption, CountsInv, NEW c \in Calls, Notice!MarkAllUpdate(c)
    PROVE  CountsInv'
    <1> DEFINE S == Notice!Unread(calls[c].user)
    <1>1. /\ calls[c].at = "updateAll" /\ Notice!SetRead(S)
          /\ UNCHANGED <<pushJobs, pushed, readCount, alive, stops, overlapped>>
        BY DEF Notice!MarkAllUpdate
    <1>2. PICK incs : incs = calls[c].incs
        OBVIOUS
    <1>3. incs \in Increments
        BY <1>1, <1>2, CallIds DEF CountsInv
    <1>4. calls' = [calls EXCEPT ![c] = [at |-> "count", incs |-> incs]]
        BY <1>2 DEF Notice!MarkAllUpdate
    <1>5. S \in SUBSET NoticeIds /\ \A i \in S : notices[i].at = "here"
        BY UnreadRows DEF CountsInv
    <1>6. [at |-> "count", incs |-> incs] \in Call
        BY <1>3 DEF Call
    <1>7. /\ calls'[c].at = "count" /\ calls'[c].incs = incs
          /\ \A d \in Calls \ {c} : calls'[d] = calls[d]
        BY <1>4 DEF CountsInv, NoticeType
    <1> HIDE DEF S
    <1>8. /\ notices' \in [NoticeIds -> Notification] /\ everRead' \in [Sources -> Nat] /\ Kept
          /\ \A a \in Sources : everRead'[a] = everRead[a] + Notice!MadeRead(S, a)
        BY <1>1, <1>5, SetReadRows DEF CountsInv
    <1>9. NoticeType'
        BY <1>1, <1>4, <1>6, <1>8 DEF CountsInv, NoticeType
    <1>10. PushInv' /\ CallInv'
        BY <1>1, <1>7, <1>8, PushKept, CallsKept DEF CountsInv
    <1>11. ReadInv'
        <2>1. ASSUME Notice!NoneDeleted, NEW a \in DOMAIN incs
              PROVE  a \in Sources /\ (everRead[a] > 0 \/ \E i \in S : notices[i].bc = a)
            <3>1. a \in Sources /\ a # "none"
                BY <1>3, SmallNotices DEF Increments
            <3>2. PICK i \in NoticeIds : Owned(i, calls[c].user, a)
                BY <1>1, <1>2 DEF CountsInv, CallInv
            <3>3. notices[i].at # "none" /\ notices[i].bc = a /\ notices[i].owner = calls[c].user
                BY <3>2 DEF Owned
            <3>4. notices[i].at = "here"
                <4>1. notices[i] \in Notification /\ notices[i].at # "gone"
                    BY <2>1 DEF CountsInv, NoticeType, Notice!NoneDeleted, NoticeIds
                <4> QED BY <3>3, <4>1 DEF Notification, Notice!NoRow
            <3>5. CASE notices[i].read
                BY <2>1, <3>1, <3>3, <3>5 DEF CountsInv, ReadInv
            <3>6. CASE ~notices[i].read
                BY <3>1, <3>3, <3>4, <3>6 DEF S, Notice!Unread, Notice!Of, Notice!Here, NoticeIds
            <3> QED BY <3>1, <3>5, <3>6
        <2> QED BY <1>1, <1>5, <1>7, <2>1, ReadSet DEF CountsInv
    <1>12. ExactCount'
        <2>1. ASSUME ~overlapped', stops' = 0
              PROVE  /\ \A d \in Calls \ {c} : calls'[d] = Notice!Idle
                     /\ \A a \in alive' : everRead'[a] = readCount'[a] + Behind(c, a)'
            <3>1. ~overlapped /\ stops = 0 /\ calls[c].at # "idle"
                BY <1>1, <2>1
            <3>2. /\ \A d \in Calls \ {c} : calls'[d] = Notice!Idle
                  /\ \A a \in alive : everRead[a] = readCount[a] + Behind(c, a)
                BY <1>7, <3>1, OnlyCall DEF CountsInv
            <3>3. \A a : Behind(c, a) = 0
                BY <1>1 DEF Behind
            <3>4. \A a \in Sources : Inc(incs, a) = Notice!MadeRead(S, a)
                BY <1>1, <1>2, <3>1 DEF CountsInv, ExactCount, S
            <3>5. \A a \in Sources : Behind(c, a)' = Notice!MadeRead(S, a)
                BY <1>7, <3>4 DEF Behind, Inc
            <3>6. \A a \in alive : a \in Sources /\ readCount[a] \in Nat /\ everRead[a] \in Nat
                BY DEF CountsInv, NoticeType
            <3>7. \A a \in alive' : everRead'[a] = readCount'[a] + Behind(c, a)'
                BY <1>1, <1>8, <3>2, <3>3, <3>5, <3>6
            <3> QED BY <3>2, <3>7
        <2> QED BY <1>7, <1>9, <2>1, ExactOneCall
    <1> QED BY <1>1, <1>9, <1>10, <1>11, <1>12 DEF CountsInv

LEMMA NextCount ==
    ASSUME NoticesAssumption, CountsInv, NEW c \in Calls, NEW b \in Sources, Notice!Count(c, b)
    PROVE  CountsInv'
    <1>1. /\ calls[c].at = "count" /\ b \in DOMAIN calls[c].incs
          /\ UNCHANGED <<notices, pushJobs, pushed, alive, everRead, overlapped>>
          /\ \/ /\ b \in alive /\ UNCHANGED stops
                /\ readCount' = [readCount EXCEPT ![b] = @ + calls[c].incs[b]]
             \/ b \notin alive /\ UNCHANGED <<readCount, stops>>
             \/ stops < MaxStops /\ stops' = stops + 1 /\ UNCHANGED readCount
        BY DEF Notice!Count
    <1>15. stops' \in 0 .. MaxStops /\ (stops' = 0 => stops = 0 /\ stops' = stops)
        <2>1. stops \in 0 .. MaxStops /\ MaxStops \in Nat
            BY SmallNotices DEF CountsInv, NoticeType
        <2> QED BY <1>1, <2>1
    <1>2. PICK incs : incs = calls[c].incs
        OBVIOUS
    <1>3. PICK rest : rest = [d \in DOMAIN incs \ {b} |-> incs[d]]
        OBVIOUS
    <1>4. incs \in Increments /\ calls[c] = [at |-> "count", incs |-> incs] /\ calls[c] \in Call
        <2>1. calls[c] \in Call /\ calls[c].at = "count"
            BY <1>1 DEF CountsInv, NoticeType
        <2> QED BY <1>2, <2>1 DEF Call, Notice!Idle
    <1>5. calls' = [calls EXCEPT ![c] = [at |-> "count", incs |-> rest]]
        <2>1. calls' = [calls EXCEPT ![c] = [calls[c] EXCEPT !.incs = rest]]
            BY <1>2, <1>3 DEF Notice!Count
        <2>2. [calls[c] EXCEPT !.incs = rest] = [at |-> "count", incs |-> rest]
            BY <1>4
        <2> QED BY <2>1, <2>2
    <1>6. /\ incs[b] \in Nat
          /\ DOMAIN rest = DOMAIN incs \ {b} /\ \A d \in DOMAIN rest : rest[d] = incs[d]
          /\ rest \in [DOMAIN incs \ {b} -> Nat] /\ DOMAIN incs \subseteq Sources
        BY <1>1, <1>2, <1>3, <1>4 DEF Increments
    <1>7. rest \in Increments
        BY <1>6 DEF Increments
    <1>8. [at |-> "count", incs |-> rest] \in Call
        BY <1>7 DEF Call
    <1>9. /\ calls'[c].at = "count" /\ calls'[c].incs = rest
          /\ \A d \in Calls \ {c} : calls'[d] = calls[d]
        BY <1>5 DEF CountsInv, NoticeType
    <1>10. /\ readCount' \in [Sources -> Nat]
           /\ \A a \in Sources \ {b} : readCount'[a] = readCount[a]
           /\ readCount'[b] \in {readCount[b], readCount[b] + incs[b]}
           /\ b \in alive /\ stops' = 0 => readCount'[b] = readCount[b] + incs[b]
        <2>1. readCount \in [Sources -> Nat] /\ stops \in 0 .. MaxStops /\ MaxStops \in Nat
            BY SmallNotices DEF CountsInv, NoticeType
        <2>2. CASE readCount' = [readCount EXCEPT ![b] = @ + calls[c].incs[b]]
            BY <1>2, <1>6, <2>1, <2>2
        <2>3. CASE UNCHANGED readCount /\ (b \notin alive \/ stops' = stops + 1)
            BY <2>1, <2>3
        <2> QED BY <1>1, <2>2, <2>3
    <1>11. NoticeType' /\ Kept
        BY <1>1, <1>5, <1>8, <1>10, <1>15 DEF CountsInv, NoticeType, Kept
    <1>12. PushInv' /\ CallInv'
        BY <1>1, <1>9, <1>11, PushKept, CallsKept DEF CountsInv
    <1>13. ReadInv'
        <2> SUFFICES ASSUME Notice!NoneDeleted' PROVE ReadInv'
            BY DEF ReadInv
        <2>1. Notice!NoneDeleted
            BY <1>11, KeptRows
        <2>2. everRead[b] > 0
            BY <1>1, <2>1 DEF CountsInv, ReadInv
        <2>3. \A a \in Sources : readCount'[a] > 0 => everRead'[a] > 0
            <3>1. ASSUME NEW a \in Sources, readCount'[a] > 0 PROVE everRead'[a] > 0
                BY <1>1, <1>10, <2>1, <2>2, <3>1 DEF CountsInv, ReadInv
            <3> QED BY <3>1
        <2>4. \A i \in NoticeIds : notices'[i].at # "none" /\ notices'[i].read /\ notices'[i].bc # "none"
                                    => everRead'[notices'[i].bc] > 0
            BY <1>1, <2>1 DEF CountsInv, ReadInv
        <2>5. \A d \in Calls :
                  calls'[d].at = "count" => \A a \in DOMAIN calls'[d].incs : everRead'[a] > 0
            BY <1>1, <1>2, <1>6, <1>9, <2>1 DEF CountsInv, ReadInv
        <2> QED BY <2>3, <2>4, <2>5 DEF ReadInv
    <1>14. ExactCount'
        <2>1. ASSUME ~overlapped', stops' = 0
              PROVE  /\ \A d \in Calls \ {c} : calls'[d] = Notice!Idle
                     /\ \A a \in alive' : everRead'[a] = readCount'[a] + Behind(c, a)'
            <3>1. /\ \A d \in Calls \ {c} : calls'[d] = Notice!Idle
                  /\ \A a \in alive : everRead[a] = readCount[a] + Behind(c, a)
                BY <1>1, <1>9, <1>15, <2>1, OnlyCall DEF CountsInv
            <3>2. \A a : Behind(c, a) = Inc(incs, a) /\ Behind(c, a)' = Inc(rest, a)
                BY <1>1, <1>2, <1>9 DEF Behind, Inc
            <3>3. ASSUME NEW a \in alive PROVE everRead'[a] = readCount'[a] + Behind(c, a)'
                <4>1. /\ a \in Sources /\ readCount[a] \in Nat /\ everRead[a] = readCount[a] + Inc(incs, a)
                    BY <3>1, <3>2 DEF CountsInv, NoticeType
                <4>2. CASE a = b
                    BY <1>1, <1>2, <1>6, <1>10, <2>1, <3>2, <4>1, <4>2 DEF Inc
                <4>3. CASE a # b
                    <5>1. Inc(rest, a) = Inc(incs, a)
                        BY <1>6, <4>3 DEF Inc
                    <5> QED BY <1>1, <1>10, <3>2, <4>1, <4>3, <5>1
                <4> QED BY <4>2, <4>3
            <3> QED BY <1>1, <3>1, <3>3
        <2> QED BY <1>9, <1>11, <2>1, ExactOneCall
    <1> QED BY <1>1, <1>11, <1>12, <1>13, <1>14 DEF CountsInv

LEMMA NextReturnOrStop ==
    ASSUME NoticesAssumption, CountsInv, NEW c \in Calls, Notice!Return(c) \/ Notice!Stop(c)
    PROVE  CountsInv'
    <1>1. /\ calls' = [calls EXCEPT ![c] = Notice!Idle]
          /\ UNCHANGED <<notices, pushJobs, pushed, readCount, alive, everRead, overlapped>>
        BY DEF Notice!Return, Notice!Stop
    <1>2. stops' \in 0 .. MaxStops
        <2>1. stops \in 0 .. MaxStops /\ MaxStops \in Nat
            BY SmallNotices DEF CountsInv, NoticeType
        <2> QED BY <2>1 DEF Notice!Return, Notice!Stop
    <1>3. /\ calls'[c] = Notice!Idle /\ calls'[c].at = "idle"
          /\ \A d \in Calls \ {c} : calls'[d] = calls[d]
        BY <1>1 DEF CountsInv, NoticeType, Notice!Idle
    <1>4. NoticeType' /\ Kept
        BY <1>1, <1>2 DEF CountsInv, NoticeType, Kept, Call
    <1>5. PushInv' /\ CallInv' /\ ReadInv'
        BY <1>1, <1>3, <1>4, PushKept, CallsKept, ReadKept DEF CountsInv
    <1>6. ExactCount'
        <2>1. ASSUME ~overlapped', stops' = 0
              PROVE  /\ \A d \in Calls \ {c} : calls'[d] = Notice!Idle
                     /\ \A a \in alive' : everRead'[a] = readCount'[a] + Behind(c, a)'
            <3>1. Notice!Return(c)
                <4>1. stops \in Nat
                    BY SmallNotices DEF CountsInv, NoticeType
                <4> QED BY <2>1, <4>1 DEF Notice!Return, Notice!Stop
            <3>2. calls[c].at = "count" /\ DOMAIN calls[c].incs = {} /\ stops' = stops
                BY <3>1 DEF Notice!Return
            <3>3. /\ \A d \in Calls \ {c} : calls'[d] = Notice!Idle
                  /\ \A a \in alive : everRead[a] = readCount[a] + Behind(c, a)
                BY <1>1, <1>3, <2>1, <3>2, OnlyCall DEF CountsInv
            <3>4. \A a : Behind(c, a) = 0 /\ Behind(c, a)' = 0
                BY <1>3, <3>2 DEF Behind, Inc
            <3> QED BY <1>1, <3>3, <3>4
        <2> QED BY <1>3, <1>4, <2>1, ExactOneCall
    <1> QED BY <1>1, <1>4, <1>5, <1>6 DEF CountsInv

LEMMA NextDeleteNotices ==
    ASSUME NoticesAssumption, CountsInv,
           \/ \E u \in Readers, i \in NoticeIds : Notice!Delete(u, i)
           \/ \E b \in Sources : Notice!DeleteDerived(b) \/ Notice!DeleteBroadcast(b)
    PROVE  CountsInv'
    <1>1. /\ Notice!Begins /\ alive' \subseteq alive
          /\ UNCHANGED <<pushJobs, pushed, readCount, everRead, calls, stops>>
        BY DEF Notice!Delete, Notice!DeleteDerived, Notice!DeleteBroadcast
    <1>2. PICK S : /\ \A i \in S : i \in NoticeIds /\ notices[i].at = "here"
                   /\ UNCHANGED notices \/ Notice!Gone(S)
        <2>1. CASE \E u \in Readers, i \in NoticeIds : Notice!Delete(u, i)
            <3>1. PICK u \in Readers, i \in NoticeIds : Notice!Delete(u, i)
                BY <2>1
            <3>2. \A j \in {i} : j \in NoticeIds /\ notices[j].at = "here"
                BY <3>1 DEF Notice!Delete, Notice!Of, Notice!Here
            <3> QED BY <3>1, <3>2 DEF Notice!Delete
        <2>2. CASE \E b \in Sources : Notice!DeleteDerived(b)
            <3>1. PICK b \in Sources : Notice!DeleteDerived(b)
                BY <2>2
            <3>2. PICK T : T = {i \in NoticeIds : Notice!Here(i) /\ notices[i].bc = b}
                OBVIOUS
            <3>3. Notice!Gone(T) /\ \A j \in T : j \in NoticeIds /\ notices[j].at = "here"
                BY <3>1, <3>2 DEF Notice!DeleteDerived, Notice!Here, NoticeIds
            <3> QED BY <3>3
        <2>3. CASE \E b \in Sources : Notice!DeleteBroadcast(b)
            <3>1. UNCHANGED notices
                BY <2>3 DEF Notice!DeleteBroadcast
            <3>2. \A i \in {} : i \in NoticeIds /\ notices[i].at = "here"
                OBVIOUS
            <3> WITNESS {}
            <3> QED BY <3>1, <3>2
        <2> QED BY <2>1, <2>2, <2>3
    <1>3. /\ notices' \in [NoticeIds -> Notification]
          /\ \A i \in NoticeIds :
                 \/ notices'[i] = notices[i]
                 \/ /\ notices[i].at = "here" /\ notices'[i].at = "gone"
                    /\ notices'[i].owner = notices[i].owner /\ notices'[i].type = notices[i].type
                    /\ notices'[i].bc = notices[i].bc /\ notices'[i].read = notices[i].read
        <2>1. CASE UNCHANGED notices
            BY <2>1 DEF CountsInv, NoticeType
        <2>2. CASE Notice!Gone(S)
            <3>1. /\ DOMAIN notices' = NoticeIds
                  /\ notices' = [i \in NoticeIds |-> notices'[i]]
                  /\ \A i \in NoticeIds :
                        notices'[i] = IF i \in S THEN [notices[i] EXCEPT !.at = "gone"] ELSE notices[i]
                BY <2>2 DEF Notice!Gone, NoticeIds
            <3>2. ASSUME NEW i \in S
                  PROVE  /\ notices'[i] \in Notification
                         /\ notices[i].at = "here" /\ notices'[i].at = "gone"
                         /\ notices'[i].owner = notices[i].owner /\ notices'[i].type = notices[i].type
                         /\ notices'[i].bc = notices[i].bc /\ notices'[i].read = notices[i].read
                <4>1. notices[i] \in Notification /\ notices[i].at = "here"
                    BY <1>2 DEF CountsInv, NoticeType
                <4>2. notices[i] \in [at : {"here", "gone"}, owner : Readers, type : Types,
                                      bc : Sources \cup {"none"}, read : BOOLEAN]
                    BY <4>1 DEF Notification, Notice!NoRow
                <4>3. notices'[i] = [notices[i] EXCEPT !.at = "gone"]
                    BY <1>2, <3>1
                <4> QED BY <4>1, <4>2, <4>3 DEF Notification
            <3>3. \A i \in NoticeIds : notices'[i] \in Notification
                BY <3>1, <3>2 DEF CountsInv, NoticeType
            <3> QED BY <3>1, <3>2, <3>3
        <2> QED BY <1>2, <2>1, <2>2
    <1>4. NoticeType' /\ Kept /\ overlapped' \in BOOLEAN
        <2>1. NoticeType' /\ Kept
            BY <1>1, <1>3 DEF CountsInv, NoticeType, Kept
        <2>2. overlapped' \in BOOLEAN
            BY <1>1 DEF Notice!Begins, CountsInv
        <2> QED BY <2>1, <2>2
    <1>5. PushInv' /\ CallInv' /\ ReadInv'
        BY <1>1, <1>3, <1>4, PushKept, CallsKept, ReadKept DEF CountsInv
    <1>6. ExactCount'
        <2> SUFFICES ASSUME ~overlapped', stops' = 0 PROVE ExactCount'
            BY DEF ExactCount
        <2>1. /\ \A d \in Calls : calls[d] = Notice!Idle /\ calls[d].at = "idle"
              /\ \A a \in alive : everRead[a] = readCount[a]
            BY <1>1, Began DEF CountsInv, Notice!Idle
        <2> QED BY <1>1, <2>1 DEF ExactCount
    <1> QED BY <1>4, <1>5, <1>6 DEF CountsInv

(* The broadcasts whose deletion has begun are broadcasts.                 *)
DeletingInv == deleting \subseteq Sources
LEMMA NextDeleting ==
    ASSUME DeletingInv, [Notice!Next]_Notice!vars
    PROVE  DeletingInv'
    <1>1. UNCHANGED deleting \/ \E b \in Sources : deleting' = deleting \cup {b}
        BY DEF Notice!Next, Notice!vars, Notice!Send, Notice!MarkRead, Notice!MarkAllRead,
               Notice!Enqueue, Notice!MarkReadUpdate, Notice!MarkAllUpdate, Notice!Return,
               Notice!Stop, Notice!Count, Notice!EnqueuePush, Notice!Push, Notice!Complete,
               Notice!Stall, Notice!Delete, Notice!DeleteDerived, Notice!DeleteBroadcast,
               Notice!Deliver, Sources
    <1> QED BY <1>1 DEF DeletingInv

LEMMA NextCountsInv ==
    ASSUME NoticesAssumption, CountsInv, [Notice!Next]_Notice!vars
    PROVE  CountsInv'
    <1>1. CASE UNCHANGED Notice!vars
        <2>1. UNCHANGED <<notices, pushJobs, pushed, readCount, alive, everRead, calls, overlapped, stops>>
            BY <1>1 DEF Notice!vars
        <2>2. NoticeType' /\ Kept /\ overlapped' \in BOOLEAN
            BY <2>1 DEF CountsInv, NoticeType, Kept
        <2>3. PushInv' /\ CallInv' /\ ReadInv'
            BY <2>1, <2>2, PushKept, CallsKept, ReadKept DEF CountsInv
        <2>4. ExactCount'
            BY <2>1 DEF CountsInv, ExactCount, Notice!Quiet, Behind, Inc, Notice!Found, Notice!Here,
                        Notice!MadeRead, Notice!Unread, Notice!Of
        <2> QED BY <2>2, <2>3, <2>4 DEF CountsInv
    <1>2. CASE \E c \in Calls, u \in Readers :
                  \/ \E type \in Kinds : Notice!Send(c, u, type)
                  \/ \E i \in NoticeIds : Notice!MarkRead(c, u, i)
                  \/ Notice!MarkAllRead(c, u)
        BY <1>2, NextSendNotice, NextMarkRead, NextMarkAllRead
    <1>3. CASE \E c \in Calls :
                  \/ Notice!Enqueue(c) \/ Notice!MarkReadUpdate(c) \/ Notice!MarkAllUpdate(c)
                  \/ Notice!Return(c) \/ Notice!Stop(c) \/ \E b \in Sources : Notice!Count(c, b)
        BY <1>3, NextEnqueueNotice, NextMarkReadUpdate, NextMarkAllUpdate, NextReturnOrStop, NextCount
    <1>4. CASE \E i \in NoticeIds : \/ Notice!EnqueuePush(i) \/ Notice!Push(i)
                                    \/ Notice!Complete(i) \/ Notice!Stall(i)
                                    \/ \E u \in Readers : Notice!Delete(u, i)
        BY <1>4, NextPush, NextDeleteNotices
    <1>5. CASE \E b \in Sources : \/ Notice!DeleteDerived(b) \/ Notice!DeleteBroadcast(b)
                                  \/ \E u \in Readers : Notice!Deliver(u, b)
        BY <1>5, NextDeliver, NextDeleteNotices
    <1> QED BY <1>1, <1>2, <1>3, <1>4, <1>5 DEF Notice!Next, NoticeIds, Sources

(* However requests, pushes, deletions and stops interleave: pushes and      *)
(* pages show the list, no count is above zero without a reader, and counts *)
(* are exact while requests come one at a time and nothing stops or fails.  *)
THEOREM NotificationsAreCounted == Notice!Spec => []NotificationsCounted
    <1>1. ASSUME CountsInv, DeletingInv PROVE NotificationsCounted
        <2>1. Notice!TypeOK
            <3>1. ASSUME NEW i \in NoticeIds
                  PROVE  /\ notices[i].at \in {"none", "here", "gone"}
                         /\ notices[i].at # "none" => notices[i].read \in BOOLEAN /\ notices[i].owner \in Readers
                <4>1. notices[i] \in Notification
                    BY <1>1 DEF CountsInv, NoticeType
                <4> QED BY <4>1 DEF Notification, Notice!NoRow
            <3>2. ASSUME NEW i \in NoticeIds
                  PROVE  pushJobs[i].at \in {"none", "owed", "waiting", "lost", "active", "completed"}
                <4>1. pushJobs[i] \in PushJob
                    BY <1>1 DEF CountsInv, NoticeType
                <4> QED BY <4>1 DEF PushJob, Notice!NoJob
            <3>3. \A c \in Calls : calls[c].at \in {"idle", "enqueue", "update", "updateAll", "count"}
                BY <1>1, CallIds DEF CountsInv
            <3>4. /\ alive \subseteq Sources /\ stops \in 0 .. MaxStops
                  /\ \A b \in Sources : readCount[b] \in Nat /\ everRead[b] \in Nat
                BY <1>1 DEF CountsInv, NoticeType
            <3>5. overlapped \in BOOLEAN
                BY <1>1 DEF CountsInv
            <3> QED BY <1>1, <3>1, <3>2, <3>3, <3>4, <3>5, Zenon DEF Notice!TypeOK, NoticeIds, Sources, DeletingInv
        <2>2. Notice!PushedAsListed
            BY <1>1 DEF CountsInv, PushInv, Shows, Notice!PushedAsListed
        <2>3. Notice!PagesMakeTheList
            <3> SUFFICES ASSUME NEW u \in Readers, NEW limit \in Limits, NEW onlyUnread \in BOOLEAN
                         PROVE  LET page(n) == Notice!Page(u, onlyUnread, n, limit)
                                    all == UNION {page(n) : n \in 1 .. MaxRows}
                                IN  /\ all = Notice!List(u, onlyUnread)
                                    /\ onlyUnread => Notice!Cardinality(all) = Notice!UnreadCount(u)
                                    /\ \A n \in 1 .. MaxRows :
                                          /\ Notice!Cardinality(page(n)) <= limit
                                          /\ \A m \in 1 .. n - 1 : \A i \in page(m), j \in page(n) : i > j
                BY DEF Notice!PagesMakeTheList
            <3> DEFINE S == Notice!List(u, onlyUnread)
                       page(n) == Notice!Page(u, onlyUnread, n, limit)
            <3>1. S \in SUBSET (1 .. MaxRows) /\ MaxRows \in Nat
                BY NoticesAssumption, SmallNotices DEF Notice!List, Notice!Unread, Notice!Of, NoticeIds
            <3>2. limit \in Nat /\ limit >= 1
                BY NoticesAssumption DEF Notice!NotificationsAssumption
            <3>3. \A n : page(n) = Part(S, n, limit)
                BY NoticeCardinality DEF Notice!Page, Part, Place
            <3> HIDE DEF S, page
            <3>4. /\ UNION {Part(S, n, limit) : n \in 1 .. MaxRows} = S
                  /\ \A n \in 1 .. MaxRows :
                        /\ Cardinality(Part(S, n, limit)) <= limit
                        /\ \A m \in 1 .. n - 1 :
                               \A i \in Part(S, m, limit), j \in Part(S, n, limit) : i > j
                BY <3>1, <3>2, Parts
            <3>5. {page(n) : n \in 1 .. MaxRows} = {Part(S, n, limit) : n \in 1 .. MaxRows}
                BY <3>3
            <3>6. UNION {page(n) : n \in 1 .. MaxRows} = S
                BY <3>4, <3>5
            <3>7. onlyUnread => Notice!Cardinality(S) = Notice!UnreadCount(u)
                BY DEF Notice!UnreadCount, Notice!List, S
            <3>8. \A n \in 1 .. MaxRows :
                      /\ Notice!Cardinality(page(n)) <= limit
                      /\ \A m \in 1 .. n - 1 : \A i \in page(m), j \in page(n) : i > j
                BY <3>3, <3>4, NoticeCardinality
            <3> QED BY <3>6, <3>7, <3>8 DEF S, page
        <2>4. Notice!CountedWereRead
            BY <1>1 DEF CountsInv, ReadInv, Notice!CountedWereRead, Sources
        <2>5. Notice!CountExact
            BY <1>1 DEF CountsInv, ExactCount, Notice!CountExact
        <2> QED BY <2>1, <2>2, <2>3, <2>4, <2>5 DEF NotificationsCounted
    <1>2. CountsInv /\ DeletingInv /\ [Notice!Next]_Notice!vars => CountsInv' /\ DeletingInv'
        BY NoticesAssumption, NextCountsInv, NextDeleting
    <1>3. Notice!Init => CountsInv /\ DeletingInv
        <2>1. ASSUME Notice!Init PROVE CountsInv
            BY <2>1, NoticesAssumption, InitCountsInv
        <2>2. ASSUME Notice!Init PROVE DeletingInv
            BY <2>2 DEF Notice!Init, DeletingInv
        <2> QED BY <2>1, <2>2
    <1> QED BY <1>1, <1>2, <1>3, PTL DEF Notice!Spec
=============================================================================
