---------------------------- MODULE ScheduledEmails ----------------------------
(***************************************************************************)
(* E-mails scheduled by an administrator for a user or for a campaign: rows *)
(* in the database, read in batches by a tick of the scheduled-e-mail      *)
(* worker, which sends each one and then records how it went.              *)
(***************************************************************************)
EXTENDS Naturals, FiniteSets, FiniteSetsExt

CONSTANTS
    MaxRows,        \* bound on the rows ever written; in the order of createdAt
    Batch,          \* rows a tick takes (100 in the code)
    EmptyTemplate,  \* whether EmailTemplate has a row whose id is "" (no code
                    \* creates it, and without it no row is ever scheduled)
    Campaign,       \* number of users of a campaign
    MaxFaults       \* bound on lost replies of SMTP and the database, and stops

Ids == 1 .. MaxRows
ScheduledEmailsAssumption ==
    /\ MaxRows \in Nat /\ Batch \in Nat \ {0} /\ MaxFaults \in Nat
    /\ Campaign \in Nat \ {0} /\ EmptyTemplate \in BOOLEAN

VARIABLES
    rows,       \* rows[i]: the scheduled e-mail
    requests,   \* the administrator's request that runs, or its answer
    tick,       \* the run of the worker
    delivered,  \* delivered[i]: copies that reached the user
    faults

vars == <<rows, requests, tick, delivered, faults>>

NoRow == [status |-> "none", due |-> FALSE]
NoTick == [at |-> "idle"]
Init ==
    /\ rows = [i \in Ids |-> NoRow]
    /\ requests = [at |-> "idle"]
    /\ tick = NoTick
    /\ delivered = [i \in Ids |-> 0]
    /\ faults = 0

-----------------------------------------------------------------------------
(* scheduleEmailForUser: the row names the template "", which has to exist. *)
HasRoom == \E i \in Ids : rows[i] = NoRow
FreshId == CHOOSE i \in Ids : rows[i] = NoRow /\ \A j \in 1 .. i - 1 : rows[j] # NoRow
Stored(due) == rows' = [rows EXCEPT ![FreshId] = [status |-> "PENDING", due |-> due]]

(* POST /users/:userId/schedule-email: stored, or an error is answered.     *)
ScheduleEmail(due) ==
    /\ requests.at = "idle" /\ HasRoom
    /\ IF EmptyTemplate
       THEN Stored(due) /\ UNCHANGED requests
       ELSE UNCHANGED rows /\ requests' = [at |-> "answered", kind |-> "user", status |-> 500]
    /\ UNCHANGED <<tick, delivered, faults>>

(* POST /send-promo-campaign: user after user, what fails is counted.       *)
StartCampaign ==
    /\ requests.at = "idle" /\ HasRoom
    /\ requests' = [at |-> "campaign", left |-> Campaign, success |-> 0, failure |-> 0]
    /\ UNCHANGED <<rows, tick, delivered, faults>>
Counted(stored) ==
    [requests EXCEPT !.left = @ - 1,
                     !.success = IF stored THEN @ + 1 ELSE @,
                     !.failure = IF stored THEN @ ELSE @ + 1]
ScheduleNext ==
    /\ requests.at = "campaign" /\ requests.left > 0
    /\ \/ EmptyTemplate /\ HasRoom /\ Stored(TRUE) /\ requests' = Counted(TRUE)
       \/ UNCHANGED rows /\ requests' = Counted(FALSE)
    /\ UNCHANGED <<tick, delivered, faults>>
AnswerCampaign ==
    /\ requests.at = "campaign" /\ requests.left = 0
    /\ requests' = [at |-> "answered", kind |-> "campaign", status |-> 200,
                    success |-> requests.success, failure |-> requests.failure]
    /\ UNCHANGED <<rows, tick, delivered, faults>>
NextRequest ==
    /\ requests.at = "answered" /\ HasRoom
    /\ requests' = [at |-> "idle"]
    /\ UNCHANGED <<rows, tick, delivered, faults>>
\* scheduledFor passes.
Due(i) ==
    /\ rows[i].status = "PENDING" /\ ~rows[i].due
    /\ rows' = [rows EXCEPT ![i].due = TRUE]
    /\ UNCHANGED <<requests, tick, delivered, faults>>

-----------------------------------------------------------------------------
(* processScheduledEmails: the oldest rows that are pending and due; for    *)
(* each one it sends and then sets SENT, or FAILED when either throws; if   *)
(* that throws as well the run ends.                                        *)

\* The time is not looked at.
PendingEver(i) == rows[i].status = "PENDING"

Pending(i) == rows[i].status = "PENDING" /\ rows[i].due
Oldest(S) == {i \in S : Cardinality({j \in S : j < i}) < Batch}
Taken == Oldest({i \in Ids : Pending(i)})
StartTick ==
    /\ tick = NoTick
    /\ Taken # {}
    /\ tick' = [at |-> "send", batch |-> Taken]
    /\ UNCHANGED <<rows, requests, delivered, faults>>

Current == Min(tick.batch)
At(at) == tick' = [tick EXCEPT !.at = at]
Onward ==
    tick' = IF tick.batch = {Current} THEN NoTick
            ELSE [at |-> "send", batch |-> tick.batch \ {Current}]
Fault == faults < MaxFaults /\ faults' = faults + 1
Deliver == delivered' = [delivered EXCEPT ![Current] = @ + 1]
SendCurrent ==
    /\ tick.at = "send"
    /\ \/ Deliver /\ At("sent") /\ UNCHANGED faults
       \/ UNCHANGED <<delivered, faults>> /\ At("failed")
       \/ Deliver /\ Fault /\ At("failed")
    /\ UNCHANGED <<rows, requests>>
MarkSent ==
    /\ tick.at = "sent"
    /\ \/ /\ rows' = [rows EXCEPT ![Current].status = "SENT"]
          /\ Onward /\ UNCHANGED faults
       \/ Fault /\ rows' \in {rows, [rows EXCEPT ![Current].status = "SENT"]} /\ At("failed")
    /\ UNCHANGED <<requests, delivered>>
MarkFailed ==
    /\ tick.at = "failed"
    /\ \/ /\ rows' = [rows EXCEPT ![Current].status = "FAILED"]
          /\ Onward /\ UNCHANGED faults
       \/ Fault /\ UNCHANGED rows /\ tick' = NoTick
    /\ UNCHANGED <<requests, delivered>>
\* The process stops; the next tick, or the stalled one, starts from the rows.
Stop ==
    /\ tick # NoTick /\ Fault
    /\ tick' = NoTick
    /\ UNCHANGED <<rows, requests, delivered>>

TickStep == StartTick \/ SendCurrent \/ MarkSent \/ MarkFailed
Next ==
    \/ \E due \in BOOLEAN : ScheduleEmail(due)
    \/ StartCampaign \/ ScheduleNext \/ AnswerCampaign \/ NextRequest
    \/ \E i \in Ids : Due(i)
    \/ TickStep \/ Stop

Spec == Init /\ [][Next]_vars
\* The tick is repeated every minute and runs alone (concurrency 1).
FairSpec == Spec /\ WF_vars(TickStep)

-----------------------------------------------------------------------------
TypeOK ==
    /\ \A i \in Ids : rows[i].status \in {"none", "PENDING", "SENT", "FAILED"}
    /\ requests.at \in {"idle", "campaign", "answered"}
    /\ requests.at = "campaign" =>
          requests.success + requests.failure + requests.left = Campaign
    /\ tick.at \in {"idle", "send", "sent", "failed"}
    /\ tick # NoTick => /\ tick.batch \subseteq Ids /\ tick.batch # {}
                        /\ Cardinality(tick.batch) <= Batch
    /\ delivered \in [Ids -> 0 .. 1 + MaxFaults]

(* No e-mail reaches its user before its time.                             *)
NeverEarly == \A i \in Ids : delivered[i] > 0 => rows[i].due

(* A row that says SENT was delivered, and a row is delivered once, plus     *)
(* once for each reply that was lost and each stop of the process.         *)
SentWasDelivered ==
    \A i \in Ids :
        /\ rows[i].status = "SENT" => delivered[i] >= 1
        /\ delivered[i] <= 1 + faults

(* An e-mail that is due leaves PENDING in the end: those that fail do not  *)
(* hold up the ones behind them.                                            *)
DueSettles ==
    \A i \in Ids : (rows[i].status = "PENDING" /\ rows[i].due) ~> (rows[i].status \in {"SENT", "FAILED"})

=============================================================================
