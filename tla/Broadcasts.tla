------------------------------ MODULE Broadcasts ------------------------------
(***************************************************************************)
(* A broadcast notification: the administrator's request creates the row   *)
(* and a job (modules/admin-notifications), the worker pages through the   *)
(* segment and writes one notification per user (queue/worker/broadcast),  *)
(* the queue retries what throws and what a stopped worker leaves.  Users  *)
(* leave the segment and broadcasts are deleted meanwhile.                 *)
(***************************************************************************)
EXTENDS Naturals, FiniteSets, FiniteSetsExt

CONSTANTS
    N,             \* users are 1 .. N, in the order of their ids
    Role,          \* Role[u]
    Targets, Channels,
    BatchSize,     \* BATCH_SIZE
    Attempts,      \* QUEUE_JOB_ATTEMPTS
    MaxCrashes,    \* bound on the stops of the worker and on statements that fail
    UsersLeave,    \* whether users are deactivated and deleted
    MayDelete,     \* whether the broadcast may be deleted
    Cap            \* rows and e-mails of a user are counted up to Cap

Users == 1 .. N
BroadcastsAssumption ==
    /\ N \in Nat /\ BatchSize \in Nat \ {0} /\ Attempts \in Nat \ {0}
    /\ MaxCrashes \in Nat /\ Cap \in Nat /\ Attempts + MaxCrashes < Cap
    /\ Role \in [Users -> {"USER", "PARTNER", "ADMIN"}]

VARIABLES
    status,     \* status[u]: ACTIVE, INACTIVE, or gone
    broadcast,  \* the row
    job,        \* the job in the queue and, while it runs, its variables
    rows,       \* rows[u]: notifications of u from this broadcast
    emails,     \* emails[u]: e-mail jobs for u from this broadcast
    missed,     \* users whose e-mail could not be enqueued (history)
    deleter,    \* where DELETE stands
    crashes     \* how often the worker stopped or one of its statements failed

vars == <<status, broadcast, job, rows, emails, missed, deleter, crashes>>

NoBroadcast == [status |-> "none"]
NoJob == [at |-> "none"]

Init ==
    /\ status = [u \in Users |-> "ACTIVE"]
    /\ broadcast = NoBroadcast
    /\ job = NoJob
    /\ rows = [u \in Users |-> 0]
    /\ emails = [u \in Users |-> 0]
    /\ missed = {}
    /\ deleter = "idle"
    /\ crashes = 0

-----------------------------------------------------------------------------
(* buildUserWhere: the active users of the target's role; the segments by  *)
(* plan are all users of role USER.                                        *)
Segment(target) ==
    {u \in Users : status[u] = "ACTIVE" /\
        CASE target = "ALL" -> TRUE
          [] target = "OWNERS" -> Role[u] = "PARTNER"
          [] OTHER -> Role[u] = "USER"}
ShouldPush(channel) == channel \in {"ALL", "WEBSITE", "DESKTOP", "MOBILE"}
ShouldEmail(channel) == channel \in {"ALL", "EMAIL"}

(* POST: the row, SENT at once or SCHEDULED, then the job; a failure to    *)
(* enqueue is only logged.                                                 *)
Create(target, channel, later) ==
    /\ broadcast = NoBroadcast
    /\ broadcast' = [status |-> IF later THEN "SCHEDULED" ELSE "SENT", target |-> target,
                     channel |-> channel,
                     totalSent |-> IF later THEN 0 ELSE Cardinality(Segment(target))]
    /\ job' = [at |-> "enqueue", later |-> later, target |-> target, channel |-> channel]
    /\ UNCHANGED <<status, rows, emails, missed, deleter, crashes>>
Queued(at, left, j) ==
    [at |-> at, left |-> left, target |-> j.target, channel |-> j.channel]
Enqueue ==
    /\ job.at = "enqueue"
    /\ job' = Queued(IF job.later THEN "delayed" ELSE "waiting", Attempts, job)
    /\ UNCHANGED <<status, broadcast, rows, emails, missed, deleter, crashes>>
EnqueueFails ==
    /\ job.at = "enqueue"
    /\ job' = Queued("lost", 0, job)
    /\ UNCHANGED <<status, broadcast, rows, emails, missed, deleter, crashes>>
Due ==
    /\ job.at = "delayed"
    /\ job' = [job EXCEPT !.at = "waiting"]
    /\ UNCHANGED <<status, broadcast, rows, emails, missed, deleter, crashes>>

-----------------------------------------------------------------------------
(* processBroadcastJob.                                                    *)
Running == {"fetch", "write", "mail", "finish"}
Take ==
    /\ job.at = "waiting"
    /\ job' = [at |-> "fetch", left |-> job.left - 1, target |-> job.target,
               channel |-> job.channel, cursor |-> 0, total |-> 0, page |-> {}]
    /\ UNCHANGED <<status, broadcast, rows, emails, missed, deleter, crashes>>

\* findMany with cursor and skip: the users of the segment from the cursor's
\* row on, without the first of them; none when the row is gone.
First(S, n) == {u \in S : Cardinality({v \in S : v < u}) < n}
From(cursor) ==
    IF cursor # 0 /\ status[cursor] = "gone" THEN {}
    ELSE {u \in Segment(job.target) : u >= cursor}
\* The cursor's row is not skipped.
PageWithCursor == First(From(job.cursor), BatchSize)
Page ==
    IF job.cursor = 0 THEN First(From(0), BatchSize)
    ELSE First(From(job.cursor) \ First(From(job.cursor), 1), BatchSize)
Fetch ==
    /\ job.at = "fetch"
    /\ job' = [job EXCEPT !.page = Page, !.at = IF Page = {} THEN "finish" ELSE "write"]
    /\ UNCHANGED <<status, broadcast, rows, emails, missed, deleter, crashes>>


\* A job that is retried for ever.
RetryForEver(j) == Queued("waiting", Attempts, j)

\* What throws goes back to the queue while there are attempts left.
Thrown(j) == Queued(IF j.left = 0 THEN "failed" ELSE "waiting", j.left, j)
CountUp(count, S) ==
    [u \in Users |-> IF u \in S /\ count[u] < Cap THEN count[u] + 1 ELSE count[u]]

\* createMany: one statement; a user that is gone makes it fail.
WriteRows ==
    /\ job.at = "write"
    /\ IF ShouldPush(job.channel) /\ \E u \in job.page : status[u] = "gone"
       THEN job' = Thrown(job) /\ UNCHANGED rows
       ELSE /\ job' = [job EXCEPT !.at = "mail"]
            /\ rows' = IF ShouldPush(job.channel) THEN CountUp(rows, job.page) ELSE rows
    /\ UNCHANGED <<status, broadcast, emails, missed, deleter, crashes>>

\* The e-mail jobs (one that cannot be enqueued is only logged); the cursor moves on.
SendEmails ==
    /\ job.at = "mail"
    /\ IF ShouldEmail(job.channel)
       THEN \E failed \in SUBSET job.page :
               /\ emails' = CountUp(emails, job.page \ failed)
               /\ missed' = missed \cup failed
       ELSE UNCHANGED <<emails, missed>>
    /\ job' = [job EXCEPT !.at = "fetch", !.cursor = Max(job.page),
                          !.total = @ + Cardinality(job.page), !.page = {}]
    /\ UNCHANGED <<status, broadcast, rows, deleter, crashes>>
Finish ==
    /\ job.at = "finish"
    /\ IF broadcast = NoBroadcast
       THEN job' = Thrown(job) /\ UNCHANGED broadcast
       ELSE /\ job' = Queued("completed", job.left, job)
            /\ broadcast' = [broadcast EXCEPT !.status = "SENT", !.totalSent = job.total]
    /\ UNCHANGED <<status, rows, emails, missed, deleter, crashes>>

\* The worker stops; the queue hands the stalled job out again.
Crash ==
    /\ crashes < MaxCrashes
    /\ job.at \in Running
    /\ crashes' = crashes + 1
    /\ job' = Queued("waiting", job.left + 1, job)
    /\ UNCHANGED <<status, broadcast, rows, emails, missed, deleter>>

\* A statement fails, for whatever reason.
StatementFails ==
    /\ crashes < MaxCrashes
    /\ job.at \in {"fetch", "write", "finish"}
    /\ crashes' = crashes + 1
    /\ job' = Thrown(job)
    /\ UNCHANGED <<status, broadcast, rows, emails, missed, deleter>>

-----------------------------------------------------------------------------
(* DELETE: looked up, then the users' notifications, then the row.         *)
Delete ==
    /\ MayDelete
    /\ deleter = "idle" /\ broadcast # NoBroadcast /\ job.at # "enqueue"
    /\ deleter' = "derived"
    /\ UNCHANGED <<status, broadcast, job, rows, emails, missed, crashes>>
DeleteUserNotifications ==
    /\ deleter = "derived"
    /\ deleter' = "row"
    /\ rows' = [u \in Users |-> 0]
    /\ UNCHANGED <<status, broadcast, job, emails, missed, crashes>>
DeleteRow ==
    /\ deleter = "row"
    /\ deleter' = "deleted"
    /\ broadcast' = NoBroadcast
    /\ UNCHANGED <<status, job, rows, emails, missed, crashes>>

\* A user is deactivated, or deleted with the notifications (onDelete: Cascade).
Leave(u) ==
    /\ UsersLeave
    /\ \/ /\ status[u] = "ACTIVE"
          /\ status' = [status EXCEPT ![u] = "INACTIVE"]
          /\ UNCHANGED rows
       \/ /\ status[u] # "gone"
          /\ status' = [status EXCEPT ![u] = "gone"]
          /\ rows' = [rows EXCEPT ![u] = 0]
    /\ UNCHANGED <<broadcast, job, emails, missed, deleter, crashes>>

CreateStep ==
    /\ deleter = "idle"
    /\ \E target \in Targets, channel \in Channels, later \in BOOLEAN :
        Create(target, channel, later)
WorkerStep == Take \/ Fetch \/ WriteRows \/ SendEmails \/ Finish
DeleteStep == Delete \/ DeleteUserNotifications \/ DeleteRow
Next ==
    \/ CreateStep \/ Enqueue \/ EnqueueFails \/ Due
    \/ WorkerStep \/ Crash \/ StatementFails
    \/ DeleteStep
    \/ \E u \in Users : Leave(u)

Spec == Init /\ [][Next]_vars
\* The delay runs out and the worker, which takes one job at a time, works.
FairSpec == Spec /\ WF_vars(Enqueue \/ EnqueueFails) /\ WF_vars(Due) /\ WF_vars(WorkerStep)

-----------------------------------------------------------------------------
Stages == {"none", "enqueue", "lost", "delayed", "waiting", "completed", "failed"} \cup Running
TypeOK ==
    /\ status \in [Users -> {"ACTIVE", "INACTIVE", "gone"}]
    /\ broadcast.status \in {"none", "SCHEDULED", "SENT"}
    /\ job.at \in Stages
    /\ job.at \in Running \cup {"waiting", "failed"} => job.left \in 0 .. Attempts + MaxCrashes
    /\ job.at \in Running => job.page \subseteq Users /\ job.cursor \in 0 .. N
    /\ rows \in [Users -> 0 .. Cap] /\ emails \in [Users -> 0 .. Cap]
    /\ missed \subseteq Users
    /\ crashes \in 0 .. MaxCrashes

(* However users leave between two pages and whatever is retried, one run of *)
(* the job gives a user one notification at most: the pages do not overlap. *)
OncePerRun ==
    job.at \notin {"none", "enqueue", "lost", "delayed"} =>
        \A u \in Users :
            /\ rows[u] <= Attempts - job.left + crashes
            /\ emails[u] <= Attempts - job.left + crashes

(* Unless the worker stopped, one of its statements failed, a user left or   *)
(* the broadcast is being deleted, a completed job has reached every user   *)
(* of the segment, exactly once and by the channel's ways only, but for the *)
(* e-mails that could not be enqueued.                                     *)
Undisturbed ==
    crashes = 0 /\ deleter = "idle" /\ \A u \in Users : status[u] = "ACTIVE"
DeliveredExactly ==
    (job.at = "completed" /\ Undisturbed) =>
        \A u \in Users :
            /\ rows[u] = IF u \in Segment(job.target) /\ ShouldPush(job.channel) THEN 1 ELSE 0
            /\ emails[u] = IF u \in Segment(job.target) \ missed /\ ShouldEmail(job.channel)
                           THEN 1 ELSE 0

(* A job that is in the queue comes to its end, completed or failed, even if *)
(* its broadcast is deleted under it and every update at the end throws.    *)
JobsEnd == (job.at \in {"waiting", "delayed"} \cup Running) ~> (job.at \in {"completed", "failed"})
=============================================================================
