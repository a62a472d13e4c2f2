------------------------------- MODULE Delivery -------------------------------
(***************************************************************************)
(* What reaches the users: notifications and their pushes (Notifications), *)
(* broadcasts (Broadcasts), transactional e-mails (Emails) and scheduled   *)
(* ones (ScheduledEmails).  The four share no state; the attempts a job    *)
(* has are one setting of the queue.                                       *)
(***************************************************************************)
EXTENDS Naturals, FiniteSets

CONSTANTS
    Attempts,                                                   \* QUEUE_JOB_ATTEMPTS
    Readers, Calls, Announced, Kinds, MaxRows, Limits,
    WorkersEnabled, MaxStops,                                   \* Notifications
    N, Role, Targets, Channels, BatchSize, MaxCrashes, Cap,     \* Broadcasts
    Mails, To, EventList, Editable, Texts, Services, Seeders,
    QueueEnabled, MaxTime, MaxFaults,                           \* Emails
    MaxScheduled, Batch, EmptyTemplate, Campaign, MaxLost       \* ScheduledEmails

VARIABLES
    notices, pushJobs, pushed, readCount, alive, deleting, everRead, calls, overlapped, stops,
    status, broadcast, job, rows, emails, missed, deleter, crashes,
    templates, seeds, mails, jobs, sent, now, faults,
    scheduled, requests, tick, delivered, lost

noticeVars ==
    <<notices, pushJobs, pushed, readCount, alive, deleting, everRead, calls, overlapped, stops>>
broadcastVars == <<status, broadcast, job, rows, emails, missed, deleter, crashes>>
emailVars == <<templates, seeds, mails, jobs, sent, now, faults>>
scheduleVars == <<scheduled, requests, tick, delivered, lost>>

Notice == INSTANCE Notifications WITH
    rows <- notices, jobs <- pushJobs, Users <- Readers, Broadcasts <- Announced
Broadcast == INSTANCE Broadcasts WITH UsersLeave <- TRUE, MayDelete <- TRUE
Email == INSTANCE Emails
Schedule == INSTANCE ScheduledEmails WITH
    rows <- scheduled, faults <- lost, MaxRows <- MaxScheduled, MaxFaults <- MaxLost

ASSUME NoticesAssumption == Notice!NotificationsAssumption
ASSUME BroadcastAssumption == Broadcast!BroadcastsAssumption
ASSUME MailsAssumption == Email!EmailsAssumption
ASSUME ScheduleAssumption == Schedule!ScheduledEmailsAssumption

-----------------------------------------------------------------------------
(* A push shows what the list shows, to the owner; the pages of a list make *)
(* the list; a broadcast counts readers it had, as long as none of its      *)
(* notifications is deleted, and counts them exactly as long as nothing     *)
(* begins while a request is in flight, stops or fails.                    *)
NotificationsCounted ==
    /\ Notice!TypeOK /\ Notice!PushedAsListed /\ Notice!PagesMakeTheList
    /\ Notice!CountedWereRead /\ Notice!CountExact

(* A run of the job gives a user one notification and one e-mail at most    *)
(* while users leave between its pages; where nobody leaves and nothing     *)
(* stops it reaches everyone in the segment by the channel's ways, once,    *)
(* but for the e-mails that could not be enqueued.                         *)
BroadcastsExact == Broadcast!TypeOK /\ Broadcast!OncePerRun /\ Broadcast!DeliveredExactly

(* An e-mail whose request returned is queued or delivered, it is delivered *)
(* once and once more at most per lost reply, and no variable of a seeded    *)
(* text is left to be read, whichever service sends which template.         *)
MailsOnce == Email!TypeOK /\ Email!NoneLost /\ Email!OncePerFault /\ Email!FilledIn

(* A scheduled e-mail is never early, a row that says SENT was delivered,   *)
(* and again at most once per lost reply or stop.                          *)
ScheduledOnce == Schedule!TypeOK /\ Schedule!NeverEarly /\ Schedule!SentWasDelivered
=============================================================================
