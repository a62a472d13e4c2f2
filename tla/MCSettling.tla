------------------------------ MODULE MCSettling ------------------------------
(***************************************************************************)
(* What the background machinery promises to settle, on small instances:   *)
(* the concurrent lock, a broadcast's job, the jobs of e-mails, the tick   *)
(* of scheduled e-mails and the cache of the settings. A behaviour runs    *)
(* one of these parts (they share no state); the others stay initial.      *)
(***************************************************************************)
EXTENDS ConcurrentLock, TLC

(* Four calls over two keys: one with both keys, as a registration, one    *)
(* for each key (one also passes a blank key) and a second one for the     *)
(* first key.                                                              *)
FewRawKeys == <<{1, 2}, {1}, {0, 2}, {1}>>

VARIABLES
    part,                                                        \* the part that runs
    status, broadcast, job, rows, emails, missed, deleter, crashes, \* Broadcasts
    templates, seeds, mails, jobs, sent, now, faults,            \* Emails
    scheduled, requests, tick, delivered, lost,                  \* ScheduledEmails
    row, cache, patch, read, commits, saves, audits, overlapped  \* SystemSettings

OneRole == [u \in 1 .. 2 |-> "USER"]
Broadcast == INSTANCE Broadcasts WITH
    N <- 2, Role <- OneRole, Targets <- {"ALL"}, Channels <- {"ALL"}, BatchSize <- 1,
    Attempts <- 2, MaxCrashes <- 1, UsersLeave <- TRUE, MayDelete <- TRUE, Cap <- 6
Email == INSTANCE Emails WITH
    Mails <- {"m1"}, To <- [m \in {"m1"} |-> "a"], EventList <- <<"WELCOME_NEW_ACCOUNT">>,
    Editable <- {"WELCOME_NEW_ACCOUNT"}, Texts <- {}, Services <- {"auth"}, Seeders <- {"s1"},
    QueueEnabled <- TRUE, Attempts <- 3, MaxTime <- 0, MaxFaults <- 2
Schedule == INSTANCE ScheduledEmails WITH
    rows <- scheduled, faults <- lost,
    MaxRows <- 3, Batch <- 2, EmptyTemplate <- TRUE, Campaign <- 1, MaxFaults <- 2
OneSetting == {<<[key |-> "maintenanceMode", value |-> [kind |-> "word", word |-> w]]>> :
                    w \in {"on", "off"}}
Settings == INSTANCE SystemSettings WITH
    Keys <- {"maintenanceMode"}, Bodies <- OneSetting, Admins <- {"a1"},
    Readers <- {"r1", "r2"}, MaxCommits <- 4

ASSUME
    /\ Broadcast!BroadcastsAssumption /\ Email!EmailsAssumption
    /\ Schedule!ScheduledEmailsAssumption /\ Settings!SettingsAssumption

broadcastVars == <<status, broadcast, job, rows, emails, missed, deleter, crashes>>
emailVars == <<templates, seeds, mails, jobs, sent, now, faults>>
scheduleVars == <<scheduled, requests, tick, delivered, lost>>
settingsVars == <<row, cache, patch, read, commits, saves, audits, overlapped>>
partVars == <<part, vars, broadcastVars, emailVars, scheduleVars, settingsVars>>

PartInit ==
    /\ part \in {"lock", "broadcast", "email", "schedule", "settings"}
    /\ Init /\ Broadcast!Init /\ Email!Init /\ Schedule!Init /\ Settings!Init

PartNext ==
    \/ part = "lock" /\ Next
         /\ UNCHANGED <<part, broadcastVars, emailVars, scheduleVars, settingsVars>>
    \/ part = "broadcast" /\ Broadcast!Next
         /\ UNCHANGED <<part, vars, emailVars, scheduleVars, settingsVars>>
    \/ part = "email" /\ Email!Next
         /\ UNCHANGED <<part, vars, broadcastVars, scheduleVars, settingsVars>>
    \/ part = "schedule" /\ Schedule!Next
         /\ UNCHANGED <<part, vars, broadcastVars, emailVars, settingsVars>>
    \/ part = "settings" /\ Settings!Next
         /\ UNCHANGED <<part, vars, broadcastVars, emailVars, scheduleVars>>

(* The fairness of each module's FairSpec, for the part that runs.         *)
PartFairness ==
    /\ \A k \in Keys : WF_vars(part = "lock" /\ Elapse(k))
    /\ \A k \in Keys, t \in Tasks : WF_vars(part = "lock" /\ Fire(k, t))
    /\ WF_broadcastVars(part = "broadcast" /\ (Broadcast!Enqueue \/ Broadcast!EnqueueFails))
    /\ WF_broadcastVars(part = "broadcast" /\ Broadcast!Due)
    /\ WF_broadcastVars(part = "broadcast" /\ Broadcast!WorkerStep)
    /\ \A m \in {"m1"} : WF_emailVars(part = "email" /\ Email!WorkerStep(m))
    /\ WF_scheduleVars(part = "schedule" /\ Schedule!TickStep)
    /\ \A r \in {"r1", "r2"} : WF_settingsVars(part = "settings" /\ Settings!Fill(r))
    /\ \A k \in {"maintenanceMode"} : WF_settingsVars(part = "settings" /\ Settings!Expire(k))

PartSpec == PartInit /\ [][PartNext]_partVars /\ PartFairness

-----------------------------------------------------------------------------
(* What was begun ends, although workers stop, replies are lost, broadcasts *)
(* are deleted and users leave meanwhile: a queued broadcast and a queued   *)
(* e-mail are delivered or given up, a scheduled e-mail that is due leaves  *)
(* PENDING, and a stale entry leaves the settings cache.                   *)
WorkEnds ==
    /\ Broadcast!JobsEnd
    /\ Email!MailsEnd
    /\ Schedule!DueSettles
    /\ Settings!StaleEntriesGo
=============================================================================
