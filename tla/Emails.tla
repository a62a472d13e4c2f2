-------------------------------- MODULE Emails --------------------------------
(***************************************************************************)
(* The transactional e-mails: templates (modules/notification, seeded and  *)
(* edited), the three services that fill them in (auth, user and the       *)
(* administrator's), the queue with its direct fallback, and the worker.   *)
(***************************************************************************)
EXTENDS Naturals, Sequences

CONSTANTS
    Mails,         \* requests to send an e-mail
    To,            \* To[m]: the address
    EventList,     \* the events in play, in the order of EMAIL_TEMPLATES
    Editable,      \* the templates an administrator edits
    Texts,         \* the placeholders of the texts that are written then
    Services,      \* the services that send
    Seeders,       \* runs of the template seed
    QueueEnabled, Attempts,
    MaxTime,       \* bound on the clock (in milliseconds)
    MaxFaults      \* bound on the faults of the queue, the worker and SMTP

EmailTemplates ==
    {"WELCOME_NEW_ACCOUNT", "WELCOME_SOCIAL_LOGIN", "ACCOUNT_UPDATED_BY_ADMIN",
     "PASSWORD_CHANGED", "ACCOUNT_DELETED", "LOGIN_WARNING", "PROMO_CAMPAIGN",
     "VERIFY_EMAIL", "RESET_PASSWORD"}
Events == {EventList[i] : i \in DOMAIN EventList}
EmailsAssumption ==
    /\ EventList \in Seq(EmailTemplates) /\ Editable \subseteq Events
    /\ Services \subseteq {"auth", "user", "admin"}
    /\ Attempts \in Nat \ {0} /\ MaxTime \in Nat /\ MaxFaults \in Nat
    /\ QueueEnabled \in BOOLEAN

VARIABLES
    templates,  \* templates[e]: the row, with the placeholders of its texts, and
                \* whether an administrator wrote it (history)
    seeds,      \* seeds[s]: the events still to do, and where it stands
    mails,      \* mails[m]: the request
    jobs,       \* jobs[m]: the queue's job for it
    sent,       \* sent[m]: copies that were delivered
    now,
    faults      \* faults[m]: how often a reply, or the worker, was lost

vars == <<templates, seeds, mails, jobs, sent, now, faults>>

-----------------------------------------------------------------------------
(* EMAIL_TEMPLATES: the placeholders of the subject and of the body, which   *)
(* are the variables that the template declares.                           *)
Subject(event) == IF event = "WELCOME_SOCIAL_LOGIN" THEN {"provider"} ELSE {}
Body(event) ==
    CASE event = "WELCOME_NEW_ACCOUNT" -> {"name", "email"}
      [] event = "WELCOME_SOCIAL_LOGIN" -> {"name", "email", "provider"}
      [] event = "ACCOUNT_UPDATED_BY_ADMIN" -> {"name", "changes"}
      [] event \in {"PASSWORD_CHANGED", "ACCOUNT_DELETED"} -> {"name"}
      [] event = "LOGIN_WARNING" -> {"device", "ip", "time"}
      [] event = "PROMO_CAMPAIGN" -> {"name", "promotion_detail"}
      [] event = "VERIFY_EMAIL" -> {"name", "verify_url", "token"}
      [] event = "RESET_PASSWORD" -> {"name", "reset_url", "token"}
(* What a service sends, and the variables it gives to subject and body.    *)
Sends(service) ==
    CASE service = "auth" -> {"VERIFY_EMAIL", "WELCOME_NEW_ACCOUNT", "RESET_PASSWORD",
                              "PASSWORD_CHANGED"}
      [] service = "user" -> {"PASSWORD_CHANGED", "ACCOUNT_DELETED", "RESET_PASSWORD",
                              "WELCOME_NEW_ACCOUNT"}
      [] service = "admin" -> EmailTemplates \ {"VERIFY_EMAIL", "RESET_PASSWORD"}
BodyVars(service, event) ==
    {"email", "name"} \cup
    CASE event = "VERIFY_EMAIL" -> {"verify_url", "token"}
      [] event = "RESET_PASSWORD" -> {"reset_url", "token"}
      [] event = "WELCOME_SOCIAL_LOGIN" -> {"provider"}
      [] event = "ACCOUNT_UPDATED_BY_ADMIN" -> {"changes"}
      [] event = "LOGIN_WARNING" -> {"device", "ip", "time"}
      [] event = "PROMO_CAMPAIGN" -> {"promotion_detail"}
      [] OTHER -> {}
SubjectVars(service, event) ==
    IF service = "admin" THEN BodyVars(service, event) ELSE {"email"}
\* render, replaceVariables: what is left to be read as {{...}}.
Rendered(service, event, row) ==
    [subject |-> row.subject \ SubjectVars(service, event), body |-> row.body \ BodyVars(service, event)]

NoTemplate == [at |-> "none"]
NewRow(e) ==
    [at |-> "row", active |-> TRUE, subject |-> Subject(e), body |-> Body(e), edited |-> FALSE]
Init ==
    /\ templates = [e \in Events |-> NoTemplate]
    /\ seeds = [s \in Seeders |-> [at |-> "look", left |-> EventList, event |-> "none"]]
    /\ mails = [m \in Mails |-> [at |-> "new"]]
    /\ jobs = [m \in Mails |-> [at |-> "none"]]
    /\ sent = [m \in Mails |-> 0]
    /\ now = 0
    /\ faults = [m \in Mails |-> 0]

-----------------------------------------------------------------------------
(* seedEmailTemplates: each event is looked for and created if missing; a   *)
(* creation that fails (the other run was faster, the database) is logged.  *)
SeedLook(s) ==
    /\ seeds[s].at = "look" /\ seeds[s].left # <<>>
    /\ LET e == Head(seeds[s].left) IN
       seeds' = [seeds EXCEPT ![s] =
                    [at |-> IF templates[e].at = "row" THEN "look" ELSE "create",
                     left |-> Tail(@.left), event |-> e]]
    /\ UNCHANGED <<templates, mails, jobs, sent, now, faults>>

Created(e) == IF templates[e].at = "row" THEN templates[e] ELSE NewRow(e)
SeedCreate(s) ==
    /\ seeds[s].at = "create"
    /\ \/ templates' = [templates EXCEPT ![seeds[s].event] = Created(seeds[s].event)]
       \/ UNCHANGED templates
    /\ seeds' = [seeds EXCEPT ![s].at = "look"]
    /\ UNCHANGED <<mails, jobs, sent, now, faults>>

(* PATCH /templates/:templateId: what is given of subject, body and whether *)
(* it is active, as it comes: nobody looks at the placeholders.             *)
Patch(e) ==
    /\ templates[e].at = "row"
    /\ \E active \in BOOLEAN, subject \in Texts \cup {templates[e].subject},
          body \in Texts \cup {templates[e].body} :
          templates' = [templates EXCEPT ![e] = [at |-> "row", active |-> active, subject |-> subject,
                                                 body |-> body, edited |-> TRUE]]
    /\ UNCHANGED <<seeds, mails, jobs, sent, now, faults>>

-----------------------------------------------------------------------------
(* A request: the template, which the administrator's service does without  *)
(* and the others throw for.                                                *)
Ask(m, service, event) ==
    /\ mails[m].at = "new" /\ event \in Events \cap Sends(service)
    /\ mails' = [mails EXCEPT ![m] = [at |-> "template", service |-> service, event |-> event]]
    /\ UNCHANGED <<templates, seeds, jobs, sent, now, faults>>
Active(e) == templates[e].at = "row" /\ templates[e].active
GetTemplate(m) ==
    /\ mails[m].at = "template"
    /\ mails' = [mails EXCEPT ![m] =
          IF Active(@.event)
          THEN [at |-> IF QueueEnabled THEN "enqueue"
                       ELSE IF @.service = "admin" THEN "thrown" ELSE "direct",
                service |-> @.service, event |-> @.event,
                unfilled |-> Rendered(@.service, @.event, templates[@.event]),
                edited |-> templates[@.event].edited]
          ELSE [at |-> IF @.service = "admin" THEN "skipped" ELSE "thrown"]]
    /\ UNCHANGED <<templates, seeds, jobs, sent, now, faults>>

Fault(m) == faults[m] < MaxFaults /\ faults' = [faults EXCEPT ![m] = @ + 1]
\* The job id is mail:<to>:<now> (the administrator's jobs get one of their own);
\* a job whose id the queue knows is not added.
Known(m) ==
    mails[m].service # "admin" /\
    \E n \in Mails : jobs[n].at # "none" /\ jobs[n].key = <<To[m], now>>
Added(m) ==
    IF Known(m) THEN jobs
    ELSE [jobs EXCEPT ![m] = [at |-> "waiting", left |-> Attempts, key |->
              IF mails[m].service = "admin" THEN <<m>> ELSE <<To[m], now>>]]

\* A failing queue is the end of it.
GiveUp(m) == "returned"

OnFailure(m) == IF mails[m].service = "admin" THEN "thrown" ELSE "direct"
Returned(m, at) ==
    mails' = [mails EXCEPT ![m] = [at |-> at, service |-> @.service, event |-> @.event,
                                   unfilled |-> @.unfilled, edited |-> @.edited, time |-> now]]
Enqueue(m) ==
    /\ mails[m].at = "enqueue"
    /\ \/ jobs' = Added(m) /\ UNCHANGED faults /\ Returned(m, "returned")
       \/ Fault(m) /\ jobs' \in {jobs, Added(m)} /\ Returned(m, OnFailure(m))
    /\ UNCHANGED <<templates, seeds, sent, now>>
Direct(m) ==
    /\ mails[m].at = "direct"
    /\ \/ /\ sent' = [sent EXCEPT ![m] = @ + 1]
          /\ Returned(m, "returned") /\ UNCHANGED faults
       \/ Returned(m, "thrown") /\ UNCHANGED <<sent, faults>>
       \/ Fault(m) /\ sent' = [sent EXCEPT ![m] = @ + 1] /\ Returned(m, "thrown")
    /\ UNCHANGED <<templates, seeds, jobs, now>>

-----------------------------------------------------------------------------
(* processEmailJob: sendMail; what throws is retried while attempts remain. *)
Take(m) ==
    /\ jobs[m].at = "waiting"
    /\ jobs' = [jobs EXCEPT ![m].at = "active", ![m].left = @ - 1]
    /\ UNCHANGED <<templates, seeds, mails, sent, now, faults>>

Throw(m) == [jobs EXCEPT ![m].at = IF jobs[m].left = 0 THEN "failed" ELSE "waiting"]
Send(m) ==
    /\ jobs[m].at = "active"
    /\ \/ /\ sent' = [sent EXCEPT ![m] = @ + 1]
          /\ jobs' = [jobs EXCEPT ![m].at = "completed"] /\ UNCHANGED faults
       \/ jobs' = Throw(m) /\ UNCHANGED <<sent, faults>>
       \/ Fault(m) /\ sent' = [sent EXCEPT ![m] = @ + 1] /\ jobs' = Throw(m)
    /\ UNCHANGED <<templates, seeds, mails, now>>
\* The worker stops, before or after the mail has left: the job is handed out again.
Stall(m) ==
    /\ jobs[m].at = "active" /\ Fault(m)
    /\ sent' \in {sent, [sent EXCEPT ![m] = @ + 1]}
    /\ jobs' = [jobs EXCEPT ![m].at = "waiting", ![m].left = @ + 1]
    /\ UNCHANGED <<templates, seeds, mails, now>>

Tick ==
    /\ now < MaxTime
    /\ now' = now + 1
    /\ UNCHANGED <<templates, seeds, mails, jobs, sent, faults>>

SeedStep == \E s \in Seeders : SeedCreate(s) \/ SeedLook(s)
WorkerStep(m) == Take(m) \/ Send(m)
Next ==
    \/ SeedStep \/ Tick
    \/ \E e \in Editable : Patch(e)
    \/ \E m \in Mails :
          \/ \E service \in Services, event \in Events : Ask(m, service, event)
          \/ GetTemplate(m) \/ Enqueue(m) \/ Direct(m) \/ WorkerStep(m) \/ Stall(m)

Spec == Init /\ [][Next]_vars
\* The worker works on five jobs at a time; each job has its turn.
FairSpec == Spec /\ \A m \in Mails : WF_vars(WorkerStep(m))

-----------------------------------------------------------------------------
TypeOK ==
    /\ \A e \in Events : templates[e].at \in {"none", "row"}
    /\ \A s \in Seeders : seeds[s].at \in {"look", "create"} /\ seeds[s].left \in Seq(Events)
    /\ \A m \in Mails :
          /\ mails[m].at \in {"new", "template", "enqueue", "direct", "returned", "thrown", "skipped"}
          /\ jobs[m].at \in {"none", "waiting", "active", "completed", "failed"}
          /\ jobs[m].at # "none" => jobs[m].left \in 0 .. Attempts
          /\ sent[m] \in Nat /\ faults[m] \in 0 .. MaxFaults
    /\ now \in 0 .. MaxTime

(* Whoever sends whatever template: as it was seeded, no {{variable}} is     *)
(* left for the reader to see; once it was edited, a variable it declares    *)
(* is still filled in, in the body and, by the administrator's service, in   *)
(* the subject.                                                            *)
FilledIn ==
    \A m \in Mails : mails[m].at \in {"enqueue", "direct"} =>
        LET mail == mails[m] IN
        /\ ~mail.edited => mail.unfilled.subject = {} /\ mail.unfilled.body = {}
        /\ mail.unfilled.body \cap Body(mail.event) = {}
        /\ mail.service = "admin" => mail.unfilled.subject \cap Body(mail.event) = {}

(* A request that returned without an error has its mail in the queue or     *)
(* delivered, unless another one went to the same address in the same      *)
(* millisecond, for they share a job id.                                   *)
NoneLost ==
    \A m \in Mails : mails[m].at = "returned" =>
        \/ jobs[m].at # "none" \/ sent[m] > 0
        \/ \E n \in Mails \ {m} : jobs[n].at # "none" /\ jobs[n].key = <<To[m], mails[m].time>>

(* A mail is delivered once, and once more at most for each reply of the     *)
(* queue or of SMTP, or worker, that was lost.                              *)
OncePerFault == \A m \in Mails : sent[m] <= 1 + faults[m]

(* Every queued mail is delivered or given up after its attempts.           *)
MailsEnd ==
    \A m \in Mails : (jobs[m].at = "waiting") ~> (jobs[m].at \in {"completed", "failed"})

=============================================================================
