------------------------------ MODULE MCDelivery ------------------------------
(***************************************************************************)
(* Delivery on small instances.  A behaviour runs one part, whose variables *)
(* move while those of the others stay initial, and which may restrict the *)
(* steps to bound the instance:                                            *)
(*   "notices"    requests of two users race the worker, which may stop,   *)
(*   "one notice" one request at a time, rows and broadcasts are deleted,  *)
(*   "broadcast"  users leave, the worker stops, the broadcast is deleted, *)
(*   "segments"   nothing fails: who is reached in every segment,          *)
(*   "mails"      two requests for one address, the queue and SMTP failing, *)
(*   "templates"  every service sends every template,                      *)
(*   "schedule"   the tick, replies that are lost and stops.               *)
(***************************************************************************)
EXTENDS Delivery, Sequences, TLC

MCAnnounced == [b \in {"b1", "b2"} |-> IF b = "b1" THEN "WARNING" ELSE "INFO"]
\* A page of two ends in the middle of a segment.
MCRole == [u \in 1 .. N |-> IF u % 3 = 2 THEN "PARTNER" ELSE "USER"]
MCTo == [m \in Mails |-> "a"]
\* "discount" is of no template.
MCTexts == {{"name"}, {"name", "discount"}}
\* In the order of EMAIL_TEMPLATES.
MCEventList ==
    <<"WELCOME_NEW_ACCOUNT", "WELCOME_SOCIAL_LOGIN", "ACCOUNT_UPDATED_BY_ADMIN",
      "PASSWORD_CHANGED", "ACCOUNT_DELETED", "LOGIN_WARNING", "PROMO_CAMPAIGN",
      "VERIFY_EMAIL", "RESET_PASSWORD">>

VARIABLE part
partVars == <<part, noticeVars, broadcastVars, emailVars, scheduleVars>>

PartInit ==
    /\ part \in {"notices", "one notice", "broadcast", "segments", "mails", "templates", "schedule"}
    /\ Notice!Init /\ Broadcast!Init /\ Email!Init /\ Schedule!Init

\* Two notifications, of one broadcast or none, and none is deleted.
TwoNotices ==
    /\ notices[MaxRows].at = "none" /\ alive = DOMAIN Announced /\ deleting = {}
    /\ \A i \in 1 .. MaxRows : notices[i].at # "none" =>
          notices[i].at = "here" /\ notices[i].bc # "b2" /\ (notices[i].bc = "none" => notices[i].type # "SYSTEM")
\* Three of one user, nothing is pushed, and one of the broadcasts is deleted.
OneByOne ==
    /\ ~overlapped /\ stops = 0 /\ deleting \subseteq {"b2"}
    /\ \A i \in 1 .. MaxRows :
          notices[i].at # "none" =>
              /\ notices[i].owner = "u1" /\ notices[i].type = "SYSTEM"
              /\ pushJobs[i].at \in {"none", IF notices[i].bc = "none" THEN "waiting" ELSE "owed"}
\* Of the users of one role only, two at most leave; every e-mail is enqueued.
OneSegment ==
    /\ broadcast.status # "none" => broadcast.target = "USERS" /\ broadcast.channel = "ALL"
    /\ \A u \in 1 .. N : Role[u] # "USER" => status[u] = "ACTIVE"
    /\ Cardinality({u \in 1 .. N : status[u] # "ACTIVE"}) <= 2 /\ missed = {}
Calm == crashes = 0 /\ deleter = "idle" /\ \A u \in 1 .. N : status[u] = "ACTIVE"
\* The first template only, which is switched off at most; the second run of its seed
\* before the mails.
OneTemplate ==
    /\ \A s \in Seeders : Len(seeds[s].left) >= Len(EventList) - 1
    /\ \A e \in Editable : templates[e].at = "row" /\ templates[e].edited =>
          /\ ~templates[e].active
          /\ templates[e].subject = Email!Subject(e) /\ templates[e].body = Email!Body(e)
    /\ seeds["s2"].at = "look" \/ \A m \in Mails : mails[m].at = "new"
    /\ \A m \in Mails : mails[m].at = "template" =>
          mails[m].event = EventList[1] /\ mails[m].service # "user"
\* One seeder that misses two templates at most, and one mail, which is not sent.
OneMail ==
    /\ seeds["s2"].left = EventList /\ now = 0
    /\ Cardinality({e \in DOMAIN templates : templates[e].at # "row"}) <= Len(seeds["s1"].left) + 2
    /\ \A m \in Mails : jobs[m].at = "none" /\ faults[m] = 0
    /\ \A m, n \in Mails : m = n \/ mails[m].at = "new" \/ mails[n].at = "new"

PartNext ==
    /\ UNCHANGED part
    /\ \/ /\ Notice!Next
          /\ \/ part = "notices" /\ TwoNotices'
             \/ part = "one notice" /\ OneByOne'
          /\ UNCHANGED <<broadcastVars, emailVars, scheduleVars>>
       \/ /\ Broadcast!Next
          /\ \/ part = "broadcast" /\ OneSegment'
             \/ part = "segments" /\ Calm'
          /\ UNCHANGED <<noticeVars, emailVars, scheduleVars>>
       \/ /\ Email!Next
          /\ \/ part = "mails" /\ OneTemplate'
             \/ part = "templates" /\ OneMail'
          /\ UNCHANGED <<noticeVars, broadcastVars, scheduleVars>>
       \/ /\ part = "schedule" /\ Schedule!Next
          /\ UNCHANGED <<noticeVars, broadcastVars, emailVars>>

PartSpec == PartInit /\ [][PartNext]_partVars

Symmetry == Permutations(Calls) \cup Permutations(Mails)
=============================================================================
