----------------------------- MODULE Notifications -----------------------------
(***************************************************************************)
(* The notifications of the users (modules/notification, its push side):   *)
(* rows are written by send() and by the broadcast worker, a job pushes    *)
(* each one to its owner's channel, and the owner lists, reads and deletes *)
(* them while the broadcast they come from counts its readers.             *)
(***************************************************************************)
EXTENDS Naturals, FiniteSets

CONSTANTS
    Users, Calls,
    Broadcasts,    \* broadcast |-> its type
    Kinds,         \* types of what is sent
    MaxRows,       \* bound on the rows ever written
    Limits,        \* page sizes asked for
    WorkersEnabled, \* QUEUE_WORKERS_ENABLED
    MaxStops       \* bound on the stops of the process or of a worker, and on
                   \* the increments that fail

BTypes == {"INFO", "SUCCESS", "WARNING", "ERROR"}
Ids == 1 .. MaxRows          \* in the order of createdAt
NotificationsAssumption ==
    /\ MaxRows \in Nat /\ MaxStops \in Nat /\ Limits \subseteq Nat \ {0}
    /\ \A b \in DOMAIN Broadcasts : Broadcasts[b] \in BTypes /\ b # "none"
    /\ WorkersEnabled \in BOOLEAN

VARIABLES
    rows,       \* rows[i]: "none", "gone", or there with its owner
    jobs,       \* jobs[i]: the push job
    pushed,     \* what reached a channel: <<user, id, type>>
    readCount,  \* readCount[b] of the broadcast's row
    alive,      \* broadcasts whose row is there
    deleting,   \* broadcasts whose notifications a DELETE has removed
    everRead,   \* everRead[b]: how many of its notifications became read
    calls,      \* the requests in flight
    overlapped, \* whether anything began while a request was in flight
    stops

vars == <<rows, jobs, pushed, readCount, alive, deleting, everRead, calls, overlapped, stops>>
None == "none"      \* no broadcast
Idle == [at |-> "idle"]
NoRow == [at |-> "none"]
NoJob == [at |-> "none"]

Init ==
    /\ rows = [i \in Ids |-> NoRow]
    /\ jobs = [i \in Ids |-> NoJob]
    /\ pushed = {}
    /\ readCount = [b \in DOMAIN Broadcasts |-> 0]
    /\ alive = DOMAIN Broadcasts
    /\ deleting = {}
    /\ everRead = [b \in DOMAIN Broadcasts |-> 0]
    /\ calls = [c \in Calls |-> Idle]
    /\ overlapped = FALSE
    /\ stops = 0

Quiet == \A c \in Calls : calls[c] = Idle
Begins == overlapped' = (overlapped \/ ~Quiet)
Here(i) == rows[i].at = "here"
Of(u) == {i \in Ids : Here(i) /\ rows[i].owner = u}
Unread(u) == {i \in Of(u) : ~rows[i].read}
FreshId == CHOOSE i \in Ids : rows[i] = NoRow /\ \A j \in 1 .. i - 1 : rows[j] # NoRow
HasRoom == \E i \in Ids : rows[i] = NoRow

-----------------------------------------------------------------------------
(* The type a row is stored with and what a reader is shown.               *)

\* A broadcast notification is shown as what it is stored as.
RawType(type, bc) == type
ResolveDisplayType(type, bc) ==
    IF type = "SYSTEM" /\ bc # None THEN Broadcasts[bc] ELSE type
Row(u, type, bc) ==
    [at |-> "here", owner |-> u, type |-> type, bc |-> bc, read |-> FALSE]

(* send(): the row, then the job; a sender without a user sends nothing,   *)
(* one whose row cannot be written only logs it.                           *)
Send(c, u, type) ==
    /\ calls[c] = Idle /\ HasRoom
    /\ \/ /\ rows' = [rows EXCEPT ![FreshId] = Row(u, type, None)]
          /\ calls' = [calls EXCEPT ![c] = [at |-> "enqueue", id |-> FreshId,
                                            user |-> u, type |-> type]]
       \/ UNCHANGED <<rows, calls>>
    /\ Begins
    /\ UNCHANGED <<jobs, pushed, readCount, alive, deleting, everRead, stops>>
\* Whether or not the queue is enabled and takes the job, the request goes on.
Enqueue(c) ==
    /\ calls[c].at = "enqueue"
    /\ \E at \in {"waiting", "lost"} :
          jobs' = [jobs EXCEPT ![calls[c].id] =
                      [at |-> at, user |-> calls[c].user, type |-> calls[c].type]]
    /\ calls' = [calls EXCEPT ![c] = Idle]
    /\ UNCHANGED <<rows, pushed, readCount, alive, deleting, everRead, stops, overlapped>>

(* The broadcast worker writes the rows of a page, here one by one, and then *)
(* queues their pushes, each of which may fail.  It works from the data of  *)
(* its job: it does not see that the broadcast is deleted, and a job that   *)
(* is retried writes again.                                                *)
Deliver(u, b) ==
    /\ HasRoom
    /\ rows' = [rows EXCEPT ![FreshId] = Row(u, "SYSTEM", b)]
    /\ jobs' = [jobs EXCEPT ![FreshId] =
                   [at |-> "owed", user |-> u, type |-> Broadcasts[b]]]
    /\ Begins
    /\ UNCHANGED <<pushed, readCount, alive, deleting, everRead, calls, stops>>

\* A worker that stops before this leaves the push out as well.
EnqueuePush(i) ==
    /\ jobs[i].at = "owed"
    /\ \E at \in {"waiting", "lost"} : jobs' = [jobs EXCEPT ![i].at = at]
    /\ UNCHANGED <<rows, pushed, readCount, alive, deleting, everRead, calls, stops, overlapped>>

(* processNotificationJob: PusherService.trigger never throws.             *)
Push(i) ==
    /\ WorkersEnabled /\ jobs[i].at = "waiting"
    /\ jobs' = [jobs EXCEPT ![i].at = "active"]
    /\ \/ pushed' = pushed \cup {<<jobs[i].user, i, jobs[i].type>>}
       \/ UNCHANGED pushed
    /\ UNCHANGED <<rows, readCount, alive, deleting, everRead, calls, stops, overlapped>>
Complete(i) ==
    /\ jobs[i].at = "active"
    /\ jobs' = [jobs EXCEPT ![i].at = "completed"]
    /\ UNCHANGED <<rows, pushed, readCount, alive, deleting, everRead, calls, stops, overlapped>>
\* The worker stops in the middle of a job: it is handed out again.
Stall(i) ==
    /\ stops < MaxStops /\ jobs[i].at = "active"
    /\ stops' = stops + 1
    /\ jobs' = [jobs EXCEPT ![i].at = "waiting"]
    /\ UNCHANGED <<rows, pushed, readCount, alive, deleting, everRead, calls, overlapped>>

-----------------------------------------------------------------------------
(* list(): the rows newest first, cut into pages.                          *)
List(u, onlyUnread) == IF onlyUnread THEN Unread(u) ELSE Of(u)
Newer(S, i) == {j \in S : j > i}
Skip(page, limit) == (page - 1) * limit
Page(u, onlyUnread, page, limit) ==
    {i \in List(u, onlyUnread) :
        Cardinality(Newer(List(u, onlyUnread), i)) \in
            Skip(page, limit) .. Skip(page, limit) + limit - 1}
UnreadCount(u) == Cardinality(Unread(u))

(* markRead(): found for this user and unread, updated, counted.           *)
Found(u, i) == Here(i) /\ rows[i].owner = u /\ ~rows[i].read
MarkRead(c, u, i) ==
    /\ calls[c] = Idle
    /\ Found(u, i)
    /\ calls' = [calls EXCEPT ![c] = [at |-> "update", user |-> u, id |-> i, bc |-> rows[i].bc]]
    /\ Begins
    /\ UNCHANGED <<rows, jobs, pushed, readCount, alive, deleting, everRead, stops>>

MadeRead(S, b) == Cardinality({i \in S : rows[i].bc = b})
SetRead(S) ==
    /\ rows' = [i \in Ids |-> IF i \in S THEN [rows[i] EXCEPT !.read = TRUE] ELSE rows[i]]
    /\ everRead' = [b \in DOMAIN Broadcasts |-> everRead[b] + MadeRead(S, b)]
MarkReadUpdate(c) ==
    /\ calls[c].at = "update"
    /\ SetRead({calls[c].id} \cap Unread(calls[c].user))
    /\ calls' = [calls EXCEPT ![c] =
                    IF @.bc = None THEN Idle
                    ELSE [at |-> "count", incs |-> [b \in {@.bc} |-> 1]]]
    /\ UNCHANGED <<jobs, pushed, readCount, alive, deleting, stops, overlapped>>

(* markAllRead(): collected, updated, counted per broadcast.               *)
MarkAllRead(c, u) ==
    /\ calls[c] = Idle
    /\ Unread(u) # {}
    /\ calls' = [calls EXCEPT ![c] =
          [at |-> "updateAll", user |-> u,
           incs |-> [b \in {rows[i].bc : i \in Unread(u)} \ {None} |-> MadeRead(Unread(u), b)]]]
    /\ Begins
    /\ UNCHANGED <<rows, jobs, pushed, readCount, alive, deleting, everRead, stops>>
MarkAllUpdate(c) ==
    /\ calls[c].at = "updateAll"
    /\ SetRead(Unread(calls[c].user))
    /\ calls' = [calls EXCEPT ![c] = [at |-> "count", incs |-> @.incs]]
    /\ UNCHANGED <<jobs, pushed, readCount, alive, deleting, stops, overlapped>>

\* The increments, in any order; whatever error one ends with is swallowed, that
\* of a deleted broadcast or another.
Count(c, b) ==
    /\ calls[c].at = "count" /\ b \in DOMAIN calls[c].incs
    /\ \/ /\ b \in alive
          /\ readCount' = [readCount EXCEPT ![b] = @ + calls[c].incs[b]]
          /\ UNCHANGED stops
       \/ b \notin alive /\ UNCHANGED <<readCount, stops>>
       \/ stops < MaxStops /\ stops' = stops + 1 /\ UNCHANGED readCount
    /\ calls' = [calls EXCEPT ![c].incs =
                    [d \in DOMAIN @ \ {b} |-> @[d]]]
    /\ UNCHANGED <<rows, jobs, pushed, alive, deleting, everRead, overlapped>>
Return(c) ==
    /\ calls[c].at = "count" /\ DOMAIN calls[c].incs = {}
    /\ calls' = [calls EXCEPT ![c] = Idle]
    /\ UNCHANGED <<rows, jobs, pushed, readCount, alive, deleting, everRead, stops, overlapped>>
\* The process stops in the middle of a request.
Stop(c) ==
    /\ stops < MaxStops /\ calls[c] # Idle
    /\ stops' = stops + 1
    /\ calls' = [calls EXCEPT ![c] = Idle]
    /\ UNCHANGED <<rows, jobs, pushed, readCount, alive, deleting, everRead, overlapped>>

(* delete() by the owner; the administrator's deletion of a broadcast finds  *)
(* it, removes its notifications and then its row, while its worker may     *)
(* write more of them.                                                     *)
Gone(S) == rows' = [i \in Ids |-> IF i \in S THEN [rows[i] EXCEPT !.at = "gone"] ELSE rows[i]]
Delete(u, i) ==
    /\ i \in Of(u)
    /\ Gone({i})
    /\ Begins
    /\ UNCHANGED <<jobs, pushed, readCount, alive, deleting, everRead, calls, stops>>
DeleteDerived(b) ==
    /\ b \in alive \cup deleting
    /\ Gone({i \in Ids : Here(i) /\ rows[i].bc = b})
    /\ deleting' = deleting \cup {b}
    /\ Begins
    /\ UNCHANGED <<jobs, pushed, readCount, alive, everRead, calls, stops>>
DeleteBroadcast(b) ==
    /\ b \in alive \cap deleting
    /\ alive' = alive \ {b}
    /\ Begins
    /\ UNCHANGED <<rows, jobs, pushed, readCount, deleting, everRead, calls, stops>>

Next ==
    \/ \E c \in Calls, u \in Users :
          \/ \E type \in Kinds : Send(c, u, type)
          \/ \E i \in Ids : MarkRead(c, u, i)
          \/ MarkAllRead(c, u)
    \/ \E c \in Calls :
          \/ Enqueue(c) \/ MarkReadUpdate(c) \/ MarkAllUpdate(c) \/ Return(c) \/ Stop(c)
          \/ \E b \in DOMAIN Broadcasts : Count(c, b)
    \/ \E i \in Ids : EnqueuePush(i) \/ Push(i) \/ Complete(i) \/ Stall(i) \/ \E u \in Users : Delete(u, i)
    \/ \E b \in DOMAIN Broadcasts :
          DeleteDerived(b) \/ DeleteBroadcast(b) \/ \E u \in Users : Deliver(u, b)

Spec == Init /\ [][Next]_vars

-----------------------------------------------------------------------------
TypeOK ==
    /\ \A i \in Ids :
          /\ rows[i].at \in {"none", "here", "gone"}
          /\ rows[i].at # "none" => rows[i].read \in BOOLEAN /\ rows[i].owner \in Users
          /\ jobs[i].at \in {"none", "owed", "waiting", "lost", "active", "completed"}
    /\ alive \subseteq DOMAIN Broadcasts /\ deleting \subseteq DOMAIN Broadcasts
    /\ \A b \in DOMAIN Broadcasts : readCount[b] \in Nat /\ everRead[b] \in Nat
    /\ \A c \in Calls : calls[c].at \in {"idle", "enqueue", "update", "updateAll", "count"}
    /\ overlapped \in BOOLEAN /\ stops \in 0 .. MaxStops

(* What is pushed has been saved, for the user whose channel it is pushed   *)
(* to, and the push shows the type the list shows for it.                  *)
PushedAsListed ==
    \A p \in pushed :
        /\ rows[p[2]].at # "none" /\ rows[p[2]].owner = p[1]
        /\ p[3] = ResolveDisplayType(rows[p[2]].type, rows[p[2]].bc)

(* A broadcast that counts a reader was read by one: nobody counts as a     *)
(* reader of what belongs to someone else (as long as no row is deleted).  *)
NoneDeleted == \A i \in Ids : rows[i].at # "gone"
CountedWereRead ==
    NoneDeleted => \A b \in DOMAIN Broadcasts : readCount[b] > 0 => everRead[b] > 0

(* The pages of a list are the list, newest first, none of it twice and none *)
(* left out, and those of the unread hold as many as the badge shows.       *)
PagesMakeTheList ==
    \A u \in Users, limit \in Limits, onlyUnread \in BOOLEAN :
        LET page(n) == Page(u, onlyUnread, n, limit)
            all == UNION {page(n) : n \in 1 .. MaxRows}
        IN  /\ all = List(u, onlyUnread)
            /\ onlyUnread => Cardinality(all) = UnreadCount(u)
            /\ \A n \in 1 .. MaxRows :
                  /\ Cardinality(page(n)) <= limit
                  /\ \A m \in 1 .. n - 1 : \A i \in page(m), j \in page(n) : i > j

(* "Mark a single notification as read and increment the parent broadcast's  *)
(* readCount": as long as nothing begins while a request is in flight, no   *)
(* process stops and no increment fails, the count is the number of         *)
(* notifications that became read.                                         *)
CountExact ==
    (~overlapped /\ stops = 0 /\ Quiet) => \A b \in alive : readCount[b] = everRead[b]

=============================================================================
