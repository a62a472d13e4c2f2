----------------------------- MODULE RoomServices -----------------------------
(***************************************************************************)
(* The services (snacks, parking, ...) a partner's rooms offer.  The links *)
(* are changed from both sides: the update of a room replaces them in      *)
(* statements of their own, the update of a service in a transaction, and  *)
(* deleting either side takes its links along.  One partner's rooms and    *)
(* services: the requests of others end at the ownership checks.           *)
(***************************************************************************)
EXTENDS Naturals, Sequences, SequencesExt

CONSTANTS Calls, Rooms, Services, Names,   \* requests in flight; ids, each used once
          MaxLinks     \* bound on the services a request about a room lists
RoomServicesAssumption ==
    /\ MaxLinks \in Nat
    /\ Names \cap {"NotYet", "Gone", "Keep"} = {}
    /\ Services \cap {"Keep", "Unsure"} = {}

VARIABLES
    name,      \* name[r]: NotYet before the room is created, Gone after it is deleted
    services,  \* services[s]: "NotYet", "Stored" or "Gone"
    links,     \* the RoomService rows
    call,      \* call[c]: where a request stands
    known,     \* known[r]: the services that the answers so far say the room
               \* has; Unsure after a request about it that failed midway (history)
    overlapped \* whether requests have overlapped (history)

vars == <<name, services, links, call, known, overlapped>>

NotYet == "NotYet"
Gone == "Gone"
Keep == "Keep"          \* a name the body leaves out
KeepAll == <<"Keep">>   \* services the body leaves out
Unsure == {"Unsure"}
Idle == [at |-> "idle"]
Stored(r) == name[r] \in Names
ServicesOf(r) == {s \in Services : <<r, s>> \in links}
LinksOfRoom(r) == {l \in links : l[1] = r}
LinksOfService(s) == {l \in links : l[2] = s}
\* @@unique([partnerId, name])
FreeName(n, r) == \A q \in Rooms \ {r} : name[q] # n
\* z.array(z.number().int()): repeats and unknown ids are let through.
Lists == BoundedSeq(Services, MaxLinks)
Pairs(r, list) == {r} \X ToSet(list)
\* The foreign keys and the unique index of RoomService, for one statement.
Insertable(r, list) ==
    /\ Stored(r) /\ \A s \in ToSet(list) : services[s] = "Stored"
    /\ IsInjective(list)
    /\ Pairs(r, list) \cap links = {}

Init ==
    /\ name = [r \in Rooms |-> NotYet]
    /\ services = [s \in Services |-> "NotYet"]
    /\ links = {}
    /\ call = [c \in Calls |-> Idle]
    /\ known = [r \in Rooms |-> {}]
    /\ overlapped = FALSE

Goto(c, state) == call' = [call EXCEPT ![c] = state]
Answered(c) == Goto(c, Idle)
MayStart(c) ==
    /\ call[c] = Idle
    /\ overlapped' = (overlapped \/ \E d \in Calls : call[d] # Idle)
\* What a reader of the answers believes once rooms rs have service s, others not.
Now(s, rs) == [r \in Rooms |-> IF known[r] = Unsure THEN Unsure
                               ELSE IF r \in rs THEN known[r] \cup {s} ELSE known[r] \ {s}]

(* create(): the room and its links in one nested write.                   *)
CreateRoom(c, r, n, list) ==
    /\ MayStart(c)
    /\ name[r] = NotYet /\ FreeName(n, r)
    /\ IsInjective(list) /\ \A s \in ToSet(list) : services[s] = "Stored"
    /\ name' = [name EXCEPT ![r] = n]
    /\ links' = links \cup Pairs(r, list)
    /\ known' = [known EXCEPT ![r] = ToSet(list)]
    /\ UNCHANGED <<services, call>>

(* update(): the room is looked up, its links are deleted, the new ones     *)
(* inserted, and then the room itself is written: four statements.         *)
UpdateRoom(c, r, n, list) ==
    /\ MayStart(c)
    /\ Stored(r)
    /\ Goto(c, [at |-> IF list = KeepAll THEN "save" ELSE "clear", room |-> r, name |-> n, list |-> list])
    /\ UNCHANGED <<name, services, links, known>>
ClearLinks(c) ==
    /\ call[c].at = "clear"
    /\ links' = links \ LinksOfRoom(call[c].room)
    /\ Goto(c, [call[c] EXCEPT !.at = IF call[c].list = <<>> THEN "save" ELSE "link"])
    /\ UNCHANGED <<name, services, known>>
\* The insertion in a table without foreign keys.
AddUnchecked(c) ==
    /\ call[c].at = "link"
    /\ IsInjective(call[c].list)
    /\ links' = links \cup Pairs(call[c].room, call[c].list)
    /\ Goto(c, [call[c] EXCEPT !.at = "save"])
    /\ UNCHANGED <<name, services, known>>
AddLinks(c) ==
    /\ call[c].at = "link"
    /\ Insertable(call[c].room, call[c].list)
    /\ links' = links \cup Pairs(call[c].room, call[c].list)
    /\ Goto(c, [call[c] EXCEPT !.at = "save"])
    /\ UNCHANGED <<name, services, known>>
SaveRoom(c) ==
    /\ call[c].at = "save"
    /\ Stored(call[c].room)
    /\ call[c].name = Keep \/ FreeName(call[c].name, call[c].room)
    /\ name' = IF call[c].name = Keep THEN name ELSE [name EXCEPT ![call[c].room] = call[c].name]
    /\ known' = IF call[c].list = KeepAll THEN known
                ELSE [known EXCEPT ![call[c].room] = ToSet(call[c].list)]
    /\ Answered(c)
    /\ UNCHANGED <<services, links>>
\* A statement fails, for a constraint or by itself: nothing undoes what the
\* statements before it have done.
UpdateFails(c) ==
    /\ call[c].at \in {"clear", "link", "save"}
    /\ known' = IF call[c].list = KeepAll THEN known ELSE [known EXCEPT ![call[c].room] = Unsure]
    /\ Answered(c)
    /\ UNCHANGED <<name, services, links>>

(* delete() of a room: the links go with it (onDelete: Cascade).           *)
DeleteRoom(c, r) ==
    /\ MayStart(c)
    /\ Stored(r)
    /\ name' = [name EXCEPT ![r] = Gone]
    /\ links' = links \ LinksOfRoom(r)
    /\ known' = [known EXCEPT ![r] = {}]
    /\ UNCHANGED <<services, call>>

(* insert() of a service: assertPartnerOwnsRooms, then one nested write.   *)
CreateService(c, s, rs) ==
    /\ MayStart(c)
    /\ services[s] = "NotYet" /\ \A r \in rs : Stored(r)
    /\ services' = [services EXCEPT ![s] = "Stored"]
    /\ links' = links \cup (rs \X {s})
    /\ known' = Now(s, rs)
    /\ UNCHANGED <<name, call>>

(* update() of a service with rooms: the deleteMany of the transaction sees *)
(* the links of its moment, the nested write inserts the new ones and       *)
(* commits; an update without rooms writes only fields left out here.       *)
UpdateService(c, s, rs) ==
    /\ MayStart(c)
    /\ services[s] = "Stored" /\ \A r \in rs : Stored(r)
    /\ Goto(c, [at |-> "commit", service |-> s, rooms |-> rs, old |-> LinksOfService(s)])
    /\ UNCHANGED <<name, services, links, known>>
NewLinks(c) == call[c].rooms \X {call[c].service}
CanCommit(c) ==
    /\ services[call[c].service] = "Stored" /\ \A r \in call[c].rooms : Stored(r)
    /\ NewLinks(c) \cap (links \ call[c].old) = {}
CommitService(c) ==
    /\ call[c].at = "commit"
    /\ CanCommit(c)
    /\ links' = (links \ call[c].old) \cup NewLinks(c)
    /\ known' = Now(call[c].service, call[c].rooms)
    /\ Answered(c)
    /\ UNCHANGED <<name, services>>
\* A transaction that fails leaves everything as it was.
RollBack(c) ==
    /\ call[c].at = "commit"
    /\ Answered(c)
    /\ UNCHANGED <<name, services, links, known>>

(* delete() of a service: its links and the row in one transaction.         *)
DeleteService(c, s) ==
    /\ MayStart(c)
    /\ services[s] = "Stored"
    /\ services' = [services EXCEPT ![s] = "Gone"]
    /\ links' = links \ LinksOfService(s)
    /\ known' = Now(s, {})
    /\ UNCHANGED <<name, call>>

RoomStep(c) ==
    \/ \E r \in Rooms :
         \/ DeleteRoom(c, r)
         \/ \E n \in Names, list \in Lists : CreateRoom(c, r, n, list)
         \/ \E n \in Names \cup {Keep}, list \in Lists \cup {KeepAll} : UpdateRoom(c, r, n, list)
    \/ (ClearLinks(c) \/ AddLinks(c) \/ SaveRoom(c) \/ UpdateFails(c)) /\ UNCHANGED overlapped
ServiceStep(c) ==
    \/ \E s \in Services :
         \/ DeleteService(c, s)
         \/ \E rs \in SUBSET Rooms : CreateService(c, s, rs) \/ UpdateService(c, s, rs)
    \/ (CommitService(c) \/ RollBack(c)) /\ UNCHANGED overlapped
Next == \E c \in Calls : RoomStep(c) \/ ServiceStep(c)
Spec == Init /\ [][Next]_vars

-----------------------------------------------------------------------------
RoomCall == [at : {"clear", "link", "save"}, room : Rooms, name : Names \cup {Keep}, list : Lists \cup {KeepAll}]
ServiceCall == [at : {"commit"}, service : Services, rooms : SUBSET Rooms, old : SUBSET (Rooms \X Services)]
\* No two rooms of the partner have one name, and rows, calls and answers
\* have their shape.
TypeOK ==
    /\ name \in [Rooms -> Names \cup {NotYet, Gone}]
    /\ \A r, q \in Rooms : (Stored(r) /\ name[r] = name[q]) => r = q
    /\ services \in [Services -> {"NotYet", "Stored", "Gone"}]
    /\ links \subseteq Rooms \X Services
    /\ \A c \in Calls : call[c] \in {Idle} \cup RoomCall \cup ServiceCall
    /\ known \in [Rooms -> (SUBSET Services) \cup {Unsure}]

(* Whatever updates, deletions and failures interleave, a link has both its  *)
(* room and its service: the statements that add links after reads of an     *)
(* earlier moment cannot bring a deleted side back.                          *)
NoDangling == \A l \in links : Stored(l[1]) /\ services[l[2]] = "Stored"

(* Requests one after the other: a room has the services that the answers    *)
(* say, whichever side they were set from; only an update of the room that   *)
(* fails midway, with its old links gone, leaves the partner unsure.         *)
LinksAsAnswered ==
    (~overlapped /\ \A c \in Calls : call[c] = Idle) =>
        \A r \in Rooms : (Stored(r) /\ known[r] # Unsure) => ServicesOf(r) = known[r]
=============================================================================
