-------------------------------- MODULE SeatMap --------------------------------
(***************************************************************************)
(* The public seat map of a showtime (modules/movie), composed with Booking. *)
(* Looking at the map writes: it frees the seats whose lock has expired, in  *)
(* one statement and without touching tickets or orders, which is otherwise  *)
(* the work of the cleanup job.                                            *)
(***************************************************************************)
EXTENDS Booking

CONSTANT Viewers    \* requests for the map in flight at the same time

VARIABLE view   \* view[v]: whether it runs, and the orders overdue at its "now"
mapVars == <<vars, view>>

NotViewing == [on |-> FALSE, now |-> {}]
MapInit == Init /\ view = [v \in Viewers |-> NotViewing]

\* getShowtimeSeatMap(): "now" is taken, then the updateMany.
ViewMap(v) ==
    /\ view[v] = NotViewing
    /\ view' = [view EXCEPT ![v] = [on |-> TRUE, now |-> overdue]]
    /\ UNCHANGED vars
\* updateMany without the condition on lockedUntil.
AnyLock(now) == LockedIn(Seats)
ExpiredAt(now) == {s \in LockedIn(Seats) : lockedBy[s] \in now}
FreeExpired(v) ==
    /\ view[v].on
    /\ SetSeats(ExpiredAt(view[v].now), "AVAILABLE")
    /\ view' = [view EXCEPT ![v] = NotViewing]
    /\ UNCHANGED <<ticket, orderStatus, overdue, showtime, moneyVars, requests, call, cleaner>>

MapNext ==
    \/ Next /\ UNCHANGED view
    \/ \E v \in Viewers : ViewMap(v) \/ FreeExpired(v)

MapSpec == MapInit /\ [][MapNext]_mapVars

-----------------------------------------------------------------------------
MapTypeOK ==
    /\ TypeOK
    /\ view \in [Viewers -> [on : BOOLEAN, now : SUBSET Orders]]

(* Looking at the map never takes a seat from an order whose lock has not    *)
(* expired, although its "now" may be older than the lock it frees.         *)
HoldSurvivesViews ==
    [][\A s \in Seats :
         seatStatus[s] = "LOCKED" /\ lockedBy[s] \notin overdue
           /\ <<seatStatus[s], lockedBy[s]>>' # <<seatStatus[s], lockedBy[s]>>
         => \E c \in Calls : call[c].order = lockedBy[s] /\ call'[c] # call[c]]_mapVars

(* A paid order keeps all its tickets, and each seat has one ticket at most, *)
(* although looking at the map frees seats in the middle of a payment, a     *)
(* cancellation or a run of the job.                                       *)
SaleSurvivesViews == OneTicketPerSeat /\ OrderTicketsUniform /\ PaidOrderKeepsTickets
=============================================================================
