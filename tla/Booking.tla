------------------------------- MODULE Booking -------------------------------
(***************************************************************************)
(* The sale of the seats of one showtime: the customer's calls             *)
(* (lockSeats, getOrder, cancelOrder, createPaymentForOrder,               *)
(* confirmMockPayment) and the seat-cleanup job, over the rows they share  *)
(* in PostgreSQL.                                                          *)
(*                                                                         *)
(* The database runs at READ COMMITTED.  A statement outside a transaction *)
(* is a step.  An interactive transaction is a step for each of its reads  *)
(* and one step for its writes, at commit; "where" filters on status are   *)
(* evaluated in that step and increments are relative.  Between two steps  *)
(* of a call any other call, the job, the clock or a crash may run.        *)
(*                                                                         *)
(* A seat's lockedUntil is always the expiresAt of the order in its        *)
(* lockedBy, so lockedBy stands for both; time is the set of the orders    *)
(* whose expiresAt has passed.                                             *)
(***************************************************************************)
EXTENDS Integers, FiniteSets, Functions

CONSTANTS
  Seats,            \* the seats of the showtime
  Orders,           \* the ids randomUUID() may return for an order
  NoOrder,          \* null in lockedBy / lockedUntil
  Calls,            \* API calls that may be in flight at the same time
  MaxSeats,         \* seats one booking may ask for (8 in the code)
  MaxRequests,      \* bound of the model: API calls made about one order
  PartnerTotal      \* the sum of partnerAmount over the tickets of a set of seats

ASSUME BookingAssumption ==
  /\ IsFiniteSet(Seats) /\ IsFiniteSet(Orders)
  /\ NoOrder \notin Orders
  /\ MaxSeats \in Nat \ {0}
  /\ MaxRequests \in Nat
  /\ PartnerTotal \in [SUBSET Seats -> Nat]

VARIABLES
  seatStatus,       \* Seat.status
  lockedBy,         \* Seat.lockedBy, and Seat.lockedUntil with it
  ticket,           \* Ticket.status of the ticket of an order for a seat, or "none"
  orderStatus,      \* Order.status, or "none" before the row exists
  overdue,          \* the orders whose expiresAt is in the past
  showtime,         \* Showtime.status, availableSeats and bookedSeats
  payments,         \* an order's payment transactions, counted by status
  revenue,          \* an order's revenue transactions, counted
  wallet,           \* the partner's PartnerWallet row
  requests,         \* the API calls made about each order so far
  call,             \* where each API call is
  cleaner           \* where the seat-cleanup job is

vars == <<seatStatus, lockedBy, ticket, orderStatus, overdue, showtime,
          payments, revenue, wallet, requests, call, cleaner>>

seatVars  == <<seatStatus, lockedBy>>
moneyVars == <<payments, revenue, wallet>>

SeatStatus     == {"AVAILABLE", "LOCKED", "BOOKED", "MAINTENANCE"}
TicketStatus   == {"RESERVED", "CONFIRMED", "USED", "CANCELLED", "REFUNDED", "PASSED"}
OrderStatus    == {"PENDING", "PAYMENT_PROCESSING", "COMPLETED", "EXPIRED", "CANCELLED",
                   "REFUND_REQUESTED", "REFUNDED"}
ShowtimeStatus == {"SCHEDULED", "STARTED", "ENDED", "CANCELLED"}

\* A call's pc names the statement or commit it executes next.
CallPC == {"idle", "lockReadSeats", "lockCommit", "releaseRead", "releaseCommit",
           "setStatus", "payInsert", "paySetStatus", "confirmSuccess", "confirmFailed"}

CallState == [pc    : CallPC,
              order : Orders \cup {NoOrder},
              seats : SUBSET Seats,
              final : {"none", "CANCELLED", "EXPIRED"}]

IdleCall == [pc |-> "idle", order |-> NoOrder, seats |-> {}, final |-> "none"]

CleanerState == [pc    : {"idle", "release", "tickets", "orders"},
                 seats : SUBSET Seats,
                 now   : SUBSET Orders]

IdleCleaner == [pc |-> "idle", seats |-> {}, now |-> {}]

-----------------------------------------------------------------------------
\* The tickets of order o, by seat: created with the order, never deleted.
TicketsOf(o) == {s \in Seats : ticket[o][s] # "none"}

TicketsIn(o, statuses) == {s \in Seats : ticket[o][s] \in statuses}

Ticketed == {s \in Seats : \E o \in Orders : ticket[o][s] # "none"}

LockExpired(s) == lockedBy[s] # NoOrder /\ lockedBy[s] \in overdue

\* updateMany on the tickets of o that are in one of the given statuses.
SetTickets(o, from, to) ==
  ticket' = [ticket EXCEPT ![o] =
               [s \in Seats |-> IF ticket[o][s] \in from THEN to ELSE ticket[o][s]]]

\* Writes to the seats of S: their status, lockedUntil = null, lockedBy = null.
SetSeats(S, status) ==
  /\ seatStatus' = [s \in Seats |-> IF s \in S THEN status ELSE seatStatus[s]]
  /\ lockedBy' = [s \in Seats |-> IF s \in S THEN NoOrder ELSE lockedBy[s]]

\* A wrong status in the "where".
BookedIn(S) == {s \in S : seatStatus[s] = "BOOKED"}

\* The seats of S that updateMany where { status: "LOCKED" } finds.
LockedIn(S) == {s \in S : seatStatus[s] = "LOCKED"}

Begin(c, pc, o, S, final) ==
  /\ call[c] = IdleCall
  /\ requests[o] < MaxRequests
  /\ requests' = [requests EXCEPT ![o] = @ + 1]
  /\ call' = [call EXCEPT ![c] = [pc |-> pc, order |-> o, seats |-> S, final |-> final]]

At(c, pc) == call[c].pc = pc

Goto(c, pc) == call' = [call EXCEPT ![c].pc = pc]

Return(c) == call' = [call EXCEPT ![c] = IdleCall]

-----------------------------------------------------------------------------
\* A showtime opens with its seats free, or put out of service by the partner.
Init ==
  /\ seatStatus \in [Seats -> {"AVAILABLE", "MAINTENANCE"}]
  /\ lockedBy = [s \in Seats |-> NoOrder]
  /\ ticket = [o \in Orders |-> [s \in Seats |-> "none"]]
  /\ orderStatus = [o \in Orders |-> "none"]
  /\ overdue = {}
  /\ showtime = [status |-> "SCHEDULED", availableSeats |-> Cardinality(Seats), bookedSeats |-> 0]
  /\ payments = [o \in Orders |-> [pending |-> 0, completed |-> 0, failed |-> 0]]
  /\ revenue = [o \in Orders |-> 0]
  /\ requests = [o \in Orders |-> 0]
  /\ wallet = [balance |-> 0, totalEarned |-> 0, totalWithdrawn |-> 0]
  /\ call = [c \in Calls |-> IdleCall]
  /\ cleaner = IdleCleaner

(***************************************************************************)
(* lockSeatsAtomic: two reads, then the writes at commit.  The unique      *)
(* index on Ticket.seatId aborts a transaction that would give a seat a    *)
(* second ticket.                                                          *)
(***************************************************************************)
LockReadShowtime(c, o, S) ==
  /\ showtime.status = "SCHEDULED"
  /\ S # {} /\ Cardinality(S) <= MaxSeats
  /\ orderStatus[o] = "none"
  /\ \A d \in Calls : call[d].order # o
  /\ Begin(c, "lockReadSeats", o, S, "none")
  /\ UNCHANGED <<seatVars, ticket, orderStatus, overdue, showtime, moneyVars, cleaner>>

Unavailable(s) ==
  \/ seatStatus[s] \in {"BOOKED", "MAINTENANCE"}
  \/ seatStatus[s] = "LOCKED" /\ lockedBy[s] # NoOrder /\ lockedBy[s] \notin overdue

LockReadSeats(c) ==
  /\ At(c, "lockReadSeats")
  /\ IF \E s \in call[c].seats : Unavailable(s) THEN Return(c) ELSE Goto(c, "lockCommit")
  /\ UNCHANGED <<seatVars, ticket, orderStatus, overdue, showtime, moneyVars, requests, cleaner>>

\* The schema without @unique on Ticket.seatId.
SeatIdNotUnique(S) == TRUE

\* No ticket row has a seatId of S.
TicketSeatIdUnique(S) == S \cap Ticketed = {}

LockCommit(c) ==
  LET o == call[c].order
      S == call[c].seats
  IN /\ At(c, "lockCommit")
     /\ TicketSeatIdUnique(S)
     /\ orderStatus' = [orderStatus EXCEPT ![o] = "PENDING"]
     /\ ticket' = [ticket EXCEPT ![o] = [s \in Seats |-> IF s \in S THEN "RESERVED" ELSE @[s]]]
     /\ seatStatus' = [s \in Seats |-> IF s \in S THEN "LOCKED" ELSE seatStatus[s]]
     /\ lockedBy' = [s \in Seats |-> IF s \in S THEN o ELSE lockedBy[s]]
     /\ showtime' = [showtime EXCEPT !.availableSeats = @ - Cardinality(S)]
     /\ Return(c)
     /\ UNCHANGED <<overdue, moneyVars, requests, cleaner>>

LockAbort(c) ==
  /\ At(c, "lockCommit")
  /\ ~TicketSeatIdUnique(call[c].seats)
  /\ Return(c)
  /\ UNCHANGED <<seatVars, ticket, orderStatus, overdue, showtime, moneyVars, requests, cleaner>>

(***************************************************************************)
(* getOrder (which expires an overdue order) and cancelOrder both read the *)
(* order, run releaseOrderSeats and then write the status they decided on  *)
(* whatever it has become meanwhile.                                       *)
(***************************************************************************)
GetOrderExpired(c, o) ==
  /\ orderStatus[o] \in {"PENDING", "PAYMENT_PROCESSING"}
  /\ o \in overdue
  /\ Begin(c, "releaseRead", o, {}, "EXPIRED")
  /\ UNCHANGED <<seatVars, ticket, orderStatus, overdue, showtime, moneyVars, cleaner>>

\* The final write without a status.
CancelOrderNoStatus(c, o) ==
  /\ orderStatus[o] \notin {"none", "COMPLETED", "CANCELLED", "EXPIRED"}
  /\ Begin(c, "releaseRead", o, {}, "none")
  /\ UNCHANGED <<seatVars, ticket, orderStatus, overdue, showtime, moneyVars, cleaner>>

CancelOrder(c, o) ==
  /\ orderStatus[o] \notin {"none", "COMPLETED", "CANCELLED", "EXPIRED"}
  /\ Begin(c, "releaseRead", o, {}, "CANCELLED")
  /\ UNCHANGED <<seatVars, ticket, orderStatus, overdue, showtime, moneyVars, cleaner>>

ReleaseRead(c) ==
  LET live == TicketsIn(call[c].order, {"RESERVED", "CONFIRMED"})
  IN /\ At(c, "releaseRead")
     /\ call' = [call EXCEPT ![c].pc = IF live = {} THEN "setStatus" ELSE "releaseCommit",
                             ![c].seats = live]
     /\ UNCHANGED <<seatVars, ticket, orderStatus, overdue, showtime, moneyVars, requests, cleaner>>

ReleaseCommit(c) ==
  /\ At(c, "releaseCommit")
  /\ SetSeats(LockedIn(call[c].seats), "AVAILABLE")
  /\ showtime' = [showtime EXCEPT !.availableSeats = @ + Cardinality(call[c].seats)]
  /\ SetTickets(call[c].order, {"RESERVED"}, "CANCELLED")
  /\ call' = [call EXCEPT ![c].pc = "setStatus", ![c].seats = {}]
  /\ UNCHANGED <<orderStatus, overdue, moneyVars, requests, cleaner>>

SetStatus(c) ==
  /\ At(c, "setStatus")
  /\ orderStatus' = [orderStatus EXCEPT ![call[c].order] = call[c].final]
  /\ Return(c)
  /\ UNCHANGED <<seatVars, ticket, overdue, showtime, moneyVars, requests, cleaner>>

(***************************************************************************)
(* createPaymentForOrder: three statements, no transaction.                *)
(***************************************************************************)
PayReadOrder(c, o) ==
  /\ orderStatus[o] = "PENDING"
  /\ Begin(c, "payInsert", o, {}, "none")
  /\ UNCHANGED <<seatVars, ticket, orderStatus, overdue, showtime, moneyVars, cleaner>>

PayInsert(c) ==
  /\ At(c, "payInsert")
  /\ payments' = [payments EXCEPT ![call[c].order].pending = @ + 1]
  /\ Goto(c, "paySetStatus")
  /\ UNCHANGED <<seatVars, ticket, orderStatus, overdue, showtime, revenue, wallet, requests, cleaner>>

PaySetStatus(c) ==
  /\ At(c, "paySetStatus")
  /\ orderStatus' = [orderStatus EXCEPT ![call[c].order] = "PAYMENT_PROCESSING"]
  /\ Return(c)
  /\ UNCHANGED <<seatVars, ticket, overdue, showtime, moneyVars, requests, cleaner>>

(***************************************************************************)
(* confirmMockPayment: the order and its tickets are read outside the      *)
(* transaction that settles the payment.                                   *)
(***************************************************************************)
ConfirmReadOrder(c, o, outcome) ==
  /\ orderStatus[o] \notin {"none", "COMPLETED", "CANCELLED", "EXPIRED"}
  /\ Begin(c, outcome, o, {}, "none")
  /\ UNCHANGED <<seatVars, ticket, orderStatus, overdue, showtime, moneyVars, cleaner>>

\* The wallet's update branch without totalEarned.
CreditBalanceOnly(amount) == wallet' = [wallet EXCEPT !.balance = @ + amount]

CreditWallet(amount) ==
  wallet' = [wallet EXCEPT !.balance = @ + amount, !.totalEarned = @ + amount]

\* updateMany on the PENDING payment transactions of o.
SettlePending(o, outcome) ==
  payments' = [payments EXCEPT ![o][outcome] = @ + payments[o].pending, ![o].pending = 0]

ConfirmSuccess(c) ==
  LET o == call[c].order
      S == TicketsOf(o)
  IN /\ At(c, "confirmSuccess")
     /\ SetTickets(o, TicketStatus, "CONFIRMED")
     /\ SetSeats(S, "BOOKED")
     /\ showtime' = [showtime EXCEPT !.bookedSeats = @ + Cardinality(S)]
     /\ CreditWallet(PartnerTotal[S])
     /\ revenue' = [revenue EXCEPT ![o] = @ + 1]
     /\ SettlePending(o, "completed")
     /\ orderStatus' = [orderStatus EXCEPT ![o] = "COMPLETED"]
     /\ Return(c)
     /\ UNCHANGED <<overdue, requests, cleaner>>

ConfirmFailed(c) ==
  LET o == call[c].order
      S == TicketsOf(o)
  IN /\ At(c, "confirmFailed")
     /\ SetTickets(o, {"RESERVED"}, "CANCELLED")
     /\ SetSeats(LockedIn(S), "AVAILABLE")
     /\ showtime' = [showtime EXCEPT !.availableSeats = @ + Cardinality(S)]
     /\ SettlePending(o, "failed")
     /\ orderStatus' = [orderStatus EXCEPT ![o] = "CANCELLED"]
     /\ Return(c)
     /\ UNCHANGED <<overdue, revenue, wallet, requests, cleaner>>

\* The API process dies, or the database refuses the next statement.
CallCrash(c) ==
  /\ call[c] # IdleCall
  /\ Return(c)
  /\ UNCHANGED <<seatVars, ticket, orderStatus, overdue, showtime, moneyVars, requests, cleaner>>

(***************************************************************************)
(* processSeatCleanup, one run at a time: a read and three updateMany, no  *)
(* transaction.  "now" is taken once, at the start.                        *)
(***************************************************************************)
\* findMany with take: 1.
OneExpiredSeat ==
  LET expired == {s \in LockedIn(Seats) : LockExpired(s)}
  IN IF expired = {} THEN {} ELSE {CHOOSE s \in expired : TRUE}

\* findMany without the lockedUntil condition.
AllLockedSeats == LockedIn(Seats)

\* findMany with lockedUntil > now.
UnexpiredSeats == {s \in LockedIn(Seats) : lockedBy[s] # NoOrder /\ lockedBy[s] \notin overdue}

ExpiredSeats == {s \in LockedIn(Seats) : LockExpired(s)}

CleanFindSeats ==
  /\ cleaner.pc = "idle"
  /\ ExpiredSeats # {}
  /\ cleaner' = [pc |-> "release", seats |-> ExpiredSeats, now |-> overdue]
  /\ UNCHANGED <<seatVars, ticket, orderStatus, overdue, showtime, moneyVars, requests, call>>

CleanNothing ==
  /\ cleaner.pc = "idle"
  /\ ExpiredSeats = {}
  /\ UNCHANGED vars

CleanSeats ==
  /\ cleaner.pc = "release"
  /\ SetSeats(cleaner.seats, "AVAILABLE")
  /\ cleaner' = [cleaner EXCEPT !.pc = "tickets"]
  /\ UNCHANGED <<ticket, orderStatus, overdue, showtime, moneyVars, requests, call>>

\* The ticket updateMany without its status condition.
CleanTicketsAnyStatus ==
  /\ cleaner.pc = "tickets"
  /\ ticket' = [o \in Orders |-> [s \in Seats |->
                  IF s \in cleaner.seats /\ ticket[o][s] # "none"
                  THEN "CANCELLED" ELSE ticket[o][s]]]
  /\ cleaner' = [cleaner EXCEPT !.pc = "orders"]
  /\ UNCHANGED <<seatVars, orderStatus, overdue, showtime, moneyVars, requests, call>>

CleanTickets ==
  /\ cleaner.pc = "tickets"
  /\ ticket' = [o \in Orders |-> [s \in Seats |->
                  IF s \in cleaner.seats /\ ticket[o][s] = "RESERVED"
                  THEN "CANCELLED" ELSE ticket[o][s]]]
  /\ cleaner' = [cleaner EXCEPT !.pc = "orders"]
  /\ UNCHANGED <<seatVars, orderStatus, overdue, showtime, moneyVars, requests, call>>

CleanOrders ==
  /\ cleaner.pc = "orders"
  /\ orderStatus' = [o \in Orders |->
                       IF orderStatus[o] = "PENDING" /\ o \in cleaner.now
                       THEN "EXPIRED" ELSE orderStatus[o]]
  /\ cleaner' = IdleCleaner
  /\ UNCHANGED <<seatVars, ticket, overdue, showtime, moneyVars, requests, call>>

\* The worker dies; the next repetition of the job starts from its first line.
CleanCrash ==
  /\ cleaner.pc # "idle"
  /\ cleaner' = IdleCleaner
  /\ UNCHANGED <<seatVars, ticket, orderStatus, overdue, showtime, moneyVars, requests, call>>

\* The expiresAt of an order, ten minutes after its creation, goes by.
Tick(o) ==
  /\ orderStatus[o] # "none"
  /\ o \notin overdue
  /\ overdue' = overdue \cup {o}
  /\ UNCHANGED <<seatVars, ticket, orderStatus, showtime, moneyVars, requests, call, cleaner>>

-----------------------------------------------------------------------------
NewCall(c, o) ==
  \/ \E S \in SUBSET Seats : LockReadShowtime(c, o, S)
  \/ GetOrderExpired(c, o)
  \/ CancelOrder(c, o)
  \/ PayReadOrder(c, o)
  \/ \E outcome \in {"confirmSuccess", "confirmFailed"} : ConfirmReadOrder(c, o, outcome)

CallStep(c) ==
  \/ LockReadSeats(c)
  \/ LockCommit(c)
  \/ LockAbort(c)
  \/ ReleaseRead(c)
  \/ ReleaseCommit(c)
  \/ SetStatus(c)
  \/ PayInsert(c)
  \/ PaySetStatus(c)
  \/ ConfirmSuccess(c)
  \/ ConfirmFailed(c)

CleanStep == CleanFindSeats \/ CleanSeats \/ CleanTickets \/ CleanOrders

Next ==
  \/ \E c \in Calls, o \in Orders : NewCall(c, o)
  \/ \E c \in Calls : CallStep(c) \/ CallCrash(c)
  \/ CleanStep
  \/ CleanNothing
  \/ CleanCrash
  \/ \E o \in Orders : Tick(o)

Spec == Init /\ [][Next]_vars

(***************************************************************************)
(* The job is started every 60 seconds for ever, and a crash does not      *)
(* strike every run at the same statement.  Nothing is assumed of the      *)
(* customers.                                                              *)
(***************************************************************************)
FairSpec ==
  /\ Spec
  /\ WF_vars(CleanFindSeats)
  /\ SF_vars(CleanSeats)
  /\ WF_vars(CleanTickets)
  /\ WF_vars(CleanOrders)

-----------------------------------------------------------------------------
CallTypeOK(c) ==
  /\ call[c] \in CallState
  /\ call[c].pc = "idle" <=> call[c] = IdleCall
  /\ call[c].pc # "idle" => call[c].order \in Orders
  /\ call[c].pc \in {"lockReadSeats", "lockCommit", "releaseCommit"} => call[c].seats # {}
  /\ call[c].pc \in {"releaseRead", "releaseCommit", "setStatus"} => call[c].final # "none"

\* Every row and every call in flight has its shape: in particular a call
\* about to write an order's status knows which status it decided on.
TypeOK ==
  /\ seatStatus \in [Seats -> SeatStatus]
  /\ lockedBy \in [Seats -> Orders \cup {NoOrder}]
  /\ ticket \in [Orders -> [Seats -> TicketStatus \cup {"none"}]]
  /\ orderStatus \in [Orders -> OrderStatus \cup {"none"}]
  /\ overdue \subseteq Orders
  /\ showtime \in [status : ShowtimeStatus, availableSeats : Int, bookedSeats : Nat]
  /\ payments \in [Orders -> [pending : Nat, completed : Nat, failed : Nat]]
  /\ revenue \in [Orders -> Nat]
  /\ wallet \in [balance : Int, totalEarned : Int, totalWithdrawn : Int]
  /\ requests \in [Orders -> 0..MaxRequests]
  /\ \A c \in Calls : CallTypeOK(c)
  /\ call \in [Calls -> CallState]
  /\ cleaner \in CleanerState

\* No double booking: whatever lockSeatsAtomic read before it wrote, a seat
\* never has tickets of two orders.
OneTicketPerSeat ==
  \A s \in Seats : \A o, p \in Orders :
    ticket[o][s] # "none" /\ ticket[p][s] # "none" => o = p

\* The tickets of an order are all reserved, all confirmed or all cancelled,
\* although the cleanup job works seat by seat, without a transaction, and
\* may stop between its statements.
OrderTicketsUniform ==
  \A o \in Orders : \A s, t \in TicketsOf(o) : ticket[o][s] = ticket[o][t]

\* No cancellation, expiry or cleanup that was already under way takes a
\* ticket from an order whose revenue was credited; no ticket is confirmed,
\* and no order COMPLETED, without the credit.
PaidOrderKeepsTickets ==
  \A o \in Orders :
    /\ revenue[o] > 0 => TicketsOf(o) # {} /\ TicketsOf(o) = TicketsIn(o, {"CONFIRMED"})
    /\ revenue[o] = 0 => TicketsIn(o, {"CONFIRMED"}) = {} /\ orderStatus[o] # "COMPLETED"

\* The partner's earnings and the booked count are what the revenue
\* transactions add up to, and the balance what was earned and not withdrawn,
\* under any interleaving of confirmations.
LedgerBalances ==
  /\ wallet.totalEarned = SumFunction([o \in Orders |-> revenue[o] * PartnerTotal[TicketsOf(o)]])
  /\ showtime.bookedSeats = SumFunction([o \in Orders |-> revenue[o] * Cardinality(TicketsOf(o))])
  /\ wallet.balance = wallet.totalEarned - wallet.totalWithdrawn

\* A LOCKED seat has a RESERVED ticket of the order that locked it, and a
\* BOOKED seat a CONFIRMED one, in every interleaving of release, payment
\* and cleanup.  (A seat may be AVAILABLE with any ticket.)
SeatStatusHasItsTicket ==
  \A s \in Seats :
    /\ seatStatus[s] = "LOCKED" =>
         lockedBy[s] \in Orders /\ ticket[lockedBy[s]][s] = "RESERVED"
    /\ seatStatus[s] = "BOOKED" => \E o \in Orders : ticket[o][s] = "CONFIRMED"

\* availableSeats never falls below the seats that were never booked, so it
\* is never negative however many bookings are refused or released.
AvailableSeatsCovered ==
  showtime.availableSeats >= Cardinality(Seats) - Cardinality(Ticketed)

\* An unexpired lock ends only by a call about the order that holds it: no
\* other booking, and no cleanup run with an old list of seats, takes it.
HoldRespected ==
  [][\A s \in Seats :
       seatStatus[s] = "LOCKED" /\ lockedBy[s] \notin overdue
         /\ <<seatStatus[s], lockedBy[s]>>' # <<seatStatus[s], lockedBy[s]>>
       => \E c \in Calls : call[c].order = lockedBy[s] /\ call'[c] # call[c]]_vars

\* The cleanup job frees every expired lock in the end, even if it crashes
\* now and then in the middle of a run.
ExpiredLockFreed ==
  \A s \in Seats :
    (seatStatus[s] = "LOCKED" /\ LockExpired(s)) ~> ~(seatStatus[s] = "LOCKED" /\ LockExpired(s))

\* What the abstract sale sees of an order.
PhaseOf(o) ==
  IF TicketsOf(o) = {} THEN "none"
  ELSE IF TicketsIn(o, {"CONFIRMED"}) # {} THEN "sold"
  ELSE IF TicketsIn(o, {"RESERVED"}) # {} THEN "held"
  ELSE "released"

Sale == INSTANCE TicketSale WITH
          claim <- [o \in Orders |-> TicketsOf(o)],
          phase <- [o \in Orders |-> PhaseOf(o)]

\* The booking code implements the ticket sale: claims are exclusive and
\* atomic, an order's seats move together, a sale is final.
ImplementsSale == Sale!Spec

-----------------------------------------------------------------------------
(***************************************************************************)
(* The inductive invariant behind the sale.                                *)
(***************************************************************************)
\* The rows: what the tickets, the seats and their locks say of each other.
RowInv ==
  /\ OneTicketPerSeat
  /\ OrderTicketsUniform
  /\ SeatStatusHasItsTicket
  /\ \A o \in Orders, s \in Seats : ticket[o][s] \in {"none", "RESERVED", "CONFIRMED", "CANCELLED"}
  /\ \A o \in Orders : \A s \in TicketsOf(o) :
       \/ seatStatus[s] = "LOCKED" /\ lockedBy[s] = o
       \/ seatStatus[s] \in {"AVAILABLE", "BOOKED"} /\ lockedBy[s] = NoOrder
  /\ \A s \in Seats \ Ticketed : seatStatus[s] \in {"AVAILABLE", "MAINTENANCE"} /\ lockedBy[s] = NoOrder
  /\ \A o \in Orders : \A s, t \in TicketsOf(o) : seatStatus[s] = seatStatus[t]

\* The orders: one with a row has tickets, and is paid if they are confirmed.
OrderInv ==
  /\ \A o \in Orders : orderStatus[o] = "none" <=> TicketsOf(o) = {}
  /\ PaidOrderKeepsTickets

\* The calls: a booking has its order id to itself; any other call knows of
\* an order that exists, and a release of all the tickets of the order.
CallOK(c) ==
  /\ call[c].pc \in {"lockReadSeats", "lockCommit"} =>
       /\ orderStatus[call[c].order] = "none"
       /\ \A d \in Calls \ {c} : call[d].order # call[c].order
  /\ call[c].pc \notin {"idle", "lockReadSeats", "lockCommit"} => orderStatus[call[c].order] # "none"
  /\ call[c].pc = "releaseCommit" => call[c].seats = TicketsOf(call[c].order)

CallInv == \A c \in Calls : CallOK(c)

\* The job: its list of seats has all the seats of an order or none, and once
\* it has released them no one locks them again.
CleanerInv ==
  /\ cleaner.seats \subseteq Ticketed
  /\ \A o \in Orders : \A s, t \in TicketsOf(o) : s \in cleaner.seats => t \in cleaner.seats
  /\ cleaner.pc = "tickets" => \A s \in cleaner.seats : seatStatus[s] # "LOCKED"

SaleInv == TypeOK /\ RowInv /\ OrderInv /\ CallInv /\ CleanerInv

-----------------------------------------------------------------------------
(***************************************************************************)
(* What the repository says of itself and the code does not do.            *)
(***************************************************************************)

\* "Idempotency: already processed": confirming a payment again changes
\* nothing, so an order is credited to the partner at most once.
CreditedOnce == \A o \in Orders : revenue[o] <= 1

\* "Treat expired locks as available": a booking that found all of its seats
\* available, and competes with no live ticket, is not refused.
ExpiredLockIsAvailable ==
  \A c \in Calls :
    /\ At(c, "lockCommit")
    /\ \A s \in call[c].seats, o \in Orders : ticket[o][s] \notin {"RESERVED", "CONFIRMED"}
    => TicketSeatIdUnique(call[c].seats)

=============================================================================
