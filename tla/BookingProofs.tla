---------------------------- MODULE BookingProofs ----------------------------
(***************************************************************************)
(* Proofs about Booking, for any number of seats, orders and calls: its     *)
(* types; SaleInv, which is inductive, with the safety invariants that      *)
(* follow from it; and what it guarantees of the steps: the available count *)
(* covers the seats, the ledger adds up, a hold is respected, and Booking   *)
(* implements TicketSale.  What of this survives the views of the seat map  *)
(* (SeatMap) comes last.                                                   *)
(***************************************************************************)
EXTENDS SeatMap, SumTheorems, FiniteSetTheorems, TLAPS

\* Sets of seats are finite, so the counters of the showtime stay integers.
LEMMA CardinalityOfSeats ==
  ASSUME NEW S \in SUBSET Seats
  PROVE  IsFiniteSet(S) /\ Cardinality(S) \in Nat
  BY BookingAssumption, FS_Subset, FS_CardinalityType

\* Changing one counter of a row keeps the row's type.
LEMMA ShowtimeRow ==
  ASSUME NEW row \in [status : ShowtimeStatus, availableSeats : Int, bookedSeats : Nat], NEW n \in Nat
  PROVE  /\ [row EXCEPT !.availableSeats = @ + n]
              \in [status : ShowtimeStatus, availableSeats : Int, bookedSeats : Nat]
         /\ [row EXCEPT !.availableSeats = @ - n]
              \in [status : ShowtimeStatus, availableSeats : Int, bookedSeats : Nat]
         /\ [row EXCEPT !.bookedSeats = @ + n]
              \in [status : ShowtimeStatus, availableSeats : Int, bookedSeats : Nat]
  <1>1. row.availableSeats + n \in Int /\ row.availableSeats - n \in Int /\ row.bookedSeats + n \in Nat
    OBVIOUS
  <1> QED BY <1>1

LEMMA WalletRow ==
  ASSUME NEW row \in [balance : Int, totalEarned : Int, totalWithdrawn : Int], NEW n \in Nat
  PROVE  [row EXCEPT !.balance = @ + n, !.totalEarned = @ + n]
           \in [balance : Int, totalEarned : Int, totalWithdrawn : Int]
  <1>1. row.balance + n \in Int /\ row.totalEarned + n \in Int
    OBVIOUS
  <1> QED BY <1>1

LEMMA SettlePendingTypeOK ==
  ASSUME payments \in [Orders -> [pending : Nat, completed : Nat, failed : Nat]],
         NEW o \in Orders, NEW outcome \in {"completed", "failed"}, SettlePending(o, outcome)
  PROVE  payments' \in [Orders -> [pending : Nat, completed : Nat, failed : Nat]]
  <1>1. /\ payments[o] \in [pending : Nat, completed : Nat, failed : Nat]
        /\ payments[o][outcome] \in Nat
        /\ payments[o][outcome] + payments[o].pending \in Nat
    OBVIOUS
  <1>2. CASE outcome = "completed"
    BY <1>1, <1>2 DEF SettlePending
  <1>3. CASE outcome = "failed"
    BY <1>1, <1>3 DEF SettlePending
  <1> QED BY <1>2, <1>3

\* What every new call leaves of the row of its slot.
LEMMA BeginTypeOK ==
  ASSUME TypeOK, NEW c \in Calls, NEW o \in Orders, NEW S \in SUBSET Seats,
         NEW pc \in CallPC \ {"idle"}, NEW final \in {"none", "CANCELLED", "EXPIRED"},
         pc \in {"lockReadSeats", "lockCommit", "releaseCommit"} => S # {},
         pc \in {"releaseRead", "releaseCommit", "setStatus"} => final # "none",
         Begin(c, pc, o, S, final)
  PROVE  /\ call' \in [Calls -> CallState]
         /\ \A d \in Calls : CallTypeOK(d)'
         /\ requests' \in [Orders -> 0..MaxRequests]
  <1>1. call' \in [Calls -> CallState] /\ \A d \in Calls : CallTypeOK(d)'
    BY DEF TypeOK, CallTypeOK, CallState, CallPC, IdleCall, Begin
  <1>2. requests' \in [Orders -> 0..MaxRequests]
    BY BookingAssumption DEF TypeOK, Begin
  <1> QED BY <1>1, <1>2

LEMMA ReturnTypeOK ==
  ASSUME TypeOK, NEW c \in Calls, Return(c)
  PROVE  call' \in [Calls -> CallState] /\ \A d \in Calls : CallTypeOK(d)'
  BY DEF TypeOK, CallTypeOK, CallState, CallPC, IdleCall, Return

LEMMA InitTypeOK == Init => TypeOK
  <1> SUFFICES ASSUME Init PROVE TypeOK OBVIOUS
  <1>1. Cardinality(Seats) \in Nat
    BY CardinalityOfSeats
  <1>2. call \in [Calls -> CallState] /\ \A c \in Calls : CallTypeOK(c)
    BY DEF Init, CallTypeOK, CallState, CallPC, IdleCall
  <1>3. cleaner \in CleanerState
    BY DEF Init, CleanerState, IdleCleaner
  <1> QED
    BY <1>1, <1>2, <1>3, BookingAssumption
    DEF Init, TypeOK, SeatStatus, TicketStatus, OrderStatus, ShowtimeStatus

LEMMA NewCallTypeOK ==
  ASSUME TypeOK, NEW c \in Calls, NEW o \in Orders, NewCall(c, o)
  PROVE  TypeOK'
  <1>1. /\ call' \in [Calls -> CallState]
        /\ \A d \in Calls : CallTypeOK(d)'
        /\ requests' \in [Orders -> 0..MaxRequests]
    <2>1. CASE \E S \in SUBSET Seats : LockReadShowtime(c, o, S)
      BY <2>1, BeginTypeOK DEF LockReadShowtime, CallPC
    <2>2. CASE GetOrderExpired(c, o)
      BY <2>2, BeginTypeOK DEF GetOrderExpired, CallPC
    <2>3. CASE CancelOrder(c, o)
      BY <2>3, BeginTypeOK DEF CancelOrder, CallPC
    <2>4. CASE PayReadOrder(c, o)
      BY <2>4, BeginTypeOK DEF PayReadOrder, CallPC
    <2>5. CASE \E outcome \in {"confirmSuccess", "confirmFailed"} : ConfirmReadOrder(c, o, outcome)
      BY <2>5, BeginTypeOK DEF ConfirmReadOrder, CallPC
    <2> QED BY <2>1, <2>2, <2>3, <2>4, <2>5 DEF NewCall
  <1>2. UNCHANGED <<seatVars, ticket, orderStatus, overdue, showtime, moneyVars, cleaner>>
    BY DEF NewCall, LockReadShowtime, GetOrderExpired, CancelOrder, PayReadOrder, ConfirmReadOrder
  <1> QED BY <1>1, <1>2 DEF TypeOK, seatVars, moneyVars

LEMMA CallStepTypeOK ==
  ASSUME TypeOK, NEW c \in Calls, CallStep(c)
  PROVE  TypeOK'
  <1>0. /\ call[c] \in CallState
        /\ call[c].pc # "idle" => call[c].order \in Orders
        /\ CallTypeOK(c)
    BY DEF TypeOK, CallTypeOK
  <1>1. CASE LockReadSeats(c)
    <2>1. call' \in [Calls -> CallState] /\ \A d \in Calls : CallTypeOK(d)'
      <3>1. CASE Return(c)
        BY <3>1, ReturnTypeOK
      <3>2. CASE Goto(c, "lockCommit")
        BY <1>1, <1>0, <3>2
        DEF LockReadSeats, TypeOK, CallTypeOK, CallState, CallPC, IdleCall, Goto, At
      <3> QED BY <1>1, <3>1, <3>2 DEF LockReadSeats
    <2> QED BY <1>1, <2>1 DEF LockReadSeats, TypeOK, seatVars, moneyVars
  <1>2. CASE LockCommit(c)
    <2>1. /\ call' \in [Calls -> CallState] /\ \A d \in Calls : CallTypeOK(d)'
          /\ call[c].order \in Orders /\ call[c].seats \in SUBSET Seats
      BY <1>2, <1>0, ReturnTypeOK DEF LockCommit, At, CallState
    <2>2. ticket' \in [Orders -> [Seats -> TicketStatus \cup {"none"}]]
      BY <1>2, <2>1 DEF LockCommit, TypeOK, TicketStatus
    <2>3. /\ seatStatus' \in [Seats -> SeatStatus]
          /\ lockedBy' \in [Seats -> Orders \cup {NoOrder}]
      BY <1>2, <2>1 DEF LockCommit, TypeOK, SeatStatus
    <2>4. showtime' \in [status : ShowtimeStatus, availableSeats : Int, bookedSeats : Nat]
      BY <1>2, <2>1, CardinalityOfSeats, ShowtimeRow DEF LockCommit, TypeOK
    <2>5. orderStatus' \in [Orders -> OrderStatus \cup {"none"}]
      BY <1>2, <2>1 DEF LockCommit, TypeOK, OrderStatus
    <2> QED BY <1>2, <2>1, <2>2, <2>3, <2>4, <2>5 DEF LockCommit, TypeOK, moneyVars
  <1>3. CASE LockAbort(c)
    BY <1>3, ReturnTypeOK DEF LockAbort, TypeOK, seatVars, moneyVars
  <1>4. CASE ReleaseRead(c)
    <2>1. call' \in [Calls -> CallState] /\ \A d \in Calls : CallTypeOK(d)'
      BY <1>4, <1>0
      DEF ReleaseRead, TypeOK, CallTypeOK, CallState, CallPC, IdleCall, At, TicketsIn
    <2> QED BY <1>4, <2>1 DEF ReleaseRead, TypeOK, seatVars, moneyVars
  <1>5. CASE ReleaseCommit(c)
    <2>1. call[c].order \in Orders /\ call[c].seats \in SUBSET Seats
      BY <1>5, <1>0 DEF ReleaseCommit, At, CallState
    <2>2. call' \in [Calls -> CallState] /\ \A d \in Calls : CallTypeOK(d)'
      BY <1>5, <1>0 DEF ReleaseCommit, TypeOK, CallTypeOK, CallState, CallPC, IdleCall, At
    <2>3. ticket' \in [Orders -> [Seats -> TicketStatus \cup {"none"}]]
      BY <1>5, <2>1 DEF ReleaseCommit, SetTickets, TypeOK, TicketStatus
    <2>4. /\ seatStatus' \in [Seats -> SeatStatus]
          /\ lockedBy' \in [Seats -> Orders \cup {NoOrder}]
      BY <1>5, <2>1 DEF ReleaseCommit, SetSeats, TypeOK, SeatStatus
    <2>5. showtime' \in [status : ShowtimeStatus, availableSeats : Int, bookedSeats : Nat]
      BY <1>5, <2>1, CardinalityOfSeats, ShowtimeRow DEF ReleaseCommit, TypeOK
    <2> QED BY <1>5, <2>2, <2>3, <2>4, <2>5 DEF ReleaseCommit, TypeOK, moneyVars
  <1>6. CASE SetStatus(c)
    <2>1. call' \in [Calls -> CallState] /\ \A d \in Calls : CallTypeOK(d)'
      BY <1>6, ReturnTypeOK DEF SetStatus
    <2>2. orderStatus' \in [Orders -> OrderStatus \cup {"none"}]
      BY <1>6, <1>0 DEF SetStatus, TypeOK, OrderStatus, CallState
    <2> QED BY <1>6, <2>1, <2>2 DEF SetStatus, TypeOK, seatVars, moneyVars
  <1>7. CASE PayInsert(c)
    <2>1. call' \in [Calls -> CallState] /\ \A d \in Calls : CallTypeOK(d)'
      BY <1>7, <1>0 DEF PayInsert, TypeOK, CallTypeOK, CallState, CallPC, IdleCall, At, Goto
    <2>2. payments' \in [Orders -> [pending : Nat, completed : Nat, failed : Nat]]
      <3>1. call[c].order \in Orders /\ payments[call[c].order].pending + 1 \in Nat
        BY <1>7, <1>0 DEF PayInsert, TypeOK, At
      <3> QED BY <1>7, <3>1 DEF PayInsert, TypeOK
    <2> QED BY <1>7, <2>1, <2>2 DEF PayInsert, TypeOK, seatVars
  <1>8. CASE PaySetStatus(c)
    <2>1. call' \in [Calls -> CallState] /\ \A d \in Calls : CallTypeOK(d)'
      BY <1>8, ReturnTypeOK DEF PaySetStatus
    <2>2. orderStatus' \in [Orders -> OrderStatus \cup {"none"}]
      BY <1>8 DEF PaySetStatus, TypeOK, OrderStatus
    <2> QED BY <1>8, <2>1, <2>2 DEF PaySetStatus, TypeOK, seatVars, moneyVars
  <1>9. CASE ConfirmSuccess(c)
    <2> DEFINE S == TicketsOf(call[c].order)
    <2>1. call[c].order \in Orders /\ S \in SUBSET Seats
      BY <1>9, <1>0 DEF ConfirmSuccess, At, TicketsOf
    <2>2. call' \in [Calls -> CallState] /\ \A d \in Calls : CallTypeOK(d)'
      BY <1>9, ReturnTypeOK DEF ConfirmSuccess
    <2>3. ticket' \in [Orders -> [Seats -> TicketStatus \cup {"none"}]]
      BY <1>9, <2>1 DEF ConfirmSuccess, SetTickets, TypeOK, TicketStatus
    <2>4. /\ seatStatus' \in [Seats -> SeatStatus]
          /\ lockedBy' \in [Seats -> Orders \cup {NoOrder}]
      BY <1>9, <2>1 DEF ConfirmSuccess, SetSeats, TypeOK, SeatStatus
    <2>5. showtime' \in [status : ShowtimeStatus, availableSeats : Int, bookedSeats : Nat]
      BY <1>9, <2>1, CardinalityOfSeats, ShowtimeRow DEF ConfirmSuccess, TypeOK
    <2>6. PartnerTotal[S] \in Nat
      BY <2>1, BookingAssumption
    <2>7. wallet' \in [balance : Int, totalEarned : Int, totalWithdrawn : Int]
      BY <1>9, <2>6, WalletRow DEF ConfirmSuccess, CreditWallet, TypeOK
    <2>8. /\ revenue' \in [Orders -> Nat]
          /\ payments' \in [Orders -> [pending : Nat, completed : Nat, failed : Nat]]
          /\ orderStatus' \in [Orders -> OrderStatus \cup {"none"}]
      <3>1. revenue' \in [Orders -> Nat]
        BY <1>9, <2>1 DEF ConfirmSuccess, TypeOK
      <3>2. payments' \in [Orders -> [pending : Nat, completed : Nat, failed : Nat]]
        BY <1>9, <2>1, SettlePendingTypeOK DEF ConfirmSuccess, TypeOK
      <3>3. orderStatus' \in [Orders -> OrderStatus \cup {"none"}]
        BY <1>9, <2>1 DEF ConfirmSuccess, TypeOK, OrderStatus
      <3> QED BY <3>1, <3>2, <3>3
    <2> QED BY <1>9, <2>2, <2>3, <2>4, <2>5, <2>7, <2>8 DEF ConfirmSuccess, TypeOK
  <1>10. CASE ConfirmFailed(c)
    <2> DEFINE S == TicketsOf(call[c].order)
    <2>1. call[c].order \in Orders /\ S \in SUBSET Seats
      BY <1>10, <1>0 DEF ConfirmFailed, At, TicketsOf
    <2>2. call' \in [Calls -> CallState] /\ \A d \in Calls : CallTypeOK(d)'
      BY <1>10, ReturnTypeOK DEF ConfirmFailed
    <2>3. ticket' \in [Orders -> [Seats -> TicketStatus \cup {"none"}]]
      BY <1>10, <2>1 DEF ConfirmFailed, SetTickets, TypeOK, TicketStatus
    <2>4. /\ seatStatus' \in [Seats -> SeatStatus]
          /\ lockedBy' \in [Seats -> Orders \cup {NoOrder}]
      BY <1>10, <2>1 DEF ConfirmFailed, SetSeats, TypeOK, SeatStatus
    <2>5. showtime' \in [status : ShowtimeStatus, availableSeats : Int, bookedSeats : Nat]
      BY <1>10, <2>1, CardinalityOfSeats, ShowtimeRow DEF ConfirmFailed, TypeOK
    <2>6. /\ payments' \in [Orders -> [pending : Nat, completed : Nat, failed : Nat]]
          /\ orderStatus' \in [Orders -> OrderStatus \cup {"none"}]
      BY <1>10, <2>1, SettlePendingTypeOK DEF ConfirmFailed, TypeOK, OrderStatus
    <2> QED BY <1>10, <2>2, <2>3, <2>4, <2>5, <2>6 DEF ConfirmFailed, TypeOK
  <1> QED BY <1>1, <1>2, <1>3, <1>4, <1>5, <1>6, <1>7, <1>8, <1>9, <1>10 DEF CallStep

LEMMA OtherStepTypeOK ==
  ASSUME TypeOK,
         \/ \E c \in Calls : CallCrash(c)
         \/ CleanStep \/ CleanNothing \/ CleanCrash
         \/ \E o \in Orders : Tick(o)
  PROVE  TypeOK'
  <1>0. UNCHANGED <<call, requests>> => /\ call' \in [Calls -> CallState]
                                         /\ requests' \in [Orders -> 0..MaxRequests]
                                         /\ \A d \in Calls : CallTypeOK(d)'
    BY DEF TypeOK, CallTypeOK
  <1>1. ASSUME NEW c \in Calls, CallCrash(c) PROVE TypeOK'
    BY <1>1, ReturnTypeOK DEF CallCrash, TypeOK, seatVars, moneyVars
  <1>2. CASE CleanFindSeats
    <2>1. cleaner' \in CleanerState
      BY <1>2 DEF CleanFindSeats, CleanerState, ExpiredSeats, LockedIn, TypeOK
    <2> QED BY <1>2, <1>0, <2>1 DEF CleanFindSeats, TypeOK, seatVars, moneyVars
  <1>3. CASE CleanSeats
    <2>1. /\ seatStatus' \in [Seats -> SeatStatus]
          /\ lockedBy' \in [Seats -> Orders \cup {NoOrder}]
      BY <1>3 DEF CleanSeats, SetSeats, TypeOK, SeatStatus
    <2>2. cleaner' \in CleanerState
      BY <1>3 DEF CleanSeats, CleanerState, TypeOK
    <2> QED BY <1>3, <1>0, <2>1, <2>2 DEF CleanSeats, TypeOK, moneyVars
  <1>4. CASE CleanTickets
    <2>1. ticket' \in [Orders -> [Seats -> TicketStatus \cup {"none"}]]
      BY <1>4 DEF CleanTickets, TypeOK, TicketStatus
    <2>2. cleaner' \in CleanerState
      BY <1>4 DEF CleanTickets, CleanerState, TypeOK
    <2> QED BY <1>4, <1>0, <2>1, <2>2 DEF CleanTickets, TypeOK, seatVars, moneyVars
  <1>5. CASE CleanOrders
    <2>1. orderStatus' \in [Orders -> OrderStatus \cup {"none"}]
      BY <1>5 DEF CleanOrders, TypeOK, OrderStatus
    <2>2. cleaner' \in CleanerState
      BY <1>5 DEF CleanOrders, CleanerState, IdleCleaner
    <2> QED BY <1>5, <1>0, <2>1, <2>2 DEF CleanOrders, TypeOK, seatVars, moneyVars
  <1>6. CASE CleanNothing
    BY <1>6, <1>0 DEF CleanNothing, TypeOK, vars
  <1>7. CASE CleanCrash
    BY <1>7, <1>0 DEF CleanCrash, TypeOK, CleanerState, IdleCleaner, seatVars, moneyVars
  <1>8. ASSUME NEW o \in Orders, Tick(o) PROVE TypeOK'
    BY <1>8, <1>0 DEF Tick, TypeOK, seatVars, moneyVars
  <1> QED BY <1>1, <1>2, <1>3, <1>4, <1>5, <1>6, <1>7, <1>8 DEF CleanStep

LEMMA NextTypeOK == TypeOK /\ [Next]_vars => TypeOK'
  <1> SUFFICES ASSUME TypeOK, [Next]_vars PROVE TypeOK' OBVIOUS
  <1>1. CASE UNCHANGED vars
    BY <1>1 DEF vars, TypeOK, CallTypeOK
  <1>2. CASE Next
    BY <1>2, NewCallTypeOK, CallStepTypeOK, OtherStepTypeOK DEF Next
  <1> QED BY <1>1, <1>2

\* Every reachable state is well formed, for any instance: in particular no
\* call ever writes an order status it has not decided on.
THEOREM TypeCorrect == Spec => []TypeOK
  BY InitTypeOK, NextTypeOK, PTL DEF Spec

-----------------------------------------------------------------------------
rowVars == <<ticket, seatStatus, lockedBy>>

-----------------------------------------------------------------------------
(***************************************************************************)
(* Effects on the rows.                                                    *)
(***************************************************************************)
\* Releasing the seats of one order: what releaseOrderSeats and a failed
\* payment do to the tickets and the seats.
ReleaseRows(o) ==
  /\ SetSeats(LockedIn(TicketsOf(o)), "AVAILABLE")
  /\ SetTickets(o, {"RESERVED"}, "CANCELLED")

LEMMA ReleaseRowsEffect ==
  ASSUME TypeOK, NEW o \in Orders, ReleaseRows(o)
  PROVE  /\ \A p \in Orders, s \in Seats :
              ticket'[p][s] = IF p = o /\ ticket[p][s] = "RESERVED" THEN "CANCELLED" ELSE ticket[p][s]
         /\ \A s \in Seats : IF ticket[o][s] # "none" /\ seatStatus[s] = "LOCKED"
                             THEN seatStatus'[s] = "AVAILABLE" /\ lockedBy'[s] = NoOrder
                             ELSE seatStatus'[s] = seatStatus[s] /\ lockedBy'[s] = lockedBy[s]
  BY DEF ReleaseRows, SetSeats, SetTickets, LockedIn, TicketsOf, TypeOK

LEMMA ConfirmRowsEffect ==
  ASSUME TypeOK, RowInv, NEW o \in Orders,
         SetTickets(o, TicketStatus, "CONFIRMED"), SetSeats(TicketsOf(o), "BOOKED")
  PROVE  /\ \A p \in Orders, s \in Seats :
              ticket'[p][s] = IF p = o /\ ticket[p][s] # "none" THEN "CONFIRMED" ELSE ticket[p][s]
         /\ \A s \in Seats : IF ticket[o][s] # "none"
                             THEN seatStatus'[s] = "BOOKED" /\ lockedBy'[s] = NoOrder
                             ELSE seatStatus'[s] = seatStatus[s] /\ lockedBy'[s] = lockedBy[s]
  BY DEF SetSeats, SetTickets, TicketsOf, TypeOK, TicketStatus

\* A step that neither creates nor deletes a ticket keeps the tickets of
\* every order.
LEMMA SameTickets ==
  ASSUME TypeOK, TypeOK',
         \A o \in Orders, s \in Seats : ticket'[o][s] = "none" <=> ticket[o][s] = "none"
  PROVE  (\A o \in Orders : TicketsOf(o)' = TicketsOf(o)) /\ Ticketed' = Ticketed
  BY DEF TicketsOf, Ticketed

LEMMA QuietRows ==
  ASSUME RowInv, UNCHANGED rowVars
  PROVE  /\ RowInv'
         /\ \A o \in Orders : TicketsOf(o)' = TicketsOf(o)
         /\ \A o \in Orders : \A st : TicketsIn(o, st)' = TicketsIn(o, st)
         /\ Ticketed' = Ticketed
  BY DEF RowInv, rowVars, OneTicketPerSeat, OrderTicketsUniform, SeatStatusHasItsTicket,
         TicketsOf, Ticketed, TicketsIn

LEMMA ReleaseRowsInv ==
  ASSUME TypeOK, TypeOK', RowInv, NEW o \in Orders, ReleaseRows(o)
  PROVE  /\ RowInv'
         /\ \A p \in Orders : TicketsOf(p)' = TicketsOf(p)
         /\ Ticketed' = Ticketed
  <1>1. /\ \A p \in Orders, s \in Seats :
              ticket'[p][s] = IF p = o /\ ticket[p][s] = "RESERVED" THEN "CANCELLED" ELSE ticket[p][s]
        /\ \A s \in Seats : IF ticket[o][s] # "none" /\ seatStatus[s] = "LOCKED"
                             THEN seatStatus'[s] = "AVAILABLE" /\ lockedBy'[s] = NoOrder
                             ELSE seatStatus'[s] = seatStatus[s] /\ lockedBy'[s] = lockedBy[s]
    BY ReleaseRowsEffect
  <1>2. (\A p \in Orders : TicketsOf(p)' = TicketsOf(p)) /\ Ticketed' = Ticketed
    BY <1>1, SameTickets
  <1>3. OneTicketPerSeat' /\ OrderTicketsUniform'
    BY <1>1, <1>2 DEF RowInv, OneTicketPerSeat, OrderTicketsUniform, TicketsOf
  <1>4. SeatStatusHasItsTicket'
    <2> SUFFICES ASSUME NEW s \in Seats
                 PROVE  /\ seatStatus'[s] = "LOCKED" =>
                             lockedBy'[s] \in Orders /\ ticket'[lockedBy'[s]][s] = "RESERVED"
                        /\ seatStatus'[s] = "BOOKED" => \E p \in Orders : ticket'[p][s] = "CONFIRMED"
      BY DEF SeatStatusHasItsTicket
    <2>1. seatStatus'[s] = "BOOKED" => \E p \in Orders : ticket'[p][s] = "CONFIRMED"
      BY <1>1 DEF RowInv, SeatStatusHasItsTicket
    <2>2. seatStatus'[s] = "LOCKED" => ticket[o][s] = "none" /\ seatStatus[s] = "LOCKED" /\ lockedBy'[s] = lockedBy[s]
      BY <1>1
    <2>3. seatStatus'[s] = "LOCKED" => lockedBy'[s] \in Orders /\ ticket'[lockedBy'[s]][s] = "RESERVED"
      BY <1>1, <2>2 DEF RowInv, SeatStatusHasItsTicket
    <2> QED BY <2>1, <2>3
  <1>5. /\ \A p \in Orders, s \in Seats : ticket'[p][s] \in {"none", "RESERVED", "CONFIRMED", "CANCELLED"}
        /\ \A p \in Orders : \A s \in TicketsOf(p)' :
             \/ seatStatus'[s] = "LOCKED" /\ lockedBy'[s] = p
             \/ seatStatus'[s] \in {"AVAILABLE", "BOOKED"} /\ lockedBy'[s] = NoOrder
    BY <1>1, <1>2 DEF RowInv, TicketsOf
  <1>6. \A s \in Seats \ Ticketed' :
          seatStatus'[s] \in {"AVAILABLE", "MAINTENANCE"} /\ lockedBy'[s] = NoOrder
    BY <1>1, <1>2 DEF RowInv, Ticketed
  <1>7. \A p \in Orders : \A s, t \in TicketsOf(p)' : seatStatus'[s] = seatStatus'[t]
    BY <1>1, <1>2 DEF RowInv, OneTicketPerSeat, TicketsOf
  <1> QED BY <1>2, <1>3, <1>4, <1>5, <1>6, <1>7 DEF RowInv

LEMMA ConfirmRowsInv ==
  ASSUME TypeOK, TypeOK', RowInv, NEW o \in Orders,
         SetTickets(o, TicketStatus, "CONFIRMED"), SetSeats(TicketsOf(o), "BOOKED")
  PROVE  /\ RowInv'
         /\ \A p \in Orders : TicketsOf(p)' = TicketsOf(p)
         /\ Ticketed' = Ticketed
  <1>1. /\ \A p \in Orders, s \in Seats :
              ticket'[p][s] = IF p = o /\ ticket[p][s] # "none" THEN "CONFIRMED" ELSE ticket[p][s]
        /\ \A s \in Seats : IF ticket[o][s] # "none"
                             THEN seatStatus'[s] = "BOOKED" /\ lockedBy'[s] = NoOrder
                             ELSE seatStatus'[s] = seatStatus[s] /\ lockedBy'[s] = lockedBy[s]
    BY ConfirmRowsEffect
  <1>2. (\A p \in Orders : TicketsOf(p)' = TicketsOf(p)) /\ Ticketed' = Ticketed
    BY <1>1, SameTickets
  <1>3. OneTicketPerSeat' /\ OrderTicketsUniform'
    BY <1>1, <1>2 DEF RowInv, OneTicketPerSeat, OrderTicketsUniform, TicketsOf
  <1>4. SeatStatusHasItsTicket'
    <2> SUFFICES ASSUME NEW s \in Seats
                 PROVE  /\ seatStatus'[s] = "LOCKED" =>
                             lockedBy'[s] \in Orders /\ ticket'[lockedBy'[s]][s] = "RESERVED"
                        /\ seatStatus'[s] = "BOOKED" => \E p \in Orders : ticket'[p][s] = "CONFIRMED"
      BY DEF SeatStatusHasItsTicket
    <2>1. CASE ticket[o][s] # "none"
      BY <2>1, <1>1
    <2>2. CASE ticket[o][s] = "none"
      BY <2>2, <1>1 DEF RowInv, SeatStatusHasItsTicket
    <2> QED BY <2>1, <2>2
  <1>5. /\ \A p \in Orders, s \in Seats : ticket'[p][s] \in {"none", "RESERVED", "CONFIRMED", "CANCELLED"}
        /\ \A p \in Orders : \A s \in TicketsOf(p)' :
             \/ seatStatus'[s] = "LOCKED" /\ lockedBy'[s] = p
             \/ seatStatus'[s] \in {"AVAILABLE", "BOOKED"} /\ lockedBy'[s] = NoOrder
    BY <1>1, <1>2 DEF RowInv, TicketsOf
  <1>6. \A s \in Seats \ Ticketed' :
          seatStatus'[s] \in {"AVAILABLE", "MAINTENANCE"} /\ lockedBy'[s] = NoOrder
    BY <1>1, <1>2 DEF RowInv, Ticketed
  <1>7. \A p \in Orders : \A s, t \in TicketsOf(p)' : seatStatus'[s] = seatStatus'[t]
    BY <1>1, <1>2 DEF RowInv, OneTicketPerSeat, TicketsOf
  <1> QED BY <1>2, <1>3, <1>4, <1>5, <1>6, <1>7 DEF RowInv

LEMMA LockRowsInv ==
  ASSUME TypeOK, TypeOK', SaleInv, NEW c \in Calls, LockCommit(c)
  PROVE  /\ RowInv'
         /\ call[c].order \in Orders
         /\ TicketsOf(call[c].order) = {}
         /\ \A p \in Orders : TicketsOf(p)' = IF p = call[c].order THEN call[c].seats ELSE TicketsOf(p)
         /\ Ticketed' = Ticketed \cup call[c].seats
  <1> DEFINE o == call[c].order
             S == call[c].seats
  <1>1. /\ o \in Orders /\ S \in SUBSET Seats /\ S # {} /\ orderStatus[o] = "none"
        /\ S \cap Ticketed = {}
    BY DEF TypeOK, CallTypeOK, CallState, SaleInv, CallInv, CallOK, LockCommit, At, TicketSeatIdUnique
  <1>2. TicketsOf(o) = {} /\ \A s \in Seats : ticket[o][s] = "none"
    BY <1>1 DEF SaleInv, OrderInv, TicketsOf
  <1>3. \A p \in Orders, s \in S : ticket[p][s] = "none"
    BY <1>1 DEF Ticketed
  <1>4. /\ \A p \in Orders, s \in Seats :
              ticket'[p][s] = IF p = o /\ s \in S THEN "RESERVED" ELSE ticket[p][s]
        /\ \A s \in Seats : IF s \in S
                             THEN seatStatus'[s] = "LOCKED" /\ lockedBy'[s] = o
                             ELSE seatStatus'[s] = seatStatus[s] /\ lockedBy'[s] = lockedBy[s]
    BY <1>1 DEF LockCommit, TypeOK
  <1>5. \A p \in Orders : TicketsOf(p)' = IF p = o THEN S ELSE TicketsOf(p)
    BY <1>1, <1>2, <1>4 DEF TicketsOf
  <1>6. Ticketed' = Ticketed \cup S
    BY <1>1, <1>4 DEF Ticketed
  <1>7. OneTicketPerSeat'
    BY <1>2, <1>3, <1>4 DEF SaleInv, RowInv, OneTicketPerSeat
  <1>8. OrderTicketsUniform'
    BY <1>1, <1>4, <1>5 DEF SaleInv, RowInv, OrderTicketsUniform, TicketsOf
  <1>9. SeatStatusHasItsTicket'
    <2> SUFFICES ASSUME NEW s \in Seats
                 PROVE  /\ seatStatus'[s] = "LOCKED" =>
                             lockedBy'[s] \in Orders /\ ticket'[lockedBy'[s]][s] = "RESERVED"
                        /\ seatStatus'[s] = "BOOKED" => \E p \in Orders : ticket'[p][s] = "CONFIRMED"
      BY DEF SeatStatusHasItsTicket
    <2>1. CASE s \in S
      BY <2>1, <1>1, <1>4
    <2>2. CASE s \notin S
      BY <2>2, <1>4 DEF SaleInv, RowInv, SeatStatusHasItsTicket
    <2> QED BY <2>1, <2>2
  <1>10. /\ \A p \in Orders, s \in Seats : ticket'[p][s] \in {"none", "RESERVED", "CONFIRMED", "CANCELLED"}
         /\ \A p \in Orders : \A s \in TicketsOf(p)' :
              \/ seatStatus'[s] = "LOCKED" /\ lockedBy'[s] = p
              \/ seatStatus'[s] \in {"AVAILABLE", "BOOKED"} /\ lockedBy'[s] = NoOrder
    BY <1>1, <1>3, <1>4, <1>5 DEF SaleInv, RowInv, TicketsOf
  <1>11. \A s \in Seats \ Ticketed' :
           seatStatus'[s] \in {"AVAILABLE", "MAINTENANCE"} /\ lockedBy'[s] = NoOrder
    BY <1>1, <1>4, <1>6 DEF SaleInv, RowInv
  <1>12. \A p \in Orders : \A s, t \in TicketsOf(p)' : seatStatus'[s] = seatStatus'[t]
    BY <1>1, <1>3, <1>4, <1>5 DEF SaleInv, RowInv, TicketsOf
  <1> QED BY <1>1, <1>2, <1>5, <1>6, <1>7, <1>8, <1>9, <1>10, <1>11, <1>12 DEF RowInv

LEMMA CleanSeatsRowsInv ==
  ASSUME TypeOK, TypeOK', SaleInv, CleanSeats
  PROVE  /\ RowInv'
         /\ \A p \in Orders : TicketsOf(p)' = TicketsOf(p)
         /\ Ticketed' = Ticketed
         /\ \A s \in cleaner.seats : seatStatus'[s] = "AVAILABLE"
  <1> DEFINE S == cleaner.seats
  <1>1. /\ UNCHANGED ticket
        /\ S \subseteq Ticketed /\ S \subseteq Seats
        /\ \A s \in Seats : IF s \in S
                             THEN seatStatus'[s] = "AVAILABLE" /\ lockedBy'[s] = NoOrder
                             ELSE seatStatus'[s] = seatStatus[s] /\ lockedBy'[s] = lockedBy[s]
    BY DEF CleanSeats, SetSeats, SaleInv, CleanerInv, TypeOK, CleanerState
  <1>2. (\A p \in Orders : TicketsOf(p)' = TicketsOf(p)) /\ Ticketed' = Ticketed
    BY <1>1 DEF TicketsOf, Ticketed
  <1>3. OneTicketPerSeat' /\ OrderTicketsUniform'
    BY <1>1, <1>2 DEF SaleInv, RowInv, OneTicketPerSeat, OrderTicketsUniform
  <1>4. SeatStatusHasItsTicket'
    BY <1>1 DEF SaleInv, RowInv, SeatStatusHasItsTicket
  <1>5. /\ \A p \in Orders, s \in Seats : ticket'[p][s] \in {"none", "RESERVED", "CONFIRMED", "CANCELLED"}
        /\ \A p \in Orders : \A s \in TicketsOf(p)' :
             \/ seatStatus'[s] = "LOCKED" /\ lockedBy'[s] = p
             \/ seatStatus'[s] \in {"AVAILABLE", "BOOKED"} /\ lockedBy'[s] = NoOrder
    BY <1>1, <1>2 DEF SaleInv, RowInv, TicketsOf
  <1>6. \A s \in Seats \ Ticketed' :
          seatStatus'[s] \in {"AVAILABLE", "MAINTENANCE"} /\ lockedBy'[s] = NoOrder
    BY <1>1, <1>2 DEF SaleInv, RowInv
  <1>7. \A p \in Orders : \A s, t \in TicketsOf(p)' : seatStatus'[s] = seatStatus'[t]
    BY <1>1, <1>2 DEF SaleInv, RowInv, CleanerInv, TicketsOf
  <1> QED BY <1>1, <1>2, <1>3, <1>4, <1>5, <1>6, <1>7 DEF RowInv

LEMMA CleanTicketsRowsInv ==
  ASSUME TypeOK, TypeOK', SaleInv, CleanTickets
  PROVE  /\ RowInv'
         /\ \A p \in Orders : TicketsOf(p)' = TicketsOf(p)
         /\ Ticketed' = Ticketed
  <1> DEFINE S == cleaner.seats
  <1>1. /\ UNCHANGED <<seatStatus, lockedBy>>
        /\ \A s \in S : seatStatus[s] # "LOCKED"
        /\ \A p \in Orders, s \in Seats : ticket'[p][s] =
              IF s \in S /\ ticket[p][s] = "RESERVED" THEN "CANCELLED" ELSE ticket[p][s]
    BY DEF CleanTickets, seatVars, SaleInv, CleanerInv, TypeOK
  <1>2. (\A p \in Orders : TicketsOf(p)' = TicketsOf(p)) /\ Ticketed' = Ticketed
    BY <1>1, SameTickets
  <1>3. OneTicketPerSeat'
    BY <1>1 DEF SaleInv, RowInv, OneTicketPerSeat
  <1>4. OrderTicketsUniform'
    BY <1>1, <1>2 DEF SaleInv, RowInv, CleanerInv, OrderTicketsUniform, TicketsOf
  <1>5. SeatStatusHasItsTicket'
    <2> SUFFICES ASSUME NEW s \in Seats
                 PROVE  /\ seatStatus'[s] = "LOCKED" =>
                             lockedBy'[s] \in Orders /\ ticket'[lockedBy'[s]][s] = "RESERVED"
                        /\ seatStatus'[s] = "BOOKED" => \E p \in Orders : ticket'[p][s] = "CONFIRMED"
      BY DEF SeatStatusHasItsTicket
    <2>1. seatStatus'[s] = "BOOKED" => \E p \in Orders : ticket'[p][s] = "CONFIRMED"
      BY <1>1 DEF SaleInv, RowInv, SeatStatusHasItsTicket
    <2>2. seatStatus'[s] = "LOCKED" => lockedBy'[s] \in Orders /\ ticket'[lockedBy'[s]][s] = "RESERVED"
      BY <1>1 DEF SaleInv, RowInv, SeatStatusHasItsTicket
    <2> QED BY <2>1, <2>2
  <1>6. /\ \A p \in Orders, s \in Seats : ticket'[p][s] \in {"none", "RESERVED", "CONFIRMED", "CANCELLED"}
        /\ \A p \in Orders : \A s \in TicketsOf(p)' :
             \/ seatStatus'[s] = "LOCKED" /\ lockedBy'[s] = p
             \/ seatStatus'[s] \in {"AVAILABLE", "BOOKED"} /\ lockedBy'[s] = NoOrder
    BY <1>1, <1>2 DEF SaleInv, RowInv, TicketsOf
  <1>7. /\ \A s \in Seats \ Ticketed' :
             seatStatus'[s] \in {"AVAILABLE", "MAINTENANCE"} /\ lockedBy'[s] = NoOrder
        /\ \A p \in Orders : \A s, t \in TicketsOf(p)' : seatStatus'[s] = seatStatus'[t]
    BY <1>1, <1>2 DEF SaleInv, RowInv
  <1> QED BY <1>2, <1>3, <1>4, <1>5, <1>6, <1>7 DEF RowInv

-----------------------------------------------------------------------------
(***************************************************************************)
(* Frame lemmas for the other parts of the invariant.                      *)
(***************************************************************************)
SameOrders ==
  /\ \A o \in Orders : orderStatus'[o] = "none" <=> orderStatus[o] = "none"
  /\ \A o \in Orders : TicketsOf(o)' = TicketsOf(o)

LEMMA QuietOrders ==
  ASSUME RowInv, OrderInv, UNCHANGED <<rowVars, orderStatus, revenue>>
  PROVE  OrderInv' /\ SameOrders
  BY QuietRows DEF OrderInv, PaidOrderKeepsTickets, SameOrders

\* A call that the step leaves alone stays as it should be, if no other call
\* takes over its order.
LEMMA OtherCall ==
  ASSUME TypeOK, CallInv, SameOrders, NEW d \in Calls, call'[d] = call[d],
         \A e \in Calls : call'[e].order \in {call[e].order, NoOrder}
  PROVE  CallOK(d)'
  <1>1. CallOK(d)
    BY DEF CallInv
  <1>2. call[d].pc # "idle" => call[d].order \in Orders /\ call[d].order # NoOrder
    BY BookingAssumption DEF TypeOK, CallTypeOK
  <1>3. call[d].pc \in {"lockReadSeats", "lockCommit"} =>
          \A e \in Calls \ {d} : call'[e].order # call[d].order
    BY <1>1, <1>2 DEF CallOK
  <1>4. call[d].pc = "releaseCommit" => call[d].seats = TicketsOf(call[d].order)'
    BY <1>1, <1>2 DEF CallOK, SameOrders
  <1>5. call[d].pc # "idle" =>
          (orderStatus'[call[d].order] = "none" <=> orderStatus[call[d].order] = "none")
    BY <1>2 DEF SameOrders
  <1> QED BY <1>1, <1>3, <1>4, <1>5 DEF CallOK

LEMMA CallFrame ==
  ASSUME TypeOK, CallInv, SameOrders, UNCHANGED call
  PROVE  CallInv'
  BY OtherCall DEF CallInv

LEMMA CallReturn ==
  ASSUME TypeOK, CallInv, SameOrders, NEW c \in Calls, Return(c)
  PROVE  CallInv'
  <1>1. /\ call'[c] = IdleCall
        /\ \A d \in Calls \ {c} : call'[d] = call[d]
    BY DEF Return, TypeOK
  <1>2. CallOK(c)'
    BY <1>1 DEF CallOK, IdleCall
  <1>3. \A d \in Calls \ {c} : CallOK(d)'
    BY <1>1, OtherCall DEF IdleCall
  <1> QED BY <1>2, <1>3 DEF CallInv

LEMMA CallMoves ==
  ASSUME TypeOK, CallInv, SameOrders, NEW c \in Calls,
         call[c].pc \notin {"idle", "lockReadSeats", "lockCommit"},
         NEW pc \in CallPC \ {"idle", "lockReadSeats", "lockCommit"}, NEW S,
         call' = [call EXCEPT ![c].pc = pc, ![c].seats = S],
         pc = "releaseCommit" => S = TicketsOf(call[c].order)
  PROVE  CallInv'
  <1>1. /\ call'[c].pc = pc /\ call'[c].order = call[c].order /\ call'[c].seats = S
        /\ \A d \in Calls \ {c} : call'[d] = call[d]
    BY DEF TypeOK, CallState
  <1>2. call[c].order \in Orders
    BY DEF TypeOK, CallTypeOK
  <1>3. orderStatus'[call'[c].order] # "none"
    BY <1>1, <1>2 DEF CallInv, CallOK, SameOrders
  <1>4. pc = "releaseCommit" => S = TicketsOf(call[c].order)'
    BY <1>1, <1>2 DEF SameOrders
  <1>5. CallOK(c)'
    BY <1>1, <1>3, <1>4 DEF CallOK
  <1>6. \A d \in Calls \ {c} : CallOK(d)'
    BY <1>1, OtherCall
  <1> QED BY <1>5, <1>6 DEF CallInv

LEMMA CallBegins ==
  ASSUME TypeOK, CallInv, SameOrders, NEW c \in Calls, NEW o \in Orders, NEW S, NEW final,
         NEW pc \in CallPC \ {"idle", "releaseCommit"}, Begin(c, pc, o, S, final),
         IF pc \in {"lockReadSeats", "lockCommit"}
         THEN orderStatus[o] = "none" /\ \A d \in Calls : call[d].order # o
         ELSE orderStatus[o] # "none"
  PROVE  CallInv'
  <1>1. /\ call'[c].pc = pc /\ call'[c].order = o
        /\ \A d \in Calls \ {c} : call'[d] = call[d]
    BY DEF TypeOK, Begin
  <1>2. CallOK(c)'
    BY <1>1 DEF CallOK, SameOrders
  <1>3. ASSUME NEW d \in Calls \ {c} PROVE CallOK(d)'
    <2>1. call'[d] = call[d] /\ CallOK(d)
      BY <1>1, <1>3 DEF CallInv
    <2>2. call[d].pc # "idle" => call[d].order \in Orders
      BY <1>3 DEF TypeOK, CallTypeOK
    <2>3. call[d].pc \in {"lockReadSeats", "lockCommit"} =>
            \A e \in Calls \ {d} : call'[e].order # call[d].order
      BY <1>1, <2>1, <2>2 DEF CallOK
    <2>4. call[d].pc = "releaseCommit" => call[d].seats = TicketsOf(call[d].order)'
      BY <2>1, <2>2 DEF CallOK, SameOrders
    <2>5. call[d].pc # "idle" =>
            (orderStatus'[call[d].order] = "none" <=> orderStatus[call[d].order] = "none")
      BY <2>2 DEF SameOrders
    <2> QED BY <2>1, <2>3, <2>4, <2>5 DEF CallOK
  <1> QED BY <1>2, <1>3 DEF CallInv

LEMMA CleanerFrame ==
  ASSUME CleanerInv, UNCHANGED cleaner, Ticketed' = Ticketed,
         \A o \in Orders : TicketsOf(o)' = TicketsOf(o),
         \A s \in Ticketed : seatStatus'[s] = "LOCKED" => seatStatus[s] = "LOCKED"
  PROVE  CleanerInv'
  BY DEF CleanerInv

-----------------------------------------------------------------------------
(***************************************************************************)
(* SaleInv is inductive.                                                   *)
(***************************************************************************)
LEMMA InitSaleInv == Init => SaleInv
  <1> SUFFICES ASSUME Init PROVE SaleInv OBVIOUS
  <1>1. TypeOK
    BY InitTypeOK
  <1>2. (\A o \in Orders : TicketsOf(o) = {}) /\ Ticketed = {}
    BY DEF Init, TicketsOf, Ticketed
  <1>3. RowInv
    BY <1>2 DEF Init, RowInv, OneTicketPerSeat, OrderTicketsUniform, SeatStatusHasItsTicket
  <1>4. OrderInv
    BY <1>2 DEF Init, OrderInv, PaidOrderKeepsTickets, TicketsIn
  <1>5. CallInv /\ CleanerInv
    BY DEF Init, CallInv, CallOK, CleanerInv, IdleCall, IdleCleaner
  <1> QED BY <1>1, <1>3, <1>4, <1>5 DEF SaleInv

LEMMA NewCallSaleInv ==
  ASSUME SaleInv, TypeOK', NEW c \in Calls, NEW o \in Orders, NewCall(c, o)
  PROVE  SaleInv'
  <1>1. UNCHANGED <<rowVars, orderStatus, revenue, cleaner>>
    BY DEF NewCall, LockReadShowtime, GetOrderExpired, CancelOrder, PayReadOrder,
           ConfirmReadOrder, rowVars, seatVars, moneyVars
  <1>2. RowInv' /\ OrderInv' /\ SameOrders
    BY <1>1, QuietRows, QuietOrders DEF SaleInv
  <1>3. CleanerInv'
    BY <1>1, QuietRows, CleanerFrame DEF SaleInv, rowVars
  <1>4. CallInv'
    <2>1. CASE \E S \in SUBSET Seats : LockReadShowtime(c, o, S)
      BY <2>1, <1>2, CallBegins DEF LockReadShowtime, SaleInv, CallPC
    <2>2. CASE GetOrderExpired(c, o)
      BY <2>2, <1>2, CallBegins DEF GetOrderExpired, SaleInv, CallPC
    <2>3. CASE CancelOrder(c, o)
      BY <2>3, <1>2, CallBegins DEF CancelOrder, SaleInv, CallPC
    <2>4. CASE PayReadOrder(c, o)
      BY <2>4, <1>2, CallBegins DEF PayReadOrder, SaleInv, CallPC
    <2>5. CASE \E outcome \in {"confirmSuccess", "confirmFailed"} : ConfirmReadOrder(c, o, outcome)
      BY <2>5, <1>2, CallBegins DEF ConfirmReadOrder, SaleInv, CallPC
    <2> QED BY <2>1, <2>2, <2>3, <2>4, <2>5 DEF NewCall
  <1> QED BY <1>2, <1>3, <1>4 DEF SaleInv

LEMMA LockCommitSaleInv ==
  ASSUME SaleInv, TypeOK', NEW c \in Calls, LockCommit(c)
  PROVE  SaleInv'
  <1> DEFINE o == call[c].order
             S == call[c].seats
  <1>0. TypeOK
    BY DEF SaleInv
  <1>1. /\ RowInv' /\ o \in Orders /\ TicketsOf(o) = {}
        /\ \A p \in Orders : TicketsOf(p)' = IF p = o THEN S ELSE TicketsOf(p)
        /\ Ticketed' = Ticketed \cup S
    BY <1>0, LockRowsInv
  <1>2. /\ S # {} /\ S \in SUBSET Seats /\ S \cap Ticketed = {}
        /\ orderStatus[o] = "none"
        /\ \A p \in Orders : orderStatus'[p] = IF p = o THEN "PENDING" ELSE orderStatus[p]
        /\ UNCHANGED <<revenue, cleaner>>
    BY <1>1 DEF LockCommit, SaleInv, TypeOK, CallTypeOK, CallState, CallInv, CallOK, At, TicketSeatIdUnique, moneyVars
  <1>3. \A p \in Orders, s \in Seats :
          ticket'[p][s] = IF p = o /\ s \in S THEN "RESERVED" ELSE ticket[p][s]
    BY <1>1, <1>2 DEF LockCommit, SaleInv, TypeOK
  <1>4. OrderInv'
    <2>1. \A p \in Orders : orderStatus'[p] = "none" <=> TicketsOf(p)' = {}
      BY <1>1, <1>2 DEF SaleInv, OrderInv
    <2>2. \A p \in Orders : TicketsIn(p, {"CONFIRMED"})' = TicketsIn(p, {"CONFIRMED"})
      BY <1>1, <1>3 DEF TicketsIn, TicketsOf
    <2>3. revenue[o] = 0
      <3>1. revenue[o] \in Nat /\ ~(revenue[o] > 0)
        BY <1>0, <1>1 DEF SaleInv, OrderInv, PaidOrderKeepsTickets, TypeOK
      <3> QED BY <3>1
    <2> QED BY <1>1, <1>2, <2>1, <2>2, <2>3 DEF SaleInv, OrderInv, PaidOrderKeepsTickets
  <1>5. CallInv'
    <2>1. /\ call'[c] = IdleCall
          /\ \A d \in Calls \ {c} : call'[d] = call[d] /\ call[d].order # o
      BY <1>2 DEF LockCommit, Return, SaleInv, TypeOK, CallInv, CallOK, At
    <2>2. CallOK(c)'
      BY <2>1 DEF CallOK, IdleCall
    <2>3. ASSUME NEW d \in Calls \ {c} PROVE CallOK(d)'
      <3>1. call'[d] = call[d] /\ CallOK(d) /\ call[d].order # o
        BY <2>1, <2>3 DEF SaleInv, CallInv
      <3>2. call[d].pc # "idle" => call[d].order \in Orders /\ call[d].order # NoOrder
        BY <1>0, <2>3, BookingAssumption DEF TypeOK, CallTypeOK
      <3>3. call[d].pc \in {"lockReadSeats", "lockCommit"} =>
              \A e \in Calls \ {d} : call'[e].order # call[d].order
        BY <2>1, <3>1, <3>2 DEF CallOK, IdleCall
      <3>4. call[d].pc = "releaseCommit" => call[d].seats = TicketsOf(call[d].order)'
        BY <1>1, <3>1, <3>2 DEF CallOK
      <3>5. call[d].pc # "idle" => orderStatus'[call[d].order] = orderStatus[call[d].order]
        BY <1>2, <3>1, <3>2
      <3> QED BY <3>1, <3>3, <3>4, <3>5 DEF CallOK
    <2> QED BY <2>2, <2>3 DEF CallInv
  <1>6. CleanerInv'
    <2>1. \A s \in Seats \ S : seatStatus'[s] = seatStatus[s]
      BY <1>2 DEF LockCommit
    <2>2. cleaner.seats \in SUBSET Seats
      BY <1>0 DEF TypeOK, CleanerState
    <2>3. cleaner.seats \cap S = {}
      BY <1>2 DEF SaleInv, CleanerInv
    <2> QED BY <1>1, <1>2, <2>1, <2>2, <2>3 DEF SaleInv, CleanerInv
  <1> QED BY <1>1, <1>4, <1>5, <1>6 DEF SaleInv

\* The steps that write no row: reads, aborts, returns and crashes of a call.
LEMMA QuietCallSaleInv ==
  ASSUME SaleInv, TypeOK', NEW c \in Calls,
         LockReadSeats(c) \/ LockAbort(c) \/ ReleaseRead(c) \/ PayInsert(c) \/ CallCrash(c)
  PROVE  SaleInv'
  <1>0. TypeOK
    BY DEF SaleInv
  <1>1. UNCHANGED <<rowVars, orderStatus, revenue, cleaner>>
    BY DEF LockReadSeats, LockAbort, ReleaseRead, PayInsert, CallCrash, rowVars, seatVars, moneyVars
  <1>2. RowInv' /\ OrderInv' /\ SameOrders
    BY <1>1, QuietRows, QuietOrders DEF SaleInv
  <1>3. CleanerInv'
    BY <1>1, QuietRows, CleanerFrame DEF SaleInv, rowVars
  <1>4. CallInv'
    <2>1. CASE Return(c)
      BY <2>1, <1>0, <1>2, CallReturn DEF SaleInv
    <2>2. CASE At(c, "lockReadSeats") /\ Goto(c, "lockCommit")
      <3>1. /\ call'[c] = [call[c] EXCEPT !.pc = "lockCommit"]
            /\ \A d \in Calls \ {c} : call'[d] = call[d]
        BY <1>0, <2>2 DEF Goto, TypeOK
      <3>2. /\ call'[c].pc = "lockCommit" /\ call'[c].order = call[c].order
            /\ call[c].pc = "lockReadSeats" /\ call[c].order \in Orders
        BY <1>0, <2>2, <3>1 DEF At, TypeOK, CallTypeOK, CallState
      <3>3. CallOK(c)'
        BY <1>2, <3>1, <3>2 DEF SaleInv, CallInv, CallOK, SameOrders
      <3>4. \A d \in Calls \ {c} : CallOK(d)'
        BY <1>0, <1>2, <3>1, <3>2, OtherCall DEF SaleInv
      <3> QED BY <3>3, <3>4 DEF CallInv
    <2>3. CASE ReleaseRead(c)
      <3> DEFINE live == TicketsIn(call[c].order, {"RESERVED", "CONFIRMED"})
      <3>1. call[c].order \in Orders /\ call[c].pc = "releaseRead"
        BY <1>0, <2>3 DEF ReleaseRead, At, TypeOK, CallTypeOK
      <3>2. live # {} => live = TicketsOf(call[c].order)
        BY <3>1 DEF SaleInv, RowInv, OrderTicketsUniform, TicketsIn, TicketsOf
      <3> HIDE DEF live
      <3>3. PICK pc \in {"setStatus", "releaseCommit"} :
              /\ pc = IF live = {} THEN "setStatus" ELSE "releaseCommit"
              /\ call' = [call EXCEPT ![c].pc = pc, ![c].seats = live]
        BY <2>3 DEF ReleaseRead, live
      <3> QED BY <1>0, <1>2, <3>1, <3>2, <3>3, CallMoves DEF SaleInv, CallPC
    <2>4. CASE PayInsert(c)
      <3>1. call' = [call EXCEPT ![c].pc = "paySetStatus", ![c].seats = call[c].seats]
        BY <1>0, <2>4 DEF PayInsert, Goto, TypeOK, CallState
      <3> QED BY <1>0, <1>2, <2>4, <3>1, CallMoves DEF SaleInv, CallPC, PayInsert, At
    <2> QED BY <2>1, <2>2, <2>3, <2>4 DEF LockReadSeats, LockAbort, CallCrash
  <1> QED BY <1>2, <1>3, <1>4 DEF SaleInv

LEMMA ReleaseCommitSaleInv ==
  ASSUME SaleInv, TypeOK', NEW c \in Calls, ReleaseCommit(c)
  PROVE  SaleInv'
  <1> DEFINE o == call[c].order
  <1>0. TypeOK
    BY DEF SaleInv
  <1>1. o \in Orders /\ call[c].pc = "releaseCommit" /\ call[c].seats = TicketsOf(o)
    BY <1>0 DEF ReleaseCommit, At, TypeOK, CallTypeOK, SaleInv, CallInv, CallOK
  <1>2. ReleaseRows(o) /\ UNCHANGED <<orderStatus, revenue, cleaner>>
    BY <1>1 DEF ReleaseCommit, ReleaseRows, moneyVars
  <1>3. /\ RowInv' /\ Ticketed' = Ticketed
        /\ \A p \in Orders : TicketsOf(p)' = TicketsOf(p)
    BY <1>0, <1>1, <1>2, ReleaseRowsInv DEF SaleInv
  <1>4. SameOrders
    BY <1>2, <1>3 DEF SameOrders
  <1>5. /\ \A p \in Orders : TicketsIn(p, {"CONFIRMED"})' = TicketsIn(p, {"CONFIRMED"})
        /\ \A s \in Seats : seatStatus'[s] = "LOCKED" => seatStatus[s] = "LOCKED"
    BY <1>0, <1>1, <1>2, ReleaseRowsEffect DEF TicketsIn
  <1>6. OrderInv'
    BY <1>2, <1>3, <1>5 DEF SaleInv, OrderInv, PaidOrderKeepsTickets
  <1>7. CallInv'
    <2>1. call' = [call EXCEPT ![c].pc = "setStatus", ![c].seats = {}]
      BY DEF ReleaseCommit
    <2> QED BY <1>0, <1>1, <1>4, <2>1, CallMoves DEF SaleInv, CallPC
  <1>8. CleanerInv'
    BY <1>2, <1>3, <1>5, CleanerFrame DEF SaleInv, Ticketed
  <1> QED BY <1>3, <1>6, <1>7, <1>8 DEF SaleInv

LEMMA StatusSaleInv ==
  ASSUME SaleInv, TypeOK', NEW c \in Calls, SetStatus(c) \/ PaySetStatus(c)
  PROVE  SaleInv'
  <1> DEFINE o == call[c].order
  <1>0. TypeOK
    BY DEF SaleInv
  <1>1. /\ o \in Orders /\ orderStatus[o] # "none"
        /\ UNCHANGED <<rowVars, revenue, cleaner>> /\ Return(c)
    BY <1>0 DEF SetStatus, PaySetStatus, At, TypeOK, CallTypeOK, SaleInv, CallInv, CallOK,
                rowVars, seatVars, moneyVars
  <1>2. PICK st \in {"CANCELLED", "EXPIRED", "PAYMENT_PROCESSING"} :
          \A p \in Orders : orderStatus'[p] = IF p = o THEN st ELSE orderStatus[p]
    BY <1>0, <1>1 DEF SetStatus, PaySetStatus, At, TypeOK, CallTypeOK, CallState
  <1>3. /\ RowInv' /\ Ticketed' = Ticketed
        /\ \A p \in Orders : TicketsOf(p)' = TicketsOf(p)
        /\ \A p \in Orders : TicketsIn(p, {"CONFIRMED"})' = TicketsIn(p, {"CONFIRMED"})
    BY <1>1, QuietRows DEF SaleInv
  <1>4. SameOrders
    BY <1>1, <1>2, <1>3 DEF SameOrders
  <1>5. OrderInv'
    BY <1>1, <1>2, <1>3, <1>4 DEF SaleInv, OrderInv, PaidOrderKeepsTickets, SameOrders
  <1>6. CallInv'
    BY <1>0, <1>1, <1>4, CallReturn DEF SaleInv
  <1>7. CleanerInv'
    BY <1>1, <1>3, CleanerFrame DEF SaleInv, rowVars
  <1> QED BY <1>3, <1>5, <1>6, <1>7 DEF SaleInv

LEMMA ConfirmSuccessSaleInv ==
  ASSUME SaleInv, TypeOK', NEW c \in Calls, ConfirmSuccess(c)
  PROVE  SaleInv'
  <1>0. TypeOK
    BY DEF SaleInv
  <1>1. PICK o \in Orders :
        /\ o = call[c].order /\ orderStatus[o] # "none"
        /\ SetTickets(o, TicketStatus, "CONFIRMED") /\ SetSeats(TicketsOf(o), "BOOKED")
        /\ UNCHANGED cleaner /\ Return(c)
    BY <1>0 DEF ConfirmSuccess, At, TypeOK, CallTypeOK, SaleInv, CallInv, CallOK
  <1>2. /\ \A p \in Orders : orderStatus'[p] = IF p = o THEN "COMPLETED" ELSE orderStatus[p]
        /\ \A p \in Orders : revenue'[p] = IF p = o THEN revenue[o] + 1 ELSE revenue[p]
    BY <1>0, <1>1 DEF ConfirmSuccess, TypeOK
  <1>3. /\ RowInv' /\ Ticketed' = Ticketed
        /\ \A p \in Orders : TicketsOf(p)' = TicketsOf(p)
    BY <1>0, <1>1, ConfirmRowsInv DEF SaleInv
  <1>4. SameOrders
    BY <1>1, <1>2, <1>3 DEF SameOrders
  <1>5. /\ TicketsIn(o, {"CONFIRMED"})' = TicketsOf(o)'
        /\ \A p \in Orders \ {o} : TicketsIn(p, {"CONFIRMED"})' = TicketsIn(p, {"CONFIRMED"})
        /\ \A s \in Seats : seatStatus'[s] = "LOCKED" => seatStatus[s] = "LOCKED"
    <2>1. /\ \A p \in Orders, s \in Seats :
                ticket'[p][s] = IF p = o /\ ticket[p][s] # "none" THEN "CONFIRMED" ELSE ticket[p][s]
          /\ \A s \in Seats : IF ticket[o][s] # "none"
                               THEN seatStatus'[s] = "BOOKED" /\ lockedBy'[s] = NoOrder
                               ELSE seatStatus'[s] = seatStatus[s] /\ lockedBy'[s] = lockedBy[s]
      BY <1>0, <1>1, ConfirmRowsEffect DEF SaleInv
    <2>2. TicketsIn(o, {"CONFIRMED"})' = TicketsOf(o)'
      BY <2>1 DEF TicketsIn, TicketsOf
    <2> QED BY <2>1, <2>2 DEF TicketsIn
  <1>6. OrderInv'
    <2>1. TicketsOf(o)' # {} /\ revenue'[o] > 0
      BY <1>0, <1>1, <1>2, <1>3 DEF SaleInv, OrderInv, TypeOK
    <2>2. \A p \in Orders : orderStatus'[p] = "none" <=> TicketsOf(p)' = {}
      BY <1>3, <1>4 DEF SaleInv, OrderInv, SameOrders
    <2> QED BY <1>2, <1>3, <1>5, <2>1, <2>2 DEF SaleInv, OrderInv, PaidOrderKeepsTickets
  <1>7. CallInv'
    BY <1>0, <1>1, <1>4, CallReturn DEF SaleInv
  <1>8. CleanerInv'
    BY <1>1, <1>3, <1>5, CleanerFrame DEF SaleInv, Ticketed
  <1> QED BY <1>3, <1>6, <1>7, <1>8 DEF SaleInv

LEMMA ConfirmFailedSaleInv ==
  ASSUME SaleInv, TypeOK', NEW c \in Calls, ConfirmFailed(c)
  PROVE  SaleInv'
  <1>0. TypeOK
    BY DEF SaleInv
  <1>1. PICK o \in Orders :
        /\ o = call[c].order /\ orderStatus[o] # "none"
        /\ ReleaseRows(o) /\ UNCHANGED <<revenue, cleaner>> /\ Return(c)
    BY <1>0 DEF ConfirmFailed, ReleaseRows, At, TypeOK, CallTypeOK, SaleInv, CallInv, CallOK
  <1>2. \A p \in Orders : orderStatus'[p] = IF p = o THEN "CANCELLED" ELSE orderStatus[p]
    BY <1>0, <1>1 DEF ConfirmFailed, TypeOK
  <1>3. /\ RowInv' /\ Ticketed' = Ticketed
        /\ \A p \in Orders : TicketsOf(p)' = TicketsOf(p)
    BY <1>0, <1>1, ReleaseRowsInv DEF SaleInv
  <1>4. SameOrders
    BY <1>1, <1>2, <1>3 DEF SameOrders
  <1>5. /\ \A p \in Orders : TicketsIn(p, {"CONFIRMED"})' = TicketsIn(p, {"CONFIRMED"})
        /\ \A s \in Seats : seatStatus'[s] = "LOCKED" => seatStatus[s] = "LOCKED"
    BY <1>0, <1>1, ReleaseRowsEffect DEF TicketsIn
  <1>6. OrderInv'
    BY <1>1, <1>2, <1>3, <1>4, <1>5 DEF SaleInv, OrderInv, PaidOrderKeepsTickets, SameOrders
  <1>7. CallInv'
    BY <1>0, <1>1, <1>4, CallReturn DEF SaleInv
  <1>8. CleanerInv'
    BY <1>1, <1>3, <1>5, CleanerFrame DEF SaleInv, Ticketed
  <1> QED BY <1>3, <1>6, <1>7, <1>8 DEF SaleInv

\* The list of expired seats has all the seats of an order or none, because
\* an order's seats have the same status and the same lock.
LEMMA CleanFindSeatsSaleInv ==
  ASSUME SaleInv, TypeOK', CleanFindSeats
  PROVE  SaleInv'
  <1>0. TypeOK
    BY DEF SaleInv
  <1>1. UNCHANGED <<rowVars, orderStatus, revenue, call>>
    BY DEF CleanFindSeats, rowVars, seatVars, moneyVars
  <1>2. RowInv' /\ OrderInv' /\ SameOrders /\ CallInv'
    BY <1>0, <1>1, QuietRows, QuietOrders, CallFrame DEF SaleInv
  <1>3. /\ cleaner'.pc = "release" /\ cleaner'.seats = ExpiredSeats
        /\ \A o \in Orders : TicketsOf(o)' = TicketsOf(o)
        /\ Ticketed' = Ticketed
    BY <1>1, QuietRows DEF CleanFindSeats, SaleInv
  <1>4. ExpiredSeats \subseteq Ticketed
    BY DEF ExpiredSeats, LockedIn, SaleInv, RowInv
  <1>5. ASSUME NEW o \in Orders, NEW s \in TicketsOf(o), NEW t \in TicketsOf(o), s \in ExpiredSeats
        PROVE  t \in ExpiredSeats
    <2>1. seatStatus[t] = seatStatus[s] /\ t \in Seats
      BY DEF SaleInv, RowInv, TicketsOf
    <2>2. lockedBy[s] = o /\ lockedBy[t] = o
      BY <1>5, <2>1 DEF SaleInv, RowInv, ExpiredSeats, LockedIn
    <2> QED BY <1>5, <2>1, <2>2 DEF ExpiredSeats, LockedIn, LockExpired
  <1>6. CleanerInv'
    BY <1>3, <1>4, <1>5 DEF CleanerInv
  <1> QED BY <1>2, <1>6 DEF SaleInv

LEMMA CleanSeatsSaleInv ==
  ASSUME SaleInv, TypeOK', CleanSeats
  PROVE  SaleInv'
  <1>0. TypeOK
    BY DEF SaleInv
  <1>1. /\ RowInv' /\ Ticketed' = Ticketed
        /\ \A p \in Orders : TicketsOf(p)' = TicketsOf(p)
        /\ \A s \in cleaner.seats : seatStatus'[s] = "AVAILABLE"
    BY <1>0, CleanSeatsRowsInv
  <1>2. UNCHANGED <<ticket, orderStatus, revenue, call>>
    BY DEF CleanSeats, moneyVars
  <1>3. SameOrders
    BY <1>1, <1>2 DEF SameOrders
  <1>4. OrderInv'
    BY <1>1, <1>2 DEF SaleInv, OrderInv, PaidOrderKeepsTickets, TicketsIn
  <1>5. CallInv'
    BY <1>0, <1>2, <1>3, CallFrame DEF SaleInv
  <1>6. cleaner'.seats = cleaner.seats
    BY <1>0 DEF CleanSeats, TypeOK, CleanerState
  <1>7. CleanerInv'
    BY <1>1, <1>6 DEF SaleInv, CleanerInv
  <1> QED BY <1>1, <1>4, <1>5, <1>7 DEF SaleInv

LEMMA CleanTicketsSaleInv ==
  ASSUME SaleInv, TypeOK', CleanTickets
  PROVE  SaleInv'
  <1>0. TypeOK
    BY DEF SaleInv
  <1>1. /\ RowInv' /\ Ticketed' = Ticketed
        /\ \A p \in Orders : TicketsOf(p)' = TicketsOf(p)
    BY <1>0, CleanTicketsRowsInv
  <1>2. UNCHANGED <<seatStatus, orderStatus, revenue, call>>
    BY DEF CleanTickets, moneyVars, seatVars
  <1>3. SameOrders
    BY <1>1, <1>2 DEF SameOrders
  <1>4. \A p \in Orders : TicketsIn(p, {"CONFIRMED"})' = TicketsIn(p, {"CONFIRMED"})
    BY <1>0 DEF CleanTickets, TicketsIn, TypeOK
  <1>5. OrderInv'
    BY <1>1, <1>2, <1>4 DEF SaleInv, OrderInv, PaidOrderKeepsTickets
  <1>6. CallInv'
    BY <1>0, <1>2, <1>3, CallFrame DEF SaleInv
  <1>7. cleaner'.seats = cleaner.seats /\ cleaner'.pc = "orders"
    BY <1>0 DEF CleanTickets, TypeOK, CleanerState
  <1>8. CleanerInv'
    BY <1>1, <1>7 DEF SaleInv, CleanerInv
  <1> QED BY <1>1, <1>5, <1>6, <1>8 DEF SaleInv

LEMMA OtherStepSaleInv ==
  ASSUME SaleInv, TypeOK',
         CleanOrders \/ CleanNothing \/ CleanCrash \/ (\E o \in Orders : Tick(o)) \/ UNCHANGED vars
  PROVE  SaleInv'
  <1>0. TypeOK
    BY DEF SaleInv
  <1>1. UNCHANGED <<rowVars, revenue, call>>
    BY DEF CleanOrders, CleanNothing, CleanCrash, Tick, vars, rowVars, seatVars, moneyVars
  <1>2. /\ RowInv' /\ Ticketed' = Ticketed
        /\ \A p \in Orders : TicketsOf(p)' = TicketsOf(p)
        /\ \A p \in Orders : TicketsIn(p, {"CONFIRMED"})' = TicketsIn(p, {"CONFIRMED"})
    BY <1>1, QuietRows DEF SaleInv
  <1>3. \A p \in Orders : \/ orderStatus'[p] = orderStatus[p]
                          \/ orderStatus[p] = "PENDING" /\ orderStatus'[p] = "EXPIRED"
    BY <1>0 DEF CleanOrders, CleanNothing, CleanCrash, Tick, vars, TypeOK
  <1>4. SameOrders
    BY <1>2, <1>3 DEF SameOrders
  <1>5. OrderInv'
    BY <1>1, <1>2, <1>3, <1>4 DEF SaleInv, OrderInv, PaidOrderKeepsTickets, SameOrders
  <1>6. CallInv'
    BY <1>0, <1>1, <1>4, CallFrame DEF SaleInv
  <1>7. cleaner' = cleaner \/ cleaner' = IdleCleaner
    BY DEF CleanOrders, CleanNothing, CleanCrash, Tick, vars
  <1>8. CleanerInv'
    BY <1>1, <1>2, <1>7 DEF SaleInv, CleanerInv, IdleCleaner, rowVars
  <1> QED BY <1>2, <1>5, <1>6, <1>8 DEF SaleInv

LEMMA NextSaleInv == SaleInv /\ [Next]_vars => SaleInv'
  <1> SUFFICES ASSUME SaleInv, [Next]_vars PROVE SaleInv' OBVIOUS
  <1>0. TypeOK'
    BY NextTypeOK DEF SaleInv
  <1>1. ASSUME NEW c \in Calls, NEW o \in Orders, NewCall(c, o) PROVE SaleInv'
    BY <1>0, <1>1, NewCallSaleInv
  <1>2. ASSUME NEW c \in Calls, CallStep(c) \/ CallCrash(c) PROVE SaleInv'
    BY <1>0, <1>2, QuietCallSaleInv, LockCommitSaleInv, ReleaseCommitSaleInv, StatusSaleInv,
       ConfirmSuccessSaleInv, ConfirmFailedSaleInv DEF CallStep
  <1>3. CASE CleanStep
    BY <1>0, <1>3, CleanFindSeatsSaleInv, CleanSeatsSaleInv, CleanTicketsSaleInv,
       OtherStepSaleInv DEF CleanStep
  <1>4. CASE CleanNothing \/ CleanCrash \/ (\E o \in Orders : Tick(o)) \/ UNCHANGED vars
    BY <1>0, <1>4, OtherStepSaleInv
  <1> QED BY <1>1, <1>2, <1>3, <1>4 DEF Next

\* The rows of the tickets, seats and orders, the calls in flight and the
\* cleanup run always agree with each other as SaleInv says.
THEOREM SaleInvariant == Spec => []SaleInv
  BY InitSaleInv, NextSaleInv, PTL DEF Spec

-----------------------------------------------------------------------------
(***************************************************************************)
(* What the invariant gives.                                               *)
(***************************************************************************)
\* No seat is sold or held twice: whatever the interleaving of bookings,
\* releases, payments, cleanups and crashes, it never has tickets of two
\* orders.
THEOREM NoDoubleBooking == Spec => []OneTicketPerSeat
  <1>1. SaleInv => OneTicketPerSeat
    BY DEF SaleInv, RowInv
  <1> QED BY <1>1, SaleInvariant, PTL

\* An order is never cut in two by the cleanup job or by a release.
THEOREM OrdersWhole == Spec => []OrderTicketsUniform
  <1>1. SaleInv => OrderTicketsUniform
    BY DEF SaleInv, RowInv
  <1> QED BY <1>1, SaleInvariant, PTL

\* A paid order keeps its confirmed tickets; without payment none is
\* confirmed.
THEOREM PaidOrdersKept == Spec => []PaidOrderKeepsTickets
  <1>1. SaleInv => PaidOrderKeepsTickets
    BY DEF SaleInv, OrderInv
  <1> QED BY <1>1, SaleInvariant, PTL

\* A LOCKED seat has the RESERVED ticket of its holder, and a BOOKED seat a
\* CONFIRMED one.
THEOREM SeatsMatchTickets == Spec => []SeatStatusHasItsTicket
  <1>1. SaleInv => SeatStatusHasItsTicket
    BY DEF SaleInv, RowInv
  <1> QED BY <1>1, SaleInvariant, PTL

-----------------------------------------------------------------------------
\* A call that releases the seats of order o, and what it adds to the count.
Releases(c, o) ==
  /\ ReleaseRows(o)
  /\ UNCHANGED <<revenue, wallet>>
  /\ o = call[c].order
  /\ call'[c] # call[c]
  /\ showtime' = [showtime EXCEPT !.availableSeats = @ + Cardinality(TicketsOf(o))]

\* A call that confirms the payment of order o, and credits it.
Confirms(c, o) ==
  /\ SetTickets(o, TicketStatus, "CONFIRMED")
  /\ SetSeats(TicketsOf(o), "BOOKED")
  /\ CreditWallet(PartnerTotal[TicketsOf(o)])
  /\ revenue' = [revenue EXCEPT ![o] = @ + 1]
  /\ o = call[c].order
  /\ call'[c] # call[c]
  /\ showtime' = [showtime EXCEPT !.bookedSeats = @ + Cardinality(TicketsOf(o))]

LEMMA ReleaseSteps ==
  ASSUME SaleInv, NEW c \in Calls, ReleaseCommit(c) \/ ConfirmFailed(c)
  PROVE  \E o \in Orders : Releases(c, o)
  <1>1. TypeOK /\ call[c].order \in Orders
    BY DEF SaleInv, TypeOK, CallTypeOK, ReleaseCommit, ConfirmFailed, At
  <1>2. call'[c] # call[c]
    BY <1>1 DEF TypeOK, CallState, ReleaseCommit, ConfirmFailed, At, Return, IdleCall
  <1>3. CASE ReleaseCommit(c)
    <2>1. call[c].seats = TicketsOf(call[c].order)
      BY <1>3 DEF ReleaseCommit, At, SaleInv, CallInv, CallOK
    <2> QED BY <1>1, <1>2, <1>3, <2>1 DEF ReleaseCommit, Releases, ReleaseRows, moneyVars
  <1>4. CASE ConfirmFailed(c)
    BY <1>1, <1>2, <1>4 DEF ConfirmFailed, Releases, ReleaseRows
  <1> QED BY <1>3, <1>4

LEMMA ConfirmSteps ==
  ASSUME SaleInv, NEW c \in Calls, ConfirmSuccess(c)
  PROVE  \E o \in Orders : Confirms(c, o) /\ TicketsOf(o) # {}
  <1>1. TypeOK /\ call[c].order \in Orders /\ orderStatus[call[c].order] # "none"
    BY DEF SaleInv, TypeOK, CallTypeOK, ConfirmSuccess, At, CallInv, CallOK
  <1>2. call'[c] # call[c]
    BY <1>1 DEF TypeOK, ConfirmSuccess, At, Return, IdleCall
  <1> QED BY <1>1, <1>2 DEF ConfirmSuccess, Confirms, SaleInv, OrderInv

\* Every step is one of the five kinds that write rows, or writes none.
LEMMA StepKinds ==
  ASSUME SaleInv, [Next]_vars
  PROVE  \/ \E c \in Calls : LockCommit(c)
         \/ \E c \in Calls, o \in Orders : Releases(c, o)
         \/ \E c \in Calls, o \in Orders : Confirms(c, o) /\ TicketsOf(o) # {}
         \/ CleanSeats
         \/ CleanTickets
         \/ UNCHANGED <<rowVars, showtime, revenue, wallet>>
  <1>1. ASSUME NEW c \in Calls, NEW o \in Orders, NewCall(c, o)
        PROVE  UNCHANGED <<rowVars, showtime, revenue, wallet>>
    BY <1>1 DEF NewCall, LockReadShowtime, GetOrderExpired, CancelOrder, PayReadOrder,
                ConfirmReadOrder, rowVars, seatVars, moneyVars
  <1>2. ASSUME NEW c \in Calls, CallStep(c) \/ CallCrash(c)
        PROVE  \/ LockCommit(c)
               \/ ReleaseCommit(c) \/ ConfirmFailed(c)
               \/ ConfirmSuccess(c)
               \/ UNCHANGED <<rowVars, showtime, revenue, wallet>>
    BY <1>2 DEF CallStep, CallCrash, LockReadSeats, LockAbort, ReleaseRead, SetStatus, PayInsert,
                PaySetStatus, rowVars, seatVars, moneyVars
  <1>3. ASSUME CleanFindSeats \/ CleanOrders \/ CleanNothing \/ CleanCrash
               \/ (\E o \in Orders : Tick(o)) \/ UNCHANGED vars
        PROVE  UNCHANGED <<rowVars, showtime, revenue, wallet>>
    BY <1>3 DEF CleanFindSeats, CleanOrders, CleanNothing, CleanCrash, Tick, vars, rowVars, seatVars, moneyVars
  <1> QED BY <1>1, <1>2, <1>3, ReleaseSteps, ConfirmSteps DEF Next, CleanStep

-----------------------------------------------------------------------------
(***************************************************************************)
(* The available count.                                                    *)
(***************************************************************************)
LEMMA CardinalityOfDisjointUnion ==
  ASSUME NEW S \in SUBSET Seats, NEW T \in SUBSET Seats, S \cap T = {}
  PROVE  Cardinality(T \cup S) = Cardinality(T) + Cardinality(S)
  <1>1. /\ IsFiniteSet(S) /\ IsFiniteSet(T)
        /\ Cardinality(S) \in Nat /\ Cardinality(T) \in Nat
    BY CardinalityOfSeats
  <1>2. Cardinality(T \cap S) = 0
    <2>1. T \cap S = {}
      OBVIOUS
    <2> QED BY <2>1, FS_EmptySet
  <1>3. Cardinality(T \cup S) = Cardinality(T) + Cardinality(S) - Cardinality(T \cap S)
    BY <1>1, FS_Union
  <1> QED BY <1>1, <1>2, <1>3

CountInv == SaleInv /\ AvailableSeatsCovered

LEMMA InitCountInv == Init => CountInv
  <1> SUFFICES ASSUME Init PROVE CountInv OBVIOUS
  <1>1. SaleInv
    BY InitSaleInv
  <1>2. Ticketed = {}
    BY DEF Init, Ticketed
  <1>3. Cardinality(Ticketed) = 0 /\ Cardinality(Seats) \in Nat
    BY <1>2, FS_EmptySet, CardinalityOfSeats
  <1> QED BY <1>1, <1>3 DEF Init, CountInv, AvailableSeatsCovered

\* A step that keeps the tickets and takes nothing from the count.
LEMMA CountFrame ==
  ASSUME AvailableSeatsCovered, TypeOK, TypeOK', Ticketed' = Ticketed,
         showtime'.availableSeats >= showtime.availableSeats
  PROVE  AvailableSeatsCovered'
  <1>1. /\ Cardinality(Seats) \in Nat /\ Cardinality(Ticketed) \in Nat
        /\ showtime.availableSeats \in Int /\ showtime'.availableSeats \in Int
    BY CardinalityOfSeats DEF Ticketed, TypeOK
  <1> QED BY <1>1 DEF AvailableSeatsCovered

LEMMA NextCountInv == CountInv /\ [Next]_vars => CountInv'
  <1> SUFFICES ASSUME CountInv, [Next]_vars PROVE CountInv' OBVIOUS
  <1>0. SaleInv /\ SaleInv' /\ TypeOK /\ TypeOK' /\ RowInv /\ AvailableSeatsCovered
    BY NextSaleInv DEF CountInv, SaleInv
  <1>1. ASSUME NEW c \in Calls, LockCommit(c) PROVE AvailableSeatsCovered'
    <2> DEFINE S == call[c].seats
    <2>1. S \in SUBSET Seats /\ S \cap Ticketed = {} /\ Ticketed \in SUBSET Seats
      BY <1>0, <1>1 DEF LockCommit, TicketSeatIdUnique, TypeOK, CallState, Ticketed
    <2>2. Ticketed' = Ticketed \cup S
      BY <1>0, <1>1, LockRowsInv
    <2>3. showtime'.availableSeats = showtime.availableSeats - Cardinality(S)
      BY <1>0, <1>1 DEF LockCommit, TypeOK
    <2>4. /\ IsFiniteSet(S) /\ IsFiniteSet(Ticketed) /\ Cardinality(S) \in Nat
          /\ Cardinality(Ticketed) \in Nat /\ Cardinality(Seats) \in Nat
          /\ showtime.availableSeats \in Int
      BY <1>0, <2>1, CardinalityOfSeats DEF TypeOK
    <2>5. Cardinality(Ticketed \cup S) = Cardinality(Ticketed) + Cardinality(S)
      BY <2>1, CardinalityOfDisjointUnion
    <2> HIDE DEF S
    <2> QED BY <1>0, <2>2, <2>3, <2>4, <2>5 DEF AvailableSeatsCovered
  <1>2. ASSUME NEW c \in Calls, NEW o \in Orders, Releases(c, o) PROVE AvailableSeatsCovered'
    <2>1. Ticketed' = Ticketed
      BY <1>0, <1>2, ReleaseRowsInv DEF Releases
    <2>2. Cardinality(TicketsOf(o)) \in Nat /\ showtime.availableSeats \in Int
      BY <1>0, CardinalityOfSeats DEF TicketsOf, TypeOK
    <2>3. showtime'.availableSeats >= showtime.availableSeats
      BY <1>0, <1>2, <2>2 DEF Releases, TypeOK
    <2> QED BY <1>0, <2>1, <2>3, CountFrame
  <1>3. ASSUME NEW c \in Calls, NEW o \in Orders, Confirms(c, o) PROVE AvailableSeatsCovered'
    <2>1. Ticketed' = Ticketed
      BY <1>0, <1>3, ConfirmRowsInv DEF Confirms
    <2>2. showtime'.availableSeats = showtime.availableSeats /\ showtime.availableSeats \in Int
      BY <1>0, <1>3 DEF Confirms, TypeOK
    <2> QED BY <1>0, <2>1, <2>2, CountFrame
  <1>4. ASSUME CleanSeats \/ CleanTickets PROVE AvailableSeatsCovered'
    <2>1. Ticketed' = Ticketed
      BY <1>0, <1>4, CleanSeatsRowsInv, CleanTicketsRowsInv
    <2>2. showtime' = showtime /\ showtime.availableSeats \in Int
      BY <1>0, <1>4 DEF CleanSeats, CleanTickets, TypeOK
    <2> QED BY <1>0, <2>1, <2>2, CountFrame
  <1>5. ASSUME UNCHANGED <<rowVars, showtime>> PROVE AvailableSeatsCovered'
    BY <1>0, <1>5 DEF AvailableSeatsCovered, Ticketed, rowVars
  <1> QED BY <1>0, <1>1, <1>2, <1>3, <1>4, <1>5, StepKinds DEF CountInv

\* The count of available seats is never below the number of seats that no
\* order has a ticket for, whatever happens: bookings never oversubtract.
THEOREM AvailableCountSafe == Spec => []AvailableSeatsCovered
  <1>1. CountInv => AvailableSeatsCovered
    BY DEF CountInv
  <1> QED BY <1>1, InitCountInv, NextCountInv, PTL DEF Spec

-----------------------------------------------------------------------------
(***************************************************************************)
(* The ledger.                                                             *)
(***************************************************************************)
\* What each order earned the partner, and the seats it sold.
Earned == [o \in Orders |-> revenue[o] * PartnerTotal[TicketsOf(o)]]
Sold   == [o \in Orders |-> revenue[o] * Cardinality(TicketsOf(o))]

\* LedgerBalances, with the sets the sums are over.
Ledger ==
  /\ wallet.totalEarned = SumFunctionOnSet(Earned, Orders)
  /\ showtime.bookedSeats = SumFunctionOnSet(Sold, Orders)
  /\ wallet.balance = wallet.totalEarned - wallet.totalWithdrawn

LedgerInv == SaleInv /\ Ledger

LEMMA LedgerSums == Ledger => LedgerBalances
  <1>1. DOMAIN Earned = Orders /\ DOMAIN Sold = Orders
    BY DEF Earned, Sold
  <1>2. /\ SumFunction(Earned) = SumFunctionOnSet(Earned, Orders)
        /\ SumFunction(Sold) = SumFunctionOnSet(Sold, Orders)
    BY <1>1, Zenon DEF SumFunction
  <1>3. /\ SumFunction([o \in Orders |-> revenue[o] * PartnerTotal[TicketsOf(o)]])
             = SumFunctionOnSet(Earned, Orders)
        /\ SumFunction([o \in Orders |-> revenue[o] * Cardinality(TicketsOf(o))])
             = SumFunctionOnSet(Sold, Orders)
    BY <1>2, Zenon DEF Earned, Sold
  <1> QED BY <1>3, Zenon DEF Ledger, LedgerBalances

LEMMA EntryOf ==
  ASSUME NEW r \in Nat, NEW S \in SUBSET Seats
  PROVE  /\ r * PartnerTotal[S] \in Int
         /\ r * Cardinality(S) \in Int
         /\ (r + 1) * PartnerTotal[S] = r * PartnerTotal[S] + PartnerTotal[S]
         /\ (r + 1) * Cardinality(S) = r * Cardinality(S) + Cardinality(S)
         /\ r = 0 => r * PartnerTotal[S] = 0 /\ r * Cardinality(S) = 0
  <1>1. PartnerTotal[S] \in Nat /\ Cardinality(S) \in Nat
    BY BookingAssumption, CardinalityOfSeats
  <1>2. \A p \in Nat : r * p \in Int /\ (r + 1) * p = r * p + p /\ 0 * p = 0
    OBVIOUS
  <1> QED BY <1>1, <1>2

LEMMA Entries ==
  ASSUME TypeOK, TypeOK', NEW o \in Orders
  PROVE  /\ TicketsOf(o) \in SUBSET Seats /\ TicketsOf(o)' \in SUBSET Seats
         /\ revenue[o] \in Nat /\ revenue'[o] \in Nat
         /\ Earned[o] = revenue[o] * PartnerTotal[TicketsOf(o)]
         /\ Earned'[o] = revenue'[o] * PartnerTotal[TicketsOf(o)']
         /\ Sold[o] = revenue[o] * Cardinality(TicketsOf(o))
         /\ Sold'[o] = revenue'[o] * Cardinality(TicketsOf(o)')
         /\ Earned[o] \in Int /\ Earned'[o] \in Int
         /\ Sold[o] \in Int /\ Sold'[o] \in Int
  <1>1. /\ TicketsOf(o) \in SUBSET Seats /\ TicketsOf(o)' \in SUBSET Seats
        /\ revenue[o] \in Nat /\ revenue'[o] \in Nat
    BY DEF TicketsOf, TypeOK
  <1>2. /\ Earned[o] = revenue[o] * PartnerTotal[TicketsOf(o)]
        /\ Earned'[o] = revenue'[o] * PartnerTotal[TicketsOf(o)']
        /\ Sold[o] = revenue[o] * Cardinality(TicketsOf(o))
        /\ Sold'[o] = revenue'[o] * Cardinality(TicketsOf(o)')
    BY DEF Earned, Sold
  <1>3. /\ revenue[o] * PartnerTotal[TicketsOf(o)] \in Int
        /\ revenue'[o] * PartnerTotal[TicketsOf(o)'] \in Int
        /\ revenue[o] * Cardinality(TicketsOf(o)) \in Int
        /\ revenue'[o] * Cardinality(TicketsOf(o)') \in Int
    BY <1>1, EntryOf
  <1> QED BY <1>1, <1>2, <1>3

LEMMA InitLedgerInv == Init => LedgerInv
  <1> SUFFICES ASSUME Init PROVE LedgerInv OBVIOUS
  <1>1. SaleInv /\ IsFiniteSet(Orders)
    BY InitSaleInv, BookingAssumption
  <1>2. \A o \in Orders : Earned[o] = 0 /\ Sold[o] = 0
    <2> SUFFICES ASSUME NEW o \in Orders PROVE Earned[o] = 0 /\ Sold[o] = 0 OBVIOUS
    <2>1. TicketsOf(o) \in SUBSET Seats /\ revenue[o] = 0 /\ revenue[o] \in Nat
      BY DEF TicketsOf, Init
    <2>2. revenue[o] * PartnerTotal[TicketsOf(o)] = 0 /\ revenue[o] * Cardinality(TicketsOf(o)) = 0
      BY <2>1, EntryOf
    <2> QED BY <2>2 DEF Earned, Sold
  <1>3. SumFunctionOnSet(Earned, Orders) = 0 /\ SumFunctionOnSet(Sold, Orders) = 0
    BY <1>1, <1>2, SumZero
  <1> QED BY <1>1, <1>3 DEF Init, LedgerInv, Ledger

\* A step that credits nothing, and keeps the tickets of every credited order.
LEMMA LedgerFrame ==
  ASSUME Ledger, TypeOK, TypeOK', UNCHANGED <<revenue, wallet, showtime.bookedSeats>>,
         \A o \in Orders : TicketsOf(o)' = TicketsOf(o) \/ revenue[o] = 0
  PROVE  Ledger'
  <1>0. IsFiniteSet(Orders)
    BY BookingAssumption
  <1>1. \A o \in Orders : /\ Earned[o] \in Int /\ Earned'[o] \in Int
                          /\ Sold[o] \in Int /\ Sold'[o] \in Int
    BY Entries
  <1>2. \A o \in Orders : Earned[o] = Earned'[o] /\ Sold[o] = Sold'[o]
    <2> SUFFICES ASSUME NEW o \in Orders PROVE Earned[o] = Earned'[o] /\ Sold[o] = Sold'[o]
      OBVIOUS
    <2>1. /\ TicketsOf(o) \in SUBSET Seats /\ TicketsOf(o)' \in SUBSET Seats
          /\ revenue[o] \in Nat /\ revenue'[o] = revenue[o]
          /\ Earned[o] = revenue[o] * PartnerTotal[TicketsOf(o)]
          /\ Earned'[o] = revenue'[o] * PartnerTotal[TicketsOf(o)']
          /\ Sold[o] = revenue[o] * Cardinality(TicketsOf(o))
          /\ Sold'[o] = revenue'[o] * Cardinality(TicketsOf(o)')
      BY Entries
    <2>2. CASE TicketsOf(o)' = TicketsOf(o)
      BY <2>1, <2>2
    <2>3. CASE revenue[o] = 0
      <3>1. /\ revenue[o] * PartnerTotal[TicketsOf(o)] = 0 /\ revenue[o] * Cardinality(TicketsOf(o)) = 0
            /\ revenue[o] * PartnerTotal[TicketsOf(o)'] = 0 /\ revenue[o] * Cardinality(TicketsOf(o)') = 0
        BY <2>1, <2>3, EntryOf
      <3> QED BY <2>1, <3>1
    <2> QED BY <2>2, <2>3
  <1>3. /\ SumFunctionOnSet(Earned, Orders) = SumFunctionOnSet(Earned', Orders)
        /\ SumFunctionOnSet(Sold, Orders) = SumFunctionOnSet(Sold', Orders)
    BY <1>0, <1>1, <1>2, SumAgree
  <1> QED BY <1>3 DEF Ledger

\* A confirmation credits the wallet and the count with what it adds to the sums.
LEMMA ConfirmLedger ==
  ASSUME LedgerInv, TypeOK', NEW c \in Calls, NEW o \in Orders, Confirms(c, o)
  PROVE  Ledger'
  <1>0. TypeOK /\ RowInv /\ Ledger /\ IsFiniteSet(Orders)
    BY BookingAssumption DEF LedgerInv, SaleInv
  <1>1. \A p \in Orders : TicketsOf(p)' = TicketsOf(p)
    BY <1>0, ConfirmRowsInv DEF Confirms
  <1>2. \A p \in Orders : revenue'[p] = IF p = o THEN revenue[p] + 1 ELSE revenue[p]
    BY <1>0 DEF Confirms, TypeOK
  <1>3. \A p \in Orders : /\ Earned[p] \in Int /\ Earned'[p] \in Int
                          /\ Sold[p] \in Int /\ Sold'[p] \in Int
    BY <1>0, Entries
  <1>4. \A p \in Orders \ {o} : Earned[p] = Earned'[p] /\ Sold[p] = Sold'[p]
    BY <1>0, <1>1, <1>2, Entries
  <1>5. /\ Earned'[o] = Earned[o] + PartnerTotal[TicketsOf(o)]
        /\ Sold'[o] = Sold[o] + Cardinality(TicketsOf(o))
    <2>1. /\ TicketsOf(o) \in SUBSET Seats /\ TicketsOf(o)' = TicketsOf(o)
          /\ revenue[o] \in Nat /\ revenue'[o] = revenue[o] + 1
          /\ Earned[o] = revenue[o] * PartnerTotal[TicketsOf(o)]
          /\ Earned'[o] = revenue'[o] * PartnerTotal[TicketsOf(o)']
          /\ Sold[o] = revenue[o] * Cardinality(TicketsOf(o))
          /\ Sold'[o] = revenue'[o] * Cardinality(TicketsOf(o)')
      BY <1>0, <1>1, <1>2, Entries
    <2>2. /\ (revenue[o] + 1) * PartnerTotal[TicketsOf(o)]
               = revenue[o] * PartnerTotal[TicketsOf(o)] + PartnerTotal[TicketsOf(o)]
          /\ (revenue[o] + 1) * Cardinality(TicketsOf(o))
               = revenue[o] * Cardinality(TicketsOf(o)) + Cardinality(TicketsOf(o))
      BY <2>1, EntryOf
    <2> QED BY <2>1, <2>2
  <1>6. /\ SumFunctionOnSet(Earned', Orders) = SumFunctionOnSet(Earned, Orders) + (Earned'[o] - Earned[o])
        /\ SumFunctionOnSet(Sold', Orders) = SumFunctionOnSet(Sold, Orders) + (Sold'[o] - Sold[o])
    BY <1>0, <1>3, <1>4, SumChange
  <1>7. PartnerTotal[TicketsOf(o)] \in Nat /\ Cardinality(TicketsOf(o)) \in Nat
    BY BookingAssumption, CardinalityOfSeats DEF TicketsOf
  <1>8. /\ wallet'.totalEarned = wallet.totalEarned + PartnerTotal[TicketsOf(o)]
        /\ wallet'.balance = wallet.balance + PartnerTotal[TicketsOf(o)]
        /\ wallet'.totalWithdrawn = wallet.totalWithdrawn
        /\ wallet.totalEarned \in Int /\ wallet.balance \in Int /\ wallet.totalWithdrawn \in Int
    BY <1>0 DEF Confirms, CreditWallet, TypeOK
  <1>9. showtime'.bookedSeats = showtime.bookedSeats + Cardinality(TicketsOf(o))
    BY <1>0 DEF Confirms, TypeOK
  <1>10. /\ wallet.totalEarned = SumFunctionOnSet(Earned, Orders)
         /\ showtime.bookedSeats = SumFunctionOnSet(Sold, Orders)
         /\ wallet.balance = wallet.totalEarned - wallet.totalWithdrawn
         /\ showtime.bookedSeats \in Int
    BY <1>0 DEF Ledger, TypeOK
  <1>11. wallet'.totalEarned = SumFunctionOnSet(Earned', Orders)
    BY <1>3, <1>5, <1>6, <1>7, <1>8, <1>10
  <1>12. showtime'.bookedSeats = SumFunctionOnSet(Sold', Orders)
    BY <1>3, <1>5, <1>6, <1>7, <1>9, <1>10
  <1>13. wallet'.balance = wallet'.totalEarned - wallet'.totalWithdrawn
    BY <1>7, <1>8, <1>10
  <1> QED BY <1>11, <1>12, <1>13 DEF Ledger

LEMMA NextLedgerInv == LedgerInv /\ [Next]_vars => LedgerInv'
  <1> SUFFICES ASSUME LedgerInv, [Next]_vars PROVE LedgerInv' OBVIOUS
  <1>0. SaleInv /\ SaleInv' /\ TypeOK /\ TypeOK' /\ RowInv /\ Ledger
    BY NextSaleInv DEF LedgerInv, SaleInv
  <1>1. ASSUME NEW c \in Calls, LockCommit(c) PROVE Ledger'
    <2>1. \A p \in Orders : TicketsOf(p)' = TicketsOf(p) \/ TicketsOf(p) = {}
      BY <1>0, <1>1, LockRowsInv
    <2>2. \A p \in Orders : TicketsOf(p) = {} => revenue[p] = 0
      <3>1. \A p \in Orders : revenue[p] \in Nat /\ (revenue[p] > 0 => TicketsOf(p) # {})
        BY <1>0 DEF SaleInv, OrderInv, PaidOrderKeepsTickets, TypeOK
      <3> QED BY <3>1
    <2>3. UNCHANGED <<revenue, wallet, showtime.bookedSeats>>
      BY <1>0, <1>1 DEF LockCommit, moneyVars, TypeOK
    <2> QED BY <1>0, <2>1, <2>2, <2>3, LedgerFrame
  <1>2. ASSUME NEW c \in Calls, NEW o \in Orders, Releases(c, o) PROVE Ledger'
    <2>1. \A p \in Orders : TicketsOf(p)' = TicketsOf(p)
      BY <1>0, <1>2, ReleaseRowsInv DEF Releases
    <2>2. UNCHANGED <<revenue, wallet, showtime.bookedSeats>>
      BY <1>0, <1>2 DEF Releases, TypeOK
    <2> QED BY <1>0, <2>1, <2>2, LedgerFrame
  <1>3. ASSUME NEW c \in Calls, NEW o \in Orders, Confirms(c, o) PROVE Ledger'
    BY <1>0, <1>3, ConfirmLedger DEF LedgerInv
  <1>4. ASSUME CleanSeats PROVE Ledger'
    <2>1. \A p \in Orders : TicketsOf(p)' = TicketsOf(p)
      BY <1>0, <1>4, CleanSeatsRowsInv
    <2>2. UNCHANGED <<revenue, wallet, showtime.bookedSeats>>
      BY <1>4 DEF CleanSeats, moneyVars
    <2> QED BY <1>0, <2>1, <2>2, LedgerFrame
  <1>5. ASSUME CleanTickets PROVE Ledger'
    <2>1. \A p \in Orders : TicketsOf(p)' = TicketsOf(p)
      BY <1>0, <1>5, CleanTicketsRowsInv
    <2>2. UNCHANGED <<revenue, wallet, showtime.bookedSeats>>
      BY <1>5 DEF CleanTickets, moneyVars
    <2> QED BY <1>0, <2>1, <2>2, LedgerFrame
  <1>6. ASSUME UNCHANGED <<rowVars, showtime, revenue, wallet>> PROVE Ledger'
    <2>1. \A p \in Orders : TicketsOf(p)' = TicketsOf(p)
      BY <1>0, <1>6, QuietRows
    <2>2. UNCHANGED <<revenue, wallet, showtime.bookedSeats>>
      BY <1>6
    <2> QED BY <1>0, <2>1, <2>2, LedgerFrame
  <1> QED BY <1>0, <1>1, <1>2, <1>3, <1>4, <1>5, <1>6, StepKinds DEF LedgerInv

\* The partner's earnings and the booked count are the sums of what the orders
\* were confirmed for, for any prices, however confirmations interleave with
\* releases, cleanups and crashes, and however often an order is confirmed.
THEOREM LedgerAddsUp == Spec => []LedgerBalances
  <1>1. LedgerInv => LedgerBalances
    BY LedgerSums DEF LedgerInv
  <1> QED BY <1>1, InitLedgerInv, NextLedgerInv, PTL DEF Spec

-----------------------------------------------------------------------------
(***************************************************************************)
(* Holds.                                                                  *)
(***************************************************************************)
\* The seats the job is about to release were found with an expired lock,
\* and no one can lock them again.
ListExpired ==
  cleaner.pc = "release" =>
    \A s \in cleaner.seats : seatStatus[s] = "LOCKED" => lockedBy[s] \in overdue

HoldInv == SaleInv /\ ListExpired

\* A seat that has a ticket is never locked again.
LEMMA NeverRelocked ==
  ASSUME SaleInv, [Next]_vars, NEW s \in Ticketed, seatStatus'[s] = "LOCKED"
  PROVE  seatStatus[s] = "LOCKED" /\ lockedBy'[s] = lockedBy[s]
  <1>0. TypeOK /\ RowInv /\ s \in Seats
    BY DEF SaleInv, Ticketed
  <1>1. ASSUME NEW c \in Calls, LockCommit(c)
        PROVE  UNCHANGED <<seatStatus[s], lockedBy[s]>>
    BY <1>0, <1>1 DEF LockCommit, TicketSeatIdUnique
  <1>2. ASSUME NEW c \in Calls, NEW o \in Orders, Releases(c, o)
        PROVE  seatStatus[s] = "LOCKED" /\ lockedBy'[s] = lockedBy[s]
    BY <1>0, <1>2, ReleaseRowsEffect DEF Releases
  <1>3. ASSUME NEW c \in Calls, NEW o \in Orders, Confirms(c, o)
        PROVE  seatStatus[s] = "LOCKED" /\ lockedBy'[s] = lockedBy[s]
    BY <1>0, <1>3, ConfirmRowsEffect DEF Confirms
  <1>4. CASE CleanSeats
    BY <1>0, <1>4 DEF CleanSeats, SetSeats
  <1>5. CASE CleanTickets \/ UNCHANGED <<rowVars, showtime>>
    BY <1>0, <1>5 DEF CleanTickets, seatVars, rowVars
  <1> QED BY <1>1, <1>2, <1>3, <1>4, <1>5, StepKinds

LEMMA NextHoldInv == HoldInv /\ [Next]_vars => HoldInv'
  <1> SUFFICES ASSUME HoldInv, [Next]_vars PROVE HoldInv' OBVIOUS
  <1>0. SaleInv /\ SaleInv' /\ TypeOK /\ TypeOK' /\ RowInv /\ CleanerInv
    BY NextSaleInv DEF HoldInv, SaleInv
  <1>1. \/ UNCHANGED cleaner
        \/ CleanFindSeats
        \/ cleaner'.pc # "release"
    <2>1. ASSUME NEW c \in Calls, (\E o \in Orders : NewCall(c, o)) \/ CallStep(c) \/ CallCrash(c)
          PROVE  UNCHANGED cleaner
      BY <2>1 DEF NewCall, CallStep, LockReadShowtime, GetOrderExpired, CancelOrder,
           PayReadOrder, ConfirmReadOrder, LockReadSeats, LockCommit, LockAbort, ReleaseRead,
           ReleaseCommit, SetStatus, PayInsert, PaySetStatus, ConfirmSuccess, ConfirmFailed, CallCrash
    <2>2. CleanSeats \/ CleanTickets => cleaner'.pc # "release"
      BY <1>0 DEF CleanSeats, CleanTickets, TypeOK, CleanerState
    <2>3. CleanOrders \/ CleanCrash => cleaner'.pc # "release"
      BY DEF CleanOrders, CleanCrash, IdleCleaner
    <2>4. CleanNothing \/ (\E o \in Orders : Tick(o)) \/ UNCHANGED vars => UNCHANGED cleaner
      BY DEF CleanNothing, Tick, vars
    <2> QED BY <2>1, <2>2, <2>3, <2>4 DEF Next, CleanStep
  <1>2. overdue \subseteq overdue'
    BY DEF Next, NewCall, CallStep, CleanStep, LockReadShowtime, GetOrderExpired, CancelOrder,
           PayReadOrder, ConfirmReadOrder, LockReadSeats, LockCommit, LockAbort, ReleaseRead,
           ReleaseCommit, SetStatus, PayInsert, PaySetStatus, ConfirmSuccess, ConfirmFailed,
           CallCrash, CleanFindSeats, CleanNothing, CleanSeats, CleanTickets, CleanOrders,
           CleanCrash, Tick, vars
  <1>3. ASSUME CleanFindSeats PROVE ListExpired'
    BY <1>3 DEF CleanFindSeats, seatVars, ListExpired, ExpiredSeats, LockExpired, LockedIn, HoldInv
  <1>4. ASSUME UNCHANGED cleaner PROVE ListExpired'
    BY <1>0, <1>2, <1>4, NeverRelocked DEF HoldInv, ListExpired, CleanerInv
  <1>5. ASSUME cleaner'.pc # "release" PROVE ListExpired'
    BY <1>5 DEF ListExpired
  <1>6. ListExpired'
    BY <1>1, <1>3, <1>4, <1>5 DEF HoldInv
  <1> QED BY <1>0, <1>6 DEF HoldInv

LEMMA InitHoldInv == Init => HoldInv
  BY InitSaleInv DEF Init, HoldInv, ListExpired, IdleCleaner

\* One step of Booking ends an unexpired lock only by a call about its order.
StepRespectsHold ==
  \A s \in Seats :
    seatStatus[s] = "LOCKED" /\ lockedBy[s] \notin overdue
      /\ <<seatStatus[s], lockedBy[s]>>' # <<seatStatus[s], lockedBy[s]>>
    => \E c \in Calls : call[c].order = lockedBy[s] /\ call'[c] # call[c]

LEMMA NextRespectsHold == HoldInv /\ [Next]_vars => StepRespectsHold
  <1> SUFFICES ASSUME HoldInv, [Next]_vars, NEW s \in Seats,
                      seatStatus[s] = "LOCKED", lockedBy[s] \notin overdue,
                      <<seatStatus[s], lockedBy[s]>>' # <<seatStatus[s], lockedBy[s]>>
               PROVE  \E c \in Calls : call[c].order = lockedBy[s] /\ call'[c] # call[c]
    BY DEF StepRespectsHold
  <1>0. SaleInv /\ TypeOK /\ RowInv /\ s \in Ticketed
    BY DEF HoldInv, SaleInv, RowInv
  <1>1. \A o \in Orders : ticket[o][s] # "none" => lockedBy[s] = o
    BY <1>0 DEF RowInv, TicketsOf
  <1>2. ASSUME NEW c \in Calls, LockCommit(c) PROVE FALSE
    BY <1>0, <1>2 DEF LockCommit, TicketSeatIdUnique
  <1>3. ASSUME NEW c \in Calls, NEW o \in Orders, Releases(c, o)
        PROVE  call[c].order = lockedBy[s] /\ call'[c] # call[c]
    BY <1>0, <1>1, <1>3, ReleaseRowsEffect DEF Releases
  <1>4. ASSUME NEW c \in Calls, NEW o \in Orders, Confirms(c, o)
        PROVE  call[c].order = lockedBy[s] /\ call'[c] # call[c]
    BY <1>0, <1>1, <1>4, ConfirmRowsEffect DEF Confirms
  <1>5. ASSUME CleanSeats PROVE FALSE
    BY <1>5 DEF CleanSeats, SetSeats, HoldInv, ListExpired
  <1>6. ASSUME CleanTickets \/ UNCHANGED <<rowVars, showtime>> PROVE FALSE
    BY <1>6 DEF CleanTickets, seatVars, rowVars
  <1> QED BY <1>0, <1>2, <1>3, <1>4, <1>5, <1>6, StepKinds

\* An unexpired lock ends only by a call about its order: no other booking and
\* no cleanup run, however old its list of seats, takes the seat.
THEOREM HoldsRespected == Spec => HoldRespected
  <1>1. HoldInv /\ [Next]_vars =>
          [\A s \in Seats :
             seatStatus[s] = "LOCKED" /\ lockedBy[s] \notin overdue
               /\ <<seatStatus[s], lockedBy[s]>>' # <<seatStatus[s], lockedBy[s]>>
             => \E c \in Calls : call[c].order = lockedBy[s] /\ call'[c] # call[c]]_vars
    BY NextRespectsHold DEF StepRespectsHold
  <1> QED BY <1>1, InitHoldInv, NextHoldInv, PTL DEF Spec, HoldRespected
-----------------------------------------------------------------------------
(***************************************************************************)
(* Booking implements TicketSale.                                          *)
(***************************************************************************)
\* The phase of an order, read off any of its tickets.
LEMMA PhaseOfTickets ==
  ASSUME RowInv, NEW o \in Orders
  PROVE  /\ TicketsOf(o) = {} <=> PhaseOf(o) = "none"
         /\ \A s \in TicketsOf(o) :
              PhaseOf(o) = CASE ticket[o][s] = "CONFIRMED" -> "sold"
                             [] ticket[o][s] = "RESERVED"  -> "held"
                             [] OTHER                      -> "released"
  <1>1. TicketsOf(o) = {} <=> PhaseOf(o) = "none"
    BY DEF PhaseOf
  <1>2. ASSUME NEW s \in TicketsOf(o)
        PROVE  /\ TicketsIn(o, {"CONFIRMED"}) # {} <=> ticket[o][s] = "CONFIRMED"
               /\ TicketsIn(o, {"RESERVED"}) # {} <=> ticket[o][s] = "RESERVED"
    BY <1>2 DEF RowInv, OrderTicketsUniform, TicketsIn, TicketsOf
  <1> QED BY <1>1, <1>2 DEF PhaseOf

\* A step under which no order's tickets change phase is a stutter.
LEMMA QuietSale ==
  ASSUME \A o \in Orders : TicketsOf(o)' = TicketsOf(o),
         \A o \in Orders : PhaseOf(o)' = PhaseOf(o)
  PROVE  UNCHANGED Sale!vars
  BY DEF Sale!vars

LEMMA LockIsHold ==
  ASSUME SaleInv, SaleInv', NEW c \in Calls, LockCommit(c)
  PROVE  Sale!Next
  <1>1. PICK o \in Orders, S \in SUBSET Seats : o = call[c].order /\ S = call[c].seats /\ S # {}
    BY DEF SaleInv, TypeOK, CallTypeOK, CallState, LockCommit, At
  <1>2. /\ TicketsOf(o) = {} /\ RowInv /\ RowInv'
        /\ \A p \in Orders : TicketsOf(p)' = IF p = o THEN S ELSE TicketsOf(p)
    BY <1>1, LockRowsInv DEF SaleInv
  <1>3. \A p \in Orders, s \in Seats :
          ticket'[p][s] = IF p = o /\ s \in S THEN "RESERVED" ELSE ticket[p][s]
    BY <1>1 DEF LockCommit, SaleInv, TypeOK
  <1>4. PhaseOf(o) = "none"
    BY <1>2, PhaseOfTickets
  <1>5. PhaseOf(o)' = "held"
    <2>1. TicketsOf(o)' # {} /\ TicketsIn(o, {"CONFIRMED"})' = {} /\ TicketsIn(o, {"RESERVED"})' # {}
      BY <1>1, <1>2, <1>3 DEF TicketsIn, TicketsOf
    <2> QED BY <2>1 DEF PhaseOf
  <1>6. \A p \in Orders \ {o} : PhaseOf(p)' = PhaseOf(p)
    <2>1. \A p \in Orders \ {o} : \A st : TicketsIn(p, st)' = TicketsIn(p, st)
      BY <1>3 DEF TicketsIn
    <2> QED BY <1>2, <2>1 DEF PhaseOf
  <1>7. \A p \in Orders : TicketsOf(p) \cap S = {}
    BY <1>1 DEF LockCommit, TicketSeatIdUnique, Ticketed, TicketsOf
  <1>8. Sale!Hold(o, S)
    BY <1>1, <1>2, <1>4, <1>5, <1>6, <1>7 DEF Sale!Hold
  <1> QED BY <1>1, <1>8 DEF Sale!Next

LEMMA ReleasesIsRelease ==
  ASSUME SaleInv, SaleInv', NEW o \in Orders, ReleaseRows(o)
  PROVE  Sale!Next \/ UNCHANGED Sale!vars
  <1>0. TypeOK /\ TypeOK' /\ RowInv /\ RowInv'
    BY DEF SaleInv
  <1>1. \A p \in Orders, s \in Seats :
          ticket'[p][s] = IF p = o /\ ticket[p][s] = "RESERVED" THEN "CANCELLED" ELSE ticket[p][s]
    BY <1>0, ReleaseRowsEffect
  <1>2. \A p \in Orders : TicketsOf(p)' = TicketsOf(p)
    BY <1>0, ReleaseRowsInv
  <1>3. \A p \in Orders \ {o} : PhaseOf(p)' = PhaseOf(p)
    <2>1. \A p \in Orders \ {o} : \A st : TicketsIn(p, st)' = TicketsIn(p, st)
      BY <1>1 DEF TicketsIn
    <2> QED BY <1>2, <2>1 DEF PhaseOf
  <1>4. CASE PhaseOf(o) = "held"
    <2>1. PhaseOf(o)' = "released"
      <3>1. TicketsOf(o) # {} /\ TicketsIn(o, {"CONFIRMED"}) = {}
        BY <1>4 DEF PhaseOf
      <3>2. TicketsOf(o)' # {} /\ TicketsIn(o, {"CONFIRMED"})' = {} /\ TicketsIn(o, {"RESERVED"})' = {}
        BY <1>1, <1>2, <3>1 DEF TicketsIn
      <3> QED BY <3>2 DEF PhaseOf
    <2>2. Sale!Release({o})
      BY <1>2, <1>3, <1>4, <2>1 DEF Sale!Release
    <2> QED BY <2>2 DEF Sale!Next
  <1>5. CASE PhaseOf(o) # "held"
    <2>1. \A s \in Seats : ticket[o][s] # "RESERVED"
      BY <1>0, <1>5, PhaseOfTickets DEF TicketsOf
    <2>2. \A st : TicketsIn(o, st)' = TicketsIn(o, st)
      BY <1>1, <2>1 DEF TicketsIn
    <2>3. PhaseOf(o)' = PhaseOf(o)
      BY <1>2, <2>2 DEF PhaseOf
    <2> QED BY <1>2, <1>3, <2>3, QuietSale
  <1> QED BY <1>4, <1>5

LEMMA ConfirmsIsSell ==
  ASSUME SaleInv, SaleInv', NEW o \in Orders, TicketsOf(o) # {},
         SetTickets(o, TicketStatus, "CONFIRMED"), SetSeats(TicketsOf(o), "BOOKED")
  PROVE  Sale!Next \/ UNCHANGED Sale!vars
  <1>0. TypeOK /\ TypeOK' /\ RowInv /\ RowInv'
    BY DEF SaleInv
  <1>1. \A p \in Orders, s \in Seats :
          ticket'[p][s] = IF p = o /\ ticket[p][s] # "none" THEN "CONFIRMED" ELSE ticket[p][s]
    BY <1>0, ConfirmRowsEffect
  <1>2. \A p \in Orders : TicketsOf(p)' = TicketsOf(p)
    BY <1>0, ConfirmRowsInv
  <1>3. \A p \in Orders \ {o} : PhaseOf(p)' = PhaseOf(p)
    <2>1. \A p \in Orders \ {o} : \A st : TicketsIn(p, st)' = TicketsIn(p, st)
      BY <1>1 DEF TicketsIn
    <2> QED BY <1>2, <2>1 DEF PhaseOf
  <1>4. PhaseOf(o)' = "sold"
    <2>1. TicketsOf(o)' # {} /\ TicketsIn(o, {"CONFIRMED"})' # {}
      BY <1>1, <1>2 DEF TicketsIn, TicketsOf
    <2> QED BY <2>1 DEF PhaseOf
  <1>5. CASE PhaseOf(o) = "sold"
    BY <1>2, <1>3, <1>4, <1>5, QuietSale
  <1>6. CASE PhaseOf(o) # "sold"
    <2>1. PhaseOf(o) \in {"held", "released"}
      BY <1>6 DEF PhaseOf
    <2>2. Sale!Sell(o)
      BY <1>2, <1>3, <1>4, <2>1 DEF Sale!Sell
    <2> QED BY <2>2 DEF Sale!Next
  <1> QED BY <1>5, <1>6

LEMMA CleanTicketsIsRelease ==
  ASSUME SaleInv, SaleInv', CleanTickets
  PROVE  Sale!Next
  <1>0. TypeOK /\ TypeOK' /\ RowInv /\ RowInv' /\ CleanerInv
    BY DEF SaleInv
  <1> DEFINE S == cleaner.seats
             O == {o \in Orders : PhaseOf(o) = "held" /\ TicketsOf(o) \cap S # {}}
  <1>1. \A p \in Orders, s \in Seats :
          ticket'[p][s] = IF s \in S /\ ticket[p][s] = "RESERVED" THEN "CANCELLED" ELSE ticket[p][s]
    BY <1>0 DEF CleanTickets, TypeOK
  <1>2. \A p \in Orders : TicketsOf(p)' = TicketsOf(p)
    BY <1>0, CleanTicketsRowsInv
  <1>3. ASSUME NEW p \in Orders, p \in O PROVE PhaseOf(p)' = "released"
    <2>1. TicketsOf(p) # {} /\ TicketsIn(p, {"CONFIRMED"}) = {} /\ TicketsOf(p) \subseteq S
      BY <1>0, <1>3 DEF PhaseOf, CleanerInv
    <2>2. TicketsOf(p)' # {} /\ TicketsIn(p, {"CONFIRMED"})' = {} /\ TicketsIn(p, {"RESERVED"})' = {}
      BY <1>1, <1>2, <2>1 DEF TicketsIn, TicketsOf
    <2> QED BY <2>2 DEF PhaseOf
  <1>4. ASSUME NEW p \in Orders, p \notin O PROVE PhaseOf(p)' = PhaseOf(p)
    <2>1. \A s \in S \cap Seats : ticket[p][s] # "RESERVED"
      BY <1>0, <1>4, PhaseOfTickets DEF TicketsOf
    <2>2. \A st : TicketsIn(p, st)' = TicketsIn(p, st)
      BY <1>1, <2>1 DEF TicketsIn
    <2> QED BY <1>2, <2>2 DEF PhaseOf
  <1>5. \E Q \in SUBSET Orders : Q = O
    OBVIOUS
  <1>6. PICK Q \in SUBSET Orders : Q = O
    BY <1>5
  <1>7. \A p \in Q : PhaseOf(p) = "held"
    BY <1>6
  <1>8. \A p \in Orders : PhaseOf(p)' = IF p \in Q THEN "released" ELSE PhaseOf(p)
    BY <1>3, <1>4, <1>6
  <1> HIDE DEF O
  <1>9. Sale!Release(Q)
    BY <1>2, <1>7, <1>8 DEF Sale!Release
  <1> QED BY <1>9 DEF Sale!Next

\* The booking code implements the ticket sale: claims are exclusive and
\* atomic, an order's seats move together, and a sale is final.
THEOREM BookingImplementsSale == Spec => ImplementsSale
  <1>1. Init => Sale!Init
    <2> SUFFICES ASSUME Init PROVE Sale!Init OBVIOUS
    <2>1. \A o \in Orders : TicketsOf(o) = {}
      BY DEF Init, TicketsOf
    <2>2. \A o \in Orders : PhaseOf(o) = "none"
      BY <2>1 DEF PhaseOf
    <2> QED BY <2>1, <2>2 DEF Sale!Init
  <1>2. SaleInv /\ SaleInv' /\ [Next]_vars => [Sale!Next]_(Sale!vars)
    <2> SUFFICES ASSUME SaleInv, SaleInv', [Next]_vars
                 PROVE  Sale!Next \/ UNCHANGED Sale!vars
      OBVIOUS
    <2>1. ASSUME UNCHANGED rowVars PROVE UNCHANGED Sale!vars
      <3>1. \A o \in Orders : \A st : TicketsIn(o, st)' = TicketsIn(o, st)
        BY <2>1, QuietRows DEF SaleInv
      <3>2. \A o \in Orders : TicketsOf(o)' = TicketsOf(o)
        BY <2>1, QuietRows DEF SaleInv
      <3>3. \A o \in Orders : PhaseOf(o)' = PhaseOf(o)
        BY <3>1, <3>2 DEF PhaseOf
      <3> QED BY <3>2, <3>3, QuietSale
    <2>2. ASSUME CleanSeats PROVE UNCHANGED Sale!vars
      <3>1. UNCHANGED ticket
        BY <2>2 DEF CleanSeats
      <3>2. \A o \in Orders : TicketsOf(o)' = TicketsOf(o) /\ PhaseOf(o)' = PhaseOf(o)
        BY <3>1 DEF TicketsOf, TicketsIn, PhaseOf
      <3> QED BY <3>2, QuietSale
    <2> QED BY <2>1, <2>2, StepKinds, LockIsHold, ReleasesIsRelease, ConfirmsIsSell,
               CleanTicketsIsRelease DEF Releases, Confirms
  <1> QED BY <1>1, <1>2, SaleInvariant, PTL DEF Spec, ImplementsSale, Sale!Spec

-----------------------------------------------------------------------------
(***************************************************************************)
(* The seat map: what the sale guarantees when looking at it frees seats.  *)
(***************************************************************************)
\* A view frees what was overdue when it began, so what still is.
ViewInv ==
  /\ view \in [Viewers -> [on : BOOLEAN, now : SUBSET Orders]]
  /\ \A v \in Viewers : view[v].now \subseteq overdue

MapInv == HoldInv /\ ViewInv

-----------------------------------------------------------------------------
(***************************************************************************)
(* Freeing the expired seats.                                              *)
(***************************************************************************)
LEMMA FreedSeats ==
  ASSUME TypeOK, RowInv, NEW v \in Viewers, FreeExpired(v)
  PROVE  /\ UNCHANGED <<ticket, orderStatus, overdue, showtime, payments, revenue, wallet,
                        requests, call, cleaner>>
         /\ ExpiredAt(view[v].now) \subseteq Ticketed
         /\ \A o \in Orders : \A s, t \in TicketsOf(o) :
              s \in ExpiredAt(view[v].now) => t \in ExpiredAt(view[v].now)
         /\ \A s \in Seats : IF s \in ExpiredAt(view[v].now)
                             THEN seatStatus'[s] = "AVAILABLE" /\ lockedBy'[s] = NoOrder
                             ELSE seatStatus'[s] = seatStatus[s] /\ lockedBy'[s] = lockedBy[s]
  <1>1. UNCHANGED <<ticket, orderStatus, overdue, showtime, payments, revenue, wallet,
                    requests, call, cleaner>>
    BY DEF FreeExpired, moneyVars
  <1>2. \A s \in Seats : IF s \in ExpiredAt(view[v].now)
                         THEN seatStatus'[s] = "AVAILABLE" /\ lockedBy'[s] = NoOrder
                         ELSE seatStatus'[s] = seatStatus[s] /\ lockedBy'[s] = lockedBy[s]
    BY DEF FreeExpired, SetSeats
  <1>3. ExpiredAt(view[v].now) \subseteq Ticketed
    BY DEF ExpiredAt, LockedIn, RowInv
  <1>4. ASSUME NEW o \in Orders, NEW s \in TicketsOf(o), NEW t \in TicketsOf(o),
               s \in ExpiredAt(view[v].now)
        PROVE  t \in ExpiredAt(view[v].now)
    <2>1. s \in Seats /\ t \in Seats /\ seatStatus[t] = seatStatus[s]
      BY DEF RowInv, TicketsOf
    <2>2. lockedBy[s] = o /\ lockedBy[t] = o
      BY <1>4, <2>1 DEF RowInv, ExpiredAt, LockedIn
    <2> QED BY <1>4, <2>1, <2>2 DEF ExpiredAt, LockedIn
  <1> QED BY <1>1, <1>2, <1>3, <1>4

LEMMA FreeExpiredTypeOK ==
  ASSUME TypeOK, NEW v \in Viewers, FreeExpired(v)
  PROVE  TypeOK'
  <1>1. UNCHANGED <<ticket, orderStatus, overdue, showtime, payments, revenue, wallet,
                    requests, call, cleaner>>
    BY DEF FreeExpired, moneyVars
  <1>2. seatStatus' \in [Seats -> SeatStatus] /\ lockedBy' \in [Seats -> Orders \cup {NoOrder}]
    BY DEF TypeOK, FreeExpired, SetSeats, SeatStatus
  <1>3. \A c \in Calls : CallTypeOK(c)'
    BY <1>1 DEF TypeOK, CallTypeOK
  <1> QED BY <1>1, <1>2, <1>3 DEF TypeOK

LEMMA FreeExpiredRowsInv ==
  ASSUME TypeOK, RowInv, NEW v \in Viewers, FreeExpired(v)
  PROVE  RowInv'
  <1> DEFINE S == ExpiredAt(view[v].now)
  <1>1. /\ UNCHANGED ticket
        /\ S \subseteq Ticketed
        /\ \A o \in Orders : \A s, t \in TicketsOf(o) : s \in S => t \in S
        /\ \A s \in Seats : IF s \in S
                            THEN seatStatus'[s] = "AVAILABLE" /\ lockedBy'[s] = NoOrder
                            ELSE seatStatus'[s] = seatStatus[s] /\ lockedBy'[s] = lockedBy[s]
    BY FreedSeats
  <1> HIDE DEF S
  <1>2. (\A o \in Orders : TicketsOf(o)' = TicketsOf(o)) /\ Ticketed' = Ticketed
    BY <1>1 DEF TicketsOf, Ticketed
  <1>3. OneTicketPerSeat' /\ OrderTicketsUniform'
    BY <1>1, <1>2 DEF RowInv, OneTicketPerSeat, OrderTicketsUniform
  <1>4. SeatStatusHasItsTicket'
    BY <1>1 DEF RowInv, SeatStatusHasItsTicket
  <1>5. /\ \A o \in Orders, s \in Seats : ticket'[o][s] \in {"none", "RESERVED", "CONFIRMED", "CANCELLED"}
        /\ \A o \in Orders : \A s \in TicketsOf(o)' :
             \/ seatStatus'[s] = "LOCKED" /\ lockedBy'[s] = o
             \/ seatStatus'[s] \in {"AVAILABLE", "BOOKED"} /\ lockedBy'[s] = NoOrder
    BY <1>1, <1>2 DEF RowInv, TicketsOf
  <1>6. \A s \in Seats \ Ticketed' :
          seatStatus'[s] \in {"AVAILABLE", "MAINTENANCE"} /\ lockedBy'[s] = NoOrder
    BY <1>1, <1>2 DEF RowInv
  <1>7. \A o \in Orders : \A s, t \in TicketsOf(o)' : seatStatus'[s] = seatStatus'[t]
    BY <1>1, <1>2 DEF RowInv, TicketsOf
  <1> QED BY <1>3, <1>4, <1>5, <1>6, <1>7 DEF RowInv

LEMMA FreeExpiredHoldInv ==
  ASSUME HoldInv, NEW v \in Viewers, FreeExpired(v)
  PROVE  HoldInv'
  <1>0. TypeOK /\ RowInv /\ OrderInv /\ CallInv /\ CleanerInv
    BY DEF HoldInv, SaleInv
  <1>1. /\ UNCHANGED <<ticket, orderStatus, overdue, revenue, call, cleaner>>
        /\ \A s \in Seats : seatStatus'[s] = "LOCKED" =>
             seatStatus[s] = "LOCKED" /\ lockedBy'[s] = lockedBy[s]
    BY <1>0, FreedSeats
  <1>2. TypeOK' /\ RowInv'
    BY <1>0, FreeExpiredTypeOK, FreeExpiredRowsInv
  <1>3. SameOrders /\ Ticketed' = Ticketed
    BY <1>1 DEF SameOrders, TicketsOf, Ticketed
  <1>4. OrderInv'
    BY <1>0, <1>1, <1>3 DEF OrderInv, PaidOrderKeepsTickets, TicketsIn, SameOrders
  <1>5. CallInv'
    BY <1>0, <1>1, <1>3, CallFrame
  <1>6. CleanerInv' /\ ListExpired'
    BY <1>0, <1>1, <1>3 DEF CleanerInv, HoldInv, ListExpired, SameOrders, TypeOK, CleanerState
  <1> QED BY <1>2, <1>4, <1>5, <1>6 DEF HoldInv, SaleInv

-----------------------------------------------------------------------------
(***************************************************************************)
(* Every step.                                                             *)
(***************************************************************************)
LEMMA InitMapInv == MapInit => MapInv
  BY InitHoldInv DEF MapInit, MapInv, ViewInv, NotViewing


LEMMA TimePasses == [Next]_vars => overdue \subseteq overdue'
  BY DEF Next, NewCall, CallStep, CleanStep, LockReadShowtime, GetOrderExpired, CancelOrder,
         PayReadOrder, ConfirmReadOrder, LockReadSeats, LockCommit, LockAbort, ReleaseRead,
         ReleaseCommit, SetStatus, PayInsert, PaySetStatus, ConfirmSuccess, ConfirmFailed,
         CallCrash, CleanFindSeats, CleanNothing, CleanSeats, CleanTickets, CleanOrders,
         CleanCrash, Tick, vars

LEMMA NextMapInv == MapInv /\ [MapNext]_mapVars => MapInv'
  <1> SUFFICES ASSUME MapInv, [MapNext]_mapVars PROVE MapInv' OBVIOUS
  <1>0. HoldInv /\ ViewInv /\ TypeOK
    BY DEF MapInv, HoldInv, SaleInv
  <1>1. CASE [Next]_vars /\ UNCHANGED view
    BY <1>0, <1>1, NextHoldInv, TimePasses DEF MapInv, ViewInv
  <1>2. ASSUME NEW v \in Viewers, ViewMap(v) PROVE MapInv'
    <2>1. HoldInv'
      BY <1>0, <1>2, NextHoldInv DEF ViewMap
    <2>2. ViewInv'
      BY <1>0, <1>2 DEF ViewMap, ViewInv, TypeOK, vars
    <2> QED BY <2>1, <2>2 DEF MapInv
  <1>3. ASSUME NEW v \in Viewers, FreeExpired(v) PROVE MapInv'
    <2>1. HoldInv'
      BY <1>0, <1>3, FreeExpiredHoldInv
    <2>2. ViewInv'
      BY <1>0, <1>3 DEF FreeExpired, ViewInv, NotViewing
    <2> QED BY <2>1, <2>2 DEF MapInv
  <1> QED BY <1>1, <1>2, <1>3 DEF MapNext, mapVars

\* The rows, the calls, the job and the open views always agree as MapInv says.
THEOREM MapInvariant == MapSpec => []MapInv
  BY InitMapInv, NextMapInv, PTL DEF MapSpec

\* No seat is sold twice, no order is cut in two and no paid order loses a
\* ticket, however many seat maps are looked at meanwhile.
THEOREM SaleKept == MapSpec => []SaleSurvivesViews
  <1>1. MapInv => SaleSurvivesViews
    BY DEF MapInv, HoldInv, SaleInv, RowInv, OrderInv, SaleSurvivesViews
  <1> QED BY <1>1, MapInvariant, PTL

\* An unexpired lock ends only by a call about its order: a view never takes
\* the seat, however long ago it read the clock.
THEOREM HoldsKept == MapSpec => HoldSurvivesViews
  <1>1. MapInv /\ [MapNext]_mapVars =>
          [\A s \in Seats :
             seatStatus[s] = "LOCKED" /\ lockedBy[s] \notin overdue
               /\ <<seatStatus[s], lockedBy[s]>>' # <<seatStatus[s], lockedBy[s]>>
             => \E c \in Calls : call[c].order = lockedBy[s] /\ call'[c] # call[c]]_mapVars
    <2> SUFFICES ASSUME MapInv, [MapNext]_mapVars
                 PROVE  StepRespectsHold
      BY DEF StepRespectsHold
    <2>0. HoldInv /\ ViewInv /\ TypeOK /\ RowInv
      BY DEF MapInv, HoldInv, SaleInv
    <2>1. CASE [Next]_vars
      BY <2>0, <2>1, NextRespectsHold
    <2>2. ASSUME NEW v \in Viewers, FreeExpired(v) PROVE StepRespectsHold
      <3>1. \A s \in Seats : lockedBy[s] \notin overdue => s \notin ExpiredAt(view[v].now)
        BY <2>0 DEF ViewInv, ExpiredAt
      <3>2. \A s \in Seats : IF s \in ExpiredAt(view[v].now)
                             THEN seatStatus'[s] = "AVAILABLE" /\ lockedBy'[s] = NoOrder
                             ELSE seatStatus'[s] = seatStatus[s] /\ lockedBy'[s] = lockedBy[s]
        BY <2>0, <2>2, FreedSeats
      <3> QED BY <3>1, <3>2 DEF StepRespectsHold
    <2>3. ASSUME NEW v \in Viewers, ViewMap(v) PROVE [Next]_vars
      BY <2>3 DEF ViewMap
    <2> QED BY <2>1, <2>2, <2>3 DEF MapNext, mapVars
  <1> QED BY <1>1, InitMapInv, NextMapInv, PTL DEF MapSpec, HoldSurvivesViews

=============================================================================
