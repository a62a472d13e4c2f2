------------------------------ MODULE BoxOffice ------------------------------
(***************************************************************************)
(* The partner's side of a showtime, composed with Booking: updateShowtime,*)
(* cancelShowtime, updateSeat and checkInTicket work on the rows that      *)
(* customers' calls, payments and the cleanup job are changing.            *)
(*                                                                         *)
(* None of these operations uses a transaction: every statement is a step. *)
(* A ticket is named by its seat (OneTicketPerSeat).                       *)
(***************************************************************************)
EXTENDS Booking

CONSTANTS
  PartnerCalls,     \* API calls of the partner's staff in flight at the same time
  NoSeat,           \* a call that is not at a particular seat
  MaxPartnerCalls   \* bound of the model: calls the staff make

BoxOfficeAssumption ==
  /\ NoSeat \notin Seats
  /\ MaxPartnerCalls \in Nat
  /\ IsFiniteSet(PartnerCalls)

VARIABLES
  scanned,          \* the seats whose ticket has a CheckIn row
  refunds,          \* REFUND transactions of the ticket of each seat
  made,             \* the calls the staff have made so far
  box,              \* where each of the staff's calls is
  overlapped        \* whether two of the staff's calls have overlapped (history)

boxVars  == <<scanned, refunds, made, box, overlapped>>
allVars  == <<vars, boxVars>>
saleVars == <<overdue, payments, revenue, requests, call, cleaner, orderStatus>>

\* A call's pc names the statement it executes next.
BoxPC == {"idle", "updateShowtime", "readTickets", "refundTicket", "freeSeat", "debitWallet",
          "insertRefund", "insertCheckIn", "markUsed"}
BoxState == [pc     : BoxPC,
             todo   : SUBSET Seats,                      \* sold tickets still to refund
             seat   : Seats \cup {NoSeat},               \* the ticket at hand
             status : ShowtimeStatus \cup {"none"}]      \* the status asked for
IdleBox == [pc |-> "idle", todo |-> {}, seat |-> NoSeat, status |-> "none"]

BoxStarts(b) ==
  /\ box[b] = IdleBox
  /\ made < MaxPartnerCalls
  /\ made' = made + 1
  /\ overlapped' = (overlapped \/ \E d \in PartnerCalls : box[d] # IdleBox)

BoxBegin(b, state) ==
  /\ BoxStarts(b)
  /\ box' = [box EXCEPT ![b] = state]

BoxAt(b, pc)   == box[b].pc = pc
BoxGoto(b, pc) == box' = [box EXCEPT ![b].pc = pc] /\ UNCHANGED <<made, overlapped>>
BoxReturn(b)   == box' = [box EXCEPT ![b] = IdleBox] /\ UNCHANGED <<made, overlapped>>

TicketStatusOf(s) == {ticket[o][s] : o \in Orders} \ {"none"}

SoldSeats == {s \in Seats : TicketStatusOf(s) \cap {"CONFIRMED", "RESERVED"} # {}}

\* ticketRepo.updateStatus on the ticket of seat s.
SetTicketOf(s, status) ==
  ticket' = [o \in Orders |-> [t \in Seats |->
               IF t = s /\ ticket[o][t] # "none" THEN status ELSE ticket[o][t]]]

\* seatRepo.updateStatus without lockedUntil and lockedBy leaves them alone.
SetSeatStatus(s, status) ==
  /\ seatStatus' = [seatStatus EXCEPT ![s] = status]
  /\ UNCHANGED lockedBy

BoxInit ==
  /\ Init
  /\ scanned = {}
  /\ refunds = [s \in Seats |-> 0]
  /\ made = 0
  /\ box = [b \in PartnerCalls |-> IdleBox]
  /\ overlapped = FALSE

-----------------------------------------------------------------------------
(* updateShowtime: read, then write what the call asks for.                *)
UpdateShowtime(b, status) ==
  /\ showtime.status = "SCHEDULED"
  /\ BoxBegin(b, [IdleBox EXCEPT !.pc = "updateShowtime", !.status = status])
  /\ UNCHANGED <<vars, scanned, refunds>>

WriteShowtime(b) ==
  /\ BoxAt(b, "updateShowtime")
  /\ showtime' = [showtime EXCEPT !.status = box[b].status]
  /\ BoxReturn(b)
  /\ UNCHANGED <<seatVars, ticket, saleVars, wallet, scanned, refunds>>

(* cancelShowtime: the sold tickets are read once and refunded one by one. *)
CancelShowtime(b) ==
  /\ showtime.status \notin {"CANCELLED", "ENDED"}
  /\ BoxBegin(b, [IdleBox EXCEPT !.pc = "readTickets"])
  /\ UNCHANGED <<vars, scanned, refunds>>

ReadTickets(b) ==
  /\ BoxAt(b, "readTickets")
  /\ box' = [box EXCEPT ![b].pc = "refundTicket", ![b].todo = SoldSeats]
  /\ UNCHANGED <<vars, scanned, refunds, made, overlapped>>

RefundTicket(b, s) ==
  /\ BoxAt(b, "refundTicket")
  /\ box' = [box EXCEPT ![b].pc = "freeSeat", ![b].todo = @ \ {s}, ![b].seat = s]
  /\ SetTicketOf(s, "REFUNDED")
  /\ UNCHANGED <<seatVars, saleVars, showtime, wallet, scanned, refunds, made, overlapped>>

FreeSeat(b) ==
  /\ BoxAt(b, "freeSeat")
  /\ SetSeatStatus(box[b].seat, "AVAILABLE")
  /\ BoxGoto(b, IF PartnerTotal[{box[b].seat}] > 0 THEN "debitWallet" ELSE "refundTicket")
  /\ UNCHANGED <<ticket, saleVars, showtime, wallet, scanned, refunds>>

\* decrementBalance without the running total.
DebitRefundOnly(amount) == wallet' = [wallet EXCEPT !.balance = @ - amount]

DebitRefund(amount) ==
  wallet' = [wallet EXCEPT !.balance = @ - amount, !.totalWithdrawn = @ + amount]

DebitWallet(b) ==
  /\ BoxAt(b, "debitWallet")
  /\ DebitRefund(PartnerTotal[{box[b].seat}])
  /\ BoxGoto(b, "insertRefund")
  /\ UNCHANGED <<seatVars, ticket, saleVars, showtime, scanned, refunds>>

InsertRefund(b) ==
  /\ BoxAt(b, "insertRefund")
  /\ refunds' = [refunds EXCEPT ![box[b].seat] = @ + 1]
  /\ BoxGoto(b, "refundTicket")
  /\ UNCHANGED <<vars, scanned>>

SetCancelled(b) ==
  /\ BoxAt(b, "refundTicket")
  /\ box[b].todo = {}
  /\ showtime' = [showtime EXCEPT !.status = "CANCELLED"]
  /\ BoxReturn(b)
  /\ UNCHANGED <<seatVars, ticket, saleVars, wallet, scanned, refunds>>

(* updateSeat: one statement; the read before it decides nothing.          *)
UpdateSeat(b, s, status) ==
  /\ BoxStarts(b)
  /\ SetSeatStatus(s, status)
  /\ UNCHANGED <<ticket, saleVars, showtime, wallet, scanned, refunds, box>>

(* checkInTicket: two reads, the CheckIn row (ticketId is unique), then    *)
(* the status of the ticket.                                               *)
\* The ticket is marked without its check-in.
CheckInWithoutRow(b, s) ==
  /\ TicketStatusOf(s) = {"CONFIRMED"}
  /\ BoxBegin(b, [IdleBox EXCEPT !.pc = "markUsed", !.seat = s])
  /\ UNCHANGED <<vars, scanned, refunds>>

CheckIn(b, s) ==
  /\ TicketStatusOf(s) = {"CONFIRMED"}
  /\ s \notin scanned
  /\ BoxBegin(b, [IdleBox EXCEPT !.pc = "insertCheckIn", !.seat = s])
  /\ UNCHANGED <<vars, scanned, refunds>>

InsertCheckIn(b) ==
  /\ BoxAt(b, "insertCheckIn")
  /\ IF box[b].seat \in scanned THEN BoxReturn(b) ELSE BoxGoto(b, "markUsed")
  /\ scanned' = scanned \cup {box[b].seat}
  /\ UNCHANGED <<vars, refunds>>

MarkUsed(b) ==
  /\ BoxAt(b, "markUsed")
  /\ SetTicketOf(box[b].seat, "USED")
  /\ BoxReturn(b)
  /\ UNCHANGED <<seatVars, saleVars, showtime, wallet, scanned, refunds>>

\* The process dies or the database refuses the next statement.
BoxCrash(b) ==
  /\ box[b] # IdleBox
  /\ BoxReturn(b)
  /\ UNCHANGED <<vars, scanned, refunds>>

-----------------------------------------------------------------------------
BoxStep(b) ==
  \/ \E status \in ShowtimeStatus : UpdateShowtime(b, status)
  \/ WriteShowtime(b)
  \/ CancelShowtime(b)
  \/ ReadTickets(b)
  \/ \E s \in box[b].todo : RefundTicket(b, s)
  \/ FreeSeat(b) \/ DebitWallet(b) \/ InsertRefund(b) \/ SetCancelled(b)
  \/ \E s \in Seats, status \in SeatStatus : UpdateSeat(b, s, status)
  \/ \E s \in Seats : CheckIn(b, s)
  \/ InsertCheckIn(b) \/ MarkUsed(b) \/ BoxCrash(b)

BoxNext ==
  \/ Next /\ UNCHANGED boxVars
  \/ \E b \in PartnerCalls : BoxStep(b)

BoxSpec == BoxInit /\ [][BoxNext]_allVars

-----------------------------------------------------------------------------
(* Properties.                                                             *)
BoxTypeOK ==
  /\ scanned \subseteq Seats
  /\ refunds \in [Seats -> Nat]
  /\ made \in 0..MaxPartnerCalls
  /\ box \in [PartnerCalls -> BoxState]
  /\ overlapped \in BOOLEAN
  /\ \A b \in PartnerCalls :
       box[b].pc \in {"freeSeat", "debitWallet", "insertRefund", "insertCheckIn", "markUsed"}
         => box[b].seat \in Seats
  /\ \A b \in PartnerCalls : BoxAt(b, "updateShowtime") => box[b].status # "none"

\* Nobody enters without a scan: a ticket is USED only if it has its CheckIn
\* row, which is unique, although the row and the status are two statements
\* that scans, refunds and late payments may separate.
UsedWasScanned ==
  \A o \in Orders, s \in Seats : ticket[o][s] = "USED" => s \in scanned

\* Every REFUND transaction stands for money that left the wallet before it,
\* in any interleaving of cancellations and crashes, and sales and refunds
\* together still explain the balance.
RefundsCovered ==
  /\ SumFunction([s \in Seats |-> refunds[s] * PartnerTotal[{s}]]) <= wallet.totalWithdrawn
  /\ wallet.balance = wallet.totalEarned - wallet.totalWithdrawn

\* As long as the staff's calls do not overlap, a ticket is refunded at most
\* once more than its order was credited: a crash in the middle of a
\* cancellation, the repetition that follows and payments confirmed in between
\* never debit the partner for the same sale twice.
OneUnearnedRefund ==
  ~overlapped => \A o \in Orders : \A s \in TicketsOf(o) : refunds[s] <= revenue[o] + 1
=============================================================================
