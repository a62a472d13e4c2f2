------------------------------ MODULE Scheduling ------------------------------
(***************************************************************************)
(* The showtimes of one partner: createShowtime() with its check for        *)
(* overlaps, the showtimes that createMovie() makes from plans without one,  *)
(* their seats inserted one by one, the rooms they take the layout from.    *)
(***************************************************************************)
EXTENDS Integers, Sequences, FiniteSets, FiniteSetsExt

CONSTANTS
    Calls, Rooms,
    MaxShows,       \* bound on the rows of Showtime
    Starts,         \* times a showtime may start at
    Lengths,        \* lengths of movies, with the 15 minutes after each
    Layouts,        \* grids of cells a room may have: -1 is blocked
    Prices,         \* prices of seats
    PlanPrices,     \* the prices of a plan: standard, vip, couple, premium
    DefaultPrice,   \* 50000 in the code
    Totals,         \* seats a showtime may be asked to have
    SeatsPerRow,    \* 10 in the code
    PageLimit       \* showtimes the check looks at: 1000 in the code

Blocked == 0 - 1
Shows == 1 .. MaxShows
Absent == 0             \* a price that is not given
SchedulingAssumption ==
    /\ MaxShows \in Nat /\ Starts \subseteq Nat /\ Lengths \subseteq Nat \ {0}
    /\ Prices \subseteq Nat \ {0}
    /\ Layouts \subseteq Seq(Seq(Int)) \ {<<>>}
    /\ \A p \in PlanPrices :
          p \in [standard : Prices \cup {Absent}, vip : Prices \cup {Absent},
                couple : Prices \cup {Absent}, premium : Prices \cup {Absent}]
    /\ DefaultPrice \in Nat \ {0} /\ Totals \subseteq Nat
    /\ SeatsPerRow \in Nat \ {0} /\ PageLimit \in Nat \ {0}

VARIABLES
    shows,      \* shows[s]: the row with its Seat rows
    rooms,      \* rooms[r]: the layout
    calls,
    complete,   \* showtimes whose creation ran to its end
    unchecked   \* whether creations overlapped or came from plans (history)

vars == <<shows, rooms, calls, complete, unchecked>>

NoShow == [status |-> "none"]
GoneShow == [status |-> "gone"]
Stored(s) == shows[s].status \in {"SCHEDULED", "CANCELLED"}
NoRoom == <<>>
Idle == [at |-> "idle"]
Init ==
    /\ shows = [s \in Shows |-> NoShow]
    /\ rooms \in [Rooms -> Layouts]
    /\ calls = [c \in Calls |-> Idle]
    /\ complete = {} /\ unchecked = FALSE

Busy == \E c \in Calls : calls[c] # Idle
Go(c, call) == calls' = [calls EXCEPT ![c] = call]
Return(c) == Go(c, Idle)
At(c, at) == calls[c].at = at

-----------------------------------------------------------------------------
(* findByPartnerId(): the first page in the order of the start.             *)
Before(t, s) ==
    shows[t].start < shows[s].start \/ (shows[t].start = shows[s].start /\ t < s)
FirstPage ==
    {s \in Shows : Stored(s) /\ Cardinality({t \in Shows : Stored(t) /\ Before(t, s)}) < PageLimit}

Overlaps(s, start, end) == shows[s].start < end /\ shows[s].end > start
Conflict(room, start, end) ==
    \E s \in FirstPage :
        /\ shows[s].room = room /\ shows[s].status # "CANCELLED"
        /\ Overlaps(s, start, end)

(* createShowtime(): the movie gives the length; rows of seats are filled    *)
(* from the left, all at the base price.                                    *)
RowOfSeats(n, price) ==
    {[row |-> i \div SeatsPerRow, col |-> (i % SeatsPerRow) + 1, price |-> price] : i \in 0 .. n - 1}
CreateShowtime(c, room, start, length, n, price) ==
    /\ calls[c] = Idle
    /\ unchecked' = (unchecked \/ Busy)
    /\ ~Conflict(room, start, start + length)
    /\ Go(c, [at |-> "insert", room |-> room, start |-> start, end |-> start + length,
              total |-> n, seats |-> RowOfSeats(n, price), asked |-> {price}])
    /\ UNCHANGED <<shows, rooms, complete>>

(* _createShowtimesFromPlans(): the cells of the layout that are not         *)
(* blocked, each at the price of its type.                                 *)
Given(prices) == {prices[k] : k \in DOMAIN prices} \ {Absent}
BasePrice(prices) ==
    IF prices.standard # Absent THEN prices.standard
    ELSE IF Given(prices) # {} THEN Min(Given(prices)) ELSE DefaultPrice
PriceOf(cell, prices) ==
    LET own == IF cell = 1 THEN prices.vip ELSE IF cell = 2 THEN prices.couple ELSE prices.standard
    IN  IF own # Absent THEN own ELSE BasePrice(prices)
Cells(layout) ==
    {cell \in UNION {{r} \X DOMAIN layout[r] : r \in DOMAIN layout} : layout[cell[1]][cell[2]] # Blocked}
\* Blocked cells count as well.
AllCells(layout) == Cardinality(UNION {{r} \X DOMAIN layout[r] : r \in DOMAIN layout})
TotalSeats(layout) == Cardinality(Cells(layout))
SeatsOf(layout, prices) ==
    {[row |-> x[1] - 1, col |-> x[2], price |-> PriceOf(layout[x[1]][x[2]], prices)] : x \in Cells(layout)}
Plan(c, room, start, length, prices) ==
    /\ calls[c] = Idle
    /\ unchecked' = TRUE
    /\ rooms[room] # NoRoom /\ TotalSeats(rooms[room]) # 0
    /\ Go(c, [at |-> "insert", room |-> room, start |-> start, end |-> start + length,
              total |-> TotalSeats(rooms[room]), seats |-> SeatsOf(rooms[room], prices), asked |-> Given(prices)])
    /\ UNCHANGED <<shows, rooms, complete>>

(* Both: the showtime with its counts, then one seat after the other.       *)
InsertShowtime(c) ==
    /\ At(c, "insert")
    /\ IF rooms[calls[c].room] = NoRoom
       THEN Return(c) /\ UNCHANGED shows    \* Showtime.roomId refers to a room
       ELSE LET free == {s \in Shows : shows[s] = NoShow} IN
            /\ free # {}
            /\ shows' = [shows EXCEPT ![Min(free)] =
                            [status |-> "SCHEDULED", room |-> calls[c].room,
                             start |-> calls[c].start, end |-> calls[c].end,
                             total |-> calls[c].total, asked |-> calls[c].asked,
                             seats |-> {}]]
            /\ Go(c, [at |-> "seats", show |-> Min(free), seats |-> calls[c].seats])
    /\ UNCHANGED <<rooms, complete>>
Earlier(x, y) == x.row < y.row \/ (x.row = y.row /\ x.col < y.col)
NextSeat(seats) == CHOOSE x \in seats : \A y \in seats : ~Earlier(y, x)
InsertSeat(c) ==
    /\ At(c, "seats") /\ calls[c].seats # {}
    /\ IF ~Stored(calls[c].show)
       THEN Return(c) /\ UNCHANGED shows    \* Seat.showtimeId refers to a showtime
       ELSE LET x == NextSeat(calls[c].seats) IN
            /\ shows' = [shows EXCEPT ![calls[c].show].seats = @ \cup {x}]
            /\ Go(c, [calls[c] EXCEPT !.seats = @ \ {x}])
    /\ UNCHANGED <<rooms, complete>>
CreateDone(c) ==
    /\ At(c, "seats") /\ calls[c].seats = {}
    /\ complete' = complete \cup {calls[c].show}
    /\ Return(c)
    /\ UNCHANGED <<shows, rooms>>
\* A seat that cannot be written is left out.
GoOn(c) ==
    IF At(c, "seats") /\ calls[c].seats # {}
    THEN [calls[c] EXCEPT !.seats = @ \ {NextSeat(@)}] ELSE Idle
Thrown(c) == Idle
Fail(c) ==
    /\ calls[c] # Idle
    /\ Go(c, Thrown(c))
    /\ UNCHANGED <<shows, rooms, complete>>

-----------------------------------------------------------------------------
(* cancelShowtime(), the layout of a room replaced, a room deleted together  *)
(* with its showtimes.                                                     *)
CancelShowtime(s) ==
    /\ shows[s].status = "SCHEDULED"
    /\ shows' = [shows EXCEPT ![s].status = "CANCELLED"]
    /\ UNCHANGED <<rooms, calls, complete, unchecked>>
UpdateRoom(r, layout) ==
    /\ rooms[r] \notin {NoRoom, layout}
    /\ rooms' = [rooms EXCEPT ![r] = layout]
    /\ UNCHANGED <<shows, calls, complete, unchecked>>

Cascade(s, r) == IF Stored(s) /\ shows[s].room = r THEN GoneShow ELSE shows[s]
DeleteRoom(r) ==
    /\ rooms[r] # NoRoom
    /\ rooms' = [rooms EXCEPT ![r] = NoRoom]
    /\ shows' = [s \in Shows |-> Cascade(s, r)]
    /\ UNCHANGED <<calls, complete, unchecked>>

CreateStep(c) ==
    \E room \in Rooms, start \in Starts, length \in Lengths :
        \/ \E n \in Totals, price \in Prices : CreateShowtime(c, room, start, length, n, price)
        \/ \E prices \in PlanPrices : Plan(c, room, start, length, prices)
CallStep(c) ==
    (InsertShowtime(c) \/ InsertSeat(c) \/ CreateDone(c) \/ Fail(c)) /\ UNCHANGED unchecked
RoomStep(r) == DeleteRoom(r) \/ \E layout \in Layouts : UpdateRoom(r, layout)
Next ==
    \/ \E c \in Calls : CreateStep(c) \/ CallStep(c)
    \/ \E s \in Shows : CancelShowtime(s)
    \/ \E r \in Rooms : RoomStep(r)

Spec == Init /\ [][Next]_vars

-----------------------------------------------------------------------------
TypeOK ==
    /\ \A r \in Rooms : rooms[r] \in Layouts \cup {NoRoom}
    /\ \A s \in Shows : Stored(s) =>
          /\ shows[s].room \in Rooms /\ rooms[shows[s].room] # NoRoom
          /\ shows[s].start < shows[s].end
    /\ complete \subseteq Shows

(* "Count actual (non-blocked) seats from layout": a showtime never has more *)
(* seats than it says, no position twice, and when its creation ran to the   *)
(* end it has all of them, whoever changed the room or failed meanwhile.    *)
SeatsMatchTotal ==
    \A s \in Shows : Stored(s) =>
        LET seats == {<<x.row, x.col>> : x \in shows[s].seats} IN
        /\ Cardinality(seats) = Cardinality(shows[s].seats)
        /\ Cardinality(seats) <= shows[s].total
        /\ s \in complete => Cardinality(seats) = shows[s].total

(* "basePrice = standard price, or lowest provided price, or 50000": every   *)
(* seat has one of the prices of its plan, the default only when it has none. *)
SeatsArePriced ==
    \A s \in Shows : Stored(s) =>
        \A x \in shows[s].seats :
            IF shows[s].asked = {} THEN x.price = DefaultPrice ELSE x.price \in shows[s].asked

(* "Validate no overlapping showtimes in the same room": creations one at a  *)
(* time, as many as the check looks at.                                    *)
NoOverlap ==
    (~unchecked /\ \A s \in Shows : shows[s] # NoShow => s <= PageLimit) => \A s, t \in Shows :
        (s # t /\ shows[s].status = "SCHEDULED" /\ shows[t].status = "SCHEDULED"
               /\ shows[s].room = shows[t].room)
            => shows[s].end <= shows[t].start \/ shows[t].end <= shows[s].start
=============================================================================
