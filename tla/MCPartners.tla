------------------------------ MODULE MCPartners ------------------------------
(***************************************************************************)
(* Partners on small instances.  A behaviour runs one part, whose variables *)
(* move while those of the others stay initial, and which may restrict the  *)
(* steps to bound the instance.  Parts called "one ..." are undisturbed:    *)
(* their requests come one at a time.                                      *)
(***************************************************************************)
EXTENDS Partners, TLC

\* A room with a blocked cell and two types of seats, and one with a single seat.
TwoLayouts == {<< <<0, -1>>, <<2>> >>, << <<1>> >>}
\* Every combination of prices, 0 for one that is not given.
AllPrices == [standard : {0, 3}, vip : {0, 4}, couple : {0, 2}, premium : {0, 2}]
TwoDays == 0 .. 1
Total == [S \in SUBSET Seats |-> 3 * Cardinality(S)]

VARIABLE part
partVars == <<part, allVars, partnerVars, movieVars, showVars, linkVars>>

PartInit ==
    /\ part \in {"partner", "one partner", "movie", "movie dates", "one movie", "show",
                 "show prices", "one show", "link", "one link", "box", "one box"}
    /\ BoxInit /\ Partner!Init /\ Movie!Init /\ Show!Init /\ Link!Init
    /\ part \notin {"show", "show prices"} => rooms["r1"] = << <<1>> >>
    /\ rooms["r2"] = << <<1>> >>
    /\ part \notin {"box", "one box"} => seatStatus = [s \in Seats |-> "AVAILABLE"]

-----------------------------------------------------------------------------
(* Two requests of one content are enough for two of one user, or one of    *)
(* each of two; the sessions of one user.  Undisturbed, nobody signs in.    *)
TwoRequests ==
    /\ reqs[3] = Partner!NoReq /\ signing["u2"] = {}
    /\ \A c \in Callers : calls[c].at \in {"create", "edit"} => calls[c].data = "d1"

\* One movie that lasts a day, with cast and showtimes.
Writers ==
    /\ movies["m2"] = Movie!NoMovie
    /\ \A c \in Callers :
          /\ edits[c].at \in {"insert", "update"} => edits[c].movie = "m1"
          /\ edits[c].at = "insert" => edits[c].row.to = 1
          /\ edits[c].at = "update" => edits[c].to = 1
\* One movie without showtimes, of which only the days are edited.
Dates ==
    /\ movies["m2"] = Movie!NoMovie
    /\ \A c \in Callers :
          /\ edits[c].at \in {"insert", "update"} => edits[c].movie = "m1"
          /\ edits[c].at = "insert" => edits[c].plans = 0 /\ edits[c].cast = Movie!NoList
          /\ edits[c].at = "update" => edits[c].cast = Movie!NoList
\* Two movies with a showtime at most, undisturbed.
OneEditor ==
    /\ ~edited
    /\ \A c \in Callers :
          /\ edits[c].at = "insert" => edits[c].row.to = 1 /\ edits[c].plans <= 1
          /\ edits[c].at \in {"insert", "update"} => edits[c].cast # "l2"
          /\ edits[c].at = "update" => edits[c].to = 1

Inserts(c) == plans[c].at = "insert"
OneRoom ==
    /\ rooms["r2"] = << <<1>> >>
    /\ \A c \in Callers : Inserts(c) => plans[c].room = "r1"
\* Two showtimes of the same time, at one price.
TwoShows ==
    \A c \in Callers :
        Inserts(c) => plans[c].start = 0 /\ plans[c].end = 1 /\ plans[c].asked = {3}
\* One showtime with every combination of prices.
OneShow ==
    /\ shows[2] = Show!NoShow
    /\ Cardinality({c \in Callers : plans[c] # Show!Idle}) <= 1
    /\ \A c \in Callers : Inserts(c) => plans[c].start = 0 /\ plans[c].end = 1
\* Two showtimes of any length, created one at a time.
OnePlanner ==
    /\ ~unchecked /\ \A c \in Callers : Inserts(c) => plans[c].asked = {3} /\ plans[c].total = 1
    /\ rooms["r1"] # << <<0, -1>>, <<2>> >>

\* The links of one service.
OneService ==
    /\ services["s2"] = "NotYet"
    /\ \A c \in Callers : request[c].at \in {"clear", "link", "save"} =>
          \A i \in DOMAIN request[c].list : request[c].list[i] # "s2"

(* One customer against the staff, or customers against one of the staff,   *)
(* with five calls in all.                                                 *)
FiveCalls == made + requests["o1"] <= 5
OneCustomer == requests["o1"] <= 2 /\ \E c \in Calls : \A d \in Calls \ {c} : call[d] = IdleCall

PartNext ==
    /\ UNCHANGED part
    /\ \/ /\ part \in {"partner", "one partner"} /\ Partner!Next
          /\ \/ part = "partner" /\ TwoRequests'
             \/ part = "one partner" /\ ~disturbed' /\ signing' = signing
          /\ UNCHANGED <<allVars, movieVars, showVars, linkVars>>
       \/ /\ part \in {"movie", "movie dates", "one movie"} /\ Movie!Next
          /\ \/ part = "movie" /\ Writers'
             \/ part = "movie dates" /\ Dates'
             \/ part = "one movie" /\ OneEditor'
          /\ UNCHANGED <<allVars, partnerVars, showVars, linkVars>>
       \/ /\ part \in {"show", "show prices", "one show"} /\ Show!Next
          /\ OneRoom'
          /\ \/ part = "show" /\ TwoShows'
             \/ part = "show prices" /\ OneShow'
             \/ part = "one show" /\ OnePlanner'
          /\ UNCHANGED <<allVars, partnerVars, movieVars, linkVars>>
       \/ /\ part \in {"link", "one link"} /\ Link!Next
          /\ \/ part = "link" /\ OneService'
             \/ part = "one link" /\ ~mixed'
          /\ UNCHANGED <<allVars, partnerVars, movieVars, showVars>>
       \/ /\ part \in {"box", "one box"} /\ BoxNext /\ FiveCalls'
          /\ \/ part = "box" /\ OneCustomer'
             \/ part = "one box" /\ ~overlapped'
          /\ UNCHANGED <<partnerVars, movieVars, showVars, linkVars>>

PartSpec == PartInit /\ [][PartNext]_partVars

Symmetry == Permutations(Callers)
=============================================================================
