------------------------------- MODULE Partners -------------------------------
(***************************************************************************)
(* What a partner does: the box office of a showtime (BoxOffice, which has  *)
(* its sale in it), the way to become a partner (PartnerOnboarding), movies *)
(* and their review (MovieCatalogue), showtimes (Scheduling), rooms with    *)
(* their services (RoomServices).  The five share no state.                 *)
(***************************************************************************)
EXTENDS BoxOffice

CONSTANTS
    Callers,                                        \* API calls in flight, of the last four
    Users, MaxApplications, Data,                   \* PartnerOnboarding
    Movies, Content, Casts, MaxPlans, LastDay,      \* MovieCatalogue
    Rooms, MaxShows, Starts, Lengths, Layouts, Prices, PlanPrices,
    DefaultPrice, Totals, SeatsPerRow, PageLimit,   \* Scheduling
    Services, Names, MaxLinks                       \* RoomServices

VARIABLES
    reqs, partners, wallets, staff, role, sessions, signing, late, calls, refused, disturbed,
    movies, edits, created, audit, edited,
    shows, rooms, plans, complete, unchecked,
    name, services, links, request, known, mixed

partnerVars == <<reqs, partners, wallets, staff, role, sessions, signing, late, calls, refused, disturbed>>
movieVars == <<movies, edits, created, audit, edited>>
showVars == <<shows, rooms, plans, complete, unchecked>>
linkVars == <<name, services, links, request, known, mixed>>

Partner == INSTANCE PartnerOnboarding WITH Calls <- Callers, MaxRequests <- MaxApplications
Movie == INSTANCE MovieCatalogue WITH Calls <- Callers, calls <- edits, disturbed <- edited
Show == INSTANCE Scheduling WITH Calls <- Callers, calls <- plans
Link == INSTANCE RoomServices WITH Calls <- Callers, call <- request, overlapped <- mixed

ASSUME PartnersAssumption ==
    /\ BoxOfficeAssumption
    /\ Partner!OnboardingAssumption /\ Movie!CatalogueAssumption
    /\ Show!SchedulingAssumption /\ Link!RoomServicesAssumption

-----------------------------------------------------------------------------
(* An approved request has its partner with everything a partner needs, and *)
(* no session of the earlier role but one whose sign-in was under way as    *)
(* they were revoked, whatever fails and whoever else approves or resets;   *)
(* undisturbed, a user has one request that is pending, and a decision      *)
(* stands for what was reviewed.                                           *)
PartnersComplete ==
    /\ Partner!TypeOK /\ Partner!ApprovedIsComplete
    /\ Partner!SessionsAreFresh
    /\ Partner!OnePending /\ Partner!RejectedHasNoPartner
    /\ Partner!ApprovedAsReviewed /\ Partner!RefusedHasProfile

(* A movie has one cast list, days in order, a publication once approved    *)
(* and the showtimes its creation did not skip, whichever writers race it   *)
(* and whatever fails; undisturbed, only drafts are deleted and nothing     *)
(* published is rejected.                                                  *)
MoviesConsistent ==
    /\ Movie!TypeOK /\ Movie!CastIsOneList /\ Movie!ApprovedIsPublished
    /\ Movie!CreatedHasShows /\ Movie!AuditIsTrue /\ Movie!DatesInOrder
    /\ Movie!DeletedWasDraft /\ Movie!RejectedUnpublished

(* A showtime that was created to the end has all its seats, each at a      *)
(* price of its plan; created one at a time, showtimes of a room never      *)
(* overlap.                                                                *)
ShowtimesConsistent ==
    Show!TypeOK /\ Show!SeatsMatchTotal /\ Show!SeatsArePriced /\ Show!NoOverlap

(* Links join rooms and services that exist, and, requests one at a time,   *)
(* say what was answered.                                                  *)
LinksConsistent == Link!TypeOK /\ Link!NoDangling /\ Link!LinksAsAnswered

(* A ticket that is USED was scanned, although the scan and the status are  *)
(* two statements which refunds and late payments may separate.             *)
ScannedBeforeUse == BoxTypeOK /\ UsedWasScanned

(* Every refund stands for money that left the wallet, in any interleaving  *)
(* of cancellations and crashes; with one staff call at a time a sale is    *)
(* refunded at most once more than it was earned.                           *)
RefundsAccounted == RefundsCovered /\ OneUnearnedRefund
=============================================================================
