---------------------------- MODULE MovieCatalogue ----------------------------
(***************************************************************************)
(* The movies of a partner (modules/partner, movie use case): created as a   *)
(* draft together with cast and showtimes, edited, submitted, approved or   *)
(* rejected by an administrator, deleted. Every statement is a step and may  *)
(* fail; what a call decides on is the row it read first.                   *)
(***************************************************************************)
EXTENDS Integers

CONSTANTS
    Movies, Calls,
    Content,    \* what else a movie says (title, description, ...)
    Casts,      \* lists of cast members
    MaxPlans,   \* bound on the showtime plans of a new movie
    LastDay     \* bound on the days of release and end

Days == 0 .. LastDay
NoList == "none"    \* cast not given
CatalogueAssumption ==
    MaxPlans \in Nat /\ LastDay \in Nat /\ NoList \notin Casts

VARIABLES
    movies,     \* movies[m]: the row, with its Cast and Showtime rows; "planned"
                \* counts the showtime plans that were not skipped (history)
    calls,
    created,    \* movies whose creation was answered with success
    audit,      \* audit entries: movie and decision
    disturbed   \* whether calls overlapped or a statement failed (history)

vars == <<movies, calls, created, audit, disturbed>>

NoMovie == [status |-> "none"]
Gone(was) == [status |-> "gone", was |-> was]
Exists(m) == movies[m].status \notin {"none", "gone"}
Idle == [at |-> "idle"]
Init ==
    /\ movies = [m \in Movies |-> NoMovie]
    /\ calls = [c \in Calls |-> Idle]
    /\ created = {} /\ audit = {} /\ disturbed = FALSE

MayStart(c) ==
    /\ calls[c] = Idle
    /\ disturbed' = (disturbed \/ \E d \in Calls : calls[d] # Idle)
Start(c, call) == MayStart(c) /\ calls' = [calls EXCEPT ![c] = call]
To(c, at) == calls' = [calls EXCEPT ![c].at = at]
Return(c) == calls' = [calls EXCEPT ![c] = Idle]
At(c, at) == calls[c].at = at
Movie(c) == calls[c].movie
\* A statement on a row that is gone throws.
Write(c, row, next) ==
    IF Exists(Movie(c))
    THEN movies' = [movies EXCEPT ![Movie(c)] = row] /\ To(c, next)
    ELSE UNCHANGED movies /\ Return(c)

-----------------------------------------------------------------------------
ValidRange(from, to) == from < to

(* createMovie(): the row, its cast, then its showtimes one by one; "plans"  *)
(* is how many are left.                                                   *)
DraftRow(from, to, content) ==
    [status |-> "DRAFT", from |-> from, to |-> to, content |-> content,
     cast |-> {}, shows |-> 0, planned |-> 0, published |-> FALSE]
CreateMovie(c, m, from, to, content, list, plans) ==
    /\ movies[m] = NoMovie /\ \A d \in Calls : At(d, "insert") => Movie(d) # m
    /\ ValidRange(from, to)
    /\ Start(c, [at |-> "insert", movie |-> m, row |-> DraftRow(from, to, content),
                 cast |-> list, plans |-> plans])
    /\ UNCHANGED <<movies, created, audit>>
InsertMovie(c) ==
    /\ At(c, "insert")
    /\ movies' = [movies EXCEPT ![Movie(c)] = [calls[c].row EXCEPT !.planned = calls[c].plans]]
    /\ To(c, IF calls[c].cast # NoList THEN "cast" ELSE "shows")
    /\ UNCHANGED <<created, audit>>
\* replaceCast(): one transaction; an update ends with it.
ReplaceCast(c) ==
    /\ At(c, "cast")
    /\ Write(c, [movies[Movie(c)] EXCEPT !.cast = {calls[c].cast}],
             IF "plans" \in DOMAIN calls[c] THEN "shows" ELSE "done")
    /\ UNCHANGED <<created, audit>>
PlansLeft(c) == At(c, "shows") /\ calls[c].plans > 0
NextPlan(c) == calls' = [calls EXCEPT ![c].plans = @ - 1]
InsertShowtime(c) ==
    /\ PlansLeft(c)
    /\ IF Exists(Movie(c))
       THEN movies' = [movies EXCEPT ![Movie(c)].shows = @ + 1] /\ NextPlan(c)
       ELSE UNCHANGED movies /\ Return(c)
    /\ UNCHANGED <<created, audit>>
\* "Skip invalid rooms silently": also a day that does not parse, no seats.
SkipPlan(c) ==
    /\ PlansLeft(c)
    /\ movies' = IF Exists(Movie(c)) THEN [movies EXCEPT ![Movie(c)].planned = @ - 1] ELSE movies
    /\ NextPlan(c)
    /\ UNCHANGED <<created, audit>>
CreateDone(c) ==
    /\ At(c, "shows") /\ calls[c].plans = 0
    /\ Return(c) /\ created' = created \cup {Movie(c)}
    /\ UNCHANGED <<movies, audit>>

(* updateMovie(): a day that is not given is that of the row that was read,  *)
(* and both are written.                                                   *)
NotGiven == 0 - 1
Parsed(day, old) == IF day = NotGiven THEN old ELSE day
Editable(m) == movies[m].status \in {"DRAFT", "SUBMITTED"}
UpdateMovie(c, m, from, to, content, list) ==
    /\ Exists(m) /\ Editable(m)
    /\ LET f == Parsed(from, movies[m].from)
           t == Parsed(to, movies[m].to)
       IN  /\ ValidRange(f, t)
           /\ Start(c, [at |-> "update", movie |-> m, from |-> f, to |-> t, content |-> content,
                        cast |-> list, given |-> [from |-> from, to |-> to]])
    /\ UNCHANGED <<movies, created, audit>>

UpdatedRow(c) ==
    [movies[Movie(c)] EXCEPT !.from = calls[c].from, !.to = calls[c].to, !.content = calls[c].content]
WriteUpdate(c) ==
    /\ At(c, "update")
    /\ Write(c, UpdatedRow(c), IF calls[c].cast # NoList THEN "cast" ELSE "done")
    /\ UNCHANGED <<created, audit>>

(* deleteMovie(): cast, showtimes and their seats go with the row.          *)
Deletable(m) == movies[m].status = "DRAFT"
DeleteMovie(c, m) ==
    /\ Exists(m) /\ Deletable(m)
    /\ Start(c, [at |-> "delete", movie |-> m])
    /\ UNCHANGED <<movies, created, audit>>
WriteDelete(c) ==
    /\ At(c, "delete")
    /\ Write(c, Gone(movies[Movie(c)].status), "done")
    /\ UNCHANGED <<created, audit>>

(* submitMovieForApproval(), adminApproveMovie() (the day of publication,    *)
(* then the status) and adminRejectMovie(); both decisions are audited.     *)
SetStatus(c) == [movies[Movie(c)] EXCEPT !.status = calls[c].status]
SubmitMovie(c, m) ==
    /\ Exists(m) /\ movies[m].status = "DRAFT"
    /\ Start(c, [at |-> "status", movie |-> m, status |-> "SUBMITTED"])
    /\ UNCHANGED <<movies, created, audit>>
\* The status is written at once.
StatusOnly == "status"
FirstWrite == "publish"
ApproveMovie(c, m) ==
    /\ Exists(m) /\ movies[m].status = "SUBMITTED"
    /\ Start(c, [at |-> FirstWrite, movie |-> m, status |-> "APPROVED"])
    /\ UNCHANGED <<movies, created, audit>>
Publish(c) ==
    /\ At(c, "publish")
    /\ Write(c, [movies[Movie(c)] EXCEPT !.published = TRUE], "status")
    /\ UNCHANGED <<created, audit>>

Rejectable(m) == movies[m].status = "SUBMITTED"
RejectMovie(c, m) ==
    /\ Exists(m) /\ Rejectable(m)
    /\ Start(c, [at |-> "status", movie |-> m, status |-> "REJECTED"])
    /\ UNCHANGED <<movies, created, audit>>
WriteStatus(c) ==
    /\ At(c, "status")
    /\ Write(c, SetStatus(c), IF calls[c].status = "SUBMITTED" THEN "done" ELSE "audit")
    /\ UNCHANGED <<created, audit>>
AuditEntry(c) ==
    /\ At(c, "audit")
    /\ audit' = audit \cup {<<Movie(c), calls[c].status>>}
    /\ Return(c)
    /\ UNCHANGED <<movies, created>>
Done(c) == At(c, "done") /\ Return(c) /\ UNCHANGED <<movies, created, audit>>

\* A statement fails and the call throws.
\* A failed showtime is left out.
GoOn(c) ==
    IF At(c, "shows") /\ calls[c].plans > 0 THEN [calls[c] EXCEPT !.plans = @ - 1]
    ELSE IF At(c, "status") THEN [calls[c] EXCEPT !.at = "audit"] ELSE Idle
Thrown(c) == Idle
Fail(c) ==
    /\ calls[c].at \notin {"idle", "done"}
    /\ calls' = [calls EXCEPT ![c] = Thrown(c)] /\ disturbed' = TRUE
    /\ UNCHANGED <<movies, created, audit>>

CallStep(c) ==
    \/ /\ \/ InsertMovie(c) \/ ReplaceCast(c) \/ InsertShowtime(c) \/ SkipPlan(c) \/ CreateDone(c)
          \/ WriteUpdate(c) \/ WriteDelete(c) \/ Publish(c) \/ WriteStatus(c)
          \/ AuditEntry(c) \/ Done(c)
       /\ UNCHANGED disturbed
    \/ Fail(c)
PartnerStep(c, m) ==
    \/ \E from, to \in Days, content \in Content, list \in Casts \cup {NoList}, n \in 0 .. MaxPlans :
          CreateMovie(c, m, from, to, content, list, n)
    \/ \E from, to \in Days \cup {NotGiven}, content \in Content, list \in Casts \cup {NoList} :
          UpdateMovie(c, m, from, to, content, list)
    \/ DeleteMovie(c, m) \/ SubmitMovie(c, m)
AdminStep(c, m) == ApproveMovie(c, m) \/ RejectMovie(c, m)
Next == \E c \in Calls : CallStep(c) \/ \E m \in Movies : PartnerStep(c, m) \/ AdminStep(c, m)

Spec == Init /\ [][Next]_vars

-----------------------------------------------------------------------------
TypeOK ==
    /\ \A m \in Movies :
          /\ movies[m].status \in {"none", "gone", "DRAFT", "SUBMITTED", "APPROVED", "REJECTED"}
          /\ Exists(m) =>
                /\ movies[m].from \in Days /\ movies[m].to \in Days
                /\ movies[m].content \in Content /\ movies[m].cast \subseteq Casts
                /\ movies[m].shows \in 0 .. movies[m].planned
    /\ created \subseteq Movies
    /\ audit \subseteq Movies \X {"APPROVED", "REJECTED"}

(* Updates that give one day each and overlap never leave a movie that ends  *)
(* before its release: both columns are written with what was validated.    *)
DatesInOrder == \A m \in Movies : Exists(m) => movies[m].from < movies[m].to

(* replaceCast: "Replace the entire cast list for a movie atomically": the   *)
(* cast is one of the given lists whoever writes at the same time.          *)
CastIsOneList == \A m \in Movies : Exists(m) => \A a, b \in movies[m].cast : a = b

(* Whatever fails in between, an approved movie has a day of publication.    *)
ApprovedIsPublished ==
    \A m \in Movies : movies[m].status = "APPROVED" => movies[m].published

(* A creation that is answered with success made a showtime of every plan it *)
(* did not skip: an insertion that fails is never passed over like a skip.  *)
CreatedHasShows ==
    \A m \in created : Exists(m) => movies[m].shows = movies[m].planned

(* The audit log says "approved" only of a movie that was published (and     *)
(* may have been deleted since by a call that read it as a draft).          *)
AuditIsTrue ==
    \A m \in Movies : <<m, "APPROVED">> \in audit /\ Exists(m) => movies[m].published

(* "Only DRAFT movies can be deleted" (here and below, as long as nothing     *)
(* disturbs the calls).                                                    *)
DeletedWasDraft == ~disturbed => \A m \in Movies : movies[m].status = "gone" => movies[m].was = "DRAFT"

(* "Only SUBMITTED movies can be rejected": a rejected movie was not         *)
(* published.                                                              *)
RejectedUnpublished ==
    ~disturbed => \A m \in Movies : movies[m].status = "REJECTED" => ~movies[m].published
=============================================================================
