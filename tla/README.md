# Formal model of the CinePass ticketing back end

TLA+ modules, TLC runs and TLAPS proofs kept beside the TypeScript back end
(`src/`). Almost every operation of this program is a handful of database
statements with an `await` between them and no transaction around them, so what
is hard to get right, and hard to test, is what happens when two requests, a
worker or a crash come in between. That is what is modelled.

Contents: 1 the system, 2 the modules and their code, 3 conventions, 4 runs and
bounds, 5 fairness, 6 disagreements, 7 properties, 8 proofs, 9 what is not modelled.

## 1. The system

An Express API over PostgreSQL (Prisma), BullMQ workers over Redis, and a few
external services (mail, push, uploads, social login). All shared state is in
the database and in the queues; a process holds only caches and in-memory locks.

| Component | State | Operations | What is hard |
|---|---|---|---|
| Booking (`modules/booking`) | `Order`, `Ticket`, `Seat`, `Showtime.availableSeats` | `lockSeats`, `getOrder` (expires an overdue order), `cancelOrder` | two bookings of one seat; a status read, then a release, then a write |
| Payment (`modules/payment`) | `Transaction`, `PartnerWallet`, `Showtime.bookedSeats` | `createPaymentForOrder`, `confirmMockPayment` | confirmations racing each other, cancellation and expiry |
| Seat cleanup (`queue/worker/seat-cleanup.worker.ts`) | the same rows | every 60 s: free expired locks, cancel tickets, expire orders | four statements without a transaction; ids read earlier; crashes |
| Seat map (`modules/movie`) | `Seat` | `getShowtimeSeatMap`, a read that frees expired seats | takes the job's work away from it |
| Showtime operations (`partner/usecase/{showtime,seat,ticket}`) | `Showtime`, `Seat`, `Ticket`, `CheckIn` | create, update, cancel a showtime; override a seat; check a ticket in | refunds ticket by ticket, without a transaction |
| Wallet and withdrawals (`partner/usecase/finance`, `admin-finance`) | `PartnerWallet`, `Withdrawal`, `Transaction` | withdraw, approve, complete, reject | balance tested, then debited; status tested, then written |
| Authentication, users, sessions (`modules/auth`, `modules/user`) | `User`, `Session`, action tokens | register, login, refresh, verify, reset, ban, revoke, delete | rotation without a transaction; single use of tokens |
| Concurrent lock (`share/component/concurrent-lock.ts`) | an in-memory map of keys | `runExclusive` over keys with a TTL | a task that outlives its TTL |
| Access control (`share/middleware`, `authorization.usecase`) | reads `User`, overrides, settings | authenticate, authorise, maintenance mode | decisions on a token or row that is no longer true |
| Partner onboarding (`partner/usecase/{request,profile}`) | `PartnerRequest`, `Partner`, wallet, staff, role, sessions | submit, edit, approve, reject, reset, commission | approval is six separate writes, while users sign in |
| Movie catalogue and scheduling (`partner/usecase/{movie,showtime}`) | `Movie`, `Cast`, `Showtime`, `Seat`, `Room` | draft, submit, approve, reject, delete; create showtimes | legal sequences of statuses; check, then insert |
| Rooms and services (`partner/infras/repository/{room,services}.repo.ts`) | `Room`, `Service`, `RoomService` | create, update, delete, from both sides of the link | links deleted, then inserted |
| Broadcasts (`admin-notifications`, `queue/worker/broadcast.worker.ts`) | `BroadcastNotification`, `Notification`, a job | create, delay, page, retry, delete | at-least-once jobs; a cursor over rows that change |
| Notifications (`modules/notification`, push side) | `Notification`, `readCount`, push jobs | send, push, list, read, read all, delete | counters next to rows |
| E-mails and scheduled e-mails (`modules/notification`, `queue/worker/{email,scheduled-email}.worker.ts`) | `EmailTemplate`, `ScheduledEmail`, jobs | render, enqueue, fall back, send, seed, tick | sent, then marked; lost replies |
| System settings, feature flags, user settings | `SystemSetting` and a 30 s cache, `FeatureFlag`, `UserSetting` | read, update, reset, shut down, audit | a read that fills the cache after the invalidation |
| Ticket reading, reports, dashboards, public catalogue, categories, cinemas, reviews, plans, uploads, sockets, logging | one row each, or none | CRUD and queries | little |

How they interact: a booking creates the order and the tickets that payment
confirms; payment credits the wallet that withdrawals and refunds debit; the
cleanup job undoes bookings that were not paid, unless a look at the seat map
did half of it; staff cancel showtimes under bookings; onboarding creates the
wallet that payment credits and ends sessions; registration runs under the
concurrent lock and creates settings; administrators' broadcasts become the
notifications users read; every request passes access control, which reads what
authentication issued and what the settings cache serves.

What makes each one correct, in a line:

* Booking, payment, cleanup, seat map: a seat is never sold twice, an order
  moves as a whole, a paid order keeps its seats, money follows sales, locks end.
* Showtime operations: nobody enters unscanned, a refund is covered by a debit,
  a sale is refunded at most once.
* Withdrawals: the balance accounts for every unit, decisions are final.
* Authentication: a token is accepted once, a session stays one session, a
  revoked one stays revoked.
* Concurrent lock: two tasks never hold a key; a key is freed in the end.
* Access control: the row decides, not what the token says.
* Onboarding, catalogue, scheduling: what is approved is complete and is what
  was reviewed; no room is booked twice.
* Delivery: each recipient once per run; what is marked sent was sent.
* Settings, flags: what was saved is served in the end; the log tells it,
  unless an entry was lost.

## 2. Modules

### Map

| Module | Lines of code it stands for | Composes |
|---|---|---|
| `TicketSale` | abstract specification: orders claim disjoint sets of seats, a held order is sold or released as a whole, a sale is final | |
| `Booking` | booking, payment, cleanup job | implements `TicketSale` |
| `BoxOffice` | `showtime.usecase` (update, cancel), `seat.usecase`, `ticket.usecase` | extends `Booking` |
| `SeatMap` | `getShowtimeSeatMap` | extends `Booking` |
| `Withdrawals` | `finance.usecase`, `admin-finance` | |
| `ConcurrentLock` | `concurrent-lock.ts` | |
| `Sessions` | login, refresh, revocation, account deletion as far as `Session` goes | |
| `Accounts` | registration, action tokens, passwords, e-mail changes, deletion | |
| `UserAccounts` | | extends `Accounts`, INSTANCE of `Sessions` |
| `AccessControl` | `middleware/auth`, `middleware/maintenance`, `permissions`, `authorization.usecase` | |
| `SystemSettings`, `UserSettings`, `FeatureFlags` | the three kinds of settings | |
| `Administration` | | extends `AccessControl`, INSTANCE of the three kinds of settings |
| `PartnerOnboarding` | requests, approval, commission, sign-ins meanwhile | |
| `MovieCatalogue` | movies, cast, publication | |
| `Scheduling` | `createShowtime`, showtimes from plans, rooms under them | |
| `RoomServices` | rooms, services and their links | |
| `Partners` | | extends `BoxOffice`, INSTANCE of the four modules above |
| `Broadcasts`, `Notifications`, `Emails`, `ScheduledEmails` | delivery | |
| `Delivery` | | INSTANCE of the four modules above |
| `BookingProofs` | theorems on the sale and the seat map | extends `SeatMap` |
| `ConcurrentLockProofs`, `WithdrawalsProofs`, `AccountsProofs`, `AdministrationProofs`, `DeliveryProofs`, `PartnersProofs` | theorems | extend the module they are about (`UserAccounts` for accounts) |
| `SumTheorems` | lemmas on `SumFunctionOnSet` over a finite set, for any function to the integers | |
| `MCBooking`, `MCSeatMap`, `MCWithdrawals`, `MCAccounts`, `MCAdministration`, `MCPartners`, `MCDelivery` | instances for TLC: sets, symmetry, sample data, the parts of a run | extend the module they are about |
| `MCSettling` | what must end under fairness, several components | extends `ConcurrentLock`, INSTANCE of the others with values for their constants |

A module that composes components gives their common constants one name and
states what each promises as one property; its theorems are about the
specification of each component (`Session!Spec`, `Partner!Spec` and so on).

`PROJECT.json` maps every definition to its lines.

### `Booking`

**Rows.** One showtime. `seatStatus`, `lockedBy` are the `Seat` rows; `ticket[o][s]`
is the status of the ticket of order `o` for seat `s` (`"none"`: no such row);
`orderStatus`, `showtime`, `wallet` are those rows. `payments` counts an order's
payment transactions by status and `revenue` its revenue transactions.
`lockedUntil` is written together with `lockedBy`, always as the `expiresAt` of
that order, so one variable stands for both.

**Time.** `overdue` is the set of the orders whose `expiresAt` is past; `Tick(o)`
adds one. Orders may expire in any order and at any moment, so the model has more
behaviours than ten-minute timeouts, never fewer. The cleanup job computes `now`
once, hence `cleaner.now`.

**Calls.** `call[c]` is an API call in flight: `pc` names the next statement or
commit, `order` and `seats` its local variables, `final` the status it will
write. A call that returns or throws goes back to `IdleCall`. `CallCrash` ends a
call anywhere: the process died, or the database refused the next statement. The
access check `order.userId !== userId` only ends calls early and is left out: the
model's customers are the owners, and `confirmMockPayment` has no such check.

| Code | Actions |
|---|---|
| `lockSeatsAtomic` | `LockReadShowtime`, `LockReadSeats`, then `LockCommit` or `LockAbort` (unique index) |
| `getOrder` on an overdue order; `cancelOrder` | `GetOrderExpired` / `CancelOrder`, `ReleaseRead`, `ReleaseCommit`, `SetStatus` |
| `createPaymentForOrder` | `PayReadOrder`, `PayInsert`, `PaySetStatus` |
| `confirmMockPayment` | `ConfirmReadOrder`, then `ConfirmSuccess` or `ConfirmFailed` |
| `processSeatCleanup` | `CleanFindSeats` or `CleanNothing`, `CleanSeats`, `CleanTickets`, `CleanOrders`; `CleanCrash` |

A showtime's partner has a wallet row (onboarding inserts it), so the `upsert` of
the confirmation is its update branch. Money is integer and unbounded: amounts
are far below the 2^31 of the columns. Seats the request names twice, of another
showtime, or unknown end the call before any write and are left out.

### Around the sale

`BoxOffice` adds the calls of the partner's staff, `box[b]`, to `Booking`:
`UpdateShowtime`/`WriteShowtime`; `CancelShowtime` with `ReadTickets`, and per
ticket `RefundTicket`, `FreeSeat`, `DebitWallet`, `InsertRefund`, and at the end
`SetCancelled`; `UpdateSeat`; `CheckIn`, `InsertCheckIn`, `MarkUsed`. A ticket is
named by its seat, which `OneTicketPerSeat` (a property of this composition too)
allows. `scanned` and `refunds` are the `CheckIn` and `REFUND` rows.

`SeatMap` adds requests for the map: `ViewMap` reads the showtime and takes its
`now`, `FreeExpired` is the `updateMany` behind the read, with a condition on the
row as it is then.

`Withdrawals`: `GetWallet`, `CreateWallet`, `TestBalance`, `DebitWallet`,
`InsertWithdrawal`, `InsertEntry` are `createWithdrawal`; `ApproveWithdrawal` and
`ApproveCommit` (and so on) the read and the transaction of a decision; `Sale` is
the `upsert` of a payment; `CallFails` ends a call between statements.

### Accounts and access

`ConcurrentLock`: JavaScript runs one callback at a time, so acquiring all keys
of a call (`Acquire` or `Refuse`), its release (`Finish`), and a timer (`Fire`)
are one action each; `Elapse` lets `expiresAt` pass, before the timer runs or
not. Keys are numbers in the order `sort()` puts them.

`Sessions`: a row is `[token, device, active]`. A refresh token is a signed
payload whose only varying part is the second of signing, hence `signed` and the
clock `now`. A refresh is `RefreshRead`, `RefreshDelete` (or `DropExpired`),
`RefreshCreate`; a login `Login`, `IssueAuthSession`; revocations and status
changes are those of `user/usecase`. `Devices`, `revoked` and `closed` are history.

`Accounts`: an address is a mailbox and whether it is written in lower case,
since only some requests are parsed with `toLowerCase`. Issuing a token is
`Forget` (deleteMany) and `Issue`; accepting one `FindToken`, `Consume` (or
`DropToken`), and the write it stands for. Passwords are `own` or `temporary`.
A password and `mustChangePassword` are two updates of the user, and `CallFails`
ends a call before any statement, between these two as well: a statement throws, for
whatever reason, or the process stops. `torn` (history) names the users whom this,
or another request between the two, left with halves that do not go together;
`crossed` the links of whose last two requests one deleted before the other created.
The next request that runs alone takes a name out of either.

`AccessControl`: a request goes through `MaintenanceModeGuard`, `VerifyToken`,
`SyncUser`, the guard of its route and `RequireActiveUser` while the row, the
token and the maintenance mode change. Permission codes are told apart by the
roles that have them. `GuardsAssumption` says a guard names permissions.

### Partners and their catalogue

`PartnerOnboarding`: an approval is `Approve`, `LookForPartner` and the six writes
`UpdateStatus`, `InsertPartner`, `InsertWallet`, `InsertStaff`, `UpdateUser`,
`RevokeSessions` of `adminApprove`; `Fail` is a statement that throws; a tax code
stands for the contents of a request. `Login` reads the role and `CreateSession`
inserts the session of it; a `Refresh` signs the scope of its token once more,
whatever the role is by then. `signing` holds the scopes of those in flight, `late`
(history) the users who had one of the old role when `RevokeSessions` ran. Profile
updates write none of these columns (`UpdatePartnerPayloadDTO` has no commission) and
are left out; `UpdateCommission` and `CommissionWrite` are the commission.

`MovieCatalogue`: what a call decides on is the row it read first; `Write...` is
the update by id that follows. Bodies of an update hold the fields of
`UpdateMovieDTO`, days stand for dates. A creation goes through its plans: each is
an `InsertShowtime` or a `SkipPlan` (the room is unknown or of another partner, the
day does not parse, the layout has no seats), and `planned` (history) counts those
that were not skipped.

`Scheduling`: `CreateShowtime` is the check and its read, `InsertShowtime` and
`InsertSeat` the rows; `Plan` makes showtimes from the plans of a new movie.
Constants scale two numbers of the code down: `PageLimit` (1000 in the check for
overlaps) and `SeatsPerRow` (10).

`RoomServices`: `UpdateRoom`, `ClearLinks`, `AddLinks`, `SaveRoom` are the four
statements of a room's update; `UpdateService` takes what the `deleteMany` of the
transaction sees, `CommitService` commits, `RollBack` undoes. One partner's rooms
and services: requests of others end at the ownership checks.

### Settings

`SystemSettings`: a PATCH is `UpdateSettings` (validation of the whole body and
the comparison with the rows), `UpsertMany`, the read-back and `Audit`,
`Invalidate`; a reader is `Get`, `Fill`. Values are records of kind and content,
so that `sanitizeByKey` and `normalizeSettings` are modelled by what they accept
and return. `UserSettings`: two of the six fields, one on and one off by
default. `FeatureFlags`: `Read`, then `Write`, `Audit`; the emergency shutdown
lists (`EmergencyShutdown`) and writes (`UpdateMany`).

`writeAuditLog` swallows its errors, so an entry may be missing after the change it
is about: in `SystemSettings` `Audit` may add nothing, in `FeatureFlags` a request
may end before any statement, its entry included (`Stop`). `untold` (history) holds
the flags whose last change was not told in its turn: the entry was lost, or an
earlier one was still to come, or a request that compared with a replaced value saw
nothing to tell. `PatchFails` is a query of a PATCH that throws, or a stop.

### Delivery

`Broadcasts`: the job's variables are those of `processBroadcastJob`; `Fetch` reads
a page after the cursor (`Page` models `skip: 1` with a Prisma cursor, an external
behaviour), `WriteRows`, `SendEmails`, `Finish`. `Thrown` and `Crash` and
`StatementFails` give the job back to the queue: BullMQ's attempts, and its handling
of a stalled job, are external. An enqueue that fails is only logged, so
`SendEmails` reaches any part of a page; `missed` (history) is the rest. Rows and
mails of a user are counted up to `Cap`, which the assumption keeps out of reach.

`Notifications`: `Send` writes a row, `Enqueue` adds a push job; `Deliver` and
`EnqueuePush` are what the broadcast worker does for a user, again when its job is
retried and also after the broadcast was deleted, since it looks at its job only.
`MarkRead`, `MarkReadUpdate`, `Count` and `MarkAllRead`, `MarkAllUpdate`, `Count`
are read, update and increment, whose errors are swallowed. `DeleteDerived`,
`DeleteBroadcast` are the deletion's two writes. `Emails`: the subject and the body
of a template are the sets of their placeholders, a service the sets of the
variables it fills in, for either; `Patch` writes any of `Texts` as subject or body,
as the endpoint does, which checks neither. `Enqueue` may lose the reply, `Direct`
is the fallback. `ScheduledEmails`: a tick takes a batch, and sends and marks row by
row. `EmptyTemplate` says whether there is a template whose id is `""`: the code
schedules every e-mail with that id and nothing creates such a row. The runs assume
there is one, to say something of the rest of the worker; without it no e-mail is
ever scheduled.

## 3. Conventions

**Statements and transactions.** PostgreSQL runs at READ COMMITTED and Prisma's
interactive transactions do not change that. A read is a step of its own, inside
a transaction too, because nothing stops another commit right after it. All
writes of a transaction are one step: they become visible at commit, and two
transactions that write the same rows wait for each other. A `where` is evaluated
on the row as it is when the writer gets it, so it is evaluated in that step;
`increment` and `decrement` are relative. Two transactions that lock rows in
opposite orders may deadlock; the database aborts one, which is a failing call.

**Calls.** A request in flight is a record with the name of its next statement
and the local variables it still needs. What it decided on a row it read is
never re-evaluated, because the code does not. Checks and reads with no write in
between are one step with the read.

**Failures.** Where a module has crashes or failing statements they may come
between any two statements. Some rules hold only while none has come.

**Undisturbed calls.** Some rules that the code's own error messages state hold only
while no call overlaps another (or none failed). A module that has such a rule has a
history variable that says whether this is so: `overlapped` (`Withdrawals`,
`BoxOffice`, `Notifications`, `SystemSettings`, `RoomServices`, and with another
name in a composition, `mixed`), `calm` (`Sessions`), `disturbed`, `edited`
(`PartnerOnboarding`, `MovieCatalogue`), `unchecked` (`Scheduling`: creations
overlapped, or came from a movie's plans, which are not checked), a task beyond its
TTL (`ConcurrentLock`). Where one request is enough to put things right again, the
variable names what a race or a failure has left instead, and the rule is claimed of
the rest in every interleaving: `torn`, `crossed` (`Accounts`), `untold`
(`FeatureFlags`), `late` (`PartnerOnboarding`), `missed` (`Broadcasts`). The rule
holds as long as the variable says so, in the same behaviours in which calls
interleave freely. Section 6 says which of these rules interleaving alone breaks.
Both halves matter: the first says the guards are right, the second that they are
not enough.

**History.** Variables marked so in a module record what happened, for the
properties; no action's guard that models code reads them. Bounds (`Max...`) are
conjuncts of the guards.

## 4. Runs and bounds

`tlc -config X.cfg M` for the pairs below. Modules about different components
share an MC module where they have the same bounds and the same kind of question;
there the variable `part` picks, in the initial state, the component whose steps
are taken, and the variables of the others stay initial (they share no rows). A
property of such a module is a conjunction over parts. `CHECK_DEADLOCK FALSE`
where the bounds let everything come to rest.

| Run | Configuration | What it shows | Bounds |
|---|---|---|---|
| `booking` | `MCBooking.cfg` | no double booking, holds, counts, and the refinement of `TicketSale` | 2 seats, 2 orders, 2 calls in flight, 3 requests |
| `payment` | `MCBookingPayment.cfg` | an order moves as a whole, a paid order keeps its tickets, the money adds up | 2 seats, 1 order, 3 calls in flight, 5 requests |
| `expiry` | `MCBookingLiveness.cfg` | an expired lock is freed although runs of the job die | 2 seats, 2 orders, 2 calls, 2 requests |
| `seat_map` | `MCSeatMap.cfg` | looking at the seat map breaks neither a sale nor a hold | as `booking` with 2 requests, and one view |
| `withdrawals` | `MCWithdrawals.cfg` | wallet, withdrawals and ledger agree in any interleaving; no overdraft and no second decision between calls that do not overlap | 3 withdrawals, 2 calls, 2 sales |
| `settling` | `MCSettling.cfg` | the concurrent lock, and what must end under fairness | below |
| `accounts` | `MCAccounts.cfg` | action tokens, passwords, sessions | below |
| `administration` | `MCAdministration.cfg` | guards, settings, flags, user settings | below |
| `partners` | `MCPartners.cfg` | onboarding, catalogue, scheduling, links, box office | below |
| `delivery` | `MCDelivery.cfg` | notifications, broadcasts, e-mails | below |
| `credited_once` | `MCBookingCreditedOnce.cfg` | a disagreement, section 6 | 1 seat, 1 order, 2 calls |
| `expired_lock` | `MCBookingExpiredLock.cfg` | a disagreement, section 6 | 1 seat, 2 orders, 1 call |

**Why these are enough.** Two orders, two calls and two seats are what a race for a
seat, and an order that is cut in two, need; a third call lets a cancellation and
the job come between two confirmations. The theorems of section 8 hold for any
number of them.

The parts:

* `MCSettling`: `lock`, four calls over two keys (one takes both, one passes a
  blank key too, two ask for the same one); `broadcast`, two users, pages of
  one, two attempts, one stop of the worker or failing statement, enqueues that fail,
  users who leave, a deletion; `email`,
  one mail, three attempts, two lost replies; `schedule`, three rows in ticks of
  two, two faults; `settings`, two readers of a key that four PATCHes switch.
* `MCAccounts`: `accounts`, two requests about one active user interleave, fail and
  stop, who may use two spellings of the address, two action tokens; `serial`,
  requests about two users, one at a time, which may fail but not between a password
  and its flag; `sessions`, two calls interleave with crashes, two logins, the
  clock to 2; `calm`, undisturbed, the clock to 3. A token lasts 1 or 2.
* `MCAdministration`: `access`, one request after the other against six rows (every
  role, inactive ones, overrides with and without codes nobody knows) and seven
  guards, while row, token and maintenance mode change; `settings`, two
  administrators with ten bodies, valid and not, over two keys, and a reader; `one
  settings`, one PATCH at a time, a key with an older name, three commits; `flags`,
  two administrators at one key, three changes; `one flags`, one request at a time,
  two keys, five changes; in both any request may stop or lose its entry; `user`,
  three requests (the state is finite without a bound).
* `MCPartners`, two calls in each: `partner`, two users, two requests, failures and
  resets, one of the users signs in and refreshes; `one partner`, undisturbed, three
  requests, two contents; `movie`, writers of one movie with cast and two plans,
  made or skipped; `movie dates`, writers of its days; `one movie`, undisturbed, two
  movies; `show`, two showtimes in a room of two types of seats and a blocked cell;
  `show prices`, every combination of the four prices; `one show`, two showtimes of
  any length, created one at a time, with a page of the check that holds them both;
  `link`, two rooms, one service, failures; `one link`, undisturbed, two services;
  `box`, two calls of the staff at a time, three in all, against one of the
  customer; `one box`, one call of the staff at a time against two of the customer;
  five calls in all in both.
* `MCDelivery`: `notices`, two requests, two users, two rows, a broadcast, one stop
  of a process or failing increment; `one notice`, one request at a time, three rows
  of one user, the deletion of one of two broadcasts while its worker writes, pages
  of one and two; `broadcast`, five users in pages of two, two attempts, one stop of
  the worker or failing statement, two users at most who leave, a deletion;
  `segments`, every segment and channel, any enqueue may fail, nothing else does;
  `mails`, two mails to one address, two attempts, a lost reply each; `templates`,
  every service and every template, of which the seed misses two at most, and of
  which one may be edited to texts with a placeholder it declares and one it does
  not (`MCTexts`); `schedule`, three rows in ticks of two, a campaign of two, two
  lost replies.

Symmetry: `Permutations` of seats, orders, calls, administrators and flags that are
model values, in runs without liveness.

## 5. Fairness

Only four kinds are assumed, and never of users or of time in general:

* the cleanup job (`Booking`): BullMQ repeats it every 60 s with
  concurrency 1, so a run that can start does and its statements follow each
  other: weak fairness of `CleanFindSeats`, `CleanTickets`, `CleanOrders`. A crash
  may interrupt any run, and is assumed not to hit every run at its first update:
  strong fairness of `CleanSeats`;
* timers (`ConcurrentLock`): `setTimeout` fires and time passes. That a task ends
  is not assumed;
* workers (`Broadcasts`, `Emails`, `ScheduledEmails`): a worker that runs takes
  the next job or row, a delay runs out. Stops and faults are bounded by
  constants: a worker that is stopped for ever delivers nothing;
* the settings cache (`SystemSettings`): a fetch comes back, an entry ages.

Each module states them in its `FairSpec`; `PartFairness` of `MCSettling` is their
conjunction, restricted to the part that runs. No fairness is assumed of
customers, staff or administrators, so what only another request would repair is
not shown to be repaired.

## 6. Where the code and its words disagree

Two have a run whose counterexample TLC prints, and are under `findings` in
`PROJECT.json`:

* `credited_once`: "Idempotency: already processed"
  (`payment/infras/repository/repo.ts:110`), but the status is read outside the
  transaction that credits: two confirmations that both read it first credit the
  partner twice. `LedgerBalances` holds all the same: wallet, booked count and
  revenue rows agree with each other, wrongly.
* `expired_lock`: "Treat expired locks as available"
  (`booking/infras/repository/repo.ts:91`), but the tickets of the dead order stay,
  and `Ticket.seatId` is unique: the booking passes its check and fails at the
  insert, for that seat for ever.

The others are behaviours of the modules that no run lists as a property. The
properties of section 7 say what is left of each rule.

*Sale.* The job, with ids read earlier and no condition on the status
(`seat-cleanup.worker.ts:30`), frees the seat of an order paid since: confirmed
tickets on an AVAILABLE seat (the unique index still keeps it unsold). Releases that
repeat give an order's seats back to `availableSeats` more than once
(`booking/infras/repository/repo.ts:203`). A cancellation that read the order before
its payment writes CANCELLED over COMPLETED (`booking/usecase/index.ts:43`, "Cannot
cancel a completed order"). The job returns at line 24 when no seat is expired and
so never reaches an order whose seats were freed otherwise, by a view of the seat
map (`movie/infras/repository/repo.ts:127`) for instance.

*Staff.* An update of a showtime that read SCHEDULED writes over CANCELLED
(`showtime.usecase.ts:150`), or writes CANCELLED itself without refunding; a booking
that read SCHEDULED commits after the cancellation; RESERVED tickets, never paid,
are refunded (`:161`); a ticket refunded between the test and the write of a
check-in becomes USED (`ticket.usecase.ts:61`).

*Money.* Two withdrawals that both read the balance overdraw it
(`finance.usecase.ts:131`); two rejections return the amount twice, and a completion
that read PENDING writes over a rejection (`admin-finance/usecase.ts:278`, `:307`); a
decision before the ledger row exists leaves that row PENDING
(`finance.usecase.ts:167`).

*Accounts.* A task that outlives the TTL of the concurrent lock lets a second one
in, and since release is by key its end then frees that one's key: from there on
even tasks in time may overlap. A refresh that read the row before a revocation
brings the session back (`auth/shared/token.ts:154`), and a revoked session can be
refreshed anyway (`:114`). Two tokens of a user signed in one second are equal, and
the second row cannot be written (`:144`). A temporary password and
`mustChangePassword` are two writes, the first of which clears the flag
(`admin-user.usecase.ts:226`): a request that stops between them leaves a temporary
password nobody has to change, until the next change of the password. Two requests
for one kind of link leave both valid (`auth/shared/token.ts:176`), until the next.
An administrator can create an address in capitals that logs in nowhere (`:69`).

*Settings.* A fetch begun before a change fills the cache after the invalidation
(`settings-service.ts:24`); with two administrators the log tells of changes that
were not made (`system-settings.usecase.ts:170`, `admin-feature-flags/index.ts:151`),
and an entry that cannot be written is dropped with a warning
(`admin-audit-logs/helper.ts:64`), so a change may be missing from the log;
the shutdown turns off the flags it listed, not those that are on
(`admin-feature-flags/index.ts:198`); "Admins can always bypass maintenance" means
those whose token says so (`maintenance.ts:30`).

*Partners.* Two submissions leave two pending requests (`request.usecase.ts:32`); a
rejection or an edit that read PENDING writes after the approval (`:202`, `:59`); an
approval that fails half way can never be repeated (`:125`). A sign-in that read the
role before the approval inserts a session of the old scope after the sessions were
revoked (`:189`), and its refreshes sign that scope again
(`auth/shared/token.ts:136`). A movie and its showtimes are not "created atomically"
(`movie.usecase.ts:109`), and a plan that is skipped is reported to nobody (`:145`),
so a movie may end with none; deletion, update and rejection are by id and reach a
movie whose status has changed (`:283`, `:251`, `:328`). Overlaps are checked before
an insertion, not for plans, and within the first 1000 showtimes only
(`showtime.usecase.ts:53`).

*Delivery.* A job that is repeated writes its notifications again, and `totalSent`
tells the last run (`broadcast.worker.ts:106`); the row after a cursor that left the
segment is skipped (`:89`); a deleted broadcast is delivered nevertheless
(`admin-notifications/usecase/index.ts:155`), and what its worker writes after the
deletion stays; `totalSent` counts e-mails that could not be enqueued (`:137`). Two
readers count twice (`push-notification.ts:138`), an increment that fails is
swallowed (`:143`), and a row written between the two statements of read-all is not
counted (`:159`). An edited subject or body may have any placeholder
(`admin-endpoints.ts:72`): `auth` and `user` fill only `{email}` into a subject
(`auth/shared/notification.ts:25`), so that an edited one with `{{name}}` is sent as
it is. A seed that fails says "completed" (`notification/shared/seed.ts:345`); a
mail that was sent is marked FAILED when the update throws
(`scheduled-email.worker.ts:43`); scheduling writes `templateId: ""`, which the
foreign key refuses (`notification/usecase/service.ts:192`).

## 7. Properties

The sale: `OneTicketPerSeat`, `OrderTicketsUniform`, `PaidOrderKeepsTickets`,
`SeatStatusHasItsTicket`, `AvailableSeatsCovered`, `LedgerBalances` (invariants);
`HoldRespected` (action): neither another booking nor a job with an old list takes
an unexpired lock; `ExpiredLockFreed` (liveness); `ImplementsSale` (refinement of
`TicketSale`, with an order's claim read as its tickets). With the seat map in
play `SaleSurvivesViews` and `HoldSurvivesViews` are what is left of them.

Money: `RefundsAccounted` (staff); `EntryFollowsWithdrawal`, `WalletAccounted`,
`NeverOverdrawn`, `DecisionIsFinal`. The first two hold in any interleaving and
through crashes, the last two until calls overlap.

The properties of the MC modules with parts are conjunctions of those of the
components:

| Property | Conjuncts |
|---|---|
| (`ConcurrentLock`) | `OneTimerPerEntry`, `EntriesHaveTasks`, `MutualExclusion` (until a task outlives its TTL), `KeysComeBack` |
| `WorkEnds` | `JobsEnd`, `MailsEnd`, `DueSettles`, `StaleEntriesGo` |
| (`Accounts`) | `TokensSingleUse`, `TokensHaveUsers`, in any interleaving |
| `AccountsInOrder` | but for `crossed` links: `OneLiveToken`; but for `torn` users: `TemporaryMustChange` |
| `SessionsNeverMultiply` | `NoSessionMultiplied`, `OneRowPerToken` |
| `RevocationsLast` | while calls are calm: `RevokedStaysRevoked`, `EachDeviceKeepsItsSession`, `InactiveHasNoActiveSession` |
| (`AccessControl`) | `RowDecides` |
| `SettingsTrue` | `ReadersAgree`; until two PATCHes overlap: `AuditsHappened` |
| `FlagsTrue` | `OneFlagPerKey`; but for `untold` flags: `LogTellsState` |
| `UserSettingsTrue` | `SavedIsStored`, `AnswersWereTrue`, `NoOrphan` |
| `PartnersComplete` | `ApprovedIsComplete`; but for users who were signing in (`late`): `SessionsAreFresh`; undisturbed: `OnePending`, `RejectedHasNoPartner`, `ApprovedAsReviewed`, `RefusedHasProfile` |
| `MoviesConsistent` | `CastIsOneList`, `ApprovedIsPublished`, `CreatedHasShows` (of the plans that were not skipped), `AuditIsTrue`, `DatesInOrder`; undisturbed: `DeletedWasDraft`, `RejectedUnpublished` |
| `ShowtimesConsistent` | `SeatsMatchTotal`, `SeatsArePriced`; as long as each was checked against all others: `NoOverlap` |
| `LinksConsistent` | `NoDangling`; one request at a time: `LinksAsAnswered` |
| `ScannedBeforeUse`, `RefundsAccounted` | `UsedWasScanned`, `RefundsCovered`; one call of the staff at a time: `OneUnearnedRefund` |
| `NotificationsCounted` | `PushedAsListed`, `PagesMakeTheList`; until one is deleted: `CountedWereRead`; until something begins while a request is in flight, stops or fails: `CountExact` |
| `BroadcastsExact` | `OncePerRun`; nobody leaves and nothing stops or fails but enqueues: `DeliveredExactly` |
| `MailsOnce` | `NoneLost`, `OncePerFault`, `FilledIn` (seeded texts wholly, edited ones as far as the service fills them) |
| `ScheduledOnce` | `NeverEarly`, `SentWasDelivered` |

Each also holds the type invariant of its module.

Every property of a passing run has a mutant in `PROJECT.json`: a plausible bug
(a dropped guard or index, a missing reset, an update by id where the code has a
condition, an off-by-one at a page) under which TLC finds it violated.

## 8. Proofs

Every invariant of every passing run, and every action property and refinement,
is a theorem, for all values of the constants that satisfy the named assumptions
of the modules. These say that a bound is a number, that a null value is not an
element of the set it is null for, that the tables of the code which are
constants have their form, and that seats, orders, requests and staff calls are
finite sets, as rows and processes are (where sums or counts range over them).
Nothing bounds how many there are.

**Booking** (`BookingProofs`).

* `TypeCorrect`: `Spec => []TypeOK`.
* `SaleInvariant`: `Spec => []SaleInv`, the inductive invariant. `OneTicketPerSeat`
  and the others are not inductive by themselves. `SaleInv` adds
  - `RowInv`: a seat with a ticket is either LOCKED by exactly that order or not
    locked at all, all seats of an order have the same status, and seats without a
    ticket were never touched. This makes the job's list of expired seats hold
    all the seats of an order or none;
  - `OrderInv`: an order row exists exactly when its tickets do;
  - `CallInv`: a booking in flight has its order id to itself, and the seats a
    release is about to free are all the seats of its order;
  - `CleanerInv`: the job's list holds whole orders, and after its first update no
    seat of the list is LOCKED, so cancelling RESERVED tickets of the list never
    hits a live booking.
* `NoDoubleBooking`, `OrdersWhole`, `PaidOrdersKept`, `SeatsMatchTickets` follow.
* `AvailableCountSafe`: with the cardinality of disjoint unions, since a booking
  subtracts exactly the seats that get their first ticket.
* `LedgerAddsUp`: `LedgerInv` is `SaleInv` with what every order has been confirmed
  for, once or (a disagreement of section 6) more often: wallet and booked count
  are sums over the orders, and only a confirmation changes a term.
* `HoldsRespected`: with one more invariant, `ListExpired`: the seats the job is
  about to free have an expired lock or none. `NextRespectsHold` is its step.
* `BookingImplementsSale`: each step that writes rows is one of five kinds
  (`StepKinds`), and each kind is a `Hold`, `Sell`, `Release` or a stutter of
  `TicketSale`.

The row lemmas (`ReleaseRowsInv`, `ConfirmRowsInv`, `LockRowsInv`,
`CleanSeatsRowsInv`, `CleanTicketsRowsInv`) say what each write does to `RowInv`;
the frame lemmas say what a step that leaves some rows alone keeps.

**Seat map** (`BookingProofs`). `MapInvariant`: the invariant of `Booking` with
`ListExpired` (`HoldInv`) survives views, given `ViewInv`: a view's clock is never
ahead of the orders that are overdue. Freeing expired seats is shown to be, for
the rows, one of the steps the row lemmas know. `SaleKept` and `HoldsKept` follow,
so a view can leave tickets behind but never take a seat that is sold or held.

**Concurrent lock** (`ConcurrentLockProofs`). `LockInvariant` with
`TimersMatchEntries` and `EntriesMatchTasks` for tasks of any length; for
`TasksExclude` the invariant has `TasksHaveEntries`: until a task outlives its
TTL, a running task still has all its entries, none of them past it.

**Accounts** (`AccountsProofs`). `AccountsInvariant`: `NumbersInv` says a stored
token was issued and not accepted, and numbers above `issued` were never
accepted, which is what makes `TokensSingleUse` inductive; `RowsInv` keeps a row
that exists apart from one that does not. `ActionTokensOnce`,
`ActionTokensHaveUsers` follow, for any number of requests racing for a token.
`AccountsKeptInOrder` (`OrderInv`) holds for any number of requests that interleave,
fail and stop: of a user whose links have not crossed there is a link of a purpose, or
one request about to create it, or neither (`LinksInv`); of a user who is not torn the
flag follows the password, but while a request has still to write the flag of the
password it wrote (`FlagsInv`). Each write either keeps this, mends it, or is what
`torn` and `crossed` record.

*Sessions.* `SessionsCounted` (`CountInv`): rows and refreshes between deletion and
creation are finite sets, which grow and shrink by one, and together are as many as
the logins at most. `RevocationsKept` holds while calls are calm (`CalmInv`): a device
has one row and was numbered at its login (`CalmRowsInv`), what the one call in flight
has read is still true (`CalmCallsInv`), and nobody inactive has an active row unless
the call that is to revoke it is under way (`CalmStatusInv`).

**Withdrawals** (`WithdrawalsProofs`). `LedgerInvariant`: `CallInv` (a creation has
its id to itself until its entry is there) and `EntryInv` give `EntriesFollow` in
any interleaving. `SerialNeverOverdraws` and `SerialDecidesOnce` hold until calls
overlap: with `AloneInv` a call's reading of the balance, and of the status, is
still true when it writes. `WalletExplained` (`AccountInv`): `totalWithdrawn` is at
least the sum of the withdrawals with a row and of the debits whose row is still to
come (`Debited`); until calls overlap the balance is exact up to a debit that lost
its row to a crash.

**Sums** (`SumTheorems`). The sums of the wallet properties are folds over finite sets.
Since induction theorems with an operator parameter cannot be used here, each fact
(a sum after one term changes, monotonicity, a sum of zeros, the sum of a sum) is
shown by a smallest counterexample: of the finite sets on which it fails one
has the least cardinality, and it holds without one element of it.

**Administration** (`AdministrationProofs`).

* `AccessInvariant`: a request carries the row it has read (`RequestOK`), and what a
  guard lets pass is what the roles and overrides of that row allow
  (`HasPermissionIsEffective` and the lemmas after it). `RowsDecide`,
  `OptionalSucceeds` follow from it, for every route and row.
* `SettingsAreTold` (`SettingsInv`): every stored row is one its key normalises to
  itself (`Clean`), whichever spelling came in, so cache and page agree in any
  interleaving; the only PATCH in flight knows the rows it compares with
  (`KnowsRows`), so its entries are true.
* `FlagsAreTold` (`FlagInv`): the unique index; and of each flag that is not `untold`,
  that the log tells its state or the one request that is about to tell it does
  (`Agrees`). A request touches only flags that exist (`Touches`).
* `SettingsAreTheUsers` (`UserInv`): a creation of the defaults, an update and the
  deletion of the user in any order.

**Delivery** (`DeliveryProofs`).

* `NotificationsAreCounted` (`CountsInv`): `PushInv`, a push job carries a row as it is
  listed; `ReadInv`, a counted reader has read a row of the broadcast; `ExactCount`, with
  no or one request in flight the count lacks exactly what that request is about
  to add. That the pages of a list are the list, for any number of rows and any
  limit, is arithmetic on places in it (`Places`, `Parts`).
* `BroadcastsReachTheirSegment` (`BroadcastInv`): a user has at most as many rows and
  e-mails as there were runs, and one less beyond the cursor (`RunsInv`), whoever leaves;
  while nothing
  disturbs the run (`ExactInv`) those before it have exactly what the channel asks for,
  but for the e-mails that could not be enqueued.
* `MailsSentOnce` (`MailsInv`): who has what of a mail, its request, its job or its
  addressee (`JobsInv`), how many copies faults allow (`CopyBound`), and that what the
  service fills in covers the placeholders of the seed (`Legible`).
* `ScheduledEmailsSentOnce` (`ScheduleInv`): the batch of a tick holds rows that were due
  (`BatchInv`), and `CopiesInv` bounds the copies of each row by the replies and ticks lost.

**Partners** (`PartnersProofs`).

* `PartnersAreComplete` (`OnboardingInv`): of an approval in flight, which of the six
  writes it relies on (`Relies`) and that no other call takes them back (`Grows`); after
  the revocation a user who was not signing in then has no session of the old scope and
  none under way (`Fresh`), and a refresh has only scopes of sessions to sign again;
  undisturbed (`CalmInv`), the only call knows the request it decides on.
* `MoviesStayConsistent` (`MovieInv`): what an edit in flight holds (`EditHolds`), and how
  a row may move under it (`RowMoves`); a creation in flight has made or skipped the
  plans that are not left; `MovieCalm` for the undisturbed rules.
* `ShowtimesStayConsistent` (`ShowInv`): a showtime being created has the seats made so
  far and its call the plan of the rest (`PlanHolds`, `SeatsFor`), whatever happens
  to the room's layout. `NoOverlap` needs `ShowCalm`: as long as there are no more
  showtimes than the check looks at (`AllListed`) it sees all of them (`PageIsAll`), and
  what the one creation in flight is going to insert is apart from all there are.
* `LinksStayConsistent` (`LinkInv`): `NoDangling` is inductive with the types and the
  unique names; undisturbed (`LinkCalm`) the request in flight agrees with the rows it
  replaces (`CallAgrees`) and every other room has the services of the last answer.
* The box office. A step of the staff is one of nine moves (`BoxStepMoves`), one of
  the sale is another (`SaleMoves`), which splits the proofs below. `ScansComeFirst`
  (`ScanInv`): whoever is about to mark a ticket has inserted its scan.
  `RefundsAreAccounted`: `CoveredInv`, refunds written and debits whose refund row is
  still to come together are at most `totalWithdrawn`, in any interleaving; `DueInv`,
  while staff calls come one at a time, refunds, the one in hand and those to come
  (tickets still on the list and not refunded) are at most one more than the
  confirmations.

**Only model-checked**: liveness (`ExpiredLockFreed`, `KeysComeBack`, `WorkEnds`), whose
fairness is ENABLED, out of the prover's reach. No module a theorem depends on has a
RECURSIVE operator.

## 9. Not modelled

* **Ticket reading, administration reports, dashboards, analytics**: queries.
* **Categories, cinemas, reviews, plans, banners, the rest of the public
  catalogue**: single-row CRUD and queries; a model would restate the statement.
* **Staff**: a repository without a route; the one insertion that happens is in
  `PartnerOnboarding`.
* **HTTP, sockets, uploads, logging, start-up**: I/O and wiring. Handlers appear
  as far as they order the calls they make.
* **Seeds**: data, except the template seed, which is in `Emails`.
* **External**: PostgreSQL, Prisma, Redis, BullMQ, SMTP and the push service are
  modelled from how the code uses them; hashing, signing (beyond equal payloads
  giving equal tokens) and identity providers are left out.
* **Left out inside modelled components**: profile fields, texts and layouts,
  validation of single fields that only ends a request early; the mail that a
  registration sends. The one hazard in `PROJECT.json` without a property, a booking
  that commits after its showtime was cancelled, is modelled (`BoxOffice`): the code
  does not prevent it, so there is nothing to hold.

What would be worth adding: `Sessions` composed with `AccessControl`, so that a
revocation is followed to the request it should refuse; an abstract account
book that `Withdrawals` and the box office both implement; and one that the
workers of `Delivery` implement with at-least-once semantics.
