# TLA+ models of the booking platform

TLA+ modules, TLC runs and TLAPS proofs for the Booking-Platform-Backend: five
services (a Go gateway and auth service, a Go review service, and TypeScript
services for bookings, hotels and notifications) with a MySQL database each,
BullMQ queues and locks in Redis, and a search index in Elasticsearch. The
repository has no tests, and races, crashes and lost calls are what tests would
reach last, so the models are aimed at exactly those.

Paths below are relative to the repository root. `Booking.tla:Op` means the
definition `Op` of that module; `PROJECT.json` maps every modelling definition to
the source lines it stands for.

## The system

| component | state it keeps | operations that change it | modelled |
|---|---|---|---|
| BookingService: bookings | `Booking`, `IdempotencyKey` rows; a redlock per hotel in Redis | create, confirm, cancel | `Booking` |
| HotelService: room rows | `rooms.booking_id` | assign (PUT), release (DELETE), called by the BookingService over HTTP | `Booking` |
| HotelService: room generation | `rooms` rows per category and day, the room-generation queue, the cron job | post a job, start/stop scheduler, scheduled and manual extension, the worker | `RoomGeneration` |
| HotelService: hotels and search index | `hotels` rows, the hotel-index queue, Elasticsearch documents | create, update, soft delete, worker, startup sync | `HotelIndexing` |
| ReviewService: reviews | `reviews` rows | create (asking the BookingService), edit, soft delete; get and the lists | `Reviews` |
| ReviewService: batch | `is_synced` flags, MySQL advisory lock, the hotel's rating through HotelService | `ProcessPendingRatings` two seconds after startup, then every 30 seconds (dev) or every hour (prod) | `RatingSync` |
| ReviewService: rating arithmetic | `rating DECIMAL(3,2)`, `rating_count` | running average | `Reviews` |
| AuthService: accounts and tokens | `users`, `refresh_tokens`, `password_reset_tokens` | signup, login, refresh, logout, change/forgot/reset password | `Accounts` (not the profile) |
| AuthService: roles and permissions | `roles`, `permissions`, `role_permissions`, `user_roles` | CRUD, grant, assign | `RoleTables`, `Accounts` |
| AuthService: rate limiter | token bucket per address, in memory | one request | `RateLimiter` |
| AuthService: gateway and health | a database pool per role check | the middleware chain, the reverse proxy, the health probe | `Gateway` |
| NotificationService: mail worker | the queue of mails, shared with the BookingService | add a job, the worker, a start and a crash of the service | `MailQueue`, `BookingMail` |
| room categories, hotel reads, search | none that a request changes | | no |
| routers, validators, loggers, error classes, migrations, seeders | none of their own | | no; what validation lets through is part of the inputs |

How they interact. The BookingService asks the HotelService for free rows
(GET), takes a redlock on the hotel, inserts booking and key in its own database
and then has the HotelService write the booking's id into the rows it read
(PUT); a cancel releases them (DELETE) before it writes its own status. Nothing
spans the two databases, so every `await` between them is a place where another
request, a failure or a crash comes in. The room worker and the scheduler share
the `rooms` table through a queue. The ReviewService pushes an aggregate into the
HotelService and marks its own rows afterwards. HotelService mutations reach the
index through a queue, by enqueues nobody awaits.

Hard behaviours: a check before a lock (availability, then redlock); TTLs that
run out on a running holder; calls whose caller gave up but that are served all
the same; writes to two stores with a crash between them; overlapping runs of
cron, manual and startup work; jobs run twice after a stall; jobs queued in
another order than the rows changed; instants compared with SQL dates; advisory
locks that belong to a pooled session. `PROJECT.json` "hazards" lists each with
its line and the properties that guard it.

What makes each component right:

- bookings: a room carries only a booking that read it free; status and key move
  together; one confirm per key; a cancel frees the rooms for good; a hold is
  lost only to its cancel or a create that read the same row; requests end.
- room generation: no midnight twice, no day of a job left out, no gap, jobs of
  whole days end.
- batch: no review is lost (up to the cutoff second), counted twice only after
  an interruption, each synced in the end unless the lock is left behind for good.
- index: settled documents show the current row, old data never replaces newer
  data, deleted hotels stay out of search.
- reviews: a review is of its user's own stay, which was confirmed at some moment
  while the BookingService was asked for it; a deleted one stays
  hidden, and the number a hotel shows is that of its synced reviews up to a
  rounding error that is bounded.
- accounts: an answered signup has one role; a reset link does nothing once a reset
  with it was answered, and is spent only together with a password change.
- roles: no assignment or grant outlives what it names.
- limiter: in no span of time more than a full bucket and the refill, and nobody
  refused before that.
- gateway: a service sees only requests whose user had the role while it was
  checked; "healthy" is not said of a service that was down all the time; a
  request gets a status unless its service does not read it.
- mail: only a cancel that was carried out is mailed of, at most once more than
  its job stalled, and no queued mail is forgotten.

## Modules

| module | what it is |
|---|---|
| `Booking` | three operations as concurrent one-shot requests, the redlock, the row locks of the confirm transaction, the two HTTP calls that write rooms |
| `BookingLifecycle` | the abstract specification of a booking: held, booked once by its key, void |
| `RoomGeneration` | producers, queue, worker, cron and manual runs over the rooms table |
| `RatingSync` | the review batch over pooled sessions that may close, with lock, cutoff and per-hotel transaction |
| `HotelIndexing` | hotel rows, unawaited enqueues, queue, worker, stalled jobs, startup sync |
| `Accounts` | accounts, roles, refresh and reset tokens as tables that requests change a statement at a time |
| `Reviews` | review requests a statement or call at a time beside a batch, with the arithmetic of the average |
| `RateLimiter` | the map of buckets under its mutex, and the bucket |
| `RoleTables` | roles, permissions and the two tables that join them |
| `Gateway` | `RoleTables` with requests through the middleware chain, the proxy and the health probe |
| `MailQueue` | the mail queue, the NotificationService and its worker |
| `BookingMail` | `Booking` and `MailQueue` composed: a cancel's mail is a job of the shared queue |
| `BookingProofs`, `RoomGenerationProofs`, `RatingSyncProofs`, `HotelIndexingProofs`, `AccountsProofs`, `ReviewsProofs`, `RateLimiterProofs`, `GatewayProofs` | theorems about the module of that name; `BookingProofs` has those about `BookingMail`, too |
| `BookingClaims`, `RatingSyncClaims` | what the repository's documents say and the code does not do; each claim has a run that refutes it |
| `MC*` | small constants for TLC |

Each component module is self-contained and parameterised by CONSTANTS with a
named assumption. Three compositions: `Booking` joins the two services that
share a booking, `BookingMail` adds the queue and the third service, and
`Gateway` puts requests beside the tables their role checks read.
Definitions marked "Fault" are the plausible bugs the properties are tried
against: in each, one action of the code is replaced and TLC has to find the
property broken. They are not part of `Next`.

### Booking

A request is a process: `op` says what it does, `pc` which `await` it is at. Each
`await` that reads or writes shared state is one action, named after the
function it translates. `status` and `idemKey` are the two tables of the
BookingService (a key is a UUID with a unique `bookingId`, so it is identified
with its booking), `bookedBy` is `rooms.booking_id`, `lock` is the redlock key.
`wire` is the request's HTTP call: sent, then served (`Serve`) or lost, and it
may be served after its caller has failed. `Fail` is an exception or a crash at
any `await`; nothing in the code compensates, and neither does the model. Row
locks of the confirm transaction are derived from `pc`; its two updates become
visible together at `FinalizeIdempotencyKey`, which is the commit.
Nothing releases the redlock: `createBookingService` drops the lock object, so
only `RedlockExpires` frees it. `ExpiryMidRequest` says whether the TTL may run
out on a running request.

Abstractions: guests, price and the user are left out; a stay is a category and
two dates; `ceil` of the length over a day is `TotalNights`; the mail job is the
fact that it was queued. `settled` is history.

### RoomGeneration

Instants are integers, `Day` of them to a day, because the code compares an
instant with a SQL DATE: `FindByRoomCategoryIdAndDate` finds a row only for a
midnight, and a row is kept under the day of the instant it is created with.
`worker` is the position in `generateRooms` and `processDateBatch`: the batch
start `from`, the date `cursor` that is looked for next, and the dates found
`missing`, which are inserted by one statement. The crash of the process stalls
the worker's job, which BullMQ runs once more, drops the scheduler's runs and
starts the scheduler again. A failed job is gone, because no attempts are
configured. Left out: the price of a row and the count in the job's result.

### RatingSync

A hotel's `{rating, ratingCount}` is modelled by what it is made of: how many
times each review has gone into it. Instants are the seconds of `created_at` and
of the cutoff. GET_LOCK, RELEASE_LOCK and transactions run on the session the
pool of `database/sql` picks. RELEASE_LOCK on another session than the one that
has the lock does nothing, so the lock may be left behind (`LeftBehind`); a session
that closes while it is idle gives its lock up, in the middle of a run too
(`SessionCloses`). A PATCH whose connection breaks is assumed to be
served before the run goes on or never. A review's `created_at` and its becoming
visible to the batch are one step, where an INSERT may take longer than the second
it carries. `interrupted` counts PATCHes that went
through without the commit after them; `MaxInterruptions` bounds them.

### HotelIndexing

A row is a `version` counted up by each update. `pending` are `scheduleIndex`
calls on their way, which reach the queue in any order or fail. The worker reads
the row when it takes a job and writes the document later, so updates come in
between. `stalled` jobs are put back in front of the queue any time later.
`dropped` and `revived` are history and let the properties say exactly when a
document may be out of date. Room categories, which are part of a document but
which no request changes, are left out. So is a document that Elasticsearch writes
after the client has given the call up: a call that failed has written nothing.

### Accounts

A request is a process again, a statement a step. A refresh or reset token is
identified with the login or forgot-password request that made it, a password
with the request that set it; `expired` says which reset tokens are past their
date, which may happen at any time. A refresh finds its row and fails: `ParseTime`
is set (`config/db/db.go:21`) and the expiry is scanned into a string
(`models/refresh_token.go:7`), so it comes as RFC 3339, which the layout of
`user_service.go:171` does not parse. No refresh is answered with a token, and the
row that has expired is never deleted. `userRoles` counts the rows of `user_roles`, which
has no unique key. `AssignRoleToUser` is one step: its transaction deletes the
user's rows first, and InnoDB's locks on them keep a second one out until the
commit. `access` are the users a login has answered with an access token. The
role check of an assignment is its first step, the transaction its second, so
roles change in between. `assigned`, `wrote` and `late` are history.

### Reviews

An API request is a one-shot process, a statement or a call a step: a create
reads the booking over HTTP (`GetBooking`) and inserts later (`Create`), an edit
updates and reads again (`Update`, `GetByID`), a delete sets `deleted_at`. The
batch runs beside them, one run at a time (its lock and its crashes are in
`RatingSync`), with the arithmetic: a rating is a number of hundredths, and
`Nearest` is what DECIMAL(3,2) keeps of a quotient, where a tie may go either way.
`PATCH` and commit are two steps, and `interrupted` counts PATCHes that had no
commit. A comment is what makes an edit with the same stars change a row, so
the outcome of such an edit is a choice. `stays` is history: the creates during
whose call to the BookingService the booking was CONFIRMED at some moment.

### RateLimiter

A limiter is known by the request that made it, so that two limiters for one
address could be told apart. Lookup and insert are one step because they run
under the mutex. Time and tokens are counted in fractions of a second: a tick
of the clock brings one fraction. `passed` and `passedAt` are history for the
bound over every span of time. The limiter's own lock makes a call one step; that
`x/time/rate` reads its clock before it takes that lock, so that two calls may be
served in the other order than their instants, is left out.

### RoleTables and Gateway

`RoleTables` changes its tables by one statement or one transaction a request,
and what the foreign keys cascade to is part of it. `rolePermissions` counts rows, because
the table has no unique key. `Gateway` follows a request through rate limiter,
CORS, token, the new database pool and the role check to the proxy, or to the
health probe, whose goroutines answer one after the other in any order. The proxy
is written down by what bounds it: "forwarding" is a request on its way to the
service, which nothing bounds; "awaiting" is one that is written, for which the
`ResponseHeaderTimeout` runs; "copying" is a response whose headers were passed on
and whose body comes for as long as it takes. A service may begin before it has
the whole request and may work on it after the proxy has given up (`Serve` from
"502").
`Watch` keeps the history: who had the role while being checked, which services
were up during a probe.

### MailQueue and BookingMail

A job is `waiting`, `active`, `completed` or `failed`; the worker takes the job,
renders it, hands it to SMTP and reports to the queue, in a step each. A worker
whose process dies or cannot renew its lock leaves a stalled job, which goes back
to the queue once and fails the second time; the run that lost its lock goes on
and may still send. In `BookingMail` the step of a cancel that queues its mail
adds the job to the shared queue (`Queued`), also when the BookingService dies
before it hears of it (`QueuedAndCrashed`); all other steps interleave.

## Runs

| run | instance | what it shows |
|---|---|---|
| `booking_safety` | 4 requests of any kind, 2 bookings, 3 rows, stays that share a day, TTL at any time | type; `RoomsBelong`, `KeyMatchesStatus`, `ConfirmOnce`, `CancelFreesRooms`, `HoldSurvives`, `CancelledForGood`; `ImplementsLifecycle` (refinement) |
| `booking_liveness` | 3 requests, 3 bookings, TTL after the request | `HotelExclusive`; every begun request ends; the lock comes free |
| `rooms` | 1 category, 6 days of 2 instants, cron and manual runs, one posted job of four kinds, crashes | `NoDuplicateRows`, `BatchesCovered`, `NoGap`, `JobEnds` |
| `ratings` | 3 reviews of 2 hotels, one run at a time, 2 sessions that may close, a lock held twice, 1 interruption per hotel | `LostOnlyInCutoffSecond`, `CountedOncePerInterruption`, `EventuallySynced` |
| `reviews` | 3 requests of any kind, a booking that is confirmed and cancelled, good and bad bodies, one interruption | `ReviewsOfOwnStay`, `DeletedStaysHidden`, `RatingShowsReviews`, `DriftBounded` |
| `index` | 1 hotel, 3 versions, 2 enqueues of a kind on the way, 2 waiting jobs | `SettledIsCurrent`, `GhostsWereRevived`, `IndexNeverOlder`, `ChangeIsFound` |
| `accounts` | 4 requests, an administrator, a user and a new user, 3 roles, one change of the roles table | `OneRolePerAccount`, `LinkIsSpent`, `SpentWithChange` |
| `limiter` | 6 requests of 2 addresses, bursts of 2, half seconds, 2 seconds | `WithinBurst`, `NoNeedlessRefusal` |
| `gateway` | 2 requests, a service for all and one for admins, 3 roles, 2 permissions, 2 changes of the tables | `NoOrphans`, `OnlyWithRole`, `HealthyWasUp`, `AllAnswered` |
| `mail` | a create and a cancel, another mail in the queue, 2 starts of the NotificationService | types; `MailAfterCancel`, `OncePerStall`, `MailSettles` |
| `claim_double_booking` | 2 creates | refutes README.md:76 (`NoDoubleBooking`) |
| `claim_one_run` | startup and cron run, 2 sessions | refutes ReviewService/README.md:682 (`OneRunAtATime`) |

`PROJECT.json` "mutants" has for each property a fault of the code that breaks it.

Bounds and why they are enough. Two bookings and four requests allow a create
and its confirm and cancel beside another request of any kind, which is the
longest conflict the code has: every conflict is over one booking, one key, one
lock or one row. `Requests` are one-shot, so their number bounds the behaviour and
the system stops (deadlock is not an error). Three rows give two stays that
share one. Six days hold the window, a posted job and the two days the scheduler
adds beyond it; at the end of `Days` the scheduler stops, as it does in no real
run. Two instants to a day tell a midnight from another instant. Three reviews
give two of one hotel (grouping) and one of another. Two sessions in
`ratings` are the one that has the lock and another one a RELEASE_LOCK or a
transaction goes to; a session that is picked again holds the lock twice. Several
runs at once are in `claim_one_run`. In
`reviews` three requests are a create, an edit and a delete of it, or two of them
that race, with any number of batches between. Three
versions let a job lag behind twice. Four requests of `Accounts` are a login, a
refresh, a logout and one request more, or a forgotten password, two
resets and one more, or an administrator's login and assignment beside a
signup. Hotels of the index are independent of each other but for the shared
worker. Six requests empty a bucket of two, refill it and empty it again, or
start two buckets. Two requests of the gateway are one on its way and one
beside it, two changes of the tables a role taken away and given again. One
cancel and one other mail let a job wait behind another and stall twice; two
starts let the worker die in the middle of a job and come back. Most
safety properties are also proved for every size, see below.

Fairness, and why the code justifies it. Node runs the continuation of every
settled promise, so a begun request or job goes on: weak fairness of its steps.
A call is served or its connection breaks. Redis expires keys. node-cron and
robfig/cron fire again and again. Goroutines run, and the timers of the response
headers and of the health client fire. No client has to send anything, no service
has to read a request, to answer it or to finish its answer, and nothing has to
fail: `AllAnswered` therefore speaks of the status of a request that is written, and
the steps from "forwarding" and "copying" are not fair. A run of the batch gets the
lock when it is free; that it is handed the session that has it may happen and
need not, and nothing makes a session close. `RatingSync` and `HotelIndexing` promise their
liveness for a time when failures have come to an end: in `RatingSync` the action
`CalmDown` ends them and sets `calm`, in `HotelIndexing` only finitely many steps
are crashes. `MailSettles` wants the NotificationService started again after a
crash, which is the operator's part, and BullMQ's check for stalled jobs.

## Proofs

The theorems hold for every value of the constants that satisfies the named
assumptions of the modules: any number of requests, rows, hotels, users and
crashes, any bound. None of the properties is inductive by itself, for each
speaks of what is answered or settled; the invariants say what is so on the way.

- `BookingProofs`: `TypeCorrect`, one theorem per safety property
  (`RoomsBelongAlways`, `KeysMatch`, `ConfirmedOnce`, `HoldsSurvive`, `CancelsFree`,
  `CancelIsFinal`, `Exclusive`) and `Refinement` (every step of `Booking` is a step
  of `BookingLifecycle` or a stutter). `IInv`: a request has a target exactly from
  the insert on and only one create has a given booking; the phase of a create
  fixes the state of its booking and key; a call is sent only from the phase that
  follows it; a room that carries a booking was written by that booking's create,
  so a late PUT can belong only to a request that has not been answered; two
  confirms of a key never hold its row at once, and a committed one leaves the key
  finalized; the holder of a hotel's lock is the only request in its critical
  section unless the TTL may run out.
- `BookingProofs` on the refuted claim: `NoDoubleBooking` fails because the rooms are
  read before the lock is asked for. `ApartCreatesDoubleNothing` says that this is
  the only way but one: if no two creates of the same room are at once between the
  read of it and the last moment they may assign it (`CreatesApart`), two living bookings share a room only after a cancel gave the
  rooms of one of them back and then failed, or was undone by a confirm.
  `ApartCreatesKeepRooms` concludes that, without cancels, the claim itself
  holds then. `FreeTillAssigned` says that what a create has read free is free until
  it assigns it, `KeptTillGivenBack` that it keeps it until a cancel.
- `BookingProofs` on `BookingMail`: `BookingGoesOn`, every behaviour of the composition is
  one of `Booking`'s `Spec`, so what is proved of `Booking` holds in it;
  `MailOnlyAfterCancel` and `SentOncePerStall` by
  `MailInv`, which counts with the mails that are out the one an active run may
  still send, and `JobsOfCancels`, that a request with a job is a cancel whose rooms
  are given back. `SettledForGood`: a job that completed or failed is not touched
  again, though a run that lost its lock goes on.
- `RoomGenerationProofs`: `NoSecondRow`, `OneRowOfMidnights`, `BatchesFilled`,
  `NoGapOpens`. A row is made two
  steps after it was found missing; `NothingMade` says that nothing else made it
  meanwhile, and `OneMidnight` that a day has one instant the code looks for. A job
  that begins at another instant finds no row and inserts a second one;
  `NoSecondRow` says that nothing else does, and `OneRowOfMidnights` that without such
  jobs there is none (`AtMidnights`: the worker goes from midnight to midnight). For
  `BatchesFilled`, each date of the batch at hand that was looked for has its row or is
  among the missing (`AtBatch`). `NoGapOpens` has a hypothesis on the clients: they
  post only jobs that begin on a day with a row or on the day after one
  (`JoiningPosts`), for nothing in the code keeps a client from posting a job that
  leaves a gap; that the scheduler's jobs do so is part of the proof
  (`Joined`). Both need that the calendar `Days` holds the dates of the jobs
  (`CalendarHolds`, which is so of all integers; the `Days` of a run have an end), and
  that the rows of the start have no gap (`GaplessAtFirst`). In
  `NoGapFromTheStart` the jobs join the rows of the start (`JoinsAtFirst`), which needs
  no hypothesis on behaviours; `MCRoomGeneration` assumes the three, so TLC evaluates
  them on the instance of the run.
- `RatingSyncProofs`: `SyncTypes` holds of all behaviours. The promises do not: two runs
  that overlap may count a review twice without any interruption, and that runs
  overlap is what `claim_one_run` shows. `LossOfApartRuns` and `CountOfApartRuns` prove
  them of behaviours in which no two runs overlap (`OneRunAtATime`), for any number
  of sessions, hotels, reviews, failures and crashes.
  That they do not overlap is not proved of the code, which lets them: a session
  that has the lock gets it again, and one that closes loses it in the middle of a
  run.
  `Due` says that an aggregated review whose hotel is still to come is not synced,
  `Known` that one that is not aggregated is of the cutoff's second or later, `Pushed`
  that a transaction marks what its PATCH counted, `Counted` what a rating owes to
  PATCHes without a commit.
- `HotelIndexingProofs`: `SettledShowsRow`, `GhostsOnlyRevived`, `NeverOlder`. For an
  active hotel whose document is not its row an index job is on its way that will
  read the row (`Promised`); for a deleted one that can be found, a delete job
  (`Leaving`) with no index job behind it (`NothingBehind`); no document and
  nothing carried to one is ahead of the row (`Behind`).
- `AccountsProofs`: `LinkSpent`, `SpendsWithChange`, `OneRole`. `Fits` says
  what a request on its way can be, `Tokens` who may bring a token and that a
  token that is gone stays so, `Signups` that an account has one signup,
  `RolesAgree` what a transaction that is under way has left.
- `ReviewsProofs`: `OwnStays`, `DeletesLast`, `OneDelete`, `DriftStaysBounded`,
  `HotelsShowReviews`. `Vetted` keeps what the booking check saw, `Hidden` that what was
  gone when a request began stays gone, `Steady` that the rating the batch has
  read is still the hotel's; the drift bound follows from that of one rounding
  (`WithinDrift`), and the last theorem compares the hotel with the reviews of an
  open aggregate, hotel by hotel.
- `RateLimiterProofs`: `BurstBounded`, `RefusalsNeeded`. For the limiter of an address
  the tokens spent since an instant and those left are never more than a full
  bucket and the refill since (`Bounded`), and exactly that since some instant
  (`Exact`).
- `GatewayProofs`: `ReferencesHold`, `RoleNeeded`, `HealthIsTold`. `Vetted` speaks of a
  request from the moment its user is known, `Probed` of a probe whose pings are
  not all in.

Type correctness is a theorem of each of these modules, which is why most runs do
not check it again. TLC checked each inductive invariant on a small instance
before its proof.

Only model-checked: all liveness (out of the prover's reach: fairness and
`ENABLED`), that is `RequestsFinish`, `LockComesFree`, `JobEnds`, `EventuallySynced`,
`ChangeIsFound`, `AllAnswered` and `MailSettles`. Each safety property of a passing
run is a theorem, those of `RatingSync` and two of `RoomGeneration` under the
hypotheses above.

## Findings and divergences

Two claims of the documents are refuted by runs (table above; `PROJECT.json`
"findings" quotes them). Other places where the code does what a document, a
comment or its own answer does not say, met while modelling; each can be seen
in the model, but none has a run of its own.

Bookings and rooms:

- BookingService/README.md:331 shows `await lock.release()`; the code never
  releases the redlock (`Booking.tla:RedlockExpires` is the only way).
- BookingService/README.md:405: a room is available if no booking covers the
  stay; `booking.service.ts:39` compares the number of free rows with the number
  of nights over a range that includes the check-out day, so a free check-out day
  makes up for a booked night.
- README.md:82: a hold expires after 10 minutes by a cron job; no such job exists
  and a PENDING booking keeps its rooms.
- README.md:82: a booking's room blocks others; `booking.service.ts:118` confirms
  without looking at the status, so a key handed out before a cancel confirms a
  booking whose rooms are free (`BookingLifecycle.tla:Book` from void).
- HotelService/README.md:365: the 90-day window is always maintained;
  `roomGeneration.service.ts:35` refuses a start date that has passed, so once the
  last row of a category lies in the past its window does not come back.
- `roomGeneration.service.ts:87` asks for the row of an instant in a DATE column: a
  job whose dates are no midnights, which the schema allows, does not find the rows
  that are there and inserts second ones (`oddly`). A batch size below one, which
  it allows too, does not move the date, and the loop of :52 does not end.
- `roomScheduler.ts:63` says one day per run; the job's last date is included, so
  it adds two (`RoomGeneration.tla:ExtendCategoryAvailability`).

Hotels and search:

- README.md:129 says deletes are kept in sync; `hotelIndex.processor.ts:75` reads
  the row without looking at `deletedAt`, so an index job that comes behind the
  delete job brings the hotel back to search (`revived`).
- `hotelIndex.processor.ts:52` and HotelService/README.md:551 say failed jobs are
  retried; no attempts are configured (`HotelIndexing.tla:JobFails`).

Reviews:

- ReviewService/README.md:502 says the cutoff keeps a review from being marked
  without being aggregated; one created in the second of the cutoff can be
  (`lost`).
- ReviewService/README.md:548 says the deferred release prevents a lock nobody can
  release; RELEASE_LOCK (`review_aggregate_rating_service.go:43`) runs on any
  session of the pool and does nothing on the wrong one
  (`RatingSync.tla:ReleaseLock`). The lock is left behind until the pool picks its
  session again or closes it, or the process restarts (`LeftBehind`), and a run that
  does not get it skips.
- ReviewService/README.md:358 says every read excludes deleted reviews; the batch's
  aggregate query does not.
- ReviewService/README.md section 15 gives 4.038 as the new average; the column
  keeps two digits, so against a large count a few new reviews change nothing, and
  the next average is built on the rounded one (`DriftBounded` says how far off).
- `reviews.repository.go:107`: an edit that changes nothing, or whose second read
  fails, is answered "review not found" or with an error although the row is there
  or was written; an edit of the stars of an aggregated review never reaches the
  hotel.
- `review_service.go:62`: the booking may be cancelled between the check and the
  INSERT.

Accounts, roles and gateway:

- README.md:24 says `/refresh` issues a new access token; it never does. The expiry
  comes as RFC 3339 and `user_service.go:171` parses another layout, so every refresh
  that finds its row is answered "error parsing token expiry", and the deletion of
  an expired row at :177 is not reached (`Accounts.tla:RefreshAccessToken`).
- README.md:28 and :174 call a reset token single-use. Two resets that look the link
  up before either has marked it both change the password (`user_service.go:269`),
  and one that has written it and fails at :285 answers an error and leaves the link
  live for another (`Accounts.tla:MarkUsed`); `LinkIsSpent` says that there is no
  third way.
- `user_service.go:207`: a reset between the comparison of the current password and
  the UPDATE is overwritten.
- `user_service.go:256`: a reset mail the NotificationService refused is answered as
  sent; only a failed connection is an error.
- `rate_limiter.go:24` and README.md:39 say five requests per second; the bucket
  holds five and refills with one a second. The map of limiters only grows.
- `proxy.go:19` and :31 say that the gateway never hangs on a slow upstream; the
  timeout is that of the response headers and begins when the request is written.
  A service that stops reading the request, or stops in the middle of its answer,
  keeps the client waiting (`Gateway.tla:ProxyRefused`, `ProxyCopies`).
- `auth.go:122` opens a database pool for every role check and never closes it.
- `UpdateRole` and `UpdatePermission` answer success for a row that is not there;
  `role_permissions` takes the same pair twice.

Mail: `server.ts:34` of the BookingService queues ten mails of a template that does
not exist at each start; each fails.

## Not modelled

- Texts: names, e-mail addresses, comments, prices, templates, headers. With them
  go the update of a profile and of a permission, which change nothing else. An
  account is known by its id, so a login with an address that was changed meanwhile
  is a login of another or of no account, which `Accounts` has anyway.
- Reads that no other step depends on: hotel and room-category reads, search,
  listings of roles and permissions. Room categories have no operation that changes
  them.
- `POST /email/send`, which sends a mail at once: it keeps no state. What its caller
  sees of it is a step of `Accounts` (`SendResetEmail`).
- Process setup, configuration, routing, logging, correlation ids and error classes;
  migrations and seeds, whose columns and constraints are in the modules' state.
- Validation of a body; what passes it is what the modules' inputs range over.
- Dead code: deleting a user, removing a role from a user, the permission
  checks no route uses.
