# King Express Bus API: specifications

The repository is the backend of a bus-ticket seller: a FastAPI application
over MySQL that sells seats on bus trips, hotel rooms and tour places, takes
payments through SePay, sends mail from a database-backed queue, and lets an
admin edit the catalogue. This directory holds TLA+ specifications of the parts
whose correctness depends on the order in which things happen, TLC runs that
check them, and TLAPS proofs of what matters most.

Paths below are relative to the repository (`app/...` stands for `src/app/...`).

## 1. Inventory

| Component | State | Operations | What is hard | What makes it correct |
|---|---|---|---|---|
| Booking engine (`app/application/booking/`) | `bookings` rows; row locks of the open transactions | create, edit, confirm, complete, cancel, status patch | concurrent requests on one departure; reads from a snapshot or from the session's identity map used after a lock; opposite lock orders | no seat is sold twice; a status, a note or a payment is never undone by a stale copy; every request ends |
| SePay payments (`app/infrastructure/payments/sepay.py`, `payment_routes.py`) | signed forms outside, `payment_status`, `payment_transaction_id` | checkout form, notification (IPN), return page that polls | repeated, late and reordered notifications; a form that outlives an edit | a recorded payment is never lost or replaced; a paid booking that is cancelled asks for its refund |
| Trips, buses, blocks, surcharges (`app/presentation/api/v1/admin/`) | `trips`, `buses`, `trip_blocks`, `holiday_surcharges` | form saves, block create, update, delete | the catalogue changes while a booking is between its reads and its commit | what a booking counted under its locks stays true |
| Pricing (`pricing.py`) | none (pure, over surcharges) | resolve the price of a trip on a date | which surcharges apply, rounding | the total is unit price times quantity and follows the quote |
| Mail queue and worker (`app/infrastructure/mail/`, `scripts/mail_worker.py`) | `mail_jobs`, `failed_mail_jobs` | enqueue, claim, send, complete, retry or fail | several workers and inline tasks; a process that dies between claim, send and settlement; a mail server that is not heard | a job has one sender at a time, is tried a bounded number of times and leaves the queue sent or failed |
| Accounts (`app/application/auth/`, `presentation/api/v1/auth/`) | `users`, e-mail codes, reset tokens, signed-in browsers | guest account of a checkout, register and claim, resend, verify, login, forgot and reset | copies of an account read before another request commits; a code mailed by a request that is rolled back; expiry | no stale copy takes a verification or a role away or leaves an account without a password; a verified account's password is replaced by its owner alone; the code on file is the newest that was mailed for good |
| Rate limiter (`app/core/rate_limit.py`) | hits per key in process memory | hit | the boundary of the window, refused attempts | never more than the limit in a window; a refusal only when it is due |
| Hotel bookings (`app/application/hotel/`) | `hotel_bookings`, `hotel_rooms`, `hotels` | create, confirm, complete, cancel, saves, deletion | overlapping stays under concurrency; rooms saved or deleted under a create; gap locks | no night sold above the number of rooms |
| Tour bookings (`app/application/tour/`) | `tour_bookings`, `tours` | the same | places per date | no date sold above capacity |
| Delete guards (`app/application/catalog/delete_guards.py`) | provinces, district types, districts, stops, routes, route stops, buses, trips and their foreign keys | create, move, count and delete with cascades | the joins of nine guards against the cascades of the schema; a booking inserted between count and delete | a guard counts all that its cascade reaches, so a delete takes along only what came after the count |
| Reordering (`app/application/catalog/reorder.py`) | priorities of the rows of a table or of one parent | reorder, create, save with a priority or another parent, remove | several updates of one request among those of others and saves of the same column; rollback | a reorder takes effect whole or not at all |
| Uploads (`app/infrastructure/storage/`, `scripts/prune_upload_staging.py`) | files in staging and public directories | stage, revert, commit, sweep | the sweeper, a separate process, against a commit; a kill between two file operations | no file is lost that nobody gave up; a public file is never overwritten |
| Catalogue search, public pages, templates, sanitizer, seeds, migrations | none of their own | reads, text, one-off data | nothing concurrent | not modelled: no protocol |

How they interact: the create endpoint calls the accounts component for a guest,
the booking engine for the row and the mail queue for the confirmation; status
changes enqueue mail after the commit, as background tasks; SePay calls back into
the booking row; the engine reads what the admin writes to trips, buses, blocks
and surcharges. All shared state is in MySQL except the rate limiter's counters
and the upload directories. There is no in-process lock: every guarantee rests
on transactions and row locks.

`PROJECT.json` lists the hazards at their lines, each with the properties that
would catch it.

## 2. Plan

In order of importance; all of it is done.

1. **Bookings**: the engine, SePay and the catalogue edits it reads, as one
   module, because they share the booking row and its locks. Abstract
   specification **SeatLedger**. Proofs in **BookingsProofs**.
2. **MailQueue**: claims, retries, crashes and the background tasks of the API.
   Abstract specification **MailOutbox**, proofs and the refinement in
   **MailQueueProofs**.
3. **ServiceBookings**: hotel rooms and tours, the code's sum over overlapping
   stays against a count night by night. Abstract specification **StayLedger**,
   proofs and the refinement in **ServiceBookingsProofs**.
4. **Accounts**, **Catalogue** (delete guards), **Uploads**, **Reorder** (abstract
   specification **ListOrder**) and **RateLimiter**, with **AccountsProofs**,
   **OfficeProofs** (Catalogue and Reorder), **UploadsProofs** and
   **RateLimiterProofs**. They share no table with each other; **Site** composes
   them, **SiteProofs** carries over what is proved of each, and **MCSite** gives
   the constants for one run of all.

What could be added is at the end of section 9.

Parameters are CONSTANTS with named assumptions, each operation is one action or
one action per lock it waits for, invariants are conjunctions of named parts, and
no module with a proof uses a RECURSIVE operator.

## 3. Bookings

### State

| Variable | Code |
|---|---|
| `rows` | table `bookings`: trip, date, quantity, unit and total price, method, whether the pickup is at a hotel (`pickup_stop_id IS NULL`), status, whether `confirmed_at` is set, paid, transaction, and the tagged lines of `notes` |
| `busOf`, `seatCount`, `active`, `price`, `blocks` | `trips.bus_id`, `buses.seat_count`, `trips.is_active`, the effective unit price of a trip on a date, `trip_blocks` |
| `rowLock`, `tripLock`, `busLock` | InnoDB record locks held by open transactions |
| `pc`, `req` | how far a request is and what it remembers: its arguments, what it read from its snapshot, the loaded copy of its booking |
| `forms` | signed checkout forms handed out |

### Transactions

A request is one MySQL transaction at REPEATABLE READ (the engine sets no other
level, `app/infrastructure/persistence/session.py`). Its snapshot is taken by
its first read, which for most endpoints is the user lookup of the
authentication (`app/core/deps.py:68`), so plain SELECTs see the database as it
was when the request began. `SELECT ... FOR UPDATE` reads the latest committed
row and locks it. The model therefore reads snapshot values (block, activity,
price) in the `...Begin` action, latest values in the action that takes the
lock, and publishes writes in the commit. One action stands for everything
between two lock waits, because nothing in between is visible to others.

An ORM detail decides several findings: a locked SELECT of a row the session has
already loaded does not refresh the loaded attributes. `admin_confirm`,
`admin_complete` and `admin_cancel` load the booking before they call the
service, so the service decides on that copy; the flush writes only the columns
it changed. `update_booking_fields` and the status patch load nothing before, so
they see the fresh row.

| Actions | Code |
|---|---|
| `CreateBegin`, `CreateLockTrip`, `CreateCount`, `CreateCommit` | `create_booking`: checks and price; trip and bus locked; block and seat sum; insert |
| `EditBegin`, `EditLock`, `EditLockTrip`, `EditCount`, `EditCommit` | `update_booking_fields`: row locked; trip and bus locked when the quantity changes; seat sum without the booking itself; write |
| `ConfirmBegin`/`Commit`, `CompleteBegin`/`Commit`, `CancelBegin`/`Commit` | the action endpoints with the services they call |
| `Patch` | `PATCH .../status` |
| `Checkout`, `Ipn` | `sepay_checkout_html`, `handle_sepay_ipn` |
| `SetSeats`, `UpdateTrip`, `SetSurcharges`, `CreateBlock`, `UpdateBlock`, `DeleteBlock` | admin saves |
| `Abort`, `DeadlockVictim` | lost client or worker, lock wait timeout; InnoDB's choice of a victim |

Simplifications, all on the side of the data:

- the trip and its bus are locked in one step (one joined SELECT);
- the scan of the seat sum goes through the index of the foreign key `trip_id`
  and locks every row of the trip, whatever its date and status; the gaps it
  locks matter to another insert on the same trip, which the trip lock excludes
  already, and to the first booking of a neighbouring trip, which may wait and be
  chosen as a deadlock victim: `Abort` covers that outcome, and `ServiceBookings`
  models the same gaps in full;
- the identifier of a new booking is chosen when the create begins, and no
  other create in flight may choose it, as AUTO_INCREMENT guarantees;
- stop checks, the online-payment switch, customer text and identity are inputs
  the request has already passed; a client total that differs from the price
  ends a create before it does anything, so only matching totals begin;
- a block that covers none of the modelled dates has an empty `dates`, two equal
  blocks are one, and `update_trip_block` may store a type that stops no sale;
- a patch or a notification holds one lock, taken last, and is one step.

### Who waits for whom

`WantsTrip(r)` and `WantsRows(r)` are the locks the next step of a request asks
for: a create wants its trip (with the bus) and then every row of the trip, an
edit its own row, the trip and the rows, the other operations their row.
`WaitsFor(r, s)` says that `s` holds one of them, and `DeadlockVictim` ends one of
two that wait for each other. That is all InnoDB would have to detect only if no
longer circle exists: `NoHiddenDeadlock` says so. Whoever is on its way reaches,
within two waits, a request that waits for nobody or two that wait for each other.

### SeatLedger

The abstract specification knows departures and seats only: `Sell` within the
capacity, `GiveBack`, `Shelve` (cancel), `Revive`, `Resize`. `Bookings`
implements it with `sold` as the seats of counted bookings, `shelved` as those of
cancelled ones and `capacity` as the seats of the trip's bus. `Revive` is the one
action that asks no capacity; it is there because the status patch does exactly
that.

## 4. MailQueue

### State and actions

| Variable | Code |
|---|---|
| `job`, `nextId` | table `mail_jobs` and its AUTO_INCREMENT: `attempts`, whether `reserved_at` is set, whether `available_at` has passed |
| `failed` | the jobs written to `failed_mail_jobs` |
| `jobLock` | InnoDB record locks of the claims that have selected and not committed |
| `pc`, `held` | where a runner stands and the job it holds |
| `answered` | how many requests that owe a mail were answered |
| `delivered` | copies of each mail the mail server took |
| `acked` | history: the mails of which the server was heard to take one |

A *runner* is a mail worker (`scripts/mail_worker.py`, a process that polls for
ever) or a task (a FastAPI background task, which runs after the answer). A
worker at rest is `polling`, a task at rest is `idle`.

| Actions | Code |
|---|---|
| `Ask` | the endpoint commits, answers, and leaves `queue_booking_mail` as a background task |
| `Enqueue` | `queue_booking_mail`, `enqueue_mail_job`; with `mail_queue_inline` the task goes on to process one job |
| `SelectJob`, `ReserveJob`, `NothingToClaim` | `claim_next_mail_job`: the locked select of the lowest due unreserved row that skips what others have locked; the reservation, the count and the commit; no row |
| `Send` | `process_mail_job` up to the answer of the mail server: `accepted`, `refused` (any exception before the server took the mail) or `unheard` (the server took it and the sender saw an exception, such as a timeout) |
| `Complete`, `GiveUp`, `Retry` | `complete_mail_job` and the two branches of `fail_or_retry_mail_job` |
| `BackoffEnds` | `available_at` passes |
| `Stop` | the process dies, or an exception of the database ends the cycle: the open transaction is rolled back and nothing else is undone |

The claim is two steps because another runner may see the row locked and not yet
reserved. The select locks the row it returns and may lock rows it passes on the
way (reserved or not yet due, since no index covers the whole condition), which
makes the transaction that settles such a row wait; `SelectJob` allows any set of
unlocked rows to be locked with the chosen one, a superset of what InnoDB does.

Simplifications: the mail's content is left out, and a payload without addressee
or subject counts as refused, as both end in `fail_or_retry_mail_job`; the length
of a backoff is any; a row gets its number when its insert commits; the mail
server is configured (without credentials, `mail_sender.py` logs the mail and
returns, which counts as accepted).

### MailOutbox

The promise: a posted mail is tried at most `MaxTries` times, each try hands over
at most one copy, and the mail leaves only with a copy handed over or after its
last try. It says nothing of who works and of crashes. `MailQueue` implements it
with a job's row as the stage and the tries, and `delivered` as the copies. A
mail whose row is gone is `dead` if it is in `failed` and `sent` otherwise, so
`NothingLost` is what makes the mapping right. The boundary is the code's and the
tests' (`attempts >= max_attempts`, `mail_queue.py:95`,
`tests/test_mail_smtp_queue.py:115-119`): the last of `MaxAttempts` tries fails for
good. The diagram of `docs/system-architecture.md:101` writes
`attempts > MAIL_MAX_ATTEMPTS`, one try more than is made.

The outbox allows a copy for each try, because the code does: a server that took
a mail and was not heard gets it again. `AckedIsFinal` is the stronger statement
for mails the sender knows to be taken.

## 5. ServiceBookings

Hotel rooms and tours are sold by the same protocol, twice in the code and once
here. A *product* is a room type or a tour; a tour on a date is a stay from that
date to the next, so `tour_date = date` is the overlap of two such stays.

| Variable | Code |
|---|---|
| `rows` | `hotel_bookings` and `tour_bookings`: product, `check_in`, `check_out`, `rooms_count` or `guests`, status |
| `stock`, `active` | `hotel_rooms.inventory_count` and `is_active`, `tours.max_guests` and `is_active` |
| `open` | `hotels.is_active` |
| `pc`, `req` | as in `Bookings` |

| Actions | Code |
|---|---|
| `CreateBegin`, `LockProduct`, `Count`, `Insert` | `create_hotel_booking`, `create_tour_booking`: input and snapshot; product locked; sum locked; insert and commit |
| `ActionBegin`, `ActionCommit` | the confirm, complete and cancel endpoints with the services they call |
| `UpdateProduct`, `UpdateHotel`, `DeleteProduct` | admin saves and deletions; the bookings of a deleted product go by cascade |
| `Abort`, `DeadlockVictim` | as in `Bookings`; also the total that is not the product's |

Only creates keep locks between steps, so locks are not variables: who holds a
product, its bookings and the gaps around them follows from the stages
(`HoldsProduct`, `HoldsRows`, `InGap`). `InGap` says where the locked sum reaches:
an equality scan of an index locks the gaps before the first and after the last
entry it finds, and the first booking of a neighbouring product goes into one of
them. Two such creates deadlock, and InnoDB ends one.

The code sums over every stay that overlaps with the new one and never looks at
a night. `FitsEveryNight`, `GrowthWithinStock` and `CountsItsNights` compare that
with a count night by night: what is counted fits, and is what the nights asked for
hold, no more, so one night is counted exactly and a stay that ends on the day
another begins is not in its way. More cannot be said: with two rooms, one taken on each of two
nights, a stay of both nights is refused ("Only 0 room(s) available for these
dates"), though a room is free in each. The stale copies of the action endpoints
are the same as in `Bookings`, hence the exception in `GrowthWithinStock`.

### StayLedger

The abstract specification knows products and nights only: `Take` a set of rooms
or guests in some nights within the stock of each, or nothing; `Shelve` (cancel)
and `Revive` it whole; `Restock` and `Close` (delete) a product. No overlap is
counted there and no request exists. `ServiceBookings` implements it with the
units of counted bookings per night as `taken` and those of cancelled ones as
`shelved`. As in the seat ledger, `Revive` asks no stock, because the action
endpoints on a stale copy do not.

Left out: the creation of products (all exist at the start), the deletion of a
hotel (the ORM would first clear `hotel_id` of its rooms, a NOT NULL column, so
it fails for a hotel that has any), notes, prices and identity.

## 6. The parts around the bookings

### RateLimiter

| Variable | Code |
|---|---|
| `clock` | `time.monotonic()` |
| `hits` | the deque of each key |
| `accepted` | history: when a key was let through |

`hit()` has no `await`, so a hit is one step: `LetThrough` or `Refuse` (429), each
after the clean-up loop (`Expired`). Refused attempts are not recorded, and an
entry is dropped only when it is older than the window, not when it is exactly a
window old. The limiter lives in the memory of one process: with several API
processes every bound holds for each of them.

### Accounts

| Variable | Code |
|---|---|
| `account` | `users` by e-mail: password or none, role, `email_verified_at` |
| `vcode`, `reset` | `email_verification_tokens` and `password_reset_tokens` by e-mail, and whether they have expired |
| `orphan` | bookings by that e-mail that belong to no user |
| `session` | addresses with a signed-in browser |
| `stage`, `form` | where a request stands, what it was sent and what it read |
| `drawn`, `mailed`, `lost` | codes drawn, codes that went out, codes whose request was rolled back |

| Actions | Code |
|---|---|
| `BeginRegister`, `BeginResend`, `SendCode`, `CommitRegister`, `CommitResend` | `register`, `resend_verification`: read; write, which takes the rows, and mail the code; commit |
| `BeginVerify`, `CommitVerify` | `verify_email`, `verify_code` and `consume_verification` |
| `BeginCheckout`, `CommitCheckout` | `ensure_customer_user` in a public create |
| `Login`, `AdminLogin`, `Logout` | the session endpoints |
| `BeginForgot`, `CommitForgot`, `BeginReset`, `CommitReset` | password reset |
| `CodeExpires`, `ResetExpires`, `AccountAbort` | time; any failure of a request |

A request decides on what it read and its update writes only the columns the ORM
sees changed. That is why a second registration, which sets `email_verified_at`
to None, does not unverify an account that was verified meanwhile: the column was
None when it was read. But it does replace the password of that account: the guard
of `session.py:148` was asked of the copy. `PasswordChanges` says that this, and a
reset with the mailed token, are the only ways a verified account gets another
password. The mail goes out between the writes and the commit, so
the rows are held while it does; a request that is rolled back after that leaves a
mailed code that opens nothing (`lost`).

### Catalogue

`row` holds the foreign keys of provinces, district types, districts, stops,
routes, route stops, buses, trips and bookings; `used` the identifiers given out;
`task` what a request decided in its snapshot. `Create...` and `Update...` are the
saves of the office, `Delete...` a guard that counts, `CommitDelete` the delete
with the cascades of the schema (`Cascade`), `BeginBook`, `CommitBook` and
`EditStops` the bookings as far as they refer to these tables. `MayDelete` is
translated from the joins of `delete_guards.py` and `Cascade` from the foreign keys
of the models. `LostInBetween` compares the two where it matters, at the commit of a
delete: a booking goes along, or loses its pickup, only if the guard, asked again at
that moment, would refuse. So what a delete takes is what came between its count and
its commit, and never what a count had overlooked. Even with the one clerk of the run
something can come: an edit of a booking onto the stop that is about to go
(`DeleteStop`, `EditStops`, `CommitDelete`), or a row moved under the one that goes; with
two clerks also a new booking.

### Uploads

`folder`, `staged` and `old` are the staging directories, the files in them and
their age; `public` the committed files; `given` the tokens handed to the admin;
`staging`, `api` and `sweeper` how far the processes are; `reverted`, `expired`
and `crashes` are history. One action stands for one call to the file system, since
the sweeper is a process of its own and the API may be killed between any two;
`Commit`, `Write`, `Clean`, `RemoveFolder` are `commit_file` and its clean-up,
`Revert`, `RemoveFolder` are `revert_file`, `SweepLook`, `SweepUnlink`,
`SweepRmdir` are `prune_upload_staging`. Revert and commit have no `await`, so the
API is in one of them at a time; `stage_file` has one between the directory and
the file, where others may come.

A file that is committed is copied first and unstaged afterwards. A kill in between
leaves both, the token still works, and a second commit makes a second public file
with a suffix: `CopiesBounded` counts one more for each kill, and no more.

Two limits of what the properties say. Random suffixes are taken to differ, which
nothing checks (`uploads.py:101-105` looks whether the plain name is taken and not
whether the suffixed one is), so `PublicStays` holds up to a collision of 24 random
bits. And `UploadKept` excuses what the sweeper removed (`expired`): the sweeper is
trusted to look at the age of what it removes, and what is shown is that nothing but
a revert or the sweeper loses a file.

### Reorder

`home` is the parent of a row or whether it is there, `prio` its priority (the
latest value, committed or not), `held` the request that has written the row and
not committed, `job` the reorder a request is in. `BeginReorder` checks the ids
against the snapshot, `UpdateNext` is one UPDATE, `CommitReorder` and `UndoReorder`
end the transaction. `AddRow`, `SaveRow` and `RemoveRow` are what others do: a POST with
the priority of its form or, if the form has none, one more than the highest of the
table, for a stop of a route of its route only; a PUT that writes the form's priority,
another parent, both or neither; a delete. The last two wait for a row that is held. A
table reordered as a whole (`Whole`) and one
reordered within a parent are the same actions.

A row that is added, moved in or given a priority while a reorder runs may have the
priority of another, so priorities may repeat until the next reorder; what
holds is that the reorder is not torn. `ListOrder` says it without locks
and single updates: `Ask` fixes a rank for each row of a list, work on it shows nothing
(`Prepare`), and `Arrange` gives all of them their places in one step,
where those that have left the list by then keep theirs; `Save` is a row that is created
or edited meanwhile, with any priority. `Reorder` implements it
(`TakesEffectWhole`) with the committed priorities as the order, that is, what a row
had before a reorder that has not committed.

### Site

These parts share no table and no file, so a step of `Site` is a step of one part.
`Movers` bounds which parts move in one behaviour (`moving`) and which stay as they
started; `MCSite` lets one move at a time, the proofs any set of them. What one part
needs of another is an input: the limiter only refuses, the catalogue knows bookings
by their foreign keys, and the account of a checkout is there before the booking.

## 7. Runs

The runs use `MCBookings`, `MCMailQueue`, `MCServiceBookings` and `MCSite`.
Interchangeable requests, bookings, transactions, workers, tasks, visitors and passwords are
symmetric except in the runs with liveness.

| Run | Question | Bounds |
|---|---|---|
| `capacity` | is what a request counted still true at its commit; do sales grow only within the bus; what can oversell a departure; is the ledger implemented | 2 requests, 2 bookings of 1..2 seats, buses of 1..2 seats, 2 buses, 1 departure |
| `departures` | the same with two trips, two dates, a shared bus, blocks and activity; is nothing oversold when nothing revives and no bus shrinks | 2 requests, 2 one-seat bookings, 1 block; one-seat buses, no cancels, patches or changes of seats |
| `payment` | is a payment ever lost or replaced, whatever races with it; is the total kept; in which ways can refund note, hotel address or confirmation time be missed | 1 booking, 2 requests, 2 prices, 2 transactions or none; patches to confirmed, completed, cancelled |
| `liveness` | does every request end; is every deadlock one of two requests | 3 requests, 2 bookings |
| `mail_claims` | one sender per job, nothing lost, nothing sent after an acknowledgement, no reserved job without a runner but by a stop, the outbox implemented, everybody stopping anywhere | 2 workers and 1 inline task, 3 mails, 2 attempts |
| `mail_drains` | does every queued mail settle when workers do not stop | 2 workers, 2 tasks that may stop, 3 mails, 2 attempts |
| `stays` | does a counted stay fit in each of its nights (with the invariant of the proofs), does it count just those, does anything oversell a night but a revival, is the ledger of stays implemented; with `confirm` and `cancel`, saves and deletions of products | a room type and a tour, 2 nights, 2 requests, 2 bookings of 1..2, stock 1..2 |
| `stays_end` | does every request end, gap deadlocks included, with `complete` and saves of hotels | 2 rooms and a tour, 2 requests, 2 bookings |
| `site` | the bound and the refusals of the limiter; accounts, passwords, codes and sessions under stale copies; what a delete takes along; no file lost, overwritten or copied too often; reorders atomic; one part moves at a time | limits 2 and 1, window 2, 5 ticks; 1 address, 2 visitors, 2 passwords, 3 codes; 12 rows of 9 tables, 2 starts, 1 clerk; 2 uploads of one name, suffixes 0..2, 1 kill; 2 rows, 2 parents, 2 requests, forms without a priority or with 0 or 2 |
| `stale_confirm`, `stale_block`, `mail_stranded` | three statements of the code's own comments and docs that the code does not keep | the smallest that shows it |

Why these bounds: two requests suffice for every pairwise race on a row, a trip
or a bus; the third in `liveness` can queue behind a deadlock of the other two.
Two seats on a bus and quantities of one and two give a full, a nearly full and
an overfull bus, and an edit that grows or shrinks. Two transactions tell a
repeated notification from a second payment. Three runners, of both kinds, and
three mails let one runner sit on a job, one on a lock and one claim; two
attempts give a first, a last and a postponed one. In `site`, five ticks of the
clock hold two windows and the tick between them; three codes are a code, its
successor and one that is lost; the twelve rows form every chain of foreign keys
once, with two provinces so that a route can leave a district's province, and the
second start lets the office set up a smaller line from nothing; two files of one
name need a suffix, and a kill between copy and clean-up a second one; of the priorities a
form may ask for, 0 is below and 2 among those a reorder of two rows gives.

`payment`, `stale_confirm`, `site` and the mail runs switch deadlock checking off:
when every booking the bound allows is final and no catalogue edit is in use,
every mail has left the queue, or clock, codes and suffixes are used up, there is
nothing left to do. In the other runs TLC also checks that the system cannot stop.

### What the violations show

- `stale_confirm`: a cancel commits while a confirm waits for the row; the
  confirm, which saw `pending`, sets the booking to confirmed. The check of
  `bookings_actions.py:34` would have to run on the locked row.
- `stale_block`: block, seats and activity are read after the trip lock, but the
  block from the snapshot, the other two fresh.
- `mail_stranded`: a worker stops after its claim; `reserved_at` stays set and
  nothing ever clears it, so the mail stays in the queue. In `mail_drains`
  the workers do not stop and every mail settles. `StrandedOnlyByStop` says that a
  stop is the only way to leave a reserved job to nobody.

### What the code misses, and the properties that name it

Some promises are broken by one operation and kept by all others. The operation is
in the run, and the property is an action property that names it as the only way: it
fails if anything else breaks the promise. Each exception is reached in its run.

- `RefundFlagged`: a payment is recorded while a cancel waits; the cancel saw
  `unpaid` and leaves no refund note (`booking_cancel.py:43-52`). Or its copy had the
  note of an earlier cancel, taken back by a patch, and an edit rebuilt the notes
  meanwhile.
- `HotelAddressKept`: the cancel writes the whole notes column from the copy it read
  before an edit recorded the hotel address (`booking_cancel.py:36-40`).
- `ConfirmedHasTime`: a patch from cancelled or completed to confirmed sets no time
  and sends no mail (`booking_status.py:34`), against `booking_edit.py:34-37`. The stale
  confirmation of `stale_confirm` does set the time.
- `NoSaleOversells`: cancel, sell the seats again, patch the first booking back
  (`booking_status.py:36`), or make the bus smaller or exchange it (`fleet.py:158`).
  `GrowthWithinCapacity` names the first of them; a smaller bus is no growth, so
  `NoSaleOversells` is the one that covers it. `NeverOversold`, in `departures`, holds
  because neither is in that run, and `NoneOversold` proves it of every behaviour without
  such steps.
- `PasswordChanges`: a second registration that read the account unverified commits
  after its owner verified it, and leaves it verified with the second password
  (`session.py:149-157`), against the guard of `session.py:148`.
- `LostInBetween`: a booking made, or edited onto the stop, between the count of a guard
  and the delete goes with the cascade, though `delete_guards.py:1` says that deletion
  is blocked "when bookings still reference the entity".

More disagreements have no property:

- `Ask` followed by `Stop` leaves an answered request without its mail:
  the row is inserted by the background task, after the answer, though
  `docs/system-architecture.md:89-90` draws the INSERT before the 201;
- hotel rooms and tours are deleted without a guard (`hotels_admin.py:168`), though
  `docs/code-standards.md:50` names hotels among the entities that need one:
  `DeleteProduct` of `ServiceBookings` takes the bookings along;
- the menu tree (not modelled) may become deeper than the four levels
  `website.py:1` states: `update_menu` measures the chain above the new parent and
  not the subtree that moves.

### Fairness

`FairSpec` asks strong fairness of `Proceed(r)` and weak fairness of
`DeadlockVictim(r)`. The event loop resumes a request whose query has returned,
and InnoDB grants a row lock in the order of the queue, so a request whose lock
is free again and again gets it: hence strong. InnoDB searches the waits-for
graph whenever a wait begins and rolls one side back: hence the second. No
request has to start, no admin has to act, and `Abort` is never required, so a
request ends by its own steps or as a deadlock victim and not because something
killed it.

`FairSpec` of `MailQueue` asks weak fairness of each task's `Enqueue` and
`NothingToClaim`, of each runner's work and of each backoff: the event loop runs
background tasks, `run_worker` loops, the mail client has a timeout and time
passes. `Ask` and `Stop` are not fair. Weak fairness is enough for the work of a
runner because a worker polls as long as a job is due, and a settlement waits
only for claims that scan its row, of which there are finitely many with the
bound (and which InnoDB's lock queue does not let pass a waiting settlement).

## 8. Proofs

`BookingsProofs` proves, for any number of requests, trips, buses and dates, any
finite set of bookings and any bound on seats (assumptions `BoundsAssumption` and
`NoneAssumption` of `Bookings`):

- `TypeCorrect`: `Spec => []TypeOK`;
- `Inductive`: `Spec => []IndInv`;
- `SeatsAreHeld`: `Spec => []SeatsHeld`;
- `NoDeadlockHides`: `Spec => []NoHiddenDeadlock`;
- `GrowsWithinCapacity`: `Spec => GrowthWithinCapacity`;
- `ImplementsLedger`: `Spec => LedgerSpec`;
- `NoSaleOversold`: `Spec => NoSaleOversells`;
- `NoneOversold`: `Spec /\ [][~Unchecked]_vars => []NeverOversold`, where a step is
  `Unchecked` if it revives a booking or leaves a trip fewer seats. Buses start with any
  number of seats; cancels, patches and larger buses are not excluded;
- `PaymentsKept`: `Spec => PaymentKept`; `TotalsAsQuoted`: `Spec => []TotalAsQuoted`;
- `ConfirmationsTimed`, `AddressesKept`, `RefundsFlagged`: `Spec =>` each of the three
  action properties of "What the code misses", for every set of endpoints in use.

`SeatsHeld` is not inductive: nothing in it says why a counted seat stays. The
strengthening `IndInv` adds `RequestsSound` (a create's identifier is unused and
nobody else's; every other request's booking exists) and `LocksHeld` (from its
count to its commit a request holds the trip, the bus and every row of the trip).
The argument is a frame argument. `Undisturbed(s)` says that a step leaves
request `s`, its locks and what they protect alone and puts no booking on a trip
`s` has locked; the lemmas `UndisturbedHolds` and `UndisturbedSafe` carry the
invariant over such a step, and every action is shown to leave every request
undisturbed but the one that moves (`TakeOthers`, `WriteOthers`, `FinishOthers`,
`PatchDisturbsNone`, `PaymentDisturbsNone`, `CatalogueDisturbsNone`). For the
mover, `CountsHolds` establishes the seats from the code's comparison. Growth
follows with a bound on the cardinality of what one write adds (`WriteBound`) and
the fact that a write that keeps trip, date and quantity sells more only by
reviving (`SameQuantity`). A departure that is filled beyond its bus by a step that
sells no more has fewer seats than before (`StepFilled`).

`NoDeadlockHides` needs `LocksOwned`, a part of `IndInv`: who owns a row, a trip or a
bus is on its way and has come far enough to hold it. From that, who holds all it
wants goes on; who waits for a trip waits for a request that holds it and wants rows
at most; who waits for a row waits for one that holds this row alone, an edit that
wants a trip, or holds the trip too. Two waits lead to one that goes on or back to
the first.

The theorems about single bookings share one lemma, `LiveWrites`: a step leaves a
booking as it was, inserts it, or makes one of the writes `NewRow`, `Edited`,
`Moved` (which keeps the action that moved it, so that a missed note or time is traced
to its cancel or its patch), `Paid`. It needs `EditsLive`, that a booking under edit is neither
cancelled nor completed, since the edit decides on the locked row.

For the refinement, `StepWritesOne` says that a step writes at most one row and
then no bus, `LiveWrites` how, and `DepartureParts` splits the seats of the one
departure concerned into those of that booking and the rest. A new row or an edit
sells or gives back (`SaleChanges`), within the bus by `GrowsWithinCapacity`'s lemma;
a change of status shelves, revives or changes nothing (`StatusChanges`); every
other step is a `Resize` or a stutter.

`MailQueueProofs` proves, for any sets of workers and tasks, any number of mails
and attempts, both modes and whoever may stop (assumptions `RunnersAssumption`
and `QueueAssumption` of `MailQueue`):

- `QueueInductive`: `Spec => []IndInv`;
- `OneSenderPerJob`, `NoMailLost`: `Spec => []OneSender`, `Spec => []NothingLost`;
- `QueueTypes`: `Spec => []TypeOK`;
- `AckedMailIsFinal`: `Spec => AckedIsFinal`;
- `StopsAloneStrand`: `Spec => StrandedOnlyByStop`;
- `ImplementsOutbox`: `Spec => OutboxSpec`.

`OneSender` is not inductive: a second runner might select a job that somebody is
sending. `IndInv` adds what forbids it: `Holding` (who claims has locked an
unreserved row, who works has a reserved one) and `Locking` (only claims lock).
`Fresh` and `Counting` relate a row to its copies and tries, which the refinement
needs; `Acked` says that an acknowledged mail is with the runner that sent it or
with nobody, also after that runner stopped. Each action has one lemma that it
preserves `IndInv` and one that it maps to a step of the outbox or to a stutter.

`ServiceBookingsProofs` proves, for any requests, room types, tours, nights and
stock and any finite set of bookings (`StockAssumption` of `ServiceBookings`):

- `Inductive`: `Spec => []IndInv`; `TypesHold`: `Spec => []TypeOK`;
- `EveryNightFits`: `Spec => []FitsEveryNight`;
- `CountsAreExact`: `Spec => []CountsItsNights`;
- `NoDeadlockHides`: `Spec => []NoHiddenDeadlock`;
- `NoNightOversold`: `Spec => GrowthWithinStock`;
- `ImplementsStays`: `Spec => LedgerSpec`.

`FitsEveryNight` speaks of nights and the code counts overlaps, so `IndInv` keeps
what the code knows: `StillFits` (the count is still true), `Exclusive` (a locked
product has one holder and is not deleted) and `RowsSound` (stays are not empty,
a tour is one night). `StepInductive` reduces every action to two obligations:
the others are `Undisturbed`, and the request that moves is `Sound`.
`NightWithin` then takes every night of a stay into the overlap. A night grows
only by an insert, which `FitsEveryNight` bounds, or by an action on a cancelled
booking (`NextGrowth`).

`NoHiddenDeadlock` says here that any set of requests that wait for each other holds
two that wait for each other's gaps. `stays_end` has two requests, so only the proof
shows it: of the requests that have counted, which are finitely many and have a
product each, take the one whose product comes last in the index (`HasLargest`). It
waits for one before it, so nothing is booked between the two nor of the last, and
the other waits for the same gap (`WaitsBack`).

The refinement goes night by night: a unit is taken or shelved in a night by the one
booking it belongs to (`OnNight`, `NightMembers`), so a step that writes one booking
changes the units of that booking alone. An insert is a `Take` in the nights of the
stay, which `FitsEveryNight` bounds; a change of status is a `Shelve`, a `Revive` or
a stutter; a deletion is a `Close`, as it leaves no booking of the product.

`RateLimiterProofs` (for any keys, limits, window and clock, `LimiterAssumption`):
`LimiterInductive`, `NeverOverTheLimit`, `RefusedWhenDue`. The bound speaks of all
hits ever let through and the code of a deque; `LimiterInv` adds that the deque is
the end of the history, that what was dropped is older than the window
(`DequeIsRecent`) and that the history is sorted.

`AccountsProofs` (any addresses, visitors and passwords, `AccountsAssumption`):
`AccountsInductive`, `NewestCodeKept`, `SessionsStaySound`, `AccountsKept`,
`PasswordsChange`.
`AccountsInv` adds `OneHolder` (one request at a time between the writes for an
address and its commit), `FormSound` (what a copy says of an account that existed
is still true in the ways the writes rely on), `CodeSound` (a mailed code is lost,
carried by a request that has not committed, or not newer than the one on file)
and `AccountSound`.

`OfficeProofs` has the two components of the office.

- For the catalogue (any rows and clerks, `CatalogueAssumption`, and
  `SeedsAssumption`: the tables at the start are ones the foreign keys allow):
  `CatalogueTypes`, foreign keys hold rows that are there, and `GuardsCountAll`
  (`CatalogueSpec => LostInBetween`).
  The first is where three levels of cascade have to suffice: a rank on the tables
  falls along every foreign key, so nothing is left under what `Doomed` collects.
  The second follows one guard at a time, by the chains from a booking up to the
  row (`GuardsCover`: what a cascade reaches, the guard counts), and carries to the
  commit that a task names a row of the table whose guard let it pass (`TasksSound`).
- For reordering (any rows, parents, requests, `ReorderAssumption`):
  `ReorderInductive`, `WrittenAlwaysStays`, `ReorderIsAtomic`. `ReorderInv` adds that
  what a request has written it holds (`Placed`, `HeldWritten`), so that nobody else
  writes it before the commit, and that its ids are distinct, so that it does not
  write it again itself. For the refinement, the committed priorities do not change
  when a reorder begins, updates a row or is undone; its commit is an `Arrange` with
  the ranks asked for when it began, which are a bijection because the ids are
  distinct. A save waits for rows that are held, so what it writes is committed at
  once and stays when a reorder of other rows is undone.

`UploadsProofs` (any uploads, names, folders and bounds, `UploadsAssumption`):
`UploadsInductive`, `UploadsKept`, `CopiesStayBounded`, `PublicAlwaysStays`.
`UploadsInv` adds `WorkSound` (where a commit writes, nothing lies; its copy is
there before it cleans), `GivenSound`, and `CopiesSound`, which counts the copies of
a file that can still be committed by the kills so far.

`SiteProofs` (all of these assumptions, `SiteAssumption`, any sets of movers):
`SiteTypesHold`, from the parts' own theorems: each part keeps its own specification
in the site (lemma `PartsStandAlone`), by construction, since they share no variable.

Only model-checked: liveness (`EveryRequestEnds`, `EveryMailSettles`), since
fairness is out of the prover's reach. What the proofs give of it is its safety half:
no deadlock that is not found.

## 9. Not modelled

Components without a module, with the reason, are in `PROJECT.json`: the search of
the catalogue and the public pages (one SELECT, no state), mail templates and the
sanitizer (text), seeds and migrations (run once; the foreign keys they declare are
in `Catalogue`).

Of the components with a module: the sum of base price and surcharges (a price that
may change at any time stands for it), the services of a bus, names, images and
texts, the return page that polls for a payment, signatures, tokens and signed URLs,
hashes and the encoding of sessions, the UPDATE that gives the bookings of an address
to its account (`customer_accounts.py:97-104`; it locks booking rows that no index
narrows, so it waits for the booking requests and they for it, outside the lock model of
`Bookings`, whose `Abort` covers a request chosen as its victim), the creation of hotels, rooms and tours, the
website profile, the menu tree and the options of forms.

What could be added: a second clerk in `site` once the guards lock what they count
(then "a delete takes no booking along" becomes an invariant of the composition with
`Bookings`), and the menu tree once a move measures the subtree.
