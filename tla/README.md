# TLA+ verification of MODRYN on Odoo

MODRYN runs bridal boutiques on Odoo 19: a public booking site, a customer portal,
a waitlist for full days, text messages, and staff tools for the floor, the roster,
the atelier and back-office tasks. Every boutique is one PostgreSQL database. All
its code runs inside Odoo's transactions, and that is where the hard behaviour is:

* **Every request and every cron is one REPEATABLE READ transaction.** What it reads
  is fixed when its first query runs. An `UPDATE` of a row that another transaction
  has changed since is refused ("could not serialize access"), and a unique index is
  checked against the live table, uncommitted rows included.
* **Odoo reruns** an HTTP request that could not serialize (at most five times). A
  cron is rolled back and runs again at its next turn; one cron never runs twice at
  the same time.
* **Workers are recycled** in the middle of a transaction, and texts that Twilio has
  accepted cannot be rolled back.

## Inventory

Paths are under `src/addons/`.

| Component | State | Operations | Works with | Hard part | Correct when |
|---|---|---|---|---|---|
| Booking an hour (`modryn_booking/controllers/main.py`, `modryn_portal/models/calendar_event.py`) | `calendar.event` rows: start, seat, cancelled, active; customer cards | submit, claim a seat, cancel, archive | opening hours, waitlist, SMS | snapshots against the index; savepoints; cancelling beside an insert | one bride a seat, never over capacity, honest refusals, no orphan cards, every request answered |
| Opening hours, closures, capacity (`modryn_booking/models`) | weekly windows with a capacity, closed days | add, resize, close and reopen a window; close and reopen a date; the grid of hours | booking, roster (daily cap) | windows that overlap or start at different minutes, edits under requests, UTC against local dates | the fittings at one moment fit the seats, the last ends by closing, a dark day has no fitting but for a reason |
| Waitlist of a day (`modryn_portal/models/day_waitlist.py`, `controllers/waitlist.py`) | entries: waiting, offered, claimed, expired; token; expiry | join, offer next, claim, expire, withdraw | cancellations, outbox, booking | four concurrent paths to one offer | one offer a day, first come first served, an offer yields one booking, the day is handed on |
| SMS outbox (`modryn_portal/models/sms_outbox.py`) | queued rows, attempts, retry time | enqueue, drain, reap, release the waitlist | Twilio, waitlist | calls that cannot be rolled back; poison rows | bounded attempts and duplicates, nothing waits for ever |
| Twilio client (`modryn_portal/models/sms.py`) | none | normalise a number, send | outbox, walk-in queue | classes of errors | a stored number re-parses to itself |
| One-time codes (`modryn_portal/models/otp.py`, `controllers/main.py`) | codes, attempts, expiry; customer cards | issue, verify, sign in, sweep | SMS, booking | counts taken in a snapshot, one code sent twice | guesses and texts are limited, a code signs in once, an older code is dead |
| Confirmations and reminders (`modryn_portal/models/booking_comms.py`, `controllers/booking_link.py`) | the stamp of the reminder, the answer by link | confirm, remind, answer by link | SMS, booking | a cron that texts before it commits, or was down | reminded once, not lost to one mishap, and only for a live booking |
| Schema guard (`schema_guard.py` of four addons, migrations) | rows older than an index | clear, build the index, refuse to start | booking, waitlist, walk-in queue, checklist | old databases, rows that come meanwhile, deploys run twice | served only with the index, and no doubles are left, and nobody loses a row but to an earlier one |
| Walk-in queue (`modryn_queue_poc`) | entries by open phone | check in, accept, redirect, notify, call, done, expire | SMS, floor board | two check-ins of a phone; expiry beside a call | one open entry a phone; nobody is called twice |
| Floor (`modryn_staff`: assignment, fitting_room, floor) | primary, helpers and room of a card | assign, help, take off, give a room | booking, queue | several managers on one card; rooms read before they are written | nobody vanishes from a card, a primary with a phone knows, a room has one open card unless two requests crossed or nothing checked |
| SOS calls (`modryn_staff/models/sos_call.py`) | calls, who answered, escalation | raise, acknowledge, resolve, escalate | floor board | a cron beside an answer, double taps | the first answer stands, an unanswered call reaches the managers |
| Staff access and management (`modryn_staff/controllers`) | employees and accounts, roles, access grid, the owner's lists | hire, edit, archive, save the grid, add and archive rows | all pages | two owners at once, a refused account after a made employee | account and person agree, in both groups, a save changes what was ticked, a name is on a list once |
| Operations (`modryn_ops`) | outcome, follow-up tasks, category, checklist, audit | close, correct, tick, reopen, escalate, make the checklist | booking, SMS | corrected outcomes, closes side by side, a cron beside ticks | the tasks are those of the last outcome, the room is poked once |
| Roster (`modryn_roster`) | slots, offers, assignments, publication | make the week, offer, assign, publish | daily cap, floor board | publishing beside offers and new slots | all readers of the rota agree, a published week is frozen |
| Atelier (`modryn_atelier`) | alteration tasks and who has them | create, hand out, assign, deliver, archive a seamstress | staff | two seamstresses finishing at once | a task is handed out once and in order; nobody sits idle beside work |
| Theme, views, translations, scripts | — | — | — | — | — |

## Modules

| Module | Models | Run by |
|---|---|---|
| `SlotBooking` | `/book/submit`, the seat search of `/claim/<token>`, the slot index, cancelling, changes of capacity, for one hour | `MCSlotBooking` |
| `SeatLedger` | what an hour promises: seats with holders, taken in one indivisible step | refined by `SlotBooking` |
| `DayWaitlist` | the waitlist of one day and every path that hands it on | `MCBackroom`, `MCDayWaitlist` |
| `WalkInQueue` | the walk-in line and its texts | `MCWalkInQueue` |
| `CardTeam`, `FittingRooms`, `Workshop` | the people on a card, the rooms, the alteration queue | `MCFloor` |
| `SmsOutbox`, `SosCalls`, `Reminders` | what must reach somebody: texts, calls for help, reminders | `MCSignals`, `MCSmsOutbox` |
| `Closing`, `CustomerCategory`, `Checklist` | outcomes and their tasks, the category of a customer, the day's checklist | `MCBackroom` |
| `Codes`, `StaffAccounts`, `AccessMatrix`, `OwnerLists`, `OpeningWindows`, `Closures`, `Roster` | sign-in and the pages of the owner | `MCOffice` |
| `SchemaGuards` | a deploy that makes old rows fit a new unique index | `MCOffice` |
| `SlotBooking_proofs`, `SlotLedger_proofs`, `DayWaitlist_proofs`, `WalkInQueue_proofs` | the invariants of these three modules and the refinement of the ledger | `tlapm` |
| `Floor_proofs`, `Signals_proofs`, `Backroom_proofs`, `Office_proofs` | the invariants of all components of `MCFloor`, `MCSignals`, `MCBackroom` and `MCOffice`, and the compositions | `tlapm` |

**Side by side.** `MCFloor`, `MCSignals`, `MCBackroom` and `MCOffice` check several
components in one run. These share no state in the code beyond what their modules
model, so interleaving them would only multiply states. The variable `corner` is
chosen in the initial state and names the component whose behaviour this is; `Only`
keeps all others in one initial state. Every behaviour of every component is
a behaviour of the run, up to stuttering, and the fairness is restated for the steps
as they are there.

**Composite properties.** A component's properties are stated one by one under their own
names, and a run checks their conjunction where several guard one thing: `CardInOrder`,
`QueueDiscipline`, `LossesAccounted`, `AnswersStand`, `ReminderKept`, `FollowUpsFit`,
`OutcomesStand`, `ChecklistKept`, `SignInHolds`, `AccountsFit`, `SavesAreLocal`, `ListsSingle`,
`WindowsHold`, `RotaHolds`, `DeployIsSound` and `DayPassesDownTheLine`. The comment of
each conjunct says what it is about.

**The common shape.** Most modules have the same three ideas. A request *begins* by
keeping what its snapshot shows (`seen`, `eye`, `sight`, ...), *ends* by deciding on
that, and is *behind* (`stale`, `clash`, `dirty`) once a row it will write has been written
by somebody else: then it begins again, as Odoo's retry does, or, in a cron, is rolled
back. A row that is read and not written protects nothing. The exceptions in the
properties ("unless the two overlapped") are history variables that say exactly that.

### SlotBooking

One hour, any number of requests. A request inserts at most one booking, so request
and row are one: `stage[r]` is the point of `book_submit` that `r` has reached and then
the state of its row. `Begin` is the first query: it fixes `seen` (the live rows) and
`onFile` (whether her number has a card) and reads the capacity from the regenerated
offered set. `PickSeat`, `FindOrCreateCard`, `InsertBooking`, `SeatRefused` and `Refuse`
are the loop over `range(capacity)` with its savepoint and its `rejected` set; they are
separate steps because another worker may run between any two of them. `Rivals` is the
partial unique index: rows with the same seat, committed and live or still
uncommitted. An insert goes in once no rival is left, is refused when a rival is
committed and not being cancelled, and otherwise waits. `Commit` and `Abort` end the
transaction. `StartCancel`, `CommitCancel` and `RollbackCancel` are `modryn_cancel` and
the transaction around it; `SetCapacity` is anything that changes what the hour sells.

`occupied` and the ledger's variables are history: they record which seats were live
while a request ran, so that a refusal can be compared with the truth.

### DayWaitlist

One day, its entries, and its free hours as a counter (which seat is taken is
`SlotBooking`'s business). A transaction has two steps. `Begin...` fixes the snapshot
`seen[w]`; `Finish...` decides by the snapshot and checks its writes against the live
table: `Unchanged` is the first-updater-wins rule, `Rivals` the index
`modryn_one_offer_per_day`. The rows it writes stay locked up to the commit, so writing
and committing are one step. `OfferNext` is `modryn_offer_next` with its three outcomes
(nothing to offer, the race for the index lost, an offer made), walking over
untextable candidates as the code does; it is the tail of a cancellation
(`FinishCancel`), of the expiry cron (`FinishExpire`) and of the outbox giving up
(`FinishReclaim`). `RollBack` is a serialization failure: the request runs again as a
new `Begin`, the cron at its next turn, and the drain swallows it as
`_release_waitlist` does. `Crash` is a recycled worker.

`Legacy` are rows stored before numbers were normalised, the only ones `send_async`
refuses (day_waitlist.py:181-188). The drain may give up on the text of any entry that
was ever offered to, at any time: which text carried which offer is not modelled.

### SmsOutbox

A text, its row and the drain. Sending takes two steps, `Send` (Twilio decides, and an
answer may be lost) and `Record` (the row is written and committed), so a crash can
come between. `_gc` deletes finished old rows with the first commit of the drain;
`reaped` are those deleted and not yet committed. The wake-ups are not modelled as
such: the fairness of `Drain` stands for them and for the five-minute interval.

### WalkInQueue

The walk-in line: visits, the number each was verified with, and managers who act on
what a board shows, which may be out of date. `ticket` is the committed table,
with the stamps `next_notified_at` and `turn_notified_at` as `nextTold` and `turnTold`;
`headsUps` and `turns` count the texts really queued. As on the waitlist, a transaction
has two steps, and `dirty[w]` are the rows updated since `w` took its snapshot, which
`w` may not write. `Serve` is what all operations of the floor share: move tickets, then
`_notify_next_in_line`. `modryn_check_in` is `HandBack`, `Join` or `Refused` and
`SearchAgain`, since the second search runs after a rival has won the index. `done`,
`redirected` and `expired` are one state, `closed`. A "pending" ticket is only found in
`Parked`, at the start: nothing creates one any more. A number is verified with a one-time code before
`modryn_check_in` runs, and two posts of one code conflict on its row; so two overlapping
check-ins of one number mean that a second code was issued and typed in while the
first was being verified.

### CardTeam, FittingRooms, Workshop

`CardTeam` is one card of the floor board: its primary, its helpers in the order in which
they joined, and who of them has been told: only those in `Reachable` have a phone, and who has
none is told nothing (`notify.py` logs it). A request is `assign` in its three meanings
(put on an empty card, swap, help) or the removal of one person, with the promotion of the
helper who has served longest. `knows` is history: the last primary who learned that the card is hers.

`FittingRooms` has walk-ins and bookings, which share the rooms. The constraint that
keeps a room to one open card reads a snapshot, so it misses a request that crosses it (`behind`), and it
runs when the room is written, not when the card is opened. A pending ticket may be given a room,
and a finished one keeps its own; `modryn_call` writes "called" over any state, so that a
stale board opens either with the room on it (`BringsRoom`, recorded in `unchecked`).

`Workshop` is the alteration queue. Tasks are numbered by priority. `deliver` takes the
top of the queue with `FOR UPDATE SKIP LOCKED` (`lock`), creation hands a task to somebody
idle or queues it, and a manager assigns by hand. `excused` records the steps that
wake nobody: a reassignment, a seamstress who comes back, requests side by side.

### SosCalls, Reminders

`SosCalls` numbers the calls in the order of their creation. `Press` looks for a live call
of the same cry in its snapshot (`known`) and `Raise` makes one if it saw none; `Tap` and
`Answer` acknowledge or resolve, the first of them wins; the cron
reads its calls (`CronReads`) and writes them (`CronWrites`), or fails on a call that was
written meanwhile (`CronFails`), which takes the whole batch back.

`Reminders` counts time in quarters of an hour, the interval of the cron; `dayAhead[f]` is
when a fitting is a day away. The search takes two quarters, so each fitting is taken
by two runs. A run may be skipped, may fail for one text, may lose to a write of a
booking it stamped, or die with its worker; `mishaps` and `spoilt` count that.

### Closing, CustomerCategory, Checklist

`Closing` is one booking: `modryn_set_outcome` with its refusals, the overwrite that
only a manager may force, the follow-up tasks deleted and made, their ticks and
reopenings, and `_modryn_escalate_overdue`. `CustomerCategory` takes up what `Closing`
leaves out: the category derived from all bookings of a customer, written on her card only
if it differs. `Checklist` is `modryn_ensure_today`: the rows of a day, made by whichever
boards are read first, with a savepoint for each; `Shown` is what the reply of a board then lists, from
its own snapshot (`sees`) and the rows it made itself.

### Codes, StaffAccounts, AccessMatrix, OwnerLists

`Codes` is one phone number in several spellings: issuing within the hourly limit, the guess and the attempt
it costs, signing in with the customer card it finds or makes, and the sweep. Sign-in looks for the
spellings `phone_variants` knows (`Variants`) and makes a card of the normal one (`Normal`, E.164); a
booking looks for the number as it was typed and makes a card of that. A
code is ordered by the time its request began, as `create_date` is. `StaffAccounts` is
the employee and the account as two rows that the team page keeps in step. The account has
the group of the boutique for its level and a base group, internal or portal, which hiring sets and
an edit of the level does not touch;
`AccessMatrix` is the save of the whole grid, which deletes and inserts the difference between
the rows it finds and the ticks it was sent; `OwnerLists` is what the six lists
have in common, with `kind` for the three ways in which a double is kept out.

### OpeningWindows, Closures, Roster

`OpeningWindows` is one weekday in half hours; a fitting takes two. `Closures` is one date with
its bookings; the count of booked fittings compares UTC times with local dates, so a booking
is of the "early" hours (missed), of the "day", or of the day "after" (counted).
`Roster` is one day of the week: slots made by whoever looks, offers, assignment,
publication, and its three readers, the daily cap, the board and her own page.

### SchemaGuards

A table of one of the four kinds (`bookings`, `offers`, `tickets`, `checklists`) during a deploy.
The old database has no index, the one without the seat (bookings only), or one that was built by
hand under the same name: over which predicate is unknown, so it is taken to let everything in, and it has
no `COMMENT`, so Odoo keeps it and `assert_indexes`, which looks for the name and, of the
bookings, for the seat column, accepts it. Behind such an index doubles may come back, and no property says
otherwise. `Clear` is `dedupe` over the snapshot of the
deploy: seats filled, the numbers of open tickets normalised (to NULL if they are none), and of
each claim all rows but the earliest taken away in the way of that kind. Its updates go through the index
that stands; where they cannot, the deploy has failed. `Build` builds the index, or fails in
silence if rows have come meanwhile; `GoLive` and `RollBack` are the two outcomes of the assertion.

The boutique goes on: rows are inserted, closed (cancelled, claimed, expired, finished) and, of
tickets, called back. `ALTER TABLE` keeps it out of the bookings; of the other tables it
cannot write the rows the deploy has written, nor any once the index has been built. `late`
and `gone` are the rows that came and went behind the snapshot.

## Runs

| Run | Instance | Question |
|---|---|---|
| `slot` | 3 requests, 2 of one customer, capacity 0 to 2, fair | Do seats, capacity, refusals and cards stay right, does the loop implement the ledger, is every request answered? |
| `waitlist_ends` | 2 customers, 1 worker, both crons, 2 offers each, 1 crash, fair | Does every offer end, and is the line kept when customers join again while requests about their first offer are in flight? |
| `waitlist_freed` (violated) | 2 customers, 1 worker, 2 hours, fair | Is every freed hour offered? |
| `line_safety` | 3 check-ins, 2 of one number, the third perhaps left pending, 2 managers, the closing cron, 2 transactions at once | Has a number one place, is each text sent once, does every exit tell the next? |
| `line_front` (violated) | as `line_safety` | Does the front of the line know that she is next? |
| `floor` | a team of 3, 2 of them managers and 2 with a phone, on one card; a walk-in and a booking, 2 rooms, 2 stylists; 3 alterations, 2 seamstresses, 2 requests at once | Is a card in order, is a room shared only by an overlap, is the queue handed out once and in order, with nobody idle beside it? |
| `signals` | 2 texts, batch 1, 3 attempts, 1 loss; 2 calls of a stylist to her manager, 2 screens; 2 fittings, 5 quarters of an hour, 1 rollback; fair | Are duplicates owed to losses, does every text settle, do the first answers stand, does an unanswered call reach the managers, is the reminder kept? |
| `outbox_dead_number` (violated) | 2 texts, 3 attempts | Is a number that is rejected for good left alone? |
| `sos_escalated` (violated) | 1 call | Does the colleague who was called still see an escalated call? |
| `backroom` | a stylist and a manager closing one booking, 2 follow-up tasks; 2 bookings of one customer; 2 checklist items, 2 boards, 2 days; a full day with 2 customers and a legacy row, 2 workers, 2 hours, 1 offer each, 2 candidates | Are the tasks those of the outcome, is nothing overwritten but on purpose, is the room poked once, is the category right, is the checklist whole? Is there one offer of the day, does it yield one booking, is the line kept, is the day handed on? |
| `office` | 2 of each: browsers, hires, usernames, owners, roles, names, fittings and closures of a date, shifts, pens; 1 page, 1 worker; all four kinds of table, 2 keys, 1 of them a number, 3 rows | Does each page of the owner, and the sign-in, keep what it promises when two use it at once? Does a deploy beside a boutique at work leave no doubles, and take rows away only for earlier ones? |
| `staff_base` (violated) | 2 hires, 1 owner | Are the owners, and only they, internal users? |

**Bounds.** Three requests are enough for the longest interaction of the seat loop: one
bride loses a seat to a second while a third takes the next or cancels, and capacity 2
makes her try again. On the waitlist, two workers and two crons run the four paths
to `modryn_offer_next` side by side; a line of three with two candidates has somebody
beyond `MAX_OFFER_CANDIDATES`. `MaxOffers` bounds how often one customer comes back: the
second offer is where a request about the first can do harm. On the line, `Workers`
bounds the transactions that run side by side to two: every disagreement is one between
two snapshots, and three customers leave one behind the two who race.

The same holds of the other runs: what goes wrong in this code is a pair of snapshots, so
two requests of each kind are the instance. Three people on a card are a primary and
two helpers, which `LongestServingStepsUp` needs; three alterations for two women leave
one to be fought over; three rows of a list hold a name, its double and another. The
outbox has a batch smaller than the queue, so that full batches occur; `MaxLost`
bounds recycled workers and lost answers to one, and the properties count duplicates
against them. `LastQuarter = 4` lets a fitting pass through both windows and out of
them, with `MaxRollbacks = 1` run taken back. `MaxGuesses = 1`, `MaxSends = 1` and `MaxCodes = 3`
make each limit one that two browsers exceed together; `LastHour = 2` lets a code
expire and leave the hourly count. `MaxTasks = 2` allows an outcome and its correction, and
`LastDay = 1` a second day of the checklist. `LastTick = 5` half hours hold two windows that overlap out of
step; `MaxCapacityTyped = 2` and `MaxFittings = 3` oversell one of them by one. `MaxCalls = 2` is
a call and its double; `MaxTableRows = 3` a winner, a loser and a row that comes while the deploy
runs, or a row of the second key (of tickets one number is tried, in each of its four forms, since rows of
two numbers meet in nothing).

**Deadlock** is checked on the waitlist (`waitlist_ends`, `waitlist_freed`). It is not checked where all the work may be
done: the booking of one hour (every request is over), an empty outbox, the line at the
end of the day, one answered call, a table that is full, and the side-by-side runs and single components
in which bounded clocks and counters run out.

**Symmetry** is used where a run has no liveness property and the values are
interchangeable: in `backroom`, the outcomes that call a customer back, the two customers of the
day and its two workers (`Alike`).

**Fairness.** `SlotBooking`: a worker goes on with a request it has begun, a
transaction that stamped a cancellation ends one way or the other, and, strongly fair,
an insert that waits is refused or let in when its rival ends, since PostgreSQL wakes
the waiter. No fairness is assumed for new requests or for cancellations to begin.
`DayWaitlist`: requests end, time passes, the expiry cron gets its turn and ends it.
No customer is assumed to claim, cancel or join, and the outbox is not assumed to give
up on a text. `SmsOutbox`: the drain gets its turns (the five-minute cron and the
wake-ups) and the back-off passes. `SosCalls`: half a minute passes for each call, and
the escalation cron reads, and writes or fails, whenever it can; nobody is assumed to
answer. Losses, crashes and rollbacks are never fair. All other modules have
safety and action properties only and assume nothing.

## Where the code and its comments differ

Five of these are runs that TLC finds violated:

* `waitlist_freed`: "The freed hour belongs to whoever asked for this day first.
  Offering here ... means no cancellation path can forget to do it"
  (`modryn_portal/models/calendar_event.py:142-144`). `modryn_offer_next` returns when an
  offer stands, and a claim does not call it again, so of two hours freed while one
  offer stands the second is offered to nobody: a customer goes on waiting beside a free hour
  until somebody else cancels. The run counts only states with a second hour free,
  no transaction in flight and fair crons.
* `outbox_dead_number`: "21610 recipient sent STOP (must not retry)"
  (`modryn_portal/models/sms.py:63`). The drain asks `is_permanent_rejection` only after
  the last attempt, so such a number is sent the text up to `MAX_ATTEMPTS` times.
* `line_front`: "Text whoever is now at the front" (`queue_entry.py:249`). A
  customer joins while the one in front of her is being called: the join still sees
  somebody waiting, the call does not yet see her, and she is at the front untold until
  the next exit.
* `sos_escalated`: "the original colleague still sees it too" (`sos_call.py:159-160`). The
  escalation clears `target_id`, by which the board of a colleague who is no manager finds
  the call.
* `staff_base`: "Owner is the only internal user" (`modryn_staff/models/hr_employee.py:9`). An edit of
  the level moves the groups of the boutique only (`manage.py:251-260`), so a demoted owner
  keeps the back office and a promoted manager does not get it.

The modules also say where a comment promises more than the code does, without a run of its own; the
properties let these cases through by name, and none other:

* "Nothing needs to free the room on finish ... so it cannot drift out of sync with reality"
  (`modryn_staff/models/fitting_room.py:54-56`). A pending or finished ticket with a room on it is
  called, whatever its state, and opened into a room that is somebody else's by now; no two requests
  overlap (`BringsRoom` in `FittingRooms`).
* "Another board's request won the race; its row is ours too" (`modryn_ops/models/task.py:213`).
  The second search of the board (`floor_ops.py:46-47`) is in the same snapshot and does not see
  that row, so the loser's reply lacks it until the next read (`LoserLacksOnlyWhatItLost` in `Checklist`).
* "a bride who bought keeps 'purchased'" (`modryn_ops/models/calendar_event.py:222-224`). It is
  derived from a snapshot, so two closes side by side may leave the sale out, until one of
  her bookings is closed again by itself (`skewed` in `CustomerCategory`).
* "so the whole closing day is inside the window whatever the offset"
  (`modryn_staff/controllers/manage.py:590-592`). The count begins at midnight UTC of a local date,
  and a fitting of the hours before that is missed (the "early" ones in `Closures`). So are a booking
  that is being submitted and, when a closure is restored, all of them.
* "phone is the identity key" (`modryn_ops/controllers/floor_ops.py:233-234`). A sign-in
  stores E.164, a booking and the floor search what was typed: a customer who signs in and then books
  as she types her number has two cards, of two spellings (`Codes`).
* "only reachable if it closed in that window" (`modryn_queue_poc/models/queue_entry.py:161-162`):
  under REPEATABLE READ the second search sees what the first saw, so `Refused` fails
  a check-in although the winner's ticket is open. It takes two codes for one
  number verified at the same moment.

## Proofs

Every safety invariant, action property and refinement that a passing run checks is a
theorem, for all values of the constants. The theorems rest on the named assumptions of
the modules only, which TLC evaluates on every run: the sets that are counted are finite
(requests, customers, workers, browsers, the team, which has a member), bounds are natural
numbers (a day has at least two half hours), and values that mark an absence
(`Nobody`, `Vacant`, `NoShift`, `NoOutcome`, ...) are none of the things they stand in for.

For each component the proof has the same layout: an inductive invariant of named
conjuncts, a lemma that `Init` implies it, one lemma per action, one for the whole
next-state relation (`...Step`), and the theorems that follow from it. What a state
predicate cannot say is proved of a step from the invariant.

* **SlotBooking.** The invariant `IInv` adds to the properties what makes them
  inductive. A seat is chosen below the capacity the request was served with. An
  uncommitted card exists only while its booking is being inserted. A request in flight has
  in `occupied` every seat of its snapshot, every seat the index refused it and every
  seat now live (`SeesEveryTakenSeat`). And every attempt but the one under way has cost
  it a seat, each a different one (`OneSeatPerAttempt`): this is where the `rejected` set
  is needed, since with `attempt = capacity` all `capacity` seats have been refused, which is
  `HonestRefusal`. `NeverOverbooked` then follows from `OneBrideASeat` by counting:
  distinct seats below n are at most n.
* **SlotLedger.** `HolderOf` is the live row of a seat, unique by `OneBrideASeat`.
  `Begin`, `TurnAway`, `Refuse`, `Abort`, `Commit` and `CommitCancel` map to the ledger's
  steps, all other steps to stutters.
* **DayWaitlist.** `IInv` ties each kind of transaction to what its snapshot can say
  (whoever claims or expires has read its subjects as offered), numbers the
  offers, and keeps the line an order. One standing offer follows from the index alone:
  a transaction offers only when no other offer stands in the live table. One booking
  per offer follows from `Unchanged`: nobody else has touched the entry since it was
  read as offered.
* **WalkInQueue.** `IInv` says that a snapshot still holds for every row not in `dirty`,
  that each stamp counts a text, and that a visit without an answer has no ticket. One
  open ticket per number follows from the index alone, a text sent once from the
  stamp and the check on `dirty` together: whoever is promoted or called was read unstamped
  and nobody has touched her row since. `PromotedIsTold` compares the front of the line
  as a manager saw it with the front after the commit.

* **SmsOutbox.** A call under way counts in no row yet, so `IInv` counts it apart: the
  calls of a text are at most its attempts, those unrecorded and the one under way
  (`CallsKnown`), and while a text waits everything accepted of it went unrecorded
  (`AcceptedKnown`). That needs the drain to send pending rows only (`BatchPending`), below
  the limit (`RowsSound`), and to reap finished ones. `LossesAccounted` follows.
* **SosCalls.** A press that found no live call of hers overlooks only calls made since it
  began (`PressesSee`), which is the overlap a duplicate is excused by. The calls the cron
  has picked are open as long as its run is not lost (`SweepStands`), so that it escalates no answered one.
* **Reminders.** Texts are counted against stamps and rollbacks (`TextsAreStamped`). A
  fitting has two chances, and `Spent` says how many are behind: who has not been texted has
  lost each of them to a mishap or is still to be reached by the run under way (`ChancesCounted`).
* **CardTeam.** A card in order (`InOrder`) has no helper without a primary and nobody twice,
  and a request that was not overtaken sees the card (`UnovertakenSees`). Who is primary has been told
  or is out of reach, so the theorem is about a primary with a phone. Assigning and
  taking off are shown to keep a card in order as functions of the card, before any step is.
* **FittingRooms.** `RoomInv` adds that a request which found its card not open, and so checks
  nothing, is about one that is still not open unless it has to run again (`ShutAsSeen`).
* **Workshop.** `NobodyIdleBesideWork` is about moments without a request, so the invariant
  says what holds between them: nobody is idle beside a queued task, or each of those is locked
  by a delivery on its way to somebody (`IdleOrOnTheWay`), and a lock is on a task that its
  holder saw queued, that nobody else locks and that nothing can take away (`LocksStand`).
* **Closing.** A request that is not to run again sees the outcome, and deletes every task that
  was made and not reopened (`EyesOpen`); of those there is one at most, of the type of the
  outcome (`OneFirst`, `FirstFits`). `OverwritesAreForcedAndAudited` is proved of each step.
* **CustomerCategory.** The outcome a close has read of its own booking stands unless the
  close is to run again (`OwnRowStands`).
* **Checklist.** What a board has seen is there (`FoundIsThere`): rows are added
  and never taken away. What its reply lacks it has neither seen nor made, so it was there behind its
  snapshot (`LacksWhatItLost`).
* **Codes.** The longest of the proofs. A guess stands on the row it has read and knows of every newer code
  unless it is told otherwise (`GuessStands`); the codes of the last hour and the
  requests still asking for one are together at most `MaxSends` and the browsers but one
  (`SendsCounted`, by counting finite sets); whoever has found no customer card is alone
  with that among those who would make one of its spelling, or the overlap is on record
  (`CardlessOverlap`).
* **StaffAccounts.** `StaffInv` says that a person without an account was never hired, that nobody else's
  request is about a person while she is being hired (`HireAlone`), that edits are of
  people on the team, and that what an edit has read still stands unless it knows
  better (`ReadStands`). The theorem is about the boutique's group of an account; its base group is what
  `staff_base` refutes.
* **AccessMatrix.** An open grid differs from the rows only where its owner ticked or others have
  changed them since, and a save knows the rows but for what others changed behind it
  (`GridKnows`). What a save writes is then computed by set algebra alone.
* **OwnerLists.** Two who found a name free are twins while both add it and after one of
  them has (`TwoAddersAreTwins`, `LateAdderIsTwin`).
* **OpeningWindows.** Every hour booked is a slot away from a window and within the largest
  capacity there was, and the booking under way has a seat that is left (`ChosenFits`). If all
  windows are on one lattice, of an hour and the one before it only one can be booked.
* **Closures.** `ClosureInv` extends the excuse to what is still under way: a booking not
  yet committed on a closed date, and a booking committed while a closure is being
  entered (`BookersExcused`, `ClosersExcused`). Each side has seen the other or crossed it.
* **Roster.** The slots a publisher has not found are unseen (`PublisherSaw`), and an offer on its way
  is for an open slot or crosses the publication (`OffersCross`).
* **SchemaGuards.** Of the rows a deploy has seen, one with an earlier twin is a loser, and every
  loser has a twin before it that is none (`DeployCleared`): the first of a class of twins, which
  exists since the row numbers are well-founded. That winner is there or was closed behind the
  deploy. The rows and the rows as they will be committed fit their indexes (`RowsSingle`, `AheadSingle`),
  by which no doubles come back; `SeatsAndForms` says which of them may be misspelled.
* **The compositions.** A step of `MCFloor`, `MCSignals`, `MCBackroom` or `MCOffice` is a step
  of one component and a stutter of the others, and so is a behaviour (`FloorRunsThem` and its
  like); so what is proved of a component holds in the run, and all types side by side.
  The waitlist of a day is in `MCBackroom`, with the invariant of `DayWaitlist_proofs`.

**Changed so that it can be reasoned about, not in what it says.** `Leaving` of `CardTeam`
removes the first occurrence of a helper, who occurs once; `Recipient` of `Workshop` has guards that
exclude each other; the moment of `SeatsAtOnce` is the sum of two ticks (`Running`), a slot being two.

**Only model-checked.** Liveness under fairness is out of the prover's reach:
`EveryRequestAnswered`, `EveryOfferEnds`, `EveryTextSettles` and `UnansweredReachesManagers`
are checked by TLC on the instances above. The five violated properties are
counterexamples of one instance, which is all a counterexample needs.
`SeatsAtOnce` is stated for windows on one lattice of hours only: without it two windows half
an hour apart do sell one moment twice, as its comment shows. The inductive
invariants are proved and not checked by a run of their own.

## Not modelled

Rendering, translations, wording of texts, form validation, choice of an organiser,
access rights (`modryn_can_view`), reports and the audit log as a list have no protocol of
their own. The text of a telephone number is not modelled: `Codes` has the spellings of
one number and `SchemaGuards` the forms it is stored in, and elsewhere a number is one value. The signature of a link, shift templates with hours, tasks made
by hand and the states of an alteration between intake and delivery are left out, as the
notes of `PROJECT.json` say component by component. The scripts around Odoo
(deployment, load test) are not part of the program. The database, Odoo's retry loop and
Twilio are modelled as the code uses them.

## Plan

1. `OfferDelivery` composes `DayWaitlist` and `SmsOutbox`: each offer has a text, and a
   text that fails for good withdraws the offer. Abstract specification: an offer that
   stands has been texted, is being texted, or is about to end. It would also settle
   which offer a give-up is about.
2. Proofs: the promise of the waitlist as an abstract specification, a day that is held by
   nobody or by one customer and passes from one to the next, and the refinement by
   `DayWaitlist`; then that of `OfferDelivery`.
3. The normalisation of telephone numbers as an operator over a small plan of numbers,
   compared with the spellings of `Codes` and the forms of `SchemaGuards`.
