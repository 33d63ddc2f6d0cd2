---------------------------- MODULE SchemaGuards ----------------------------
(***************************************************************************)
(* The guards around the unique indexes (schema_guard of modryn_portal,    *)
(* modryn_ops and modryn_queue_poc, and the migrations that call them). A  *)
(* deploy is one transaction: it clears the rows that would make the index *)
(* impossible, lets Odoo build it, which fails in silence if such rows     *)
(* have come meanwhile, and refuses to go on when the index is not there.  *)
(*                                                                         *)
(* One table of four kinds: "bookings" (an hour and a seat), "offers" (a   *)
(* day), "tickets" (a phone number), "checklists" (a template and a day).  *)
(***************************************************************************)
EXTENDS Integers, FiniteSets

CONSTANTS
    TableKinds,        \* the kinds of table
    Keys,              \* hours, days, numbers or templates
    Numbers,           \* those that are phone numbers
    MaxTableRows       \* bound on the rows

ASSUME KnownKinds  == TableKinds \subseteq {"bookings", "offers", "tickets", "checklists"}
ASSUME NumbersAreKeys == Numbers \subseteq Keys
ASSUME TableRowsNat == MaxTableRows \in Nat

VARIABLES
    table,             \* the kind
    records,           \* the rows in the order of their claim: [live, key, seat, form]
    index,             \* what stands under the index's name (Indexes)
    deploy,            \* the deploy under way: its step, losers, index, and the rows that
                       \* came (late) or were closed (gone) since it looked
    served,            \* a deploy has succeeded
    late               \* history: rows that deploy did not see live, or called back since

guardVars == <<table, records, index, deploy, served, late>>

\* How a number is stored: in E.164, as typed, as something no number can be made of, NULL.
PhoneForms == {"e164", "typed", "junk", "null"}

\* "old" is on the hour alone, before seats; "hand" was built by hand over another predicate
\* and without a COMMENT, which Odoo keeps. What it lets in is unknown.
Indexes == {"none", "old", "hand", "new"}

\* A seat of -1 is NULL.
RowValues == [live : BOOLEAN, key : Keys, seat : -1..1, form : PhoneForms]
Ids == DOMAIN records
LiveRows == {i \in Ids : records[i].live}

Deploys == [step : {"idle", "cleared", "built"}, losers : SUBSET Ids, index : Indexes,
            late : SUBSET Ids, gone : SUBSET Ids]
Deployed == [step |-> "idle", losers |-> {}, index |-> "none", late |-> {}, gone |-> {}]

GuardTypeOK ==
    /\ table  \in TableKinds
    /\ \E n \in 0..MaxTableRows : records \in [1..n -> RowValues]
    /\ index  \in Indexes
    /\ deploy \in Deploys
    /\ served \in BOOLEAN
    /\ late   \subseteq Ids

\* Two rows an index will not hold together; a NULL phone is equal to none.
Collide(r, s, ix) ==
    /\ r.live /\ s.live /\ r.key = s.key
    /\ \/ ix = "old"
       \/ ix = "new" /\ r.seat = s.seat /\ r.form = s.form /\ r.form # "null"

Single(rows, ix) == \A i, j \in DOMAIN rows : i # j => ~Collide(rows[i], rows[j], ix)

\* A database from before the guards: whatever its own index let in.
GuardInit ==
    /\ table \in TableKinds
    /\ index \in IF table = "bookings" THEN {"none", "old", "hand"} ELSE {"none", "hand"}
    /\ \E n \in 0..(MaxTableRows - 1) : records \in [1..n -> RowValues]
    /\ \A i \in Ids : /\ table = "tickets" => records[i].key \in Numbers
                      /\ table = "tickets" \/ records[i].form = "e164"
                      /\ table = "bookings" \/ records[i].seat = 0
    /\ Single(records, index)
    /\ deploy = Deployed /\ served = FALSE /\ late = {}

-----------------------------------------------------------------------------
(* The deploy.                                                             *)

\* _ensure_slot_seat: no seat is the first one.
SeatFilled(r) == [r EXCEPT !.seat = IF @ = -1 THEN 0 ELSE @]

\* _normalize_open_phones: an open row's number to E.164, or to NULL if it is none.
Normalized(r) ==
    [r EXCEPT !.form = IF ~r.live THEN @ ELSE IF @ \in {"e164", "typed"} THEN "e164" ELSE "null"]

Tidied(r) == Normalized(SeatFilled(r))

\* What each scan for duplicates partitions the live rows by.
BookingClaim(r)   == <<r.key, r.seat>>
OfferClaim(r)     == <<r.key>>
TicketClaim(r)    == <<r.key, r.form>>
ChecklistClaim(r) == <<r.key>>

Claim(r) == CASE table = "bookings"   -> BookingClaim(r)
              [] table = "offers"     -> OfferClaim(r)
              [] table = "tickets"    -> TicketClaim(r)
              [] table = "checklists" -> ChecklistClaim(r)

\* Variant: the hour alone is the claim.
SameHour(i, j) == records[i].key = records[j].key

\* Rows with the same claim once they are tidied; a NULL phone claims nothing.
Twins(i, j) == /\ Claim(Tidied(records[i])) = Claim(Tidied(records[j]))
               /\ Tidied(records[i]).form # "null" /\ Tidied(records[j]).form # "null"

\* Cancelled, expired or deleted: all but the earliest of a claim.
Losers == {i \in LiveRows : \E j \in LiveRows : j < i /\ Twins(i, j)}

\* _drop_stale_slot_index: an index without the seat goes, to be built again.
Surviving == IF index = "old" THEN "none" ELSE index

\* dedupe, over the snapshot of the deploy. Its updates go through the index there is, before
\* the losers leave; where they cannot, the deploy has failed.
Clear ==
    /\ deploy.step = "idle"
    /\ Single([i \in Ids |-> Tidied(records[i])], Surviving)
    /\ deploy' = [step |-> "cleared", losers |-> Losers, index |-> Surviving, late |-> {}, gone |-> {}]
    /\ UNCHANGED <<table, records, index, served, late>>

\* The row as the deploy will leave it.
After(i) == IF i \in deploy.late THEN records[i]
            ELSE [Tidied(records[i]) EXCEPT !.live = @ /\ i \notin deploy.losers]

Ahead == [i \in Ids |-> After(i)]

\* Odoo: an index that cannot be built is a line in the log.
Build ==
    /\ deploy.step = "cleared"
    /\ deploy' = [deploy EXCEPT !.step = "built",
                     !.index = IF @ = "none" /\ Single(Ahead, "new") THEN "new" ELSE @]
    /\ UNCHANGED <<table, records, index, served, late>>

\* assert_indexes: something stands under the name, and the bookings' keys on the seat.
Stands == /\ deploy.index # "none"
          /\ table = "bookings" => deploy.index # "old"

GoLive ==
    /\ deploy.step = "built" /\ Stands
    /\ records' = Ahead
    /\ index'  = deploy.index
    /\ late'   = deploy.late
    /\ served' = TRUE
    /\ deploy' = Deployed
    /\ UNCHANGED table

\* Rolled back: the rows are as they were, to be deployed again.
RollBack ==
    /\ deploy.step = "built" /\ ~Stands
    /\ deploy' = Deployed
    /\ UNCHANGED <<table, records, index, served, late>>

-----------------------------------------------------------------------------
(* The boutique goes on while the deploy runs. ALTER TABLE locks bookings; *)
(* the other tables are locked by nothing but the building of the index,   *)
(* and of their rows only those the deploy has written.                    *)

Unlocked == \/ deploy.step = "idle"
            \/ table # "bookings" /\ (deploy.step = "built" => deploy.index = index)

Writable(i) == Unlocked /\ (deploy.step = "idle" \/ After(i) = records[i])

\* The index takes row i as r, beside the rows as they are and as the deploy leaves them.
Fits(i, r) == \A j \in Ids \ {i} : /\ ~Collide(r, records[j], index)
                                   /\ deploy.step = "idle" \/ ~Collide(r, After(j), index)

Noted(note, i) == IF deploy.step = "idle" THEN deploy ELSE
                  IF note = "late" THEN [deploy EXCEPT !.late = @ \cup {i}]
                                   ELSE [deploy EXCEPT !.gone = @ \cup {i}]

\* A booking, an offer, a ticket or an item of a checklist; numbers as typed before the guards.
Insert(r) ==
    LET i == Cardinality(Ids) + 1 IN
    /\ i <= MaxTableRows
    /\ Unlocked /\ r.live /\ Fits(i, r)
    /\ r.seat \in IF table = "bookings" /\ served THEN {0, 1} ELSE {0}
    /\ IF table = "tickets" THEN r.key \in Numbers ELSE r.form = "e164"
    /\ served => r.form \in {"e164", "null"}
    /\ records' = [k \in 1..i |-> IF k \in Ids THEN records[k] ELSE r]
    /\ deploy' = Noted("late", i)
    /\ UNCHANGED <<table, index, served, late>>

\* Cancelled, claimed, expired, finished. Items of a checklist stay.
Close(i) ==
    /\ table # "checklists"
    /\ records[i].live /\ Writable(i)
    /\ records' = [records EXCEPT ![i].live = FALSE]
    /\ deploy' = Noted("gone", i)
    /\ UNCHANGED <<table, index, served, late>>

\* A stale board calls a finished ticket, whose number is as it was stored.
CallBack(i) ==
    LET r == [records[i] EXCEPT !.live = TRUE] IN
    /\ table = "tickets"
    /\ ~records[i].live /\ Writable(i) /\ Fits(i, r)
    /\ records' = [records EXCEPT ![i] = r]
    /\ deploy' = Noted("late", i)
    /\ late' = late \cup {i}
    /\ UNCHANGED <<table, index, served>>

GuardNext ==
    \/ Clear \/ Build \/ GoLive \/ RollBack
    \/ \E r \in RowValues : Insert(r)
    \/ \E i \in Ids : Close(i) \/ CallBack(i)

GuardSpec == GuardInit /\ [][GuardNext]_guardVars

-----------------------------------------------------------------------------
(* Properties.                                                             *)

\* Live rows of one place, however their numbers are spelled. A NULL phone has none.
SamePlace(r, s) == /\ r.live /\ s.live
                   /\ r.key = s.key /\ r.seat = s.seat
                   /\ r.form # "null" /\ s.form # "null"

\* Excused: a number in a spelling of its own that no deploy has seen live.
Misspelled == {i \in late : records[i].form \in {"typed", "junk"}}

\* A deploy that succeeds leaves no doubles among the rows it saw, however the numbers were
\* typed and whatever index stands, one built by hand included.
DeployLeavesSingles ==
    [][deploy.step = "built" /\ deploy'.step = "idle" /\ Stands =>
           \A i, j \in Ids' \ late' : SamePlace(records'[i], records'[j]) => i = j]_guardVars

\* Nor do they come back while the shop is served behind the code's own index.
ServedIsSingle ==
    served /\ index = "new" =>
        \A i, j \in Ids \ Misspelled : SamePlace(records[i], records[j]) => i = j

\* A deploy takes a live row away only when an earlier one of the same place was live as it
\* looked, and stays, unless the boutique itself closed that one meanwhile.
LoserHasAnEarlierTwin ==
    [][deploy.step = "built" /\ deploy'.step = "idle" =>
           \A i \in LiveRows : ~records'[i].live =>
               \E j \in Ids : /\ j < i /\ (records'[j].live \/ j \in deploy.gone)
                              /\ records'[j].key = records'[i].key
                              /\ records'[j].seat = records'[i].seat]_guardVars

\* A deploy over old rows, beside a boutique that goes on: it leaves no doubles, none come
\* back, and nobody loses a row but to an earlier one of the same place.
DeployIsSound ==
    /\ LoserHasAnEarlierTwin
    /\ DeployLeavesSingles
    /\ []ServedIsSingle

=============================================================================
