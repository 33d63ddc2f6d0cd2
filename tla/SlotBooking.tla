---------------------------- MODULE SlotBooking -----------------------------
(***************************************************************************)
(* Selling one hour of the boutique's calendar.                            *)
(*                                                                         *)
(* POST /book/submit (modryn_booking) and POST /claim/<token>              *)
(* (modryn_portal) run the same loop: read which seats are taken, pick the *)
(* lowest free one, insert the booking in a savepoint, and try another     *)
(* seat when the partial unique index on calendar_event refuses the row.   *)
(* Each request is one REPEATABLE READ transaction: what it reads is fixed *)
(* when it begins, while the index compares the new row with the live      *)
(* heap, and waits for a transaction that has touched a conflicting row.   *)
(*                                                                         *)
(* A request inserts at most one booking row, so the row is identified     *)
(* with its request: stage[r] is the point the request has reached and,    *)
(* from "inserted" on, the state of its row.                               *)
(***************************************************************************)
EXTENDS Integers, FiniteSets

CONSTANTS
    Requests,      \* submissions of the booking or the claim form for the hour
    Phones,        \* the customers' numbers
    PhoneOf,       \* the number a request was submitted with
    MaxCapacity,   \* the most fittings the owner ever sells side by side
    Nobody         \* stands for the holder of a free seat

ASSUME RequestsFinite == IsFiniteSet(Requests)
ASSUME CapacityNat    == MaxCapacity \in Nat
ASSUME PhoneOfType    == PhoneOf \in [Requests -> Phones]
ASSUME NobodyFresh    == Nobody \notin Requests

Seats  == 0 .. MaxCapacity - 1
NoSeat == -1                    \* no seat chosen yet

VARIABLES
    capacity,      \* what the owner's week and rota now allow at this hour
    stage,         \* see above
    seen,          \* the requests whose rows are live in r's snapshot
    onFile,        \* r's snapshot holds a customer card with her number
    sells,         \* the capacity r read from its offered set
    attempt,       \* turns of `for _attempt in range(capacity)` begun
    rejected,      \* seats the index has refused to r
    seat,          \* modryn_slot_seat
    card,          \* res.partner created by r: "none", "uncommitted", "kept"
    occupied       \* history: seats live at some moment since r began

vars == <<capacity, stage, seen, onFile, sells, attempt, rejected, seat, card, occupied>>

Stages == {"new", "picking", "carding", "inserting", "inserted", "booked",
           "cancelling", "cancelled", "refused", "not_offered", "failed"}

InFlight == {"picking", "carding", "inserting", "inserted"}

\* Rows that count as live for everybody else: committed and not yet cancelled.
LiveRows == {q \in Requests : stage[q] \in {"booked", "cancelling"}}

\* Rows the index knows of, uncommitted ones included.
IndexedRows == LiveRows \cup {q \in Requests : stage[q] = "inserted"}

SeatsOf(rows) == {seat[q] : q \in rows}

TypeOK ==
    /\ capacity \in 0 .. MaxCapacity
    /\ stage    \in [Requests -> Stages]
    /\ seen     \in [Requests -> SUBSET Requests]
    /\ onFile   \in [Requests -> BOOLEAN]
    /\ sells    \in [Requests -> 0 .. MaxCapacity]
    /\ attempt  \in [Requests -> 0 .. MaxCapacity]
    /\ rejected \in [Requests -> SUBSET Seats]
    /\ seat     \in [Requests -> Seats \cup {NoSeat}]
    /\ card     \in [Requests -> {"none", "uncommitted", "kept"}]
    /\ occupied \in [Requests -> SUBSET Seats]

Init ==
    /\ capacity \in 0 .. MaxCapacity
    /\ stage    = [r \in Requests |-> "new"]
    /\ seen     = [r \in Requests |-> {}]
    /\ onFile   = [r \in Requests |-> FALSE]
    /\ sells    = [r \in Requests |-> 0]
    /\ attempt  = [r \in Requests |-> 0]
    /\ rejected = [r \in Requests |-> {}]
    /\ seat     = [r \in Requests |-> NoSeat]
    /\ card     = [r \in Requests |-> "none"]
    /\ occupied = [r \in Requests |-> {}]

Move(r, from, to) ==
    /\ stage[r] = from
    /\ stage' = [stage EXCEPT ![r] = to]

-----------------------------------------------------------------------------
(* The request.                                                            *)

\* Numbers with a committed customer card.
CardsOnFile == {PhoneOf[q] : q \in {p \in Requests : card[p] = "kept"}}

\* The hour is on offer while fewer bookings are live than it has seats.
Offered == Cardinality(LiveRows) < capacity

\* The first query fixes the snapshot; the regenerated offer set contains the
\* hour and says how many seats it sells.
Begin(r) ==
    /\ Offered
    /\ Move(r, "new", "picking")
    /\ seen'     = [seen EXCEPT ![r] = LiveRows]
    /\ onFile'   = [onFile EXCEPT ![r] = PhoneOf[r] \in CardsOnFile]
    /\ sells'    = [sells EXCEPT ![r] = capacity]
    /\ occupied' = [occupied EXCEPT ![r] = SeatsOf(LiveRows)]
    /\ UNCHANGED <<capacity, attempt, rejected, seat, card>>

\* capacity = offered.get(start, 0) is 0: full, closed, or never for sale.
TurnAway(r) ==
    /\ ~Offered
    /\ Move(r, "new", "not_offered")
    /\ UNCHANGED <<capacity, seen, onFile, sells, attempt, rejected, seat, card, occupied>>

\* Variant: range(capacity + 1) in the search for a seat.
FreeSeatsOneTooMany(r) == (0 .. sells[r]) \ (SeatsOf(seen[r]) \cup rejected[r])

FreeSeats(r) == (0 .. sells[r] - 1) \ (SeatsOf(seen[r]) \cup rejected[r])

Lowest(S) == CHOOSE s \in S : \A t \in S : s <= t

PickSeat(r) ==
    /\ attempt[r] < sells[r]
    /\ FreeSeats(r) # {}
    /\ Move(r, "picking", "carding")
    /\ attempt' = [attempt EXCEPT ![r] = @ + 1]
    /\ seat'    = [seat EXCEPT ![r] = Lowest(FreeSeats(r))]
    /\ UNCHANGED <<capacity, seen, onFile, sells, rejected, card, occupied>>

\* "That time was just taken": the attempts are spent or no seat is left to
\* try. The transaction still commits, so whatever it created outside a rolled
\* back savepoint stays.
Refuse(r) ==
    /\ attempt[r] = sells[r] \/ FreeSeats(r) = {}
    /\ Move(r, "picking", "refused")
    /\ card' = [card EXCEPT ![r] = IF @ = "uncommitted" THEN "kept" ELSE @]
    /\ UNCHANGED <<capacity, seen, onFile, sells, attempt, rejected, seat, occupied>>

\* Inside the savepoint: her card is looked up by phone, or created.
FindOrCreateCard(r) ==
    /\ Move(r, "carding", "inserting")
    /\ card' = [card EXCEPT ![r] = IF onFile[r] THEN @ ELSE "uncommitted"]
    /\ UNCHANGED <<capacity, seen, onFile, sells, attempt, rejected, seat, occupied>>

\* Variant: no index, only the rows the request has read.
RivalsInSnapshot(r) == {q \in seen[r] \cap LiveRows : seat[q] = seat[r]}

\* Variant: an index blind to rows that are not committed.
RivalsCommitted(r) == {q \in LiveRows \ {r} : seat[q] = seat[r]}

\* Rows with r's seat that the index finds in its way.
Rivals(r) == {q \in IndexedRows \ {r} : seat[q] = seat[r]}

\* Event.create: the index lets the row in once no rival is left.
InsertBooking(r) ==
    /\ Rivals(r) = {}
    /\ Move(r, "inserting", "inserted")
    /\ UNCHANGED <<capacity, seen, onFile, sells, attempt, rejected, seat, card, occupied>>

\* Variant: the loop re-reads its snapshot and keeps no `rejected` set.
SeatRefusedForgotten(r) ==
    /\ \E q \in Rivals(r) : stage[q] = "booked"
    /\ Move(r, "inserting", "picking")
    /\ card' = [card EXCEPT ![r] = IF @ = "uncommitted" THEN "none" ELSE @]
    /\ UNCHANGED <<capacity, seen, onFile, sells, attempt, rejected, seat, occupied>>

\* Variant: the customer card is created before the savepoint.
SeatRefusedKeepingCard(r) ==
    /\ \E q \in Rivals(r) : stage[q] = "booked"
    /\ Move(r, "inserting", "picking")
    /\ rejected' = [rejected EXCEPT ![r] = @ \cup {seat[r]}]
    /\ UNCHANGED <<capacity, seen, onFile, sells, attempt, seat, card, occupied>>

\* Variant: the same INSERT is tried again until it succeeds.
SeatRefusedInsisting(r) ==
    /\ \E q \in Rivals(r) : stage[q] = "booked"
    /\ stage[r] = "inserting"
    /\ UNCHANGED vars

\* UniqueViolation, raised once a rival is committed and nobody is about to
\* cancel it: the savepoint rolls the card back and the seat is not tried again.
SeatRefused(r) ==
    /\ \E q \in Rivals(r) : stage[q] = "booked"
    /\ Move(r, "inserting", "picking")
    /\ rejected' = [rejected EXCEPT ![r] = @ \cup {seat[r]}]
    /\ card'     = [card EXCEPT ![r] = IF @ = "uncommitted" THEN "none" ELSE @]
    /\ UNCHANGED <<capacity, seen, onFile, sells, attempt, seat, occupied>>

\* The confirmation is queued and the transaction commits.
Commit(r) ==
    /\ Move(r, "inserted", "booked")
    /\ card'     = [card EXCEPT ![r] = IF @ = "uncommitted" THEN "kept" ELSE @]
    /\ occupied' = [q \in Requests |-> IF q # r /\ stage[q] \in InFlight
                                          THEN occupied[q] \cup {seat[r]}
                                          ELSE occupied[q]]
    /\ UNCHANGED <<capacity, seen, onFile, sells, attempt, rejected, seat>>

\* A worker recycled, a violation of another constraint, a lost connection: the
\* whole transaction is undone.
Abort(r) ==
    /\ stage[r] \in InFlight
    /\ stage' = [stage EXCEPT ![r] = "failed"]
    /\ card'  = [card EXCEPT ![r] = "none"]
    /\ UNCHANGED <<capacity, seen, onFile, sells, attempt, rejected, seat, occupied>>

-----------------------------------------------------------------------------
(* Cancelling (by the bride's link, her portal page, the floor, or the     *)
(* back office archiving the booking) and the owner editing her week.      *)

\* modryn_cancel has stamped the row; its transaction holds the row's lock. A
\* second canceller of the same row waits, fails to serialise, and on its retry
\* finds the stamp and returns.
StartCancel(r) ==
    /\ Move(r, "booked", "cancelling")
    /\ UNCHANGED <<capacity, seen, onFile, sells, attempt, rejected, seat, card, occupied>>

CommitCancel(r) ==
    /\ Move(r, "cancelling", "cancelled")
    /\ UNCHANGED <<capacity, seen, onFile, sells, attempt, rejected, seat, card, occupied>>

RollbackCancel(r) ==
    /\ Move(r, "cancelling", "booked")
    /\ UNCHANGED <<capacity, seen, onFile, sells, attempt, rejected, seat, card, occupied>>

\* Opening hours, a closure (0 seats) or the published rota's daily cap change.
SetCapacity(c) ==
    /\ c # capacity
    /\ capacity' = c
    /\ UNCHANGED <<stage, seen, onFile, sells, attempt, rejected, seat, card, occupied>>

-----------------------------------------------------------------------------

Serve(r) ==
    \/ PickSeat(r) \/ Refuse(r) \/ FindOrCreateCard(r)
    \/ InsertBooking(r) \/ SeatRefused(r) \/ Commit(r)

Cancel(r) == StartCancel(r) \/ CommitCancel(r) \/ RollbackCancel(r)

Next ==
    \/ \E r \in Requests : Begin(r) \/ TurnAway(r) \/ Serve(r) \/ Abort(r) \/ Cancel(r)
    \/ \E c \in 0 .. MaxCapacity : SetCapacity(c)

Spec == Init /\ [][Next]_vars

\* A worker keeps executing the request it has begun; a transaction that has
\* stamped a cancellation ends one way or the other; and an insert waiting on
\* its rival is woken when the rival's transaction ends, so it is not overtaken
\* for ever by cancellations that are begun and rolled back.
Fairness ==
    \A r \in Requests : /\ WF_vars(Serve(r))
                        /\ SF_vars(SeatRefused(r))
                        /\ WF_vars(CommitCancel(r) \/ RollbackCancel(r))

FairSpec == Spec /\ Fairness

-----------------------------------------------------------------------------
(* Properties.                                                             *)

\* Two brides never hold one seat of one hour, whatever their snapshots said:
\* the partial unique index on (start, modryn_slot_seat), uncommitted rows
\* included.
OneBrideASeat ==
    \A p, q \in IndexedRows : seat[p] = seat[q] => p = q

\* The live bookings of an hour never outnumber the seats it was selling when
\* one of them was made, although every request counts them in a stale snapshot
\* and the owner edits her week meanwhile.
NeverOverbooked ==
    LiveRows # {} => \E q \in LiveRows : Cardinality(LiveRows) <= sells[q]

\* A bride told "that time was just taken" was told the truth: every seat of
\* the capacity she was served with was held by a committed booking at some
\* moment while her request ran. (Without the `rejected` set the loop re-picks
\* the seat it lost and refuses her beside an empty one.)
HonestRefusal ==
    \A r \in Requests : stage[r] = "refused" => 0 .. sells[r] - 1 \subseteq occupied[r]

\* No orphan brides: a customer card a request created survives only together
\* with the booking it was created for.
NoOrphanCard ==
    \A r \in Requests :
        card[r] = "kept" => stage[r] \in {"booked", "cancelling", "cancelled"}

\* Every request that begins is answered: no insert waits for ever and the loop
\* over seats ends.
EveryRequestAnswered ==
    \A r \in Requests : stage[r] \in InFlight ~> stage[r] \notin InFlight

-----------------------------------------------------------------------------
(* Why the properties hold: the inductive invariant.                       *)

\* A seat is chosen below the capacity the request is served with.
SeatBelowCapacity ==
    \A r \in Requests :
        stage[r] \in {"carding", "inserting", "inserted", "booked", "cancelling", "cancelled"}
            => seat[r] \in 0 .. sells[r] - 1

\* The savepoint: an uncommitted card exists only while its booking is being
\* inserted.
CardWithinSavepoint ==
    \A r \in Requests :
        card[r] = "uncommitted" => stage[r] \in {"inserting", "inserted"}

\* A request in flight has seen taken whatever its snapshot holds, whatever the
\* index refused it, and whatever is live now.
SeesEveryTakenSeat ==
    \A r \in Requests : stage[r] \in InFlight =>
        /\ \A q \in seen[r] : /\ stage[q] \in {"booked", "cancelling", "cancelled"}
                               /\ seat[q] \in occupied[r]
        /\ \A q \in LiveRows : seat[q] \in occupied[r]
        /\ rejected[r] \subseteq occupied[r]

\* Every attempt but the one under way has cost the request a seat, each a
\* different one.
OneSeatPerAttempt ==
    \A r \in Requests :
        /\ stage[r] = "new" => attempt[r] = 0 /\ rejected[r] = {}
        /\ stage[r] \in InFlight => rejected[r] \subseteq 0 .. sells[r] - 1
        /\ stage[r] = "picking" => attempt[r] = Cardinality(rejected[r])
        /\ stage[r] \in {"carding", "inserting"} =>
               /\ attempt[r] = Cardinality(rejected[r]) + 1
               /\ seat[r] \notin rejected[r]

IInv ==
    /\ TypeOK
    /\ OneBrideASeat
    /\ SeatBelowCapacity
    /\ CardWithinSavepoint
    /\ NoOrphanCard
    /\ SeesEveryTakenSeat
    /\ OneSeatPerAttempt
    /\ HonestRefusal

-----------------------------------------------------------------------------
(* The hour as a ledger of seats: a booking happens when its transaction   *)
(* commits, and a seat is free again when its cancellation does.           *)

HolderOf(s) ==
    IF \E q \in LiveRows : seat[q] = s
        THEN CHOOSE q \in LiveRows : seat[q] = s
        ELSE Nobody

VerdictOf(r) ==
    CASE stage[r] = "new"                      -> "unasked"
      [] stage[r] \in InFlight                 -> "asking"
      [] stage[r] \in {"booked", "cancelling"} -> "booked"
      [] stage[r] = "cancelled"                -> "released"
      [] stage[r] = "not_offered"              -> "turned_away"
      [] OTHER                                 -> stage[r]

Ledger == INSTANCE SeatLedger WITH
    holder  <- [s \in Seats |-> HolderOf(s)],
    verdict <- [r \in Requests |-> VerdictOf(r)],
    wanted  <- [r \in Requests |-> 0 .. sells[r] - 1]

\* The snapshots, the savepoint, the retry loop and the index together behave
\* like the ledger, in which taking a seat is one indivisible step.
ImplementsLedger == Ledger!Spec

=============================================================================
