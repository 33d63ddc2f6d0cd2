----------------------------- MODULE SeatLedger -----------------------------
(***************************************************************************)
(* What the boutique promises about ONE bookable hour, with no database in *)
(* sight: a seat has at most one holder, a request for the hour is         *)
(* answered by taking a free seat in one indivisible step, and a request   *)
(* may be told "that time was just taken" only if every seat it could have *)
(* had was occupied at some moment while it was being served.              *)
(*                                                                         *)
(* SlotBooking implements this with snapshots, savepoints, a Python loop   *)
(* and a partial unique index.                                             *)
(***************************************************************************)
EXTENDS Naturals

CONSTANTS
    Requests,      \* submissions of the booking or the claim form
    Seats,         \* the seats the hour could ever have
    Nobody         \* the holder of a free seat, not a request

VARIABLES
    holder,        \* who sits in each seat
    verdict,       \* what became of each request
    wanted,        \* the seats a request being served may take
    occupied       \* the seats found taken at some moment since it began

ledger == <<holder, verdict, wanted, occupied>>

Verdicts == {"unasked", "asking", "booked", "refused", "turned_away",
             "failed", "released"}

Taken == {s \in Seats : holder[s] # Nobody}

LedgerTypeOK ==
    /\ holder   \in [Seats -> Requests \cup {Nobody}]
    /\ verdict  \in [Requests -> Verdicts]
    /\ wanted   \in [Requests -> SUBSET Seats]
    /\ occupied \in [Requests -> SUBSET Seats]

Init ==
    /\ holder   = [s \in Seats |-> Nobody]
    /\ verdict  = [r \in Requests |-> "unasked"]
    /\ wanted   = [r \in Requests |-> {}]
    /\ occupied = [r \in Requests |-> {}]

\* The hour is on sale with the seats S, and r starts to be served.
Ask(r, S) ==
    /\ verdict[r] = "unasked"
    /\ verdict'  = [verdict EXCEPT ![r] = "asking"]
    /\ wanted'   = [wanted EXCEPT ![r] = S]
    /\ occupied' = [occupied EXCEPT ![r] = Taken]
    /\ UNCHANGED holder

\* The hour is not on sale to r.
TurnAway(r) ==
    /\ verdict[r] = "unasked"
    /\ verdict' = [verdict EXCEPT ![r] = "turned_away"]
    /\ UNCHANGED <<holder, wanted, occupied>>

\* r gets the free seat s; everybody being served will have seen it taken.
Book(r, s) ==
    /\ verdict[r] = "asking"
    /\ s \in wanted[r]
    /\ holder[s] = Nobody
    /\ holder'   = [holder EXCEPT ![s] = r]
    /\ verdict'  = [verdict EXCEPT ![r] = "booked"]
    /\ occupied' = [q \in Requests |-> IF q # r /\ verdict[q] = "asking"
                                          THEN occupied[q] \cup {s}
                                          ELSE occupied[q]]
    /\ UNCHANGED wanted

Refuse(r) ==
    /\ verdict[r] = "asking"
    /\ wanted[r] \subseteq occupied[r]
    /\ verdict' = [verdict EXCEPT ![r] = "refused"]
    /\ UNCHANGED <<holder, wanted, occupied>>

\* The server gave up on r and nothing of it remains.
Fail(r) ==
    /\ verdict[r] = "asking"
    /\ verdict' = [verdict EXCEPT ![r] = "failed"]
    /\ UNCHANGED <<holder, wanted, occupied>>

\* A cancelled booking frees its seat.
Release(r) ==
    /\ verdict[r] = "booked"
    /\ holder'  = [s \in Seats |-> IF holder[s] = r THEN Nobody ELSE holder[s]]
    /\ verdict' = [verdict EXCEPT ![r] = "released"]
    /\ UNCHANGED <<wanted, occupied>>

Next ==
    \E r \in Requests :
        \/ \E S \in SUBSET Seats : Ask(r, S)
        \/ TurnAway(r)
        \/ \E s \in Seats : Book(r, s)
        \/ Refuse(r)
        \/ Fail(r)
        \/ Release(r)

Spec == Init /\ [][Next]_ledger

=============================================================================
