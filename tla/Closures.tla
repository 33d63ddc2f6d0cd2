------------------------------ MODULE Closures ------------------------------
(***************************************************************************)
(* One date, the closures that take it off the booking page                *)
(* (modryn.closure), and the fittings booked around it. An owner may close *)
(* a date only when nobody is booked on it; a bride may book only a date   *)
(* that is not closed. Each looks in a snapshot, and no row is shared.     *)
(***************************************************************************)
EXTENDS FiniteSets

CONSTANTS
    DayFittings,       \* bookings to be made
    ClosureRows,       \* closures of the date to be entered
    NoRow              \* stands for neither

(***************************************************************************)
(* The count of booked fittings compares UTC times with local dates, so    *)
(* the date it searches begins and ends some hours late: it misses the     *)
(* "early" hours of the date, and counts those of the day "after".         *)
(***************************************************************************)
Parts == {"early", "day", "after"}

VARIABLES
    fit,               \* each fitting: its row, and its part of the date
    closure,           \* each closure row: "none", "active" or "archived"
    booking,           \* the bookings under way: begun when the date was open
    closing,           \* the closures being entered: the count found nobody
    turning,           \* the closure whose button has been pressed, and its mark
    raced              \* history: fittings that crossed a closure or were there
                       \* when one was switched back on

closureVars == <<fit, closure, booking, closing, turning, raced>>

NotTurning == [row |-> NoRow, was |-> "archived"]

ClosureTypeOK ==
    /\ fit     \in [DayFittings -> [row : {"none", "live", "cancelled"}, part : Parts]]
    /\ closure \in [ClosureRows -> {"none", "active", "archived"}]
    /\ booking \subseteq {f \in DayFittings : fit[f].row = "none"}
    /\ closing \subseteq {c \in ClosureRows : closure[c] = "none"}
    /\ turning \in [row : ClosureRows \cup {NoRow}, was : {"active", "archived"}]
    /\ raced   \subseteq DayFittings

ClosureInit ==
    /\ fit     \in [DayFittings -> [row : {"none"}, part : Parts]]
    /\ closure = [c \in ClosureRows |-> "none"]
    /\ booking = {} /\ closing = {} /\ raced = {}
    /\ turning = NotTurning

Live == {f \in DayFittings : fit[f].row = "live"}

\* modryn_is_closed, modryn_closed_dates.
IsClosed == \E c \in ClosureRows : closure[c] = "active"

\* The page of the day after knows nothing of this date's closures.
OffersPart(f) == fit[f].part = "after" \/ ~IsClosed

BookingStarts(f) ==
    /\ fit[f].row = "none" /\ f \notin booking /\ OffersPart(f)
    /\ booking' = booking \cup {f}
    /\ UNCHANGED <<fit, closure, closing, turning, raced>>

BookingEnds(f) ==
    /\ f \in booking
    /\ booking' = booking \ {f}
    /\ fit'   = [fit EXCEPT ![f].row = "live"]
    /\ raced' = IF closing # {} THEN raced \cup {f} ELSE raced
    /\ UNCHANGED <<closure, closing, turning>>

Cancel(f) ==
    /\ fit[f].row = "live"
    /\ fit' = [fit EXCEPT ![f].row = "cancelled"]
    /\ UNCHANGED <<closure, booking, closing, turning, raced>>

\* Variant: the search ends where the last date begins.
CountedToLastDay == {}

\* The fittings closure_new counts.
Counted == {f \in Live : fit[f].part \in {"day", "after"}}

ClosingStarts(c) ==
    /\ closure[c] = "none" /\ c \notin closing /\ Counted = {}
    /\ closing' = closing \cup {c}
    /\ UNCHANGED <<fit, closure, booking, turning, raced>>

ClosingEnds(c) ==
    /\ c \in closing
    /\ closing' = closing \ {c}
    /\ closure' = [closure EXCEPT ![c] = "active"]
    /\ raced' = raced \cup booking
    /\ UNCHANGED <<fit, booking, turning>>

\* closure_archive: the button turns the mark it read, and counts nobody. Two
\* presses at once would meet on the row, so that one runs after the other.
TurnStarts(c) ==
    /\ turning = NotTurning /\ closure[c] # "none"
    /\ turning' = [row |-> c, was |-> closure[c]]
    /\ UNCHANGED <<fit, closure, booking, closing, raced>>

TurnEnds ==
    /\ turning # NotTurning
    /\ closure' = [closure EXCEPT ![turning.row] =
                      IF turning.was = "active" THEN "archived" ELSE "active"]
    /\ raced'   = IF turning.was = "archived" THEN raced \cup Live \cup booking ELSE raced
    /\ turning' = NotTurning
    /\ UNCHANGED <<fit, booking, closing>>

ClosureNext ==
    \/ TurnEnds
    \/ \E f \in DayFittings : BookingStarts(f) \/ BookingEnds(f) \/ Cancel(f)
    \/ \E c \in ClosureRows : ClosingStarts(c) \/ ClosingEnds(c) \/ TurnStarts(c)

ClosureSpec == ClosureInit /\ [][ClosureNext]_closureVars

-----------------------------------------------------------------------------
(* Properties.                                                             *)

\* A bride is left with a fitting in a dark shop only if her booking crossed
\* the closure, if a closure was switched back on over her, or if her hour is
\* one of those after midnight that the count does not reach.
DarkShopIsExcused ==
    IsClosed => \A f \in Live : fit[f].part = "day" => f \in raced

=============================================================================
