--------------------------- MODULE OpeningWindows ---------------------------
(***************************************************************************)
(* The opening hours of one weekday (modryn.opening.hours) and the hours   *)
(* /book offers from them. Windows are added, resized in capacity, closed  *)
(* and reopened while bookings are being made. Time is in half hours; a    *)
(* fitting takes two.                                                      *)
(***************************************************************************)
EXTENDS Integers, FiniteSets, FiniteSetsExt

CONSTANTS
    LastTick,          \* closing time at the latest
    MaxCapacityTyped,  \* bound on the capacities typed
    MaxFittings        \* bound on the bookings taken

ASSUME WindowBounds == {MaxCapacityTyped, MaxFittings} \subseteq Nat \ {0} /\ LastTick \in Nat \ {0, 1}

Slot == 2              \* SLOT_MINUTES, in half hours

VARIABLES
    windows,           \* the rows, archived ones included
    booked,            \* live bookings by the tick they start at
    chosen,            \* the booking under way: the hour, the capacity it read
    moved,             \* the hours were edited since it began
    peak               \* history: the highest capacity of a window ever open

windowVars == <<windows, booked, chosen, moved, peak>>

Ticks  == 0..LastTick
NoHour == [hour |-> -1, seats |-> 0]

Windows == [opens : Ticks, closes : Ticks, capacity : 1..MaxCapacityTyped, open : BOOLEAN]

WindowTypeOK ==
    /\ windows \subseteq Windows
    /\ \A w \in windows : w.opens < w.closes
    /\ \A v, w \in windows : v.opens = w.opens => v = w
    /\ booked \in [Ticks -> 0..MaxCapacityTyped]
    /\ chosen \in [hour : Ticks, seats : 1..MaxCapacityTyped] \cup {NoHour}
    /\ moved  \in BOOLEAN
    /\ peak   \in 0..MaxCapacityTyped

Peak(ws) == Max({0} \cup {w.capacity : w \in {v \in ws : v.open}})

\* A weekday of DEFAULT_HOURS has one window, the weekend has none.
WindowInit ==
    /\ windows \in {{}, {[opens |-> 1, closes |-> LastTick, capacity |-> 1, open |-> TRUE]}}
    /\ booked = [t \in Ticks |-> 0]
    /\ chosen = NoHour /\ moved = FALSE
    /\ peak = Peak(windows)

-----------------------------------------------------------------------------
(* What is offered: _starts, _capacities.                                  *)

\* Variant: a fitting may begin until closing time.
StartsUntilClose(w) == {t \in w.opens..(w.closes - 1) : (t - w.opens) % Slot = 0}

\* A fitting has to finish by closing time.
Starts(w) == {t \in w.opens..w.closes : (t - w.opens) % Slot = 0 /\ t + Slot <= w.closes}

Offering(t) == {w \in windows : w.open /\ t \in Starts(w)}

\* Variant: windows that offer one hour add up.
SeatsAddedUp(t) == MapThenSumSet(LAMBDA w : w.capacity, Offering(t))

\* Where windows overlap, the roomier one wins.
Seats(t) == Max({0} \cup {w.capacity : w \in Offering(t)})

-----------------------------------------------------------------------------
(* The owner: hours_new, hours_capacity, hours_archive.                    *)

Edit(ws) ==
    /\ windows' = ws
    /\ moved' = (chosen # NoHour)
    /\ peak'  = Max({peak, Peak(ws)})
    /\ UNCHANGED <<booked, chosen>>

\* Two windows at most: the bound. An archived window keeps its opening time.
AddWindow ==
    \E o, c \in Ticks, n \in 1..MaxCapacityTyped :
        /\ o < c /\ Cardinality(windows) < 2
        /\ \A w \in windows : w.opens # o
        /\ Edit(windows \cup {[opens |-> o, closes |-> c, capacity |-> n, open |-> TRUE]})

\* Nothing booked is cancelled by it.
SetCapacity ==
    \E w \in windows, n \in 1..MaxCapacityTyped :
        Edit((windows \ {w}) \cup {[w EXCEPT !.capacity = n]})

TurnWindow ==
    \E w \in windows : Edit((windows \ {w}) \cup {[w EXCEPT !.open = ~w.open]})

-----------------------------------------------------------------------------
(* A bride: the hour is offered when her request begins, with a seat left. *)

BookBegins(t) ==
    /\ chosen = NoHour /\ booked[t] < Seats(t)
    /\ chosen' = [hour |-> t, seats |-> Seats(t)]
    /\ moved' = FALSE
    /\ UNCHANGED <<windows, booked, peak>>

\* All fittings of the day, which the bound is about.
FittingsTaken == MapThenSumSet(LAMBDA t : booked[t], Ticks)

BookCommits ==
    /\ chosen # NoHour
    /\ FittingsTaken < MaxFittings
    /\ booked' = [booked EXCEPT ![chosen.hour] = @ + 1]
    /\ chosen' = NoHour /\ moved' = FALSE
    /\ UNCHANGED <<windows, peak>>

CancelFitting(t) ==
    /\ booked[t] > 0
    /\ booked' = [booked EXCEPT ![t] = @ - 1]
    /\ UNCHANGED <<windows, chosen, moved, peak>>

WindowNext ==
    \/ AddWindow \/ SetCapacity \/ TurnWindow \/ BookCommits
    \/ \E t \in Ticks : BookBegins(t) \/ CancelFitting(t)

WindowSpec == WindowInit /\ [][WindowNext]_windowVars

-----------------------------------------------------------------------------
(* Properties.                                                             *)

\* The fittings that run at t: they began there or one tick before, a Slot being two.
Running(t) == booked[t] + (IF t = 0 THEN 0 ELSE booked[t - 1])

\* All windows of the day are on one lattice of hours.
Aligned == \A v, w \in windows : (v.opens - w.opens) % Slot = 0

\* While the windows are on one lattice, no more fittings run at any moment
\* than the roomiest window ever took, however windows overlap and change. The
\* lattice is not decoration: 09:30 to 11:30 beside 10:00 to 12:00, one fitting
\* each, takes two brides at 10:00, the hour booked and the hour running.
SeatsAtOnce == Aligned => \A t \in Ticks : Running(t) <= peak

\* A fitting is taken only if it ends before an open window closes, unless the
\* owner edited the hours while it was being taken.
FinishesByClosing ==
    [][\A t \in Ticks : booked'[t] > booked[t] /\ ~moved =>
           \E w \in windows : w.open /\ w.opens <= t /\ t + Slot <= w.closes]_windowVars

\* Whatever the owner's windows look like, the hours on sale fit into the shop:
\* in seats at every moment and in time before closing.
WindowsHold == FinishesByClosing /\ []SeatsAtOnce

=============================================================================
