------------------------- MODULE SlotBooking_proofs -------------------------
(***************************************************************************)
(* The safety of selling one hour, for any number of requests and any      *)
(* capacity. Everything follows from the inductive invariant IInv.         *)
(***************************************************************************)
EXTENDS SlotBooking, FiniteSetTheorems, WellFoundedInduction, TLAPS

-----------------------------------------------------------------------------
(* Facts about sets of seats.                                              *)

\* A non-empty set of numbers has a least member.
LEMMA LeastSeatExists ==
    ASSUME NEW S \in SUBSET Nat, S # {}
    PROVE  \E m \in S : \A k \in S : m <= k
<1>1. PICK m \in S : \A k \in S : <<k, m>> \notin OpToRel(<, Nat)
  <2>1. IsWellFoundedOn(OpToRel(<, Nat), Nat)
    BY NatLessThanWellFounded
  <2> QED
    BY <2>1, WFMin
<1>2. ASSUME NEW k \in S
      PROVE  m <= k
  <2>1. ~ (k < m)
    BY <1>1 DEF OpToRel
  <2> QED
    BY <2>1
<1> QED
  BY <1>2

\* `next(s for s in range(capacity) if s not in seats)` yields a free seat.
LEMMA LowestIsAMember ==
    ASSUME NEW S \in SUBSET Nat, S # {}
    PROVE  Lowest(S) \in S
BY LeastSeatExists DEF Lowest

-----------------------------------------------------------------------------
(* Typing.                                                                 *)

\* The seat the loop picks is below the capacity, and not one it was refused before.
LEMMA PickedSeat ==
    ASSUME TypeOK, NEW r \in Requests, FreeSeats(r) # {}
    PROVE  /\ Lowest(FreeSeats(r)) \in 0 .. sells[r] - 1
           /\ Lowest(FreeSeats(r)) \in Seats
           /\ Lowest(FreeSeats(r)) \notin rejected[r]
<1>1. FreeSeats(r) \subseteq Nat
  BY DEF FreeSeats
<1>2. Lowest(FreeSeats(r)) \in FreeSeats(r)
  BY <1>1, LowestIsAMember
<1>3. sells[r] \in 0 .. MaxCapacity
  BY DEF TypeOK
<1> QED
  BY <1>2, <1>3, CapacityNat DEF FreeSeats, Seats

\* The index never holds a seat the hour could not have.
LEMMA LiveSeatsAreSeats ==
    ASSUME TypeOK, SeatBelowCapacity
    PROVE  SeatsOf(LiveRows) \subseteq Seats
BY CapacityNat DEF TypeOK, SeatBelowCapacity, SeatsOf, LiveRows, Seats

\* The invariant holds before anybody asks for the hour.
LEMMA InitInvariant == Init => IInv
<1> SUFFICES ASSUME Init PROVE IInv
  OBVIOUS
<1>1. TypeOK
  BY CapacityNat DEF Init, TypeOK, Stages
<1>2. OneBrideASeat /\ SeatBelowCapacity /\ CardWithinSavepoint /\ NoOrphanCard
  BY DEF Init, OneBrideASeat, IndexedRows, LiveRows, SeatBelowCapacity,
         CardWithinSavepoint, NoOrphanCard
<1>3. SeesEveryTakenSeat /\ OneSeatPerAttempt /\ HonestRefusal
  BY DEF Init, SeesEveryTakenSeat, OneSeatPerAttempt, HonestRefusal, InFlight
<1> QED
  BY <1>1, <1>2, <1>3 DEF IInv

\* Every step leaves every variable of its type.
LEMMA NextTypeOK ==
    ASSUME IInv, [Next]_vars
    PROVE  TypeOK'
<1> USE DEF TypeOK, Stages
<1>0. TypeOK
  BY DEF IInv
<1>1. ASSUME NEW r \in Requests, Begin(r) PROVE TypeOK'
  <2>1. SeatsOf(LiveRows) \in SUBSET Seats
    BY LiveSeatsAreSeats DEF IInv
  <2>2. LiveRows \in SUBSET Requests
    BY DEF LiveRows
  <2> QED
    BY <1>0, <1>1, <2>1, <2>2 DEF Begin, Move
<1>2. ASSUME NEW r \in Requests, TurnAway(r) PROVE TypeOK'
  BY <1>0, <1>2 DEF TurnAway, Move
<1>3. ASSUME NEW r \in Requests, PickSeat(r) PROVE TypeOK'
  <2>1. Lowest(FreeSeats(r)) \in Seats
    BY <1>0, <1>3, PickedSeat DEF PickSeat
  <2>2. attempt[r] + 1 \in 0 .. MaxCapacity
    BY <1>0, <1>3, CapacityNat DEF PickSeat
  <2> QED
    BY <1>0, <1>3, <2>1, <2>2 DEF PickSeat, Move
<1>4. ASSUME NEW r \in Requests, Refuse(r) PROVE TypeOK'
  BY <1>0, <1>4 DEF Refuse, Move
<1>5. ASSUME NEW r \in Requests, FindOrCreateCard(r) PROVE TypeOK'
  BY <1>0, <1>5 DEF FindOrCreateCard, Move
<1>6. ASSUME NEW r \in Requests, InsertBooking(r) PROVE TypeOK'
  BY <1>0, <1>6 DEF InsertBooking, Move
<1>7. ASSUME NEW r \in Requests, SeatRefused(r) PROVE TypeOK'
  <2>1. seat[r] \in Seats
    BY <1>0, <1>7, CapacityNat DEF IInv, SeatBelowCapacity, SeatRefused, Move, Seats
  <2> QED
    BY <1>0, <1>7, <2>1 DEF SeatRefused, Move
<1>8. ASSUME NEW r \in Requests, Commit(r) PROVE TypeOK'
  <2>1. seat[r] \in Seats
    BY <1>0, <1>8, CapacityNat DEF IInv, SeatBelowCapacity, Commit, Move, Seats
  <2> QED
    BY <1>0, <1>8, <2>1 DEF Commit, Move
<1>9. ASSUME NEW r \in Requests, Abort(r) PROVE TypeOK'
  BY <1>0, <1>9 DEF Abort
<1>10. ASSUME NEW r \in Requests, Cancel(r) PROVE TypeOK'
  BY <1>0, <1>10 DEF Cancel, StartCancel, CommitCancel, RollbackCancel, Move
<1>11. ASSUME NEW c \in 0 .. MaxCapacity, SetCapacity(c) PROVE TypeOK'
  BY <1>0, <1>11 DEF SetCapacity
<1>12. CASE UNCHANGED vars
  BY <1>0, <1>12 DEF vars
<1> QED
  BY <1>1, <1>2, <1>3, <1>4, <1>5, <1>6, <1>7, <1>8, <1>9, <1>10, <1>11, <1>12
     DEF Next, Serve

-----------------------------------------------------------------------------
(* One seat, one bride.                                                    *)

\* Only InsertBooking brings a row into the index, and not while a rival is there.
LEMMA NextOneBrideASeat ==
    ASSUME IInv, TypeOK', [Next]_vars
    PROVE  OneBrideASeat'
<1> USE DEF OneBrideASeat, IndexedRows, LiveRows
<1>0. TypeOK
  BY DEF IInv
<1>1. ASSUME NEW r \in Requests, Begin(r) PROVE OneBrideASeat'
  BY <1>0, <1>1 DEF IInv, TypeOK, Begin, Move
<1>2. ASSUME NEW r \in Requests, TurnAway(r) PROVE OneBrideASeat'
  BY <1>0, <1>2 DEF IInv, TypeOK, TurnAway, Move
<1>3. ASSUME NEW r \in Requests, PickSeat(r) PROVE OneBrideASeat'
  BY <1>0, <1>3 DEF IInv, TypeOK, PickSeat, Move
<1>4. ASSUME NEW r \in Requests, Refuse(r) PROVE OneBrideASeat'
  BY <1>0, <1>4 DEF IInv, TypeOK, Refuse, Move
<1>5. ASSUME NEW r \in Requests, FindOrCreateCard(r) PROVE OneBrideASeat'
  BY <1>0, <1>5 DEF IInv, TypeOK, FindOrCreateCard, Move
<1>6. ASSUME NEW r \in Requests, InsertBooking(r) PROVE OneBrideASeat'
  <2>1. \A q \in IndexedRows : q # r => seat[q] # seat[r]
    BY <1>6 DEF InsertBooking, Rivals
  <2>2. IndexedRows' \subseteq IndexedRows \cup {r}
    BY <1>0, <1>6 DEF InsertBooking, Move, TypeOK
  <2>3. seat' = seat
    BY <1>6 DEF InsertBooking
  <2>4. OneBrideASeat
    BY DEF IInv
  <2> QED
    BY <2>1, <2>2, <2>3, <2>4
<1>7. ASSUME NEW r \in Requests, SeatRefused(r) PROVE OneBrideASeat'
  BY <1>0, <1>7 DEF IInv, TypeOK, SeatRefused, Move
<1>8. ASSUME NEW r \in Requests, Commit(r) PROVE OneBrideASeat'
  BY <1>0, <1>8 DEF IInv, TypeOK, Commit, Move
<1>9. ASSUME NEW r \in Requests, Abort(r) PROVE OneBrideASeat'
  BY <1>0, <1>9 DEF IInv, TypeOK, Abort
<1>10. ASSUME NEW r \in Requests, StartCancel(r) PROVE OneBrideASeat'
  BY <1>0, <1>10 DEF IInv, TypeOK, StartCancel, Move
<1>11. ASSUME NEW r \in Requests, CommitCancel(r) PROVE OneBrideASeat'
  BY <1>0, <1>11 DEF IInv, TypeOK, CommitCancel, Move
<1>12. ASSUME NEW r \in Requests, RollbackCancel(r) PROVE OneBrideASeat'
  BY <1>0, <1>12 DEF IInv, TypeOK, RollbackCancel, Move
<1>13. ASSUME NEW c \in 0 .. MaxCapacity, SetCapacity(c) PROVE OneBrideASeat'
  BY <1>0, <1>13 DEF IInv, SetCapacity
<1>14. CASE UNCHANGED vars
  BY <1>0, <1>14 DEF IInv, vars
<1> QED
  BY <1>1, <1>2, <1>3, <1>4, <1>5, <1>6, <1>7, <1>8,
     <1>9, <1>10, <1>11, <1>12, <1>13, <1>14
     DEF Next, Serve, Cancel

\* The seat is chosen in PickSeat and the capacity it is chosen under stays.
LEMMA NextSeatBelowCapacity ==
    ASSUME IInv, TypeOK', [Next]_vars
    PROVE  SeatBelowCapacity'
<1> USE DEF SeatBelowCapacity
<1>0. TypeOK
  BY DEF IInv
<1>1. ASSUME NEW r \in Requests, Begin(r) PROVE SeatBelowCapacity'
  BY <1>0, <1>1 DEF IInv, TypeOK, Begin, Move
<1>2. ASSUME NEW r \in Requests, TurnAway(r) PROVE SeatBelowCapacity'
  BY <1>0, <1>2 DEF IInv, TypeOK, TurnAway, Move
<1>3. ASSUME NEW r \in Requests, PickSeat(r) PROVE SeatBelowCapacity'
  <2>1. Lowest(FreeSeats(r)) \in 0 .. sells[r] - 1
    BY <1>0, <1>3, PickedSeat DEF PickSeat
  <2> QED
    BY <1>0, <1>3, <2>1 DEF IInv, TypeOK, PickSeat, Move
<1>4. ASSUME NEW r \in Requests, Refuse(r) PROVE SeatBelowCapacity'
  BY <1>0, <1>4 DEF IInv, TypeOK, Refuse, Move
<1>5. ASSUME NEW r \in Requests, FindOrCreateCard(r) PROVE SeatBelowCapacity'
  BY <1>0, <1>5 DEF IInv, TypeOK, FindOrCreateCard, Move
<1>6. ASSUME NEW r \in Requests, InsertBooking(r) PROVE SeatBelowCapacity'
  BY <1>0, <1>6 DEF IInv, TypeOK, InsertBooking, Move
<1>7. ASSUME NEW r \in Requests, SeatRefused(r) PROVE SeatBelowCapacity'
  BY <1>0, <1>7 DEF IInv, TypeOK, SeatRefused, Move
<1>8. ASSUME NEW r \in Requests, Commit(r) PROVE SeatBelowCapacity'
  BY <1>0, <1>8 DEF IInv, TypeOK, Commit, Move
<1>9. ASSUME NEW r \in Requests, Abort(r) PROVE SeatBelowCapacity'
  BY <1>0, <1>9 DEF IInv, TypeOK, Abort
<1>10. ASSUME NEW r \in Requests, StartCancel(r) PROVE SeatBelowCapacity'
  BY <1>0, <1>10 DEF IInv, TypeOK, StartCancel, Move
<1>11. ASSUME NEW r \in Requests, CommitCancel(r) PROVE SeatBelowCapacity'
  BY <1>0, <1>11 DEF IInv, TypeOK, CommitCancel, Move
<1>12. ASSUME NEW r \in Requests, RollbackCancel(r) PROVE SeatBelowCapacity'
  BY <1>0, <1>12 DEF IInv, TypeOK, RollbackCancel, Move
<1>13. ASSUME NEW c \in 0 .. MaxCapacity, SetCapacity(c) PROVE SeatBelowCapacity'
  BY <1>0, <1>13 DEF IInv, SetCapacity
<1>14. CASE UNCHANGED vars
  BY <1>0, <1>14 DEF IInv, vars
<1> QED
  BY <1>1, <1>2, <1>3, <1>4, <1>5, <1>6, <1>7, <1>8,
     <1>9, <1>10, <1>11, <1>12, <1>13, <1>14
     DEF Next, Serve, Cancel

\* A card is created in the savepoint, undone with it, and kept with the booking.
LEMMA NextCards ==
    ASSUME IInv, TypeOK', [Next]_vars
    PROVE  CardWithinSavepoint' /\ NoOrphanCard'
<1> USE DEF CardWithinSavepoint, NoOrphanCard
<1>0. TypeOK
  BY DEF IInv
<1>1. ASSUME NEW r \in Requests, Begin(r) PROVE CardWithinSavepoint' /\ NoOrphanCard'
  BY <1>0, <1>1 DEF IInv, TypeOK, Begin, Move
<1>2. ASSUME NEW r \in Requests, TurnAway(r) PROVE CardWithinSavepoint' /\ NoOrphanCard'
  BY <1>0, <1>2 DEF IInv, TypeOK, TurnAway, Move
<1>3. ASSUME NEW r \in Requests, PickSeat(r) PROVE CardWithinSavepoint' /\ NoOrphanCard'
  BY <1>0, <1>3 DEF IInv, TypeOK, PickSeat, Move
<1>4. ASSUME NEW r \in Requests, Refuse(r) PROVE CardWithinSavepoint' /\ NoOrphanCard'
  BY <1>0, <1>4 DEF IInv, TypeOK, Refuse, Move
<1>5. ASSUME NEW r \in Requests, FindOrCreateCard(r) PROVE CardWithinSavepoint' /\ NoOrphanCard'
  BY <1>0, <1>5 DEF IInv, TypeOK, FindOrCreateCard, Move
<1>6. ASSUME NEW r \in Requests, InsertBooking(r) PROVE CardWithinSavepoint' /\ NoOrphanCard'
  BY <1>0, <1>6 DEF IInv, TypeOK, InsertBooking, Move
<1>7. ASSUME NEW r \in Requests, SeatRefused(r) PROVE CardWithinSavepoint' /\ NoOrphanCard'
  BY <1>0, <1>7 DEF IInv, TypeOK, SeatRefused, Move
<1>8. ASSUME NEW r \in Requests, Commit(r) PROVE CardWithinSavepoint' /\ NoOrphanCard'
  BY <1>0, <1>8 DEF IInv, TypeOK, Commit, Move
<1>9. ASSUME NEW r \in Requests, Abort(r) PROVE CardWithinSavepoint' /\ NoOrphanCard'
  BY <1>0, <1>9 DEF IInv, TypeOK, Abort
<1>10. ASSUME NEW r \in Requests, StartCancel(r) PROVE CardWithinSavepoint' /\ NoOrphanCard'
  BY <1>0, <1>10 DEF IInv, TypeOK, StartCancel, Move
<1>11. ASSUME NEW r \in Requests, CommitCancel(r) PROVE CardWithinSavepoint' /\ NoOrphanCard'
  BY <1>0, <1>11 DEF IInv, TypeOK, CommitCancel, Move
<1>12. ASSUME NEW r \in Requests, RollbackCancel(r) PROVE CardWithinSavepoint' /\ NoOrphanCard'
  BY <1>0, <1>12 DEF IInv, TypeOK, RollbackCancel, Move
<1>13. ASSUME NEW c \in 0 .. MaxCapacity, SetCapacity(c) PROVE CardWithinSavepoint' /\ NoOrphanCard'
  BY <1>0, <1>13 DEF IInv, SetCapacity
<1>14. CASE UNCHANGED vars
  BY <1>0, <1>14 DEF IInv, vars
<1> QED
  BY <1>1, <1>2, <1>3, <1>4, <1>5, <1>6, <1>7, <1>8,
     <1>9, <1>10, <1>11, <1>12, <1>13, <1>14
     DEF Next, Serve, Cancel

-----------------------------------------------------------------------------
(* Honest refusals.                                                        *)

\* Whatever is live when a request begins, or goes live while it runs, is in
\* `occupied`; the index refuses a seat only to a live row.
LEMMA NextSeesEveryTakenSeat ==
    ASSUME IInv, TypeOK', [Next]_vars
    PROVE  SeesEveryTakenSeat'
<1> USE DEF SeesEveryTakenSeat, LiveRows, InFlight
<1>0. TypeOK
  BY DEF IInv
<1>1. ASSUME NEW r \in Requests, Begin(r) PROVE SeesEveryTakenSeat'
  <2>1. \A q \in LiveRows : seat[q] \in occupied'[r]
    BY <1>0, <1>1 DEF Begin, SeatsOf, TypeOK
  <2>2. rejected[r] \subseteq occupied'[r]
    BY <1>0, <1>1 DEF IInv, OneSeatPerAttempt, Begin, Move, TypeOK
  <2> QED
    BY <1>0, <1>1, <2>1, <2>2 DEF IInv, TypeOK, Begin, Move
<1>2. ASSUME NEW r \in Requests, TurnAway(r) PROVE SeesEveryTakenSeat'
  BY <1>0, <1>2 DEF IInv, TypeOK, TurnAway, Move
<1>3. ASSUME NEW r \in Requests, PickSeat(r) PROVE SeesEveryTakenSeat'
  BY <1>0, <1>3 DEF IInv, TypeOK, PickSeat, Move
<1>4. ASSUME NEW r \in Requests, Refuse(r) PROVE SeesEveryTakenSeat'
  BY <1>0, <1>4 DEF IInv, TypeOK, Refuse, Move
<1>5. ASSUME NEW r \in Requests, FindOrCreateCard(r) PROVE SeesEveryTakenSeat'
  BY <1>0, <1>5 DEF IInv, TypeOK, FindOrCreateCard, Move
<1>6. ASSUME NEW r \in Requests, InsertBooking(r) PROVE SeesEveryTakenSeat'
  BY <1>0, <1>6 DEF IInv, TypeOK, InsertBooking, Move
<1>7. ASSUME NEW r \in Requests, SeatRefused(r) PROVE SeesEveryTakenSeat'
  <2>1. PICK q \in LiveRows : seat[q] = seat[r]
    BY <1>7 DEF SeatRefused, Rivals, IndexedRows
  <2>2. stage[r] = "inserting"
    BY <1>7 DEF SeatRefused, Move
  <2>3. seat[r] \in occupied[r]
    BY <2>1, <2>2 DEF IInv
  <2> QED
    BY <1>0, <1>7, <2>2, <2>3 DEF IInv, TypeOK, SeatRefused, Move
<1>8. ASSUME NEW r \in Requests, Commit(r) PROVE SeesEveryTakenSeat'
  BY <1>0, <1>8 DEF IInv, TypeOK, Commit, Move
<1>9. ASSUME NEW r \in Requests, Abort(r) PROVE SeesEveryTakenSeat'
  BY <1>0, <1>9 DEF IInv, TypeOK, Abort
<1>10. ASSUME NEW r \in Requests, StartCancel(r) PROVE SeesEveryTakenSeat'
  BY <1>0, <1>10 DEF IInv, TypeOK, StartCancel, Move
<1>11. ASSUME NEW r \in Requests, CommitCancel(r) PROVE SeesEveryTakenSeat'
  BY <1>0, <1>11 DEF IInv, TypeOK, CommitCancel, Move
<1>12. ASSUME NEW r \in Requests, RollbackCancel(r) PROVE SeesEveryTakenSeat'
  BY <1>0, <1>12 DEF IInv, TypeOK, RollbackCancel, Move
<1>13. ASSUME NEW c \in 0 .. MaxCapacity, SetCapacity(c) PROVE SeesEveryTakenSeat'
  BY <1>0, <1>13 DEF IInv, SetCapacity
<1>14. CASE UNCHANGED vars
  BY <1>0, <1>14 DEF IInv, vars
<1> QED
  BY <1>1, <1>2, <1>3, <1>4, <1>5, <1>6, <1>7, <1>8,
     <1>9, <1>10, <1>11, <1>12, <1>13, <1>14
     DEF Next, Serve, Cancel

\* The seats a request has lost are finitely many.
LEMMA RejectedFinite ==
    ASSUME TypeOK, NEW r \in Requests
    PROVE  IsFiniteSet(rejected[r]) /\ Cardinality(rejected[r]) \in Nat
<1>1. IsFiniteSet(Seats)
  BY CapacityNat, FS_Interval DEF Seats
<1>2. rejected[r] \in SUBSET Seats
  BY DEF TypeOK
<1> QED
  BY <1>1, <1>2, FS_Subset, FS_CardinalityType

\* range(capacity) has capacity members.
LEMMA RangeCardinality ==
    ASSUME NEW n \in Nat
    PROVE  IsFiniteSet(0 .. n - 1) /\ Cardinality(0 .. n - 1) = n
<1>1. n - 1 \in Int /\ 0 \in Int
  OBVIOUS
<1>2. /\ IsFiniteSet(0 .. n - 1)
      /\ Cardinality(0 .. n - 1) = IF 0 > n - 1 THEN 0 ELSE (n - 1) - 0 + 1
  BY <1>1, FS_Interval
<1> QED
  BY <1>2

\* The loop's arithmetic: range(capacity) is counted by the seats it has lost.
LEMMA NextOneSeatPerAttempt ==
    ASSUME IInv, TypeOK', [Next]_vars
    PROVE  OneSeatPerAttempt'
<1> USE DEF OneSeatPerAttempt, InFlight
<1>0. TypeOK
  BY DEF IInv
<1>1. ASSUME NEW r \in Requests, Begin(r) PROVE OneSeatPerAttempt'
  <2>1. rejected[r] = {} /\ attempt[r] = 0
    BY <1>0, <1>1 DEF IInv, Begin, Move
  <2> QED
    BY <1>0, <1>1, <2>1, FS_EmptySet DEF IInv, TypeOK, Begin, Move
<1>2. ASSUME NEW r \in Requests, TurnAway(r) PROVE OneSeatPerAttempt'
  BY <1>0, <1>2 DEF IInv, TypeOK, TurnAway, Move
<1>3. ASSUME NEW r \in Requests, PickSeat(r) PROVE OneSeatPerAttempt'
  <2>1. Lowest(FreeSeats(r)) \notin rejected[r]
    BY <1>0, <1>3, PickedSeat DEF PickSeat
  <2> QED
    BY <1>0, <1>3, <2>1 DEF IInv, TypeOK, PickSeat, Move
<1>4. ASSUME NEW r \in Requests, Refuse(r) PROVE OneSeatPerAttempt'
  BY <1>0, <1>4 DEF IInv, TypeOK, Refuse, Move
<1>5. ASSUME NEW r \in Requests, FindOrCreateCard(r) PROVE OneSeatPerAttempt'
  BY <1>0, <1>5 DEF IInv, TypeOK, FindOrCreateCard, Move
<1>6. ASSUME NEW r \in Requests, InsertBooking(r) PROVE OneSeatPerAttempt'
  BY <1>0, <1>6 DEF IInv, TypeOK, InsertBooking, Move
<1>7. ASSUME NEW r \in Requests, SeatRefused(r) PROVE OneSeatPerAttempt'
  <2>1. stage[r] = "inserting" /\ seat[r] \notin rejected[r]
    BY <1>0, <1>7 DEF IInv, SeatRefused, Move
  <2>2. seat[r] \in 0 .. sells[r] - 1
    BY <2>1 DEF IInv, SeatBelowCapacity
  <2>3. Cardinality(rejected[r] \cup {seat[r]}) = Cardinality(rejected[r]) + 1
    BY <1>0, <2>1, RejectedFinite, FS_AddElement
  <2> QED
    BY <1>0, <1>7, <2>1, <2>2, <2>3 DEF IInv, TypeOK, SeatRefused, Move
<1>8. ASSUME NEW r \in Requests, Commit(r) PROVE OneSeatPerAttempt'
  BY <1>0, <1>8 DEF IInv, TypeOK, Commit, Move
<1>9. ASSUME NEW r \in Requests, Abort(r) PROVE OneSeatPerAttempt'
  BY <1>0, <1>9 DEF IInv, TypeOK, Abort
<1>10. ASSUME NEW r \in Requests, StartCancel(r) PROVE OneSeatPerAttempt'
  BY <1>0, <1>10 DEF IInv, TypeOK, StartCancel, Move
<1>11. ASSUME NEW r \in Requests, CommitCancel(r) PROVE OneSeatPerAttempt'
  BY <1>0, <1>11 DEF IInv, TypeOK, CommitCancel, Move
<1>12. ASSUME NEW r \in Requests, RollbackCancel(r) PROVE OneSeatPerAttempt'
  BY <1>0, <1>12 DEF IInv, TypeOK, RollbackCancel, Move
<1>13. ASSUME NEW c \in 0 .. MaxCapacity, SetCapacity(c) PROVE OneSeatPerAttempt'
  BY <1>0, <1>13 DEF IInv, SetCapacity
<1>14. CASE UNCHANGED vars
  BY <1>0, <1>14 DEF IInv, vars
<1> QED
  BY <1>1, <1>2, <1>3, <1>4, <1>5, <1>6, <1>7, <1>8,
     <1>9, <1>10, <1>11, <1>12, <1>13, <1>14
     DEF Next, Serve, Cancel

\* A refusal comes when no seat is left to try or the attempts are spent; either
\* way each seat of the capacity was seen taken or was lost to a live booking.
LEMMA NextHonestRefusal ==
    ASSUME IInv, TypeOK', [Next]_vars
    PROVE  HonestRefusal'
<1> USE DEF HonestRefusal
<1>0. TypeOK
  BY DEF IInv
<1>1. ASSUME NEW r \in Requests, Begin(r) PROVE HonestRefusal'
  BY <1>0, <1>1 DEF IInv, TypeOK, Begin, Move
<1>2. ASSUME NEW r \in Requests, TurnAway(r) PROVE HonestRefusal'
  BY <1>0, <1>2 DEF IInv, TypeOK, TurnAway, Move
<1>3. ASSUME NEW r \in Requests, PickSeat(r) PROVE HonestRefusal'
  BY <1>0, <1>3 DEF IInv, TypeOK, PickSeat, Move
<1>4. ASSUME NEW r \in Requests, Refuse(r) PROVE HonestRefusal'
  <2>1. stage[r] = "picking" /\ sells[r] \in Nat
    BY <1>0, <1>4 DEF Refuse, Move, TypeOK
  <2>2. rejected[r] \subseteq occupied[r] /\ SeatsOf(seen[r]) \subseteq occupied[r]
    BY <1>0, <2>1 DEF IInv, SeesEveryTakenSeat, InFlight, SeatsOf
  <2>3. 0 .. sells[r] - 1 \subseteq occupied[r]
    <3>1. CASE FreeSeats(r) = {}
      BY <3>1, <2>2 DEF FreeSeats
    <3>2. CASE attempt[r] = sells[r]
      <4>1. Cardinality(rejected[r]) = sells[r] /\ rejected[r] \subseteq 0 .. sells[r] - 1
        BY <2>1, <3>2 DEF IInv, OneSeatPerAttempt, InFlight
      <4>2. IsFiniteSet(0 .. sells[r] - 1) /\ Cardinality(0 .. sells[r] - 1) = sells[r]
        BY <2>1, RangeCardinality
      <4>3. rejected[r] = 0 .. sells[r] - 1
        BY <4>1, <4>2, FS_Subset
      <4> QED
        BY <2>2, <4>3
    <3> QED
      BY <1>4, <3>1, <3>2 DEF Refuse
  <2> QED
    BY <1>0, <1>4, <2>3 DEF IInv, TypeOK, Refuse, Move
<1>5. ASSUME NEW r \in Requests, FindOrCreateCard(r) PROVE HonestRefusal'
  BY <1>0, <1>5 DEF IInv, TypeOK, FindOrCreateCard, Move
<1>6. ASSUME NEW r \in Requests, InsertBooking(r) PROVE HonestRefusal'
  BY <1>0, <1>6 DEF IInv, TypeOK, InsertBooking, Move
<1>7. ASSUME NEW r \in Requests, SeatRefused(r) PROVE HonestRefusal'
  BY <1>0, <1>7 DEF IInv, TypeOK, SeatRefused, Move
<1>8. ASSUME NEW r \in Requests, Commit(r) PROVE HonestRefusal'
  BY <1>0, <1>8 DEF IInv, TypeOK, Commit, Move
<1>9. ASSUME NEW r \in Requests, Abort(r) PROVE HonestRefusal'
  BY <1>0, <1>9 DEF IInv, TypeOK, Abort
<1>10. ASSUME NEW r \in Requests, StartCancel(r) PROVE HonestRefusal'
  BY <1>0, <1>10 DEF IInv, TypeOK, StartCancel, Move
<1>11. ASSUME NEW r \in Requests, CommitCancel(r) PROVE HonestRefusal'
  BY <1>0, <1>11 DEF IInv, TypeOK, CommitCancel, Move
<1>12. ASSUME NEW r \in Requests, RollbackCancel(r) PROVE HonestRefusal'
  BY <1>0, <1>12 DEF IInv, TypeOK, RollbackCancel, Move
<1>13. ASSUME NEW c \in 0 .. MaxCapacity, SetCapacity(c) PROVE HonestRefusal'
  BY <1>0, <1>13 DEF IInv, SetCapacity
<1>14. CASE UNCHANGED vars
  BY <1>0, <1>14 DEF IInv, vars
<1> QED
  BY <1>1, <1>2, <1>3, <1>4, <1>5, <1>6, <1>7, <1>8,
     <1>9, <1>10, <1>11, <1>12, <1>13, <1>14
     DEF Next, Serve, Cancel

-----------------------------------------------------------------------------
(* Counting.                                                               *)

\* Distinct seats below n hold at most n bookings: with one bride a seat, the
\* live bookings cannot all have been sold under a smaller capacity than their
\* number.
LEMMA NeverOverbookedFollows == IInv => NeverOverbooked
<1> SUFFICES ASSUME IInv, LiveRows # {},
                    \A q \in LiveRows : ~ (Cardinality(LiveRows) <= sells[q])
             PROVE  FALSE
  BY DEF NeverOverbooked
<1> DEFINE n == Cardinality(LiveRows)
           f == [q \in LiveRows |-> seat[q]]
<1>1. IsFiniteSet(LiveRows) /\ n \in Nat
  BY RequestsFinite, FS_Subset, FS_CardinalityType DEF LiveRows
<1>2. n # 0
  BY <1>1, FS_EmptySet
<1>3. ASSUME NEW q \in LiveRows
      PROVE  seat[q] \in 0 .. (n - 1) - 1
  <2>1. q \in Requests /\ stage[q] \in {"booked", "cancelling"}
    BY DEF LiveRows
  <2>2. seat[q] \in 0 .. sells[q] - 1 /\ sells[q] \in Nat
    BY <2>1, CapacityNat DEF IInv, SeatBelowCapacity, TypeOK
  <2>3. ~ (n <= sells[q])
    OBVIOUS
  <2>4. sells[q] <= n - 1
    BY <1>1, <2>2, <2>3
  <2> QED
    BY <1>1, <2>2, <2>4
<1>4. f \in [LiveRows -> 0 .. (n - 1) - 1]
  BY <1>3
<1>5. IsFiniteSet(0 .. (n - 1) - 1) /\ Cardinality(0 .. (n - 1) - 1) = n - 1
  BY <1>1, <1>2, RangeCardinality
<1>6. PICK p, q \in LiveRows : p # q /\ f[p] = f[q]
  <2>1. Cardinality(0 .. (n - 1) - 1) < Cardinality(LiveRows)
    BY <1>1, <1>5
  <2> HIDE DEF f
  <2> QED
    BY <1>1, <1>4, <1>5, <2>1, FS_PigeonHole
<1> QED
  BY <1>6 DEF IInv, OneBrideASeat, IndexedRows

-----------------------------------------------------------------------------
(* The theorems.                                                           *)

\* Every step keeps the invariant.
LEMMA NextInvariant == IInv /\ [Next]_vars => IInv'
<1> SUFFICES ASSUME IInv, [Next]_vars PROVE IInv'
  OBVIOUS
<1>1. TypeOK'
  BY NextTypeOK
<1> QED
  BY <1>1, NextOneBrideASeat, NextSeatBelowCapacity, NextCards,
     NextSeesEveryTakenSeat, NextOneSeatPerAttempt, NextHonestRefusal
     DEF IInv

\* IInv is an invariant of every behaviour of the hour.
THEOREM InductiveInvariant == Spec => []IInv
BY InitInvariant, NextInvariant, PTL DEF Spec

\* Every variable keeps its type.
THEOREM TypeCorrect == Spec => []TypeOK
<1>1. IInv => TypeOK
  BY DEF IInv
<1> QED
  BY <1>1, InductiveInvariant, PTL

\* Two brides never hold one seat, however requests, cancellations and changes
\* of the owner's week interleave.
THEOREM NoDoubleBooking == Spec => []OneBrideASeat
<1>1. IInv => OneBrideASeat
  BY DEF IInv
<1> QED
  BY <1>1, InductiveInvariant, PTL

\* The hour is never sold beyond the capacity one of its live bookings was made
\* under.
THEOREM CapacityRespected == Spec => []NeverOverbooked
BY NeverOverbookedFollows, InductiveInvariant, PTL

\* "That time was just taken" is never said beside a seat that was free all the
\* while.
THEOREM RefusalsAreHonest == Spec => []HonestRefusal
<1>1. IInv => HonestRefusal
  BY DEF IInv
<1> QED
  BY <1>1, InductiveInvariant, PTL

\* A losing racer leaves no customer card behind.
THEOREM NoOrphanBrides == Spec => []NoOrphanCard
<1>1. IInv => NoOrphanCard
  BY DEF IInv
<1> QED
  BY <1>1, InductiveInvariant, PTL

=============================================================================
