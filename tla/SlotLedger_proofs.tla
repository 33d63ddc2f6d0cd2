------------------------- MODULE SlotLedger_proofs --------------------------
(***************************************************************************)
(* SlotBooking implements SeatLedger: under the mapping of SlotBooking,    *)
(* every step of the requests, the cancellations and the owner is a step   *)
(* of the ledger or leaves it alone.                                       *)
(***************************************************************************)
EXTENDS SlotBooking_proofs

Held == [s \in Seats |-> HolderOf(s)]

Verdict == [r \in Requests |-> VerdictOf(r)]

Wanted == [r \in Requests |-> 0 .. sells[r] - 1]

HoldersRight ==
    \A s \in Seats :
        /\ \A q \in LiveRows : seat[q] = s => HolderOf(s) = q
        /\ (\A q \in LiveRows : seat[q] # s) => HolderOf(s) = Nobody

\* With one bride a seat, the holder of a seat is the live row that has it.
LEMMA HolderIsTheLiveRow == IInv => HoldersRight
<1> SUFFICES ASSUME IInv, NEW s \in Seats
             PROVE  /\ \A q \in LiveRows : seat[q] = s => HolderOf(s) = q
                    /\ (\A q \in LiveRows : seat[q] # s) => HolderOf(s) = Nobody
  BY DEF HoldersRight
<1>1. \A p, q \in LiveRows : seat[p] = seat[q] => p = q
  BY DEF IInv, OneBrideASeat, IndexedRows
<1>2. ASSUME NEW q \in LiveRows, seat[q] = s
      PROVE  HolderOf(s) = q
  BY <1>1, <1>2 DEF HolderOf
<1>3. ASSUME \A q \in LiveRows : seat[q] # s
      PROVE  HolderOf(s) = Nobody
  BY <1>3 DEF HolderOf
<1> QED
  BY <1>2, <1>3

\* A live row has a seat of the hour.
LEMMA LiveSeats ==
    ASSUME IInv, NEW q \in LiveRows
    PROVE  q \in Requests /\ seat[q] \in Seats
BY CapacityNat DEF IInv, TypeOK, SeatBelowCapacity, LiveRows, Seats

\* The same in the next state.
LEMMA HolderIsTheLiveRowNext == IInv' => HoldersRight'
BY HolderIsTheLiveRow, PTL

\* A step that leaves the live rows and their seats alone leaves the holders.
LEMMA SameHolders ==
    ASSUME IInv, IInv', LiveRows' = LiveRows, \A q \in LiveRows : seat'[q] = seat[q]
    PROVE  Held' = Held
<1>0. HoldersRight /\ HoldersRight'
  BY HolderIsTheLiveRow, HolderIsTheLiveRowNext
<1>1. ASSUME NEW s \in Seats
      PROVE  HolderOf(s)' = HolderOf(s)
  <2>1. CASE \E q \in LiveRows : seat[q] = s
    BY <1>0, <2>1 DEF HoldersRight
  <2>2. CASE \A q \in LiveRows : seat[q] # s
    BY <1>0, <2>2 DEF HoldersRight
  <2> QED
    BY <2>1, <2>2
<1> QED
  BY <1>1 DEF Held, Seats

\* The seats the ledger counts as taken are the live rows' seats.
LEMMA TakenSeats == IInv => Ledger!Taken = SeatsOf(LiveRows)
<1> SUFFICES ASSUME IInv PROVE Ledger!Taken = SeatsOf(LiveRows)
  OBVIOUS
<1>1. \A s \in Seats : HolderOf(s) # Nobody <=> \E q \in LiveRows : seat[q] = s
  BY HolderIsTheLiveRow, NobodyFresh DEF HoldersRight, LiveRows
<1>2. SeatsOf(LiveRows) \subseteq Seats
  BY LiveSeatsAreSeats DEF IInv
<1> QED
  BY <1>1, <1>2 DEF Ledger!Taken, SeatsOf

\* Before anybody asks, the ledger is empty.
LEMMA InitMaps == Init => Ledger!Init
<1> SUFFICES ASSUME Init PROVE Ledger!Init
  OBVIOUS
<1>1. LiveRows = {}
  BY DEF Init, LiveRows
<1>2. [s \in Seats |-> HolderOf(s)] = [s \in Seats |-> Nobody]
  BY <1>1 DEF HolderOf
<1>3. [r \in Requests |-> VerdictOf(r)] = [r \in Requests |-> "unasked"]
  BY DEF Init, VerdictOf, InFlight
<1>4. [r \in Requests |-> 0 .. sells[r] - 1] = [r \in Requests |-> {}]
  BY DEF Init
<1>5. occupied = [r \in Requests |-> {}]
  BY DEF Init
<1> QED
  BY <1>2, <1>3, <1>4, <1>5 DEF Ledger!Init

-----------------------------------------------------------------------------
(* Steps that change nothing a ledger shows.                               *)

\* The search for a seat, a cancellation not yet committed and the owner's edits
\* do not show in the ledger.
LEMMA Stutters ==
    ASSUME IInv, IInv',
           \/ \E r \in Requests :
                  \/ PickSeat(r) \/ FindOrCreateCard(r) \/ InsertBooking(r) \/ SeatRefused(r)
                  \/ StartCancel(r) \/ RollbackCancel(r)
           \/ \E c \in 0 .. MaxCapacity : SetCapacity(c)
           \/ UNCHANGED vars
    PROVE  UNCHANGED <<Held, Verdict, Wanted, occupied>>
<1> USE DEF PickSeat, FindOrCreateCard, InsertBooking, SeatRefused, StartCancel,
            RollbackCancel, SetCapacity, Move, vars
<1>0. TypeOK
  BY DEF IInv
<1>1. LiveRows' = LiveRows /\ \A q \in LiveRows : seat'[q] = seat[q]
  BY <1>0 DEF TypeOK, LiveRows
<1>2. \A q \in Requests : VerdictOf(q)' = VerdictOf(q)
  BY <1>0 DEF TypeOK, VerdictOf, InFlight
<1>3. sells' = sells /\ occupied' = occupied
  OBVIOUS
<1> QED
  BY <1>1, <1>2, <1>3, SameHolders DEF Verdict, Wanted

-----------------------------------------------------------------------------
(* Steps of the ledger.                                                    *)

\* The first query of a request is its question to the ledger, asked for the
\* seats the hour sells at that moment.
LEMMA BeginAsks ==
    ASSUME IInv, IInv', NEW r \in Requests, Begin(r)
    PROVE  Ledger!Ask(r, 0 .. capacity - 1)
<1> USE DEF Begin, Move
<1>0. TypeOK
  BY DEF IInv
<1>1. Held' = Held
  <2>1. LiveRows' = LiveRows /\ seat' = seat
    BY <1>0 DEF TypeOK, LiveRows
  <2> QED
    BY <2>1, SameHolders
<1>2. VerdictOf(r) = "unasked"
  BY DEF VerdictOf, InFlight
<1>3. Verdict' = [Verdict EXCEPT ![r] = "asking"]
  BY <1>0 DEF TypeOK, Verdict, VerdictOf, InFlight
<1>4. Wanted' = [Wanted EXCEPT ![r] = 0 .. capacity - 1]
  BY <1>0 DEF TypeOK, Wanted
<1>5. occupied' = [occupied EXCEPT ![r] = Ledger!Taken]
  BY TakenSeats
<1> QED
  BY <1>1, <1>2, <1>3, <1>4, <1>5 DEF Ledger!Ask, Held, Verdict, Wanted

\* An hour that is not on offer turns the request away.
LEMMA TurnAwayMaps ==
    ASSUME IInv, IInv', NEW r \in Requests, TurnAway(r)
    PROVE  Ledger!TurnAway(r)
<1> USE DEF TurnAway, Move
<1>0. TypeOK
  BY DEF IInv
<1>1. LiveRows' = LiveRows /\ seat' = seat
  BY <1>0 DEF TypeOK, LiveRows
<1>2. Held' = Held
  BY <1>1, SameHolders
<1>3. VerdictOf(r) = "unasked"
  BY DEF VerdictOf, InFlight
<1>4. Verdict' = [Verdict EXCEPT ![r] = "turned_away"]
  BY <1>0 DEF TypeOK, Verdict, VerdictOf, InFlight
<1> QED
  BY <1>2, <1>3, <1>4 DEF Ledger!TurnAway, Held, Verdict

\* A request refused has seen every seat it wanted taken.
LEMMA RefuseMaps ==
    ASSUME IInv, IInv', NEW r \in Requests, Refuse(r)
    PROVE  Ledger!Refuse(r)
<1> USE DEF Refuse, Move
<1>0. TypeOK
  BY DEF IInv
<1>1. LiveRows' = LiveRows /\ seat' = seat
  BY <1>0 DEF TypeOK, LiveRows
<1>2. Held' = Held
  BY <1>1, SameHolders
<1>3. VerdictOf(r) = "asking"
  BY DEF VerdictOf, InFlight
<1>4. Verdict' = [Verdict EXCEPT ![r] = "refused"]
  BY <1>0 DEF TypeOK, Verdict, VerdictOf, InFlight
<1>5. 0 .. sells[r] - 1 \subseteq occupied[r]
  BY <1>0 DEF IInv, TypeOK, HonestRefusal
<1> QED
  BY <1>2, <1>3, <1>4, <1>5 DEF Ledger!Refuse, Held, Verdict, Wanted

\* An undone transaction leaves nothing in the ledger.
LEMMA AbortFails ==
    ASSUME IInv, IInv', NEW r \in Requests, Abort(r)
    PROVE  Ledger!Fail(r)
<1> USE DEF Abort
<1>0. TypeOK
  BY DEF IInv
<1>1. LiveRows' = LiveRows /\ seat' = seat
  BY <1>0 DEF TypeOK, LiveRows, InFlight
<1>2. Held' = Held
  BY <1>1, SameHolders
<1>3. VerdictOf(r) = "asking"
  BY DEF VerdictOf, InFlight
<1>4. Verdict' = [Verdict EXCEPT ![r] = "failed"]
  BY <1>0 DEF TypeOK, Verdict, VerdictOf, InFlight
<1> QED
  BY <1>2, <1>3, <1>4 DEF Ledger!Fail, Held, Verdict

\* The booking takes its seat when its transaction commits, and the index has
\* kept the seat free of other live rows since the insert.
LEMMA CommitBooks ==
    ASSUME IInv, IInv', NEW r \in Requests, Commit(r)
    PROVE  Ledger!Book(r, seat[r])
<1> USE DEF Commit, Move
<1>0. TypeOK
  BY DEF IInv
<1>1. stage[r] = "inserted" /\ seat[r] \in 0 .. sells[r] - 1 /\ seat[r] \in Seats
  BY <1>0, CapacityNat DEF IInv, SeatBelowCapacity, TypeOK, Seats
<1>2. LiveRows' = LiveRows \cup {r} /\ seat' = seat
  BY <1>0 DEF TypeOK, LiveRows
<1>3. \A q \in LiveRows : seat[q] # seat[r]
  BY <1>1 DEF IInv, OneBrideASeat, IndexedRows, LiveRows
<1>4. HolderOf(seat[r]) = Nobody
  BY <1>1, <1>3, HolderIsTheLiveRow DEF HoldersRight
<1>5. Held' = [Held EXCEPT ![seat[r]] = r]
  <2>0. HoldersRight /\ HoldersRight'
    BY HolderIsTheLiveRow, HolderIsTheLiveRowNext
  <2>1. HolderOf(seat[r])' = r
    BY <1>1, <1>2, <2>0 DEF HoldersRight
  <2>2. ASSUME NEW s \in Seats, s # seat[r]
        PROVE  HolderOf(s)' = HolderOf(s)
    <3>1. CASE \E q \in LiveRows : seat[q] = s
      BY <1>2, <2>0, <3>1 DEF HoldersRight
    <3>2. CASE \A q \in LiveRows : seat[q] # s
      BY <1>2, <2>0, <2>2, <3>2 DEF HoldersRight
    <3> QED
      BY <3>1, <3>2
  <2>3. ASSUME NEW s \in Seats
        PROVE  HolderOf(s)' = IF s = seat[r] THEN r ELSE HolderOf(s)
    BY <2>1, <2>2
  <2> QED
    BY <2>3 DEF Held, Seats
<1>6. VerdictOf(r) = "asking"
  BY DEF VerdictOf, InFlight
<1>7. Verdict' = [Verdict EXCEPT ![r] = "booked"]
  BY <1>0 DEF TypeOK, Verdict, VerdictOf, InFlight
<1>8. \A q \in Requests : stage[q] \in InFlight <=> VerdictOf(q) = "asking"
  BY <1>0 DEF TypeOK, Stages, VerdictOf, InFlight
<1>9. occupied' = [q \in Requests |-> IF q # r /\ Verdict[q] = "asking"
                                          THEN occupied[q] \cup {seat[r]}
                                          ELSE occupied[q]]
  BY <1>8 DEF Verdict
<1> QED
  BY <1>1, <1>4, <1>5, <1>6, <1>7, <1>9 DEF Ledger!Book, Held, Verdict, Wanted

\* The seat of a cancelled booking is free once the cancellation commits.
LEMMA CommitCancelReleases ==
    ASSUME IInv, IInv', NEW r \in Requests, CommitCancel(r)
    PROVE  Ledger!Release(r)
<1> USE DEF CommitCancel, Move
<1>0. TypeOK
  BY DEF IInv
<1>1. r \in LiveRows /\ LiveRows' = LiveRows \ {r} /\ seat' = seat
  BY <1>0 DEF TypeOK, LiveRows
<1>2. ASSUME NEW s \in Seats
      PROVE  HolderOf(s)' = IF HolderOf(s) = r THEN Nobody ELSE HolderOf(s)
  <2>0. HoldersRight /\ HoldersRight'
    BY HolderIsTheLiveRow, HolderIsTheLiveRowNext
  <2>1. CASE \E q \in LiveRows : seat[q] = s
    <3>1. PICK q \in LiveRows : seat[q] = s
      BY <2>1
    <3>2. HolderOf(s) = q
      BY <2>0, <3>1 DEF HoldersRight
    <3>3. \A p \in LiveRows : seat[p] = s => p = q
      BY <3>1 DEF IInv, OneBrideASeat, IndexedRows
    <3>4. CASE q = r
      BY <1>1, <2>0, <3>2, <3>3, <3>4 DEF HoldersRight
    <3>5. CASE q # r
      BY <1>1, <2>0, <3>1, <3>2, <3>5 DEF HoldersRight
    <3> QED
      BY <3>4, <3>5
  <2>2. CASE \A q \in LiveRows : seat[q] # s
    BY <1>1, <2>0, <2>2 DEF HoldersRight
  <2> QED
    BY <2>1, <2>2
<1>3. Held' = [s \in Seats |-> IF Held[s] = r THEN Nobody ELSE Held[s]]
  BY <1>2 DEF Held, Seats
<1>4. VerdictOf(r) = "booked"
  BY DEF VerdictOf, InFlight
<1>5. Verdict' = [Verdict EXCEPT ![r] = "released"]
  BY <1>0 DEF TypeOK, Verdict, VerdictOf, InFlight
<1> QED
  BY <1>3, <1>4, <1>5 DEF Ledger!Release, Held, Verdict

-----------------------------------------------------------------------------
\* Every step maps to a step of the ledger or to none.
LEMMA StepMaps ==
    ASSUME IInv, IInv', [Next]_vars
    PROVE  [Ledger!Next]_(Ledger!ledger)
<1>1. ASSUME NEW r \in Requests, Begin(r) PROVE Ledger!Next
  <2>1. 0 .. capacity - 1 \in SUBSET Seats
    BY CapacityNat DEF IInv, TypeOK, Seats
  <2>2. Ledger!Ask(r, 0 .. capacity - 1)
    BY <1>1, BeginAsks
  <2>3. \E S \in SUBSET Seats : Ledger!Ask(r, S)
    BY <2>1, <2>2 DEF Ledger!Ask
  <2> QED
    BY <2>3 DEF Ledger!Next
<1>2. ASSUME NEW r \in Requests, Commit(r) PROVE Ledger!Next
  <2>1. seat[r] \in Seats
    BY <1>2, CapacityNat DEF IInv, SeatBelowCapacity, TypeOK, Commit, Move, Seats
  <2>2. Ledger!Book(r, seat[r])
    BY <1>2, CommitBooks
  <2> QED
    BY <2>1, <2>2 DEF Ledger!Next
<1>3. ASSUME NEW r \in Requests, TurnAway(r) PROVE Ledger!Next
  BY <1>3, TurnAwayMaps DEF Ledger!Next
<1>4. ASSUME NEW r \in Requests, Refuse(r) PROVE Ledger!Next
  BY <1>4, RefuseMaps DEF Ledger!Next
<1>5. ASSUME NEW r \in Requests, Abort(r) PROVE Ledger!Next
  BY <1>5, AbortFails DEF Ledger!Next
<1>6. ASSUME NEW r \in Requests, CommitCancel(r) PROVE Ledger!Next
  BY <1>6, CommitCancelReleases DEF Ledger!Next
<1>7. ASSUME \/ \E r \in Requests :
                    \/ PickSeat(r) \/ FindOrCreateCard(r) \/ InsertBooking(r) \/ SeatRefused(r)
                    \/ StartCancel(r) \/ RollbackCancel(r)
             \/ \E c \in 0 .. MaxCapacity : SetCapacity(c)
             \/ UNCHANGED vars
      PROVE  UNCHANGED Ledger!ledger
  <2>1. UNCHANGED <<Held, Verdict, Wanted, occupied>>
    BY <1>7, Stutters
  <2> QED
    BY <2>1 DEF Ledger!ledger, Held, Verdict, Wanted
<1> QED
  BY <1>1, <1>2, <1>3, <1>4, <1>5, <1>6, <1>7 DEF Next, Serve, Cancel

\* The request loop, the snapshots and the index implement the ledger of seats.
THEOREM BookingImplementsLedger == Spec => ImplementsLedger
BY InitMaps, StepMaps, InductiveInvariant, PTL DEF Spec, ImplementsLedger, Ledger!Spec

=============================================================================
