--------------------------- MODULE MCSlotBooking ----------------------------
(***************************************************************************)
(* Instances of SlotBooking for TLC: the same customer submits twice and   *)
(* the rest are strangers.                                                 *)
(***************************************************************************)
EXTENDS SlotBooking, TLC

CONSTANTS r1, r2, r3, p1, p2

Trio      == {r1, r2, r3}
TwoPhones == {p1, p2}
TrioPhone == r1 :> p1 @@ r2 :> p1 @@ r3 :> p2

=============================================================================
