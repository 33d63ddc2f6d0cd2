---------------------------- MODULE MCDayWaitlist ----------------------------
(* Small instances of DayWaitlist for TLC, on which its liveness is asked:  *)
(* two customers of a day whose line has no legacy rows.                    *)
EXTENDS DayWaitlist

NoneOld == {}

=============================================================================
