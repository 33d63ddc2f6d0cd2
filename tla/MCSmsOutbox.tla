---------------------------- MODULE MCSmsOutbox -----------------------------
(* Small instances of SmsOutbox for TLC.                                    *)
EXTENDS SmsOutbox

CONSTANTS t1, t2

Two == {t1, t2}

=============================================================================
