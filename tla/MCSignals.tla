------------------------------ MODULE MCSignals -------------------------------
(***************************************************************************)
(* What must reach somebody, for TLC: the texts of the outbox, the calls   *)
(* for help and the reminders side by side. They share no state, so each   *)
(* behaviour is of one of them, and the others stand still.                *)
(***************************************************************************)
EXTENDS SmsOutbox, SosCalls, Reminders

VARIABLE corner    \* the component whose behaviour this is

signalsVars == <<corner, vars, sosVars, reminderVars>>

SignalsInit ==
    /\ corner \in {"outbox", "bell", "reminders"}
    /\ Init
    /\ SosInit
    /\ ReminderInit
    /\ corner # "reminders" => dayAhead = [f \in Fittings |-> 1]

\* Nothing but one component moves.
Only(name) ==
    /\ UNCHANGED corner
    /\ IF name = "outbox"    THEN TRUE ELSE UNCHANGED vars
    /\ IF name = "bell"      THEN TRUE ELSE UNCHANGED sosVars
    /\ IF name = "reminders" THEN TRUE ELSE UNCHANGED reminderVars

SignalsNext ==
    \/ corner = "outbox"    /\ Next         /\ Only("outbox")
    \/ corner = "bell"      /\ SosNext      /\ Only("bell")
    \/ corner = "reminders" /\ ReminderNext /\ Only("reminders")

\* The fairness of SmsOutbox and SosCalls, of the steps as they are here.
SignalsFairness ==
    /\ WF_signalsVars(corner = "outbox" /\ Drain /\ Only("outbox"))
    /\ \A t \in Texts : WF_signalsVars(corner = "outbox" /\ BackoffEnds(t) /\ Only("outbox"))
    /\ \A i \in CallIds :
          WF_signalsVars(corner = "bell" /\ i \in DOMAIN alarms /\ HalfAMinute(i) /\ Only("bell"))
    /\ WF_signalsVars(corner = "bell" /\ CronReads /\ Only("bell"))
    /\ WF_signalsVars(corner = "bell" /\ CronWrites /\ Only("bell"))
    /\ WF_signalsVars(corner = "bell" /\ CronFails /\ Only("bell"))

SignalsSpec == SignalsInit /\ [][SignalsNext]_signalsVars /\ SignalsFairness

\* The types of all of them.
SignalsTypeOK ==
    /\ TypeOK
    /\ SosTypeOK
    /\ ReminderTypeOK

===============================================================================
