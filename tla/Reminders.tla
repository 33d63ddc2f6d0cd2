----------------------------- MODULE Reminders -----------------------------
(***************************************************************************)
(* The text a day ahead of a fitting (modryn_portal). A cron runs every    *)
(* quarter of an hour and takes the fittings that are a day to a day and a *)
(* half hour away, so that each one is taken by two runs; the stamp on the *)
(* booking is what keeps the second run from texting again.                *)
(*                                                                         *)
(* A run is one REPEATABLE READ transaction: it texts as it goes and       *)
(* stamps what it texted, and a booking written since it began takes all   *)
(* of its stamps back, but not the texts.                                  *)
(***************************************************************************)
EXTENDS Integers, FiniteSets

CONSTANTS
    Fittings,
    LastQuarter,       \* bound on the clock, in quarters of an hour
    MaxRollbacks       \* bound on the runs that a dying worker takes back

ASSUME QuartersBound  == LastQuarter \in Nat
ASSUME RollbacksBound == MaxRollbacks \in Nat

VARIABLES
    quarter,           \* the clock
    dayAhead,          \* when each fitting is exactly a day away
    fitting,           \* "none", "live" or "cancelled"
    early,             \* it was booked before the first run that may take it
    stamped,           \* modryn_reminder_sent_at
    ran,               \* the cron has started in this quarter
    taken,             \* the fittings of the run under way, {} between runs
    unsent,            \* those it has not come to
    reached,           \* those it has texted
    written,           \* those written by somebody else since it began
    texts,             \* history: how often each was texted
    spoilt,            \* history: how often a text's stamp was taken back
    mishaps,           \* history: chances of each that were lost
    deaths             \* history: workers that died in a run

reminderVars == <<quarter, dayAhead, fitting, early, stamped, ran, taken, unsent, reached,
                  written, texts, spoilt, mishaps, deaths>>

ReminderTypeOK ==
    /\ quarter \in 0..LastQuarter
    /\ dayAhead \in [Fittings -> 1..LastQuarter]
    /\ fitting \in [Fittings -> {"none", "live", "cancelled"}]
    /\ early   \in [Fittings -> BOOLEAN]
    /\ stamped \subseteq Fittings
    /\ ran     \in BOOLEAN
    /\ reached \subseteq taken /\ unsent \subseteq taken \ reached
    /\ taken   \subseteq Fittings /\ written \subseteq taken
    /\ \A f \in Fittings : texts[f] \in Nat /\ spoilt[f] \in Nat /\ mishaps[f] \in 0..2
    /\ deaths  \in 0..MaxRollbacks

ReminderInit ==
    /\ quarter = 0
    /\ dayAhead \in [Fittings -> 1..(LastQuarter - 1)]
    /\ fitting = [f \in Fittings |-> "none"]
    /\ early   = [f \in Fittings |-> FALSE]
    /\ stamped = {} /\ taken = {} /\ unsent = {} /\ reached = {} /\ written = {}
    /\ ran     = FALSE
    /\ texts   = [f \in Fittings |-> 0]
    /\ spoilt  = [f \in Fittings |-> 0]
    /\ mishaps = [f \in Fittings |-> 0]
    /\ deaths  = 0

-----------------------------------------------------------------------------
(* The runs.                                                               *)

\* The two quarters in which a run may take f.
Chance(f) == quarter \in {dayAhead[f] - 1, dayAhead[f]} /\ fitting[f] = "live"

\* Variant: cancelled fittings are not left out.
PicksCancelled == {f \in Fittings : /\ fitting[f] # "none" /\ f \notin stamped
                                    /\ dayAhead[f] \in {quarter, quarter + 1}}

\* The search of _modryn_send_reminders.
Picks == {f \in Fittings : /\ fitting[f] = "live" /\ f \notin stamped
                           /\ dayAhead[f] \in {quarter, quarter + 1}}

Lose(fs) == mishaps' = [f \in Fittings |-> IF f \in fs /\ mishaps[f] < 2 THEN mishaps[f] + 1
                                                                         ELSE mishaps[f]]

RunStarts ==
    /\ ~ran /\ taken = {}
    /\ ran' = TRUE
    /\ taken' = Picks /\ unsent' = Picks
    /\ UNCHANGED <<quarter, dayAhead, fitting, early, stamped, reached, written, texts, spoilt,
                   mishaps, deaths>>

\* The text leaves; or it does not, and the next run is the one to try again.
TextOne(f) ==
    /\ f \in unsent
    /\ unsent' = unsent \ {f}
    /\ \/ texts' = [texts EXCEPT ![f] = @ + 1] /\ reached' = reached \cup {f}
          /\ UNCHANGED mishaps
       \/ Lose({f}) /\ UNCHANGED <<texts, reached>>
    /\ UNCHANGED <<quarter, dayAhead, fitting, early, stamped, ran, taken, written, spoilt, deaths>>

RunOver == taken' = {} /\ unsent' = {} /\ reached' = {} /\ written' = {}

RunCommits ==
    /\ taken # {} /\ unsent = {} /\ reached \cap written = {}
    /\ stamped' = stamped \cup reached
    /\ RunOver
    /\ UNCHANGED <<quarter, dayAhead, fitting, early, ran, texts, spoilt, mishaps, deaths>>

TakenBack ==
    /\ spoilt' = [f \in Fittings |-> IF f \in reached THEN spoilt[f] + 1 ELSE spoilt[f]]
    /\ Lose(taken)
    /\ RunOver
    /\ UNCHANGED <<quarter, dayAhead, fitting, early, stamped, ran, texts>>

\* A stamp meets a row written since: the whole run is rolled back.
RunConflicts ==
    /\ taken # {} /\ unsent = {} /\ reached \cap written # {}
    /\ TakenBack /\ UNCHANGED deaths

\* The worker is recycled or dies.
RunDies ==
    /\ taken # {} /\ deaths < MaxRollbacks
    /\ deaths' = deaths + 1
    /\ TakenBack

-----------------------------------------------------------------------------
(* Everybody else.                                                         *)

BookFitting(f) ==
    /\ fitting[f] = "none"
    /\ fitting' = [fitting EXCEPT ![f] = "live"]
    /\ early'   = [early   EXCEPT ![f] = quarter < dayAhead[f] - 1]
    /\ UNCHANGED <<quarter, dayAhead, stamped, ran, taken, unsent, reached, written, texts, spoilt,
                   mishaps, deaths>>

\* She confirms or cancels by the link in the text, or cancels on the portal.
AnswerLink(f) ==
    /\ fitting[f] = "live"
    /\ \E s \in {"live", "cancelled"} : fitting' = [fitting EXCEPT ![f] = s]
    /\ written' = written \cup ({f} \cap taken)
    /\ UNCHANGED <<quarter, dayAhead, early, stamped, ran, taken, unsent, reached, texts, spoilt,
                   mishaps, deaths>>

\* Time passes; a server that is down, or a run that takes long, skips a run.
NextQuarter ==
    /\ quarter < LastQuarter
    /\ quarter' = quarter + 1
    /\ ran' = FALSE
    /\ IF ran THEN UNCHANGED mishaps ELSE Lose({f \in Fittings : Chance(f)})
    /\ UNCHANGED <<dayAhead, fitting, early, stamped, taken, unsent, reached, written, texts,
                   spoilt, deaths>>

ReminderNext ==
    \/ RunStarts \/ RunCommits \/ RunConflicts \/ RunDies \/ NextQuarter
    \/ \E f \in Fittings : TextOne(f) \/ BookFitting(f) \/ AnswerLink(f)

ReminderSpec == ReminderInit /\ [][ReminderNext]_reminderVars

-----------------------------------------------------------------------------
(* Properties.                                                             *)

\* She is texted again only for a text whose stamp was taken back with its run:
\* the overlap of the two windows alone never texts twice.
TextedAgainOnlyAfterRollback == \A f \in Fittings : texts[f] <= 1 + spoilt[f]

\* Why the windows overlap: one skipped run, one failed text or one run taken
\* back does not cost a customer who booked in time her reminder.
OneMishapIsSurvived ==
    \A f \in Fittings :
        /\ fitting[f] = "live" /\ early[f] /\ quarter > dayAhead[f] /\ f \notin taken
        => texts[f] > 0 \/ mishaps[f] = 2

\* A fitting that has been cancelled is texted about only by a run that was
\* already under way.
CancelledNotReminded ==
    [][\A f \in Fittings : texts'[f] # texts[f] /\ fitting[f] = "cancelled"
                              => f \in written]_reminderVars

\* The promise of the reminder: once per fitting unless a rollback forgot it,
\* not lost to one mishap of the cron, and never for a fitting that a run can
\* see is cancelled.
ReminderKept ==
    /\ CancelledNotReminded
    /\ []TextedAgainOnlyAfterRollback
    /\ []OneMishapIsSurvived

=============================================================================
