------------------------------ MODULE Closing ------------------------------
(***************************************************************************)
(* Closing a booking (modryn_ops): its outcome, the audit row of a change, *)
(* the follow-up tasks the outcome mints, their ticks and reopenings, and  *)
(* the cron that pokes the managers about the overdue ones. Bookings share *)
(* only the customer's card (module CustomerCategory), so it is about one. *)
(*                                                                         *)
(* A close is one REPEATABLE READ transaction over the booking and its     *)
(* tasks: it decides on the snapshot taken when it began and fails if a    *)
(* row it writes was written since, to be run again. A transaction that    *)
(* reads and writes one row, such as a tick, is one step.                  *)
(***************************************************************************)
EXTENDS Integers, FiniteSets

CONSTANTS
    Closers,           \* staff at the board who may close the booking
    MayForce,          \* those of them who are managers
    CallBacks,         \* the outcomes with a follow-up: 'not_sold', 'no_show'
    NoOutcome, NoTask, NoClose,
    MaxTasks           \* bound on the follow-up tasks minted

ASSUME MayForceInClosers == MayForce \subseteq Closers
ASSUME MaxTasksBound     == MaxTasks \in Nat
ASSUME SoldNeedsNoCall   == "sold" \notin CallBacks

VARIABLES
    outcome, cancelled,
    task,              \* the follow-up tasks of the booking
    minted,            \* how many there have been
    close,             \* the request of each closer
    eye,               \* what its transaction sees
    clash,             \* a row it writes was written since
    batch,             \* the tasks the escalation cron picked
    batchClash         \* one of them was written since

closeVars == <<outcome, cancelled, task, minted, close, eye, clash, batch, batchClash>>

TaskIds  == 1..MaxTasks
Outcomes == {"sold"} \cup CallBacks
Task     == [type : CallBacks, state : {"open", "done"},
             overdue : BOOLEAN, pokes : 0..1, reopened : BOOLEAN]
Closes   == [as : Outcomes, force : BOOLEAN]
Eye      == [out : Outcomes \cup {NoOutcome}, over : BOOLEAN, doomed : SUBSET TaskIds]
Blank    == [out |-> NoOutcome, over |-> FALSE, doomed |-> {}]

ASSUME NoOutcomeApart == NoOutcome \notin Outcomes
ASSUME NoTaskApart    == NoTask \notin Task
ASSUME NoCloseApart   == NoClose \notin Closes

CloseTypeOK ==
    /\ outcome    \in Outcomes \cup {NoOutcome}
    /\ cancelled  \in BOOLEAN
    /\ task       \in [TaskIds -> Task \cup {NoTask}]
    /\ minted     \in 0..MaxTasks
    /\ close      \in [Closers -> Closes \cup {NoClose}]
    /\ eye        \in [Closers -> Eye]
    /\ clash      \in [Closers -> BOOLEAN]
    /\ batch      \subseteq TaskIds
    /\ batchClash \in BOOLEAN

CloseInit ==
    /\ outcome    = NoOutcome
    /\ cancelled  = FALSE
    /\ task       = [t \in TaskIds |-> NoTask]
    /\ minted     = 0
    /\ close      = [c \in Closers |-> NoClose]
    /\ eye        = [c \in Closers |-> Blank]
    /\ clash      = [c \in Closers |-> FALSE]
    /\ batch      = {}
    /\ batchClash = FALSE

-----------------------------------------------------------------------------
(* What a close decides.                                                   *)

OpenTasks == {t \in TaskIds : task[t] # NoTask /\ task[t].state = "open"}

\* modryn_set_outcome: 'cancelled', 'already_set'
Refused(c) == eye[c].over \/ (eye[c].out # NoOutcome /\ ~close[c].force)

\* What the transaction of request q sees: the booking, and the tasks which the
\* overwrite of a different outcome deletes, generated and not done.
Look(q) ==
    [out    |-> outcome,
     over   |-> cancelled,
     doomed |-> IF cancelled \/ ~q.force \/ outcome = q.as THEN {} ELSE OpenTasks]

Doomed(c) == eye[c].doomed

\* Side effects belong to a changed outcome.
Mints(c) == eye[c].out # close[c].as /\ close[c].as # "sold"

NewTask(type) == [type |-> type, state |-> "open", overdue |-> FALSE, pokes |-> 0,
                  reopened |-> FALSE]

\* Variant: the new follow-up is minted first, and swept away with the old ones.
TasksSwapped(c) ==
    [t \in TaskIds |->
        IF t \in Doomed(c) THEN NoTask
        ELSE IF t = minted + 1 /\ Mints(c) /\ eye[c].out = NoOutcome
             THEN NewTask(close[c].as) ELSE task[t]]

TasksAfter(c) ==
    [t \in TaskIds |->
        IF t \in Doomed(c) THEN NoTask
        ELSE IF t = minted + 1 /\ Mints(c) THEN NewTask(close[c].as) ELSE task[t]]

-----------------------------------------------------------------------------
(* The close: finish_booking and modryn_set_outcome.                       *)

\* A force from anybody but a manager is refused before anything is read.
AskClose(c) ==
    /\ close[c] = NoClose
    /\ \E q \in Closes : /\ q.force => c \in MayForce
                         /\ close' = [close EXCEPT ![c] = q]
                         /\ eye'   = [eye EXCEPT ![c] = Look(q)]
    /\ UNCHANGED <<outcome, cancelled, task, minted, clash, batch, batchClash>>

EndClose(c) ==
    /\ close' = [close EXCEPT ![c] = NoClose]
    /\ eye'   = [eye EXCEPT ![c] = Blank]

RefuseClose(c) ==
    /\ close[c] # NoClose /\ Refused(c)
    /\ EndClose(c)
    /\ clash' = [clash EXCEPT ![c] = FALSE]
    /\ UNCHANGED <<outcome, cancelled, task, minted, batch, batchClash>>

\* Variant: a row written meanwhile is written over.
SaveCloseBlind(c) ==
    /\ close[c] # NoClose /\ ~Refused(c)
    /\ Mints(c) => minted < MaxTasks
    /\ outcome' = close[c].as
    /\ task'    = TasksAfter(c)
    /\ minted'  = IF Mints(c) THEN minted + 1 ELSE minted
    /\ clash'   = [d \in Closers |-> d # c /\ close[d] # NoClose]
    /\ batchClash' = (batchClash \/ Doomed(c) \cap batch # {})
    /\ EndClose(c)
    /\ UNCHANGED <<cancelled, batch>>

SaveClose(c) ==
    /\ close[c] # NoClose /\ ~Refused(c) /\ ~clash[c]
    /\ Mints(c) => minted < MaxTasks
    /\ outcome' = close[c].as
    /\ task'    = TasksAfter(c)
    /\ minted'  = IF Mints(c) THEN minted + 1 ELSE minted
    /\ clash'   = [d \in Closers |-> d # c /\ close[d] # NoClose]
    /\ batchClash' = (batchClash \/ Doomed(c) \cap batch # {})
    /\ EndClose(c)
    /\ UNCHANGED <<cancelled, batch>>

CloseAgain(c) ==
    /\ close[c] # NoClose /\ ~Refused(c) /\ clash[c]
    /\ eye'   = [eye EXCEPT ![c] = Look(close[c])]
    /\ clash' = [clash EXCEPT ![c] = FALSE]
    /\ UNCHANGED <<outcome, cancelled, task, minted, close, batch, batchClash>>

\* The customer cancels on the portal, or the boutique archives the booking.
CancelVisit ==
    /\ ~cancelled
    /\ cancelled' = TRUE
    /\ clash' = [d \in Closers |-> close[d] # NoClose]
    /\ UNCHANGED <<outcome, task, minted, close, eye, batch, batchClash>>

-----------------------------------------------------------------------------
(* The tasks.                                                              *)

\* Somebody writes task t, and nothing else.
WriteTask(t, r) ==
    /\ task' = [task EXCEPT ![t] = r]
    /\ clash' = [d \in Closers |-> close[d] # NoClose /\ (clash[d] \/ t \in Doomed(d))]
    /\ batchClash' = (batchClash \/ t \in batch)
    /\ UNCHANGED <<outcome, cancelled, minted, close, eye, batch>>

\* action_done
TickTask(t) ==
    /\ task[t] # NoTask /\ task[t].state = "open"
    /\ WriteTask(t, [task[t] EXCEPT !.state = "done"])

\* action_reopen: the completion is forgotten, the escalation stamp stays.
ReopenTask(t) ==
    /\ task[t] # NoTask /\ task[t].state = "done"
    /\ WriteTask(t, [task[t] EXCEPT !.state = "open", !.reopened = TRUE])

TaskFallsDue(t) ==
    /\ task[t] # NoTask /\ task[t].state = "open" /\ ~task[t].overdue
    /\ task' = [task EXCEPT ![t].overdue = TRUE]
    /\ UNCHANGED <<outcome, cancelled, minted, close, eye, clash, batch, batchClash>>

\* Variant: every pass pokes about a task that is still open.
OverdueStill(t) == task[t] # NoTask /\ task[t].state = "open" /\ task[t].overdue
                      /\ task[t].pokes < 2

\* Variant: the pass does not ask whether the task is done.
OverdueDone(t) == task[t] # NoTask /\ task[t].overdue /\ task[t].pokes = 0

\* _modryn_escalate_overdue, the tasks it picks
Overdue(t) == task[t] # NoTask /\ task[t].state = "open" /\ task[t].overdue
                 /\ task[t].pokes = 0

PickOverdue ==
    /\ batch = {} /\ \E t \in TaskIds : Overdue(t)
    /\ batch' = {t \in TaskIds : Overdue(t)}
    /\ UNCHANGED <<outcome, cancelled, task, minted, close, eye, clash, batchClash>>

\* Stamps the tasks and texts every manager, in one transaction.
PokeRoom ==
    /\ batch # {} /\ ~batchClash
    /\ task'  = [t \in TaskIds |-> IF t \in batch THEN [task[t] EXCEPT !.pokes = @ + 1]
                                                  ELSE task[t]]
    /\ clash' = [d \in Closers |-> close[d] # NoClose
                                      /\ (clash[d] \/ batch \cap Doomed(d) # {})]
    /\ batch' = {}
    /\ UNCHANGED <<outcome, cancelled, minted, close, eye, batchClash>>

\* A task was written or deleted meanwhile: stamps and texts are rolled back.
PokeFails ==
    /\ batchClash
    /\ batch' = {} /\ batchClash' = FALSE
    /\ UNCHANGED <<outcome, cancelled, task, minted, close, eye, clash>>

CloseNext ==
    \/ \E c \in Closers : AskClose(c) \/ RefuseClose(c) \/ SaveClose(c) \/ CloseAgain(c)
    \/ CancelVisit
    \/ \E t \in TaskIds : TickTask(t) \/ ReopenTask(t) \/ TaskFallsDue(t)
    \/ PickOverdue \/ PokeRoom \/ PokeFails

CloseSpec == CloseInit /\ [][CloseNext]_closeVars

-----------------------------------------------------------------------------
(* Properties.                                                             *)

\* A booking whose outcome asks for a call has its task, still to do or done,
\* however often the outcome was overwritten and whoever ticked meanwhile.
FollowUpExists ==
    outcome \in CallBacks =>
        \E t \in TaskIds : task[t] # NoTask /\ task[t].type = outcome

\* An open follow-up belongs to the outcome the booking has now, and there is
\* one of them, except for a done one that somebody reopened.
FollowUpMatchesOutcome ==
    LET first == {t \in OpenTasks : ~task[t].reopened} IN
    Cardinality(first) <= 1 /\ \A t \in first : task[t].type = outcome

\* A recorded outcome changes only by a manager's force, although the request
\* may have read it before it was recorded; and the old value in the audit row,
\* which is the one the transaction read, is the value that is overwritten.
OverwritesAreForcedAndAudited ==
    [][outcome' # outcome =>
          \E c \in Closers : /\ close[c] # NoClose /\ close'[c] = NoClose
                             /\ eye[c].out = outcome
                             /\ outcome # NoOutcome => c \in MayForce /\ close[c].force
      ]_closeVars

\* A cancelled booking never gets an outcome, not from a request that began
\* before the cancellation either.
CancelledStaysUnclosed == [][cancelled => outcome' = outcome]_closeVars

\* The room is poked about a task once, whether it is ticked, reopened, or the
\* cron run was rolled back and repeated; and never about a task that is done.
PokedOnceWhileOpen ==
    [][\A t \in TaskIds :
          task[t] # NoTask /\ task'[t] # NoTask /\ task'[t].pokes # task[t].pokes
             => task[t].state = "open" /\ task'[t].pokes = 1]_closeVars

\* The follow-up tasks of a booking are those of its outcome, after any
\* corrections and whatever was done to the tasks meanwhile.
FollowUpsFit == FollowUpExists /\ FollowUpMatchesOutcome

\* An outcome is replaced only on purpose, with the replaced value on record,
\* and a cancelled booking keeps what it had.
OutcomesStand == OverwritesAreForcedAndAudited /\ CancelledStaysUnclosed

=============================================================================
