-------------------------- MODULE Backroom_proofs ---------------------------
(*****************************************************************************)
(* What holds after the fitting: the close of a booking and its follow-      *)
(* ups, the category of a customer and the daily checklist. For each         *)
(* component an inductive invariant, the lemmas that every step keeps it,    *)
(* and the theorems that follow; at the end, that they keep their types      *)
(* beside the waitlist of a day, which is DayWaitlist_proofs' own.           *)
(*****************************************************************************)
EXTENDS MCBackroom, DayWaitlist_proofs, FiniteSetTheorems, TLAPS

-----------------------------------------------------------------------------
(*****************************************************************************)
(* Closing.                                                                  *)
(*                                                                           *)
(* Closing a booking, for any staff, outcomes and number of tasks. The       *)
(* invariant says that a request which is not to run again sees the          *)
(* booking as it is and deletes every task that was made and not reopened,   *)
(* of which there is one at most and for the outcome that stands, and that   *)
(* the tasks the cron has picked are open still.                             *)
(*****************************************************************************)

\* The tasks that are open and never were reopened.
First == {t \in OpenTasks : ~task[t].reopened}

\* A request that is not to run again sees the booking as it is, and, if it deletes the
\* tasks of the old outcome, all that were made and not reopened.
EyesOpen ==
    \A c \in Closers : close[c] # NoClose /\ ~clash[c] =>
        /\ eye[c].out = outcome
        /\ eye[c].over = cancelled
        /\ close[c].force /\ outcome # close[c].as /\ ~cancelled => First \subseteq eye[c].doomed

\* What a request deletes was made before, and for another outcome.
DoomedFits ==
    \A c \in Closers : close[c] # NoClose =>
        /\ eye[c].doomed \subseteq 1..minted
        /\ eye[c].doomed # {} => eye[c].out # close[c].as

\* Only a manager's request forces.
ForcesMayForce == \A c \in Closers : close[c] # NoClose /\ close[c].force => c \in MayForce

\* The tasks made are the first ones.
MintedInOrder == \A t \in TaskIds : task[t] # NoTask => t <= minted

\* The tasks the cron has picked are open and have not been poked about.
BatchStands ==
    /\ batch \subseteq 1..minted
    /\ ~batchClash => \A t \in batch : Overdue(t)

OneFirst == \A s, t \in First : s = t
FirstFits == \A t \in First : task[t].type = outcome

CloseInv ==
    /\ CloseTypeOK
    /\ EyesOpen
    /\ DoomedFits
    /\ ForcesMayForce
    /\ MintedInOrder
    /\ BatchStands
    /\ OneFirst
    /\ FirstFits
    /\ FollowUpExists

LEMMA CloseInitInv == CloseInit => CloseInv
<1> SUFFICES ASSUME CloseInit PROVE CloseInv
    OBVIOUS
<1>1. CloseTypeOK
    <2>1. Blank \in Eye
        BY DEF Blank, Eye
    <2>2. 0 \in 0..MaxTasks
        BY MaxTasksBound
    <2> QED
        BY <2>1, <2>2 DEF CloseInit, CloseTypeOK
<1>2. First = {}
    BY DEF CloseInit, First, OpenTasks
<1>3. EyesOpen /\ DoomedFits /\ ForcesMayForce /\ MintedInOrder /\ BatchStands
    BY DEF CloseInit, EyesOpen, DoomedFits, ForcesMayForce, MintedInOrder, BatchStands
<1>4. FollowUpExists
    BY NoOutcomeApart DEF CloseInit, FollowUpExists, Outcomes
<1> QED
    BY <1>1, <1>2, <1>3, <1>4 DEF CloseInv, OneFirst, FirstFits

\* What a request sees when it begins.
LEMMA LookFits ==
    ASSUME CloseInv, NEW q \in Closes
    PROVE  /\ Look(q) \in Eye
           /\ Look(q).out = outcome /\ Look(q).over = cancelled
           /\ Look(q).doomed \subseteq 1..minted
           /\ Look(q).doomed # {} => outcome # q.as
           /\ q.force /\ outcome # q.as /\ ~cancelled => First \subseteq Look(q).doomed
<1>1. OpenTasks \subseteq TaskIds /\ OpenTasks \subseteq 1..minted /\ First \subseteq OpenTasks
    BY DEF OpenTasks, First, CloseInv, MintedInOrder, CloseTypeOK, TaskIds
<1>2. Look(q) \in Eye
    BY <1>1 DEF Look, Eye, CloseInv, CloseTypeOK
<1> QED
    BY <1>1, <1>2 DEF Look

\* Nothing but requests, and none of the rows, is touched.
LEMMA SameRows ==
    ASSUME CloseInv, UNCHANGED <<outcome, cancelled, task, minted, batch, batchClash>>
    PROVE  /\ First' = First /\ MintedInOrder' /\ BatchStands'
           /\ OneFirst' /\ FirstFits' /\ FollowUpExists'
BY DEF CloseInv, First, OpenTasks, MintedInOrder, BatchStands, Overdue, OneFirst, FirstFits,
       FollowUpExists

LEMMA AskCloseStep == ASSUME CloseInv, NEW c \in Closers, AskClose(c) PROVE CloseInv'
<1>1. PICK q \in Closes : /\ q.force => c \in MayForce
                          /\ close' = [close EXCEPT ![c] = q]
                          /\ eye' = [eye EXCEPT ![c] = Look(q)]
    BY DEF AskClose
<1>2. UNCHANGED <<outcome, cancelled, task, minted, clash, batch, batchClash>>
    BY DEF AskClose
<1>3. CloseTypeOK'
    BY <1>1, <1>2, LookFits DEF CloseInv, CloseTypeOK, Task
<1>4. First' = First
    BY <1>2, SameRows
<1>5. EyesOpen'
    BY <1>1, <1>2, <1>4, LookFits, NoCloseApart DEF CloseInv, CloseTypeOK, EyesOpen
<1>6. DoomedFits'
    BY <1>1, <1>2, LookFits DEF CloseInv, CloseTypeOK, DoomedFits
<1>7. ForcesMayForce'
    BY <1>1 DEF CloseInv, CloseTypeOK, ForcesMayForce
<1> QED
    BY <1>2, <1>3, <1>5, <1>6, <1>7, SameRows DEF CloseInv

LEMMA EndCloseFits ==
    ASSUME CloseInv, NEW c \in Closers, EndClose(c)
    PROVE  /\ close' \in [Closers -> Closes \cup {NoClose}] /\ eye' \in [Closers -> Eye]
           /\ close'[c] = NoClose
           /\ \A d \in Closers \ {c} : close'[d] = close[d] /\ eye'[d] = eye[d]
           /\ ForcesMayForce'
<1>1. Blank \in Eye
    BY DEF Blank, Eye
<1> QED
    BY <1>1 DEF EndClose, CloseInv, CloseTypeOK, ForcesMayForce

LEMMA RefuseCloseStep == ASSUME CloseInv, NEW c \in Closers, RefuseClose(c) PROVE CloseInv'
<1>1. EndClose(c) /\ clash' = [clash EXCEPT ![c] = FALSE]
        /\ UNCHANGED <<outcome, cancelled, task, minted, batch, batchClash>>
    BY DEF RefuseClose
<1>2. CloseTypeOK'
    BY <1>1, EndCloseFits DEF CloseInv, CloseTypeOK
<1>3. First' = First
    BY <1>1, SameRows
<1>4. EyesOpen'
    BY <1>1, <1>3, EndCloseFits DEF CloseInv, CloseTypeOK, EyesOpen
<1>5. DoomedFits'
    BY <1>1, EndCloseFits DEF CloseInv, DoomedFits
<1> QED
    BY <1>1, <1>2, <1>4, <1>5, SameRows, EndCloseFits DEF CloseInv

LEMMA CloseAgainStep == ASSUME CloseInv, NEW c \in Closers, CloseAgain(c) PROVE CloseInv'
<1>1. /\ close[c] \in Closes
      /\ eye' = [eye EXCEPT ![c] = Look(close[c])] /\ clash' = [clash EXCEPT ![c] = FALSE]
      /\ UNCHANGED <<outcome, cancelled, task, minted, close, batch, batchClash>>
    BY DEF CloseAgain, CloseInv, CloseTypeOK
<1>2. CloseTypeOK'
    BY <1>1, LookFits DEF CloseInv, CloseTypeOK
<1>3. First' = First
    BY <1>1, SameRows
<1>4. EyesOpen'
    BY <1>1, <1>3, LookFits DEF CloseInv, CloseTypeOK, EyesOpen
<1>5. DoomedFits'
    BY <1>1, LookFits DEF CloseInv, CloseTypeOK, DoomedFits
<1>6. ForcesMayForce'
    BY <1>1 DEF CloseInv, ForcesMayForce
<1> QED
    BY <1>1, <1>2, <1>4, <1>5, <1>6, SameRows DEF CloseInv

LEMMA CancelVisitStep == ASSUME CloseInv, CancelVisit PROVE CloseInv'
<1>1. /\ cancelled' = TRUE /\ clash' = [d \in Closers |-> close[d] # NoClose]
      /\ UNCHANGED <<outcome, task, minted, close, eye, batch, batchClash>>
    BY DEF CancelVisit
<1>2. CloseTypeOK'
    BY <1>1 DEF CloseInv, CloseTypeOK
<1>3. EyesOpen'
    BY <1>1 DEF EyesOpen
<1> QED
    BY <1>1, <1>2, <1>3 DEF CloseInv, DoomedFits, ForcesMayForce, First, OpenTasks, MintedInOrder,
       BatchStands, Overdue, OneFirst, FirstFits, FollowUpExists

\* A task is written by somebody who keeps its type.
LEMMA WriteTaskStep ==
    ASSUME CloseInv, NEW t \in TaskIds, task[t] # NoTask, NEW r \in Task, WriteTask(t, r),
           r.type = task[t].type,
           r.state = "done" \/ r.reopened
    PROVE  CloseInv'
<1>1. /\ task' = [task EXCEPT ![t] = r]
      /\ clash' = [d \in Closers |-> close[d] # NoClose /\ (clash[d] \/ t \in Doomed(d))]
      /\ batchClash' = (batchClash \/ t \in batch)
      /\ UNCHANGED <<outcome, cancelled, minted, close, eye, batch>>
    BY DEF WriteTask
<1>2. CloseTypeOK'
    BY <1>1 DEF CloseInv, CloseTypeOK
<1>3. task[t] \in Task /\ t \in 1..minted /\ task'[t] = r
    BY <1>1 DEF CloseInv, CloseTypeOK, MintedInOrder, TaskIds
<1>4. First' \subseteq First
    BY <1>1, <1>3 DEF CloseInv, CloseTypeOK, First, OpenTasks
<1>5. EyesOpen'
    BY <1>1, <1>4 DEF CloseInv, CloseTypeOK, EyesOpen
<1>6. DoomedFits' /\ ForcesMayForce' /\ MintedInOrder'
    BY <1>1, <1>3 DEF CloseInv, CloseTypeOK, DoomedFits, ForcesMayForce, MintedInOrder
<1>7. BatchStands'
    BY <1>1 DEF CloseInv, CloseTypeOK, BatchStands, Overdue
<1>8. OneFirst'
    BY <1>4 DEF CloseInv, OneFirst
<1>9. FirstFits'
    BY <1>1, <1>3, <1>4 DEF CloseInv, CloseTypeOK, FirstFits, First, OpenTasks
<1>10. FollowUpExists'
    BY <1>1, <1>3, NoTaskApart DEF CloseInv, CloseTypeOK, FollowUpExists
<1> QED
    BY <1>2, <1>5, <1>6, <1>7, <1>8, <1>9, <1>10 DEF CloseInv

LEMMA TickStep == ASSUME CloseInv, NEW t \in TaskIds, TickTask(t) \/ ReopenTask(t) PROVE CloseInv'
<1>1. task[t] # NoTask /\ task[t] \in Task
    BY DEF TickTask, ReopenTask, CloseInv, CloseTypeOK
<1>2. CASE TickTask(t)
    <2> DEFINE r == [task[t] EXCEPT !.state = "done"]
    <2>1. r \in Task /\ r.type = task[t].type /\ r.state = "done"
        BY <1>1 DEF Task
    <2> QED
        BY <1>1, <1>2, <2>1, WriteTaskStep DEF TickTask
<1>3. CASE ReopenTask(t)
    <2> DEFINE r == [task[t] EXCEPT !.state = "open", !.reopened = TRUE]
    <2>1. r \in Task /\ r.type = task[t].type /\ r.reopened
        BY <1>1 DEF Task
    <2> QED
        BY <1>1, <1>3, <2>1, WriteTaskStep DEF ReopenTask
<1> QED
    BY <1>2, <1>3

\* A stamp on some tasks: what they are about, and whether they are done, stays.
LEMMA StampStep ==
    ASSUME CloseInv, task' \in [TaskIds -> Task \cup {NoTask}],
           \A t \in TaskIds : /\ task'[t] = NoTask <=> task[t] = NoTask
                              /\ task[t] # NoTask => /\ task'[t].type = task[t].type
                                                     /\ task'[t].state = task[t].state
                                                     /\ task'[t].reopened = task[t].reopened,
           UNCHANGED <<outcome, cancelled, minted, close, eye>>,
           clash' \in [Closers -> BOOLEAN],
           \A d \in Closers : close[d] # NoClose /\ clash[d] => clash'[d]
    PROVE  /\ EyesOpen' /\ DoomedFits' /\ ForcesMayForce' /\ MintedInOrder'
           /\ OneFirst' /\ FirstFits' /\ FollowUpExists'
<1>1. First' = First
    BY DEF First, OpenTasks
<1>2. EyesOpen'
    BY <1>1 DEF CloseInv, CloseTypeOK, EyesOpen
<1>3. DoomedFits' /\ ForcesMayForce' /\ MintedInOrder' /\ OneFirst'
    BY <1>1 DEF CloseInv, DoomedFits, ForcesMayForce, MintedInOrder, OneFirst
<1>4. FirstFits'
    BY <1>1 DEF CloseInv, FirstFits, First, OpenTasks
<1>5. FollowUpExists'
    BY DEF CloseInv, FollowUpExists
<1> QED
    BY <1>2, <1>3, <1>4, <1>5

LEMMA TaskFallsDueStep == ASSUME CloseInv, NEW t \in TaskIds, TaskFallsDue(t) PROVE CloseInv'
<1>1. /\ task[t] # NoTask /\ task' = [task EXCEPT ![t].overdue = TRUE]
      /\ UNCHANGED <<outcome, cancelled, minted, close, eye, clash, batch, batchClash>>
    BY DEF TaskFallsDue
<1>2. task[t] \in Task
    BY <1>1 DEF CloseInv, CloseTypeOK
<1> DEFINE r == [task[t] EXCEPT !.overdue = TRUE]
<1>3. /\ r \in Task /\ r.type = task[t].type /\ r.state = task[t].state /\ r.overdue
      /\ r.reopened = task[t].reopened /\ r.pokes = task[t].pokes
    BY <1>2 DEF Task
<1>4. task' = [task EXCEPT ![t] = r]
    BY <1>1
<1> HIDE DEF r
<1>5. task' \in [TaskIds -> Task \cup {NoTask}] /\ r # NoTask
    BY <1>3, <1>4, NoTaskApart DEF CloseInv, CloseTypeOK
<1>6. \A u \in TaskIds : task'[u] = IF u = t THEN r ELSE task[u]
    BY <1>4 DEF CloseInv, CloseTypeOK
<1>7. CloseTypeOK'
    BY <1>1, <1>5 DEF CloseInv, CloseTypeOK
<1>8. BatchStands'
    BY <1>1, <1>3, <1>5, <1>6 DEF CloseInv, CloseTypeOK, BatchStands, Overdue
<1> QED
    BY <1>1, <1>3, <1>5, <1>6, <1>7, <1>8, StampStep DEF CloseInv, CloseTypeOK

LEMMA PickOverdueStep == ASSUME CloseInv, PickOverdue PROVE CloseInv'
<1>1. /\ batch' = {t \in TaskIds : Overdue(t)}
      /\ UNCHANGED <<outcome, cancelled, task, minted, close, eye, clash, batchClash>>
    BY DEF PickOverdue
<1>2. CloseTypeOK' /\ BatchStands'
    BY <1>1 DEF CloseInv, CloseTypeOK, BatchStands, Overdue, MintedInOrder, TaskIds
<1> QED
    BY <1>1, <1>2, StampStep DEF CloseInv, CloseTypeOK

LEMMA PokeFailsStep == ASSUME CloseInv, PokeFails PROVE CloseInv'
<1>1. /\ batch' = {} /\ batchClash' = FALSE
      /\ UNCHANGED <<outcome, cancelled, task, minted, close, eye, clash>>
    BY DEF PokeFails
<1>2. CloseTypeOK' /\ BatchStands'
    BY <1>1 DEF CloseInv, CloseTypeOK, BatchStands
<1> QED
    BY <1>1, <1>2, StampStep DEF CloseInv, CloseTypeOK

\* The tasks that are stamped are open and have not been poked about yet.
LEMMA Poked ==
    ASSUME CloseInv, PokeRoom, NEW t \in TaskIds
    PROVE  /\ t \notin batch => task'[t] = task[t]
           /\ t \in batch => /\ task[t] \in Task /\ task[t].state = "open" /\ task[t].pokes = 0
                             /\ task'[t] = [task[t] EXCEPT !.pokes = 1]
                             /\ task'[t] \in Task
<1>1. task'[t] = IF t \in batch THEN [task[t] EXCEPT !.pokes = @ + 1] ELSE task[t]
    BY DEF PokeRoom
<1>2. ASSUME t \in batch
      PROVE task[t] \in Task /\ task[t].state = "open" /\ task[t].pokes = 0
    BY <1>2 DEF PokeRoom, CloseInv, CloseTypeOK, BatchStands, Overdue
<1>3. ASSUME t \in batch PROVE task'[t] = [task[t] EXCEPT !.pokes = 1] /\ task'[t] \in Task
    <2>1. task'[t] = [task[t] EXCEPT !.pokes = task[t].pokes + 1]
        BY <1>1, <1>2, <1>3
    <2> QED
        BY <1>2, <1>3, <2>1 DEF Task
<1> QED
    BY <1>1, <1>2, <1>3

LEMMA PokeRoomStep == ASSUME CloseInv, PokeRoom PROVE CloseInv'
<1>1. /\ batch' = {} /\ UNCHANGED <<outcome, cancelled, minted, close, eye, batchClash>>
      /\ clash' = [d \in Closers |-> close[d] # NoClose
                                      /\ (clash[d] \/ batch \cap Doomed(d) # {})]
      /\ task' = [t \in TaskIds |-> task'[t]]
    BY DEF PokeRoom
<1>2. \A t \in TaskIds :
        /\ task'[t] \in Task \cup {NoTask}
        /\ task'[t] = NoTask <=> task[t] = NoTask
        /\ task[t] # NoTask => /\ task'[t].type = task[t].type
                               /\ task'[t].state = task[t].state
                               /\ task'[t].reopened = task[t].reopened
    <2> TAKE t \in TaskIds
    <2>1. CASE t \notin batch
        BY <2>1, Poked DEF CloseInv, CloseTypeOK
    <2>2. CASE t \in batch
        <3>1. task[t] \in Task /\ task'[t] = [task[t] EXCEPT !.pokes = 1] /\ task'[t] \in Task
            BY <2>2, Poked
        <3>2. /\ task'[t].type = task[t].type /\ task'[t].state = task[t].state
              /\ task'[t].reopened = task[t].reopened
            BY <3>1 DEF Task
        <3> QED
            BY <3>1, <3>2, NoTaskApart
    <2> QED
        BY <2>1, <2>2
<1>3. task' \in [TaskIds -> Task \cup {NoTask}]
    BY <1>1, <1>2
<1>4. CloseTypeOK' /\ BatchStands'
    BY <1>1, <1>3 DEF CloseInv, CloseTypeOK, BatchStands
<1> QED
    BY <1>1, <1>2, <1>3, <1>4, StampStep DEF CloseInv, CloseTypeOK

LEMMA SaveCloseStep == ASSUME CloseInv, NEW c \in Closers, SaveClose(c) PROVE CloseInv'
<1> DEFINE q == close[c]
           n == minted + 1
<1>1. /\ q \in Closes /\ q # NoClose /\ ~clash[c] /\ eye[c] \in Eye
      /\ eye[c].out = outcome /\ ~cancelled /\ (outcome # NoOutcome => q.force)
    BY DEF SaveClose, Refused, CloseInv, CloseTypeOK, EyesOpen
<1>2. /\ outcome' = q.as /\ task' = TasksAfter(c) /\ EndClose(c)
      /\ minted' = (IF Mints(c) THEN n ELSE minted) /\ (Mints(c) => minted < MaxTasks)
      /\ clash' = [d \in Closers |-> d # c /\ close[d] # NoClose]
      /\ batchClash' = (batchClash \/ Doomed(c) \cap batch # {})
      /\ UNCHANGED <<cancelled, batch>>
    BY DEF SaveClose
<1>3. Mints(c) <=> outcome # q.as /\ q.as # "sold"
    BY <1>1 DEF Mints
<1>4. /\ Doomed(c) \subseteq 1..minted
      /\ outcome = q.as => Doomed(c) = {}
      /\ outcome # q.as => First \subseteq Doomed(c)
    <2>1. outcome = NoOutcome => First = {}
        <3>1. \A t \in First : task[t].type \in CallBacks
            BY DEF First, OpenTasks, CloseInv, CloseTypeOK, Task
        <3> QED
            BY <3>1, NoOutcomeApart DEF CloseInv, FirstFits, Outcomes
    <2> QED
        BY <1>1, <2>1 DEF Doomed, CloseInv, DoomedFits, EyesOpen
<1>5. minted \in 0..MaxTasks /\ minted' \in 0..MaxTasks /\ n \notin 1..minted
        /\ (Mints(c) => n \in TaskIds) /\ minted' >= minted
    BY <1>2, MaxTasksBound DEF CloseInv, CloseTypeOK, TaskIds
<1>6. Mints(c) => NewTask(q.as) \in Task /\ q.as \in CallBacks /\ NewTask(q.as) # NoTask
    <2>1. Mints(c) => q.as \in CallBacks
        BY <1>1, <1>3 DEF Closes, Outcomes
    <2>2. ASSUME NEW k \in CallBacks PROVE NewTask(k) \in Task
        BY DEF NewTask, Task
    <2> QED
        BY <2>1, <2>2, NoTaskApart
<1>7. \A t \in TaskIds :
        /\ t \in Doomed(c) => task'[t] = NoTask
        /\ t \notin Doomed(c) /\ t = n /\ Mints(c) => task'[t] = NewTask(q.as)
        /\ t \notin Doomed(c) /\ ~(t = n /\ Mints(c)) => task'[t] = task[t]
    BY <1>2 DEF TasksAfter
<1>8. n \notin Doomed(c)
    BY <1>4, <1>5
<1>9. task' \in [TaskIds -> Task \cup {NoTask}]
    <2>1. task' = [t \in TaskIds |-> task'[t]]
        BY <1>2 DEF TasksAfter
    <2>2. \A t \in TaskIds : task'[t] \in Task \cup {NoTask}
        BY <1>6, <1>7 DEF CloseInv, CloseTypeOK
    <2> QED
        BY <2>1, <2>2
<1>10. CloseTypeOK'
    <2>1. outcome' \in Outcomes \cup {NoOutcome}
        BY <1>1, <1>2 DEF Closes
    <2>2. clash' \in [Closers -> BOOLEAN]
        BY <1>2
    <2>3. batchClash' \in BOOLEAN
        BY <1>2 DEF CloseInv, CloseTypeOK
    <2> QED
        BY <1>2, <1>5, <1>9, <2>1, <2>2, <2>3, EndCloseFits DEF CloseInv, CloseTypeOK
<1>11. EyesOpen' /\ DoomedFits'
    <2>1. close'[c] = NoClose /\ \A d \in Closers \ {c} : close'[d] = close[d] /\ eye'[d] = eye[d]
        BY <1>2, EndCloseFits
    <2>2. \A d \in Closers \ {c} : close[d] # NoClose => clash'[d]
        BY <1>2
    <2>3. EyesOpen'
        BY <2>1, <2>2 DEF EyesOpen
    <2>4. 1..minted \subseteq 1..minted'
        BY <1>5
    <2>5. DoomedFits'
        BY <2>1, <2>4 DEF CloseInv, DoomedFits
    <2> QED
        BY <2>3, <2>5
<1>12. MintedInOrder'
    BY <1>2, <1>5, <1>7 DEF CloseInv, CloseTypeOK, MintedInOrder, TaskIds
<1>13. BatchStands'
    <2>1. batch \subseteq 1..minted'
        BY <1>5 DEF CloseInv, BatchStands
    <2>2. ASSUME ~batchClash', NEW t \in batch PROVE Overdue(t)'
        <3>1. t \in TaskIds /\ t # n /\ t \notin Doomed(c) /\ Overdue(t)
            BY <1>2, <1>5, <2>2 DEF CloseInv, CloseTypeOK, BatchStands
        <3>2. task'[t] = task[t]
            BY <1>7, <3>1
        <3> QED
            BY <3>1, <3>2 DEF Overdue
    <2> QED
        BY <1>2, <2>1, <2>2 DEF BatchStands
<1>14. CASE outcome = q.as
    <2>1. task' = task
        BY <1>3, <1>4, <1>7, <1>9, <1>14 DEF CloseInv, CloseTypeOK
    <2>2. OneFirst' /\ FirstFits' /\ FollowUpExists'
        BY <1>2, <1>14, <2>1 DEF CloseInv, OneFirst, FirstFits, FollowUpExists, First, OpenTasks
    <2> QED
        BY <1>2, <1>10, <1>11, <1>12, <1>13, <2>2, EndCloseFits DEF CloseInv
<1>15. CASE outcome # q.as
    <2>1. \A t \in First' : t = n /\ Mints(c)
        BY <1>4, <1>7, <1>15 DEF First, OpenTasks
    <2>2. OneFirst'
        BY <2>1 DEF OneFirst
    <2>3. FirstFits'
        BY <1>2, <1>7, <1>8, <2>1 DEF FirstFits, First, OpenTasks, NewTask
    <2>4. FollowUpExists'
        <3> SUFFICES ASSUME q.as \in CallBacks
                     PROVE \E t \in TaskIds : task'[t] # NoTask /\ task'[t].type = q.as
            BY <1>2 DEF FollowUpExists
        <3>1. Mints(c)
            BY <1>3, <1>15, SoldNeedsNoCall
        <3> QED
            BY <1>5, <1>6, <1>7, <1>8, <3>1 DEF NewTask
    <2> QED
        BY <1>2, <1>10, <1>11, <1>12, <1>13, <2>2, <2>3, <2>4, EndCloseFits DEF CloseInv
<1> QED
    BY <1>14, <1>15

LEMMA CloseStep == CloseInv /\ [CloseNext]_closeVars => CloseInv'
<1> SUFFICES ASSUME CloseInv, [CloseNext]_closeVars PROVE CloseInv'
    OBVIOUS
<1>1. CASE UNCHANGED closeVars
    BY <1>1 DEF closeVars, CloseInv, CloseTypeOK, EyesOpen, DoomedFits, ForcesMayForce,
       MintedInOrder, BatchStands, Overdue, OneFirst, FirstFits, First, OpenTasks, FollowUpExists
<1>2. CASE \E c \in Closers : AskClose(c) \/ RefuseClose(c) \/ SaveClose(c) \/ CloseAgain(c)
    BY <1>2, AskCloseStep, RefuseCloseStep, SaveCloseStep, CloseAgainStep
<1>3. CASE \E t \in TaskIds : TickTask(t) \/ ReopenTask(t) \/ TaskFallsDue(t)
    BY <1>3, TickStep, TaskFallsDueStep
<1>4. CASE CancelVisit \/ PickOverdue \/ PokeRoom \/ PokeFails
    BY <1>4, CancelVisitStep, PickOverdueStep, PokeRoomStep, PokeFailsStep
<1> QED
    BY <1>1, <1>2, <1>3, <1>4 DEF CloseNext

LEMMA FollowUps == CloseInv => FollowUpsFit
<1> SUFFICES ASSUME CloseInv PROVE FollowUpsFit
    OBVIOUS
<1>1. Cardinality(First) <= 1
    <2>1. CASE First = {}
        BY <2>1, FS_EmptySet
    <2>2. CASE First # {}
        <3>1. PICK t \in First : First = {t}
            BY <2>2 DEF CloseInv, OneFirst
        <3> QED
            BY <3>1, FS_Singleton
    <2> QED
        BY <2>1, <2>2
<1> QED
    BY <1>1 DEF CloseInv, FollowUpsFit, FollowUpMatchesOutcome, FirstFits, First

\* The outcome changes by a save that saw what it replaces, and by nothing else.
LEMMA OutcomeStep ==
    ASSUME CloseInv, [CloseNext]_closeVars, outcome' # outcome
    PROVE  /\ ~cancelled
           /\ \E c \in Closers : /\ close[c] # NoClose /\ close'[c] = NoClose
                                 /\ eye[c].out = outcome
                                 /\ outcome # NoOutcome => c \in MayForce /\ close[c].force
<1>1. PICK c \in Closers : SaveClose(c)
    BY DEF CloseNext, closeVars, AskClose, RefuseClose, CloseAgain, CancelVisit, TickTask, ReopenTask,
           WriteTask, TaskFallsDue, PickOverdue, PokeRoom, PokeFails
<1>2. close[c] # NoClose /\ close'[c] = NoClose
    BY <1>1, EndCloseFits DEF SaveClose
<1>3. eye[c].out = outcome /\ ~cancelled /\ (outcome # NoOutcome => close[c].force)
    BY <1>1 DEF SaveClose, Refused, CloseInv, EyesOpen
<1> QED
    BY <1>1, <1>2, <1>3 DEF CloseInv, ForcesMayForce

\* Only the cron pokes, about a task that is open, once.
LEMMA PokeStep ==
    ASSUME CloseInv, [CloseNext]_closeVars, NEW t \in TaskIds,
           task[t] # NoTask, task'[t] # NoTask, task'[t].pokes # task[t].pokes
    PROVE  task[t].state = "open" /\ task'[t].pokes = 1
<1>1. task' # task
    OBVIOUS
<1>2. ASSUME NEW c \in Closers, SaveClose(c) PROVE FALSE
    <2>1. t # minted + 1
        BY DEF CloseInv, CloseTypeOK, MintedInOrder
    <2>2. task'[t] = task[t]
        BY <1>2, <2>1 DEF SaveClose, TasksAfter
    <2> QED
        BY <2>2
<1>3. ASSUME NEW u \in TaskIds, TickTask(u) \/ ReopenTask(u) \/ TaskFallsDue(u) PROVE FALSE
    <2>1. CASE u # t
        BY <1>3, <2>1 DEF TickTask, ReopenTask, WriteTask, TaskFallsDue, CloseInv, CloseTypeOK
    <2>2. CASE u = t
        <3>1. task[t] \in Task /\ task \in [TaskIds -> Task \cup {NoTask}]
            BY DEF CloseInv, CloseTypeOK
        <3>2. \/ task'[t] = [task[t] EXCEPT !.state = "done"]
              \/ task'[t] = [task[t] EXCEPT !.state = "open", !.reopened = TRUE]
              \/ task'[t] = [task[t] EXCEPT !.overdue = TRUE]
            BY <1>3, <2>2, <3>1 DEF TickTask, ReopenTask, WriteTask, TaskFallsDue
        <3> QED
            BY <3>1, <3>2 DEF Task
    <2> QED
        BY <2>1, <2>2
<1>4. PokeRoom
    BY <1>1, <1>2, <1>3 DEF CloseNext, closeVars, AskClose, RefuseClose, CloseAgain, CancelVisit,
       PickOverdue, PokeFails
<1>5. t \in batch
    BY <1>4, Poked
<1> QED
    BY <1>4, <1>5, Poked DEF Task

LEMMA CloseInductive == CloseSpec => []CloseInv
BY CloseInitInv, CloseStep, PTL DEF CloseSpec

\* Once a booking is closed its follow-ups are those of the outcome that stands, for any staff,
\* outcomes and number of tasks, under double closes, forces, ticks and reopenings
\* (modryn_set_outcome and the tasks it deletes and makes).
THEOREM FollowUpsAlwaysFit == CloseSpec => [](CloseTypeOK /\ FollowUpsFit)
<1>1. CloseInv => CloseTypeOK /\ FollowUpsFit
    BY FollowUps DEF CloseInv
<1> QED
    BY CloseInductive, <1>1, PTL

\* An outcome is replaced only by a manager's request that forces it and has read what it
\* replaces, and that of a cancelled booking never (finish_booking and its audit row).
THEOREM OutcomesAlwaysStand == CloseSpec => OutcomesStand
<1>1. CloseInv /\ [CloseNext]_closeVars =>
        [outcome' # outcome =>
          \E c \in Closers : /\ close[c] # NoClose /\ close'[c] = NoClose
                             /\ eye[c].out = outcome
                             /\ outcome # NoOutcome => c \in MayForce /\ close[c].force]_closeVars
    BY OutcomeStep
<1>2. CloseInv /\ [CloseNext]_closeVars => [cancelled => outcome' = outcome]_closeVars
    BY OutcomeStep
<1> QED
    BY CloseInductive, <1>1, <1>2, PTL
       DEF CloseSpec, OutcomesStand, OverwritesAreForcedAndAudited, CancelledStaysUnclosed

\* The managers are poked about a task once, and only while it is open (the escalation cron
\* beside the ticks and the closes that delete tasks).
THEOREM PokesAreSingle == CloseSpec => PokedOnceWhileOpen
<1>1. CloseInv /\ [CloseNext]_closeVars =>
        [\A t \in TaskIds :
          task[t] # NoTask /\ task'[t] # NoTask /\ task'[t].pokes # task[t].pokes
             => task[t].state = "open" /\ task'[t].pokes = 1]_closeVars
    BY PokeStep
<1> QED
    BY CloseInductive, <1>1, PTL DEF CloseSpec, PokedOnceWhileOpen

-----------------------------------------------------------------------------
(*****************************************************************************)
(* CustomerCategory.                                                         *)
(*                                                                           *)
(* The category of a customer, for any close requests and bookings. The      *)
(* invariant adds that the outcome a close has read of its own booking       *)
(* stands unless the close is to run again.                                  *)
(*****************************************************************************)

\* The outcome a close has read of its own booking stands unless it is to run again.
OwnRowStands ==
    \A h \in Desks :
        closing[h] # Vacant /\ ~rowLost[h]
            => sees[h].result[closing[h].visit] = result[closing[h].visit]

GradeInv == GradeTypeOK /\ OwnRowStands /\ CategoryDerivedUnlessSkewed

LEMMA GradeInitInv == GradeInit => GradeInv
<1> SUFFICES ASSUME GradeInit PROVE GradeInv
    OBVIOUS
<1>1. GradeTypeOK
    BY DEF GradeInit, GradeTypeOK, Results, Grades, Nothing
<1>2. OwnRowStands
    BY DEF GradeInit, OwnRowStands
<1>3. CategoryDerivedUnlessSkewed
    BY DEF GradeInit, CategoryDerivedUnlessSkewed, Derived
<1> QED
    BY <1>1, <1>2, <1>3 DEF GradeInv

LEMMA DerivedGrade == ASSUME NEW r PROVE Derived(r) \in Grades
BY DEF Derived, Grades

LEMMA BeginGradeStep == ASSUME GradeInv, NEW h \in Desks, BeginGrade(h) PROVE GradeInv'
<1>1. PICK v \in Visits, o \in Results \ {"open"} :
          closing' = [closing EXCEPT ![h] = [visit |-> v, as |-> o]]
    BY DEF BeginGrade
<1>2. sees' = [sees EXCEPT ![h] = Glance] /\ UNCHANGED <<result, grade, rowLost, cardLost, skewed>>
    BY DEF BeginGrade
<1>3. GradeTypeOK'
    BY <1>1, <1>2 DEF GradeInv, GradeTypeOK, Glance
<1>4. OwnRowStands'
    BY <1>1, <1>2 DEF GradeInv, GradeTypeOK, OwnRowStands, Glance
<1>5. CategoryDerivedUnlessSkewed'
    BY <1>2 DEF GradeInv, CategoryDerivedUnlessSkewed, Derived
<1> QED
    BY <1>3, <1>4, <1>5 DEF GradeInv

LEMMA RetryGradeStep == ASSUME GradeInv, NEW h \in Desks, RetryGrade(h) PROVE GradeInv'
<1>1. GradeTypeOK'
    BY DEF RetryGrade, GradeInv, GradeTypeOK, Glance
<1>2. OwnRowStands'
    BY DEF RetryGrade, GradeInv, GradeTypeOK, OwnRowStands, Glance
<1>3. CategoryDerivedUnlessSkewed'
    BY DEF RetryGrade, GradeInv, CategoryDerivedUnlessSkewed, Derived
<1> QED
    BY <1>1, <1>2, <1>3 DEF GradeInv

LEMMA CommitGradeStep == ASSUME GradeInv, NEW h \in Desks, CommitGrade(h) PROVE GradeInv'
<1> DEFINE v == closing[h].visit
           o == closing[h].as
<1>1. v \in Visits /\ o \in Results /\ ~rowLost[h]
    BY DEF CommitGrade, Again, GradeInv, GradeTypeOK
<1>2. /\ result' = [result EXCEPT ![v] = o]
      /\ grade' = IF Regrades(h) THEN NewGrade(h) ELSE grade
      /\ skewed' = IF Corrects(h) THEN sees[h] # Glance ELSE skewed
      /\ rowLost' = [k \in Desks |-> k # h /\ (rowLost[k] \/ closing[k].visit = v)]
      /\ cardLost' = [k \in Desks |-> /\ k # h /\ closing[k] # Vacant
                                      /\ cardLost[k] \/ Regrades(h)]
      /\ closing' = [closing EXCEPT ![h] = Vacant]
      /\ sees' = [sees EXCEPT ![h] = Nothing]
    BY DEF CommitGrade
<1>3. sees[h].result[v] = result[v]
    BY <1>1 DEF CommitGrade, GradeInv, OwnRowStands
<1>4. NewGrade(h) \in Grades
    BY DerivedGrade DEF NewGrade
<1>5. GradeTypeOK'
    <2>1. result' \in [Visits -> Results] /\ grade' \in Grades
        BY <1>1, <1>2, <1>4 DEF GradeInv, GradeTypeOK
    <2>2. Nothing \in [result : [Visits -> Results], grade : Grades]
        BY DEF Nothing, Results, Grades
    <2>3. closing' \in [Desks -> [visit : Visits, as : Results] \cup {Vacant}]
              /\ sees' \in [Desks -> [result : [Visits -> Results], grade : Grades]]
        BY <1>2, <2>2 DEF GradeInv, GradeTypeOK
    <2>4. rowLost' \in [Desks -> BOOLEAN] /\ cardLost' \in [Desks -> BOOLEAN]
        BY <1>2
    <2>5. skewed' \in BOOLEAN
        BY <1>2 DEF GradeInv, GradeTypeOK
    <2> QED
        BY <2>1, <2>3, <2>4, <2>5 DEF GradeTypeOK
<1>6. OwnRowStands'
    <2> SUFFICES ASSUME NEW k \in Desks, closing'[k] # Vacant, ~rowLost'[k]
                 PROVE  sees'[k].result[closing'[k].visit] = result'[closing'[k].visit]
        BY DEF OwnRowStands
    <2>1. k # h /\ closing[k] # Vacant /\ ~rowLost[k] /\ closing[k].visit # v
        BY <1>2 DEF GradeInv, GradeTypeOK
    <2>2. sees'[k] = sees[k] /\ closing'[k] = closing[k]
        BY <1>2, <2>1 DEF GradeInv, GradeTypeOK
    <2>3. result'[closing[k].visit] = result[closing[k].visit]
        BY <1>2, <2>1 DEF GradeInv, GradeTypeOK
    <2> QED
        BY <2>1, <2>2, <2>3 DEF GradeInv, OwnRowStands
<1>7. CategoryDerivedUnlessSkewed'
    <2>1. CASE ~Corrects(h)
        <3>1. result' = result
            BY <1>1, <1>2, <1>3, <2>1 DEF Corrects, GradeInv, GradeTypeOK
        <3>2. grade' = grade /\ (skewed' <=> skewed)
            BY <1>2, <2>1 DEF Regrades
        <3> QED
            BY <3>1, <3>2 DEF GradeInv, CategoryDerivedUnlessSkewed, Derived
    <2>2. CASE Corrects(h) /\ sees[h] # Glance
        BY <1>2, <2>2 DEF CategoryDerivedUnlessSkewed
    <2>3. CASE Corrects(h) /\ sees[h] = Glance
        <3>1. History(h) = result'
            BY <1>2, <2>3 DEF History, Glance
        <3>2. grade' = Derived(result')
            BY <1>2, <2>3, <3>1 DEF Regrades, NewGrade, Glance
        <3> QED
            BY <3>2 DEF CategoryDerivedUnlessSkewed, Derived
    <2> QED
        BY <2>1, <2>2, <2>3
<1> QED
    BY <1>5, <1>6, <1>7 DEF GradeInv

LEMMA GradeStep == GradeInv /\ [GradeNext]_gradeVars => GradeInv'
<1>1. ASSUME GradeInv, UNCHANGED gradeVars PROVE GradeInv'
    BY <1>1 DEF gradeVars, GradeInv, GradeTypeOK, OwnRowStands, CategoryDerivedUnlessSkewed, Derived
<1> QED
    BY <1>1, BeginGradeStep, RetryGradeStep, CommitGradeStep DEF GradeNext

\* Types hold, and the category is what the outcomes of her bookings say unless the
\* last close to derive it missed a close beside it.
THEOREM CategoryIsDerived == GradeSpec => [](GradeTypeOK /\ CategoryDerivedUnlessSkewed)
<1>1. GradeInv => GradeTypeOK /\ CategoryDerivedUnlessSkewed
    BY DEF GradeInv
<1> QED
    BY GradeInitInv, GradeStep, <1>1, PTL DEF GradeSpec

-----------------------------------------------------------------------------
(*****************************************************************************)
(* Checklist.                                                                *)
(*                                                                           *)
(* The daily checklist, for any items, boards and days. The invariant adds   *)
(* that an item a board has found is there, which no step takes away.        *)
(*****************************************************************************)

\* What a board has found is there.
FoundIsThere ==
    \A b \in Boards : \A i \in reading[b].sees :
        instances[<<i, reading[b].day>>] > 0

\* A board reads the list of a day of the calendar.
ReadsADay == \A b \in Boards : reading[b] # NotReading => reading[b].day \in Days

ChecklistInv == ChecklistTypeOK /\ FoundIsThere /\ ReadsADay /\ OneRowAnItemADay

LEMMA ChecklistInitInv == ChecklistInit => ChecklistInv
<1> SUFFICES ASSUME ChecklistInit PROVE ChecklistInv
    OBVIOUS
<1>1. ChecklistTypeOK
    BY LastDayNat DEF ChecklistInit, ChecklistTypeOK, NotReading, Days
<1>2. FoundIsThere /\ ReadsADay
    BY DEF ChecklistInit, FoundIsThere, ReadsADay, NotReading
<1>3. OneRowAnItemADay
    BY DEF ChecklistInit, OneRowAnItemADay
<1> QED
    BY <1>1, <1>2, <1>3 DEF ChecklistInv

LEMMA ItemStep ==
    ASSUME ChecklistInv,
           Midnight \/ (\E i \in Items : TurnItem(i)) \/ (\E p \in Items \X Days : TickRow(p))
    PROVE  ChecklistInv'
<1>1. UNCHANGED <<instances, reading>>
    BY DEF Midnight, TurnItem, TickRow
<1>2. ChecklistTypeOK'
    <2>1. CASE Midnight
        BY <2>1, LastDayNat DEF Midnight, ChecklistInv, ChecklistTypeOK, Days
    <2>2. CASE \E i \in Items : TurnItem(i)
        BY <2>2 DEF TurnItem, ChecklistInv, ChecklistTypeOK
    <2>3. CASE \E p \in Items \X Days : TickRow(p)
        BY <2>3 DEF TickRow, ChecklistInv, ChecklistTypeOK
    <2> QED
        BY <2>1, <2>2, <2>3
<1> QED
    BY <1>1, <1>2 DEF ChecklistInv, FoundIsThere, ReadsADay, OneRowAnItemADay

LEMMA ReadBeginsStep == ASSUME ChecklistInv, NEW b \in Boards, ReadBegins(b) PROVE ChecklistInv'
<1> DEFINE r == [day |-> today, items |-> Active,
                 sees |-> {i \in Items : instances[<<i, today>>] > 0}]
<1>1. reading' = [reading EXCEPT ![b] = r] /\ UNCHANGED <<item, today, instances, ticked>>
    BY DEF ReadBegins
<1>2. Active \subseteq Items /\ today \in Days
    BY DEF Active, ChecklistInv, ChecklistTypeOK
<1>3. ChecklistTypeOK'
    BY <1>1, <1>2 DEF ChecklistInv, ChecklistTypeOK
<1>4. FoundIsThere'
    <2>1. \A i \in r.sees : instances[<<i, r.day>>] > 0
        BY <1>2 DEF ChecklistInv, ChecklistTypeOK
    <2> QED
        BY <1>1, <2>1 DEF ChecklistInv, ChecklistTypeOK, FoundIsThere
<1>5. ReadsADay'
    BY <1>1, <1>2 DEF ChecklistInv, ChecklistTypeOK, ReadsADay
<1> QED
    BY <1>1, <1>3, <1>4, <1>5 DEF ChecklistInv, OneRowAnItemADay

\* A read that ends adds the rows which are still missing, each once.
LEMMA RowsAdded ==
    ASSUME ChecklistInv, NEW b \in Boards, ReadEnds(b), NEW i \in Items, NEW d \in Days
    PROVE  /\ instances'[<<i, d>>] \in {instances[<<i, d>>], 1}
           /\ instances'[<<i, d>>] >= instances[<<i, d>>]
           /\ i \in reading[b].items \ reading[b].sees /\ d = reading[b].day =>
                 instances'[<<i, d>>] > 0
<1>1. <<i, d>> \in Items \X Days /\ <<i, d>>[1] = i /\ <<i, d>>[2] = d
    OBVIOUS
<1>2. instances[<<i, d>>] \in Nat
    BY <1>1 DEF ChecklistInv, ChecklistTypeOK
<1>3. instances'[<<i, d>>] = IF i \in Made(reading[b]) /\ d = reading[b].day
                             THEN instances[<<i, d>>] + 1 ELSE instances[<<i, d>>]
    BY <1>1 DEF ReadEnds
<1>4. i \in Made(reading[b]) <=> /\ i \in reading[b].items \ reading[b].sees
                                 /\ instances[<<i, reading[b].day>>] = 0
    BY DEF Made, Absent
<1> QED
    BY <1>2, <1>3, <1>4

LEMMA ReadEndsStep == ASSUME ChecklistInv, NEW b \in Boards, ReadEnds(b) PROVE ChecklistInv'
<1>1. /\ reading' = [reading EXCEPT ![b] = NotReading] /\ UNCHANGED <<item, today, ticked>>
      /\ instances' = [p \in Items \X Days |->
                         IF p[1] \in Made(reading[b]) /\ p[2] = reading[b].day
                         THEN instances[p] + 1 ELSE instances[p]]
    BY DEF ReadEnds
<1>2. ChecklistTypeOK'
    BY <1>1 DEF ChecklistInv, ChecklistTypeOK, NotReading
<1>3. FoundIsThere'
    <2> SUFFICES ASSUME NEW c \in Boards, NEW i \in reading'[c].sees
                 PROVE  instances'[<<i, reading'[c].day>>] > 0
        BY DEF FoundIsThere
    <2>1. c # b /\ reading'[c] = reading[c]
        BY <1>1 DEF ChecklistInv, ChecklistTypeOK, NotReading
    <2>2. i \in Items /\ reading[c].day \in Days
        BY <2>1 DEF ChecklistInv, ChecklistTypeOK, ReadsADay, NotReading
    <2>3. instances[<<i, reading[c].day>>] > 0
        BY <2>1 DEF ChecklistInv, FoundIsThere
    <2>4. instances'[<<i, reading[c].day>>] >= instances[<<i, reading[c].day>>]
        BY <2>2, RowsAdded
    <2>5. instances[<<i, reading[c].day>>] \in Nat /\ instances'[<<i, reading[c].day>>] \in Nat
        BY <2>2, <1>2 DEF ChecklistInv, ChecklistTypeOK
    <2> QED
        BY <2>1, <2>3, <2>4, <2>5
<1>4. ReadsADay'
    BY <1>1 DEF ChecklistInv, ChecklistTypeOK, ReadsADay
<1>5. OneRowAnItemADay'
    <2> SUFFICES ASSUME NEW i \in Items, NEW d \in Days
                 PROVE  instances'[<<i, d>>] <= 1
        BY DEF OneRowAnItemADay
    <2> QED
        BY RowsAdded DEF ChecklistInv, OneRowAnItemADay
<1> QED
    BY <1>2, <1>3, <1>4, <1>5 DEF ChecklistInv

LEMMA ChecklistStep == ChecklistInv /\ [ChecklistNext]_checklistVars => ChecklistInv'
<1>1. ASSUME ChecklistInv, UNCHANGED checklistVars PROVE ChecklistInv'
    BY <1>1 DEF checklistVars, ChecklistInv, ChecklistTypeOK, FoundIsThere, ReadsADay,
                OneRowAnItemADay
<1> QED
    BY <1>1, ItemStep, ReadBeginsStep, ReadEndsStep DEF ChecklistNext

\* Only its own end ends a board's read.
LEMMA OnlyReadEnds ==
    ASSUME ChecklistInv, [ChecklistNext]_checklistVars, NEW b \in Boards,
           reading[b] # NotReading, reading'[b] = NotReading
    PROVE  ReadEnds(b)
<1>1. reading' # reading
    OBVIOUS
<1>2. PICK c \in Boards : ReadBegins(c) \/ ReadEnds(c)
    BY <1>1 DEF ChecklistNext, checklistVars, Midnight, TurnItem, TickRow
<1>3. ~ReadBegins(c)
    BY <1>2 DEF ReadBegins, ChecklistInv, ChecklistTypeOK
<1>4. c = b
    BY <1>2, <1>3 DEF ReadEnds, ChecklistInv, ChecklistTypeOK
<1> QED
    BY <1>2, <1>3, <1>4

LEMMA ReadIsComplete ==
    ASSUME ChecklistInv, [ChecklistNext]_checklistVars, NEW b \in Boards,
           reading[b] # NotReading, reading'[b] = NotReading, NEW i \in reading[b].items
    PROVE  instances'[<<i, reading[b].day>>] > 0
<1>1. ReadEnds(b)
    BY OnlyReadEnds
<1>2. i \in Items /\ reading[b].day \in Days
    BY DEF ChecklistInv, ChecklistTypeOK, ReadsADay
<1>3. CASE i \notin reading[b].sees
    BY <1>1, <1>2, <1>3, RowsAdded
<1>4. CASE i \in reading[b].sees
    <2>1. instances[<<i, reading[b].day>>] > 0
        BY <1>4 DEF ChecklistInv, FoundIsThere
    <2>2. ChecklistTypeOK'
        BY ChecklistStep DEF ChecklistInv
    <2>3. instances[<<i, reading[b].day>>] \in Nat /\ instances'[<<i, reading[b].day>>] \in Nat
        BY <1>2, <2>2 DEF ChecklistInv, ChecklistTypeOK
    <2> QED
        BY <1>1, <1>2, <2>1, <2>3, RowsAdded
<1> QED
    BY <1>3, <1>4

\* An item the reply lacks was neither in the snapshot nor made by the board itself.
LEMMA LacksWhatItLost ==
    ASSUME ChecklistInv, NEW b \in Boards, reading[b] # NotReading, reading[b].day = today,
           NEW i \in reading[b].items \ Shown(reading[b])
    PROVE  instances[<<i, today>>] > 0 /\ i \notin reading[b].sees
<1>1. i \in Items /\ today \in Days
    BY DEF ChecklistInv, ChecklistTypeOK
<1>2. i \notin reading[b].sees /\ i \notin Made(reading[b])
    BY DEF Shown
<1>3. instances[<<i, today>>] # 0
    BY <1>2 DEF Made, Absent
<1>4. instances[<<i, today>>] \in Nat
    BY <1>1 DEF ChecklistInv, ChecklistTypeOK
<1> QED
    BY <1>2, <1>3, <1>4

\* However many boards are read at once, an item is on a day's list once, a board that
\* has been read leaves the day's rows complete, and its own reply lacks no item but
\* those another board made behind its snapshot (modryn_ensure_today).
THEOREM ChecklistIsKept == ChecklistSpec => []ChecklistTypeOK /\ ChecklistKept
<1>1. ChecklistInv => ChecklistTypeOK /\ OneRowAnItemADay
    BY DEF ChecklistInv
<1>2. ChecklistInv /\ [ChecklistNext]_checklistVars =>
        [\A b \in Boards : reading[b] # NotReading /\ reading'[b] = NotReading =>
           \A i \in reading[b].items : instances'[<<i, reading[b].day>>] > 0]_checklistVars
    BY ReadIsComplete
<1>3. ChecklistInv /\ [ChecklistNext]_checklistVars =>
        [\A b \in Boards :
           /\ reading[b] # NotReading /\ reading'[b] = NotReading
           /\ reading[b].day = today
           => \A i \in reading[b].items \ Shown(reading[b]) :
                  instances[<<i, today>>] > 0 /\ i \notin reading[b].sees]_checklistVars
    BY LacksWhatItLost
<1> QED
    BY ChecklistInitInv, ChecklistStep, <1>1, <1>2, <1>3, PTL
       DEF ChecklistSpec, ChecklistKept, ReadListIsComplete, LoserLacksOnlyWhatItLost

-----------------------------------------------------------------------------
(* The components side by side.                                             *)

LEMMA BackroomStarts == BackroomInit => CloseInit /\ GradeInit /\ ChecklistInit /\ Init
BY DEF BackroomInit

LEMMA BackroomMoves ==
    [BackroomNext]_backroomVars =>
        [CloseNext]_closeVars /\ [GradeNext]_gradeVars /\ [ChecklistNext]_checklistVars
        /\ [Next]_vars
<1> SUFFICES ASSUME [BackroomNext]_backroomVars
             PROVE  [CloseNext]_closeVars /\ [GradeNext]_gradeVars
                    /\ [ChecklistNext]_checklistVars /\ [Next]_vars
    OBVIOUS
<1>1. CASE UNCHANGED backroomVars
    BY <1>1 DEF backroomVars
<1>2. CASE BackroomNext
    BY <1>2 DEF BackroomNext, Only
<1> QED
    BY <1>1, <1>2

\* Side by side the components behave as each does alone, so what is proved of one holds in MCBackroom.
THEOREM BackroomRunsThem == BackroomSpec => CloseSpec /\ GradeSpec /\ ChecklistSpec /\ Spec
BY BackroomStarts, BackroomMoves, PTL
   DEF BackroomSpec, CloseSpec, GradeSpec, ChecklistSpec, Spec

\* All of them keep their types side by side, in every behaviour of MCBackroom.
THEOREM BackroomIsTyped == BackroomSpec => []BackroomTypeOK
<1>1. CloseInv /\ GradeInv /\ ChecklistInv /\ IInv => BackroomTypeOK
    BY DEF CloseInv, GradeInv, ChecklistInv, IInv, BackroomTypeOK
<1>2. (CloseInit => CloseInv) /\ (CloseInv /\ [CloseNext]_closeVars => CloseInv')
    BY CloseInitInv, CloseStep
<1>3. (GradeInit => GradeInv) /\ (GradeInv /\ [GradeNext]_gradeVars => GradeInv')
    BY GradeInitInv, GradeStep
<1>4. (ChecklistInit => ChecklistInv) /\ (ChecklistInv /\ [ChecklistNext]_checklistVars => ChecklistInv')
    BY ChecklistInitInv, ChecklistStep
<1>5. (Init => IInv) /\ (IInv /\ [Next]_vars => IInv')
    BY InitInvariant, NextInvariant
<1> QED
    BY BackroomStarts, BackroomMoves, <1>2, <1>3, <1>4, <1>5, <1>1, PTL DEF BackroomSpec

=============================================================================
