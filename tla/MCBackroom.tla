------------------------------ MODULE MCBackroom ------------------------------
(***************************************************************************)
(* Behind the fitting room, for TLC: the close of a booking and its follow-*)
(* ups, the category of a customer, the daily checklist and the waitlist of*)
(* a full day side by side. Each behaviour is of one of them, and the      *)
(* others stand still in one initial state.                                *)
(***************************************************************************)
EXTENDS Closing, CustomerCategory, Checklist, DayWaitlist, TLC

VARIABLE corner    \* the component whose behaviour this is

backroomVars == <<corner, closeVars, gradeVars, checklistVars, vars>>

BackroomInit ==
    /\ corner \in {"close", "grade", "list", "day"}
    /\ CloseInit
    /\ GradeInit
    /\ ChecklistInit
    /\ Init

\* Nothing but one component moves.
Only(name) ==
    /\ UNCHANGED corner
    /\ IF name = "close" THEN TRUE ELSE UNCHANGED closeVars
    /\ IF name = "grade" THEN TRUE ELSE UNCHANGED gradeVars
    /\ IF name = "list"  THEN TRUE ELSE UNCHANGED checklistVars
    /\ IF name = "day"   THEN TRUE ELSE UNCHANGED vars

BackroomNext ==
    \/ corner = "close" /\ CloseNext     /\ Only("close")
    \/ corner = "grade" /\ GradeNext     /\ Only("grade")
    \/ corner = "list"  /\ ChecklistNext /\ Only("list")
    \/ corner = "day"   /\ Next          /\ Only("day")

BackroomSpec == BackroomInit /\ [][BackroomNext]_backroomVars

\* The types of all of them.
BackroomTypeOK ==
    /\ CloseTypeOK
    /\ GradeTypeOK
    /\ ChecklistTypeOK
    /\ TypeOK

\* What the components treat alike.
Alike == Permutations(CallBacks) \cup Permutations(Phones \ Legacy) \cup Permutations(Clerks)

===============================================================================
