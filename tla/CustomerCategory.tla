-------------------------- MODULE CustomerCategory --------------------------
(***************************************************************************)
(* The category on a customer's card (modryn_ops): derived, at every close *)
(* that changes an outcome, from the outcomes of all her bookings.         *)
(*                                                                         *)
(* The close of one booking reads the other bookings in its snapshot and   *)
(* writes its own booking and, if the category it derives differs from the *)
(* one it read, the card. Two closes of different bookings have no row in  *)
(* common to fail on, unless both write the card.                          *)
(***************************************************************************)
CONSTANTS
    Visits,            \* the bookings of one customer
    Desks              \* staff closing them

Results == {"open", "sold", "not_sold", "no_show"}
Grades  == {"purchased", "not_purchased", "none"}

VARIABLES
    result,            \* the outcome of each booking
    grade,             \* the category
    closing,           \* per hand: the booking and its new outcome
    sees,              \* the outcomes and the category its transaction sees
    rowLost,           \* the booking was written since
    cardLost,          \* the card was written since
    skewed             \* history: the last derivation read what had changed since

gradeVars == <<result, grade, closing, sees, rowLost, cardLost, skewed>>

Vacant  == [visit |-> "none", as |-> "open"]
Nothing == [result |-> [v \in Visits |-> "open"], grade |-> "none"]

GradeTypeOK ==
    /\ result   \in [Visits -> Results]
    /\ grade    \in Grades
    /\ closing  \in [Desks -> [visit : Visits, as : Results] \cup {Vacant}]
    /\ sees     \in [Desks -> [result : [Visits -> Results], grade : Grades]]
    /\ rowLost  \in [Desks -> BOOLEAN]
    /\ cardLost \in [Desks -> BOOLEAN]
    /\ skewed   \in BOOLEAN

GradeInit ==
    /\ result   = [v \in Visits |-> "open"]
    /\ grade    = "none"
    /\ closing  = [h \in Desks |-> Vacant]
    /\ sees     = [h \in Desks |-> Nothing]
    /\ rowLost  = [h \in Desks |-> FALSE]
    /\ cardLost = [h \in Desks |-> FALSE]
    /\ skewed   = FALSE

\* A customer who bought keeps 'purchased' whatever she does not buy later.
Derived(r) ==
    IF \E v \in Visits : r[v] = "sold" THEN "purchased"
    ELSE IF \E v \in Visits : r[v] = "not_sold" THEN "not_purchased"
    ELSE "none"

\* The history as the transaction sees it after its own write.
History(h) == [sees[h].result EXCEPT ![closing[h].visit] = closing[h].as]

Corrects(h) == sees[h].result[closing[h].visit] # closing[h].as

\* Variant: the blind ratchet the comment warns of, which never downgrades.
Ratchet(h) == IF sees[h].grade = "purchased" THEN "purchased" ELSE Derived(History(h))

NewGrade(h) == Derived(History(h))

Regrades(h) == Corrects(h) /\ NewGrade(h) # sees[h].grade

Glance == [result |-> result, grade |-> grade]

BeginGrade(h) ==
    /\ closing[h] = Vacant
    /\ \E v \in Visits, o \in Results \ {"open"} :
          closing' = [closing EXCEPT ![h] = [visit |-> v, as |-> o]]
    /\ sees' = [sees EXCEPT ![h] = Glance]
    /\ UNCHANGED <<result, grade, rowLost, cardLost, skewed>>

Again(h) == rowLost[h] \/ (cardLost[h] /\ Regrades(h))

CommitGrade(h) ==
    LET v == closing[h].visit IN
    /\ closing[h] # Vacant /\ ~Again(h)
    /\ result' = [result EXCEPT ![v] = closing[h].as]
    /\ grade'  = IF Regrades(h) THEN NewGrade(h) ELSE grade
    /\ skewed' = IF Corrects(h) THEN sees[h] # Glance ELSE skewed
    /\ rowLost'  = [k \in Desks |-> k # h /\ (rowLost[k] \/ closing[k].visit = v)]
    /\ cardLost' = [k \in Desks |-> /\ k # h /\ closing[k] # Vacant
                                    /\ cardLost[k] \/ Regrades(h)]
    /\ closing'  = [closing EXCEPT ![h] = Vacant]
    /\ sees'     = [sees EXCEPT ![h] = Nothing]

RetryGrade(h) ==
    /\ closing[h] # Vacant /\ Again(h)
    /\ sees'     = [sees EXCEPT ![h] = Glance]
    /\ rowLost'  = [rowLost EXCEPT ![h] = FALSE]
    /\ cardLost' = [cardLost EXCEPT ![h] = FALSE]
    /\ UNCHANGED <<result, grade, closing, skewed>>

GradeNext == \E h \in Desks : BeginGrade(h) \/ CommitGrade(h) \/ RetryGrade(h)
GradeSpec == GradeInit /\ [][GradeNext]_gradeVars

-----------------------------------------------------------------------------
(* Properties.                                                             *)

\* The category is what the customer's outcomes say, unless the last close to
\* derive it ran at the same time as a close of another booking of hers.
CategoryDerivedUnlessSkewed == skewed \/ grade = Derived(result)

=============================================================================
