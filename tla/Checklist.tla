----------------------------- MODULE Checklist ------------------------------
(***************************************************************************)
(* The daily checklist (modryn_ops): the owner keeps the items, and the    *)
(* first floor board that is read on a day makes the day's rows. Many      *)
(* boards are read at once; a unique index and a savepoint per row decide  *)
(* between them. A read is one REPEATABLE READ transaction: it sees the    *)
(* rows of its snapshot and its own, never those of the board that beat it.*)
(***************************************************************************)
EXTENDS Integers, FiniteSets

CONSTANTS
    Items,             \* the owner's checklist items
    Boards,            \* floor boards
    LastDay            \* bound on the days

ASSUME LastDayNat == LastDay \in Nat

VARIABLES
    item,              \* "none", "active" or "archived"
    today,
    instances,         \* how many rows an item has on a day
    ticked,            \* <<item, day>> that are done
    reading            \* each board: its snapshot: the day, the items and the day's rows

checklistVars == <<item, today, instances, ticked, reading>>

NotReading == [day |-> -1, items |-> {}, sees |-> {}]
Days == 0..LastDay

ChecklistTypeOK ==
    /\ item      \in [Items -> {"none", "active", "archived"}]
    /\ today     \in Days
    /\ instances \in [Items \X Days -> Nat]
    /\ ticked    \subseteq Items \X Days
    /\ reading   \in [Boards -> [day : Days \cup {-1}, items : SUBSET Items,
                                 sees : SUBSET Items]]

ChecklistInit ==
    /\ item      = [i \in Items |-> "none"]
    /\ today     = 0
    /\ instances = [p \in Items \X Days |-> 0]
    /\ ticked    = {}
    /\ reading   = [b \in Boards |-> NotReading]

\* checklists_new, checklists_archive. Rows that were made stay.
TurnItem(i) ==
    /\ item' = [item EXCEPT ![i] = IF @ = "active" THEN "archived" ELSE "active"]
    /\ UNCHANGED <<today, instances, ticked, reading>>

Midnight ==
    /\ today < LastDay
    /\ today' = today + 1
    /\ UNCHANGED <<item, instances, ticked, reading>>

-----------------------------------------------------------------------------
(* modryn_ensure_today, on every read of a floor board.                    *)

Active == {i \in Items : item[i] = "active"}

ReadBegins(b) ==
    /\ reading[b] = NotReading
    /\ reading' = [reading EXCEPT ![b] =
           [day |-> today, items |-> Active,
            sees |-> {i \in Items : instances[<<i, today>>] > 0}]]
    /\ UNCHANGED <<item, today, instances, ticked>>

Absent(r) == {i \in r.items \ r.sees : instances[<<i, r.day>>] = 0}

\* Variant: one savepoint around all of them: the first clash undoes the rest.
MadeAllOrNone(r) == IF Absent(r) = r.items \ r.sees THEN Absent(r) ELSE {}

\* A row that is there by now is left alone, and the next item is made.
Made(r) == Absent(r)

\* What the board's reply lists: its second search is of the day it is by then, in the
\* same snapshot.
Shown(r) == IF today = r.day THEN r.sees \cup Made(r) ELSE {}

ReadEnds(b) ==
    LET r == reading[b] IN
    /\ r # NotReading
    /\ instances' = [p \in Items \X Days |->
                         IF p[1] \in Made(r) /\ p[2] = r.day THEN instances[p] + 1
                                                            ELSE instances[p]]
    /\ reading' = [reading EXCEPT ![b] = NotReading]
    /\ UNCHANGED <<item, today, ticked>>

\* done and reopen of a row: two staff ticking one box is one tick.
TickRow(p) ==
    /\ instances[p] > 0
    /\ ticked' = (ticked \ {p}) \cup ({p} \ ticked)
    /\ UNCHANGED <<item, today, instances, reading>>

ChecklistNext ==
    \/ Midnight
    \/ \E i \in Items  : TurnItem(i)
    \/ \E b \in Boards : ReadBegins(b) \/ ReadEnds(b)
    \/ \E p \in Items \X Days : TickRow(p)

ChecklistSpec == ChecklistInit /\ [][ChecklistNext]_checklistVars

-----------------------------------------------------------------------------
(* Properties.                                                             *)

\* However many boards are read at once, an item is on a day's list once.
OneRowAnItemADay == \A p \in Items \X Days : instances[p] <= 1

\* A board that has been read leaves the day's list complete in the database: a
\* race it loses for one item costs the list no other item.
ReadListIsComplete ==
    [][\A b \in Boards : reading[b] # NotReading /\ reading'[b] = NotReading =>
           \A i \in reading[b].items : instances'[<<i, reading[b].day>>] > 0]_checklistVars

\* A board that was read within one day lists every item, but for those that another
\* board had made by then behind its snapshot: the winner's rows are not the loser's too.
LoserLacksOnlyWhatItLost ==
    [][\A b \in Boards :
           /\ reading[b] # NotReading /\ reading'[b] = NotReading
           /\ reading[b].day = today
           => \A i \in reading[b].items \ Shown(reading[b]) :
                  instances[<<i, today>>] > 0 /\ i \notin reading[b].sees]_checklistVars

\* Boards that load together leave one row per item and day, and none of them
\* missing; the loser's reply lacks the rows it lost, which the next board that is read lists.
ChecklistKept ==
    /\ ReadListIsComplete
    /\ LoserLacksOnlyWhatItLost
    /\ []OneRowAnItemADay

=============================================================================
