----------------------------- MODULE OwnerLists -----------------------------
(***************************************************************************)
(* The lists an owner keeps: roles, fitting rooms, opening hours           *)
(* (modryn_staff), garment pieces (modryn_atelier), shifts (modryn_roster),*)
(* checklist items (modryn_ops). All but hours are searched by name,       *)
(* letter case apart.                                                      *)
(* A new row is refused when the list has its name, archived rows          *)
(* included; a row is archived and restored, never deleted. The lists      *)
(* differ in what holds when two owners add a name at the same moment.     *)
(***************************************************************************)
EXTENDS Integers, FiniteSets

CONSTANTS
    Names,             \* what a row is known by, letter case apart
    NoName,            \* stands for no name
    Visitors,          \* the owners' browsers
    MaxRows            \* bound on the rows

ASSUME NoNameApart == NoName \notin Names
ASSUME MaxRowsNat  == MaxRows \in Nat

(***************************************************************************)
(* "searched": checklist items, a search before the insert and, of active  *)
(* rows, one after it, both over one snapshot. "indexed": hours, rooms,    *)
(* pieces and shifts have a unique index as well. It compares whole        *)
(* spellings: two owners who add one room in two letter cases are held     *)
(* apart by the search only, as if it were "searched". "constrained":      *)
(* roles, whose rule is checked by a constraint, over the same snapshot,   *)
(* when a row's name or archived mark is written.                          *)
(***************************************************************************)
Kinds == {"searched", "indexed", "constrained"}

VARIABLES
    kind,
    list,              \* the rows by id: [name, active]
    entry,             \* each visitor's request under way
    twins              \* history: names two visitors were adding at once

listVars == <<kind, list, entry, twins>>

NoEntry == [does |-> "nothing", name |-> NoName, row |-> 0, clash |-> FALSE,
            wasActive |-> TRUE, behind |-> FALSE]

Rows == {i \in 1..MaxRows : list[i].name # NoName}

ListTypeOK ==
    /\ kind  \in Kinds
    /\ list  \in [1..MaxRows -> [name : Names \cup {NoName}, active : BOOLEAN]]
    /\ entry \in [Visitors -> [does : {"nothing", "add", "archive"}, name : Names \cup {NoName},
                               row : 0..MaxRows, clash : BOOLEAN, wasActive : BOOLEAN,
                               behind : BOOLEAN]]
    /\ twins \subseteq Names
    /\ \A i \in 1..MaxRows : i \in Rows => 1..i \subseteq Rows

ListInit ==
    /\ kind \in Kinds
    /\ list  = [i \in 1..MaxRows |-> [name |-> NoName, active |-> TRUE]]
    /\ entry = [v \in Visitors |-> NoEntry]
    /\ twins = {}

\* Variant: the search does not look at archived rows.
TakenActive(n, except) == \E i \in Rows \ {except} : list[i].name = n /\ list[i].active

Taken(n, except) == \E i \in Rows \ {except} : list[i].name = n

Over(v) == entry' = [entry EXCEPT ![v] = NoEntry]

-----------------------------------------------------------------------------
(* Adding: roles_new, rooms_new, hours_new, pieces_new, shifts_new,        *)
(* checklists_new.                                                         *)

AddBegins(v, n) ==
    /\ entry[v] = NoEntry
    /\ entry' = [entry EXCEPT ![v] = [NoEntry EXCEPT !.does = "add", !.name = n,
                                                     !.clash = Taken(n, 0)]]
    /\ twins' = IF \E w \in Visitors : entry[w].does = "add" /\ entry[w].name = n
                                       /\ ~entry[w].clash
                THEN twins \cup {n} ELSE twins
    /\ UNCHANGED <<kind, list>>

\* Said in words, by the savepoint too for roles and hours; the index of the others
\* fails the whole request, with as little effect.
AddRefused(v) ==
    /\ entry[v].does = "add"
    /\ entry[v].clash \/ (kind = "indexed" /\ \E i \in Rows : list[i].name = entry[v].name)
    /\ Over(v) /\ UNCHANGED <<kind, list, twins>>

\* What the database allows to be inserted.
IndexAllows(n) == kind = "indexed" => \A i \in Rows : list[i].name # n

AddCommits(v) ==
    LET n == entry[v].name IN
    /\ entry[v].does = "add" /\ ~entry[v].clash /\ IndexAllows(n)
    /\ Cardinality(Rows) < MaxRows
    /\ list' = [list EXCEPT ![Cardinality(Rows) + 1].name = n]
    /\ Over(v) /\ UNCHANGED <<kind, twins>>

-----------------------------------------------------------------------------
(* Archiving and restoring: one button turns the mark.                     *)

TurnBegins(v, i) ==
    /\ entry[v] = NoEntry
    /\ entry' = [entry EXCEPT ![v] = [NoEntry EXCEPT
           !.does = "archive", !.row = i, !.wasActive = list[i].active,
           !.clash = kind = "constrained" /\ Taken(list[i].name, i)]]
    /\ UNCHANGED <<kind, list, twins>>

TurnCommits(v) ==
    LET e == entry[v] IN
    /\ e.does = "archive" /\ ~e.behind /\ ~e.clash
    /\ list'  = [list EXCEPT ![e.row].active = ~e.wasActive]
    /\ entry' = [w \in Visitors |->
           IF w = v THEN NoEntry
           ELSE [entry[w] EXCEPT !.behind = @ \/ entry[w].row = e.row]]
    /\ UNCHANGED <<kind, twins>>

\* The row was written since: the request runs again.
TurnAgain(v) ==
    LET i == entry[v].row IN
    /\ entry[v].does = "archive" /\ entry[v].behind
    /\ entry' = [entry EXCEPT ![v].behind = FALSE, ![v].wasActive = list[i].active,
                              ![v].clash = kind = "constrained" /\ Taken(list[i].name, i)]
    /\ UNCHANGED <<kind, list, twins>>

\* The constraint of a role that has a double refuses to archive either.
TurnFails(v) ==
    /\ entry[v].does = "archive" /\ ~entry[v].behind /\ entry[v].clash
    /\ Over(v) /\ UNCHANGED <<kind, list, twins>>

ListNext == \E v \in Visitors :
    \/ AddRefused(v) \/ AddCommits(v) \/ TurnCommits(v) \/ TurnAgain(v) \/ TurnFails(v)
    \/ \E n \in Names : AddBegins(v, n)
    \/ \E i \in Rows : TurnBegins(v, i)

ListSpec == ListInit /\ [][ListNext]_listVars

-----------------------------------------------------------------------------
(* Properties.                                                             *)

Doubles == {n \in Names : \E i, j \in Rows : i # j /\ list[i].name = n /\ list[j].name = n}

\* A name is on a list twice only if two owners were adding it at the same
\* moment, whatever has been archived and restored meanwhile.
DoubleNeedsOverlap == Doubles \subseteq twins

\* Nor even then where there is a unique index.
IndexedHasNoDouble == kind = "indexed" => Doubles = {}

\* A name stands twice in a list only where no index guards it and two owners
\* added it at the same moment.
ListsSingle == DoubleNeedsOverlap /\ IndexedHasNoDouble

=============================================================================
