------------------------------- MODULE MCOffice -------------------------------
(***************************************************************************)
(* The owner's office and the customer's sign-in, for TLC: eight components*)
(* side by side. Each behaviour is of one of them, and the others stand    *)
(* still in one initial state.                                             *)
(***************************************************************************)
EXTENDS Codes, StaffAccounts, AccessMatrix, OwnerLists, OpeningWindows,
        Closures, Roster, SchemaGuards

VARIABLE corner    \* the component whose behaviour this is

officeVars == <<corner, codeVars, staffVars, accessVars, listVars,
                windowVars, closureVars, rosterVars, guardVars>>

OfficeInit ==
    /\ corner \in {"codes", "staff", "access", "lists", "windows",
                    "closures", "roster", "deploy"}
    /\ CodeInit
    /\ StaffInit
    /\ AccessInit
    /\ ListInit
    /\ corner # "lists" => kind = "searched"
    /\ WindowInit
    /\ corner # "windows" => windows = {}
    /\ ClosureInit
    /\ corner # "closures" => \A f \in DayFittings : fit[f].part = "day"
    /\ RosterInit
    /\ GuardInit
    /\ corner # "deploy" => table = "bookings" /\ records = << >> /\ index = "none"

\* Nothing but one component moves.
Only(name) ==
    /\ UNCHANGED corner
    /\ IF name = "codes"    THEN TRUE ELSE UNCHANGED codeVars
    /\ IF name = "staff"    THEN TRUE ELSE UNCHANGED staffVars
    /\ IF name = "access"   THEN TRUE ELSE UNCHANGED accessVars
    /\ IF name = "lists"    THEN TRUE ELSE UNCHANGED listVars
    /\ IF name = "windows"  THEN TRUE ELSE UNCHANGED windowVars
    /\ IF name = "closures" THEN TRUE ELSE UNCHANGED closureVars
    /\ IF name = "roster"   THEN TRUE ELSE UNCHANGED rosterVars
    /\ IF name = "deploy"   THEN TRUE ELSE UNCHANGED guardVars

OfficeNext ==
    \/ corner = "codes"    /\ CodeNext    /\ Only("codes")
    \/ corner = "staff"    /\ StaffNext   /\ Only("staff")
    \/ corner = "access"   /\ AccessNext  /\ Only("access")
    \/ corner = "lists"    /\ ListNext    /\ Only("lists")
    \/ corner = "windows"  /\ WindowNext  /\ Only("windows")
    \/ corner = "closures" /\ ClosureNext /\ Only("closures")
    \/ corner = "roster"   /\ RosterNext  /\ Only("roster")
    \/ corner = "deploy"   /\ GuardNext   /\ Only("deploy")

OfficeSpec == OfficeInit /\ [][OfficeNext]_officeVars

\* The types of all of them.
OfficeTypeOK ==
    /\ CodeTypeOK
    /\ StaffTypeOK
    /\ AccessTypeOK
    /\ ListTypeOK
    /\ WindowTypeOK
    /\ ClosureTypeOK
    /\ RosterTypeOK
    /\ GuardTypeOK

===============================================================================
