------------------------------- MODULE Roster -------------------------------
(***************************************************************************)
(* One day of the rota of a week (modryn_roster): the owner's shift        *)
(* templates are made into slots by whoever looks at the page, staff offer *)
(* to work, the manager fills and publishes. The published rota flags who  *)
(* is off on the floor board and caps the fittings /book sells.            *)
(*                                                                         *)
(* Every request first reads what it is about, and ends by making the      *)
(* slots that are missing; all of it is one transaction over a snapshot.   *)
(***************************************************************************)
EXTENDS Integers, FiniteSets

CONSTANTS
    Shifts,            \* the owner's templates of that weekday
    Workers,
    Pens,              \* the browsers
    NoShift            \* stands for no shift

ASSUME NoShiftApart == NoShift \notin Shifts

VARIABLES
    template,          \* "none", "active" or "archived"
    slot,              \* "none", "open" or "published"
    working,           \* employee_ids of each slot
    offer,             \* modryn.availability, by slot
    offFloor,          \* archived, or at a level that does not work the floor
    request,           \* what each browser is doing
    atPublication,     \* history: the offers when the slot was first published
    crossed,           \* history: slots published while an offer on them was made
    unseen             \* history: slots made once a publisher had begun

rosterVars == <<template, slot, working, offer, offFloor, request, atPublication, crossed, unseen>>

NoRequest == [does |-> "nothing", on |-> NoShift, who |-> {}, found |-> {}, lacks |-> {},
              behind |-> {}]

RosterTypeOK ==
    /\ template \in [Shifts -> {"none", "active", "archived"}]
    /\ slot     \in [Shifts -> {"none", "open", "published"}]
    /\ working  \in [Shifts -> SUBSET Workers]
    /\ offer    \in [Shifts -> SUBSET Workers]
    /\ offFloor     \subseteq Workers
    /\ \A p \in Pens :
           /\ request[p].does \in {"nothing", "view", "offer", "withdraw", "assign", "publish"}
           /\ request[p].on \in Shifts \cup {NoShift}
           /\ request[p].who \subseteq Workers
           /\ \A f \in {"found", "lacks", "behind"} : request[p][f] \subseteq Shifts
    /\ atPublication \in [Shifts -> SUBSET Workers]
    /\ crossed \subseteq Shifts /\ unseen \subseteq Shifts

RosterInit ==
    /\ template = [s \in Shifts |-> "none"]
    /\ slot     = [s \in Shifts |-> "none"]
    /\ working  = [s \in Shifts |-> {}]
    /\ offer    = [s \in Shifts |-> {}]
    /\ offFloor = {} /\ crossed = {} /\ unseen = {}
    /\ request  = [p \in Pens |-> NoRequest]
    /\ atPublication = [s \in Shifts |-> {}]

Slots     == {s \in Shifts : slot[s] # "none"}
Published == {s \in Shifts : slot[s] = "published"}

-----------------------------------------------------------------------------
(* The owner and the staff list.                                           *)

\* shifts_new, shifts_archive: the slots that are there stay.
TurnTemplate(s) ==
    /\ template' = [template EXCEPT ![s] = IF @ = "active" THEN "archived" ELSE "active"]
    /\ UNCHANGED <<slot, working, offer, offFloor, request, atPublication, crossed, unseen>>

LeaveFloor(w) ==
    /\ w \notin offFloor
    /\ offFloor' = offFloor \cup {w}
    /\ UNCHANGED <<template, slot, working, offer, request, atPublication, crossed, unseen>>

-----------------------------------------------------------------------------
(* A request begins: what it read.                                         *)

\* The slots modryn_ensure_week will make: active templates without one.
Lacking == {s \in Shifts : template[s] = "active" /\ slot[s] = "none"}

Begin(p, does, on, who, found) ==
    /\ request[p] = NoRequest
    /\ request' = [request EXCEPT ![p] = [does |-> does, on |-> on, who |-> who,
                       found |-> found, lacks |-> Lacking, behind |-> {}]]
    /\ UNCHANGED <<template, slot, working, offer, offFloor, atPublication, crossed, unseen>>

ViewBegins(p) == Lacking # {} /\ Begin(p, "view", NoShift, {}, {})

\* Variant: whether the week is published is not asked.
OffersAlways(s) == slot[s] # "none"

\* Refused in words when the slot is published.
OffersOpen(s) == slot[s] = "open"

\* modryn_toggle: her offer is taken back if there is one.
ToggleBegins(p, s, w) ==
    /\ OffersOpen(s)
    /\ Begin(p, IF w \in offer[s] THEN "withdraw" ELSE "offer", s, {w}, {})

\* modryn_set_working, for whomever the page sent.
AssignBegins(p, s, w) ==
    /\ slot[s] # "none"
    /\ Begin(p, "assign", s, {w}, {})

\* roster.py: all slots of the week.
Publishable == Slots

PublishBegins(p) == Slots # {} /\ Begin(p, "publish", NoShift, {}, Publishable)

-----------------------------------------------------------------------------
(* A request commits, fails or runs again.                                 *)

\* The slots whose rows it writes.
Writes(r) == IF r.does = "assign" THEN {r.on} ELSE r.found

\* The offer it deletes was deleted, or a row it writes was written, since.
Outrun(r) == \/ Writes(r) \cap r.behind # {}
             \/ r.does = "withdraw" /\ r.who \cap offer[r.on] = {}

\* A unique index speaks: the offer, or a slot it would make, is there by now.
Collides(r) == \/ r.does = "offer" /\ r.who \cap offer[r.on] # {}
               \/ r.lacks \cap Slots # {}

Answered(p) == request' = [request EXCEPT ![p] = NoRequest]

RequestAgain(p) ==
    /\ request[p] # NoRequest /\ Outrun(request[p])
    /\ Answered(p)
    /\ UNCHANGED <<template, slot, working, offer, offFloor, atPublication, crossed, unseen>>

RequestFails(p) ==
    /\ request[p] # NoRequest /\ ~Outrun(request[p]) /\ Collides(request[p])
    /\ Answered(p)
    /\ UNCHANGED <<template, slot, working, offer, offFloor, atPublication, crossed, unseen>>

\* The slots made at the end are not published, whatever the week is.
RequestCommits(p) ==
    LET r == request[p] IN
    /\ r # NoRequest /\ ~Outrun(r) /\ ~Collides(r)
    /\ slot' = [s \in Shifts |-> IF s \in r.found THEN "published"
                                 ELSE IF s \in r.lacks THEN "open" ELSE slot[s]]
    /\ offer' = [s \in Shifts |->
           IF s # r.on THEN offer[s]
           ELSE IF r.does = "offer"    THEN offer[s] \cup r.who
           ELSE IF r.does = "withdraw" THEN offer[s] \ r.who ELSE offer[s]]
    /\ \/ r.does = "assign"
          /\ \E on \in BOOLEAN : working' = [working EXCEPT ![r.on] =
                                                IF on THEN @ \cup r.who ELSE @ \ r.who]
       \/ r.does # "assign" /\ UNCHANGED working
    /\ request' = [q \in Pens |->
           IF q = p \/ request[q] = NoRequest THEN NoRequest
           ELSE [request[q] EXCEPT !.behind = @ \cup (Writes(r) \cap Writes(request[q]))]]
    /\ atPublication' = [s \in Shifts |-> IF s \in r.found /\ slot[s] = "open"
                                          THEN offer[s] ELSE atPublication[s]]
    /\ crossed' = crossed \cup {s \in r.found : \E q \in Pens :
                      request[q].does \in {"offer", "withdraw"} /\ request[q].on = s}
    /\ unseen' = IF Published # {} \/ \E q \in Pens : request[q].does = "publish"
                 THEN unseen \cup r.lacks ELSE unseen
    /\ UNCHANGED <<template, offFloor>>

RosterNext ==
    \/ \E s \in Shifts  : TurnTemplate(s)
    \/ \E w \in Workers : LeaveFloor(w)
    \/ \E p \in Pens :
           \/ ViewBegins(p) \/ PublishBegins(p)
           \/ RequestCommits(p) \/ RequestFails(p) \/ RequestAgain(p)
           \/ \E s \in Shifts, w \in Workers : ToggleBegins(p, s, w) \/ AssignBegins(p, s, w)

RosterSpec == RosterInit /\ [][RosterNext]_rosterVars

-----------------------------------------------------------------------------
(* Who reads the rota: modryn_rostered_on for the board, modryn_daily_caps *)
(* for /book. Nobody stands for None, a day the rota says nothing about.   *)

Rostered == UNION {working[s] : s \in Published}

Capping == (UNION {working[s] : s \in Published}) \ offFloor

\* The board's flag, off the rota today: nobody is when the rota says nothing.
OffRota(w) == Rostered # {} /\ w \notin Rostered

\* The shifts on her own page.
ShiftsToday(w) == {s \in Published : w \in working[s]}

-----------------------------------------------------------------------------
(* Properties.                                                             *)

\* The readers of the rota agree: whoever /book counts is on the floor, has a
\* shift on her own page and is not flagged on the board, and whoever is flagged
\* has none.
CapAgreesWithBoard ==
    /\ \A w \in Capping : w \notin offFloor /\ ShiftsToday(w) # {} /\ ~OffRota(w)
    /\ \A w \in Workers : OffRota(w) => ShiftsToday(w) = {}

\* Publication freezes the week: offers on a published slot are those of the
\* moment it was published, unless an offer was on its way at that moment.
PublicationFreezes ==
    \A s \in Published \ crossed : offer[s] = atPublication[s]

\* The whole week is published at once: a slot beside published ones is open
\* only if it was made after the publisher had begun.
OpenSlotWasUnseen ==
    Published # {} => Slots \ Published \subseteq unseen

\* The week of the rota: all its readers count alike, what is published stays
\* as the team saw it, and it is left half open only by a slot the publisher
\* could not see.
RotaHolds == CapAgreesWithBoard /\ PublicationFreezes /\ OpenSlotWasUnseen

=============================================================================
