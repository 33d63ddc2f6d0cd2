------------------------------ MODULE CardTeam ------------------------------
(***************************************************************************)
(* Who is serving one customer card of the floor board (modryn_staff): one *)
(* accountable primary and any number of helpers, in the order in which    *)
(* they joined. Cards do not share rows, so the module is about one card,  *)
(* a walk-in or a booking.                                                 *)
(*                                                                         *)
(* A manager's request is one REPEATABLE READ transaction: it reads its    *)
(* snapshot seen[m], and may write the card only if nobody updated it in   *)
(* the meantime (~stale[m]); otherwise the server runs it again.           *)
(***************************************************************************)
EXTENDS Integers, SequencesExt

CONSTANTS
    Team,            \* employees
    FloorManagers,   \* those of them who may assign
    Reachable,       \* those of them with a phone on file
    Vacant           \* no primary

ASSUME TeamManagers == FloorManagers \subseteq Team
ASSUME TeamPhones   == Reachable \subseteq Team
ASSUME VacantApart  == Vacant \notin Team
ASSUME TeamFinite   == IsFiniteSet(Team) /\ Team # {}

VARIABLES
    kind,            \* "queue" or "booking"
    row,             \* the committed card: state, primary and helper links
    asked,           \* the request each manager has in progress
    seen,            \* its snapshot of the card
    stale,           \* whether the card was updated since
    knows            \* history: the last employee who learned that the card is hers

teamVars == <<kind, row, asked, seen, stale, knows>>

States   == {"pending", "waiting", "called", "closed", "booked"}
Requests == [op : {"assign", "unassign"}, who : Team, primary : BOOLEAN]
Nothing  == [op |-> "idle", who |-> Vacant, primary |-> FALSE]

\* The snapshot of a manager who is not asking for anything.
Unread   == [state |-> "closed", primary |-> Vacant, helpers |-> << >>]

\* Everyone on the card.
People(r) == ({r.primary} \cup ToSet(r.helpers)) \ {Vacant}

TeamTypeOK ==
    /\ kind  \in {"queue", "booking"}
    /\ row   \in [state : States, primary : Team \cup {Vacant}, helpers : Seq(Team)]
    /\ Len(row.helpers) < Cardinality(Team)
    /\ asked \in [FloorManagers -> Requests \cup {Nothing}]
    /\ seen  \in [FloorManagers -> [state : States, primary : Team \cup {Vacant},
                                    helpers : Seq(Team)]]
    /\ stale \in [FloorManagers -> BOOLEAN]
    /\ knows \in Team \cup {Vacant}

TeamInit ==
    /\ kind  \in {"queue", "booking"}
    /\ \E s \in IF kind = "queue" THEN {"pending", "waiting"} ELSE {"booked"} :
          row = [state |-> s, primary |-> Vacant, helpers |-> << >>]
    /\ asked = [m \in FloorManagers |-> Nothing]
    /\ seen  = [m \in FloorManagers |-> Unread]
    /\ stale = [m \in FloorManagers |-> FALSE]
    /\ knows = Vacant

-----------------------------------------------------------------------------
(* What a request makes of the card it sees.                               *)

\* Variant: the new primary stays in the helper list.
Staying(helpers, e) == helpers

\* Helper links that stay keep their place; (3, e) takes e's, of which there is one, away.
Leaving(helpers, e) == RemoveFirst(helpers, e)

\* (4, e): a new link goes last, an old one stays where it is.
Joining(helpers, e) == IF e \in ToSet(helpers) THEN helpers ELSE Append(helpers, e)

\* Dropped where she already is: the board is returned and nothing is written.
AlreadyThere(r, q) ==
    \/ q.who = r.primary
    \/ q.who \in ToSet(r.helpers) /\ ~q.primary /\ r.primary # Vacant

\* The first on a card is its primary, and a swap demotes the old one to helper.
MakePrimary(r, q) ==
    LET rest == Leaving(r.helpers, q.who) IN
    [r EXCEPT !.primary = q.who,
              !.helpers = IF r.primary = Vacant THEN rest ELSE Joining(rest, r.primary)]

\* Assigning someone to a waiting walk-in calls the customer over.
CalledOver(r) ==
    IF kind = "queue" /\ r.state = "waiting" THEN [r EXCEPT !.state = "called"] ELSE r

Assigned(r, q) ==
    CalledOver(IF q.primary \/ r.primary = Vacant
               THEN MakePrimary(r, q)
               ELSE [r EXCEPT !.helpers = Joining(@, q.who)])

\* Variant: the helper who joined last.
Newest(r) == IF r.helpers = << >> THEN Vacant ELSE Last(r.helpers)

\* modryn_oldest_helper
Oldest(r) == IF r.helpers = << >> THEN Vacant ELSE Head(r.helpers)

Unassigned(r, q) ==
    IF q.who = r.primary
    THEN [r EXCEPT !.primary = Oldest(r), !.helpers = Leaving(@, Oldest(r))]
    ELSE [r EXCEPT !.helpers = Leaving(@, q.who)]

-----------------------------------------------------------------------------
(* Requests.                                                               *)

AskTeam(m) ==
    /\ asked[m] = Nothing
    /\ \E q \in Requests :
          /\ q.op = "unassign" => ~q.primary
          /\ asked' = [asked EXCEPT ![m] = q]
    /\ seen'  = [seen  EXCEPT ![m] = row]
    /\ stale' = [stale EXCEPT ![m] = FALSE]
    /\ UNCHANGED <<kind, row, knows>>

\* Requests that began before this write and have not ended may not write any more.
Overtake(m) == stale' = [w \in FloorManagers |-> w # m /\ asked[w] # Nothing]

EndTeam(m) ==
    /\ asked' = [asked EXCEPT ![m] = Nothing]
    /\ seen'  = [seen  EXCEPT ![m] = Unread]

AnswerBoard(m) ==
    /\ asked[m].op = "assign"
    /\ AlreadyThere(seen[m], asked[m])
    /\ EndTeam(m)
    /\ stale' = [stale EXCEPT ![m] = FALSE]
    /\ UNCHANGED <<kind, row, knows>>

Writes(m) ==
    /\ asked[m] # Nothing
    /\ asked[m].op = "assign" => ~AlreadyThere(seen[m], asked[m])

\* A new primary is texted if she has a phone; a manager who assigned herself is at
\* the screen, and gets no text. Without a phone nobody is told, and it is only logged.
Notify(m, r) ==
    IF r.primary \in {row.primary, Vacant} THEN knows
    ELSE IF r.primary \in Reachable \cup {m} THEN r.primary ELSE Vacant

SaveTeam(m) ==
    /\ Writes(m) /\ ~stale[m]
    /\ row' = IF asked[m].op = "assign" THEN Assigned(seen[m], asked[m])
                                        ELSE Unassigned(seen[m], asked[m])
    /\ knows' = Notify(m, row')
    /\ EndTeam(m)
    /\ Overtake(m)
    /\ UNCHANGED kind

\* A serialization failure: the request runs again on a new snapshot.
RunAgain(m) ==
    /\ Writes(m) /\ stale[m]
    /\ seen'  = [seen  EXCEPT ![m] = row]
    /\ stale' = [stale EXCEPT ![m] = FALSE]
    /\ UNCHANGED <<kind, row, asked, knows>>

\* The other handlers of the line move the walk-in on; a stale board can call a
\* ticket that is not let in yet or is done already.
Proceed(s) ==
    /\ kind = "queue"
    /\ s \in {"called", "closed"} \/ (s = "waiting" /\ row.state = "pending")
    /\ row'   = [row EXCEPT !.state = s]
    /\ stale' = [m \in FloorManagers |-> asked[m] # Nothing]
    /\ UNCHANGED <<kind, asked, seen, knows>>

TeamNext ==
    \/ \E m \in FloorManagers : AskTeam(m) \/ AnswerBoard(m) \/ SaveTeam(m) \/ RunAgain(m)
    \/ \E s \in States : Proceed(s)

TeamSpec == TeamInit /\ [][TeamNext]_teamVars

-----------------------------------------------------------------------------
(* Properties.                                                             *)

\* A card with people on it has a primary, whoever leaves while others join.
NotHeadless == row.helpers # << >> => row.primary # Vacant

\* Nobody is on a card twice: not primary and helper, not two links.
NobodyTwice == row.primary \notin ToSet(row.helpers) /\ IsInjective(row.helpers)

\* A primary with a phone has been told or was at the screen, however she came to be
\* primary; one without a phone nobody tells.
PrimaryKnows == row.primary \in Reachable => knows = row.primary

\* Nobody drops off a card unless a manager took exactly her off it.
NobodySlipsAway ==
    [][\A e \in People(row) \ People(row') :
          \E m \in FloorManagers : asked[m].op = "unassign" /\ asked[m].who = e]_teamVars

\* When the primary leaves, whoever has helped longest steps up.
LongestServingStepsUp ==
    [][row.primary \notin People(row') /\ row.helpers # << >>
          => row.primary = Vacant \/ row'.primary = Head(row.helpers)]_teamVars

\* The team of a card, whatever drops, swaps, removals and promotions met on it:
\* a removal takes off the one it names and promotes in the order of service, and
\* the card that remains has a primary, who knows if she can be told, and everybody once.
CardInOrder ==
    /\ NobodySlipsAway
    /\ LongestServingStepsUp
    /\ []NotHeadless
    /\ []NobodyTwice
    /\ []PrimaryKnows

=============================================================================
