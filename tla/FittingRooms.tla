---------------------------- MODULE FittingRooms ----------------------------
(***************************************************************************)
(* Which customer card stands in which fitting room (modryn_staff). Cards  *)
(* are walk-ins and bookings, two tables that share one pool of rooms; a   *)
(* room is occupied by an open card only, and nothing frees it.            *)
(*                                                                         *)
(* Rooms are given by REPEATABLE READ transactions: the check reads the    *)
(* snapshot taken when the request began, and only a card's own row is     *)
(* protected against concurrent writes. No index protects the room.        *)
(***************************************************************************)
EXTENDS FiniteSets

CONSTANTS
    WalkIns, Visits,   \* the cards: walk-ins, and bookings
    Rooms, NoRoom,
    Stylists           \* members of staff giving rooms, each at her own screen

ASSUME CardsApart  == WalkIns \cap Visits = {}
ASSUME NoRoomApart == NoRoom \notin Rooms \cup WalkIns \cup Visits

VARIABLES
    stage,             \* the state of each card
    room,              \* the room of each card
    asks,              \* the request of each stylist, a card and a room
    view,              \* what its check sees: is the card open, who is in the room
    lost,              \* her card was written by somebody else since
    unchecked,         \* history: open cards that came to be open with their room on them
    behind             \* history: who was in the room behind the check of each card

roomVars == <<stage, room, asks, view, lost, unchecked, behind>>

Cards  == WalkIns \cup Visits
Free   == [card |-> NoRoom, room |-> NoRoom]
Asks   == [card : Cards, room : Rooms \cup {NoRoom}]
Unseen == [open |-> FALSE, rivals |-> {}]

\* A walk-in is open while waiting or called, a booking until it is cancelled
\* or over.
RoomTypeOK ==
    /\ stage \in [Cards -> {"pending", "open", "over", "closed"}]
    /\ room  \in [Cards -> Rooms \cup {NoRoom}]
    /\ asks  \in [Stylists -> Asks \cup {Free}]
    /\ view  \in [Stylists -> [open : BOOLEAN, rivals : SUBSET Cards]]
    /\ lost  \in [Stylists -> BOOLEAN]
    /\ unchecked \subseteq Cards
    /\ behind \in [Cards -> SUBSET Cards]

RoomInit ==
    /\ stage \in {s \in [Cards -> {"pending", "open"}] : \A c \in Visits : s[c] = "open"}
    /\ room  = [c \in Cards |-> NoRoom]
    /\ asks  = [w \in Stylists |-> Free]
    /\ view  = [w \in Stylists |-> Unseen]
    /\ lost  = [w \in Stylists |-> FALSE]
    /\ unchecked = {}
    /\ behind = [c \in Cards |-> {}]

-----------------------------------------------------------------------------
(* The check.                                                              *)

\* Variant: the rival is looked for among the walk-ins only.
WalkInsIn(r) == {d \in WalkIns : room[d] = r /\ stage[d] = "open"}

\* The open cards in a room, over both models.
OpenIn(r) == {d \in Cards : room[d] = r /\ stage[d] = "open"}

Sight(q) == [open   |-> stage[q.card] = "open",
             rivals |-> IF q.room = NoRoom THEN {} ELSE OpenIn(q.room) \ {q.card}]

\* That an appointment is over the code learns from the clock, not from the row.
Collides(w) ==
    /\ view[w].open /\ stage[asks[w].card] # "over"
    /\ \E d \in view[w].rivals : stage[d] # "over"

-----------------------------------------------------------------------------
(* The room route.                                                         *)

AskRoom(w) ==
    /\ asks[w] = Free
    /\ \E q \in Asks : /\ asks' = [asks EXCEPT ![w] = q]
                       /\ view' = [view EXCEPT ![w] = Sight(q)]
    /\ UNCHANGED <<stage, room, lost, unchecked, behind>>

Leave(w) ==
    /\ asks' = [asks EXCEPT ![w] = Free]
    /\ view' = [view EXCEPT ![w] = Unseen]

\* w writes card c: other requests in progress on the same card have lost it.
Losing(c, w) ==
    lost' = [s \in Stylists |-> s # w /\ (lost[s] \/ asks[s].card = c)]

GiveRoom(w) ==
    LET c == asks[w].card  r == asks[w].room IN
    /\ asks[w] # Free /\ ~lost[w] /\ ~Collides(w)
    /\ room' = [room EXCEPT ![c] = r]
    /\ unchecked' = unchecked \ {c}
    /\ behind' = [behind EXCEPT ![c] = IF r = NoRoom THEN {}
                                       ELSE OpenIn(r) \ ({c} \cup view[w].rivals)]
    /\ Losing(c, w)
    /\ Leave(w)
    /\ UNCHANGED stage

\* The savepoint takes the rejected write back, and the board shows the message.
RefuseRoom(w) ==
    /\ asks[w] # Free /\ Collides(w)
    /\ Leave(w)
    /\ lost' = [lost EXCEPT ![w] = FALSE]
    /\ UNCHANGED <<stage, room, unchecked, behind>>

\* A serialization failure on the card: the request runs again.
AskRoomAgain(w) ==
    /\ lost[w]
    /\ view' = [view EXCEPT ![w] = Sight(asks[w])]
    /\ lost' = [lost EXCEPT ![w] = FALSE]
    /\ UNCHANGED <<stage, room, asks, unchecked, behind>>

\* Card c, written with state s, is open with a room it brought along, which no check saw.
BringsRoom(c, s) ==
    s = "open" /\ room[c] # NoRoom /\ (stage[c] # "open" \/ c \in unchecked)

\* The handlers of the line and of the bookings write the card. Those of the line
\* write the state whatever it was: a board that still shows a finished ticket as
\* waiting calls it again, and the room is still on it.
CardMoves(c) ==
    /\ c \in WalkIns \/ stage[c] = "open"
    /\ \E s \in {"open", "closed"} :
          /\ stage' = [stage EXCEPT ![c] = s]
          /\ unchecked' = IF BringsRoom(c, s) THEN unchecked \cup {c} ELSE unchecked \ {c}
    /\ lost' = [w \in Stylists |-> lost[w] \/ asks[w].card = c]
    /\ UNCHANGED <<room, asks, view, behind>>

\* The time of an appointment passes.
VisitEnds(c) ==
    /\ stage[c] = "open"
    /\ stage' = [stage EXCEPT ![c] = "over"]
    /\ UNCHANGED <<room, asks, view, lost, unchecked, behind>>

RoomNext ==
    \/ \E w \in Stylists : AskRoom(w) \/ GiveRoom(w) \/ RefuseRoom(w) \/ AskRoomAgain(w)
    \/ \E c \in Cards : CardMoves(c)
    \/ \E c \in Visits : VisitEnds(c)

RoomSpec == RoomInit /\ [][RoomNext]_roomVars

-----------------------------------------------------------------------------
(* Properties.                                                             *)

\* Two open cards share a room.
Share(c, d) ==
    /\ c # d /\ stage[c] = "open" /\ stage[d] = "open"
    /\ room[c] = room[d] /\ room[c] # NoRoom

\* The check lets two customers into one room in exactly two ways: one of them
\* came to be open with the room already on her card, which checks nothing (let
\* into the line after she got it, or called again after she was done), or the
\* two requests overlapped and a check read a snapshot without the other.
SharedRoomNeedsOverlap ==
    \A c, d \in Cards :
        Share(c, d) => \/ unchecked \cap {c, d} # {}
                       \/ d \in behind[c] \/ c \in behind[d]

=============================================================================
