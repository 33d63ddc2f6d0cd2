------------------------------- MODULE MCFloor --------------------------------
(***************************************************************************)
(* The floor and the workshop for TLC: the team of a card, the fitting     *)
(* rooms and the alterations rail side by side. They share no state, so    *)
(* each behaviour is of one of them, and the others stand still.           *)
(***************************************************************************)
EXTENDS CardTeam, FittingRooms, Workshop

VARIABLE corner    \* the component whose behaviour this is

floorVars == <<corner, teamVars, roomVars, shopVars>>

FloorInit ==
    /\ corner \in {"team", "rooms", "rail"}
    /\ TeamInit
    /\ corner # "team" => kind = "queue" /\ row.state = "waiting"
    /\ RoomInit
    /\ corner # "rooms" => stage = [c \in Cards |-> "open"]
    /\ ShopInit

\* Nothing but one component moves.
Only(name) ==
    /\ UNCHANGED corner
    /\ IF name = "team"  THEN TRUE ELSE UNCHANGED teamVars
    /\ IF name = "rooms" THEN TRUE ELSE UNCHANGED roomVars
    /\ IF name = "rail"  THEN TRUE ELSE UNCHANGED shopVars

FloorNext ==
    \/ corner = "team"  /\ TeamNext /\ Only("team")
    \/ corner = "rooms" /\ RoomNext /\ Only("rooms")
    \/ corner = "rail"  /\ ShopNext /\ Only("rail")

FloorSpec == FloorInit /\ [][FloorNext]_floorVars

\* The types of all of them.
FloorTypeOK ==
    /\ TeamTypeOK
    /\ RoomTypeOK
    /\ ShopTypeOK

===============================================================================
