\* A team of three on one card, two cards for two fitting rooms, three alterations for two women.
CONSTANTS
    Team = {a, b, c}
    FloorManagers = {a, b}
    Reachable = {a, c}
    Vacant = none
    WalkIns = {w}
    Visits = {v}
    Rooms = {r1, r2}
    NoRoom = none
    Stylists = {a, b}
    TaskCount = 3
    Women = {1, 2}
    Hands = {s, m}
    Nobody = nobody
    Unborn = unborn
    Delivered = out
SPECIFICATION FloorSpec
INVARIANTS FloorTypeOK SharedRoomNeedsOverlap NobodyIdleBesideWork
PROPERTIES CardInOrder QueueDiscipline
CHECK_DEADLOCK FALSE
