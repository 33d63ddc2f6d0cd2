\* Three visits, two of them with one number; the third may be a ticket left pending.
CONSTANTS
    v1 = v1
    v2 = v2
    v3 = v3
    m1 = m1
    m2 = m2
    p1 = p1
    p2 = p2
    Visits <- Trio
    PhoneOf <- TrioPhone
    Parked <- OneParked
    Managers <- Pair
    Closer = closer
    Workers = 2
SPECIFICATION Spec
SYMMETRY Twins
INVARIANTS OneOpenTicket TextsOnce
PROPERTY PromotedIsTold
CHECK_DEADLOCK FALSE
