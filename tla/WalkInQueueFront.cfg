\* The front of the line when nothing is going on.
CONSTANTS
    v1 = v1
    v2 = v2
    v3 = v3
    m1 = m1
    m2 = m2
    p1 = p1
    p2 = p2
    Visits <- Trio
    PhoneOf <- TrioPhone
    Parked <- OneParked
    Managers <- Pair
    Closer = closer
    Workers = 2
SPECIFICATION Spec
INVARIANT FrontIsTold
CHECK_DEADLOCK FALSE
