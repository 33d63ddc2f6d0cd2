\* Three requests of two customers for an hour of up to two seats; no symmetry, since the ledger's mapping chooses among requests.
CONSTANTS
    r1 = r1
    r2 = r2
    r3 = r3
    p1 = p1
    p2 = p2
    Requests <- Trio
    Phones <- TwoPhones
    PhoneOf <- TrioPhone
    MaxCapacity = 2
    Nobody = Nobody
SPECIFICATION FairSpec
INVARIANTS OneBrideASeat NeverOverbooked HonestRefusal NoOrphanCard
PROPERTIES ImplementsLedger EveryRequestAnswered
CHECK_DEADLOCK FALSE
