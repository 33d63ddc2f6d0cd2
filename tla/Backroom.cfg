\* One booking and two closers, one customer with two bookings, two checklist items for two
\* days, and a full day with one offer for each customer and a legacy row in its line.
CONSTANTS
    Closers = {s, m}
    MayForce = {m}
    CallBacks = {not_sold, no_show}
    NoOutcome = none
    NoTask = notask
    NoClose = noclose
    MaxTasks = 2
    Visits = {b1, b2}
    Desks = {s, m}
    Items = {i, j}
    Boards = {s, m}
    LastDay = 1
    Phones = {ann, bea, old}
    Legacy = {old}
    Clerks = {clerk1, clerk2}
    Expirer = expirer
    Drainer = drainer
    MaxCandidates = 2
    Hours = 2
    MaxOffers = 1
    MaxCrashes = 0
SPECIFICATION BackroomSpec
SYMMETRY Alike
INVARIANTS BackroomTypeOK FollowUpsFit CategoryDerivedUnlessSkewed OneOfferPerDay OfferYieldsOneBooking
PROPERTIES OutcomesStand PokedOnceWhileOpen ChecklistKept DayPassesDownTheLine
CHECK_DEADLOCK FALSE
