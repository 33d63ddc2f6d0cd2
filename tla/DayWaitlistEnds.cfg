\* Customers who come back for a second offer, and offers that end although a worker
\* may be recycled in the middle of ending one.
CONSTANTS
    Phones = {ann, bea}
    Legacy <- NoneOld
    Clerks = {clerk}
    Expirer = expirer
    Drainer = drainer
    MaxCandidates = 2
    Hours = 1
    MaxOffers = 2
    MaxCrashes = 1
SPECIFICATION FairSpec
PROPERTIES DayPassesDownTheLine EveryOfferEnds
