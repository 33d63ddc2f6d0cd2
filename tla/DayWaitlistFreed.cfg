\* Two hours are freed while somebody holds the offer of the first.
CONSTANTS
    Phones = {ann, bea}
    Legacy <- NoneOld
    Clerks = {clerk}
    Expirer = expirer
    Drainer = drainer
    MaxCandidates = 2
    Hours = 2
    MaxOffers = 1
    MaxCrashes = 0
SPECIFICATION FairSpec
PROPERTY FreedHourOffered
