\* Two texts, two calls of a stylist to her manager, two fittings to be reminded of.
CONSTANTS
    Texts = {t1, t2}
    Batch = 1
    MaxAttempts = 3
    MaxLost = 1
    Nothing = nothing
    Crew = {a, b}
    Chiefs = {b}
    Callers = {a}
    Called = {b}
    Anybody = any
    Screens = {s1, s2}
    Cries = {card}
    MaxCalls = 2
    Fittings = {e, f}
    LastQuarter = 4
    MaxRollbacks = 1
SPECIFICATION SignalsSpec
INVARIANTS SignalsTypeOK LossesAccounted
PROPERTIES EveryTextSettles AnswersStand UnansweredReachesManagers ReminderKept
CHECK_DEADLOCK FALSE
