\* One call of a stylist to her colleague, and the cron that takes it to the managers.
CONSTANTS
    Crew = {a, b, c}
    Chiefs = {c}
    Callers = {a}
    Called = {b}
    Anybody = any
    Screens = {s1, s2}
    Cries = {card}
    MaxCalls = 1
SPECIFICATION SosFairSpec
PROPERTY ColleagueStillSees
CHECK_DEADLOCK FALSE
