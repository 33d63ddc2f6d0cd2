\* Two of each: browsers, owners, roles, names, fittings and closures of a date shifts, keys.
CONSTANTS
    Browsers = {x, y}
    MaxGuesses = 1
    MaxSends = 1
    MaxCodes = 3
    LastHour = 2
    Spellings = {e164, local}
    Variants = {e164, local}
    Normal = e164
    Hires = {e1, e2}
    Logins = {u, v}
    NoLogin = nobody
    Owners = {x, y}
    Jobs = {r1, r2}
    OldJobs = {r1}
    Pages = {p}
    DefaultPages = {p}
    Tabs = {x, y}
    Names = {m, n}
    NoName = noname
    Visitors = {x, y}
    MaxRows = 3
    LastTick = 5
    MaxCapacityTyped = 2
    MaxFittings = 3
    DayFittings = {e, f}
    ClosureRows = {c, d}
    NoRow = norow
    Shifts = {s, t}
    Workers = {w}
    Pens = {x, y}
    NoShift = noshift
    TableKinds = {"bookings", "offers", "tickets", "checklists"}
    Keys = {k, l}
    Numbers = {k}
    MaxTableRows = 3
SPECIFICATION OfficeSpec
INVARIANTS OfficeTypeOK AccountsFit ListsSingle DarkShopIsExcused RotaHolds
PROPERTIES SignInHolds SavesAreLocal WindowsHold DeployIsSound
CHECK_DEADLOCK FALSE
