\* An owner who hires two people and edits them.
CONSTANTS
    Hires = {e1, e2}
    Logins = {u, v}
    NoLogin = nobody
    Owners = {x}
SPECIFICATION StaffSpec
INVARIANT OnlyOwnersAreInternal
CHECK_DEADLOCK FALSE
