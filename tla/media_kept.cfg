SPECIFICATION Spec
CONSTANTS
    r1 = r1
    r2 = r2
    Desks = {"trio", "bundle of two", "recap"}
    Starts <- MCStarts
    Resembles <- MCResembles
    Changes <- MCChanges
    MaxAnime = 4
INVARIANT MediaKept
CHECK_DEADLOCK FALSE
