SPECIFICATION FairSpec
CONSTANTS
    Cases = {c1}
    Opened = {}
    Rows = {r1, r2}
    Hashes = {h1, h2}
    MaxAsks = 3
    MaxMishaps = 1
    None = None
INVARIANTS NamedIsHeld NothingUnnamedStays
PROPERTIES SentFiguresStay ActsEnd
CHECK_DEADLOCK FALSE
