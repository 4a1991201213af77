SPECIFICATION CopySpec
CONSTANTS
    Cases = {c1, c2}
    Opened = {c1}
    Rows = {r1, r2}
    Hashes = {h1, h2}
    MaxAsks = 2
    MaxMishaps = 1
    None = None
SYMMETRY Symmetry
INVARIANTS CopyKept
CHECK_DEADLOCK FALSE
