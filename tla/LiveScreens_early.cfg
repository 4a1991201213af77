SPECIFICATION Spec
CONSTANTS
    Screens = {s}
    MaxWrites = 1
    MaxDrops = 0
    MaxFails = 0
    None = None
INVARIANTS CurrentOrTold
CHECK_DEADLOCK FALSE
