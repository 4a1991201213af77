SPECIFICATION FairSpec
CONSTANTS
    Screens = {s}
    MaxWrites = 1
    MaxDrops = 2
    MaxFails = 1
    None = None
INVARIANTS RoomsKept JoinedIsTold
PROPERTIES BehindUntilRead ScreensCatchUp
CHECK_DEADLOCK FALSE
