SPECIFICATION PresenceFairSpec
CONSTANTS
    c1 = c1
    c2 = c2
    p1 = p1
    p2 = p2
    Peers = {c1, c2}
    Editors = {c1, c2}
    Rows = {r}
    Servers = {p1, p2}
    ServerOf <- MCServerOf
    MaxFrames = 2
    MaxLevels = 1
    MaxFaults = 1
    Nil = Nil
PROPERTIES LivingClaimsStay GoneIsForgotten BelowWriteYields
CHECK_DEADLOCK FALSE
