SPECIFICATION FairSpec
CONSTANTS
    t1 = t1
    t2 = t2
    f = f
    g = g
    v0 = v0
    v1 = v1
    v2 = v2
    Tabs = {t1, t2}
    Fields = {f, g}
    Values = {v0, v1, v2}
    First = v0
    Entries <- MCEntries
    MaxPresses = 2
    MaxLost = 1
    None = None
INVARIANTS OverwritesOnlyWhatWasRead RefusedByOthersOnly
PROPERTIES ChangesSettle
CHECK_DEADLOCK FALSE
