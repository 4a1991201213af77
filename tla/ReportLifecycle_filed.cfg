SPECIFICATION Spec
CONSTANTS
    Analysts = {a, b, c}
    Reports = {1, 2, 3}
    Parts = {1, 2, 3}
    Sections = {"summary", "impact"}
    Layouts = {"blank", "nis2"}
    RequiredBy <- MCRequiredBy
    FirstReports <- MCFirstReports
    FirstParts <- MCFirstParts
    Ops = {"edit", "remove", "add", "label", "delete", "send", "supersede", "restore"}
    MaxRequests = 3
    None = None
    Unborn = Unborn
    Gone = Gone
INVARIANTS PartsKept DeadlocksNeedADelete
PROPERTIES SentIsFiled RestoresOnce
CHECK_DEADLOCK FALSE
