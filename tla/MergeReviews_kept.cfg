SPECIFICATION Spec
CONSTANTS
    Analysts = {"a", "b"}
    Sessions = {"a1", "a2", "b1"}
    OwnerOf <- TwoTabs
    Rows = {r1, r2}
    Fields = {"f", "g"}
    Texts = {"x", "y", "z"}
    Blank = "x"
    Forms <- TwoFieldForms
    Ops = {"save", "remove", "pending", "resolve"}
    MaxVersion = 3
    MaxRequests <- Requests
    Absent = Absent
SYMMETRY Symmetry
INVARIANTS RefusedEditIsKept
PROPERTIES MineIsWrittenBeforeItIsDropped
CHECK_DEADLOCK FALSE
