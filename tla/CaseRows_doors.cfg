SPECIFICATION FairSpec
CONSTANTS
    Analysts = {a, b}
    Rows = {1, 2, 3, 4}
    Existing = {1, 2, 3}
    Collections <- MCCollections
    CollectionOf <- MCCollectionOf
    Patches <- AllPatches
    Ops = {"update", "updateMany", "remove", "removeMany", "reorder", "create"}
    MaxVersion = 3
    MaxRequests = 1
    Absent = Absent
    None = None
INVARIANTS FeedTellsEveryVersion StoredRowsAreLegal ReordersQueue StaleScreenIsTold
PROPERTIES WritesOnlyWhatWasRead SelectionGoesWhole RequestsAreAnswered
CHECK_DEADLOCK FALSE
