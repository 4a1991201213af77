\* Two servers, two requests at once, one server stopping; claims, account
\* acts and a trail delivered and pruned; and beside an account act or none,
\* a directory of two customers and the default one in which two requests at
\* a time merge, remove, hold, grant and move cases.
CONSTANTS
    Servers = {"s1", "s2"}
    MaxRequests = 2
    Accounts = {"a", "b"}
    Installs <- MCInstalls
    Batch = 2
    MaxLines = 3
    Customers = {"d", "x", "y"}
    Default = "d"
    Groups = {"g", "h"}
    Cases = {"k1", "k2"}
    RefOf <- MCRefOf
    None = "-"
    Granted = {0, 3}
    Directories <- MCDirectories
SPECIFICATION ReachSpec
INVARIANT AccountsKept
INVARIANT LinesTellTheAccounts
INVARIANT PrunesKept
INVARIANT DirectoryKept
INVARIANT WhoLosesReachIsTold
PROPERTY OnlyAdministratorsChange
PROPERTY WorkIsDone
PROPERTY MergeMovesReach
CHECK_DEADLOCK FALSE
