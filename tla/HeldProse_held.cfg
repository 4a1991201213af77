SPECIFICATION ProseFairSpec
CONSTANTS
    Conns = {c1, c2}
    WriterOf <- AllOfOne
    Sends = {s1, s2}
    Words = {w1, w2}
    MaxDocs = 2
    MaxFails = 1
    MaxAsks = 3
    Nil = Nil
INVARIANTS DocumentsKept SentHoldsWhatWasTaken SureWordsAreKept
PROPERTIES NothingWaitsForEver
CHECK_DEADLOCK FALSE
