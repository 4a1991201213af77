SPECIFICATION ProseSpec
CONSTANTS
    Conns = {c1, c2}
    WriterOf <- EachTheirOwn
    Sends = {}
    Words = {w1, w2}
    MaxDocs = 2
    MaxFails = 0
    MaxAsks = 2
    Nil = Nil
INVARIANTS WordsAreKeptOrTold
CHECK_DEADLOCK FALSE
