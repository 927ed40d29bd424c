\* Two drains of one tracker overlap, and marks are taken back.
CONSTANTS
    t1 = t1
    x1 = x1
    k1 = k1
    k2 = k2
    a1 = a1
    NoAccount = NoAccount
    NoPlay = NoPlay
    Trackers = {t1}
    Titles = {x1}
    Accounts = {a1}
    Tasks = {k1, k2}
    Catalogues = {{x1}}
    MaxEpisode = 2
    MaxEdits = 1
    MaxId = 2
    MaxAttempts = 2
    Batch = 1
    CanUnmark = TRUE
    Elsewhere = {}
SPECIFICATION Spec
SYMMETRY Symmetry
INVARIANTS TypeOK MemoryIsHeard
PROPERTIES  QueueNeverWalksBack
