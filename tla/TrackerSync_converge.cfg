\* One drain at a time; the service matches the title, or answers and does not apply it.
CONSTANTS
    t1 = t1
    x1 = x1
    k1 = k1
    a1 = a1
    NoAccount = NoAccount
    NoPlay = NoPlay
    Trackers = {t1}
    Titles = {x1}
    Accounts = {a1}
    Tasks = {k1}
    Catalogues = {{x1}, {}}
    MaxEpisode = 2
    MaxEdits = 0
    MaxId = 2
    MaxAttempts = 2
    Batch = 1
    CanUnmark = FALSE
    Elsewhere = {1, 2}
SPECIFICATION FairSpec
 
PROPERTIES ListedTitleConverges QueueComesToRest
