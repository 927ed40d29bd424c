\* Two releases of an episode each, one place; the second turns out to hold no file for its own.
CONSTANTS
    e1 = e1
    e2 = e2
    Packs = {{e1}, {e2}}
    Missing = {e2}
    Concurrency = 1
    Seeding = {FALSE}
    Leaks = TRUE
    Restarts = 1
    MaxId = 2
    MaxFront = 1
SPECIFICATION FairSpec
INVARIANTS DoneIsOnDisk TorrentsAreWanted
PROPERTIES DownloadsSettle
