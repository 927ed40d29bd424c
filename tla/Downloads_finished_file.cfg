\* Two episodes of one release: a finished one keeps its file, as downloads/mod.rs says?
CONSTANTS
    e1 = e1
    e2 = e2
    Packs = {{e1, e2}}
    Missing = {}
    Concurrency = 2
    Seeding = {FALSE}
    Leaks = FALSE
    Restarts = 0
    MaxId = 3
    MaxFront = 0
SPECIFICATION Spec
PROPERTIES FinishedFileKept
