\* Two episodes of one release, two places, and a third row id for what is asked for again.
CONSTANTS
    e1 = e1
    e2 = e2
    Packs = {{e1, e2}}
    Missing = {}
    Concurrency = 2
    Seeding = {TRUE, FALSE}
    Leaks = FALSE
    Restarts = 0
    MaxId = 3
    MaxFront = 1
SPECIFICATION Spec
SYMMETRY Symmetry
INVARIANTS TypeOK PlacesKept ActiveIsManaged
