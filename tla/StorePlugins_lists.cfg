CONSTANTS
    p = p  v1 = v1  v2 = v2  f1 = f1  f2 = f2  f3 = f3
    u1 = u1  u2 = u2  u3 = u3  r1 = r1  r2 = r2  r3 = r3  r4 = r4
    Ids = {p}
    Versions = {v1, v2}
    Files = {f1, f2, f3}
    Uploads = {u1, u2, u3}
    Parts = {1}
    Plugin <- EachOnce
    Requests = {r1, r2, r3, r4}
    Asks <- AsksOnce
    MaxFailures = 1
SPECIFICATION Spec
CHECK_DEADLOCK FALSE
INVARIANTS TypeOK 
PROPERTY KeepsTheList
