CONSTANTS
    p = p  v1 = v1  v2 = v2  f1 = f1  f2 = f2  t1 = t1  t2 = t2  t3 = t3
    Ids = {p}
    Versions = {v1, v2}
    Files = {f1}
    P = p
    Tasks = {t1, t2, t3}
    Plans <- Crossing
    MaxList = 2
    Kinds = {"offline", "replayed", "evicted", "unsaved", "stopped"}
    MaxMishaps = 1
SPECIFICATION Spec
CHECK_DEADLOCK FALSE
INVARIANTS TypeOK  FileIsWhole
PROPERTY SeenNeverFalls
