SPECIFICATION Spec
CONSTANTS
    app = app
    terminal = terminal
    c1 = c1
    c2 = c2
    c3 = c3
    Procs = {app, terminal}
    Calls = {c1, c2, c3}
    Caller <- CallerOf
    Rotating = {TRUE}
    MaxGrants = 2
    MaxGen = 2
    MaxAged = 1
    Limit <- OnceEach
    MaxEvents = 2
INVARIANT TypeOK
INVARIANT NewestPairKept
PROPERTY NeverBackwards
PROPERTY ForgottenStays
PROPERTY RenewalsSettle
CHECK_DEADLOCK FALSE
