CONSTANTS
    MaxPlays = 3
    MaxActs = 2
SPECIFICATION FairSpec
INVARIANT TypeOK
INVARIANT OneWindow
INVARIANT ShowsWhatPlays
PROPERTY StopEndsIt
CHECK_DEADLOCK FALSE
