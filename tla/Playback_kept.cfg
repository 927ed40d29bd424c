CONSTANTS
    MaxPlays = 3
    MaxActs = 2
SPECIFICATION FairSpec
INVARIANT KeptIsShown
CHECK_DEADLOCK FALSE
