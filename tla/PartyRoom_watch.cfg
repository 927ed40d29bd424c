\* Two members: a user pauses or resumes, a connection is missing, twice at most between them.
CONSTANTS
    ann = ann
    bob = bob
    Members = {ann, bob}
    Nothing = Nothing
    MaxEvents = 2
    MaxFlight = 1
SPECIFICATION FairSpec
INVARIANT TypeOK
INVARIANT NobodyDeafForGood
 
PROPERTY Converges
CHECK_DEADLOCK FALSE
