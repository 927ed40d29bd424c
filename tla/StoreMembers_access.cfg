CONSTANTS
    r1 = r1  r2 = r2
    Requests = {r1, r2}
    MaxMembers = 3
    MaxDevices = 3
    MaxInvites = 3
    MaxCodes = 2
SPECIFICATION Spec
CHECK_DEADLOCK FALSE
SYMMETRY Either
INVARIANTS TypeOK OneEntry AnonymousHasDevice
PROPERTIES NoEntryAfterRemoval OldLinkStaysDead
