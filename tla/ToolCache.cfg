\* Three calls over two keys that are cached one at a time, one write tool,
\* one timeout, one expiry.
SPECIFICATION Spec
CONSTANTS
    k1 = k1
    k2 = k2
    Calls = {1, 2, 3}
    Writers = {w1}
    Keys = {k1, k2}
    None = None
    Size <- MCSize
    MaxEntrySize = 2
    MaxEntries = 1
    TTL = 1
    MaxTime = 1
    MaxCuts = 1
INVARIANTS TypeOK StaleOnlyIfOverlapped
PROPERTY WaitersAnswered
CHECK_DEADLOCK FALSE
