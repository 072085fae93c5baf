\* Two listeners, two events on one node, one fault anywhere.  The unit
\* of time is a minute, as in the code: lease 60 s, idle 60 s, LLM call 120 s.
CONSTANTS
    Nodes = {n1}
    Workers = {w1, w2}
    NoWorker = NoWorker
    MaxCalls = 2
    StreamMaxLen = 1
    ReadCount = 2
    LeaseDuration = 1
    MinIdle = 1
    ScanInterval = 1
    LlmTimeout = 2
    MaxFaults = 1
SPECIFICATION Spec
INVARIANTS
    TypeOK
    LeaseIsExclusive
    NothingLost
    StampHasEvent
CHECK_DEADLOCK FALSE
