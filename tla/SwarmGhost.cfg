\* Two listeners, one event, nothing fails: can both work on the node at once?
CONSTANTS
    Nodes = {n1}
    Workers = {w1, w2}
    NoWorker = NoWorker
    MaxCalls = 1
    StreamMaxLen = 1
    ReadCount = 2
    LeaseDuration = 1
    MinIdle = 1
    ScanInterval = 1
    LlmTimeout = 2
    MaxFaults = 0
SPECIFICATION Spec
INVARIANT GhostWorkFree
