\* Every component that has to come to an end, each on its own instance.
SPECIFICATION Spec
CONSTANTS
\* one tab of the live log, one lost connection
    Tabs = {t1}
    MaxEvents = 3
    MaxDrops = 1
\* two agents, one at a time, one failure or restart; hours up to two
    Sleepers = {z1, z2}
    Cadences = {0, 1}
    MaxAge = 2
    MaxConcurrent = 1
    MaxSleepFaults = 1
\* one job watched by two sockets
    Jobs = {j1}
    Sockets = {w1, w2}
    MaxJobFaults = 1
\* one question, verified twice at most
    Facts = {"f1", "f2"}
    Links <- MCLinks
    WeakLinks <- MCLinks
    Restricted = {"f2"}
    Asks = {r1}
    MaxIter = 2
    TTL = 0
    MaxHour = 1
    MaxQueryFaults = 1
\* two connectors, one permit, no read that hangs
    Feeds = {f1, f2}
    Slots = {1}
    MaxDocs = 1
    Permits = 1
    MaxHangs = 0
    MaxRunFaults = 1
\* three samples, two at a time
    Samples = {x1, x2, x3}
    Concurrency = 2
    EndOfStream = EndOfStream
INVARIANTS
    TypeOK
    TabsMissNothing
    JobsAreTold
PROPERTIES
    CadenceRespected
    TabsAreServed
    WorkIsServed
    RequestsEnd
CHECK_DEADLOCK FALSE
