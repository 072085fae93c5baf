\* One run alone, no failures, nobody writes: are all edges redirected?
CONSTANTS
    a = a
    b = b
    c = c
    x = x
    r1 = r1
    r2 = r2
    Nodes = {a, b, c, x}
    Similar <- MCSimilar
    ClusterOf <- MCClusterOf
    Runners = {r1}
    MaxEdges = 3
    MaxWrites = 0
    MaxStarts = 1
    MaxFaults = 0
SPECIFICATION Spec
PROPERTY EdgesRedirected
CHECK_DEADLOCK FALSE
