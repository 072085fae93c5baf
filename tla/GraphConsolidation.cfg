\* Two runs on three nodes of one cluster and one outside it.
CONSTANTS
    a = a
    b = b
    c = c
    x = x
    r1 = r1
    r2 = r2
    Nodes = {a, b, c, x}
    Similar <- MCSimilar
    ClusterOf <- MCClusterOf
    Runners = {r1, r2}
    MaxEdges = 2
    MaxWrites = 1
    MaxStarts = 2
    MaxFaults = 1
SPECIFICATION Spec
INVARIANTS
    TypeOK
    EdgesAreEarned
    LeftoversDiffer
PROPERTY MergeKeepsRelations
SYMMETRY MCSymmetry
\* The bounds on writes, starts and faults stop the system.
CHECK_DEADLOCK FALSE
