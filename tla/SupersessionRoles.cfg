\* No fault anywhere: does a cleared role stay away?
CONSTANTS
    p1 = p1
    p2 = p2
    p3 = p3
    e1 = e1
    e2 = e2
    e3 = e3
    v = v
    i = i
    pr = pr
    z = z
    s1 = s1
    s2 = s2
    sv = sv
    chief = chief
    Payloads = {p1, p2, p3}
    SyncPayloads = {p1, p2, p3}
    Edges = {e1, e2, e3, v}
    PayloadOf <- MCPayloadOf
    Src <- MCSrc
    Tgt <- MCTgt
    Text <- MCText
    FactTexts <- MCFactTexts
    Conflicts <- MCConflicts
    Entities = {i, pr, z}
    Roles = {chief}
    NoRole = NoRole
    Describes <- MCDescribes
    RolesIn <- MCRolesIn
    NoEdge = NoEdge
    DefaultEnabled = FALSE
    MaxCandidates = 2
    MaxFaults = 0
SPECIFICATION Spec
PROPERTY
    ClearedRolesStay
CHECK_DEADLOCK FALSE
