\* One replica, no faults: is a failed record ever passed over?
CONSTANTS
    Messages = {m1, m2}
    Partitions = {p1}
    Workers = {w1}
    PartitionOf <- MCPartitionOf
    BatchSize = 2
    MaxRetries = 3
    MaxProduceAttempts = 1
    MaxFaults = 0
SPECIFICATION Spec
INVARIANT NoRecordSkipped
