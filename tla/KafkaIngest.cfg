\* Two replicas on one partition, two messages, a producer that may store a
\* message twice, and one fault anywhere.
CONSTANTS
    Messages = {m1, m2}
    Partitions = {p1}
    Workers = {w1, w2}
    PartitionOf <- MCPartitionOf
    BatchSize = 2
    MaxRetries = 2
    MaxProduceAttempts = 2
    MaxFaults = 1
SPECIFICATION LiveSpec
INVARIANTS
    TypeOK
    CommittedWasWritten
    DeadLetterEarned
PROPERTIES
    CommitNeverRegresses
    EveryRecordProcessed
    DeliversAtLeastOnce
\* The topic is finite: once it is consumed and the faults are spent, the
\* workers wait in getmany for ever.
CHECK_DEADLOCK FALSE
