--------------------------- MODULE MCKafkaIngest ---------------------------
(* Instance of KafkaIngest for TLC: one partition shared by two replicas.  *)
EXTENDS KafkaIngest

MCPartitionOf == [m \in Messages |-> CHOOSE p \in Partitions : TRUE]
=============================================================================
