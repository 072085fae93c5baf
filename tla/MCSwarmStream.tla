--------------------------- MODULE MCSwarmStream ---------------------------
(* Instance of SwarmStream for TLC: two listeners, time in minutes.        *)
EXTENDS SwarmStream
=============================================================================
