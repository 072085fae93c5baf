----------------------------- MODULE MCServices -----------------------------
(***************************************************************************)
(* The services that must come to an end, on small instances.              *)
(***************************************************************************)
EXTENDS ServicePlane

MCLinks == {<<"f1", "f2">>}
=============================================================================
