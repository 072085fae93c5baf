------------------------------- MODULE Planes -------------------------------
(***************************************************************************)
(* What the planes have in common.  The components of a plane share no     *)
(* state with each other, so one behaviour runs one of them, the focus,    *)
(* and the variables of all the others stay Off.  The reachable states are *)
(* the sum of the components' states, never their product.                 *)
(***************************************************************************)
CONSTANT Off
VARIABLE focus
=============================================================================
