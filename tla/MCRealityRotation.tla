------------------------- MODULE MCRealityRotation -------------------------
(* Constants for the model checking of RealityRotation. *)
EXTENDS RealityRotation

MCNames == {1, 2}
MCDefault == 2
MCSix == {6}
=============================================================================
