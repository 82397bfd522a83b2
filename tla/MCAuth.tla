-------------------------------- MODULE MCAuth --------------------------------
(***************************************************************************)
(* Instances of Auth for TLC: interchangeable devices and handlers.        *)
(***************************************************************************)
EXTENDS Auth, TLC

MCSymmetry == Permutations(Devices) \union Permutations(Handlers)
=============================================================================
