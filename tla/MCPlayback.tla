------------------------------ MODULE MCPlayback ------------------------------
(***************************************************************************)
(* Instances of Playback for TLC: interchangeable ids.                     *)
(***************************************************************************)
EXTENDS Playback, TLC

MCSymmetry ==
    Permutations(Sessions) \union Permutations(Handlers) \union Permutations(Keys)
=============================================================================
