---------------------------- MODULE MCMediaPipeline ----------------------------
(***************************************************************************)
(* Instance of MediaPipeline for TLC.                                      *)
(***************************************************************************)
EXTENDS MediaPipeline
=============================================================================
