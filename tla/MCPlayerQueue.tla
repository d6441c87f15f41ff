---------------------------- MODULE MCPlayerQueue ---------------------------
(***************************************************************************)
(* Instances of PlayerQueue for TLC.                                       *)
(***************************************************************************)
EXTENDS PlayerQueue, TLC

TrackSymmetry == Permutations(Tracks)
=============================================================================
