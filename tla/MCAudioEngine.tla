---------------------------- MODULE MCAudioEngine ---------------------------
(***************************************************************************)
(* Instances of AudioEngine for TLC.                                       *)
(***************************************************************************)
EXTENDS AudioEngine, TLC

\* For a run without liveness.
LoadSymmetry == Permutations(Loads)
=============================================================================
