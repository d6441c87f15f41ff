---------------------------- MODULE MCWebLibrary ----------------------------
(***************************************************************************)
(* Instances of WebLibrary and WebPlaylists for TLC.                       *)
(***************************************************************************)
EXTENDS WebPlaylists, TLC

LibrarySymmetry ==
  Permutations(Tracks) \cup Permutations(Calls) \cup Permutations(Downloads)
    \cup Permutations(Ids) \cup Permutations(Edits)
=============================================================================
