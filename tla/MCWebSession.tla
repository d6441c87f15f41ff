---------------------------- MODULE MCWebSession ----------------------------
(***************************************************************************)
(* Instances of WebSession for TLC.                                        *)
(***************************************************************************)
EXTENDS WebSession, TLC

SessionSymmetry ==
  Permutations(Tabs) \cup Permutations(Requests) \cup Permutations(Refreshes)

\* Bound: a behaviour is followed until two refreshes of one token are under
\* way, of which the properties say nothing.
NotDoubled == ~doubled
=============================================================================
