----------------------------- MODULE MCPartyHub -----------------------------
(***************************************************************************)
(* Instances of PartyHub for TLC.                                          *)
(***************************************************************************)
EXTENDS PartyHub, TLC

\* For a run without liveness.
GuestSymmetry == Permutations(Guests)
=============================================================================
