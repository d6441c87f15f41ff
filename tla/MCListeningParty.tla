-------------------------- MODULE MCListeningParty --------------------------
(***************************************************************************)
(* Instances of ListeningParty for TLC.                                    *)
(***************************************************************************)
EXTENDS ListeningParty, TLC
=============================================================================
