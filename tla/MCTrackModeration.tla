------------------------- MODULE MCTrackModeration -------------------------
(***************************************************************************)
(* Instances of TrackModeration for TLC.  Moderators act on tracks under   *)
(* review; what they do to others is left to the bounds of each run.       *)
(***************************************************************************)
EXTENDS TrackModeration, TLC

Undisturbed == [d \in Disturbances |-> 0]
OneCrash == [Undisturbed EXCEPT !["crash"] = 1]
OneSignal == [Undisturbed EXCEPT !["signal"] = 1]
StopsAndFaults ==
  [d \in Disturbances |-> IF d \in {"slow", "replay"} THEN 0 ELSE 1]

\* Bound: two disturbances happen at most.
TwoDisturbances ==
  LET happened == {d \in Disturbances : spent[d] > 0} IN Cardinality(happened) <= 2

UnderReview == {"pending_review"}

\* For the run of an invariant.
PeerSymmetry == Permutations(Workers) \cup Permutations(Moderators)
=============================================================================
