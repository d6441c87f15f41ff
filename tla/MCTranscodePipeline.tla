------------------------ MODULE MCTranscodePipeline ------------------------
(***************************************************************************)
(* Instances of TranscodePipeline for TLC: how many disturbances of each   *)
(* kind a run allows.                                                      *)
(***************************************************************************)
EXTENDS TranscodePipeline, TLC

Once(S) == [d \in Disturbances |-> IF d \in S THEN 1 ELSE 0]

Undisturbed == Once({})
CrashAndReplay == Once({"crash", "apiFault", "replay"})
CrashAndSignal == Once({"crash", "signal"})
SlowAndReplay == Once({"slow", "replay"})
OneOfEach == Once(Disturbances)

\* Slots, workers, requests and job ids are interchangeable; no run that uses these
\* sets checks a liveness property.
SlotSymmetry ==
  Permutations(Slots) \cup Permutations(Requests) \cup Permutations(JobIds)
ReplicaSymmetry == Permutations(Workers)
=============================================================================
