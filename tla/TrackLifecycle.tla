--------------------------- MODULE TrackLifecycle ---------------------------
(***************************************************************************)
(* What the README promises about a track: "Flow: draft -> processing ->   *)
(* published", with moderation "finished transcodes enter pending_review   *)
(* until approved", and a rejected or failed upload is a draft again.  No  *)
(* queue, no worker: the steps a creator, a follower or a moderator sees.  *)
(***************************************************************************)
CONSTANT Tracks

VARIABLE status

Init == status = [t \in Tracks |-> "draft"]

Move(t, from, to) ==
  /\ status[t] = from
  /\ status' = [status EXCEPT ![t] = to]

Submit(t) == Move(t, "draft", "processing")

Finish(t) == Move(t, "processing", "pending_review")

GiveUp(t) == Move(t, "processing", "draft")

Approve(t) == Move(t, "pending_review", "approved")

Reject(t) == Move(t, "pending_review", "draft")

\* The creator's or the scheduler's; an administrator also publishes a track
\* under review.
Publish(t) == Move(t, "approved", "published") \/ Move(t, "pending_review", "published")

Next ==
  \E t \in Tracks :
    \/ Submit(t) \/ Finish(t) \/ GiveUp(t)
    \/ Approve(t) \/ Reject(t) \/ Publish(t)

Spec == Init /\ [][Next]_status
=============================================================================
