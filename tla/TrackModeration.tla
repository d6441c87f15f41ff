-------------------------- MODULE TrackModeration --------------------------
(***************************************************************************)
(* From a finished transcode to the followers' notification, composed with *)
(* the pipeline that produces it: moderators (internal/modules/admin), the *)
(* creator's schedule and publish calls (internal/modules/creator) and the *)
(* scheduled-publish goroutine of every worker process                     *)
(* (internal/worker/scheduled_publish.go).                                 *)
(***************************************************************************)
EXTENDS TranscodePipeline

CONSTANTS
  Moderators,    \* moderators, each with one call at a time
  ModeratesFrom  \* statuses of the tracks a moderator rejects or publishes

ASSUME ModerationAssumption ==
  /\ IsFiniteSet(Moderators)
  /\ Moderation /\ ModeratesFrom \subseteq Status

VARIABLES
  mod,           \* mod[m]: moderator m's publishTrack call
  now,           \* now[t]: the publishNow call of the creator of t
  sweep,         \* sweep[w]: the scheduled-publish goroutine of worker w
  reviewed,      \* history: a moderator has looked at what t's last run produced
                 \* and not rejected it
  releases,      \* history: how often t went live
  notices        \* history: how often its followers were told

moderationVars == <<mod, now, sweep, reviewed, releases, notices>>
allVars == <<vars, moderationVars>>

IdleMod == [pc |-> "idle", track |-> NoTrack]
IdleSweep == [pc |-> "waiting", batch |-> {}, track |-> NoTrack]

ModerationInit ==
  /\ Init
  /\ mod = [m \in Moderators |-> IdleMod]
  /\ now = [t \in Tracks |-> "idle"]
  /\ sweep = [w \in Workers |-> IdleSweep]
  /\ reviewed = [t \in Tracks |-> FALSE]
  /\ releases = [t \in Tracks |-> 0]
  /\ notices = [t \in Tracks |-> 0]

-----------------------------------------------------------------------------
(* History *)

Live(t) == track[t].status = "published"

CountReleases ==
  releases' = [t \in Tracks |-> IF Live(t)' /\ ~Live(t) THEN releases[t] + 1
                                                        ELSE releases[t]]

Notify(t) == notices' = [notices EXCEPT ![t] = @ + 1]

Review(t, passed) == reviewed' = [reviewed EXCEPT ![t] = passed]

\* A run that succeeds puts another result up for review.
Finishes(t) ==
  \E w \in Workers, s \in Slots :
    /\ task[w][s].pc = "work" /\ task'[w][s].pc = "finishing"
    /\ job[task[w][s].job].track = t

Supersede == reviewed' = [t \in Tracks |-> reviewed[t] /\ ~Finishes(t)]

-----------------------------------------------------------------------------
(* The pipeline under it.  The end of a worker ends its sweep. *)

PipelineWork ==
  /\ Work
  /\ CountReleases /\ Supersede
  /\ UNCHANGED <<mod, now, sweep, notices>>

PipelineEnd(w) ==
  /\ End(w)
  /\ sweep' = [sweep EXCEPT ![w] = IdleSweep]
  /\ UNCHANGED <<mod, now, reviewed, releases, notices>>

-----------------------------------------------------------------------------
(* Moderators *)

pipelineRest == <<job, queueVars, workerVars, req, adm, fate, spent>>

Approve(m, t) ==
  /\ mod[m].pc = "idle"
  /\ AdminApprove(t)
  /\ Review(t, TRUE)
  /\ UNCHANGED <<pipelineRest, mod, now, sweep, releases, notices>>

\* UPDATE without a test of the status.
Reject(m, t) ==
  /\ mod[m].pc = "idle"
  /\ track[t].status \in ModeratesFrom
  /\ UpdateStatus(t, "draft", TRUE)
  /\ Review(t, FALSE)
  /\ UNCHANGED <<pipelineRest, mod, now, sweep, releases, notices>>

\* publishTrack reads the track and tests its status ...
PublishLoad(m, t) ==
  /\ mod[m].pc = "idle"
  /\ track[t].status \in {"pending_review", "draft"} \cap ModeratesFrom
  /\ mod' = [mod EXCEPT ![m] = [pc |-> "loaded", track |-> t]]
  /\ Review(t, TRUE)
  /\ UNCHANGED <<vars, now, sweep, releases, notices>>

\* ... and AdminPublish tests it again, with another set.
PublishWrite(m) ==
  /\ mod[m].pc = "loaded"
  /\ AdminPublish(mod[m].track)
  /\ CountReleases
  /\ mod' = [mod EXCEPT ![m].pc = "published"]
  /\ UNCHANGED <<pipelineRest, now, sweep, reviewed, notices>>

\* AdminPublish affects no row: 409.
PublishConflict(m) ==
  /\ mod[m].pc = "loaded"
  /\ track[mod[m].track].status \notin {"pending_review", "approved", "draft"}
  /\ mod' = [mod EXCEPT ![m] = IdleMod]
  /\ UNCHANGED <<vars, now, sweep, reviewed, releases, notices>>

PublishNotify(m) ==
  /\ mod[m].pc = "published"
  /\ Notify(mod[m].track)
  /\ mod' = [mod EXCEPT ![m] = IdleMod]
  /\ UNCHANGED <<vars, now, sweep, reviewed, releases>>

-----------------------------------------------------------------------------
(* Creators *)

SchedulePublish(t) ==
  /\ SetScheduledPublish(t)
  /\ UNCHANGED <<pipelineRest, moderationVars>>

\* scheduled_publish_at passes.
ScheduleDue(t) ==
  /\ track[t].sched = "later"
  /\ track' = [track EXCEPT ![t].sched = "due"]
  /\ UNCHANGED <<pipelineRest, moderationVars>>

PublishNow(t) ==
  /\ now[t] = "idle"
  /\ CreatorPublishNow(t)
  /\ CountReleases
  /\ now' = [now EXCEPT ![t] = "published"]
  /\ UNCHANGED <<pipelineRest, mod, sweep, reviewed, notices>>

PublishNowNotify(t) ==
  /\ now[t] = "published"
  /\ Notify(t)
  /\ now' = [now EXCEPT ![t] = "idle"]
  /\ UNCHANGED <<vars, mod, sweep, reviewed, releases>>

-----------------------------------------------------------------------------
(* The API process dies in a call that publishes, or a query of it fails. *)

pipelineKept == <<catalogVars, queueVars, workerVars, req, adm, fate>>

PublishAborts(m) ==
  /\ mod[m].pc # "idle"
  /\ Spend("apiFault")
  /\ mod' = [mod EXCEPT ![m] = IdleMod]
  /\ UNCHANGED <<pipelineKept, now, sweep, reviewed, releases, notices>>

PublishNowAborts(t) ==
  /\ now[t] = "published"
  /\ Spend("apiFault")
  /\ now' = [now EXCEPT ![t] = "idle"]
  /\ UNCHANGED <<pipelineKept, mod, sweep, reviewed, releases, notices>>

-----------------------------------------------------------------------------
(* Workers: publishDue *)

\* Mutant: the comparison with now() is turned round.
SweepListEarly(w) ==
  /\ sweep[w].pc = "waiting" /\ ~term[w]
  /\ LET listed == {t \in Tracks : track[t].status = "approved" /\ track[t].sched = "later"}
     IN  /\ listed # {}
         /\ sweep' = [sweep EXCEPT ![w] = [pc |-> "sweeping", batch |-> listed,
                                          track |-> NoTrack]]
  /\ UNCHANGED <<vars, mod, now, reviewed, releases, notices>>

\* ListDueScheduledPublish.
SweepList(w) ==
  /\ sweep[w].pc = "waiting" /\ ~term[w]
  /\ LET listed == {t \in Tracks : track[t].status = "approved" /\ track[t].sched = "due"}
     IN  /\ listed # {}
         /\ sweep' = [sweep EXCEPT ![w] = [pc |-> "sweeping", batch |-> listed,
                                          track |-> NoTrack]]
  /\ UNCHANGED <<vars, mod, now, reviewed, releases, notices>>

\* The sweep goes on with the rest of its batch.
SweepNext(w, t) ==
  sweep' = [sweep EXCEPT ![w] =
    [pc |-> IF @.batch = {t} THEN "waiting" ELSE "sweeping",
     batch |-> @.batch \ {t}, track |-> NoTrack]]

SweepPublish(w, t) ==
  /\ sweep[w].pc = "sweeping" /\ t \in sweep[w].batch /\ ~term[w]
  /\ PublishScheduledTrack(t)
  /\ CountReleases
  /\ sweep' = [sweep EXCEPT ![w].pc = "notifying", ![w].track = t]
  /\ UNCHANGED <<pipelineRest, mod, now, reviewed, notices>>

\* The UPDATE affects no row, or fails under the cancelled context.
SweepSkip(w, t) ==
  /\ sweep[w].pc = "sweeping" /\ t \in sweep[w].batch
  /\ term[w] \/ track[t].status # "approved" \/ track[t].sched # "due"
  /\ SweepNext(w, t)
  /\ UNCHANGED <<vars, mod, now, reviewed, releases, notices>>

\* Under the cancelled context the INSERT of the notifications fails as well.
SweepNotify(w) ==
  /\ sweep[w].pc = "notifying"
  /\ IF term[w] THEN UNCHANGED notices ELSE Notify(sweep[w].track)
  /\ SweepNext(w, sweep[w].track)
  /\ UNCHANGED <<vars, mod, now, reviewed, releases>>

\* A query of the sweep fails: the track is skipped, or its followers are.
SweepFails(w, t) ==
  /\ \/ sweep[w].pc = "sweeping" /\ t \in sweep[w].batch
     \/ sweep[w].pc = "notifying" /\ t = sweep[w].track
  /\ Spend("error")
  /\ SweepNext(w, t)
  /\ UNCHANGED <<pipelineKept, mod, now, reviewed, releases, notices>>

-----------------------------------------------------------------------------
(* The specification *)

SweepStep(w) ==
  \/ SweepList(w)
  \/ \E t \in Tracks : SweepPublish(w, t) \/ SweepSkip(w, t)
  \/ SweepNotify(w)

ModeratorStep(m) == PublishWrite(m) \/ PublishConflict(m) \/ PublishNotify(m)

ModerationNext ==
  \/ PipelineWork
  \/ \E w \in Workers : PipelineEnd(w) \/ SweepStep(w)
  \/ \E m \in Moderators :
       \/ ModeratorStep(m)
       \/ \E t \in Tracks : Approve(m, t) \/ Reject(m, t) \/ PublishLoad(m, t)
  \/ \E t \in Tracks :
       SchedulePublish(t) \/ ScheduleDue(t) \/ PublishNow(t) \/ PublishNowNotify(t)
  \/ \E m \in Moderators : PublishAborts(m)
  \/ \E t \in Tracks : PublishNowAborts(t)
  \/ \E w \in Workers, t \in Tracks : SweepFails(w, t)

ModerationSpec == ModerationInit /\ [][ModerationNext]_allVars

\* Calls that started run on, a worker sweeps every 30 seconds, time passes.
\* No moderator and no creator has to act.
ModerationFairness ==
  /\ \A w \in Workers : WF_allVars(SweepStep(w))
  /\ \A m \in Moderators : WF_allVars(ModeratorStep(m))
  /\ \A t \in Tracks : WF_allVars(ScheduleDue(t)) /\ WF_allVars(PublishNowNotify(t))

ModerationFairSpec == ModerationSpec /\ ModerationFairness

-----------------------------------------------------------------------------
(* Properties *)

(* README.md: "Flow: draft -> processing -> published" and "finished       *)
(* transcodes enter pending_review until approved".  Through every         *)
(* interleaving of runs, retries, reviews, sweeps and publish calls, a     *)
(* track moves only as TrackLifecycle lets it: what is approved or live is *)
(* not taken back, and nothing is run that was not submitted.              *)
Lifecycle == INSTANCE TrackLifecycle WITH status <- [t \in Tracks |-> track[t].status]
FollowsLifecycle == Lifecycle!Spec

(* README.md: "finished transcodes enter pending_review until approved".   *)
(* What is approved or live is what a moderator looked at and passed: no   *)
(* run has ended between the moderator's look and the release.             *)
ReleasedIsReviewed ==
  \A t \in Tracks : track[t].status \in {"approved", "published"} => reviewed[t]

Owed(t) ==
  Cardinality({m \in Moderators : mod[m] = [pc |-> "published", track |-> t]})
  + (IF now[t] = "published" THEN 1 ELSE 0)
  + Cardinality({w \in Workers : sweep[w].pc = "notifying" /\ sweep[w].track = t})

Losses == spent["crash"] + spent["signal"] + spent["error"] + spent["apiFault"]

(* PublishNotifier "sends follower notifications when a track goes live":  *)
(* never twice for one release, whoever of the moderators, the creator and *)
(* the sweeps of several workers wanted to publish it, and once for each   *)
(* release but those in which a process died or a query failed.            *)
OneNoticePerRelease ==
  \A t \in Tracks :
    /\ notices[t] + Owed(t) <= releases[t]
    /\ releases[t] <= notices[t] + Owed(t) + Losses

Overdue(t) == track[t].status = "approved" /\ track[t].sched = "due"

(* A schedule is kept: an approved track whose time has come goes live, is *)
(* no longer approved, or is scheduled anew.                               *)
ScheduleIsKept == \A t \in Tracks : Overdue(t) ~> ~Overdue(t)
=============================================================================
