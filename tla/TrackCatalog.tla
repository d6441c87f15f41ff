---------------------------- MODULE TrackCatalog ----------------------------
(***************************************************************************)
(* The rows of PostgreSQL the transcode pipeline and the moderators share: *)
(* tracks and transcode_jobs, with one operator per SQL statement of       *)
(* internal/modules/catalog/repository.go.  Each statement is atomic.      *)
(* An operator whose WHERE clause tests the status has that test as its    *)
(* guard: when it is false the statement affects no row and the repository *)
(* returns ErrNotFound.                                                    *)
(***************************************************************************)
EXTENDS Naturals, TranscodeJobs

CONSTANTS
  Tracks,      \* track ids
  NoTrack      \* the track of a job id that has no row yet

ASSUME CatalogAssumption == NoTrack \notin Tracks

VARIABLES
  track,       \* tracks row: status, is processing_error set, scheduled_publish_at
  job          \* transcode_jobs row: its track, status, attempts

catalogVars == <<track, job>>

Status == {"draft", "processing", "pending_review", "approved", "published"}
JobStatus == {"none", "pending", "running", "completed", "failed"}
Schedule == {"null", "later", "due"}

CatalogTypeOK ==
  /\ track \in [Tracks -> [status : Status, err : BOOLEAN, sched : Schedule]]
  /\ job \in [JobIds -> [track : Tracks \cup {NoTrack}, status : JobStatus,
                         attempts : Nat]]

\* Drafts whose master has been attached and uploaded (InitUpload and the
\* client's PUT have run); no job has been inserted.
CatalogInit ==
  /\ track = [t \in Tracks |-> [status |-> "draft", err |-> FALSE, sched |-> "null"]]
  /\ job = [j \in JobIds |-> [track |-> NoTrack, status |-> "none", attempts |-> 0]]

-----------------------------------------------------------------------------
(* tracks *)

UpdateStatus(t, s, e) ==
  track' = [track EXCEPT ![t].status = s, ![t].err = e]

AdminApprove(t) ==
  /\ track[t].status = "pending_review"
  /\ track' = [track EXCEPT ![t].status = "approved", ![t].err = FALSE]

SetScheduledPublish(t) ==
  /\ track[t].status = "approved"
  /\ track' = [track EXCEPT ![t].sched = "later"]

\* Mutant: WHERE id = $1 AND creator_id = $2 alone.
CreatorPublishNowUnguarded(t) ==
  track' = [track EXCEPT ![t].status = "published", ![t].sched = "null"]

CreatorPublishNow(t) ==
  /\ track[t].status = "approved"
  /\ track' = [track EXCEPT ![t].status = "published", ![t].sched = "null"]

PublishScheduledTrack(t) ==
  /\ track[t].status = "approved"
  /\ track[t].sched = "due"
  /\ track' = [track EXCEPT ![t].status = "published", ![t].sched = "null"]

AdminPublish(t) ==
  /\ track[t].status \in {"pending_review", "approved", "draft"}
  /\ track' = [track EXCEPT ![t].status = "published", ![t].err = FALSE]

-----------------------------------------------------------------------------
(* transcode_jobs *)

CreateTranscodeJob(j, t) ==
  /\ job[j].status = "none"
  /\ job' = [job EXCEPT ![j] = [track |-> t, status |-> "pending", attempts |-> 0]]

MarkJobRunning(j) ==
  job' = [job EXCEPT ![j].status = "running", ![j].attempts = @ + 1]

MarkJobCompleted(j) == job' = [job EXCEPT ![j].status = "completed"]

MarkJobFailed(j) == job' = [job EXCEPT ![j].status = "failed"]

ResetJobPending(j) == job' = [job EXCEPT ![j].status = "pending"]
=============================================================================
