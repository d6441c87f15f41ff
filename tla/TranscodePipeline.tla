------------------------- MODULE TranscodePipeline -------------------------
(***************************************************************************)
(* The transcode pipeline: creators' requests (internal/modules/creator),  *)
(* worker processes (cmd/worker, internal/worker) and administrators       *)
(* replaying dead letters (internal/modules/admin), over the rows of       *)
(* TrackCatalog and the Redis keys of TranscodeQueue.                      *)
(*                                                                         *)
(* A request, a worker's main loop and each of its job goroutines is a     *)
(* process with a program counter; a step is one call to PostgreSQL or     *)
(* Redis, or one pipeline.                                                 *)
(***************************************************************************)
EXTENDS TrackCatalog, TranscodeQueue

CONSTANTS
  Workers,      \* worker processes (replicas of cmd/worker)
  Slots,        \* GACHIFY_WORKER_CONCURRENCY: job goroutines of one process
  Requests,     \* concurrent CompleteUpload / RetryTranscode calls
  Admins,       \* concurrent calls to the admin DLQ retry
  MaxAttempts,  \* GACHIFY_TRANSCODE_MAX_ATTEMPTS
  Moderation,   \* GACHIFY_MODERATION_ENABLED
  Limit         \* how often each disturbance of Disturbances may happen (bounds)

Disturbances ==
  {"crash",     \* a worker process dies
   "signal",    \* SIGTERM to a worker
   "error",     \* PostgreSQL or Redis fails one call of a worker
   "apiFault",  \* the API process dies in a request, or a call of one fails
   "slow",      \* a run outlasts its visibility deadline
   "replay"}    \* an administrator replays a dead letter

ASSUME PipelineAssumption ==
  /\ IsFiniteSet(Workers) /\ IsFiniteSet(Slots)
  /\ MaxAttempts \in Nat \ {0}
  /\ Moderation \in BOOLEAN
  /\ Limit \in [Disturbances -> Nat]

VARIABLES
  loop,         \* loop[w]: where the main loop of worker w stands
  batch,        \* batch[w]: members read by a scan and not yet moved
  held,         \* held[w]: the job in the main loop's hands, outside Redis
  active,       \* active[w]: main's activeJob variable
  term,         \* term[w]: the signal context, and workerCtx with it, is cancelled
  task,         \* task[w][s]: the goroutine in slot s of worker w
  req,          \* req[r]: a creator's request
  adm,          \* adm[a]: an administrator's DLQ retry
  fate,         \* history: was each job queued, completed, or dropped (see Drop)
  spent         \* history: disturbances so far

workerVars == <<loop, batch, held, active, term, task>>
vars == <<catalogVars, queueVars, workerVars, req, adm, fate, spent>>

LoopPc == {"promote", "promoting", "reclaim", "reclaiming", "acquire", "blocked",
           "popped", "draining", "requeue", "requeueing"}
FailurePc == {"handling", "resetting", "reprocessing", "retrying",
              "failing", "drafting", "burying"}
TaskPc == {"idle", "start", "work", "finishing", "done", "failed", "leaving"} \cup FailurePc
ReqPc == {"idle", "checked", "marked", "created", "retryChecked", "retryCreated"}
AdmPc == {"idle", "found", "removed", "pushed"}
Fate == {"none", "submitted", "done", "dropped"}
AnyEntry == DLQEntry \cup {[job |-> NoJob, failedAt |-> 0]}

TypeOK ==
  /\ CatalogTypeOK
  /\ QueueTypeOK
  /\ loop \in [Workers -> LoopPc]
  /\ batch \in [Workers -> SUBSET JobIds]
  /\ held \in [Workers -> JobIds \cup {NoJob}]
  /\ active \in [Workers -> JobIds \cup {NoJob}]
  /\ term \in [Workers -> BOOLEAN]
  /\ task \in [Workers -> [Slots -> [pc : TaskPc, job : JobIds \cup {NoJob}]]]
  /\ req \in [Requests -> [pc : ReqPc, track : Tracks \cup {NoTrack},
                           job : JobIds \cup {NoJob}]]
  /\ adm \in [Admins -> [pc : AdmPc, entry : AnyEntry]]
  /\ fate \in [JobIds -> Fate]
  /\ spent \in [Disturbances -> Nat]

IdleTask == [pc |-> "idle", job |-> NoJob]
IdleReq == [pc |-> "idle", track |-> NoTrack, job |-> NoJob]
IdleAdm == [pc |-> "idle", entry |-> [job |-> NoJob, failedAt |-> 0]]

Init ==
  /\ CatalogInit
  /\ QueueInit
  /\ loop = [w \in Workers |-> "promote"]
  /\ batch = [w \in Workers |-> {}]
  /\ held = [w \in Workers |-> NoJob]
  /\ active = [w \in Workers |-> NoJob]
  /\ term = [w \in Workers |-> FALSE]
  /\ task = [w \in Workers |-> [s \in Slots |-> IdleTask]]
  /\ req = [r \in Requests |-> IdleReq]
  /\ adm = [a \in Admins |-> IdleAdm]
  /\ fate = [j \in JobIds |-> "none"]
  /\ spent = [d \in Disturbances |-> 0]

-----------------------------------------------------------------------------
(* Helpers *)

\* Disturbance d happens; Limit bounds how often.
Spend(d) ==
  /\ spent[d] < Limit[d]
  /\ spent' = [spent EXCEPT ![d] = @ + 1]

\* A holder outside Redis let go of the jobs in S without handing them on.
\* For good: a job that is dropped once stays marked.
Drop(S) == fate' = [j \in JobIds |-> IF j \in S THEN "dropped" ELSE fate[j]]

TaskAt(w, s, pc) == task[w][s].pc = pc
TaskGoto(w, s, pc) == task' = [task EXCEPT ![w][s].pc = pc]

\* Jobs a worker holds between a removal from Redis and the write that hands
\* the job on: BRPOP..ZADD, ZREM..LPUSH at shutdown, Ack..HandleFailure.
InHand(w) == IF loop[w] \in {"popped", "requeueing"} THEN {held[w]} ELSE {}
InFailure(w) ==
  {j \in JobIds : \E s \in Slots :
     task[w][s].job = j /\ task[w][s].pc \in FailurePc}
Exposed(w) == InHand(w) \cup InFailure(w)

\* The process ends and its supervisor starts it again (restart: unless-stopped).
WorkerRestart(w) ==
  /\ loop' = [loop EXCEPT ![w] = "promote"]
  /\ batch' = [batch EXCEPT ![w] = {}]
  /\ held' = [held EXCEPT ![w] = NoJob]
  /\ active' = [active EXCEPT ![w] = NoJob]
  /\ term' = [term EXCEPT ![w] = FALSE]
  /\ task' = [task EXCEPT ![w] = [s \in Slots |-> IdleTask]]

Runs(w, s, j) == task[w][s].job = j /\ task[w][s].pc # "leaving"
Running(j) == \E w \in Workers, s \in Slots : Runs(w, s, j)

-----------------------------------------------------------------------------
(* Creators: CompleteUpload *)

\* Bound: a request begins only while there is an unused job id for it.
JobIdLeft ==
  Cardinality({r \in Requests : req[r].pc \in {"checked", "marked", "retryChecked"}})
    < Cardinality({j \in JobIds : job[j].status = "none"})

\* Mutant: the status is not tested.
CompleteCheckAny(r, t) ==
  /\ req[r].pc = "idle" /\ JobIdLeft
  /\ req' = [req EXCEPT ![r] = [pc |-> "checked", track |-> t, job |-> NoJob]]
  /\ UNCHANGED <<catalogVars, queueVars, workerVars, adm, fate, spent>>

\* GetOwned, the status test and HeadObject; the status is not tested again.
CompleteCheck(r, t) ==
  /\ req[r].pc = "idle" /\ JobIdLeft
  /\ track[t].status = "draft"
  /\ req' = [req EXCEPT ![r] = [pc |-> "checked", track |-> t, job |-> NoJob]]
  /\ UNCHANGED <<catalogVars, queueVars, workerVars, adm, fate, spent>>

CompleteMark(r) ==
  /\ req[r].pc = "checked"
  /\ UpdateStatus(req[r].track, "processing", FALSE)
  /\ req' = [req EXCEPT ![r].pc = "marked"]
  /\ UNCHANGED <<job, queueVars, workerVars, adm, fate, spent>>

\* Mutant: the id of the inserted job is not handed to the queue.
CompleteCreateLosesId(r, j) ==
  /\ req[r].pc = "marked"
  /\ CreateTranscodeJob(j, req[r].track)
  /\ req' = [req EXCEPT ![r].pc = "created"]
  /\ UNCHANGED <<track, queueVars, workerVars, adm, fate, spent>>

CompleteCreate(r, j) ==
  /\ req[r].pc = "marked"
  /\ CreateTranscodeJob(j, req[r].track)
  /\ req' = [req EXCEPT ![r].pc = "created", ![r].job = j]
  /\ UNCHANGED <<track, queueVars, workerVars, adm, fate, spent>>

\* Both handlers end with EnqueueTranscode.
RequestEnqueue(r) ==
  /\ req[r].pc = "created"
  /\ LPush(req[r].job)
  /\ fate' = [fate EXCEPT ![req[r].job] = "submitted"]
  /\ req' = [req EXCEPT ![r] = IdleReq]
  /\ UNCHANGED <<catalogVars, processing, overdue, retry, due, dlq, stamp,
                 workerVars, adm, spent>>

RequestEnqueueFails(r) ==
  /\ req[r].pc = "created"
  /\ Spend("apiFault")
  /\ UpdateStatus(req[r].track, "draft", TRUE)
  /\ req' = [req EXCEPT ![r] = IdleReq]
  /\ UNCHANGED <<job, queueVars, workerVars, adm, fate>>

(* Creators: RetryTranscode inserts the job before it marks the track. *)

RetryCheck(r, t) ==
  /\ req[r].pc = "idle" /\ JobIdLeft
  /\ track[t].status = "draft" /\ track[t].err
  /\ req' = [req EXCEPT ![r] = [pc |-> "retryChecked", track |-> t, job |-> NoJob]]
  /\ UNCHANGED <<catalogVars, queueVars, workerVars, adm, fate, spent>>

RetryCreate(r, j) ==
  /\ req[r].pc = "retryChecked"
  /\ CreateTranscodeJob(j, req[r].track)
  /\ req' = [req EXCEPT ![r].pc = "retryCreated", ![r].job = j]
  /\ UNCHANGED <<track, queueVars, workerVars, adm, fate, spent>>

RetryMark(r) ==
  /\ req[r].pc = "retryCreated"
  /\ UpdateStatus(req[r].track, "processing", FALSE)
  /\ req' = [req EXCEPT ![r].pc = "created"]
  /\ UNCHANGED <<job, queueVars, workerVars, adm, fate, spent>>

\* The API process dies, or a call fails at a step with nothing to undo: the
\* handler returns its error and what it wrote stays.
RequestAbort(r) ==
  /\ req[r].pc # "idle"
  /\ Spend("apiFault")
  /\ req' = [req EXCEPT ![r] = IdleReq]
  /\ UNCHANGED <<catalogVars, queueVars, workerVars, adm, fate>>
-----------------------------------------------------------------------------
(* Worker: the main loop *)

\* PromoteReadyRetries reads the ready members first.
PromoteScan(w) ==
  /\ loop[w] = "promote" /\ ~term[w]
  /\ batch' = [batch EXCEPT ![w] = due]
  /\ loop' = [loop EXCEPT ![w] = IF due = {} THEN "reclaim" ELSE "promoting"]
  /\ UNCHANGED <<catalogVars, queueVars, held, active, term, task, req, adm, fate, spent>>

\* The batch loses j; after its last member the loop goes on.
Moved(w, j, next) ==
  /\ j \in batch[w]
  /\ batch' = [batch EXCEPT ![w] = @ \ {j}]
  /\ loop' = [loop EXCEPT ![w] = IF batch[w] = {j} THEN next ELSE @]

PromoteOne(w, j) ==
  /\ loop[w] = "promoting" /\ ~term[w]
  /\ Moved(w, j, "reclaim")
  /\ PromoteMember(j)
  /\ UNCHANGED <<catalogVars, processing, overdue, dlq, stamp, held, active, term, task,
                 req, adm, fate, spent>>

ReclaimScan(w) ==
  /\ loop[w] = "reclaim" /\ ~term[w]
  /\ batch' = [batch EXCEPT ![w] = overdue]
  /\ loop' = [loop EXCEPT ![w] = IF overdue = {} THEN "acquire" ELSE "reclaiming"]
  /\ UNCHANGED <<catalogVars, queueVars, held, active, term, task, req, adm, fate, spent>>

ReclaimOne(w, j) ==
  /\ loop[w] = "reclaiming" /\ ~term[w]
  /\ Moved(w, j, "acquire")
  /\ ReclaimMember(j)
  /\ UNCHANGED <<catalogVars, retry, due, dlq, stamp, held, active, term, task,
                 req, adm, fate, spent>>

\* The connection breaks inside a pipeline: its LPUSH may have run, its ZREM
\* has not.  The scan returns and the loop goes on.
MoveFails(w, j) ==
  /\ loop[w] \in {"promoting", "reclaiming"} /\ j \in batch[w]
  /\ Spend("error")
  /\ LPush(j) \/ UNCHANGED pending
  /\ batch' = [batch EXCEPT ![w] = {}]
  /\ loop' = [loop EXCEPT ![w] = IF @ = "promoting" THEN "reclaim" ELSE "acquire"]
  /\ UNCHANGED <<catalogVars, processing, overdue, retry, due, dlq, stamp,
                 held, active, term, task, req, adm, fate>>

\* A slot of jobSlots, then the BRPOP is sent.
Acquire(w) ==
  /\ loop[w] = "acquire" /\ ~term[w]
  /\ \E s \in Slots : TaskAt(w, s, "idle")
  /\ loop' = [loop EXCEPT ![w] = "blocked"]
  /\ UNCHANGED <<catalogVars, queueVars, batch, held, active, term, task,
                 req, adm, fate, spent>>

\* A BRPOP that was sent completes even when the context is cancelled.
Pop(w, j) ==
  /\ loop[w] = "blocked"
  /\ BRPop(j)
  /\ held' = [held EXCEPT ![w] = j]
  /\ loop' = [loop EXCEPT ![w] = "popped"]
  /\ UNCHANGED <<catalogVars, processing, overdue, retry, due, dlq, stamp,
                 batch, active, term, task, req, adm, fate, spent>>

PopTimeout(w) ==
  /\ loop[w] = "blocked" /\ pending = << >>
  /\ loop' = [loop EXCEPT ![w] = "promote"]
  /\ UNCHANGED <<catalogVars, queueVars, batch, held, active, term, task,
                 req, adm, fate, spent>>

\* ZADD to processing, activeJob = &job, and the goroutine starts in the slot.
Claim(w, s) ==
  /\ loop[w] = "popped" /\ ~term[w]
  /\ TaskAt(w, s, "idle")
  /\ ZAddProcessing(held[w])
  /\ active' = [active EXCEPT ![w] = held[w]]
  /\ task' = [task EXCEPT ![w][s] = [pc |-> "start", job |-> held[w]]]
  /\ held' = [held EXCEPT ![w] = NoJob]
  /\ loop' = [loop EXCEPT ![w] = "promote"]
  /\ UNCHANGED <<catalogVars, pending, retry, due, dlq, stamp, batch, term,
                 req, adm, fate, spent>>

\* The ZADD fails and the job is pushed back under the same context: a
\* cancelled one fails the LPUSH as well, and its error is not looked at.
ClaimFails(w) ==
  /\ loop[w] = "popped"
  /\ \/ /\ ~term[w] /\ Spend("error")
        /\ \/ LPush(held[w]) /\ UNCHANGED fate
           \/ Drop({held[w]}) /\ UNCHANGED pending
     \/ /\ term[w] /\ UNCHANGED spent
        /\ Drop({held[w]}) /\ UNCHANGED pending
  /\ held' = [held EXCEPT ![w] = NoJob]
  /\ loop' = [loop EXCEPT ![w] = "promote"]
  /\ UNCHANGED <<catalogVars, processing, overdue, retry, due, dlq, stamp,
                 batch, active, term, task, req, adm>>

-----------------------------------------------------------------------------
(* Worker: a job goroutine, RunTranscode *)

MarkRunning(w, s) ==
  /\ TaskAt(w, s, "start") /\ ~term[w]
  /\ MarkJobRunning(task[w][s].job)
  /\ TaskGoto(w, s, "work")
  /\ UNCHANGED <<track, queueVars, loop, batch, held, active, term, req, adm, fate, spent>>

\* MarkJobRunning fails: the attempt is not counted.
MarkRunningFails(w, s) ==
  /\ TaskAt(w, s, "start")
  /\ IF term[w] THEN UNCHANGED spent ELSE Spend("error")
  /\ TaskGoto(w, s, "failed")
  /\ UNCHANGED <<catalogVars, queueVars, loop, batch, held, active, term, req, adm, fate>>

\* Mutant: the status of the track is not written.
TranscodedKeepsStatus(w, s) ==
  /\ TaskAt(w, s, "work") /\ ~term[w]
  /\ TaskGoto(w, s, "finishing")
  /\ UNCHANGED <<catalogVars, queueVars, loop, batch, held, active, term,
                 req, adm, fate, spent>>

\* Mutant: moderation is not looked at.
TranscodedPublishes(w, s) ==
  /\ TaskAt(w, s, "work") /\ ~term[w]
  /\ UpdateStatus(job[task[w][s].job].track, "published", FALSE)
  /\ TaskGoto(w, s, "finishing")
  /\ UNCHANGED <<job, queueVars, loop, batch, held, active, term, req, adm, fate, spent>>

\* Download, analysis, ffmpeg and upload succeed; the status is written
\* whatever it has become since the job was queued.
Transcoded(w, s) ==
  /\ TaskAt(w, s, "work") /\ ~term[w]
  /\ UpdateStatus(job[task[w][s].job].track,
                  IF Moderation THEN "pending_review" ELSE "published", FALSE)
  /\ TaskGoto(w, s, "finishing")
  /\ UNCHANGED <<job, queueVars, loop, batch, held, active, term, req, adm, fate, spent>>

\* Any of them fails (object storage, ffmpeg, a cancelled context).
TranscodeFails(w, s) ==
  /\ TaskAt(w, s, "work")
  /\ TaskGoto(w, s, "failed")
  /\ UNCHANGED <<catalogVars, queueVars, loop, batch, held, active, term,
                 req, adm, fate, spent>>

Complete(w, s) ==
  /\ TaskAt(w, s, "finishing") /\ ~term[w]
  /\ MarkJobCompleted(task[w][s].job)
  /\ fate' = [fate EXCEPT ![task[w][s].job] = IF @ = "dropped" THEN @ ELSE "done"]
  /\ TaskGoto(w, s, "done")
  /\ UNCHANGED <<track, queueVars, loop, batch, held, active, term, req, adm, spent>>

\* MarkJobCompleted fails: the run counts as failed though the track is out.
CompleteFails(w, s) ==
  /\ TaskAt(w, s, "finishing")
  /\ IF term[w] THEN UNCHANGED spent ELSE Spend("error")
  /\ TaskGoto(w, s, "failed")
  /\ UNCHANGED <<catalogVars, queueVars, loop, batch, held, active, term, req, adm, fate>>
-----------------------------------------------------------------------------
(* Worker: a job goroutine, AckTranscode and HandleFailure.  Both use a    *)
(* context of their own, which SIGTERM does not cancel.                    *)

\* Where a goroutine stands after the Ack, run failed or not.
AfterAck(w, s) ==
  \/ TaskAt(w, s, "done") /\ TaskGoto(w, s, "leaving")
  \/ TaskAt(w, s, "failed") /\ TaskGoto(w, s, "handling")

\* Mutant: nothing is acknowledged.
AckNothing(w, s) ==
  /\ AfterAck(w, s)
  /\ UNCHANGED <<catalogVars, queueVars, loop, batch, held, active, term,
                 req, adm, fate, spent>>

\* The Ack comes before HandleFailure.
Ack(w, s) ==
  /\ AfterAck(w, s)
  /\ ZRemProcessing(task[w][s].job)
  /\ UNCHANGED <<catalogVars, pending, retry, due, dlq, stamp, loop, batch, held, active,
                 term, req, adm, fate, spent>>

\* Its error is not looked at.
AckFails(w, s) ==
  /\ AfterAck(w, s)
  /\ Spend("error")
  /\ UNCHANGED <<catalogVars, queueVars, loop, batch, held, active, term, req, adm, fate>>

\* Mutant: one attempt too many.
LookupOffByOne(w, s) ==
  /\ TaskAt(w, s, "handling")
  /\ TaskGoto(w, s, IF job[task[w][s].job].attempts <= MaxAttempts
                    THEN "resetting" ELSE "failing")
  /\ UNCHANGED <<catalogVars, queueVars, loop, batch, held, active, term,
                 req, adm, fate, spent>>

\* Mutant: one attempt too few.
LookupGivesUpEarly(w, s) ==
  /\ TaskAt(w, s, "handling")
  /\ TaskGoto(w, s, IF job[task[w][s].job].attempts + 1 < MaxAttempts
                    THEN "resetting" ELSE "failing")
  /\ UNCHANGED <<catalogVars, queueVars, loop, batch, held, active, term,
                 req, adm, fate, spent>>

\* GetTranscodeJob: the attempts it reads decide the rest.
Lookup(w, s) ==
  /\ TaskAt(w, s, "handling")
  /\ TaskGoto(w, s, IF job[task[w][s].job].attempts < MaxAttempts
                    THEN "resetting" ELSE "failing")
  /\ UNCHANGED <<catalogVars, queueVars, loop, batch, held, active, term,
                 req, adm, fate, spent>>

LookupFails(w, s) ==
  /\ TaskAt(w, s, "handling")
  /\ Spend("error")
  /\ TaskGoto(w, s, "failing")
  /\ UNCHANGED <<catalogVars, queueVars, loop, batch, held, active, term, req, adm, fate>>

ResetJob(w, s) ==
  /\ TaskAt(w, s, "resetting")
  /\ ResetJobPending(task[w][s].job)
  /\ TaskGoto(w, s, "reprocessing")
  /\ UNCHANGED <<track, queueVars, loop, batch, held, active, term, req, adm, fate, spent>>

BackToProcessing(w, s) ==
  /\ TaskAt(w, s, "reprocessing")
  /\ UpdateStatus(job[task[w][s].job].track, "processing", TRUE)
  /\ TaskGoto(w, s, "retrying")
  /\ UNCHANGED <<job, queueVars, loop, batch, held, active, term, req, adm, fate, spent>>

FailJob(w, s) ==
  /\ TaskAt(w, s, "failing")
  /\ MarkJobFailed(task[w][s].job)
  /\ TaskGoto(w, s, "drafting")
  /\ UNCHANGED <<track, queueVars, loop, batch, held, active, term, req, adm, fate, spent>>

\* Mutant: the track is not set back to draft.
BackToDraftForgotten(w, s) ==
  /\ TaskAt(w, s, "drafting")
  /\ TaskGoto(w, s, "burying")
  /\ UNCHANGED <<catalogVars, queueVars, loop, batch, held, active, term,
                 req, adm, fate, spent>>

\* Mutant: return before EnqueueDLQ.
BackToDraftReturns(w, s) ==
  /\ TaskAt(w, s, "drafting")
  /\ UpdateStatus(job[task[w][s].job].track, "draft", TRUE)
  /\ TaskGoto(w, s, "leaving")
  /\ UNCHANGED <<job, queueVars, loop, batch, held, active, term, req, adm, fate, spent>>

BackToDraft(w, s) ==
  /\ TaskAt(w, s, "drafting")
  /\ UpdateStatus(job[task[w][s].job].track, "draft", TRUE)
  /\ TaskGoto(w, s, "burying")
  /\ UNCHANGED <<job, queueVars, loop, batch, held, active, term, req, adm, fate, spent>>

\* The errors of these four writes are not looked at.
FailureWriteFails(w, s) ==
  /\ Spend("error")
  /\ \/ TaskAt(w, s, "resetting") /\ TaskGoto(w, s, "reprocessing")
     \/ TaskAt(w, s, "reprocessing") /\ TaskGoto(w, s, "retrying")
     \/ TaskAt(w, s, "failing") /\ TaskGoto(w, s, "drafting")
     \/ TaskAt(w, s, "drafting") /\ TaskGoto(w, s, "burying")
  /\ UNCHANGED <<catalogVars, queueVars, loop, batch, held, active, term, req, adm, fate>>

ScheduleRetry(w, s) ==
  /\ TaskAt(w, s, "retrying")
  /\ ZAddRetry(task[w][s].job)
  /\ TaskGoto(w, s, "leaving")
  /\ UNCHANGED <<catalogVars, pending, processing, overdue, dlq, stamp,
                 loop, batch, held, active, term, req, adm, fate, spent>>

Bury(w, s) ==
  /\ TaskAt(w, s, "burying")
  /\ PushDLQ(task[w][s].job)
  /\ TaskGoto(w, s, "leaving")
  /\ UNCHANGED <<catalogVars, pending, processing, overdue, retry, due,
                 loop, batch, held, active, term, req, adm, fate, spent>>

\* Either enqueue fails: the error is logged.
EnqueueFails(w, s) ==
  /\ TaskAt(w, s, "retrying") \/ TaskAt(w, s, "burying")
  /\ Spend("error")
  /\ Drop({task[w][s].job})
  /\ TaskGoto(w, s, "leaving")
  /\ UNCHANGED <<catalogVars, queueVars, loop, batch, held, active, term, req, adm>>

\* Mutant: activeJob is not reset.
LeaveKeepsActive(w, s) ==
  /\ TaskAt(w, s, "leaving")
  /\ task' = [task EXCEPT ![w][s] = IdleTask]
  /\ UNCHANGED <<catalogVars, queueVars, loop, batch, held, active, term,
                 req, adm, fate, spent>>

\* The deferred calls: activeJob = nil whatever job it names, then the slot
\* and the WaitGroup are released.
Leave(w, s) ==
  /\ TaskAt(w, s, "leaving")
  /\ task' = [task EXCEPT ![w][s] = IdleTask]
  /\ active' = [active EXCEPT ![w] = NoJob]
  /\ UNCHANGED <<catalogVars, queueVars, loop, batch, held, term, req, adm, fate, spent>>

-----------------------------------------------------------------------------
(* Worker: shutdown and death *)

Signal(w) ==
  /\ ~term[w]
  /\ Spend("signal")
  /\ term' = [term EXCEPT ![w] = TRUE]
  /\ UNCHANGED <<catalogVars, queueVars, loop, batch, held, active, task, req, adm, fate>>

\* Mutant: the wait for a slot does not look at the context.
BeginDrainButNotAtSlots(w) ==
  /\ term[w]
  /\ loop[w] \in {"promote", "promoting", "reclaim", "reclaiming"}
  /\ loop' = [loop EXCEPT ![w] = "draining"]
  /\ batch' = [batch EXCEPT ![w] = {}]
  /\ UNCHANGED <<catalogVars, queueVars, held, active, term, task, req, adm, fate, spent>>

\* Every call of the loop fails under the cancelled context until its top.
BeginDrain(w) ==
  /\ term[w]
  /\ loop[w] \in {"promote", "promoting", "reclaim", "reclaiming", "acquire"}
  /\ loop' = [loop EXCEPT ![w] = "draining"]
  /\ batch' = [batch EXCEPT ![w] = {}]
  /\ UNCHANGED <<catalogVars, queueVars, held, active, term, task, req, adm, fate, spent>>

\* wg.Wait returns, or it times out with activeJob nil and the process exits
\* under its goroutines.
Stop(w) ==
  /\ loop[w] = "draining" /\ active[w] = NoJob
  /\ Drop(Exposed(w))
  /\ WorkerRestart(w)
  /\ UNCHANGED <<catalogVars, queueVars, req, adm, spent>>

\* WorkerShutdownTimeout passes: RequeueTranscode(activeJob).
DrainTimeout(w) ==
  /\ loop[w] = "draining" /\ active[w] # NoJob
  /\ held' = [held EXCEPT ![w] = active[w]]
  /\ loop' = [loop EXCEPT ![w] = "requeue"]
  /\ UNCHANGED <<catalogVars, queueVars, batch, active, term, task, req, adm, fate, spent>>

RequeueAck(w) ==
  /\ loop[w] = "requeue"
  /\ ZRemProcessing(held[w])
  /\ loop' = [loop EXCEPT ![w] = "requeueing"]
  /\ UNCHANGED <<catalogVars, pending, retry, due, dlq, stamp, batch, held, active,
                 term, task, req, adm, fate, spent>>

RequeuePush(w) ==
  /\ loop[w] = "requeueing"
  /\ LPush(held[w])
  /\ Drop(InFailure(w))
  /\ WorkerRestart(w)
  /\ UNCHANGED <<catalogVars, processing, overdue, retry, due, dlq, stamp,
                 req, adm, spent>>

\* A crash, or a shutdown whose RequeueTranscode fails.
Crash(w) ==
  /\ \/ Spend("crash")
     \/ loop[w] \in {"requeue", "requeueing"} /\ Spend("error")
  /\ Drop(Exposed(w))
  /\ WorkerRestart(w)
  /\ UNCHANGED <<catalogVars, queueVars, req, adm>>

-----------------------------------------------------------------------------
(* Time *)

BecomeDue(j) ==
  /\ j \in retry \ due
  /\ due' = due \cup {j}
  /\ UNCHANGED <<catalogVars, pending, processing, overdue, retry, dlq, stamp,
                 workerVars, req, adm, fate, spent>>

\* Nothing renews a deadline, so a slow run passes it while it goes on.
Expire(j) ==
  /\ j \in processing \ overdue
  /\ IF Running(j) THEN Spend("slow") ELSE UNCHANGED spent
  /\ overdue' = overdue \cup {j}
  /\ UNCHANGED <<catalogVars, pending, processing, retry, due, dlq, stamp,
                 workerVars, req, adm, fate>>

-----------------------------------------------------------------------------
(* Administrators: retryDLQ, which calls RetryDLQJob *)

DlqFind(a, t, e) ==
  /\ adm[a].pc = "idle"
  /\ NewestOf(e, {j \in JobIds : job[j].track = t})
  /\ Spend("replay")
  /\ adm' = [adm EXCEPT ![a] = [pc |-> "found", entry |-> e]]
  /\ UNCHANGED <<catalogVars, queueVars, workerVars, req, fate>>

\* How many entries LREM removed is not looked at.
DlqRemove(a) ==
  /\ adm[a].pc = "found"
  /\ LRemDLQ(adm[a].entry)
  /\ adm' = [adm EXCEPT ![a].pc = "removed"]
  /\ UNCHANGED <<catalogVars, pending, processing, overdue, retry, due, stamp,
                 workerVars, req, fate, spent>>

DlqEnqueue(a) ==
  /\ adm[a].pc = "removed"
  /\ LPush(adm[a].entry.job)
  /\ adm' = [adm EXCEPT ![a].pc = "pushed"]
  /\ UNCHANGED <<catalogVars, processing, overdue, retry, due, dlq, stamp,
                 workerVars, req, fate, spent>>

\* The enqueue fails: the entry is pushed back, which may fail as well.
DlqEnqueueFails(a) ==
  /\ adm[a].pc = "removed"
  /\ Spend("apiFault")
  /\ \/ dlq' = Append(dlq, adm[a].entry) /\ UNCHANGED fate
     \/ Drop({adm[a].entry.job}) /\ UNCHANGED dlq
  /\ adm' = [adm EXCEPT ![a] = IdleAdm]
  /\ UNCHANGED <<catalogVars, pending, processing, overdue, retry, due, stamp,
                 workerVars, req>>

\* The track is marked after the job is back in the queue.
DlqMark(a) ==
  /\ adm[a].pc = "pushed"
  /\ UpdateStatus(job[adm[a].entry.job].track, "processing", FALSE)
  /\ adm' = [adm EXCEPT ![a] = IdleAdm]
  /\ UNCHANGED <<job, queueVars, workerVars, req, fate, spent>>

\* The API process dies, or LREM or the last UPDATE fails.
AdminAbort(a) ==
  /\ adm[a].pc # "idle"
  /\ Spend("apiFault")
  /\ Drop(IF adm[a].pc = "removed" THEN {adm[a].entry.job} ELSE {})
  /\ adm' = [adm EXCEPT ![a] = IdleAdm]
  /\ UNCHANGED <<catalogVars, queueVars, workerVars, req>>

-----------------------------------------------------------------------------
(* The specification *)

RequestStep(r) ==
  \/ CompleteMark(r)
  \/ \E j \in JobIds : CompleteCreate(r, j) \/ RetryCreate(r, j)
  \/ RetryMark(r)
  \/ RequestEnqueue(r)

LoopMove(w) ==
  \/ PromoteScan(w)
  \/ ReclaimScan(w)
  \/ \E j \in JobIds : PromoteOne(w, j) \/ ReclaimOne(w, j) \/ Pop(w, j)
  \/ Acquire(w)
  \/ PopTimeout(w)
  \/ \E s \in Slots : Claim(w, s)
  \/ ClaimFails(w)
  \/ BeginDrain(w)
  \/ DrainTimeout(w)
  \/ RequeueAck(w)

\* The end of the process, which takes all its goroutines with it.
Exit(w) == Stop(w) \/ RequeuePush(w)
End(w) == Exit(w) \/ Crash(w)

LoopStep(w) == LoopMove(w) \/ Exit(w)

TaskStep(w, s) ==
  \/ MarkRunning(w, s)
  \/ MarkRunningFails(w, s)
  \/ Transcoded(w, s)
  \/ TranscodeFails(w, s)
  \/ Complete(w, s)
  \/ CompleteFails(w, s)
  \/ Ack(w, s)
  \/ Lookup(w, s)
  \/ ResetJob(w, s)
  \/ BackToProcessing(w, s)
  \/ FailJob(w, s)
  \/ BackToDraft(w, s)
  \/ ScheduleRetry(w, s)
  \/ Bury(w, s)
  \/ Leave(w, s)

AdminStep(a) == DlqRemove(a) \/ DlqEnqueue(a) \/ DlqMark(a)

Arrival ==
  \/ \E r \in Requests, t \in Tracks : CompleteCheck(r, t) \/ RetryCheck(r, t)
  \/ \E a \in Admins, t \in Tracks : \E e \in ToSet(dlq) : DlqFind(a, t, e)

Fault ==
  \/ \E r \in Requests : RequestEnqueueFails(r) \/ RequestAbort(r)
  \/ \E w \in Workers : Signal(w)
  \/ \E w \in Workers, j \in JobIds : MoveFails(w, j)
  \/ \E w \in Workers, s \in Slots :
       \/ AckFails(w, s)
       \/ LookupFails(w, s)
       \/ FailureWriteFails(w, s)
       \/ EnqueueFails(w, s)
  \/ \E a \in Admins : DlqEnqueueFails(a) \/ AdminAbort(a)

\* What happens while no worker process ends.
Work ==
  \/ Arrival
  \/ \E r \in Requests : RequestStep(r)
  \/ \E w \in Workers : LoopMove(w)
  \/ \E w \in Workers, s \in Slots : TaskStep(w, s)
  \/ \E a \in Admins : AdminStep(a)
  \/ \E j \in JobIds : BecomeDue(j) \/ Expire(j)
  \/ Fault

Next == Work \/ \E w \in Workers : End(w)

Spec == Init /\ [][Next]_vars

\* A handler and a goroutine that started run on, the main loop runs for ever,
\* and time passes.  Nothing obliges a creator or an administrator to act, a
\* run to succeed, or a disturbance to happen.
Fairness ==
  /\ \A r \in Requests : WF_vars(RequestStep(r))
  /\ \A w \in Workers : WF_vars(LoopStep(w))
  /\ \A w \in Workers, s \in Slots : WF_vars(TaskStep(w, s))
  /\ \A a \in Admins : WF_vars(AdminStep(a))
  /\ \A j \in JobIds : WF_vars(BecomeDue(j)) /\ WF_vars(Expire(j))

FairSpec == Spec /\ Fairness

-----------------------------------------------------------------------------
(* Safety *)

InDLQ(j) == \E i \in 1..Len(dlq) : dlq[i].job = j

Queued(j) ==
  Contains(pending, j) \/ j \in processing \/ j \in retry \/ InDLQ(j)

InHands(j) == \E w \in Workers : j \in Exposed(w)

\* Jobs an administrator has taken out of the dead letters and not yet queued.
Replaying(j) == \E a \in Admins : adm[a].pc = "removed" /\ adm[a].entry.job = j

Carried(j) == Queued(j) \/ InHands(j) \/ Replaying(j)

(* A job that was queued and has not completed is in one of the four keys, *)
(* or in the hands of an actor that is about to write it to one, unless    *)
(* such an actor died or its write failed.  A goroutine that runs the job  *)
(* is not counted: the job must survive it.                                *)
AccountedFor == \A j \in JobIds : fate[j] = "submitted" => Carried(j)

(* Without a crash, a shutdown or a failed call no job is lost: not by two *)
(* workers moving the same member, by runs that outlast their deadline and *)
(* are run again meanwhile, or by administrators replaying one dead letter.*)
NoLossWithoutFault ==
  (\A d \in {"crash", "signal", "error", "apiFault"} : spent[d] = 0) =>
    \A j \in JobIds : fate[j] # "dropped" /\ (fate[j] = "submitted" => Carried(j))

(* A job is dead-lettered only after MaxAttempts runs of it have started,  *)
(* as long as the job row can be read.                                     *)
DeadLetterEarned ==
  spent["error"] = 0 =>
    \A i \in 1..Len(dlq) : job[dlq[i].job].attempts >= MaxAttempts

WillWriteStatus(j) ==
  \/ Contains(pending, j)
  \/ j \in processing
  \/ j \in retry
  \/ \E w \in Workers : j \in Exposed(w)
  \/ \E w \in Workers, s \in Slots :
       task[w][s].job = j /\ task[w][s].pc \in {"start", "work", "failed"}

NoWorkerDeath == spent["crash"] = 0 /\ spent["signal"] = 0

\* A shutdown requeues a job whose goroutine may have scheduled its retry: the
\* two copies run at once only where there are two slots.
NoDuplicateRun ==
  /\ Cardinality(Workers) = 1 /\ spent["slow"] = 0 /\ spent["error"] = 0
  /\ spent["signal"] = 0 \/ Cardinality(Slots) = 1

(* A track shown as processing is not stuck: a request is still at work on *)
(* it, or one of its jobs will write its status again, or was dropped, or  *)
(* is a dead letter whose burial PostgreSQL did not record.  This needs    *)
(* that no worker dies or that no job is run twice at once: the Ack of one *)
(* run removes the processing entry of the other, which a death then loses.*)
ProcessingHasJob ==
  (/\ spent["apiFault"] = 0 /\ spent["replay"] = 0
   /\ NoWorkerDeath \/ NoDuplicateRun) =>
    \A t \in Tracks : track[t].status = "processing" =>
      \/ \E r \in Requests : req[r].track = t /\ req[r].pc \in {"marked", "created"}
      \/ \E j \in JobIds :
           /\ job[j].track = t
           /\ \/ WillWriteStatus(j)
              \/ fate[j] = "dropped"
              \/ spent["error"] > 0 /\ InDLQ(j)

Copies(j) ==
  Cardinality({i \in 1..Len(pending) : pending[i] = j})
  + Cardinality({w \in Workers : j \in InHand(w)})
  + Cardinality({x \in Workers \X Slots : Runs(x[1], x[2], j)})

(* With one worker process and no run that outlasts its deadline a job is  *)
(* never in two places to be run from.                                     *)
OneRunPerJob == \A j \in JobIds : Copies(j) <= 1

(* A job is tried MaxAttempts times, and once more for each time its       *)
(* worker died under it or an administrator replayed it.                   *)
AttemptsBounded ==
  \A j \in JobIds :
    job[j].attempts <= MaxAttempts + spent["crash"] + spent["signal"] + spent["replay"]

(* What main requeues at shutdown is a job whose goroutine has not exited. *)
ActiveJobInFlight ==
  \A w \in Workers : active[w] # NoJob =>
    \E s \in Slots : task[w][s].job = active[w]

(* A completed job row is reopened only after a worker died, or requeued   *)
(* its active job at shutdown, between MarkJobCompleted and its exit.      *)
CompletedStays ==
  [][\A j \in JobIds : job[j].status = "completed" =>
       job'[j].status = "completed" \/ spent["crash"] + spent["signal"] > 0]_job

-----------------------------------------------------------------------------
(* Documented, and not so *)

(* redis.go: DequeueTranscode "pops a job and marks it in the processing   *)
(* set with a visibility deadline".  While that deadline has not passed,   *)
(* the job of a goroutine that has started and not ended is in the set.    *)
RunIsProtected ==
  spent["slow"] = 0 =>
    \A w \in Workers, s \in Slots :
      task[w][s].pc \in {"start", "work", "finishing"} => task[w][s].job \in processing

-----------------------------------------------------------------------------
(* Liveness *)

(* A queued job completes or lands in the dead letters, across crashes and *)
(* shutdowns, except for those that are dropped with a job in hand.        *)
EveryJobSettles ==
  \A j \in JobIds :
    fate[j] = "submitted" ~> (fate[j] \in {"done", "dropped"} \/ InDLQ(j))

(* A track does not stay in processing, unless one of its jobs is dropped. *)
NoTrackStuck ==
  \A t \in Tracks :
    track[t].status = "processing" ~>
      \/ track[t].status # "processing"
      \/ \E j \in JobIds : job[j].track = t /\ fate[j] = "dropped"

(* A worker that was told to stop does.                                    *)
ShutdownEnds == \A w \in Workers : term[w] ~> ~term[w]
=============================================================================
