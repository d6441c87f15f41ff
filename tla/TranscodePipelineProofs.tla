---------------------- MODULE TranscodePipelineProofs ----------------------
(***************************************************************************)
(* No job of TranscodePipeline is lost silently, and without a fault none  *)
(* is lost at all, for any number of workers, slots, requests,             *)
(* administrators, tracks, jobs and disturbances.                          *)
(*                                                                         *)
(* First the type invariant, which is inductive once every program point   *)
(* that uses a job has one.                                                *)
(*                                                                         *)
(* The argument: each Redis command adds one job to the keys, takes one    *)
(* from them, or leaves them alone (Adds, Takes, QueuedSame), and each     *)
(* step keeps in workers' hands all jobs but those it lets go (HandsKept). *)
(* A step that takes a job has it in hand afterwards, and one that lets go *)
(* of it adds it, completes it or drops it.  That needs to know whose job  *)
(* it is: the rest of SafeInv.                                             *)
(*                                                                         *)
(* Below, that only jobs with their attempts spent are buried (EarnedInv)  *)
(* and that the job main would requeue at its end is one a goroutine of    *)
(* that process still runs, which is inductive as it stands.               *)
(*                                                                         *)
(* Then how often a job is run.  With one worker process that is neither   *)
(* shut down nor slow, and whose calls do not fail, a job is in one place  *)
(* at a time, through crashes, failing requests and replays: hence it is   *)
(* run from one place, as often as MaxAttempts, the crashes and the        *)
(* replays allow, and no more once it has completed.                       *)
(*                                                                         *)
(* Last, that a processing track is not left behind: it has a job that     *)
(* somebody will still run or has buried.  The argument follows one job:   *)
(* wherever it is kept, it is either taken on by the same step that lets   *)
(* it go, or the track leaves processing with it.  Where a worker may die, *)
(* that is true only as long as no second copy is run whose ack could take *)
(* the job's last entry.                                                   *)
(***************************************************************************)
EXTENDS TranscodePipeline, SequenceTheorems, FiniteSetTheorems, TLAPS

-----------------------------------------------------------------------------
(* Types. *)

\* TypeOK by the part of the state it is about, each part with the condition
\* that a program point which uses a job or an entry holds one.
TrackType == track \in [Tracks -> [status : Status, err : BOOLEAN, sched : Schedule]]
JobType ==
  job \in [JobIds -> [track : Tracks \cup {NoTrack}, status : JobStatus, attempts : Nat]]
LoopType ==
  /\ loop \in [Workers -> LoopPc]
  /\ batch \in [Workers -> SUBSET JobIds]
  /\ held \in [Workers -> JobIds \cup {NoJob}]
  /\ active \in [Workers -> JobIds \cup {NoJob}]
  /\ term \in [Workers -> BOOLEAN]
  /\ \A w \in Workers :
       loop[w] \in {"popped", "requeue", "requeueing"} => held[w] \in JobIds
TaskType ==
  /\ task \in [Workers -> [Slots -> [pc : TaskPc, job : JobIds \cup {NoJob}]]]
  /\ \A w \in Workers, s \in Slots :
       task[w][s].pc # "idle" => task[w][s].job \in JobIds
ReqType ==
  /\ req \in [Requests -> [pc : ReqPc, track : Tracks \cup {NoTrack},
                           job : JobIds \cup {NoJob}]]
  /\ \A r \in Requests :
       req[r].pc \in {"retryCreated", "created"} => req[r].job \in JobIds
AdmType ==
  /\ adm \in [Admins -> [pc : AdmPc, entry : AnyEntry]]
  /\ \A a \in Admins : adm[a].pc # "idle" => adm[a].entry \in DLQEntry
HistoryType == fate \in [JobIds -> Fate] /\ spent \in [Disturbances -> Nat]

TypeInv ==
  /\ TrackType /\ JobType /\ QueueTypeOK /\ LoopType
  /\ TaskType /\ ReqType /\ AdmType /\ HistoryType

-----------------------------------------------------------------------------
(* What the statements, the commands and the helpers preserve. *)

\* UPDATE tracks SET status, processing_error.
LEMMA UpdateStatusType ==
  ASSUME TrackType, NEW t, NEW s \in Status, NEW e \in BOOLEAN, UpdateStatus(t, s, e)
  PROVE  TrackType'
BY DEF TrackType, UpdateStatus

\* The UPDATEs of transcode_jobs.
LEMMA MarkJobType ==
  ASSUME JobType, NEW j \in JobIds,
         \/ MarkJobRunning(j)
         \/ MarkJobCompleted(j)
         \/ MarkJobFailed(j)
         \/ ResetJobPending(j)
  PROVE  JobType'
BY DEF JobType, MarkJobRunning, MarkJobCompleted, MarkJobFailed, ResetJobPending, JobStatus

\* The INSERT into transcode_jobs.
LEMMA CreateJobType ==
  ASSUME JobType, NEW j \in JobIds, NEW t \in Tracks \cup {NoTrack}, CreateTranscodeJob(j, t)
  PROVE  JobType'
BY DEF JobType, CreateTranscodeJob, JobStatus

\* Removing one element leaves a sequence over the same set.
LEMMA RemoveAtType ==
  ASSUME NEW S, NEW q \in Seq(S), NEW i \in 1..Len(q)
  PROVE  RemoveAt(q, i) \in Seq(S)
BY DEF RemoveAt

\* LREM of one entry.
LEMMA LRemType ==
  ASSUME dlq \in Seq(DLQEntry), NEW e, LRemDLQ(e)
  PROVE  dlq' \in Seq(DLQEntry)
<1>1. CASE Contains(dlq, e)
  <2>1. PICK i \in 1..Len(dlq) : dlq' = RemoveAt(dlq, i)
    BY <1>1 DEF LRemDLQ, Contains
  <2>2. QED BY <2>1, RemoveAtType
<1>2. CASE ~Contains(dlq, e)
  BY <1>2 DEF LRemDLQ
<1>3. QED BY <1>1, <1>2

\* A goroutine that has a job moves on with it.
LEMMA TaskGotoType ==
  ASSUME TaskType, NEW w \in Workers, NEW s \in Slots, NEW pc \in TaskPc \ {"idle"},
         task[w][s].pc # "idle", TaskGoto(w, s, pc)
  PROVE  TaskType'
BY DEF TaskType, TaskGoto

\* A worker starts again with nothing in its hands.
LEMMA RestartType ==
  ASSUME LoopType, TaskType, NEW w \in Workers, WorkerRestart(w)
  PROVE  LoopType' /\ TaskType'
BY DEF LoopType, TaskType, WorkerRestart, IdleTask, LoopPc, TaskPc, FailurePc

\* The history variables.
LEMMA SpendType ==
  ASSUME HistoryType, NEW d \in Disturbances, Spend(d)
  PROVE  spent' \in [Disturbances -> Nat]
BY DEF HistoryType, Spend

\* A drop leaves every fate a fate.
LEMMA DropType ==
  ASSUME HistoryType, NEW S, Drop(S)
  PROVE  fate' \in [JobIds -> Fate]
BY DEF HistoryType, Drop, Fate

-----------------------------------------------------------------------------
(* Each action preserves the parts it disturbs and leaves the others alone. *)

USE DEF TypeInv, catalogVars, queueVars, workerVars

\* Creators.
LEMMA RequestTypes ==
  ASSUME PipelineAssumption, TypeInv
  PROVE
    /\ \A r \in Requests, t \in Tracks : CompleteCheck(r, t) => TypeInv'
    /\ \A r \in Requests : CompleteMark(r) => TypeInv'
    /\ \A r \in Requests, j \in JobIds : CompleteCreate(r, j) => TypeInv'
    /\ \A r \in Requests : RequestEnqueue(r) => TypeInv'
    /\ \A r \in Requests : RequestEnqueueFails(r) => TypeInv'
    /\ \A r \in Requests, t \in Tracks : RetryCheck(r, t) => TypeInv'
    /\ \A r \in Requests, j \in JobIds : RetryCreate(r, j) => TypeInv'
    /\ \A r \in Requests : RetryMark(r) => TypeInv'
    /\ \A r \in Requests : RequestAbort(r) => TypeInv'
<1>1. ASSUME NEW r \in Requests, NEW t \in Tracks, CompleteCheck(r, t) PROVE TypeInv'
  <2>1. ReqType'
    BY <1>1 DEF ReqType, ReqPc, CompleteCheck
  <2>2. QED
    BY <1>1, <2>1
    DEF CompleteCheck, TrackType, JobType, QueueTypeOK, LoopType, TaskType, AdmType,
        HistoryType
<1>2. ASSUME NEW r \in Requests, CompleteMark(r) PROVE TypeInv'
  <2>1. TrackType'
    BY <1>2, UpdateStatusType DEF TrackType, Status, CompleteMark
  <2>2. ReqType'
    BY <1>2 DEF ReqType, ReqPc, CompleteMark
  <2>3. QED
    BY <1>2, <2>1, <2>2
    DEF CompleteMark, JobType, QueueTypeOK, LoopType, TaskType, AdmType, HistoryType
<1>3. ASSUME NEW r \in Requests, NEW j \in JobIds, CompleteCreate(r, j) PROVE TypeInv'
  <2>1. JobType'
    BY <1>3, CreateJobType DEF JobType, ReqType, CompleteCreate
  <2>2. ReqType'
    BY <1>3 DEF ReqType, ReqPc, CompleteCreate
  <2>3. QED
    BY <1>3, <2>1, <2>2
    DEF CompleteCreate, TrackType, QueueTypeOK, LoopType, TaskType, AdmType,
        HistoryType
<1>4. ASSUME NEW r \in Requests, RequestEnqueue(r) PROVE TypeInv'
  <2>1. QueueTypeOK'
    BY <1>4 DEF QueueTypeOK, LPush, ReqType, ReqPc, RequestEnqueue
  <2>2. ReqType'
    BY <1>4 DEF ReqType, ReqPc, IdleReq, RequestEnqueue
  <2>3. HistoryType'
    BY <1>4 DEF HistoryType, Fate, ReqType, RequestEnqueue
  <2>4. QED
    BY <1>4, <2>1, <2>2, <2>3
    DEF RequestEnqueue, TrackType, JobType, LoopType, TaskType, AdmType
<1>5. ASSUME NEW r \in Requests, RequestEnqueueFails(r) PROVE TypeInv'
  <2>1. TrackType'
    BY <1>5, UpdateStatusType DEF TrackType, Status, RequestEnqueueFails
  <2>2. ReqType'
    BY <1>5 DEF ReqType, ReqPc, IdleReq, RequestEnqueueFails
  <2>3. HistoryType'
    BY <1>5, SpendType DEF HistoryType, Disturbances, RequestEnqueueFails
  <2>4. QED
    BY <1>5, <2>1, <2>2, <2>3
    DEF RequestEnqueueFails, JobType, QueueTypeOK, LoopType, TaskType, AdmType
<1>6. ASSUME NEW r \in Requests, NEW t \in Tracks, RetryCheck(r, t) PROVE TypeInv'
  <2>1. ReqType'
    BY <1>6 DEF ReqType, ReqPc, RetryCheck
  <2>2. QED
    BY <1>6, <2>1
    DEF RetryCheck, TrackType, JobType, QueueTypeOK, LoopType, TaskType, AdmType,
        HistoryType
<1>7. ASSUME NEW r \in Requests, NEW j \in JobIds, RetryCreate(r, j) PROVE TypeInv'
  <2>1. JobType'
    BY <1>7, CreateJobType DEF JobType, ReqType, RetryCreate
  <2>2. ReqType'
    BY <1>7 DEF ReqType, ReqPc, RetryCreate
  <2>3. QED
    BY <1>7, <2>1, <2>2
    DEF RetryCreate, TrackType, QueueTypeOK, LoopType, TaskType, AdmType, HistoryType
<1>8. ASSUME NEW r \in Requests, RetryMark(r) PROVE TypeInv'
  <2>1. TrackType'
    BY <1>8, UpdateStatusType DEF TrackType, Status, RetryMark
  <2>2. ReqType'
    BY <1>8 DEF ReqType, ReqPc, RetryMark
  <2>3. QED
    BY <1>8, <2>1, <2>2
    DEF RetryMark, JobType, QueueTypeOK, LoopType, TaskType, AdmType, HistoryType
<1>9. ASSUME NEW r \in Requests, RequestAbort(r) PROVE TypeInv'
  <2>1. ReqType'
    BY <1>9 DEF ReqType, ReqPc, IdleReq, RequestAbort
  <2>2. HistoryType'
    BY <1>9, SpendType DEF HistoryType, Disturbances, RequestAbort
  <2>3. QED
    BY <1>9, <2>1, <2>2
    DEF RequestAbort, TrackType, JobType, QueueTypeOK, LoopType, TaskType, AdmType
<1>10. QED BY <1>1, <1>2, <1>3, <1>4, <1>5, <1>6, <1>7, <1>8, <1>9

\* The main loop and the signal.
LEMMA LoopTypes ==
  ASSUME PipelineAssumption, TypeInv
  PROVE
    /\ \A w \in Workers : PromoteScan(w) => TypeInv'
    /\ \A w \in Workers, j \in JobIds : PromoteOne(w, j) => TypeInv'
    /\ \A w \in Workers : ReclaimScan(w) => TypeInv'
    /\ \A w \in Workers, j \in JobIds : ReclaimOne(w, j) => TypeInv'
    /\ \A w \in Workers, j \in JobIds : MoveFails(w, j) => TypeInv'
    /\ \A w \in Workers : Acquire(w) => TypeInv'
    /\ \A w \in Workers, j \in JobIds : Pop(w, j) => TypeInv'
    /\ \A w \in Workers : PopTimeout(w) => TypeInv'
    /\ \A w \in Workers, s \in Slots : Claim(w, s) => TypeInv'
    /\ \A w \in Workers : ClaimFails(w) => TypeInv'
    /\ \A w \in Workers : BeginDrain(w) => TypeInv'
    /\ \A w \in Workers : DrainTimeout(w) => TypeInv'
    /\ \A w \in Workers : RequeueAck(w) => TypeInv'
    /\ \A w \in Workers : Signal(w) => TypeInv'
<1>1. ASSUME NEW w \in Workers, PromoteScan(w) PROVE TypeInv'
  <2>1. LoopType'
    BY <1>1 DEF LoopType, LoopPc, QueueTypeOK, PromoteScan
  <2>2. QED
    BY <1>1, <2>1
    DEF PromoteScan, TrackType, JobType, QueueTypeOK, TaskType, ReqType, AdmType,
        HistoryType
<1>2. ASSUME NEW w \in Workers, NEW j \in JobIds, PromoteOne(w, j) PROVE TypeInv'
  <2>1. QueueTypeOK'
    BY <1>2 DEF QueueTypeOK, PromoteMember, LPush, PromoteOne
  <2>2. LoopType'
    BY <1>2 DEF LoopType, LoopPc, Moved, PromoteOne
  <2>3. QED
    BY <1>2, <2>1, <2>2
    DEF PromoteOne, TrackType, JobType, TaskType, ReqType, AdmType, HistoryType
<1>3. ASSUME NEW w \in Workers, ReclaimScan(w) PROVE TypeInv'
  <2>1. LoopType'
    BY <1>3 DEF LoopType, LoopPc, QueueTypeOK, ReclaimScan
  <2>2. QED
    BY <1>3, <2>1
    DEF ReclaimScan, TrackType, JobType, QueueTypeOK, TaskType, ReqType, AdmType,
        HistoryType
<1>4. ASSUME NEW w \in Workers, NEW j \in JobIds, ReclaimOne(w, j) PROVE TypeInv'
  <2>1. QueueTypeOK'
    BY <1>4 DEF QueueTypeOK, ReclaimMember, LPush, ZRemProcessing, ReclaimOne
  <2>2. LoopType'
    BY <1>4 DEF LoopType, LoopPc, Moved, ReclaimOne
  <2>3. QED
    BY <1>4, <2>1, <2>2
    DEF ReclaimOne, TrackType, JobType, TaskType, ReqType, AdmType, HistoryType
<1>5. ASSUME NEW w \in Workers, NEW j \in JobIds, MoveFails(w, j) PROVE TypeInv'
  <2>1. QueueTypeOK'
    BY <1>5, SMTT(30) DEF QueueTypeOK, LPush, MoveFails
  <2>2. LoopType'
    BY <1>5 DEF LoopType, LoopPc, MoveFails
  <2>3. HistoryType'
    BY <1>5, SpendType DEF HistoryType, Disturbances, MoveFails
  <2>4. QED
    BY <1>5, <2>1, <2>2, <2>3
    DEF MoveFails, TrackType, JobType, TaskType, ReqType, AdmType
<1>6. ASSUME NEW w \in Workers, Acquire(w) PROVE TypeInv'
  <2>1. LoopType'
    BY <1>6 DEF LoopType, LoopPc, Acquire
  <2>2. QED
    BY <1>6, <2>1
    DEF Acquire, TrackType, JobType, QueueTypeOK, TaskType, ReqType, AdmType,
        HistoryType
<1>7. ASSUME NEW w \in Workers, NEW j \in JobIds, Pop(w, j) PROVE TypeInv'
  <2>1. QueueTypeOK'
    BY <1>7 DEF QueueTypeOK, BRPop, Pop
  <2>2. LoopType'
    BY <1>7 DEF LoopType, LoopPc, Pop
  <2>3. QED
    BY <1>7, <2>1, <2>2
    DEF Pop, TrackType, JobType, TaskType, ReqType, AdmType, HistoryType
<1>8. ASSUME NEW w \in Workers, PopTimeout(w) PROVE TypeInv'
  <2>1. LoopType'
    BY <1>8 DEF LoopType, LoopPc, PopTimeout
  <2>2. QED
    BY <1>8, <2>1
    DEF PopTimeout, TrackType, JobType, QueueTypeOK, TaskType, ReqType, AdmType,
        HistoryType
<1>9. ASSUME NEW w \in Workers, NEW s \in Slots, Claim(w, s) PROVE TypeInv'
  <2>1. QueueTypeOK'
    BY <1>9 DEF QueueTypeOK, ZAddProcessing, LoopType, Claim
  <2>2. LoopType'
    BY <1>9 DEF LoopType, LoopPc, Claim
  <2>3. TaskType'
    BY <1>9 DEF TaskType, LoopType, TaskPc, FailurePc, Claim
  <2>4. QED
    BY <1>9, <2>1, <2>2, <2>3
    DEF Claim, TrackType, JobType, ReqType, AdmType, HistoryType
<1>10. ASSUME NEW w \in Workers, ClaimFails(w) PROVE TypeInv'
  <2>1. held[w] \in JobIds
    BY <1>10 DEF LoopType, ClaimFails
  <2>2. pending' = pending \/ pending' = Append(pending, held[w])
    BY <1>10, <2>1 DEF LPush, ClaimFails
  <2>3. pending' \in Seq(JobIds)
    <3>1. pending \in Seq(JobIds)
      BY DEF QueueTypeOK
    <3>2. Append(pending, held[w]) \in Seq(JobIds)
      BY <2>1, <3>1, AppendProperties
    <3>3. QED BY <2>2, <3>1, <3>2
  <2>4. QueueTypeOK'
    BY <1>10, <2>1, <2>2, <2>3 DEF QueueTypeOK, ClaimFails
  <2>5. LoopType'
    BY <1>10 DEF LoopType, LoopPc, ClaimFails
  <2>6. HistoryType'
    BY <1>10, SpendType, DropType DEF HistoryType, Disturbances, ClaimFails
  <2>7. QED
    BY <1>10, <2>1, <2>2, <2>3, <2>4, <2>5, <2>6
    DEF ClaimFails, TrackType, JobType, TaskType, ReqType, AdmType
<1>11. ASSUME NEW w \in Workers, BeginDrain(w) PROVE TypeInv'
  <2>1. LoopType'
    BY <1>11 DEF LoopType, LoopPc, BeginDrain
  <2>2. QED
    BY <1>11, <2>1
    DEF BeginDrain, TrackType, JobType, QueueTypeOK, TaskType, ReqType, AdmType,
        HistoryType
<1>12. ASSUME NEW w \in Workers, DrainTimeout(w) PROVE TypeInv'
  <2>1. LoopType'
    BY <1>12 DEF LoopType, LoopPc, DrainTimeout
  <2>2. QED
    BY <1>12, <2>1
    DEF DrainTimeout, TrackType, JobType, QueueTypeOK, TaskType, ReqType, AdmType,
        HistoryType
<1>13. ASSUME NEW w \in Workers, RequeueAck(w) PROVE TypeInv'
  <2>1. QueueTypeOK'
    BY <1>13 DEF QueueTypeOK, ZRemProcessing, RequeueAck
  <2>2. LoopType'
    BY <1>13 DEF LoopType, LoopPc, RequeueAck
  <2>3. QED
    BY <1>13, <2>1, <2>2
    DEF RequeueAck, TrackType, JobType, TaskType, ReqType, AdmType, HistoryType
<1>14. ASSUME NEW w \in Workers, Signal(w) PROVE TypeInv'
  <2>1. LoopType'
    BY <1>14 DEF LoopType, LoopPc, Signal
  <2>2. HistoryType'
    BY <1>14, SpendType DEF HistoryType, Disturbances, Signal
  <2>3. QED
    BY <1>14, <2>1, <2>2
    DEF Signal, TrackType, JobType, QueueTypeOK, TaskType, ReqType, AdmType
<1>15. QED BY <1>1, <1>2, <1>3, <1>4, <1>5, <1>6, <1>7, <1>8, <1>9, <1>10, <1>11, <1>12, <1>13, <1>14

\* The end of a worker process.
LEMMA RestartTypes ==
  ASSUME PipelineAssumption, TypeInv
  PROVE
    /\ \A w \in Workers : Stop(w) => TypeInv'
    /\ \A w \in Workers : RequeuePush(w) => TypeInv'
    /\ \A w \in Workers : Crash(w) => TypeInv'
<1>1. ASSUME NEW w \in Workers, Stop(w) PROVE TypeInv'
  <2>1. LoopType' /\ TaskType'
    BY <1>1, RestartType DEF Stop
  <2>2. HistoryType'
    BY <1>1, DropType DEF HistoryType, Stop
  <2>3. QED
    BY <1>1, <2>1, <2>2 DEF Stop, TrackType, JobType, QueueTypeOK, ReqType, AdmType
<1>2. ASSUME NEW w \in Workers, RequeuePush(w) PROVE TypeInv'
  <2>1. LoopType' /\ TaskType'
    BY <1>2, RestartType DEF RequeuePush
  <2>2. QueueTypeOK'
    BY <1>2 DEF QueueTypeOK, LPush, LoopType, RequeuePush
  <2>3. HistoryType'
    BY <1>2, DropType DEF HistoryType, RequeuePush
  <2>4. QED
    BY <1>2, <2>1, <2>2, <2>3 DEF RequeuePush, TrackType, JobType, ReqType, AdmType
<1>3. ASSUME NEW w \in Workers, Crash(w) PROVE TypeInv'
  <2>1. LoopType' /\ TaskType'
    BY <1>3, RestartType DEF Crash
  <2>2. HistoryType'
    BY <1>3, DropType, SpendType DEF HistoryType, Disturbances, Crash
  <2>3. QED
    BY <1>3, <2>1, <2>2 DEF Crash, TrackType, JobType, QueueTypeOK, ReqType, AdmType
<1>4. QED BY <1>1, <1>2, <1>3

\* A job goroutine.
LEMMA TaskTypes ==
  ASSUME PipelineAssumption, TypeInv
  PROVE
    /\ \A w \in Workers, s \in Slots : MarkRunning(w, s) => TypeInv'
    /\ \A w \in Workers, s \in Slots : MarkRunningFails(w, s) => TypeInv'
    /\ \A w \in Workers, s \in Slots : Transcoded(w, s) => TypeInv'
    /\ \A w \in Workers, s \in Slots : TranscodeFails(w, s) => TypeInv'
    /\ \A w \in Workers, s \in Slots : Complete(w, s) => TypeInv'
    /\ \A w \in Workers, s \in Slots : CompleteFails(w, s) => TypeInv'
    /\ \A w \in Workers, s \in Slots : Ack(w, s) => TypeInv'
    /\ \A w \in Workers, s \in Slots : AckFails(w, s) => TypeInv'
    /\ \A w \in Workers, s \in Slots : Lookup(w, s) => TypeInv'
    /\ \A w \in Workers, s \in Slots : LookupFails(w, s) => TypeInv'
    /\ \A w \in Workers, s \in Slots : ResetJob(w, s) => TypeInv'
    /\ \A w \in Workers, s \in Slots : BackToProcessing(w, s) => TypeInv'
    /\ \A w \in Workers, s \in Slots : FailJob(w, s) => TypeInv'
    /\ \A w \in Workers, s \in Slots : BackToDraft(w, s) => TypeInv'
    /\ \A w \in Workers, s \in Slots : FailureWriteFails(w, s) => TypeInv'
    /\ \A w \in Workers, s \in Slots : ScheduleRetry(w, s) => TypeInv'
    /\ \A w \in Workers, s \in Slots : Bury(w, s) => TypeInv'
    /\ \A w \in Workers, s \in Slots : EnqueueFails(w, s) => TypeInv'
    /\ \A w \in Workers, s \in Slots : Leave(w, s) => TypeInv'
<1>1. ASSUME NEW w \in Workers, NEW s \in Slots, MarkRunning(w, s) PROVE TypeInv'
  <2>1. JobType'
    BY <1>1, MarkJobType DEF JobType, TaskType, TaskAt, MarkRunning
  <2>2. TaskType'
    BY <1>1, TaskGotoType DEF TaskType, TaskAt, TaskPc, FailurePc, MarkRunning
  <2>3. QED
    BY <1>1, <2>1, <2>2
    DEF MarkRunning, TrackType, QueueTypeOK, LoopType, ReqType, AdmType, HistoryType
<1>2. ASSUME NEW w \in Workers, NEW s \in Slots, MarkRunningFails(w, s) PROVE TypeInv'
  <2>1. TaskType'
    BY <1>2, TaskGotoType DEF TaskType, TaskAt, TaskPc, FailurePc, MarkRunningFails
  <2>2. HistoryType'
    BY <1>2, SpendType DEF HistoryType, Disturbances, MarkRunningFails
  <2>3. QED
    BY <1>2, <2>1, <2>2
    DEF MarkRunningFails, TrackType, JobType, QueueTypeOK, LoopType, ReqType, AdmType
<1>3. ASSUME NEW w \in Workers, NEW s \in Slots, Transcoded(w, s) PROVE TypeInv'
  <2>1. TrackType'
    BY <1>3, UpdateStatusType DEF TrackType, Status, Transcoded
  <2>2. TaskType'
    BY <1>3, TaskGotoType DEF TaskType, TaskAt, TaskPc, FailurePc, Transcoded
  <2>3. QED
    BY <1>3, <2>1, <2>2
    DEF Transcoded, JobType, QueueTypeOK, LoopType, ReqType, AdmType, HistoryType
<1>4. ASSUME NEW w \in Workers, NEW s \in Slots, TranscodeFails(w, s) PROVE TypeInv'
  <2>1. TaskType'
    BY <1>4, TaskGotoType DEF TaskType, TaskAt, TaskPc, FailurePc, TranscodeFails
  <2>2. QED
    BY <1>4, <2>1
    DEF TranscodeFails, TrackType, JobType, QueueTypeOK, LoopType, ReqType, AdmType,
        HistoryType
<1>5. ASSUME NEW w \in Workers, NEW s \in Slots, Complete(w, s) PROVE TypeInv'
  <2>1. JobType'
    BY <1>5, MarkJobType DEF JobType, TaskType, TaskAt, Complete
  <2>2. TaskType'
    BY <1>5, TaskGotoType DEF TaskType, TaskAt, TaskPc, FailurePc, Complete
  <2>3. HistoryType'
    BY <1>5 DEF HistoryType, Fate, TaskType, TaskAt, Complete
  <2>4. QED
    BY <1>5, <2>1, <2>2, <2>3
    DEF Complete, TrackType, QueueTypeOK, LoopType, ReqType, AdmType
<1>6. ASSUME NEW w \in Workers, NEW s \in Slots, CompleteFails(w, s) PROVE TypeInv'
  <2>1. TaskType'
    BY <1>6, TaskGotoType DEF TaskType, TaskAt, TaskPc, FailurePc, CompleteFails
  <2>2. HistoryType'
    BY <1>6, SpendType DEF HistoryType, Disturbances, CompleteFails
  <2>3. QED
    BY <1>6, <2>1, <2>2
    DEF CompleteFails, TrackType, JobType, QueueTypeOK, LoopType, ReqType, AdmType
<1>7. ASSUME NEW w \in Workers, NEW s \in Slots, Ack(w, s) PROVE TypeInv'
  <2>1. QueueTypeOK'
    BY <1>7 DEF QueueTypeOK, ZRemProcessing, Ack
  <2>2. TaskType'
    BY <1>7, TaskGotoType DEF TaskType, AfterAck, TaskAt, TaskPc, FailurePc, Ack
  <2>3. QED
    BY <1>7, <2>1, <2>2
    DEF Ack, TrackType, JobType, LoopType, ReqType, AdmType, HistoryType
<1>8. ASSUME NEW w \in Workers, NEW s \in Slots, AckFails(w, s) PROVE TypeInv'
  <2>1. TaskType'
    BY <1>8, TaskGotoType DEF TaskType, AfterAck, TaskAt, TaskPc, FailurePc, AckFails
  <2>2. HistoryType'
    BY <1>8, SpendType DEF HistoryType, Disturbances, AckFails
  <2>3. QED
    BY <1>8, <2>1, <2>2
    DEF AckFails, TrackType, JobType, QueueTypeOK, LoopType, ReqType, AdmType
<1>9. ASSUME NEW w \in Workers, NEW s \in Slots, Lookup(w, s) PROVE TypeInv'
  <2>1. TaskType'
    BY <1>9, TaskGotoType DEF TaskType, TaskAt, TaskPc, FailurePc, Lookup
  <2>2. QED
    BY <1>9, <2>1
    DEF Lookup, TrackType, JobType, QueueTypeOK, LoopType, ReqType, AdmType, HistoryType
<1>10. ASSUME NEW w \in Workers, NEW s \in Slots, LookupFails(w, s) PROVE TypeInv'
  <2>1. TaskType'
    BY <1>10, TaskGotoType DEF TaskType, TaskAt, TaskPc, FailurePc, LookupFails
  <2>2. HistoryType'
    BY <1>10, SpendType DEF HistoryType, Disturbances, LookupFails
  <2>3. QED
    BY <1>10, <2>1, <2>2
    DEF LookupFails, TrackType, JobType, QueueTypeOK, LoopType, ReqType, AdmType
<1>11. ASSUME NEW w \in Workers, NEW s \in Slots, ResetJob(w, s) PROVE TypeInv'
  <2>1. TaskType'
    BY <1>11, TaskGotoType DEF TaskType, TaskAt, TaskPc, FailurePc, ResetJob
  <2>2. JobType'
    BY <1>11, MarkJobType DEF JobType, TaskType, TaskAt, ResetJob
  <2>3. QED
    BY <1>11, <2>1, <2>2
    DEF ResetJob, TrackType, QueueTypeOK, LoopType, ReqType, AdmType, HistoryType
<1>12. ASSUME NEW w \in Workers, NEW s \in Slots, BackToProcessing(w, s) PROVE TypeInv'
  <2>1. TaskType'
    BY <1>12, TaskGotoType DEF TaskType, TaskAt, TaskPc, FailurePc, BackToProcessing
  <2>2. TrackType'
    BY <1>12, UpdateStatusType DEF TrackType, Status, BackToProcessing
  <2>3. QED
    BY <1>12, <2>1, <2>2
    DEF BackToProcessing, JobType, QueueTypeOK, LoopType, ReqType, AdmType, HistoryType
<1>13. ASSUME NEW w \in Workers, NEW s \in Slots, FailJob(w, s) PROVE TypeInv'
  <2>1. TaskType'
    BY <1>13, TaskGotoType DEF TaskType, TaskAt, TaskPc, FailurePc, FailJob
  <2>2. JobType'
    BY <1>13, MarkJobType DEF JobType, TaskType, TaskAt, FailJob
  <2>3. QED
    BY <1>13, <2>1, <2>2
    DEF FailJob, TrackType, QueueTypeOK, LoopType, ReqType, AdmType, HistoryType
<1>14. ASSUME NEW w \in Workers, NEW s \in Slots, BackToDraft(w, s) PROVE TypeInv'
  <2>1. TaskType'
    BY <1>14, TaskGotoType DEF TaskType, TaskAt, TaskPc, FailurePc, BackToDraft
  <2>2. TrackType'
    BY <1>14, UpdateStatusType DEF TrackType, Status, BackToDraft
  <2>3. QED
    BY <1>14, <2>1, <2>2
    DEF BackToDraft, JobType, QueueTypeOK, LoopType, ReqType, AdmType, HistoryType
<1>15. ASSUME NEW w \in Workers, NEW s \in Slots, FailureWriteFails(w, s) PROVE TypeInv'
  <2>1. TaskType'
    BY <1>15, TaskGotoType DEF TaskType, TaskAt, TaskPc, FailurePc, FailureWriteFails
  <2>2. HistoryType'
    BY <1>15, SpendType DEF HistoryType, Disturbances, FailureWriteFails
  <2>3. QED
    BY <1>15, <2>1, <2>2
    DEF FailureWriteFails, TrackType, JobType, QueueTypeOK, LoopType, ReqType, AdmType
<1>16. ASSUME NEW w \in Workers, NEW s \in Slots, ScheduleRetry(w, s) PROVE TypeInv'
  <2>1. QueueTypeOK'
    BY <1>16 DEF QueueTypeOK, ZAddRetry, TaskType, TaskAt, ScheduleRetry
  <2>2. TaskType'
    BY <1>16, TaskGotoType DEF TaskType, TaskAt, TaskPc, FailurePc, ScheduleRetry
  <2>3. QED
    BY <1>16, <2>1, <2>2
    DEF ScheduleRetry, TrackType, JobType, LoopType, ReqType, AdmType, HistoryType
<1>17. ASSUME NEW w \in Workers, NEW s \in Slots, Bury(w, s) PROVE TypeInv'
  <2>1. QueueTypeOK'
    BY <1>17 DEF QueueTypeOK, PushDLQ, DLQEntry, TaskType, TaskAt, Bury
  <2>2. TaskType'
    BY <1>17, TaskGotoType DEF TaskType, TaskAt, TaskPc, FailurePc, Bury
  <2>3. QED
    BY <1>17, <2>1, <2>2
    DEF Bury, TrackType, JobType, LoopType, ReqType, AdmType, HistoryType
<1>18. ASSUME NEW w \in Workers, NEW s \in Slots, EnqueueFails(w, s) PROVE TypeInv'
  <2>1. TaskType'
    BY <1>18, TaskGotoType DEF TaskType, TaskAt, TaskPc, FailurePc, EnqueueFails
  <2>2. HistoryType'
    BY <1>18, SpendType, DropType DEF HistoryType, Disturbances, EnqueueFails
  <2>3. QED
    BY <1>18, <2>1, <2>2
    DEF EnqueueFails, TrackType, JobType, QueueTypeOK, LoopType, ReqType, AdmType
<1>19. ASSUME NEW w \in Workers, NEW s \in Slots, Leave(w, s) PROVE TypeInv'
  <2>1. LoopType'
    BY <1>19 DEF LoopType, Leave
  <2>2. TaskType'
    BY <1>19 DEF TaskType, IdleTask, TaskPc, FailurePc, Leave
  <2>3. QED
    BY <1>19, <2>1, <2>2
    DEF Leave, TrackType, JobType, QueueTypeOK, ReqType, AdmType, HistoryType
<1>20. QED BY <1>1, <1>2, <1>3, <1>4, <1>5, <1>6, <1>7, <1>8, <1>9, <1>10, <1>11, <1>12, <1>13, <1>14, <1>15, <1>16, <1>17, <1>18, <1>19

\* Administrators and time.
LEMMA AdminTypes ==
  ASSUME PipelineAssumption, TypeInv
  PROVE
    /\ \A a \in Admins, t \in Tracks, e \in ToSet(dlq) : DlqFind(a, t, e) => TypeInv'
    /\ \A a \in Admins : DlqRemove(a) => TypeInv'
    /\ \A a \in Admins : DlqEnqueue(a) => TypeInv'
    /\ \A a \in Admins : DlqEnqueueFails(a) => TypeInv'
    /\ \A a \in Admins : DlqMark(a) => TypeInv'
    /\ \A a \in Admins : AdminAbort(a) => TypeInv'
    /\ \A j \in JobIds : BecomeDue(j) => TypeInv'
    /\ \A j \in JobIds : Expire(j) => TypeInv'
<1>1. ASSUME NEW a \in Admins, NEW t \in Tracks, NEW e \in ToSet(dlq), DlqFind(a, t, e) PROVE TypeInv'
  <2>1. AdmType'
    BY <1>1 DEF AdmType, AdmPc, AnyEntry, ToSet, QueueTypeOK, DlqFind
  <2>2. HistoryType'
    BY <1>1, SpendType DEF HistoryType, Disturbances, DlqFind
  <2>3. QED
    BY <1>1, <2>1, <2>2
    DEF DlqFind, TrackType, JobType, QueueTypeOK, LoopType, TaskType, ReqType
<1>2. ASSUME NEW a \in Admins, DlqRemove(a) PROVE TypeInv'
  <2>1. QueueTypeOK'
    BY <1>2, LRemType DEF QueueTypeOK, DlqRemove
  <2>2. AdmType'
    BY <1>2 DEF AdmType, AdmPc, DlqRemove
  <2>3. QED
    BY <1>2, <2>1, <2>2
    DEF DlqRemove, TrackType, JobType, LoopType, TaskType, ReqType, HistoryType
<1>3. ASSUME NEW a \in Admins, DlqEnqueue(a) PROVE TypeInv'
  <2>1. QueueTypeOK'
    BY <1>3 DEF QueueTypeOK, LPush, AdmType, DLQEntry, DlqEnqueue
  <2>2. AdmType'
    BY <1>3 DEF AdmType, AdmPc, DlqEnqueue
  <2>3. QED
    BY <1>3, <2>1, <2>2
    DEF DlqEnqueue, TrackType, JobType, LoopType, TaskType, ReqType, HistoryType
<1>4. ASSUME NEW a \in Admins, DlqEnqueueFails(a) PROVE TypeInv'
  <2>1. adm[a].entry \in DLQEntry
    BY <1>4 DEF AdmType, DlqEnqueueFails
  <2>2. dlq' = dlq \/ dlq' = Append(dlq, adm[a].entry)
    BY <1>4, <2>1 DEF DlqEnqueueFails
  <2>3. dlq' \in Seq(DLQEntry)
    <3>1. dlq \in Seq(DLQEntry)
      BY DEF QueueTypeOK
    <3>2. Append(dlq, adm[a].entry) \in Seq(DLQEntry)
      BY <2>1, <3>1, AppendProperties
    <3>3. QED BY <2>2, <3>1, <3>2
  <2>4. QueueTypeOK'
    BY <1>4, <2>1, <2>2, <2>3 DEF QueueTypeOK, DlqEnqueueFails
  <2>5. AdmType'
    BY <1>4 DEF AdmType, AdmPc, IdleAdm, AnyEntry, DlqEnqueueFails
  <2>6. HistoryType'
    BY <1>4, SpendType, DropType DEF HistoryType, Disturbances, DlqEnqueueFails
  <2>7. QED
    BY <1>4, <2>1, <2>2, <2>3, <2>4, <2>5, <2>6
    DEF DlqEnqueueFails, TrackType, JobType, LoopType, TaskType, ReqType
<1>5. ASSUME NEW a \in Admins, DlqMark(a) PROVE TypeInv'
  <2>1. TrackType'
    BY <1>5, UpdateStatusType DEF TrackType, Status, DlqMark
  <2>2. AdmType'
    BY <1>5 DEF AdmType, AdmPc, IdleAdm, AnyEntry, DlqMark
  <2>3. QED
    BY <1>5, <2>1, <2>2
    DEF DlqMark, JobType, QueueTypeOK, LoopType, TaskType, ReqType, HistoryType
<1>6. ASSUME NEW a \in Admins, AdminAbort(a) PROVE TypeInv'
  <2>1. AdmType'
    BY <1>6 DEF AdmType, AdmPc, IdleAdm, AnyEntry, AdminAbort
  <2>2. HistoryType'
    BY <1>6, SpendType, DropType DEF HistoryType, Disturbances, AdminAbort
  <2>3. QED
    BY <1>6, <2>1, <2>2
    DEF AdminAbort, TrackType, JobType, QueueTypeOK, LoopType, TaskType, ReqType
<1>7. ASSUME NEW j \in JobIds, BecomeDue(j) PROVE TypeInv'
  <2>1. QueueTypeOK'
    BY <1>7 DEF QueueTypeOK, BecomeDue
  <2>2. QED
    BY <1>7, <2>1
    DEF BecomeDue, TrackType, JobType, LoopType, TaskType, ReqType, AdmType,
        HistoryType
<1>8. ASSUME NEW j \in JobIds, Expire(j) PROVE TypeInv'
  <2>1. QueueTypeOK'
    BY <1>8 DEF QueueTypeOK, Expire
  <2>2. HistoryType'
    BY <1>8, SpendType DEF HistoryType, Disturbances, Expire
  <2>3. QED
    BY <1>8, <2>1, <2>2
    DEF Expire, TrackType, JobType, LoopType, TaskType, ReqType, AdmType
<1>9. QED BY <1>1, <1>2, <1>3, <1>4, <1>5, <1>6, <1>7, <1>8

\* Together: every step of the pipeline preserves the type invariant.
LEMMA TypeStep ==
  ASSUME PipelineAssumption, TypeInv, [Next]_vars
  PROVE  TypeInv'
<1>1. CASE Arrival
  BY <1>1, RequestTypes, AdminTypes DEF Arrival
<1>2. CASE \E r \in Requests : RequestStep(r)
  BY <1>2, RequestTypes DEF RequestStep
<1>3. CASE \E w \in Workers : LoopMove(w) \/ End(w)
  BY <1>3, LoopTypes, RestartTypes DEF LoopMove, End, Exit
<1>4. CASE \E w \in Workers, s \in Slots : TaskStep(w, s)
  BY <1>4, TaskTypes DEF TaskStep
<1>5. CASE \E a \in Admins : AdminStep(a)
  BY <1>5, AdminTypes DEF AdminStep
<1>6. CASE \E j \in JobIds : BecomeDue(j) \/ Expire(j)
  BY <1>6, AdminTypes
<1>7. CASE Fault
  BY <1>7, RequestTypes, LoopTypes, RestartTypes, TaskTypes, AdminTypes DEF Fault
<1>8. CASE UNCHANGED vars
  BY <1>8 DEF vars, TrackType, JobType, QueueTypeOK, LoopType, TaskType, ReqType,
              AdmType, HistoryType
<1>9. QED BY <1>1, <1>2, <1>3, <1>4, <1>5, <1>6, <1>7, <1>8 DEF Next, Work

\* The initial state.
LEMMA TypeInit ==
  ASSUME Init
  PROVE  TypeInv
BY DEF Init, CatalogInit, QueueInit, IdleTask, IdleReq, IdleAdm, TrackType, JobType,
       QueueTypeOK, LoopType, TaskType, ReqType, AdmType, HistoryType, Status, JobStatus,
       Schedule, LoopPc, TaskPc, FailurePc, ReqPc, AdmPc, AnyEntry, Fate

\* Every state of every behaviour satisfies the strengthened type invariant.
THEOREM TypeInvariant == Spec => []TypeInv
<1>1. Init => TypeInv
  BY TypeInit
<1>2. TypeInv /\ [Next]_vars => TypeInv'
  BY PipelineAssumption, TypeStep
<1>3. QED BY <1>1, <1>2, PTL DEF Spec

(* The variables hold what their declarations say: the code never pushes,  *)
(* acknowledges or marks a job it does not have, whatever fails when.      *)
THEOREM TypeCorrect == Spec => []TypeOK
<1>1. TypeInv => TypeOK
  BY DEF TypeOK, CatalogTypeOK, TrackType, JobType, LoopType, TaskType, ReqType, AdmType,
         HistoryType
<1>2. QED BY <1>1, TypeInvariant, PTL

-----------------------------------------------------------------------------
(* Sequences: what LPUSH, BRPOP and LREM do to the members of a list. *)

\* LPUSH adds one member.
LEMMA LPushContains ==
  ASSUME QueueTypeOK, NEW j \in JobIds, LPush(j)
  PROVE  \A k : Contains(pending, k)' <=> Contains(pending, k) \/ k = j
BY AppendProperties DEF QueueTypeOK, LPush, Contains

\* BRPOP returns a member and removes no other.
LEMMA BRPopContains ==
  ASSUME QueueTypeOK, NEW j, BRPop(j)
  PROVE  /\ Contains(pending, j)
         /\ \A k : Contains(pending, k)' => Contains(pending, k)
         /\ \A k : Contains(pending, k) => Contains(pending, k)' \/ k = j
<1>1. Contains(pending, j)
  BY DEF QueueTypeOK, BRPop, Contains
<1>2. ASSUME NEW k, NEW i \in 1..Len(Tail(pending)), Tail(pending)[i] = k
      PROVE  Contains(pending, k)
  <2>1. i + 1 \in 1..Len(pending) /\ pending[i+1] = k
    BY <1>2 DEF QueueTypeOK, BRPop
  <2>2. QED BY <2>1 DEF Contains
<1>3. ASSUME NEW k, NEW i \in 1..Len(pending), pending[i] = k, k # j
      PROVE  Contains(Tail(pending), k)
  <2>1. i \in 2..Len(pending) /\ i - 1 \in 1..Len(Tail(pending)) /\ Tail(pending)[i - 1] = k
    BY <1>3 DEF QueueTypeOK, BRPop
  <2>2. QED BY <2>1 DEF Contains
<1>4. QED BY <1>1, <1>2, <1>3 DEF BRPop, Contains

\* Removing position i moves what stands after it one position down.
LEMMA RemoveAtPlaces ==
  ASSUME NEW S, NEW q \in Seq(S), NEW i \in 1..Len(q)
  PROVE  /\ Len(RemoveAt(q, i)) = Len(q) - 1
         /\ \A m \in 1..i-1 : RemoveAt(q, i)[m] = q[m]
         /\ \A m \in i..Len(q)-1 : RemoveAt(q, i)[m] = q[m+1]
<1> DEFINE f == SubSeq(q, 1, i-1)
           g == SubSeq(q, i+1, Len(q))
           p == f \o g
<1>a. /\ f \in Seq(S) /\ Len(f) = i-1 /\ \A m \in 1..i-1 : f[m] = q[m]
      /\ g \in Seq(S) /\ Len(g) = Len(q) - i /\ \A m \in 1..Len(q)-i : g[m] = q[m+i]
  <2>1. f \in Seq(S) /\ Len(f) = i-1 /\ \A m \in 1..i-1 : f[m] = q[m]
    BY SubSeqProperties, ElementOfSeq
  <2>2. g \in Seq(S) /\ Len(g) = Len(q) - i /\ \A m \in 1..Len(q)-i : g[m] = q[m+i]
    BY SubSeqProperties, ElementOfSeq
  <2>3. QED BY <2>1, <2>2
<1> HIDE DEF f, g
<1>1. p \in Seq(S) /\ Len(p) = Len(q) - 1
  <2>1. p \in Seq(S) /\ Len(p) = Len(f) + Len(g)
    BY <1>a, ConcatProperties
  <2>2. QED BY <2>1, <1>a, LenProperties
<1>2. \A m \in 1..i-1 : p[m] = q[m]
  BY <1>a
<1>3. \A m \in i..Len(q)-1 : p[m] = q[m+1]
  <2>1. TAKE m \in i..Len(q)-1
  <2>2. p[m] = g[m - (i-1)] /\ m - (i-1) \in 1..Len(q)-i
    BY <1>a, ConcatProperties
  <2>3. QED BY <1>a, <2>2
<1>b. p = RemoveAt(q, i)
  BY DEF RemoveAt, f, g
<1> HIDE DEF p
<1>4. QED BY <1>1, <1>2, <1>3, <1>b

\* It keeps what stands at every other position.
LEMMA RemoveAtContains ==
  ASSUME NEW S, NEW q \in Seq(S), NEW i \in 1..Len(q)
  PROVE  /\ \A m \in 1..Len(RemoveAt(q, i)) : \E n \in 1..Len(q) : RemoveAt(q, i)[m] = q[n]
         /\ \A n \in 1..Len(q) \ {i} : \E m \in 1..Len(RemoveAt(q, i)) : RemoveAt(q, i)[m] = q[n]
<1> DEFINE p == RemoveAt(q, i)
<1>1. /\ Len(p) = Len(q) - 1
      /\ \A m \in 1..i-1 : p[m] = q[m]
      /\ \A m \in i..Len(q)-1 : p[m] = q[m+1]
  BY RemoveAtPlaces
<1> HIDE DEF p
<1>4. \A m \in 1..Len(p) : \E n \in 1..Len(q) : p[m] = q[n]
  BY <1>1
<1>5. ASSUME NEW n \in 1..Len(q) \ {i} PROVE \E m \in 1..Len(p) : p[m] = q[n]
  <2>1. CASE n < i
    <3>1. n \in 1..i-1 /\ n \in 1..Len(p)
      BY <2>1, <1>1
    <3>2. QED BY <3>1, <1>1
  <2>2. CASE n > i
    <3>1. n - 1 \in i..Len(q)-1 /\ n - 1 \in 1..Len(p) /\ p[n-1] = q[n]
      BY <2>2, <1>1
    <3>2. QED BY <3>1
  <2>3. QED BY <2>1, <2>2
<1>6. QED BY <1>4, <1>5 DEF p

\* LREM of an entry takes at most a job of that entry from the dead letters.
LEMMA LRemIn ==
  ASSUME QueueTypeOK, NEW e, LRemDLQ(e)
  PROVE  /\ \A k : InDLQ(k)' => InDLQ(k)
         /\ \A k : InDLQ(k) /\ k # e.job => InDLQ(k)'
<1>1. CASE Contains(dlq, e)
  <2>1. PICK i \in 1..Len(dlq) : dlq[i] = e /\ dlq' = RemoveAt(dlq, i)
    BY <1>1 DEF LRemDLQ, Contains
  <2>2. ASSUME NEW k, InDLQ(k)' PROVE InDLQ(k)
    BY <2>1, <2>2, RemoveAtContains DEF QueueTypeOK, InDLQ
  <2>3. ASSUME NEW k, InDLQ(k), k # e.job PROVE InDLQ(k)'
    <3>1. PICK n \in 1..Len(dlq) : dlq[n].job = k
      BY <2>3 DEF InDLQ
    <3>2. n \in 1..Len(dlq) \ {i}
      BY <2>1, <2>3, <3>1
    <3>3. \E m \in 1..Len(dlq') : dlq'[m] = dlq[n]
      BY <2>1, <3>2, RemoveAtContains DEF QueueTypeOK
    <3>4. QED BY <3>1, <3>3 DEF InDLQ
  <2>4. QED BY <2>2, <2>3
<1>2. CASE ~Contains(dlq, e)
  BY <1>2 DEF LRemDLQ, InDLQ
<1>3. QED BY <1>1, <1>2

-----------------------------------------------------------------------------
(* What each command does to Queued: it adds one job to the four keys, or  *)
(* takes one that may be left in another key.                              *)

Adds(x) == \A j \in JobIds : Queued(j)' <=> Queued(j) \/ j = x
Takes(x) ==
  \A j \in JobIds : (Queued(j)' => Queued(j)) /\ (Queued(j) => Queued(j)' \/ j = x)
QueuedSame == \A j \in JobIds : Queued(j)' <=> Queued(j)

\* No command.
LEMMA NoCommand ==
  ASSUME UNCHANGED <<pending, processing, retry, dlq>>
  PROVE  QueuedSame
BY DEF QueuedSame, Queued, InDLQ

\* LPUSH to the pending list.
LEMMA LPushAdds ==
  ASSUME QueueTypeOK, NEW x \in JobIds, LPush(x), UNCHANGED <<processing, retry, dlq>>
  PROVE  Adds(x)
BY LPushContains DEF Adds, Queued, InDLQ

\* BRPOP.
LEMMA BRPopTakes ==
  ASSUME QueueTypeOK, NEW x, BRPop(x), UNCHANGED <<processing, retry, dlq>>
  PROVE  Takes(x) /\ (x \in JobIds => Queued(x))
BY BRPopContains DEF Takes, Queued, InDLQ

\* ZADD to the processing set.
LEMMA ZAddProcessingAdds ==
  ASSUME NEW x, ZAddProcessing(x), UNCHANGED <<pending, retry, dlq>>
  PROVE  Adds(x)
BY DEF ZAddProcessing, Adds, Queued, InDLQ

\* ZREM from the processing set.
LEMMA ZRemProcessingTakes ==
  ASSUME NEW x, ZRemProcessing(x), UNCHANGED <<pending, retry, dlq>>
  PROVE  Takes(x)
BY DEF ZRemProcessing, Takes, Queued, InDLQ

\* ZADD to the retry set.
LEMMA ZAddRetryAdds ==
  ASSUME NEW x, ZAddRetry(x), UNCHANGED <<pending, processing, dlq>>
  PROVE  Adds(x)
BY DEF ZAddRetry, Adds, Queued, InDLQ

\* The two pipelines that move a member to the pending list lose nothing.
LEMMA PromoteAdds ==
  ASSUME QueueTypeOK, NEW x \in JobIds, PromoteMember(x), UNCHANGED <<processing, dlq>>
  PROVE  Adds(x)
<1>1. LPush(x) /\ retry' = retry \ {x}
  BY DEF PromoteMember
<1>2. QED BY <1>1, LPushContains DEF Adds, Queued, InDLQ

\* Likewise for the processing set.
LEMMA ReclaimAdds ==
  ASSUME QueueTypeOK, NEW x \in JobIds, ReclaimMember(x), UNCHANGED <<retry, dlq>>
  PROVE  Adds(x)
<1>1. LPush(x) /\ processing' = processing \ {x}
  BY DEF ReclaimMember, ZRemProcessing
<1>2. QED BY <1>1, LPushContains DEF Adds, Queued, InDLQ

\* LPUSH to the dead letters.
LEMMA AppendDLQAdds ==
  ASSUME QueueTypeOK, NEW e \in DLQEntry, dlq' = Append(dlq, e),
         UNCHANGED <<pending, processing, retry>>
  PROVE  Adds(e.job)
<1>1. \A k : InDLQ(k)' <=> InDLQ(k) \/ k = e.job
  BY AppendProperties DEF QueueTypeOK, InDLQ, DLQEntry
<1>2. QED BY <1>1 DEF Adds, Queued

\* EnqueueDLQ.
LEMMA PushDLQAdds ==
  ASSUME QueueTypeOK, NEW x \in JobIds, PushDLQ(x), UNCHANGED <<pending, processing, retry>>
  PROVE  Adds(x)
BY AppendDLQAdds DEF PushDLQ, QueueTypeOK, DLQEntry

\* LREM from the dead letters.
LEMMA LRemDLQTakes ==
  ASSUME QueueTypeOK, NEW e, LRemDLQ(e), UNCHANGED <<pending, processing, retry>>
  PROVE  Takes(e.job)
BY LRemIn DEF Takes, Queued

-----------------------------------------------------------------------------
(* What a step does to InHands. *)

HandsKept(S) == \A j \in JobIds : InHands(j) => InHands(j)' \/ j \in S

\* No worker moves.
LEMMA NoHand ==
  ASSUME UNCHANGED <<loop, held, task>>
  PROVE  HandsKept({})
BY DEF HandsKept, InHands, Exposed, InHand, InFailure

\* A goroutine moves: only one that stops failing lets go of its job.
LEMMA TaskHands ==
  ASSUME TaskType, NEW w \in Workers, NEW s \in Slots, NEW pc, TaskGoto(w, s, pc),
         UNCHANGED <<loop, held>>
  PROVE  /\ HandsKept({task[w][s].job})
         /\ task[w][s].pc \notin FailurePc \/ pc \in FailurePc => HandsKept({})
         /\ \A j \in JobIds : j = task[w][s].job /\ pc \in FailurePc => InHands(j)'
<1>1. task' = [task EXCEPT ![w] = [task[w] EXCEPT ![s] = [task[w][s] EXCEPT !.pc = pc]]]
  BY DEF TaskGoto, TaskType
<1>2. /\ \A v \in Workers, u \in Slots : task'[v][u].job = task[v][u].job
      /\ \A v \in Workers, u \in Slots : v # w \/ u # s => task'[v][u].pc = task[v][u].pc
      /\ task'[w][s].pc = pc
  BY <1>1 DEF TaskType
<1>3. \A v \in Workers : InHand(v)' = InHand(v)
  BY DEF InHand
<1>4. ASSUME NEW v \in Workers, NEW j \in InFailure(v),
             j # task[w][s].job \/ task[w][s].pc \notin FailurePc \/ pc \in FailurePc
      PROVE  j \in InFailure(v)'
  BY <1>2, <1>4 DEF InFailure, FailurePc
<1>5. task[w][s].job \in JobIds /\ pc \in FailurePc => task[w][s].job \in InFailure(w)'
  BY <1>2 DEF InFailure, FailurePc
<1>6. ASSUME NEW j \in JobIds, InHands(j),
             j # task[w][s].job \/ task[w][s].pc \notin FailurePc \/ pc \in FailurePc
      PROVE  InHands(j)'
  <2>1. PICK v \in Workers : j \in InHand(v) \/ j \in InFailure(v)
    BY <1>6 DEF InHands, Exposed
  <2>2. j \in InHand(v)' \/ j \in InFailure(v)'
    BY <2>1, <1>3, <1>4, <1>6
  <2>3. QED BY <2>2 DEF InHands, Exposed
<1>7. \A j \in JobIds : j = task[w][s].job /\ pc \in FailurePc => InHands(j)'
  BY <1>5 DEF InHands, Exposed
<1>8. QED BY <1>6, <1>7 DEF HandsKept

\* The main loop of w moves.
LEMMA LoopHands ==
  ASSUME NEW w \in Workers, UNCHANGED task,
         \A v \in Workers \ {w} : loop'[v] = loop[v] /\ held'[v] = held[v]
  PROVE  /\ HandsKept(InHand(w))
         /\ \A j \in JobIds : j \in InHand(w)' => InHands(j)'
<1>1. \A v \in Workers : InFailure(v)' = InFailure(v)
  BY DEF InFailure
<1>2. \A v \in Workers \ {w} : InHand(v)' = InHand(v)
  BY DEF InHand
<1>3. QED BY <1>1, <1>2 DEF HandsKept, InHands, Exposed

\* The process w is replaced.
LEMMA RestartHands ==
  ASSUME LoopType, TaskType, NEW w \in Workers, WorkerRestart(w)
  PROVE  HandsKept(Exposed(w))
<1>1. \A v \in Workers \ {w} :
        loop'[v] = loop[v] /\ held'[v] = held[v] /\ task'[v] = task[v]
  BY DEF WorkerRestart, LoopType, TaskType
<1>2. \A v \in Workers \ {w} : Exposed(v)' = Exposed(v)
  BY <1>1 DEF Exposed, InHand, InFailure
<1>3. QED BY <1>2 DEF HandsKept, InHands

-----------------------------------------------------------------------------
(* The inductive invariant. *)

Known(j) == fate[j] # "none"
KnownSame == \A j \in JobIds : Known(j)' <=> Known(j)

\* Only jobs a request has submitted are anywhere in the system.
KnownInQueue == \A j \in JobIds : Queued(j) => Known(j)
KnownInLoop ==
  \A w \in Workers : \A j \in JobIds :
    j \in batch[w] \/ j = held[w] \/ j = active[w] => Known(j)
KnownInTask ==
  \A w \in Workers, s \in Slots : task[w][s].pc # "idle" => Known(task[w][s].job)
KnownInAdm == \A a \in Admins : adm[a].pc # "idle" => Known(adm[a].entry.job)

\* A job a request has inserted is that request's alone, until it submits it.
HasRow(r) == req[r].pc \in {"retryCreated", "created"}
FreshRequests ==
  /\ \A j \in JobIds : job[j].status = "none" => ~Known(j)
  /\ \A r \in Requests :
       HasRow(r) => job[req[r].job].status # "none" /\ ~Known(req[r].job)
  /\ \A r1, r2 \in Requests :
       HasRow(r1) /\ HasRow(r2) /\ r1 # r2 => req[r1].job # req[r2].job

\* The Ack of a run that succeeded comes after the job has completed.
FinishedRuns ==
  \A w \in Workers, s \in Slots :
    task[w][s].pc = "done" => fate[task[w][s].job] \in {"done", "dropped"}

SafeInv ==
  /\ KnownInQueue /\ KnownInLoop /\ KnownInTask /\ KnownInAdm
  /\ FreshRequests /\ FinishedRuns /\ AccountedFor

-----------------------------------------------------------------------------
(* How the parts of SafeInv follow from what a step does. *)

\* Jobs dropped were known and stay so.
LEMMA DropKnown ==
  ASSUME HistoryType, NEW S, Drop(S), \A j \in JobIds : j \in S => Known(j)
  PROVE  KnownSame /\ \A j \in JobIds : fate'[j] = fate[j] \/ (j \in S /\ fate'[j] = "dropped")
BY DEF HistoryType, Drop, KnownSame, Known

\* The exposed jobs of a worker are known.
LEMMA ExposedKnown ==
  ASSUME KnownInLoop, KnownInTask, NEW w \in Workers
  PROVE  \A j \in JobIds : j \in Exposed(w) => Known(j)
BY DEF KnownInLoop, KnownInTask, Exposed, InHand, InFailure, FailurePc

\* A command about a submitted job brings no other into the keys.
LEMMA KnownInQueueKept ==
  ASSUME KnownInQueue, KnownSame, NEW x,
         QueuedSame \/ Takes(x) \/ (Adds(x) /\ (x \in JobIds => Known(x)))
  PROVE  KnownInQueue'
BY DEF KnownInQueue, KnownSame, QueuedSame, Takes, Adds

\* Every job keeps a carrier except those in S, which get one or are no longer
\* merely submitted.
LEMMA AccountedForKept ==
  ASSUME AccountedFor, NEW S, NEW x,
         QueuedSame \/ (Takes(x) /\ x \in S) \/ Adds(x),
         HandsKept(S),
         \A j \in JobIds : Replaying(j) => Replaying(j)' \/ j \in S,
         \A j \in JobIds : fate'[j] = "submitted" => fate[j] = "submitted",
         \A j \in JobIds : j \in S => Carried(j)' \/ fate'[j] # "submitted"
  PROVE  AccountedFor'
BY DEF AccountedFor, Carried, QueuedSame, Takes, Adds, HandsKept

\* Requests that hold a job keep it to themselves.
LEMMA FreshKept ==
  ASSUME FreshRequests, KnownSame, UNCHANGED req,
         \A j \in JobIds : (job'[j].status = "none" <=> job[j].status = "none"),
         ReqType
  PROVE  FreshRequests'
BY DEF FreshRequests, KnownSame, HasRow, ReqType

\* The UPDATEs of transcode_jobs are about rows that exist.
LEMMA MarkJobKeepsRows ==
  ASSUME JobType, FreshRequests, NEW x \in JobIds, Known(x),
         MarkJobRunning(x) \/ MarkJobCompleted(x) \/ MarkJobFailed(x) \/ ResetJobPending(x)
  PROVE  \A j \in JobIds : (job'[j].status = "none" <=> job[j].status = "none")
BY DEF JobType, FreshRequests, MarkJobRunning, MarkJobCompleted, MarkJobFailed, ResetJobPending

\* A goroutine that moves on keeps a known job.
LEMMA TaskGotoKnown ==
  ASSUME TaskType, KnownInTask, FinishedRuns, KnownSame, NEW w \in Workers, NEW s \in Slots,
         NEW pc \in TaskPc \ {"done"}, task[w][s].pc # "idle", TaskGoto(w, s, pc),
         \A j \in JobIds : fate[j] \in {"done", "dropped"} => fate'[j] \in {"done", "dropped"}
  PROVE  KnownInTask' /\ FinishedRuns'
<1>1. task' = [task EXCEPT ![w] = [task[w] EXCEPT ![s] = [task[w][s] EXCEPT !.pc = pc]]]
  BY DEF TaskGoto, TaskType
<1>2. /\ \A v \in Workers, u \in Slots : task'[v][u].job = task[v][u].job
      /\ \A v \in Workers, u \in Slots : v # w \/ u # s => task'[v][u].pc = task[v][u].pc
      /\ task'[w][s].pc = pc
  BY <1>1 DEF TaskType
<1>3. QED BY <1>2, ZenonT(40) DEF KnownInTask, FinishedRuns, KnownSame, TaskType, TaskPc

-----------------------------------------------------------------------------
(* Each kind of step preserves SafeInv. *)

\* What a step may do to fate: only a request makes a job submitted.
FateKept ==
  \A j \in JobIds :
    /\ fate'[j] = "submitted" => fate[j] = "submitted"
    /\ fate[j] \in {"done", "dropped"} => fate'[j] \in {"done", "dropped"}

RowsKept == \A j \in JobIds : (job'[j].status = "none" <=> job[j].status = "none")

USE DEF TypeInv, SafeInv, catalogVars, queueVars, workerVars

\* A step of a request that submits nothing.
LEMMA RequestSafe ==
  ASSUME TypeInv, SafeInv, FreshRequests',
         UNCHANGED <<queueVars, workerVars, adm, fate>>
  PROVE  SafeInv'
<1>1. QueuedSame /\ HandsKept({}) /\ KnownSame
  BY NoCommand, NoHand DEF KnownSame, Known
<1>2. KnownInQueue' /\ KnownInLoop' /\ KnownInTask' /\ KnownInAdm' /\ FinishedRuns'
  BY <1>1, KnownInQueueKept DEF KnownInLoop, KnownInTask, KnownInAdm, FinishedRuns, Known
<1>3. AccountedFor'
  BY <1>1 DEF QueuedSame, HandsKept, AccountedFor, Carried, Replaying
<1>4. QED BY <1>2, <1>3

\* A step of a goroutine that has a job x, to a program point pc: unless it
\* hands x on, x is in a key, or fails its run, or is no longer submitted.
LEMMA GoroutineSafe ==
  ASSUME TypeInv, SafeInv, NEW w \in Workers, NEW s \in Slots, NEW pc \in TaskPc \ {"done"},
         task[w][s].pc # "idle", TaskGoto(w, s, pc),
         UNCHANGED <<loop, batch, held, active, req, adm>>,
         KnownSame, FateKept, RowsKept,
         NEW x, x = task[w][s].job,
         QueuedSame \/ Takes(x) \/ Adds(x),
         \/ QueuedSame /\ task[w][s].pc \notin FailurePc
         \/ pc \in FailurePc \/ Adds(x) \/ fate'[x] # "submitted"
  PROVE  SafeInv'
<1>1. x \in JobIds /\ Known(x)
  BY DEF TaskType, KnownInTask
<1>2. KnownInTask' /\ FinishedRuns'
  BY TaskGotoKnown DEF FateKept
<1>3. KnownInQueue' /\ KnownInLoop' /\ KnownInAdm' /\ FreshRequests'
  <2>1. KnownInQueue'
    BY <1>1, KnownInQueueKept
  <2>2. KnownInLoop' /\ KnownInAdm'
    BY DEF KnownInLoop, KnownInAdm, KnownSame, AdmType, DLQEntry
  <2>3. FreshRequests'
    BY FreshKept DEF RowsKept
  <2>4. QED BY <2>1, <2>2, <2>3
<1>4. AccountedFor'
  <2>1. \A j \in JobIds : Replaying(j)' <=> Replaying(j)
    BY DEF Replaying
  <2>2. CASE QueuedSame /\ task[w][s].pc \notin FailurePc
    BY <2>1, <2>2, TaskHands DEF QueuedSame, HandsKept, AccountedFor, Carried, FateKept
  <2>3. CASE pc \in FailurePc \/ Adds(x) \/ fate'[x] # "submitted"
    <3>1. HandsKept({x})
      BY TaskHands
    <3>2. Carried(x)' \/ fate'[x] # "submitted"
      BY <1>1, <2>3, TaskHands DEF Carried, Adds
    <3>3. QED BY <1>1, <2>1, <3>1, <3>2
              DEF QueuedSame, Takes, Adds, HandsKept, AccountedFor, Carried, FateKept
  <2>4. QED BY <2>2, <2>3
<1>5. QED BY <1>2, <1>3, <1>4

\* A step of the main loop of w, on a job x.
LEMMA MainLoopSafe ==
  ASSUME TypeInv, SafeInv, NEW w \in Workers, UNCHANGED <<task, req, adm, job>>,
         \A v \in Workers \ {w} : loop'[v] = loop[v] /\ held'[v] = held[v],
         KnownSame, FateKept, KnownInLoop',
         NEW x, x \in JobIds => Known(x),
         QueuedSame \/ Takes(x) \/ Adds(x),
         \A j \in InHand(w) \cup (IF QueuedSame \/ Adds(x) THEN {} ELSE {x}) :
           j \in JobIds => Carried(j)' \/ fate'[j] # "submitted"
  PROVE  SafeInv'
<1>1. KnownInQueue' /\ KnownInTask' /\ KnownInAdm' /\ FreshRequests' /\ FinishedRuns'
  <2>1. KnownInQueue'
    BY KnownInQueueKept
  <2>2. KnownInTask' /\ KnownInAdm' /\ FinishedRuns'
    BY DEF KnownInTask, KnownInAdm, FinishedRuns, KnownSame, FateKept, TaskType, AdmType,
           DLQEntry
  <2>3. FreshRequests'
    BY FreshKept
  <2>4. QED BY <2>1, <2>2, <2>3
<1>2. AccountedFor'
  <2>1. \A j \in JobIds : Replaying(j)' <=> Replaying(j)
    BY DEF Replaying
  <2>2. HandsKept(InHand(w))
    BY LoopHands
  <2>3. QED BY <2>1, <2>2
            DEF QueuedSame, Takes, Adds, HandsKept, AccountedFor, Carried, FateKept
<1>3. QED BY <1>1, <1>2

\* A step of an administrator's call, on a job x.
LEMMA AdministratorSafe ==
  ASSUME TypeInv, SafeInv, UNCHANGED <<workerVars, req, job>>,
         KnownSame, FateKept, KnownInAdm',
         NEW x, x \in JobIds => Known(x),
         QueuedSame \/ Takes(x) \/ Adds(x),
         \A j \in JobIds :
           Replaying(j) \/ (j = x /\ ~QueuedSame /\ ~Adds(x)) =>
             Carried(j)' \/ fate'[j] # "submitted"
  PROVE  SafeInv'
<1>1. KnownInQueue' /\ KnownInLoop' /\ KnownInTask' /\ FreshRequests' /\ FinishedRuns'
  <2>1. KnownInQueue'
    BY KnownInQueueKept
  <2>2. KnownInLoop' /\ KnownInTask' /\ FinishedRuns'
    BY DEF KnownInLoop, KnownInTask, FinishedRuns, KnownSame, FateKept, TaskType
  <2>3. FreshRequests'
    BY FreshKept
  <2>4. QED BY <2>1, <2>2, <2>3
<1>2. AccountedFor'
  BY NoHand DEF QueuedSame, Takes, Adds, HandsKept, AccountedFor, Carried, FateKept
<1>3. QED BY <1>1, <1>2

-----------------------------------------------------------------------------
(* Each action preserves SafeInv. *)

\* A step that leaves the history alone.
LEMMA SameFate ==
  ASSUME UNCHANGED fate
  PROVE  KnownSame /\ FateKept
BY DEF KnownSame, Known, FateKept

\* A step that drops known jobs.
LEMMA DropFate ==
  ASSUME HistoryType, NEW S, Drop(S), \A j \in JobIds : j \in S => Known(j)
  PROVE  KnownSame /\ FateKept /\ \A j \in JobIds : j \in S => fate'[j] = "dropped"
BY DropKnown DEF FateKept, Drop

\* Creators.
LEMMA RequestsSafe ==
  ASSUME TypeInv, SafeInv, NEW r \in Requests
  PROVE
    /\ \A t \in Tracks : CompleteCheck(r, t) \/ RetryCheck(r, t) => SafeInv'
    /\ CompleteMark(r) \/ RetryMark(r) \/ RequestEnqueueFails(r) \/ RequestAbort(r) => SafeInv'
    /\ \A j \in JobIds : CompleteCreate(r, j) \/ RetryCreate(r, j) => SafeInv'
    /\ RequestEnqueue(r) => SafeInv'
<1>1. ASSUME NEW t \in Tracks, CompleteCheck(r, t) \/ RetryCheck(r, t) PROVE SafeInv'
  <2>1. FreshRequests'
    BY <1>1 DEF CompleteCheck, RetryCheck, FreshRequests, HasRow, Known, ReqType
  <2>2. QED BY <1>1, <2>1, RequestSafe DEF CompleteCheck, RetryCheck
<1>2. ASSUME CompleteMark(r) \/ RetryMark(r) \/ RequestEnqueueFails(r) \/ RequestAbort(r)
      PROVE  SafeInv'
  <2>1. /\ UNCHANGED <<job, queueVars, workerVars, adm, fate>>
        /\ \/ req' = [req EXCEPT ![r].pc = "marked"]
           \/ req' = [req EXCEPT ![r].pc = "created"] /\ req[r].pc = "retryCreated"
           \/ req' = [req EXCEPT ![r] = IdleReq]
    BY <1>2 DEF CompleteMark, RetryMark, RequestEnqueueFails, RequestAbort
  <2>2. \A i \in Requests : HasRow(i)' => HasRow(i) /\ req'[i].job = req[i].job
    <3>1. TAKE i \in Requests
    <3>2. CASE i = r
      BY <2>1, <3>2 DEF IdleReq, HasRow, ReqType
    <3>3. CASE i # r
      BY <2>1, <3>3 DEF HasRow, ReqType
    <3>4. QED BY <3>2, <3>3
  <2>3. FreshRequests'
    BY <2>1, <2>2 DEF FreshRequests, Known
  <2>4. QED BY <2>1, <2>3, RequestSafe
<1>3. ASSUME NEW j \in JobIds, CompleteCreate(r, j) \/ RetryCreate(r, j) PROVE SafeInv'
  <2>1. /\ job[j].status = "none"
        /\ job' = [job EXCEPT ![j] = [track |-> req[r].track, status |-> "pending",
                                      attempts |-> 0]]
        /\ \/ req' = [req EXCEPT ![r] = [@ EXCEPT !.pc = "created", !.job = j]]
           \/ req' = [req EXCEPT ![r] = [@ EXCEPT !.pc = "retryCreated", !.job = j]]
        /\ UNCHANGED <<queueVars, workerVars, adm, fate>>
    BY <1>3 DEF CompleteCreate, RetryCreate, CreateTranscodeJob, ReqType
  <2>2. \A i \in Requests \ {r} : req'[i] = req[i]
    BY <2>1 DEF ReqType
  <2>3. req'[r].job = j /\ \A i \in JobIds \ {j} : job'[i] = job[i]
    BY <2>1, ZenonT(40) DEF ReqType, JobType
  <2>4. job'[j].status = "pending" /\ \A i \in JobIds : Known(i)' <=> Known(i)
    BY <2>1 DEF JobType, Known
  <2>5. \A i \in Requests \ {r} : HasRow(i)' <=> HasRow(i)
    BY <2>2 DEF HasRow
  <2>6. FreshRequests'
    <3>1. \A i \in JobIds : job'[i].status = "none" => ~Known(i)'
      BY <2>3, <2>4 DEF FreshRequests
    <3>2. ASSUME NEW i \in Requests, HasRow(i)'
          PROVE  job'[req'[i].job].status # "none" /\ fate'[req'[i].job] = "none"
      <4>1. CASE i = r
        BY <4>1, <2>1, <2>3, <2>4 DEF FreshRequests, Known
      <4>2. CASE i # r
        BY <4>2, <3>2, <2>1, <2>2, <2>3, <2>4, <2>5 DEF FreshRequests, Known, ReqType, HasRow
      <4>3. QED BY <4>1, <4>2
    <3>3. ASSUME NEW i \in Requests, NEW k \in Requests, HasRow(i)', HasRow(k)', i # k
          PROVE  req'[i].job # req'[k].job
      BY <3>3, <2>1, <2>2, <2>3, <2>5 DEF FreshRequests
    <3>4. QED BY <3>1, <3>2, <3>3 DEF FreshRequests, Known
  <2>7. QED BY <2>1, <2>6, RequestSafe
<1>4. ASSUME RequestEnqueue(r) PROVE SafeInv'
  <2> DEFINE x == req[r].job
  <2>1. /\ HasRow(r) /\ x \in JobIds /\ ~Known(x)
        /\ fate' = [fate EXCEPT ![x] = "submitted"]
        /\ req' = [req EXCEPT ![r] = IdleReq]
        /\ LPush(x)
        /\ UNCHANGED <<job, processing, retry, dlq, workerVars, adm>>
    BY <1>4 DEF RequestEnqueue, HasRow, ReqType, FreshRequests
  <2>2. Adds(x) /\ HandsKept({})
    BY <2>1, LPushAdds, NoHand
  <2>3. \A j \in JobIds : Known(j)' <=> Known(j) \/ j = x
    BY <2>1 DEF Known, HistoryType
  <2>4. KnownInQueue' /\ KnownInLoop' /\ KnownInAdm'
    BY <2>1, <2>2, <2>3
       DEF KnownInQueue, KnownInLoop, KnownInAdm, Adds, AdmType, DLQEntry
  <2>5. KnownInTask' /\ FinishedRuns'
    BY <2>1, <2>3 DEF KnownInTask, FinishedRuns, TaskType, HistoryType, Known
  <2>6. /\ \A i \in Requests \ {r} : req'[i] = req[i]
        /\ req'[r].pc = "idle"
    BY <2>1 DEF ReqType, IdleReq
  <2>7. FreshRequests'
    BY <2>1, <2>3, <2>6 DEF FreshRequests, HasRow, ReqType
  <2>8. AccountedFor'
    BY <2>1, <2>2 DEF AccountedFor, Adds, HandsKept, Carried, Replaying, HistoryType
  <2>9. QED BY <2>4, <2>5, <2>7, <2>8
<1>5. QED BY <1>1, <1>2, <1>3, <1>4

\* A job goroutine, up to the Ack.
LEMMA RunsSafe ==
  ASSUME TypeInv, SafeInv, NEW w \in Workers, NEW s \in Slots
  PROVE
    /\ MarkRunning(w, s) \/ MarkRunningFails(w, s) => SafeInv'
    /\ Transcoded(w, s) \/ TranscodeFails(w, s) => SafeInv'
    /\ Complete(w, s) \/ CompleteFails(w, s) => SafeInv'
<1> DEFINE x == task[w][s].job
<1>1. ASSUME NEW pc \in {"work", "failed", "finishing"}, TaskGoto(w, s, pc),
             task[w][s].pc \in {"start", "work", "finishing"}, RowsKept,
             UNCHANGED <<queueVars, loop, batch, held, active, req, adm, fate>>
      PROVE  SafeInv'
  <2>1. QueuedSame /\ KnownSame /\ FateKept
    BY <1>1, NoCommand, SameFate
  <2>2. task[w][s].pc \notin FailurePc /\ pc \in TaskPc \ {"done"}
    BY <1>1 DEF FailurePc, TaskPc
  <2>3. QED BY <1>1, <2>1, <2>2, GoroutineSafe
<1>2. ASSUME MarkRunning(w, s) PROVE SafeInv'
  <2>1. x \in JobIds /\ Known(x)
    BY <1>2 DEF MarkRunning, TaskAt, TaskType, KnownInTask
  <2>2. RowsKept
    BY <1>2, <2>1, MarkJobKeepsRows DEF MarkRunning, RowsKept
  <2>3. QED BY <1>1, <1>2, <2>2 DEF MarkRunning, TaskAt
<1>3. ASSUME \/ MarkRunningFails(w, s)
             \/ Transcoded(w, s) \/ TranscodeFails(w, s)
             \/ CompleteFails(w, s)
      PROVE SafeInv'
  <2>1. RowsKept
    BY <1>3 DEF RowsKept, MarkRunningFails, Transcoded, TranscodeFails, CompleteFails
  <2>2. QED
    BY <1>1, <1>3, <2>1
    DEF MarkRunningFails, Transcoded, TranscodeFails, CompleteFails, TaskAt
<1>4. ASSUME Complete(w, s) PROVE SafeInv'
  <2>1. /\ x \in JobIds /\ Known(x)
        /\ fate' = [fate EXCEPT ![x] = IF @ = "dropped" THEN @ ELSE "done"]
        /\ MarkJobCompleted(x) /\ TaskGoto(w, s, "done")
        /\ task[w][s].pc = "finishing"
        /\ UNCHANGED <<queueVars, loop, batch, held, active, req, adm>>
    BY <1>4 DEF Complete, TaskAt, TaskType, KnownInTask
  <2>2. KnownSame /\ FateKept /\ fate'[x] \in {"done", "dropped"}
    BY <2>1 DEF KnownSame, Known, FateKept, HistoryType
  <2>3. QueuedSame /\ RowsKept /\ HandsKept({})
    BY <2>1, NoCommand, MarkJobKeepsRows, TaskHands DEF RowsKept, FailurePc
  <2>4. KnownInQueue' /\ FreshRequests'
    BY <2>1, <2>2, <2>3, KnownInQueueKept, FreshKept DEF RowsKept
  <2>5. KnownInLoop' /\ KnownInAdm'
    BY <2>1, <2>2 DEF KnownInLoop, KnownInAdm, KnownSame, AdmType, DLQEntry
  <2>6. KnownInTask' /\ FinishedRuns'
    BY <2>1, <2>2 DEF TaskGoto, KnownInTask, FinishedRuns, KnownSame, FateKept, TaskType
  <2>7. AccountedFor'
    BY <2>1, <2>2, <2>3
       DEF QueuedSame, HandsKept, AccountedFor, Carried, Replaying, FateKept
  <2>8. QED BY <2>4, <2>5, <2>6, <2>7
<1>5. QED BY <1>2, <1>3, <1>4

\* HandleFailure between the Ack and its enqueue.
FailureStep(w, s) ==
  \/ Lookup(w, s) \/ LookupFails(w, s)
  \/ ResetJob(w, s) \/ BackToProcessing(w, s)
  \/ FailJob(w, s) \/ BackToDraft(w, s)
  \/ FailureWriteFails(w, s)

\* A job goroutine, from the Ack on.
LEMMA OutcomesSafe ==
  ASSUME TypeInv, SafeInv, NEW w \in Workers, NEW s \in Slots
  PROVE
    /\ Ack(w, s) \/ AckFails(w, s) => SafeInv'
    /\ FailureStep(w, s) => SafeInv'
    /\ ScheduleRetry(w, s) \/ Bury(w, s) \/ EnqueueFails(w, s) => SafeInv'
    /\ Leave(w, s) => SafeInv'
<1> DEFINE x == task[w][s].job
<1> DEFINE Frame == UNCHANGED <<loop, batch, held, active, req, adm>>
<1>1. task[w][s].pc # "idle" => x \in JobIds /\ Known(x)
  BY DEF TaskType, KnownInTask
<1>2. ASSUME Ack(w, s) \/ AckFails(w, s) PROVE SafeInv'
  <2>1. Frame /\ UNCHANGED <<job, fate>> /\ RowsKept /\ KnownSame /\ FateKept
    BY <1>2, SameFate DEF Ack, AckFails, RowsKept
  <2>2. QueuedSame \/ Takes(x)
    BY <1>2, NoCommand, ZRemProcessingTakes DEF Ack, AckFails
  <2>3. CASE task[w][s].pc = "done" /\ TaskGoto(w, s, "leaving")
    <3>1. fate'[x] # "submitted"
      BY <2>1, <2>3 DEF FinishedRuns
    <3>2. QED BY <2>1, <2>2, <2>3, <3>1, GoroutineSafe DEF TaskPc, FailurePc
  <2>4. CASE task[w][s].pc = "failed" /\ TaskGoto(w, s, "handling")
    BY <2>1, <2>2, <2>4, GoroutineSafe DEF TaskPc, FailurePc
  <2>5. QED BY <1>2, <2>3, <2>4 DEF Ack, AckFails, AfterAck, TaskAt
<1>3. ASSUME FailureStep(w, s) PROVE SafeInv'
  <2>1. /\ Frame /\ UNCHANGED queueVars /\ UNCHANGED fate /\ task[w][s].pc # "idle"
        /\ \E pc \in FailurePc : TaskGoto(w, s, pc)
        /\ ResetJobPending(x) \/ MarkJobFailed(x) \/ UNCHANGED job
    BY <1>3 DEF FailureStep, Lookup, LookupFails, ResetJob, BackToProcessing, FailJob,
         BackToDraft, FailureWriteFails, TaskAt, FailurePc
  <2>2. RowsKept
    BY <1>1, <2>1, MarkJobKeepsRows DEF RowsKept
  <2>3. QueuedSame /\ KnownSame /\ FateKept
    BY <2>1, NoCommand, SameFate
  <2>4. PICK pc \in FailurePc : TaskGoto(w, s, pc)
    BY <2>1
  <2>5. pc \in TaskPc \ {"done"}
    BY DEF TaskPc, FailurePc
  <2>6. QED BY <2>1, <2>2, <2>3, <2>4, <2>5, GoroutineSafe
<1>4. ASSUME ScheduleRetry(w, s) \/ Bury(w, s) PROVE SafeInv'
  <2>1. /\ Frame /\ UNCHANGED <<job, fate>> /\ RowsKept /\ task[w][s].pc # "idle"
        /\ TaskGoto(w, s, "leaving")
    BY <1>4 DEF ScheduleRetry, Bury, TaskAt, RowsKept
  <2>2. Adds(x)
    BY <1>1, <1>4, <2>1, ZAddRetryAdds, PushDLQAdds DEF ScheduleRetry, Bury
  <2>3. QED BY <2>1, <2>2, SameFate, GoroutineSafe DEF TaskPc, FailurePc
<1>5. ASSUME EnqueueFails(w, s) PROVE SafeInv'
  <2>1. /\ Frame /\ UNCHANGED <<job, queueVars>> /\ RowsKept /\ task[w][s].pc # "idle"
        /\ TaskGoto(w, s, "leaving") /\ Drop({x})
    BY <1>5 DEF EnqueueFails, TaskAt, RowsKept
  <2>2. KnownSame /\ FateKept /\ fate'[x] = "dropped"
    BY <1>1, <2>1, DropFate
  <2>3. QED BY <2>1, <2>2, NoCommand, GoroutineSafe DEF TaskPc, FailurePc
<1>6. ASSUME Leave(w, s) PROVE SafeInv'
  <2>1. /\ UNCHANGED <<job, queueVars, loop, batch, held, req, adm, fate>>
        /\ task' = [task EXCEPT ![w] = [task[w] EXCEPT ![s] = IdleTask]]
        /\ active' = [active EXCEPT ![w] = NoJob]
        /\ task[w][s].pc = "leaving"
    BY <1>6 DEF Leave, TaskAt, TaskType
  <2>2. /\ \A v \in Workers, u \in Slots : v # w \/ u # s => task'[v][u] = task[v][u]
        /\ task'[w][s] = IdleTask
    BY <2>1 DEF TaskType
  <2>3. QueuedSame /\ KnownSame /\ FateKept
    BY <2>1, NoCommand, SameFate
  <2>4. HandsKept({})
    <3>1. \A v \in Workers : InHand(v)' = InHand(v)
      BY <2>1 DEF InHand
    <3>2. \A v \in Workers : InFailure(v) \subseteq InFailure(v)'
      BY <2>1, <2>2 DEF InFailure, FailurePc
    <3>3. QED BY <3>1, <3>2 DEF HandsKept, InHands, Exposed
  <2>5. KnownInQueue' /\ FreshRequests'
    BY <2>1, <2>3, KnownInQueueKept, FreshKept
  <2>6. KnownInLoop' /\ KnownInAdm'
    BY <2>1, <2>3, JobsAssumption
       DEF KnownInLoop, KnownInAdm, KnownSame, AdmType, DLQEntry, LoopType
  <2>7. KnownInTask' /\ FinishedRuns'
    BY <2>1, <2>2 DEF KnownInTask, FinishedRuns, IdleTask, Known
  <2>8. AccountedFor'
    BY <2>1, <2>3, <2>4 DEF QueuedSame, HandsKept, AccountedFor, Carried, Replaying
  <2>9. QED BY <2>5, <2>6, <2>7, <2>8
<1>7. QED BY <1>2, <1>3, <1>4, <1>5, <1>6

\* The main loop, with the queue's scans and moves.
LEMMA MovesSafe ==
  ASSUME TypeInv, SafeInv, NEW w \in Workers
  PROVE
    /\ PromoteScan(w) \/ ReclaimScan(w) => SafeInv'
    /\ \A j \in JobIds : PromoteOne(w, j) \/ ReclaimOne(w, j) => SafeInv'
    /\ \A j \in JobIds : MoveFails(w, j) => SafeInv'
    /\ Acquire(w) \/ PopTimeout(w) \/ BeginDrain(w) \/ DrainTimeout(w) => SafeInv'
    /\ Signal(w) => SafeInv'
<1> DEFINE Frame == /\ UNCHANGED <<task, req, adm, job, fate, active>>
                    /\ \A v \in Workers \ {w} : loop'[v] = loop[v] /\ held'[v] = held[v]
                    /\ InHand(w) = {}
<1>1. ASSUME PromoteScan(w) \/ ReclaimScan(w) PROVE SafeInv'
  <2>1. Frame
    BY <1>1 DEF PromoteScan, ReclaimScan, LoopType, InHand
  <2>2. QueuedSame /\ KnownSame /\ FateKept
    BY <1>1, NoCommand, SameFate DEF PromoteScan, ReclaimScan
  <2>3. batch' = [batch EXCEPT ![w] = due] \/ batch' = [batch EXCEPT ![w] = overdue]
    BY <1>1 DEF PromoteScan, ReclaimScan
  <2>4. \A j \in due \cup overdue : Known(j)
    BY DEF QueueTypeOK, KnownInQueue, Queued
  <2>5. KnownInLoop'
    BY <1>1, <2>2, <2>3, <2>4
       DEF PromoteScan, ReclaimScan, KnownInLoop, KnownSame, LoopType
  <2>6. QED BY <2>1, <2>2, <2>5, JobsAssumption, MainLoopSafe
<1>2. ASSUME NEW j \in JobIds, PromoteOne(w, j) \/ ReclaimOne(w, j) \/ MoveFails(w, j)
      PROVE  SafeInv'
  <2>1. Frame
    BY <1>2 DEF PromoteOne, ReclaimOne, MoveFails, Moved, LoopType, InHand
  <2>2. KnownSame /\ FateKept
    BY <2>1, SameFate
  <2>3. Known(j) /\ j \in batch[w]
    BY <1>2 DEF PromoteOne, ReclaimOne, MoveFails, Moved, KnownInLoop
  <2>4. QueuedSame \/ Adds(j)
    <3>1. CASE PromoteOne(w, j)
      BY <3>1, PromoteAdds DEF PromoteOne
    <3>2. CASE ReclaimOne(w, j)
      BY <3>2, ReclaimAdds DEF ReclaimOne
    <3>3. CASE MoveFails(w, j)
      BY <3>3, NoCommand, LPushAdds DEF MoveFails
    <3>4. QED BY <1>2, <3>1, <3>2, <3>3
  <2>5. KnownInLoop'
    <3>1. held' = held /\ batch'[w] \subseteq batch[w]
          /\ \A v \in Workers \ {w} : batch'[v] = batch[v]
      BY <1>2 DEF PromoteOne, ReclaimOne, MoveFails, Moved, LoopType
    <3>2. QED BY <2>1, <2>2, <3>1 DEF KnownInLoop, KnownSame
  <2>6. QED BY <2>1, <2>2, <2>3, <2>4, <2>5, MainLoopSafe
<1>3. ASSUME Acquire(w) \/ PopTimeout(w) \/ BeginDrain(w) \/ DrainTimeout(w) PROVE SafeInv'
  <2>1. Frame /\ UNCHANGED <<queueVars>>
    BY <1>3 DEF Acquire, PopTimeout, BeginDrain, DrainTimeout, LoopType, InHand
  <2>2. QueuedSame /\ KnownSame /\ FateKept
    BY <2>1, NoCommand, SameFate
  <2>3. KnownInLoop'
    <3>1. /\ \A v \in Workers : batch'[v] \subseteq batch[v]
          /\ \A v \in Workers : held'[v] = held[v] \/ held'[v] = active[v]
      BY <1>3 DEF Acquire, PopTimeout, BeginDrain, DrainTimeout, LoopType
    <3>2. QED BY <2>1, <2>2, <3>1 DEF KnownInLoop, KnownSame
  <2>4. QED BY <2>1, <2>2, <2>3, JobsAssumption, MainLoopSafe
<1>4. ASSUME Signal(w) PROVE SafeInv'
  <2>1. QueuedSame /\ KnownSame /\ HandsKept({})
    BY <1>4, NoCommand, NoHand, SameFate DEF Signal
  <2>2. KnownInQueue' /\ FreshRequests'
    BY <1>4, <2>1, KnownInQueueKept, FreshKept DEF Signal
  <2>3. KnownInLoop' /\ KnownInTask' /\ KnownInAdm' /\ FinishedRuns'
    BY <1>4 DEF Signal, KnownInLoop, KnownInTask, KnownInAdm, FinishedRuns, Known
  <2>4. AccountedFor'
    BY <1>4, <2>1 DEF Signal, QueuedSame, HandsKept, AccountedFor, Carried, Replaying
  <2>5. QED BY <2>2, <2>3, <2>4
<1>5. QED BY <1>1, <1>2, <1>3, <1>4

\* The main loop, from the BRPOP to the start of the goroutine.
LEMMA DequeueSafe ==
  ASSUME TypeInv, SafeInv, NEW w \in Workers
  PROVE
    /\ \A j \in JobIds : Pop(w, j) => SafeInv'
    /\ \A s \in Slots : Claim(w, s) => SafeInv'
    /\ ClaimFails(w) => SafeInv'
    /\ RequeueAck(w) => SafeInv'
<1>1. ASSUME NEW j \in JobIds, Pop(w, j) PROVE SafeInv'
  <2>1. /\ UNCHANGED <<task, req, adm, job, fate, batch, active>>
        /\ loop[w] = "blocked" /\ loop'[w] = "popped" /\ held'[w] = j
        /\ \A v \in Workers \ {w} : loop'[v] = loop[v] /\ held'[v] = held[v]
    BY <1>1 DEF Pop, LoopType
  <2>2. Takes(j) /\ Queued(j)
    BY <1>1, BRPopTakes DEF Pop
  <2>3. Known(j) /\ KnownSame /\ FateKept
    BY <2>1, <2>2, SameFate DEF KnownInQueue
  <2>4. KnownInLoop'
    BY <2>1, <2>3 DEF KnownInLoop, KnownSame
  <2>5. InHand(w) = {} /\ j \in InHand(w)'
    BY <2>1 DEF InHand
  <2>6. InHands(j)'
    BY <2>1, <2>5, LoopHands
  <2>7. QED BY <2>1, <2>2, <2>3, <2>4, <2>5, <2>6, MainLoopSafe DEF Carried
<1>2. ASSUME NEW s \in Slots, Claim(w, s) PROVE SafeInv'
  <2> DEFINE x == held[w]
  <2>1. /\ x \in JobIds /\ Known(x)
        /\ loop[w] = "popped" /\ task[w][s].pc = "idle"
        /\ UNCHANGED <<pending, retry, dlq, batch, req, adm, job, fate>>
        /\ ZAddProcessing(x)
        /\ active' = [active EXCEPT ![w] = x]
        /\ held' = [held EXCEPT ![w] = NoJob]
        /\ loop' = [loop EXCEPT ![w] = "promote"]
        /\ task' = [task EXCEPT ![w] = [task[w] EXCEPT ![s] = [pc |-> "start", job |-> x]]]
    BY <1>2 DEF Claim, TaskAt, LoopType, TaskType, KnownInLoop
  <2>2. /\ \A v \in Workers, u \in Slots : v # w \/ u # s => task'[v][u] = task[v][u]
        /\ task'[w][s] = [pc |-> "start", job |-> x]
    BY <2>1 DEF TaskType
  <2>3. Adds(x) /\ KnownSame /\ FateKept
    BY <2>1, ZAddProcessingAdds, SameFate
  <2>4. HandsKept({x})
    <3>1. \A v \in Workers : InFailure(v) \subseteq InFailure(v)'
      BY <2>1, <2>2 DEF InFailure, FailurePc
    <3>2. InHand(w) = {x} /\ \A v \in Workers \ {w} : InHand(v)' = InHand(v)
      BY <2>1 DEF InHand, LoopType
    <3>3. QED BY <3>1, <3>2 DEF HandsKept, InHands, Exposed
  <2>5. KnownInQueue' /\ FreshRequests'
    BY <2>1, <2>3, KnownInQueueKept, FreshKept
  <2>6. KnownInLoop' /\ KnownInAdm'
    BY <2>1, <2>3, JobsAssumption
       DEF KnownInLoop, KnownInAdm, KnownSame, AdmType, DLQEntry, LoopType
  <2>7. KnownInTask' /\ FinishedRuns'
    BY <2>1, <2>2 DEF KnownInTask, FinishedRuns, Known
  <2>8. AccountedFor'
    BY <2>1, <2>3, <2>4 DEF Adds, HandsKept, AccountedFor, Carried, Replaying
  <2>9. QED BY <2>5, <2>6, <2>7, <2>8
<1>3. ASSUME ClaimFails(w) PROVE SafeInv'
  <2> DEFINE x == held[w]
  <2>1. /\ x \in JobIds /\ Known(x) /\ InHand(w) = {x}
        /\ UNCHANGED <<task, req, adm, job, batch, active, processing, retry, dlq>>
        /\ held' = [held EXCEPT ![w] = NoJob]
        /\ loop' = [loop EXCEPT ![w] = "promote"]
        /\ \A v \in Workers \ {w} : loop'[v] = loop[v] /\ held'[v] = held[v]
        /\ \/ LPush(x) /\ UNCHANGED fate
           \/ Drop({x}) /\ UNCHANGED pending
    BY <1>3 DEF ClaimFails, LoopType, KnownInLoop, InHand
  <2>2. KnownSame /\ FateKept
    BY <2>1, SameFate, DropFate
  <2>3. (QueuedSame /\ fate'[x] = "dropped") \/ Adds(x)
    BY <2>1, LPushAdds, NoCommand, DropFate
  <2>4. KnownInLoop'
    BY <2>1, <2>2, JobsAssumption DEF KnownInLoop, KnownSame, LoopType
  <2>5. \A j \in JobIds : j = x => Carried(j)' \/ fate'[j] # "submitted"
    BY <2>1, <2>3 DEF Carried, Adds
  <2>6. QED BY <2>1, <2>2, <2>3, <2>4, <2>5, MainLoopSafe
<1>4. ASSUME RequeueAck(w) PROVE SafeInv'
  <2> DEFINE x == held[w]
  <2>1. /\ x \in JobIds /\ Known(x) /\ InHand(w) = {}
        /\ UNCHANGED <<task, req, adm, job, fate, batch, active, held, pending, retry, dlq>>
        /\ ZRemProcessing(x)
        /\ loop'[w] = "requeueing"
        /\ \A v \in Workers \ {w} : loop'[v] = loop[v] /\ held'[v] = held[v]
    BY <1>4 DEF RequeueAck, LoopType, KnownInLoop, InHand
  <2>2. Takes(x) /\ KnownSame /\ FateKept
    BY <2>1, ZRemProcessingTakes, SameFate
  <2>3. KnownInLoop'
    BY <2>1, <2>2 DEF KnownInLoop, KnownSame
  <2>4. x \in InHand(w)'
    BY <2>1 DEF InHand
  <2>5. InHands(x)'
    BY <2>1, <2>4, LoopHands
  <2>6. QED BY <2>1, <2>2, <2>3, <2>5, MainLoopSafe DEF Carried
<1>5. QED BY <1>1, <1>2, <1>3, <1>4

\* The end of a worker process.
LEMMA RestartsSafe ==
  ASSUME TypeInv, SafeInv, NEW w \in Workers
  PROVE  Stop(w) \/ RequeuePush(w) \/ Crash(w) => SafeInv'
<1>1. ASSUME NEW S \in SUBSET JobIds, NEW x, Drop(S), WorkerRestart(w),
             \A j \in JobIds : j \in Exposed(w) => j \in S \/ j = x,
             \A j \in S : j \in Exposed(w),
             QueuedSame \/ Adds(x), Adds(x) \/ x \notin JobIds, x \in JobIds => Known(x),
             UNCHANGED <<job, req, adm>>
      PROVE  SafeInv'
  <2>1. KnownSame /\ FateKept /\ \A j \in S : fate'[j] = "dropped"
    BY <1>1, ExposedKnown, DropFate
  <2>2. HandsKept(Exposed(w))
    BY <1>1, RestartHands
  <2>3. KnownInQueue' /\ FreshRequests'
    BY <1>1, <2>1, KnownInQueueKept, FreshKept
  <2>4. KnownInLoop' /\ KnownInAdm'
    <3>1. /\ batch' = [batch EXCEPT ![w] = {}]
          /\ held' = [held EXCEPT ![w] = NoJob]
          /\ active' = [active EXCEPT ![w] = NoJob]
      BY <1>1 DEF WorkerRestart
    <3>2. QED BY <1>1, <2>1, <3>1, JobsAssumption
              DEF KnownInLoop, KnownInAdm, KnownSame, AdmType, DLQEntry, LoopType
  <2>5. KnownInTask' /\ FinishedRuns'
    <3>1. /\ \A s \in Slots : task'[w][s].pc = "idle"
          /\ \A v \in Workers \ {w} : task'[v] = task[v]
      BY <1>1 DEF WorkerRestart, IdleTask, TaskType
    <3>2. QED BY <2>1, <3>1, ZenonT(40) DEF KnownInTask, FinishedRuns, KnownSame, FateKept, TaskType
  <2>6. AccountedFor'
    BY <1>1, <2>1, <2>2
       DEF QueuedSame, Adds, HandsKept, AccountedFor, Carried, Replaying, FateKept
  <2>7. QED BY <2>3, <2>4, <2>5, <2>6
<1>2. ASSUME Stop(w) PROVE SafeInv'
  <2>1. InHand(w) = {} /\ InFailure(w) \in SUBSET JobIds
    BY <1>2 DEF Stop, InHand, InFailure
  <2>2. QED BY <1>1, <1>2, <2>1, NoCommand, JobsAssumption DEF Stop, Exposed
<1>3. ASSUME RequeuePush(w) PROVE SafeInv'
  <2>1. InHand(w) = {held[w]} /\ held[w] \in JobIds /\ Known(held[w])
    BY <1>3 DEF RequeuePush, InHand, LoopType, KnownInLoop
  <2>2. Adds(held[w])
    BY <1>3, <2>1, LPushAdds DEF RequeuePush
  <2>3. InFailure(w) \in SUBSET JobIds
    BY DEF InFailure
  <2>4. QED BY <1>1, <1>3, <2>1, <2>2, <2>3 DEF RequeuePush, Exposed
<1>4. ASSUME Crash(w) PROVE SafeInv'
  <2>1. Exposed(w) \in SUBSET JobIds
    BY DEF Exposed, InHand, InFailure, LoopType
  <2>2. QED BY <1>1, <1>4, <2>1, NoCommand, JobsAssumption DEF Crash
<1>5. QED BY <1>2, <1>3, <1>4

\* Administrators.
LEMMA AdministratorsSafe ==
  ASSUME TypeInv, SafeInv, NEW a \in Admins
  PROVE
    /\ \A t \in Tracks, e \in ToSet(dlq) : DlqFind(a, t, e) => SafeInv'
    /\ DlqRemove(a) \/ DlqEnqueue(a) \/ DlqMark(a) => SafeInv'
    /\ DlqEnqueueFails(a) \/ AdminAbort(a) => SafeInv'
<1> DEFINE x == adm[a].entry.job
<1> DEFINE Frame == UNCHANGED <<workerVars, req, job>>
<1>1. adm[a].pc # "idle" => adm[a].entry \in DLQEntry /\ x \in JobIds /\ Known(x)
  BY DEF AdmType, DLQEntry, KnownInAdm
<1>2. ASSUME NEW t \in Tracks, NEW e \in ToSet(dlq), DlqFind(a, t, e) PROVE SafeInv'
  <2>1. /\ Frame /\ UNCHANGED <<queueVars, fate>>
        /\ adm' = [adm EXCEPT ![a] = [pc |-> "found", entry |-> e]] /\ adm[a].pc = "idle"
    BY <1>2 DEF DlqFind
  <2>2. e.job \in JobIds /\ InDLQ(e.job)
    <3>1. PICK i \in 1..Len(dlq) : dlq[i] = e
      BY LenProperties DEF ToSet, QueueTypeOK
    <3>2. e \in DLQEntry
      BY <3>1, ElementOfSeq DEF QueueTypeOK
    <3>3. QED BY <3>1, <3>2 DEF InDLQ, DLQEntry
  <2>3. Known(e.job) /\ QueuedSame /\ KnownSame /\ FateKept
    BY <2>1, <2>2, NoCommand, SameFate DEF KnownInQueue, Queued
  <2>4. KnownInAdm'
    BY <2>1, <2>3 DEF KnownInAdm, Known, AdmType
  <2>5. \A j \in JobIds : Replaying(j) => Replaying(j)'
    BY <2>1 DEF Replaying, AdmType
  <2>6. QED BY <2>1, <2>3, <2>4, <2>5, JobsAssumption, AdministratorSafe DEF Carried
<1>3. ASSUME DlqRemove(a) PROVE SafeInv'
  <2>1. /\ Frame /\ UNCHANGED <<pending, processing, retry, fate>> /\ adm[a].pc = "found"
        /\ adm' = [adm EXCEPT ![a] = [@ EXCEPT !.pc = "removed"]]
        /\ LRemDLQ(adm[a].entry)
    BY <1>3 DEF DlqRemove, AdmType
  <2>2. Takes(x) /\ KnownSame /\ FateKept
    BY <2>1, LRemDLQTakes, SameFate
  <2>3. KnownInAdm'
    BY <2>1 DEF KnownInAdm, Known, AdmType
  <2>4. Replaying(x)' /\ \A j \in JobIds : Replaying(j) => Replaying(j)'
    <3>1. adm'[a].pc = "removed" /\ adm'[a].entry = adm[a].entry
          /\ \A b \in Admins \ {a} : adm'[b] = adm[b]
      BY <2>1 DEF AdmType
    <3>2. QED BY <2>1, <3>1 DEF Replaying
  <2>5. QED BY <1>1, <2>1, <2>2, <2>3, <2>4, AdministratorSafe DEF Carried
<1>4. ASSUME DlqEnqueue(a) \/ DlqMark(a) \/ DlqEnqueueFails(a) \/ AdminAbort(a) PROVE SafeInv'
  <2>1. /\ Frame /\ adm[a].pc # "idle"
        /\ \A b \in Admins \ {a} : adm'[b] = adm[b]
        /\ adm'[a].pc # "removed"
        /\ adm'[a].entry = adm[a].entry \/ adm'[a].pc = "idle"
    <3>1. /\ Frame /\ adm[a].pc # "idle"
          /\ \/ adm' = [adm EXCEPT ![a] = [@ EXCEPT !.pc = "pushed"]]
             \/ adm' = [adm EXCEPT ![a] = IdleAdm]
      BY <1>4 DEF DlqEnqueue, DlqMark, DlqEnqueueFails, AdminAbort, AdmType
    <3>2. QED BY <3>1 DEF IdleAdm, AdmType
  <2>2. KnownSame /\ FateKept
    <3>1. CASE DlqEnqueue(a) \/ DlqMark(a)
      BY <3>1, SameFate DEF DlqEnqueue, DlqMark
    <3>2. CASE DlqEnqueueFails(a)
      BY <1>1, <2>1, <3>2, SameFate, DropFate DEF DlqEnqueueFails
    <3>3. CASE AdminAbort(a)
      BY <1>1, <2>1, <3>3, DropFate DEF AdminAbort
    <3>4. QED BY <1>4, <3>1, <3>2, <3>3
  <2>3. /\ QueuedSame \/ Adds(x)
        /\ Adds(x) \/ fate'[x] # "submitted" \/ adm[a].pc # "removed"
    <3>1. CASE DlqEnqueue(a)
      BY <1>1, <2>1, <3>1, LPushAdds DEF DlqEnqueue
    <3>2. CASE DlqMark(a)
      BY <3>2, NoCommand DEF DlqMark
    <3>3. CASE DlqEnqueueFails(a)
      BY <1>1, <2>1, <3>3, NoCommand, AppendDLQAdds, DropFate DEF DlqEnqueueFails
    <3>4. CASE AdminAbort(a)
      BY <1>1, <2>1, <3>4, NoCommand, DropFate DEF AdminAbort
    <3>5. QED BY <1>4, <3>1, <3>2, <3>3, <3>4
  <2>4. KnownInAdm'
    BY <2>1, <2>2, <1>1 DEF KnownInAdm, KnownSame, AdmType, DLQEntry
  <2>5. \A j \in JobIds : Replaying(j) => Replaying(j)' \/ (j = x /\ adm[a].pc = "removed")
    BY <2>1 DEF Replaying
  <2>6. \A j \in JobIds : j = x /\ Adds(x) => Carried(j)'
    BY DEF Adds, Carried
  <2>7. QED BY <1>1, <2>1, <2>2, <2>3, <2>4, <2>5, <2>6, AdministratorSafe DEF Carried
<1>5. QED BY <1>2, <1>3, <1>4

\* Time, and a step that changes nothing.
LEMMA TimeSafe ==
  ASSUME TypeInv, SafeInv,
         UNCHANGED <<catalogVars, workerVars, req, adm, fate, pending, processing, retry, dlq>>
  PROVE  SafeInv'
<1>1. QueuedSame /\ HandsKept({}) /\ KnownSame
  BY NoCommand, NoHand, SameFate
<1>2. KnownInQueue' /\ KnownInLoop' /\ KnownInTask' /\ KnownInAdm'
  BY <1>1, KnownInQueueKept DEF KnownInLoop, KnownInTask, KnownInAdm, Known
<1>3. FinishedRuns' /\ FreshRequests'
  BY <1>1, FreshKept DEF FinishedRuns
<1>4. AccountedFor'
  BY <1>1 DEF QueuedSame, HandsKept, AccountedFor, Carried, Replaying
<1>5. QED BY <1>2, <1>3, <1>4

-----------------------------------------------------------------------------
(* The theorems. *)

\* Together: every step preserves SafeInv.
LEMMA SafeStep ==
  ASSUME TypeInv, SafeInv, [Next]_vars
  PROVE  SafeInv'
<1>1. CASE Arrival
  BY <1>1, RequestsSafe, AdministratorsSafe DEF Arrival
<1>2. CASE \E r \in Requests : RequestStep(r)
  BY <1>2, RequestsSafe DEF RequestStep
<1>3. CASE \E w \in Workers : LoopMove(w) \/ End(w)
  BY <1>3, MovesSafe, DequeueSafe, RestartsSafe DEF LoopMove, End, Exit
<1>4. CASE \E w \in Workers, s \in Slots : TaskStep(w, s)
  BY <1>4, RunsSafe, OutcomesSafe DEF TaskStep, FailureStep
<1>5. CASE \E a \in Admins : AdminStep(a)
  BY <1>5, AdministratorsSafe DEF AdminStep
<1>6. CASE \E j \in JobIds : BecomeDue(j) \/ Expire(j)
  BY <1>6, TimeSafe DEF BecomeDue, Expire
<1>7. CASE Fault
  BY <1>7, RequestsSafe, MovesSafe, RestartsSafe, OutcomesSafe, AdministratorsSafe
     DEF Fault, FailureStep
<1>8. CASE UNCHANGED vars
  BY <1>8, TimeSafe DEF vars
<1>9. QED BY <1>1, <1>2, <1>3, <1>4, <1>5, <1>6, <1>7, <1>8 DEF Next, Work

\* The initial state.
LEMMA SafeInit ==
  ASSUME Init
  PROVE  SafeInv
<1>1. \A j \in JobIds : ~Queued(j)
  <2>1. Len(pending) = 0 /\ Len(dlq) = 0 /\ processing = {} /\ retry = {}
    BY DEF Init, QueueInit
  <2>2. QED BY <2>1 DEF Queued, Contains, InDLQ
<1>2. KnownInQueue /\ KnownInLoop /\ KnownInTask /\ KnownInAdm /\ FinishedRuns
  BY <1>1, JobsAssumption
     DEF Init, IdleTask, IdleAdm, KnownInQueue, KnownInLoop, KnownInTask, KnownInAdm,
         FinishedRuns
<1>3. FreshRequests /\ AccountedFor
  BY DEF Init, CatalogInit, IdleReq, FreshRequests, HasRow, Known, AccountedFor
<1>4. QED BY <1>2, <1>3

(* Every state of every behaviour: who may hold which job (KnownIn...,     *)
(* FreshRequests, FinishedRuns) and that no submitted job is without a     *)
(* carrier.                                                                *)
THEOREM SafetyInvariant == Spec => []SafeInv
<1>1. Init => SafeInv
  BY SafeInit
<1>2. TypeInv /\ SafeInv /\ [Next]_vars => SafeInv'
  BY SafeStep
<1>3. QED BY <1>1, <1>2, TypeInvariant, PTL DEF Spec

(* No job is lost silently: whatever crashes, shutdowns, failed calls,     *)
(* expired deadlines and replays happen, in any number and order, a job    *)
(* that was queued and has not completed is in one of the four keys or in  *)
(* the hands of an actor, unless one died or failed with it in hand.       *)
THEOREM NothingLostSilently == Spec => []AccountedFor
<1>1. SafeInv => AccountedFor
  OBVIOUS
<1>2. QED BY <1>1, SafetyInvariant, PTL

-----------------------------------------------------------------------------
(* Without faults. *)

FaultFree == \A d \in {"crash", "signal", "error", "apiFault"} : spent[d] = 0

\* A worker that was not told to stop is not stopping, and jobs are dropped
\* by faults only.
CalmInv ==
  /\ spent["signal"] = 0 =>
       \A w \in Workers :
         ~term[w] /\ loop[w] \notin {"draining", "requeue", "requeueing"}
  /\ FaultFree => \A j \in JobIds : fate[j] # "dropped"

\* A disturbance that has happened has happened for good.
LEMMA SpendCounts ==
  ASSUME HistoryType, NEW d \in Disturbances, Spend(d)
  PROVE  spent'[d] # 0 /\ \A c \in Disturbances : spent'[c] = 0 => spent[c] = 0
BY DEF HistoryType, Spend

\* A step that leaves workers' loops where they were, or where no shutdown is.
LEMMA CalmLoop ==
  ASSUME TypeInv, CalmInv, NEW w \in Workers, UNCHANGED term,
         \A v \in Workers : v # w => loop'[v] = loop[v],
         loop'[w] \notin {"draining", "requeue", "requeueing"},
         \A d \in Disturbances : spent'[d] = 0 => spent[d] = 0,
         FaultFree' => \A j \in JobIds : fate'[j] = "dropped" => fate[j] = "dropped"
  PROVE  CalmInv'
BY DEF CalmInv, FaultFree, Disturbances

\* A step that leaves them alone.
LEMMA CalmElsewhere ==
  ASSUME TypeInv, CalmInv, UNCHANGED <<loop, term>>,
         \A d \in Disturbances : spent'[d] = 0 => spent[d] = 0,
         FaultFree' => \A j \in JobIds : fate'[j] = "dropped" => fate[j] = "dropped"
  PROVE  CalmInv'
BY DEF CalmInv, FaultFree, Disturbances

\* Steps that drop nothing and move no loop.
LEMMA CalmQuietly ==
  ASSUME TypeInv, CalmInv, UNCHANGED <<loop, term>>,
         \A j \in JobIds : fate'[j] = "dropped" => fate[j] = "dropped",
         UNCHANGED spent \/ \E d \in Disturbances : Spend(d)
  PROVE  CalmInv'
BY SpendCounts, CalmElsewhere

\* Creators.
LEMMA CalmRequests ==
  ASSUME TypeInv, CalmInv, NEW r \in Requests,
         \/ \E t \in Tracks : CompleteCheck(r, t) \/ RetryCheck(r, t)
         \/ \E j \in JobIds : CompleteCreate(r, j) \/ RetryCreate(r, j)
         \/ CompleteMark(r) \/ RetryMark(r) \/ RequestEnqueue(r)
         \/ RequestEnqueueFails(r) \/ RequestAbort(r)
  PROVE  CalmInv'
<1>1. UNCHANGED <<loop, term>>
  BY DEF CompleteCheck, RetryCheck, CompleteCreate, RetryCreate, CompleteMark, RetryMark,
         RequestEnqueue, RequestEnqueueFails, RequestAbort
<1>2. \A j \in JobIds : fate'[j] = "dropped" => fate[j] = "dropped"
  BY DEF CompleteCheck, RetryCheck, CompleteCreate, RetryCreate, CompleteMark, RetryMark,
         RequestEnqueue, RequestEnqueueFails, RequestAbort, HistoryType
<1>3. UNCHANGED spent \/ Spend("apiFault")
  BY DEF CompleteCheck, RetryCheck, CompleteCreate, RetryCreate, CompleteMark, RetryMark,
         RequestEnqueue, RequestEnqueueFails, RequestAbort
<1>4. QED BY <1>1, <1>2, <1>3, CalmQuietly DEF Disturbances

\* The main loop.
LEMMA CalmMoves ==
  ASSUME TypeInv, CalmInv, NEW w \in Workers,
         \/ PromoteScan(w) \/ ReclaimScan(w) \/ Acquire(w) \/ PopTimeout(w)
         \/ \E j \in JobIds : PromoteOne(w, j) \/ ReclaimOne(w, j) \/ Pop(w, j)
         \/ \E j \in JobIds : MoveFails(w, j)
         \/ \E s \in Slots : Claim(w, s)
  PROVE  CalmInv'
<1>1. /\ UNCHANGED <<term, fate>>
      /\ \A v \in Workers : v # w => loop'[v] = loop[v]
      /\ loop'[w] \notin {"draining", "requeue", "requeueing"}
  BY DEF PromoteScan, ReclaimScan, Acquire, PopTimeout, PromoteOne, ReclaimOne, Pop,
         MoveFails, Claim, Moved, LoopType
<1>2. UNCHANGED spent \/ Spend("error")
  BY DEF PromoteScan, ReclaimScan, Acquire, PopTimeout, PromoteOne, ReclaimOne, Pop,
         MoveFails, Claim
<1>3. \A d \in Disturbances : spent'[d] = 0 => spent[d] = 0
  BY <1>2, SpendCounts DEF Disturbances
<1>4. QED BY <1>1, <1>3, CalmLoop

\* A popped job is dropped by a failed call or under a cancelled context only.
LEMMA CalmClaimFails ==
  ASSUME TypeInv, CalmInv, NEW w \in Workers, ClaimFails(w)
  PROVE  CalmInv'
<1>1. /\ UNCHANGED term
      /\ \A v \in Workers : v # w => loop'[v] = loop[v]
      /\ loop'[w] = "promote"
  BY DEF ClaimFails, LoopType
<1>2. Spend("error") \/ (UNCHANGED spent /\ term[w])
  BY DEF ClaimFails
<1>3. \A d \in Disturbances : spent'[d] = 0 => spent[d] = 0
  BY <1>2, SpendCounts DEF Disturbances
<1>4. ~FaultFree'
  BY <1>2, SpendCounts DEF CalmInv, FaultFree, Disturbances
<1>5. QED BY <1>1, <1>3, <1>4, CalmLoop

\* Shutdown: nothing of it happens before the first signal.
LEMMA CalmShutdown ==
  ASSUME TypeInv, CalmInv, NEW w \in Workers,
         \/ Signal(w) \/ BeginDrain(w) \/ DrainTimeout(w) \/ RequeueAck(w)
         \/ Stop(w) \/ RequeuePush(w)
  PROVE  CalmInv'
<1>1. CASE Signal(w)
  <2>1. spent'["signal"] # 0
    BY <1>1, SpendCounts DEF Signal, Disturbances
  <2>2. QED BY <2>1 DEF CalmInv, FaultFree
<1>2. CASE \/ BeginDrain(w) \/ DrainTimeout(w) \/ RequeueAck(w)
           \/ Stop(w) \/ RequeuePush(w)
  <2>1. UNCHANGED spent /\ (term[w] \/ loop[w] \in {"draining", "requeue", "requeueing"})
    BY <1>2 DEF BeginDrain, DrainTimeout, RequeueAck, Stop, RequeuePush
  <2>2. spent'["signal"] # 0
    BY <2>1 DEF CalmInv
  <2>3. QED BY <2>2 DEF CalmInv, FaultFree
<1>3. QED BY <1>1, <1>2

\* A crash is a fault.
LEMMA CalmCrash ==
  ASSUME TypeInv, CalmInv, NEW w \in Workers, Crash(w)
  PROVE  CalmInv'
<1>1. Spend("crash") \/ Spend("error")
  BY DEF Crash
<1>2. ~FaultFree' /\ \A d \in Disturbances : spent'[d] = 0 => spent[d] = 0
  BY <1>1, SpendCounts DEF FaultFree, Disturbances
<1>3. \A v \in Workers : (loop'[v] = loop[v] /\ term'[v] = term[v])
                         \/ (loop'[v] = "promote" /\ term'[v] = FALSE)
  BY DEF Crash, WorkerRestart, LoopType
<1>4. QED BY <1>2, <1>3 DEF CalmInv, Disturbances

\* Job goroutines.
LEMMA CalmTasks ==
  ASSUME TypeInv, CalmInv, NEW w \in Workers, NEW s \in Slots,
         \/ TaskStep(w, s)
         \/ AckFails(w, s) \/ FailureStep(w, s) \/ EnqueueFails(w, s)
  PROVE  CalmInv'
<1>1. CASE EnqueueFails(w, s)
  <2>1. Spend("error") /\ UNCHANGED <<loop, term>>
    BY <1>1 DEF EnqueueFails
  <2>2. ~FaultFree' /\ \A d \in Disturbances : spent'[d] = 0 => spent[d] = 0
    BY <2>1, SpendCounts DEF FaultFree, Disturbances
  <2>3. QED BY <2>1, <2>2, CalmElsewhere
<1>2. CASE Complete(w, s)
  BY <1>2, CalmQuietly DEF Complete, HistoryType
<1>3. CASE \/ MarkRunning(w, s) \/ MarkRunningFails(w, s) \/ Transcoded(w, s)
           \/ TranscodeFails(w, s) \/ CompleteFails(w, s) \/ Ack(w, s) \/ AckFails(w, s)
           \/ FailureStep(w, s)
           \/ ScheduleRetry(w, s) \/ Bury(w, s) \/ Leave(w, s)
  <2>1. UNCHANGED <<loop, term, fate>>
    BY <1>3 DEF MarkRunning, MarkRunningFails, Transcoded, TranscodeFails, CompleteFails,
         Ack, AckFails, FailureStep, Lookup, LookupFails, ResetJob, BackToProcessing, FailJob,
         BackToDraft, FailureWriteFails, ScheduleRetry, Bury, Leave
  <2>2. UNCHANGED spent \/ Spend("error")
    BY <1>3 DEF MarkRunning, MarkRunningFails, Transcoded, TranscodeFails, CompleteFails,
         Ack, AckFails, FailureStep, Lookup, LookupFails, ResetJob, BackToProcessing, FailJob,
         BackToDraft, FailureWriteFails, ScheduleRetry, Bury, Leave
  <2>3. QED BY <2>1, <2>2, CalmQuietly DEF Disturbances
<1>4. QED BY <1>1, <1>2, <1>3 DEF TaskStep, FailureStep

\* Administrators.
LEMMA CalmAdmins ==
  ASSUME TypeInv, CalmInv, NEW a \in Admins,
         \/ \E t \in Tracks : \E e \in ToSet(dlq) : DlqFind(a, t, e)
         \/ AdminStep(a) \/ DlqEnqueueFails(a) \/ AdminAbort(a)
  PROVE  CalmInv'
<1>1. CASE DlqEnqueueFails(a) \/ AdminAbort(a)
  <2>1. Spend("apiFault") /\ UNCHANGED <<loop, term>>
    BY <1>1 DEF DlqEnqueueFails, AdminAbort
  <2>2. ~FaultFree' /\ \A d \in Disturbances : spent'[d] = 0 => spent[d] = 0
    BY <2>1, SpendCounts DEF FaultFree, Disturbances
  <2>3. QED BY <2>1, <2>2, CalmElsewhere
<1>2. CASE \/ \E t \in Tracks : \E e \in ToSet(dlq) : DlqFind(a, t, e)
           \/ AdminStep(a)
  <2>1. UNCHANGED <<loop, term, fate>> /\ (UNCHANGED spent \/ Spend("replay"))
    BY <1>2 DEF AdminStep, DlqFind, DlqRemove, DlqEnqueue, DlqMark
  <2>2. QED BY <2>1, CalmQuietly DEF Disturbances
<1>3. QED BY <1>1, <1>2

\* Time.
LEMMA CalmTime ==
  ASSUME TypeInv, CalmInv, (\E j \in JobIds : BecomeDue(j) \/ Expire(j)) \/ UNCHANGED vars
  PROVE  CalmInv'
<1>1. UNCHANGED <<loop, term, fate>> /\ (UNCHANGED spent \/ Spend("slow"))
  BY DEF BecomeDue, Expire, vars
<1>2. QED BY <1>1, CalmQuietly DEF Disturbances

\* Together.
LEMMA CalmStep ==
  ASSUME TypeInv, CalmInv, [Next]_vars
  PROVE  CalmInv'
<1>1. CASE Arrival
  BY <1>1, CalmRequests, CalmAdmins DEF Arrival
<1>2. CASE \E r \in Requests : RequestStep(r)
  BY <1>2, CalmRequests DEF RequestStep
<1>3. CASE \E w \in Workers : LoopMove(w) \/ End(w)
  BY <1>3, CalmMoves, CalmClaimFails, CalmShutdown, CalmCrash
     DEF LoopMove, End, Exit
<1>4. CASE \E w \in Workers, s \in Slots : TaskStep(w, s)
  BY <1>4, CalmTasks
<1>5. CASE \E a \in Admins : AdminStep(a)
  BY <1>5, CalmAdmins
<1>6. CASE (\E j \in JobIds : BecomeDue(j) \/ Expire(j)) \/ UNCHANGED vars
  BY <1>6, CalmTime
<1>7. CASE Fault
  BY <1>7, CalmRequests, CalmMoves, CalmShutdown, CalmCrash, CalmTasks, CalmAdmins
     DEF Fault, FailureStep
<1>8. QED BY <1>1, <1>2, <1>3, <1>4, <1>5, <1>6, <1>7 DEF Next, Work

\* The initial state.
LEMMA CalmInit ==
  ASSUME Init
  PROVE  CalmInv
BY DEF Init, CalmInv

LEMMA CalmInvariant == Spec => []CalmInv
<1>1. Init => CalmInv
  BY CalmInit
<1>2. TypeInv /\ CalmInv /\ [Next]_vars => CalmInv'
  BY CalmStep
<1>3. QED BY <1>1, <1>2, TypeInvariant, PTL DEF Spec

(* Without crashes, shutdowns and failed calls no job is lost, however     *)
(* many workers move the same members and run the same job, and however    *)
(* many administrators replay the same dead letter.                        *)
THEOREM NothingLostWithoutFault == Spec => []NoLossWithoutFault
<1>1. SafeInv /\ CalmInv => NoLossWithoutFault
  BY DEF CalmInv, FaultFree, AccountedFor, NoLossWithoutFault
<1>2. QED BY <1>1, SafetyInvariant, CalmInvariant, PTL

-----------------------------------------------------------------------------
(* Dead letters. *)

\* The entries, and the jobs on their way to or from the dead letters.
EarnedInv ==
  /\ \A j \in JobIds : job[j].status = "none" => job[j].attempts = 0
  /\ DeadLetterEarned
  /\ spent["error"] = 0 =>
       /\ \A w \in Workers, s \in Slots :
            task[w][s].pc \in {"failing", "drafting", "burying"} =>
              job[task[w][s].job].attempts >= MaxAttempts
       /\ \A a \in Admins : adm[a].pc \in {"found", "removed"} =>
            job[adm[a].entry.job].attempts >= MaxAttempts

\* No statement takes attempts from a job.
AttemptsGrow ==
  /\ \A j \in JobIds : job'[j].attempts >= job[j].attempts
  /\ \A j \in JobIds : job'[j].status = "none" => job'[j].attempts = 0

\* A step that leaves the job rows alone lowers no attempt counter.
LEMMA SameJobs ==
  ASSUME TypeInv, EarnedInv, UNCHANGED job
  PROVE  AttemptsGrow
BY DEF AttemptsGrow, EarnedInv, TypeInv, JobType

\* A new job row lowers no attempt counter.
LEMMA InsertGrows ==
  ASSUME TypeInv, EarnedInv, NEW j \in JobIds, NEW t, CreateTranscodeJob(j, t)
  PROVE  AttemptsGrow
BY DEF AttemptsGrow, EarnedInv, TypeInv, JobType, CreateTranscodeJob

\* No status write lowers an attempt counter.
LEMMA MarkGrows ==
  ASSUME TypeInv, EarnedInv, NEW j \in JobIds,
         \/ MarkJobRunning(j) \/ MarkJobCompleted(j) \/ MarkJobFailed(j)
         \/ ResetJobPending(j)
  PROVE  AttemptsGrow
BY DEF AttemptsGrow, EarnedInv, TypeInv, JobType, MarkJobRunning, MarkJobCompleted,
       MarkJobFailed, ResetJobPending

\* A step that leaves the dead letters alone, moves no goroutine into the
\* burial and gives no administrator an entry.
LEMMA EarnedElsewhere ==
  ASSUME TypeInv, EarnedInv, AttemptsGrow, TypeInv',
         dlq' = dlq, spent'["error"] = 0 => spent["error"] = 0,
         \A w \in Workers, s \in Slots :
           task'[w][s].pc \in {"failing", "drafting", "burying"} =>
             /\ task[w][s].pc \in {"failing", "drafting", "burying"}
             /\ task'[w][s].job = task[w][s].job,
         \A a \in Admins : adm'[a].pc \in {"found", "removed"} =>
           adm[a].pc \in {"found", "removed"} /\ adm'[a].entry = adm[a].entry
  PROVE  EarnedInv'
<1>1. \A j \in JobIds : job'[j].attempts \in Nat /\ job[j].attempts \in Nat
  BY DEF TypeInv, JobType
<1>2. \A i \in 1..Len(dlq) : dlq[i].job \in JobIds
  <2>1. dlq \in Seq(DLQEntry)
    BY DEF TypeInv, QueueTypeOK
  <2>2. \A i \in 1..Len(dlq) : dlq[i] \in DLQEntry
    BY <2>1
  <2>3. QED BY <2>2 DEF DLQEntry
<1>3. \A w \in Workers, s \in Slots :
        task[w][s].pc \in {"failing", "drafting", "burying"} => task[w][s].job \in JobIds
  BY DEF TypeInv, TaskType
<1>4. \A a \in Admins : adm[a].pc \in {"found", "removed"} => adm[a].entry.job \in JobIds
  BY DEF TypeInv, AdmType, DLQEntry
<1>5. \A n, m \in Nat : n >= MaxAttempts /\ m >= n => m >= MaxAttempts
  BY PipelineAssumption
<1>6. DeadLetterEarned'
  BY <1>1, <1>2, <1>5 DEF EarnedInv, AttemptsGrow, DeadLetterEarned
<1>7. QED BY <1>1, <1>3, <1>4, <1>5, <1>6 DEF EarnedInv, AttemptsGrow

\* Creators and time.
LEMMA EarnedRequests ==
  ASSUME TypeInv, EarnedInv, TypeInv',
         \/ \E r \in Requests, t \in Tracks : CompleteCheck(r, t) \/ RetryCheck(r, t)
         \/ \E r \in Requests, j \in JobIds : CompleteCreate(r, j) \/ RetryCreate(r, j)
         \/ \E r \in Requests :
              \/ CompleteMark(r) \/ RetryMark(r) \/ RequestEnqueue(r)
              \/ RequestEnqueueFails(r) \/ RequestAbort(r)
         \/ \E j \in JobIds : BecomeDue(j) \/ Expire(j)
         \/ UNCHANGED vars
  PROVE  EarnedInv'
<1>1. UNCHANGED <<dlq, task, adm>>
  BY DEF CompleteCheck, RetryCheck, CompleteCreate, RetryCreate, CompleteMark, RetryMark,
         RequestEnqueue, RequestEnqueueFails, RequestAbort, BecomeDue, Expire, vars,
         queueVars, workerVars
<1>2. spent'["error"] = spent["error"]
  BY DEF CompleteCheck, RetryCheck, CompleteCreate, RetryCreate, CompleteMark, RetryMark,
         RequestEnqueue, RequestEnqueueFails, RequestAbort, BecomeDue, Expire, vars,
         Spend, TypeInv, HistoryType, Disturbances
<1>3. UNCHANGED job \/ \E j \in JobIds, r \in Requests : CreateTranscodeJob(j, req[r].track)
  BY DEF CompleteCheck, RetryCheck, CompleteCreate, RetryCreate, CompleteMark, RetryMark,
         RequestEnqueue, RequestEnqueueFails, RequestAbort, BecomeDue, Expire, vars,
         catalogVars
<1>4. AttemptsGrow
  BY <1>3, SameJobs, InsertGrows
<1>5. QED BY <1>1, <1>2, <1>4, EarnedElsewhere

\* The main loop, shutdowns and deaths.
LEMMA EarnedLoop ==
  ASSUME TypeInv, EarnedInv, TypeInv', NEW w \in Workers,
         \/ LoopMove(w) \/ End(w) \/ Signal(w) \/ \E j \in JobIds : MoveFails(w, j)
  PROVE  EarnedInv'
<1>1. CASE End(w)
  <2>1. WorkerRestart(w) /\ UNCHANGED <<job, dlq, adm>>
    BY <1>1 DEF End, Exit, Stop, RequeuePush, Crash, queueVars, catalogVars
  <2>2. \A v \in Workers, s \in Slots : task'[v][s] = task[v][s] \/ task'[v][s].pc = "idle"
    BY <2>1 DEF WorkerRestart, IdleTask, TypeInv, TaskType
  <2>3. spent'["error"] = 0 => spent["error"] = 0
    BY <1>1 DEF End, Exit, Stop, RequeuePush, Crash, Spend, TypeInv, HistoryType, Disturbances
  <2>4. QED BY <2>1, <2>2, <2>3, SameJobs, EarnedElsewhere
<1>2. CASE \E s \in Slots : Claim(w, s)
  <2>1. PICK s \in Slots : Claim(w, s)
    BY <1>2
  <2>2. \A v \in Workers, i \in Slots : task'[v][i] = task[v][i] \/ task'[v][i].pc = "start"
    BY <2>1 DEF Claim, TypeInv, TaskType
  <2>3. UNCHANGED <<job, dlq, adm, spent>>
    BY <2>1 DEF Claim, catalogVars
  <2>4. QED BY <2>2, <2>3, SameJobs, EarnedElsewhere
<1>3. CASE \/ PromoteScan(w) \/ ReclaimScan(w) \/ Acquire(w) \/ PopTimeout(w)
           \/ \E j \in JobIds : PromoteOne(w, j) \/ ReclaimOne(w, j) \/ Pop(w, j)
           \/ ClaimFails(w) \/ BeginDrain(w) \/ DrainTimeout(w) \/ RequeueAck(w)
           \/ Signal(w) \/ \E j \in JobIds : MoveFails(w, j)
  <2>1. UNCHANGED <<job, dlq, adm, task>>
    BY <1>3 DEF PromoteScan, ReclaimScan, Acquire, PopTimeout, PromoteOne, ReclaimOne, Pop,
         ClaimFails, BeginDrain, DrainTimeout, RequeueAck, Signal, MoveFails, catalogVars,
         queueVars
  <2>2. spent'["error"] = 0 => spent["error"] = 0
    BY <1>3 DEF PromoteScan, ReclaimScan, Acquire, PopTimeout, PromoteOne, ReclaimOne, Pop,
         ClaimFails, BeginDrain, DrainTimeout, RequeueAck, Signal, MoveFails, Spend,
         TypeInv, HistoryType, Disturbances
  <2>3. QED BY <2>1, <2>2, SameJobs, EarnedElsewhere
<1>4. QED BY <1>1, <1>2, <1>3 DEF LoopMove

\* The burial begins once the attempts it has read are used up.
LEMMA EarnedLookup ==
  ASSUME TypeInv, EarnedInv, TypeInv', NEW w \in Workers, NEW s \in Slots, Lookup(w, s)
  PROVE  EarnedInv'
<1>1. /\ UNCHANGED <<job, dlq, adm, spent>> /\ task[w][s].pc = "handling"
      /\ \/ TaskGoto(w, s, "resetting")
         \/ TaskGoto(w, s, "failing") /\ ~(job[task[w][s].job].attempts < MaxAttempts)
  BY DEF Lookup, TaskAt, catalogVars, queueVars
<1>2. task[w][s].job \in JobIds /\ job[task[w][s].job].attempts \in Nat
  BY <1>1 DEF TypeInv, TaskType, JobType
<1>3. \A v \in Workers, i \in Slots :
        \/ task'[v][i] = task[v][i]
        \/ /\ v = w /\ i = s /\ task'[v][i].job = task[v][i].job
           /\ task'[v][i].pc = "failing" => job[task[w][s].job].attempts >= MaxAttempts
           /\ task'[v][i].pc \in {"resetting", "failing"}
  BY <1>1, <1>2, PipelineAssumption DEF TaskGoto, TypeInv, TaskType
<1>4. QED BY <1>1, <1>3 DEF EarnedInv, DeadLetterEarned

\* HandleFailure buries a job only after its last attempt or without its row.
LEMMA EarnedBury ==
  ASSUME TypeInv, EarnedInv, TypeInv', NEW w \in Workers, NEW s \in Slots, Bury(w, s)
  PROVE  EarnedInv'
<1>1. /\ UNCHANGED <<job, adm, spent>> /\ task[w][s].pc = "burying"
      /\ TaskGoto(w, s, "leaving")
      /\ dlq' = Append(dlq, [job |-> task[w][s].job, failedAt |-> stamp])
  BY DEF Bury, TaskAt, PushDLQ, catalogVars
<1>2. dlq \in Seq(DLQEntry)
  BY DEF TypeInv, QueueTypeOK
<1>3. \A i \in 1..Len(dlq') :
        dlq'[i].job = task[w][s].job \/ (i \in 1..Len(dlq) /\ dlq'[i] = dlq[i])
  <2> DEFINE e == [job |-> task[w][s].job, failedAt |-> stamp]
  <2>1. e.job = task[w][s].job
    OBVIOUS
  <2> HIDE DEF e
  <2>2. /\ Len(dlq') = Len(dlq) + 1 /\ dlq'[Len(dlq) + 1] = e
        /\ \A i \in 1..Len(dlq) : dlq'[i] = dlq[i]
    BY <1>1, <1>2 DEF e
  <2>3. QED BY <1>2, <2>1, <2>2
<1>4. DeadLetterEarned'
  BY <1>1, <1>3 DEF EarnedInv, DeadLetterEarned
<1>5. \A v \in Workers, i \in Slots : task'[v][i] = task[v][i] \/ task'[v][i].pc = "leaving"
  BY <1>1 DEF TaskGoto, TypeInv, TaskType
<1>6. QED BY <1>1, <1>4, <1>5 DEF EarnedInv

\* Job goroutines.
LEMMA EarnedTasks ==
  ASSUME TypeInv, EarnedInv, TypeInv', NEW w \in Workers, NEW s \in Slots,
         \/ TaskStep(w, s)
         \/ AckFails(w, s) \/ LookupFails(w, s) \/ FailureWriteFails(w, s)
         \/ EnqueueFails(w, s)
  PROVE  EarnedInv'
<1>0. task \in [Workers -> [Slots -> [pc : TaskPc, job : JobIds \cup {NoJob}]]]
      /\ (task[w][s].pc # "idle" => task[w][s].job \in JobIds)
  BY DEF TypeInv, TaskType
<1>1. CASE \/ MarkRunning(w, s) \/ MarkRunningFails(w, s) \/ Transcoded(w, s)
           \/ TranscodeFails(w, s) \/ Complete(w, s) \/ CompleteFails(w, s) \/ Ack(w, s)
           \/ AckFails(w, s) \/ ResetJob(w, s) \/ BackToProcessing(w, s)
           \/ ScheduleRetry(w, s) \/ EnqueueFails(w, s)
  <2>1. /\ \/ TaskGoto(w, s, "work") \/ TaskGoto(w, s, "failed") \/ TaskGoto(w, s, "finishing")
           \/ TaskGoto(w, s, "done") \/ TaskGoto(w, s, "leaving") \/ TaskGoto(w, s, "handling")
           \/ TaskGoto(w, s, "reprocessing") \/ TaskGoto(w, s, "retrying")
        /\ UNCHANGED <<dlq, adm>>
    BY <1>1 DEF MarkRunning, MarkRunningFails, Transcoded, TranscodeFails, Complete,
         CompleteFails, Ack, AckFails, AfterAck, ResetJob, BackToProcessing, ScheduleRetry,
         EnqueueFails, queueVars
  <2>2. \A v \in Workers, i \in Slots :
          task'[v][i] = task[v][i] \/ task'[v][i].pc \notin {"failing", "drafting", "burying"}
    BY <1>0, <2>1 DEF TaskGoto
  <2>3. UNCHANGED spent \/ Spend("error")
    BY <1>1 DEF MarkRunning, MarkRunningFails, Transcoded, TranscodeFails, Complete,
         CompleteFails, Ack, AckFails, ResetJob, BackToProcessing, ScheduleRetry, EnqueueFails
  <2>4. UNCHANGED job \/ \E j \in JobIds :
          MarkJobRunning(j) \/ MarkJobCompleted(j) \/ ResetJobPending(j)
    BY <1>0, <1>1 DEF MarkRunning, MarkRunningFails, Transcoded, TranscodeFails, Complete,
         CompleteFails, Ack, AckFails, ResetJob, BackToProcessing, ScheduleRetry,
         EnqueueFails, TaskAt, catalogVars
  <2>5. spent'["error"] = 0 => spent["error"] = 0
    BY <2>3 DEF Spend, TypeInv, HistoryType, Disturbances
  <2>6. AttemptsGrow
    BY <2>4, SameJobs, MarkGrows
  <2>7. QED BY <2>1, <2>2, <2>5, <2>6, EarnedElsewhere
<1>2. CASE LookupFails(w, s) \/ FailureWriteFails(w, s)
  <2>1. Spend("error") /\ UNCHANGED job
    BY <1>2 DEF LookupFails, FailureWriteFails, catalogVars
  <2>2. spent'["error"] # 0
    BY <2>1 DEF Spend, TypeInv, HistoryType, Disturbances
  <2>3. QED BY <2>1, <2>2 DEF EarnedInv, DeadLetterEarned
<1>3. CASE FailJob(w, s) \/ BackToDraft(w, s)
  <2>1. /\ task[w][s].pc \in {"failing", "drafting"}
        /\ TaskGoto(w, s, "drafting") \/ TaskGoto(w, s, "burying")
        /\ UNCHANGED <<dlq, adm, spent>>
    BY <1>3 DEF FailJob, BackToDraft, TaskAt, queueVars
  <2>2. /\ \A v \in Workers, i \in Slots : v # w \/ i # s => task'[v][i] = task[v][i]
        /\ task'[w][s].job = task[w][s].job
    BY <1>0, <2>1 DEF TaskGoto
  <2>3. UNCHANGED job \/ \E j \in JobIds : MarkJobFailed(j)
    BY <1>0, <1>3 DEF FailJob, BackToDraft, TaskAt
  <2>4. AttemptsGrow
    BY <2>3, SameJobs, MarkGrows
  <2>5. \A v \in Workers, i \in Slots :
          task'[v][i].pc \in {"failing", "drafting", "burying"} =>
            /\ task[v][i].pc \in {"failing", "drafting", "burying"}
            /\ task'[v][i].job = task[v][i].job
    BY <2>1, <2>2
  <2>6. QED BY <2>1, <2>4, <2>5, EarnedElsewhere
<1>4. CASE Leave(w, s)
  <2>1. UNCHANGED <<job, dlq, adm, spent>> /\ task' = [task EXCEPT ![w][s] = IdleTask]
    BY <1>4 DEF Leave, catalogVars, queueVars
  <2>2. \A v \in Workers, i \in Slots : task'[v][i] = task[v][i] \/ task'[v][i].pc = "idle"
    BY <1>0, <2>1 DEF IdleTask
  <2>3. QED BY <2>1, <2>2, SameJobs, EarnedElsewhere
<1>5. QED BY <1>1, <1>2, <1>3, <1>4, EarnedLookup, EarnedBury DEF TaskStep

\* Administrators take entries from the dead letters and put them back.
LEMMA EarnedAdmins ==
  ASSUME TypeInv, EarnedInv, TypeInv', NEW a \in Admins,
         \/ \E t \in Tracks : \E e \in ToSet(dlq) : DlqFind(a, t, e)
         \/ AdminStep(a) \/ DlqEnqueueFails(a) \/ AdminAbort(a)
  PROVE  EarnedInv'
<1>0. /\ UNCHANGED <<job, task>> /\ spent'["error"] = spent["error"]
      /\ dlq \in Seq(DLQEntry)
      /\ adm \in [Admins -> [pc : AdmPc, entry : AnyEntry]]
  BY DEF AdminStep, DlqFind, DlqRemove, DlqEnqueue, DlqMark, DlqEnqueueFails, AdminAbort,
         catalogVars, workerVars, Spend, TypeInv, HistoryType, Disturbances, QueueTypeOK,
         AdmType
<1>1. ASSUME NEW t \in Tracks, NEW e \in ToSet(dlq), DlqFind(a, t, e)
      PROVE  EarnedInv'
  <2>1. \E i \in 1..Len(dlq) : e = dlq[i]
    BY <1>0 DEF ToSet
  <2>2. /\ dlq' = dlq /\ adm' = [adm EXCEPT ![a] = [pc |-> "found", entry |-> e]]
    BY <1>1 DEF DlqFind, queueVars
  <2>3. spent["error"] = 0 => job[e.job].attempts >= MaxAttempts
    BY <2>1 DEF EarnedInv, DeadLetterEarned
  <2>4. QED BY <1>0, <2>2, <2>3 DEF EarnedInv, DeadLetterEarned
<1>2. CASE DlqRemove(a)
  <2>1. \A i \in 1..Len(dlq') : \E k \in 1..Len(dlq) : dlq'[i] = dlq[k]
    <3>1. CASE dlq' = dlq
      BY <3>1
    <3>2. CASE \E k \in 1..Len(dlq) : dlq' = RemoveAt(dlq, k)
      <4>1. PICK k \in 1..Len(dlq) : dlq' = RemoveAt(dlq, k)
        BY <3>2
      <4>2. QED BY <1>0, <4>1, RemoveAtContains
    <3>3. dlq' = dlq \/ \E k \in 1..Len(dlq) : dlq' = RemoveAt(dlq, k)
      BY <1>2 DEF DlqRemove, LRemDLQ, Contains
    <3>4. QED BY <3>1, <3>2, <3>3
  <2>2. adm[a].pc = "found" /\ adm' = [adm EXCEPT ![a].pc = "removed"]
    BY <1>2 DEF DlqRemove
  <2>3. \A b \in Admins : adm'[b].entry = adm[b].entry
          /\ (adm'[b].pc = adm[b].pc \/ b = a)
    BY <1>0, <2>2
  <2>4. QED BY <1>0, <2>1, <2>2, <2>3 DEF EarnedInv, DeadLetterEarned
<1>3. CASE DlqEnqueueFails(a)
  <2>1. adm[a].pc = "removed" /\ adm' = [adm EXCEPT ![a] = IdleAdm]
        /\ (dlq' = dlq \/ dlq' = Append(dlq, adm[a].entry))
    BY <1>3 DEF DlqEnqueueFails
  <2>2. \A i \in 1..Len(dlq') :
          (i \in 1..Len(dlq) /\ dlq'[i] = dlq[i]) \/ dlq'[i] = adm[a].entry
    BY <1>0, <2>1
  <2>3. \A b \in Admins : adm'[b] = adm[b] \/ adm'[b].pc = "idle"
    BY <1>0, <2>1 DEF IdleAdm
  <2>4. QED BY <1>0, <2>1, <2>2, <2>3 DEF EarnedInv, DeadLetterEarned
<1>4. CASE DlqEnqueue(a) \/ DlqMark(a) \/ AdminAbort(a)
  <2>1. dlq' = dlq
        /\ (adm' = [adm EXCEPT ![a].pc = "pushed"] \/ adm' = [adm EXCEPT ![a] = IdleAdm])
    BY <1>4 DEF DlqEnqueue, DlqMark, AdminAbort, queueVars
  <2>2. \A b \in Admins : adm'[b] = adm[b] \/ adm'[b].pc \in {"idle", "pushed"}
    BY <1>0, <2>1 DEF IdleAdm
  <2>3. QED BY <1>0, <2>1, <2>2, SameJobs, EarnedElsewhere
<1>5. QED BY <1>1, <1>2, <1>3, <1>4 DEF AdminStep

\* Every step keeps EarnedInv.
LEMMA EarnedStep ==
  ASSUME TypeInv, EarnedInv, TypeInv', [Next]_vars
  PROVE  EarnedInv'
<1>1. CASE Arrival
  BY <1>1, EarnedRequests, EarnedAdmins DEF Arrival
<1>2. CASE \E r \in Requests : RequestStep(r)
  BY <1>2, EarnedRequests DEF RequestStep
<1>3. CASE \E w \in Workers : LoopMove(w) \/ End(w)
  BY <1>3, EarnedLoop
<1>4. CASE \E w \in Workers, s \in Slots : TaskStep(w, s)
  BY <1>4, EarnedTasks
<1>5. CASE \E a \in Admins : AdminStep(a)
  BY <1>5, EarnedAdmins
<1>6. CASE (\E j \in JobIds : BecomeDue(j) \/ Expire(j)) \/ UNCHANGED vars
  BY <1>6, EarnedRequests
<1>7. CASE Fault
  BY <1>7, EarnedRequests, EarnedLoop, EarnedTasks, EarnedAdmins DEF Fault
<1>8. QED BY <1>1, <1>2, <1>3, <1>4, <1>5, <1>6, <1>7 DEF Next, Work

(* A job reaches the dead letters only with its attempts used up, as long  *)
(* as PostgreSQL and Redis answer the workers: through crashes, replays    *)
(* and replays that fail.                                                  *)
THEOREM BuriedWhenSpent == Spec => []DeadLetterEarned
<1>1. Init => TypeInv /\ EarnedInv
  <2>1. Init => EarnedInv
    BY DEF Init, CatalogInit, QueueInit, IdleTask, IdleAdm, EarnedInv, DeadLetterEarned
  <2>2. QED BY <2>1, TypeInit
<1>2. TypeInv /\ EarnedInv /\ [Next]_vars => TypeInv' /\ EarnedInv'
  BY PipelineAssumption, TypeStep, EarnedStep
<1>3. EarnedInv => DeadLetterEarned
  BY DEF EarnedInv
<1>4. QED BY <1>1, <1>2, <1>3, PTL DEF Spec

-----------------------------------------------------------------------------
(* The job that main requeues. *)

\* A step that leaves the goroutines of w the jobs they have, unless it
\* clears activeJob.
LEMMA ActiveElsewhere ==
  ASSUME ActiveJobInFlight,
         \A w \in Workers :
           \/ active'[w] = NoJob
           \/ active'[w] = active[w] /\ \A s \in Slots : task'[w][s].job = task[w][s].job
           \/ \E s \in Slots : task'[w][s].job = active'[w]
  PROVE  ActiveJobInFlight'
BY DEF ActiveJobInFlight

\* Every step keeps ActiveJobInFlight.
LEMMA ActiveStep ==
  ASSUME TypeInv, ActiveJobInFlight, [Next]_vars
  PROVE  ActiveJobInFlight'
<1>0. /\ task \in [Workers -> [Slots -> [pc : TaskPc, job : JobIds \cup {NoJob}]]]
      /\ active \in [Workers -> JobIds \cup {NoJob}]
  BY DEF TypeInv, TaskType, LoopType
<1>1. CASE UNCHANGED <<active, task>>
  BY <1>1 DEF ActiveJobInFlight
<1>2. ASSUME NEW w \in Workers, NEW s \in Slots, NEW pc, TaskGoto(w, s, pc), UNCHANGED active
      PROVE  ActiveJobInFlight'
  <2>1. \A v \in Workers, i \in Slots : task'[v][i].job = task[v][i].job
    BY <1>0, <1>2 DEF TaskGoto
  <2>2. QED BY <1>2, <2>1, ActiveElsewhere
<1>3. CASE Arrival \/ \E r \in Requests : RequestStep(r)
  BY <1>1, <1>3 DEF Arrival, CompleteCheck, RetryCheck, DlqFind, RequestStep, CompleteMark,
       CompleteCreate, RetryCreate, RetryMark, RequestEnqueue, workerVars
<1>4. ASSUME NEW w \in Workers, LoopMove(w)
      PROVE  ActiveJobInFlight'
  <2>1. ASSUME NEW s \in Slots, Claim(w, s)
        PROVE  ActiveJobInFlight'
    <3>1. /\ active' = [active EXCEPT ![w] = held[w]]
          /\ task' = [task EXCEPT ![w][s] = [pc |-> "start", job |-> held[w]]]
      BY <2>1 DEF Claim
    <3>2. /\ task'[w][s].job = held[w] /\ active'[w] = held[w]
          /\ \A v \in Workers \ {w} : task'[v] = task[v] /\ active'[v] = active[v]
      BY <1>0, <3>1
    <3>3. QED BY <3>2, ActiveElsewhere
  <2>2. QED BY <1>1, <1>4, <2>1 DEF LoopMove, PromoteScan, ReclaimScan, PromoteOne, ReclaimOne,
              Pop, Acquire, PopTimeout, ClaimFails, BeginDrain, DrainTimeout, RequeueAck
<1>5. ASSUME NEW w \in Workers, End(w)
      PROVE  ActiveJobInFlight'
  <2>1. WorkerRestart(w)
    BY <1>5 DEF End, Exit, Stop, RequeuePush, Crash
  <2>2. /\ active'[w] = NoJob
        /\ \A v \in Workers \ {w} : task'[v] = task[v] /\ active'[v] = active[v]
    BY <1>0, <2>1 DEF WorkerRestart
  <2>3. QED BY <2>2, ActiveElsewhere
<1>6. ASSUME NEW w \in Workers, NEW s \in Slots,
             \/ TaskStep(w, s)
             \/ AckFails(w, s) \/ LookupFails(w, s) \/ FailureWriteFails(w, s)
             \/ EnqueueFails(w, s)
      PROVE  ActiveJobInFlight'
  <2>1. CASE Leave(w, s)
    <3>1. /\ active' = [active EXCEPT ![w] = NoJob]
          /\ task' = [task EXCEPT ![w][s] = IdleTask]
      BY <2>1 DEF Leave
    <3>2. /\ active'[w] = NoJob
          /\ \A v \in Workers \ {w} : task'[v] = task[v] /\ active'[v] = active[v]
      BY <1>0, <3>1
    <3>3. QED BY <3>2, ActiveElsewhere
  <2>2. CASE ~Leave(w, s)
    <3>1. UNCHANGED active /\ \E pc \in TaskPc : TaskGoto(w, s, pc)
      BY <1>6, <2>2 DEF TaskStep, MarkRunning, MarkRunningFails, Transcoded, TranscodeFails,
           Complete, CompleteFails, Ack, AckFails, AfterAck, Lookup, LookupFails, ResetJob,
           BackToProcessing, FailJob, BackToDraft, FailureWriteFails, ScheduleRetry, Bury,
           EnqueueFails, TaskPc, FailurePc
    <3>2. QED BY <1>2, <3>1
  <2>3. QED BY <2>1, <2>2
<1>7. CASE \/ \E a \in Admins : AdminStep(a)
           \/ \E j \in JobIds : BecomeDue(j) \/ Expire(j)
           \/ UNCHANGED vars
  BY <1>1, <1>7 DEF AdminStep, DlqRemove, DlqEnqueue, DlqMark, BecomeDue, Expire, vars, workerVars
<1>8. CASE Fault
  <2>1. CASE \/ \E r \in Requests : RequestEnqueueFails(r) \/ RequestAbort(r)
             \/ \E w \in Workers : Signal(w)
             \/ \E w \in Workers, j \in JobIds : MoveFails(w, j)
             \/ \E a \in Admins : DlqEnqueueFails(a) \/ AdminAbort(a)
    BY <1>1, <2>1 DEF RequestEnqueueFails, RequestAbort, Signal, MoveFails, DlqEnqueueFails,
         AdminAbort, workerVars
  <2>2. QED BY <1>6, <1>8, <2>1 DEF Fault
<1>9. QED BY <1>3, <1>4, <1>5, <1>6, <1>7, <1>8 DEF Next, Work

(* activeJob names a job of a goroutine that has not exited, in every      *)
(* worker, although each goroutine that exits clears it for all of them.   *)
THEOREM ActiveIsInFlight == Spec => []ActiveJobInFlight
<1>1. Init => TypeInv /\ ActiveJobInFlight
  BY TypeInit DEF Init, ActiveJobInFlight
<1>2. TypeInv /\ ActiveJobInFlight /\ [Next]_vars => TypeInv' /\ ActiveJobInFlight'
  BY PipelineAssumption, TypeStep, ActiveStep
<1>3. QED BY <1>1, <1>2, PTL DEF Spec

-----------------------------------------------------------------------------
(* The setting.  What has happened so far decides it, so that the          *)
(* invariants hold of every behaviour.                                     *)

OneWorker == Cardinality(Workers) = 1
OneAdmin == \A a, b \in Admins : a = b

Steady == OneWorker /\ spent["slow"] = 0 /\ spent["error"] = 0
Calm ==
  Steady /\ spent["signal"] = 0 /\ (spent["replay"] <= 1 \/ OneAdmin)

\* A single worker is every worker.
LEMMA TheWorker ==
  ASSUME OneWorker, NEW v \in Workers, NEW w \in Workers
  PROVE  v = w
<1>1. IsFiniteSet(Workers)
  BY PipelineAssumption
<1>2. PICK x : Workers = {x}
  BY <1>1, FS_Singleton DEF OneWorker
<1>3. QED BY <1>2

\* Disturbances are counted, never taken back.
SpentGrows == \A d \in Disturbances : spent'[d] >= spent[d]

LEMMA SpendGrows ==
  ASSUME HistoryType, NEW d \in Disturbances, Spend(d)
  PROVE  SpentGrows /\ spent'[d] > 0
BY DEF HistoryType, Spend, SpentGrows

\* No step leads into the setting from outside.
LEMMA SettingKept ==
  ASSUME HistoryType, HistoryType', SpentGrows
  PROVE  (Steady' => Steady) /\ (Calm' => Calm)
BY DEF HistoryType, SpentGrows, Steady, Calm, Disturbances, OneWorker, OneAdmin

\* Inside it no call of a worker fails, no run is slow and nobody is told to stop.
LEMMA NotSteady ==
  ASSUME HistoryType, Spend("error") \/ Spend("slow")
  PROVE  ~Steady' /\ ~Calm'
BY SpendGrows DEF Steady, Calm, Disturbances

LEMMA NotCalm ==
  ASSUME HistoryType, Spend("signal")
  PROVE  ~Calm'
BY SpendGrows DEF Calm, Disturbances

\* Every step counts what disturbs it.
Counted == UNCHANGED spent \/ \E d \in Disturbances : Spend(d)

LEMMA CountedStep ==
  ASSUME [Next]_vars
  PROVE  Counted
<1>1. UNCHANGED spent => Counted
  BY DEF Counted
<1>2. (\E d \in Disturbances : Spend(d)) => Counted
  BY DEF Counted
<1>3. CASE Arrival
  BY <1>1, <1>2, <1>3 DEF Arrival, CompleteCheck, RetryCheck, DlqFind, Disturbances
<1>4. CASE \E r \in Requests : RequestStep(r)
  BY <1>1, <1>4 DEF RequestStep, CompleteMark, CompleteCreate, RetryCreate, RetryMark,
                    RequestEnqueue
<1>5. CASE \E w \in Workers : LoopMove(w)
  BY <1>1, <1>2, <1>5
     DEF LoopMove, PromoteScan, ReclaimScan, PromoteOne, ReclaimOne, Pop, Acquire, PopTimeout,
         Claim, ClaimFails, BeginDrain, DrainTimeout, RequeueAck, Disturbances
<1>6. CASE \E w \in Workers : End(w)
  BY <1>1, <1>2, <1>6 DEF End, Exit, Stop, RequeuePush, Crash, Disturbances
<1>7. CASE \E w \in Workers, s \in Slots : TaskStep(w, s)
  <2>1. UNCHANGED spent \/ Spend("error")
    <3>1. PICK w \in Workers, s \in Slots : TaskStep(w, s)
      BY <1>7
    <3>2. CASE MarkRunningFails(w, s) \/ CompleteFails(w, s)
      BY <3>2 DEF MarkRunningFails, CompleteFails
    <3>3. CASE Transcoded(w, s) \/ TranscodeFails(w, s) \/ MarkRunning(w, s)
      BY <3>3 DEF Transcoded, TranscodeFails, MarkRunning
    <3>4. CASE Complete(w, s) \/ Ack(w, s) \/ Lookup(w, s) \/ Leave(w, s)
      BY <3>4 DEF Complete, Ack, Lookup, Leave
    <3>5. CASE \/ ResetJob(w, s) \/ BackToProcessing(w, s) \/ FailJob(w, s)
               \/ BackToDraft(w, s) \/ ScheduleRetry(w, s) \/ Bury(w, s)
      BY <3>5 DEF ResetJob, BackToProcessing, FailJob, BackToDraft, ScheduleRetry, Bury
    <3>6. QED BY <3>1, <3>2, <3>3, <3>4, <3>5 DEF TaskStep
  <2>2. QED BY <1>1, <1>2, <2>1 DEF Disturbances
<1>8. CASE \E a \in Admins : AdminStep(a)
  BY <1>1, <1>8 DEF AdminStep, DlqRemove, DlqEnqueue, DlqMark
<1>9. CASE \E j \in JobIds : BecomeDue(j) \/ Expire(j)
  <2>1. UNCHANGED spent \/ Spend("slow")
    BY <1>9 DEF BecomeDue, Expire
  <2>2. QED BY <1>1, <1>2, <2>1 DEF Disturbances
<1>10. CASE Fault
  BY <1>2, <1>10
     DEF Fault, RequestEnqueueFails, RequestAbort, Signal, MoveFails, AckFails, LookupFails,
         FailureWriteFails, EnqueueFails, DlqEnqueueFails, AdminAbort, Disturbances
<1>11. CASE UNCHANGED vars
  BY <1>1, <1>11 DEF vars
<1>12. QED BY <1>3, <1>4, <1>5, <1>6, <1>7, <1>8, <1>9, <1>10, <1>11 DEF Next, Work

LEMMA SpentStep ==
  ASSUME TypeInv, [Next]_vars
  PROVE  SpentGrows
BY CountedStep, SpendGrows DEF TypeInv, HistoryType, Counted, SpentGrows

-----------------------------------------------------------------------------
(* Lists that hold a job once. *)

OnceInPending == \A i, k \in 1..Len(pending) : pending[i] = pending[k] => i = k
OnceInDLQ == \A i, k \in 1..Len(dlq) : dlq[i].job = dlq[k].job => i = k

\* LPUSH of a job the list does not hold.
LEMMA LPushOnce ==
  ASSUME QueueTypeOK, OnceInPending, NEW j \in JobIds, ~Contains(pending, j), LPush(j)
  PROVE  OnceInPending'
BY AppendProperties DEF QueueTypeOK, LPush, Contains, OnceInPending

\* BRPOP takes the only copy.
LEMMA BRPopOnce ==
  ASSUME QueueTypeOK, OnceInPending, NEW j, BRPop(j)
  PROVE  OnceInPending' /\ ~Contains(pending, j)'
<1>1. /\ Len(pending') = Len(pending) - 1 /\ j = pending[1]
      /\ \A i \in 1..Len(pending') : i + 1 \in 1..Len(pending) /\ pending'[i] = pending[i+1]
  BY DEF QueueTypeOK, BRPop
<1>2. 1 \in 1..Len(pending)
  BY DEF QueueTypeOK, BRPop
<1>3. ASSUME NEW i \in 1..Len(pending'), NEW k \in 1..Len(pending'), pending'[i] = pending'[k]
      PROVE  i = k
  <2>1. i + 1 = k + 1
    BY <1>1, <1>3 DEF OnceInPending
  <2>2. QED BY <2>1
<1>4. ASSUME NEW i \in 1..Len(pending') PROVE pending'[i] # j
  <2>1. i + 1 # 1 /\ i + 1 \in 1..Len(pending) /\ pending'[i] = pending[i+1]
    BY <1>1
  <2>2. QED BY <1>1, <1>2, <2>1 DEF OnceInPending
<1>5. QED BY <1>3, <1>4 DEF OnceInPending, Contains

\* RPUSH of an entry whose job has none.
LEMMA AppendOnce ==
  ASSUME QueueTypeOK, OnceInDLQ, NEW e \in DLQEntry, ~InDLQ(e.job), dlq' = Append(dlq, e)
  PROVE  OnceInDLQ' /\ \A j : InDLQ(j)' => InDLQ(j) \/ j = e.job
BY AppendProperties DEF QueueTypeOK, InDLQ, OnceInDLQ

\* LREM of an entry takes the only one of its job.
LEMMA LRemOnce ==
  ASSUME QueueTypeOK, OnceInDLQ, NEW e \in DLQEntry, Contains(dlq, e), LRemDLQ(e)
  PROVE  OnceInDLQ' /\ ~InDLQ(e.job)' /\ \A j : InDLQ(j)' => InDLQ(j)
<1>1. PICK i \in 1..Len(dlq) : dlq[i] = e /\ dlq' = RemoveAt(dlq, i)
  BY DEF LRemDLQ, Contains
<1>2. /\ Len(dlq') = Len(dlq) - 1
      /\ \A m \in 1..i-1 : dlq'[m] = dlq[m]
      /\ \A m \in i..Len(dlq)-1 : dlq'[m] = dlq[m+1]
  BY <1>1, RemoveAtPlaces DEF QueueTypeOK
<1> DEFINE Was(m) == IF m < i THEN m ELSE m + 1
<1>3. ASSUME NEW m \in 1..Len(dlq')
      PROVE  Was(m) \in 1..Len(dlq) /\ Was(m) # i /\ dlq'[m] = dlq[Was(m)]
  <2>1. Len(dlq) \in Nat
    BY DEF QueueTypeOK
  <2>2. CASE m < i
    BY <1>2, <2>1, <2>2
  <2>3. CASE m >= i
    BY <1>2, <2>1, <2>3
  <2>4. QED BY <2>2, <2>3
<1>4. ASSUME NEW m \in 1..Len(dlq'), NEW n \in 1..Len(dlq'), dlq'[m].job = dlq'[n].job
      PROVE  m = n
  <2>1. Was(m) = Was(n)
    BY <1>3, <1>4 DEF OnceInDLQ
  <2>2. QED BY <2>1
<1>5. ASSUME NEW m \in 1..Len(dlq') PROVE dlq'[m].job # e.job
  BY <1>1, <1>3 DEF OnceInDLQ
<1>6. \A j : InDLQ(j)' => InDLQ(j)
  BY LRemIn
<1>7. QED BY <1>4, <1>5, <1>6 DEF OnceInDLQ, InDLQ

-----------------------------------------------------------------------------
(* The inductive invariant. *)

\* The goroutine in a free slot has no job.
IdleInv ==
  \A w \in Workers, s \in Slots : task[w][s].pc = "idle" => task[w][s].job = NoJob

\* An administrator at work has been counted.
ReplayInv == \A a \in Admins : adm[a].pc # "idle" => spent["replay"] > 0

\* A deadline passes over a job that no goroutine runs, and stays passed until
\* the main loop has reclaimed it.
StaleInv ==
  Steady =>
    /\ \A j \in overdue : ~Running(j)
    /\ \A w \in Workers : loop[w] = "reclaiming" => batch[w] \subseteq overdue

\* Where a job is when no one runs it and it is in none of the keys.
Popped(j) == \E w \in Workers : loop[w] = "popped" /\ held[w] = j

\* A job is in one place; while it is run, its processing entry stands for it
\* until its Ack.
Exclusive(j) ==
  /\ Contains(pending, j) =>
       ~(\/ Popped(j) \/ Running(j) \/ j \in processing \/ j \in retry
         \/ InDLQ(j) \/ Replaying(j))
  /\ Popped(j) =>
       ~(Running(j) \/ j \in processing \/ j \in retry \/ InDLQ(j) \/ Replaying(j))
  /\ Running(j) \/ j \in processing => ~(j \in retry \/ InDLQ(j) \/ Replaying(j))
  /\ j \in retry => ~(InDLQ(j) \/ Replaying(j))
  /\ InDLQ(j) => ~Replaying(j)

OnceRunning ==
  \A w, v \in Workers, s, u \in Slots : \A j \in JobIds :
    Runs(w, s, j) /\ Runs(v, u, j) => w = v /\ s = u
Acknowledged ==
  \A w \in Workers, s \in Slots : \A j \in JobIds :
    Runs(w, s, j) => (j \in processing <=> task[w][s].pc \notin FailurePc)
Batches == \A w \in Workers : loop[w] = "promoting" => batch[w] \subseteq due
FoundStays == \A a \in Admins : adm[a].pc = "found" => Contains(dlq, adm[a].entry)
OneReplay == \A a, b \in Admins : adm[a].pc # "idle" /\ adm[b].pc # "idle" => a = b

InOnePlace ==
  /\ \A j \in JobIds : Exclusive(j)
  /\ OnceInPending /\ OnceInDLQ /\ OnceRunning
  /\ Acknowledged /\ Batches /\ FoundStays /\ OneReplay

PlaceInv == Calm => InOnePlace

-----------------------------------------------------------------------------
(* What a step does to the runs. *)

\* A goroutine moves on with its job, and no other does.
LEMMA GotoMoves ==
  ASSUME TaskType, NEW w \in Workers, NEW s \in Slots, NEW pc, TaskGoto(w, s, pc)
  PROVE  /\ \A v \in Workers, u \in Slots : task'[v][u].job = task[v][u].job
         /\ \A v \in Workers, u \in Slots : v # w \/ u # s => task'[v][u].pc = task[v][u].pc
         /\ task'[w][s].pc = pc
<1>1. task' = [task EXCEPT ![w] = [task[w] EXCEPT ![s] = [task[w][s] EXCEPT !.pc = pc]]]
  BY DEF TaskGoto, TaskType
<1>2. QED BY <1>1 DEF TaskType

LEMMA GotoRuns ==
  ASSUME TaskType, NEW w \in Workers, NEW s \in Slots, NEW pc, TaskGoto(w, s, pc),
         task[w][s].pc # "leaving"
  PROVE  \A v \in Workers, u \in Slots, j \in JobIds :
           Runs(v, u, j)' <=> Runs(v, u, j) /\ (v # w \/ u # s \/ pc # "leaving")
BY GotoMoves DEF Runs

\* A run starts.
LEMMA ClaimRuns ==
  ASSUME TaskType, IdleInv, NEW w \in Workers, NEW s \in Slots, NEW x \in JobIds,
         TaskAt(w, s, "idle"), task' = [task EXCEPT ![w][s] = [pc |-> "start", job |-> x]]
  PROVE  /\ \A v \in Workers, u \in Slots : v # w \/ u # s => task'[v][u] = task[v][u]
         /\ task'[w][s] = [pc |-> "start", job |-> x]
         /\ \A v \in Workers, u \in Slots, j \in JobIds :
              Runs(v, u, j)' <=> Runs(v, u, j) \/ (v = w /\ u = s /\ j = x)
<1>1. task' = [task EXCEPT ![w] = [task[w] EXCEPT ![s] = [pc |-> "start", job |-> x]]]
  BY DEF TaskType
<1>2. /\ \A v \in Workers, u \in Slots : v # w \/ u # s => task'[v][u] = task[v][u]
      /\ task'[w][s] = [pc |-> "start", job |-> x]
  BY <1>1 DEF TaskType
<1>3. QED BY <1>2, JobsAssumption DEF Runs, TaskAt, IdleInv

\* A slot becomes free.
LEMMA LeaveRuns ==
  ASSUME TaskType, NEW w \in Workers, NEW s \in Slots, TaskAt(w, s, "leaving"),
         task' = [task EXCEPT ![w][s] = IdleTask]
  PROVE  /\ \A v \in Workers, u \in Slots : v # w \/ u # s => task'[v][u] = task[v][u]
         /\ task'[w][s] = IdleTask
         /\ \A v \in Workers, u \in Slots, j \in JobIds : Runs(v, u, j)' <=> Runs(v, u, j)
<1>1. task' = [task EXCEPT ![w] = [task[w] EXCEPT ![s] = IdleTask]]
  BY DEF TaskType
<1>2. /\ \A v \in Workers, u \in Slots : v # w \/ u # s => task'[v][u] = task[v][u]
      /\ task'[w][s] = IdleTask
  BY <1>1 DEF TaskType
<1>3. QED BY <1>2, JobsAssumption DEF Runs, TaskAt, IdleTask

\* The runs of a process end with it.
LEMMA RestartRuns ==
  ASSUME TaskType, LoopType, NEW w \in Workers, WorkerRestart(w)
  PROVE  /\ \A v \in Workers \ {w}, u \in Slots : task'[v][u] = task[v][u]
         /\ \A u \in Slots : task'[w][u] = IdleTask
         /\ \A v \in Workers, u \in Slots, j \in JobIds :
              Runs(v, u, j)' <=> Runs(v, u, j) /\ v # w
         /\ loop'[w] = "promote" /\ held'[w] = NoJob
         /\ \A v \in Workers \ {w} :
              loop'[v] = loop[v] /\ held'[v] = held[v] /\ batch'[v] = batch[v]
<1>1. /\ \A v \in Workers \ {w}, u \in Slots : task'[v][u] = task[v][u]
      /\ \A u \in Slots : task'[w][u] = IdleTask
  BY DEF TaskType, WorkerRestart
<1>2. /\ loop'[w] = "promote" /\ held'[w] = NoJob
      /\ \A v \in Workers \ {w} :
           loop'[v] = loop[v] /\ held'[v] = held[v] /\ batch'[v] = batch[v]
  BY DEF LoopType, WorkerRestart
<1>3. QED BY <1>1, <1>2, JobsAssumption DEF Runs, IdleTask

-----------------------------------------------------------------------------
(* Free slots, counted replays and passed deadlines. *)

BaseInv == IdleInv /\ ReplayInv /\ StaleInv

USE DEF TypeInv, catalogVars, queueVars, workerVars

\* A step that starts no replay.
LEMMA BaseFrame ==
  ASSUME TypeInv, TypeInv', SpentGrows, BaseInv, UNCHANGED adm, IdleInv',
         Steady' =>
           /\ \A j \in overdue' : ~Running(j)'
           /\ \A v \in Workers : loop'[v] = "reclaiming" => batch'[v] \subseteq overdue'
  PROVE  BaseInv'
BY DEF BaseInv, ReplayInv, StaleInv, SpentGrows, HistoryType, Disturbances

\* A step that moves no worker and no deadline.
LEMMA BaseStill ==
  ASSUME TypeInv, TypeInv', SpentGrows, BaseInv, UNCHANGED <<overdue, loop, batch, task>>,
         ReplayInv'
  PROVE  BaseInv'
<1>1. IdleInv'
  BY DEF BaseInv, IdleInv
<1>2. \A j : Running(j)' <=> Running(j)
  BY DEF Running, Runs
<1>3. QED BY <1>1, <1>2, SettingKept DEF BaseInv, StaleInv

\* A step of a goroutine: only an Ack touches a deadline, and not a passed one.
LEMMA BaseGoto ==
  ASSUME TypeInv, TypeInv', SpentGrows, BaseInv, NEW w \in Workers, NEW s \in Slots,
         NEW pc, pc # "idle", TaskGoto(w, s, pc),
         task[w][s].pc \notin {"idle", "leaving"},
         UNCHANGED <<loop, batch, adm>>,
         UNCHANGED overdue \/ overdue' = overdue \ {task[w][s].job}
  PROVE  BaseInv'
<1>1. IdleInv'
  BY GotoMoves DEF BaseInv, IdleInv
<1>2. ASSUME Steady'
      PROVE  /\ \A j \in overdue' : ~Running(j)'
             /\ \A v \in Workers : loop'[v] = "reclaiming" => batch'[v] \subseteq overdue'
  <2>1. Steady
    BY <1>2, SettingKept
  <2>2. overdue' = overdue
    <3>1. Runs(w, s, task[w][s].job)
      BY DEF Runs
    <3>2. task[w][s].job \notin overdue
      BY <2>1, <3>1 DEF BaseInv, StaleInv, Running
    <3>3. QED BY <3>2
  <2>3. \A j \in JobIds : Running(j)' => Running(j)
    BY GotoRuns DEF Running
  <2>4. QED BY <2>1, <2>2, <2>3 DEF BaseInv, StaleInv, QueueTypeOK
<1>3. QED BY <1>1, <1>2, BaseFrame

\* Creators, and time.
LEMMA BaseRequests ==
  ASSUME TypeInv, TypeInv', SpentGrows, BaseInv,
         \/ UNCHANGED vars
         \/ \E r \in Requests :
              \/ \E t \in Tracks : CompleteCheck(r, t) \/ RetryCheck(r, t)
              \/ RequestStep(r) \/ RequestEnqueueFails(r) \/ RequestAbort(r)
         \/ \E j \in JobIds : BecomeDue(j)
         \/ \E w \in Workers : Signal(w)
  PROVE  BaseInv'
<1>1. UNCHANGED <<overdue, loop, batch, task, adm>>
  <2>1. CASE UNCHANGED vars
    BY <2>1 DEF vars
  <2>2. CASE \E r \in Requests : \E t \in Tracks : CompleteCheck(r, t) \/ RetryCheck(r, t)
    BY <2>2 DEF CompleteCheck, RetryCheck
  <2>3. CASE \E r \in Requests : RequestStep(r)
    BY <2>3 DEF RequestStep, CompleteMark, CompleteCreate, RetryCreate, RetryMark,
                RequestEnqueue
  <2>4. CASE \E r \in Requests : RequestEnqueueFails(r) \/ RequestAbort(r)
    BY <2>4 DEF RequestEnqueueFails, RequestAbort
  <2>5. CASE \E j \in JobIds : BecomeDue(j)
    BY <2>5 DEF BecomeDue
  <2>6. CASE \E w \in Workers : Signal(w)
    BY <2>6 DEF Signal
  <2>7. QED BY <2>1, <2>2, <2>3, <2>4, <2>5, <2>6
<1>2. ReplayInv'
  BY <1>1 DEF BaseInv, ReplayInv, SpentGrows, HistoryType, Disturbances
<1>3. QED BY <1>1, <1>2, BaseStill

\* A deadline that passes over a run is a slow run.
LEMMA BaseExpire ==
  ASSUME TypeInv, TypeInv', SpentGrows, BaseInv, NEW j \in JobIds, Expire(j)
  PROVE  BaseInv'
<1>1. \A k : Running(k)' <=> Running(k)
  BY DEF Expire, Running, Runs
<1>2. IdleInv'
  BY DEF Expire, BaseInv, IdleInv
<1>3. ASSUME Steady'
      PROVE  /\ \A k \in overdue' : ~Running(k)'
             /\ \A v \in Workers : loop'[v] = "reclaiming" => batch'[v] \subseteq overdue'
  <2>1. Steady /\ ~Running(j)
    BY <1>3, SettingKept, NotSteady DEF Expire
  <2>2. QED BY <1>1, <2>1 DEF Expire, BaseInv, StaleInv
<1>4. QED BY <1>2, <1>3, BaseFrame DEF Expire

\* Administrators.
LEMMA BaseAdmins ==
  ASSUME TypeInv, TypeInv', SpentGrows, BaseInv, NEW a \in Admins,
         \/ \E t \in Tracks, e \in ToSet(dlq) : DlqFind(a, t, e)
         \/ AdminStep(a)
         \/ DlqEnqueueFails(a) \/ AdminAbort(a)
  PROVE  BaseInv'
<1>1. UNCHANGED <<overdue, loop, batch, task>>
  BY DEF DlqFind, AdminStep, DlqRemove, DlqEnqueue, DlqMark, DlqEnqueueFails, AdminAbort
<1>2. ReplayInv'
  <2>1. CASE \E t \in Tracks, e \in ToSet(dlq) : DlqFind(a, t, e)
    <3>1. Spend("replay")
      BY <2>1 DEF DlqFind
    <3>2. spent'["replay"] > 0
      BY <3>1, SpendGrows DEF Disturbances
    <3>3. QED BY <3>2 DEF ReplayInv
  <2>2. CASE AdminStep(a) \/ DlqEnqueueFails(a) \/ AdminAbort(a)
    <3>1. \A b \in Admins : adm'[b].pc # "idle" => adm[b].pc # "idle"
      BY <2>2 DEF AdminStep, DlqRemove, DlqEnqueue, DlqMark, DlqEnqueueFails, AdminAbort,
                  AdmType, IdleAdm
    <3>2. QED BY <3>1 DEF BaseInv, ReplayInv, SpentGrows, HistoryType, Disturbances
  <2>3. QED BY <2>1, <2>2
<1>3. QED BY <1>1, <1>2, BaseStill

\* The main loop, up to its end: it reclaims what it has read, and claims a job
\* only after it has.
LEMMA BaseLoop ==
  ASSUME TypeInv, TypeInv', SpentGrows, BaseInv, NEW w \in Workers,
         LoopMove(w) \/ \E j \in JobIds : MoveFails(w, j)
  PROVE  BaseInv'
<1>1. CASE ~Steady'
  <2>1. UNCHANGED task \/ \E s \in Slots : Claim(w, s)
    BY DEF LoopMove, PromoteScan, ReclaimScan, PromoteOne, ReclaimOne, Pop, Acquire,
           PopTimeout, ClaimFails, BeginDrain, DrainTimeout, RequeueAck, MoveFails
  <2>2. IdleInv'
    <3>1. CASE UNCHANGED task
      BY <3>1 DEF BaseInv, IdleInv
    <3>2. CASE \E s \in Slots : Claim(w, s)
      <4>1. PICK s \in Slots : Claim(w, s)
        BY <3>2
      <4>2. /\ held[w] \in JobIds /\ TaskAt(w, s, "idle")
            /\ task' = [task EXCEPT ![w][s] = [pc |-> "start", job |-> held[w]]]
        BY <4>1 DEF Claim, LoopType
      <4>3. QED BY <4>2, ClaimRuns DEF BaseInv, IdleInv
    <3>3. QED BY <2>1, <3>1, <3>2
  <2>3. UNCHANGED adm
    BY DEF LoopMove, PromoteScan, ReclaimScan, PromoteOne, ReclaimOne, Pop, Acquire,
           PopTimeout, Claim, ClaimFails, BeginDrain, DrainTimeout, RequeueAck, MoveFails
  <2>4. QED BY <1>1, <2>2, <2>3, BaseFrame
<1>2. CASE Steady'
  <2>1. Steady /\ OneWorker
    BY <1>2, SettingKept DEF Steady
  <2>2. \A v \in Workers : v = w
    BY <2>1, TheWorker
  <2>3. /\ \A j \in overdue : ~Running(j)
        /\ loop[w] = "reclaiming" => batch[w] \subseteq overdue
    BY <2>1 DEF BaseInv, StaleInv
  <2>4. CASE \E s \in Slots : Claim(w, s)
    <3>1. PICK s \in Slots : Claim(w, s)
      BY <2>4
    <3>2. /\ held[w] \in JobIds /\ UNCHANGED adm
          /\ overdue' = overdue \ {held[w]} /\ loop'[w] = "promote"
          /\ TaskAt(w, s, "idle")
          /\ task' = [task EXCEPT ![w][s] = [pc |-> "start", job |-> held[w]]]
      BY <3>1 DEF Claim, ZAddProcessing, LoopType
    <3>3. IdleInv'
      BY <3>2, ClaimRuns DEF BaseInv, IdleInv
    <3>4. \A j \in JobIds : Running(j)' => Running(j) \/ j = held[w]
      <4>1. \A v \in Workers, u \in Slots, j \in JobIds :
              Runs(v, u, j)' <=> Runs(v, u, j) \/ (v = w /\ u = s /\ j = held[w])
        BY <3>2, ClaimRuns DEF BaseInv
      <4>2. QED BY <4>1 DEF Running
    <3>5. \A j \in overdue' : ~Running(j)'
      BY <2>3, <3>2, <3>4 DEF QueueTypeOK
    <3>6. QED BY <2>2, <3>2, <3>3, <3>5, BaseFrame
  <2>5. CASE UNCHANGED task
    <3>1. IdleInv' /\ \A j : Running(j)' <=> Running(j)
      BY <2>5 DEF BaseInv, IdleInv, Running, Runs
    <3>2. /\ UNCHANGED adm /\ overdue' \subseteq overdue
          /\ loop'[w] = "reclaiming" => batch'[w] \subseteq overdue'
      <4>1. CASE PromoteScan(w) \/ Acquire(w) \/ PopTimeout(w)
        BY <4>1, <2>3 DEF PromoteScan, Acquire, PopTimeout, LoopType
      <4>2. CASE ReclaimScan(w)
        BY <4>2 DEF ReclaimScan, LoopType
      <4>3. CASE \E j \in JobIds : PromoteOne(w, j) \/ Pop(w, j)
        BY <4>3 DEF PromoteOne, Moved, Pop, LoopType
      <4>4. CASE \E j \in JobIds : ReclaimOne(w, j)
        <5>1. PICK j \in JobIds : ReclaimOne(w, j)
          BY <4>4
        <5>2. /\ UNCHANGED adm /\ overdue' = overdue \ {j} /\ batch'[w] = batch[w] \ {j}
              /\ loop[w] = "reclaiming"
          BY <5>1 DEF ReclaimOne, ReclaimMember, ZRemProcessing, Moved, LoopType
        <5>3. QED BY <5>2, <2>3
      <4>5. CASE ClaimFails(w) \/ BeginDrain(w) \/ DrainTimeout(w)
        BY <4>5 DEF ClaimFails, BeginDrain, DrainTimeout, LoopType
      <4>6. CASE RequeueAck(w)
        BY <4>6 DEF RequeueAck, ZRemProcessing, LoopType
      <4>7. CASE \E j \in JobIds : MoveFails(w, j)
        BY <4>7, <1>2, NotSteady DEF MoveFails
      <4>8. CASE \E s \in Slots : Claim(w, s)
        <5>1. PICK s \in Slots : Claim(w, s)
          BY <4>8
        <5>2. /\ held[w] \in JobIds /\ TaskAt(w, s, "idle")
              /\ task' = [task EXCEPT ![w][s] = [pc |-> "start", job |-> held[w]]]
          BY <5>1 DEF Claim, LoopType
        <5>3. task'[w][s] = [pc |-> "start", job |-> held[w]]
          BY <5>2, ClaimRuns DEF BaseInv
        <5>4. QED BY <2>5, <5>2, <5>3 DEF TaskAt
      <4>9. QED BY <4>1, <4>2, <4>3, <4>4, <4>5, <4>6, <4>7, <4>8 DEF LoopMove
    <3>3. QED BY <2>2, <2>3, <3>1, <3>2, BaseFrame
  <2>6. QED BY <2>4, <2>5
        DEF LoopMove, PromoteScan, ReclaimScan, PromoteOne, ReclaimOne, Pop, Acquire,
            PopTimeout, ClaimFails, BeginDrain, DrainTimeout, RequeueAck, MoveFails
<1>3. QED BY <1>1, <1>2

\* The goroutines.
LEMMA BaseTasks ==
  ASSUME TypeInv, TypeInv', SpentGrows, BaseInv, NEW w \in Workers, NEW s \in Slots,
         \/ TaskStep(w, s)
         \/ AckFails(w, s) \/ LookupFails(w, s)
         \/ FailureWriteFails(w, s) \/ EnqueueFails(w, s)
  PROVE  BaseInv'
<1>1. CASE Leave(w, s)
  <2>1. UNCHANGED <<overdue, loop, batch, adm>>
    BY <1>1 DEF Leave
  <2>2. IdleInv'
    BY <1>1, LeaveRuns DEF Leave, BaseInv, IdleInv, IdleTask
  <2>3. \A j \in JobIds : Running(j)' <=> Running(j)
    BY <1>1, LeaveRuns DEF Leave, Running
  <2>4. QED BY <2>1, <2>2, <2>3, SettingKept, BaseFrame DEF BaseInv, StaleInv, QueueTypeOK
<1>2. CASE ~Leave(w, s)
  <2>1. task[w][s].pc \notin {"idle", "leaving"}
    <3>1. CASE \/ MarkRunning(w, s) \/ MarkRunningFails(w, s) \/ Transcoded(w, s)
               \/ TranscodeFails(w, s) \/ Complete(w, s) \/ CompleteFails(w, s)
      BY <3>1 DEF MarkRunning, MarkRunningFails, Transcoded, TranscodeFails, Complete,
                  CompleteFails, TaskAt
    <3>2. CASE Ack(w, s) \/ AckFails(w, s) \/ Lookup(w, s) \/ LookupFails(w, s)
      BY <3>2 DEF Ack, AckFails, AfterAck, Lookup, LookupFails, TaskAt
    <3>3. CASE \/ ResetJob(w, s) \/ BackToProcessing(w, s) \/ FailJob(w, s)
               \/ BackToDraft(w, s) \/ FailureWriteFails(w, s)
      BY <3>3 DEF ResetJob, BackToProcessing, FailJob, BackToDraft, FailureWriteFails, TaskAt
    <3>4. CASE ScheduleRetry(w, s) \/ Bury(w, s) \/ EnqueueFails(w, s)
      BY <3>4 DEF ScheduleRetry, Bury, EnqueueFails, TaskAt
    <3>5. QED BY <1>2, <3>1, <3>2, <3>3, <3>4 DEF TaskStep
  <2>2. \E pc : pc # "idle" /\ TaskGoto(w, s, pc)
    <3>1. CASE \/ MarkRunning(w, s) \/ MarkRunningFails(w, s) \/ Transcoded(w, s)
               \/ TranscodeFails(w, s) \/ Complete(w, s) \/ CompleteFails(w, s)
      BY <3>1 DEF MarkRunning, MarkRunningFails, Transcoded, TranscodeFails, Complete,
                  CompleteFails
    <3>2. CASE Ack(w, s) \/ AckFails(w, s) \/ Lookup(w, s) \/ LookupFails(w, s)
      BY <3>2 DEF Ack, AckFails, AfterAck, Lookup, LookupFails
    <3>3. CASE \/ ResetJob(w, s) \/ BackToProcessing(w, s) \/ FailJob(w, s)
               \/ BackToDraft(w, s) \/ FailureWriteFails(w, s)
      BY <3>3 DEF ResetJob, BackToProcessing, FailJob, BackToDraft, FailureWriteFails
    <3>4. CASE ScheduleRetry(w, s) \/ Bury(w, s) \/ EnqueueFails(w, s)
      BY <3>4 DEF ScheduleRetry, Bury, EnqueueFails
    <3>5. QED BY <1>2, <3>1, <3>2, <3>3, <3>4 DEF TaskStep
  <2>3. /\ UNCHANGED <<loop, batch, adm>>
        /\ UNCHANGED overdue \/ overdue' = overdue \ {task[w][s].job}
    <3>1. CASE \/ MarkRunning(w, s) \/ MarkRunningFails(w, s) \/ Transcoded(w, s)
               \/ TranscodeFails(w, s) \/ Complete(w, s) \/ CompleteFails(w, s)
      BY <3>1 DEF MarkRunning, MarkRunningFails, Transcoded, TranscodeFails, Complete,
                  CompleteFails
    <3>2. CASE Ack(w, s) \/ AckFails(w, s) \/ Lookup(w, s) \/ LookupFails(w, s)
      BY <3>2 DEF Ack, AckFails, ZRemProcessing, Lookup, LookupFails
    <3>3. CASE \/ ResetJob(w, s) \/ BackToProcessing(w, s) \/ FailJob(w, s)
               \/ BackToDraft(w, s) \/ FailureWriteFails(w, s)
      BY <3>3 DEF ResetJob, BackToProcessing, FailJob, BackToDraft, FailureWriteFails
    <3>4. CASE ScheduleRetry(w, s) \/ Bury(w, s) \/ EnqueueFails(w, s)
      BY <3>4 DEF ScheduleRetry, Bury, EnqueueFails
    <3>5. QED BY <1>2, <3>1, <3>2, <3>3, <3>4 DEF TaskStep
  <2>4. QED BY <2>1, <2>2, <2>3, BaseGoto
<1>3. QED BY <1>1, <1>2

\* The end of a process.
LEMMA BaseRestarts ==
  ASSUME TypeInv, TypeInv', SpentGrows, BaseInv, NEW w \in Workers, End(w)
  PROVE  BaseInv'
<1>1. WorkerRestart(w) /\ UNCHANGED <<overdue, adm>>
  BY DEF End, Exit, Stop, RequeuePush, Crash
<1>2. IdleInv'
  BY <1>1, RestartRuns DEF BaseInv, IdleInv, IdleTask
<1>3. ASSUME Steady'
      PROVE  /\ \A j \in overdue' : ~Running(j)'
             /\ \A v \in Workers : loop'[v] = "reclaiming" => batch'[v] \subseteq overdue'
  <2>1. Steady
    BY <1>3, SettingKept
  <2>2. \A j \in JobIds : Running(j)' => Running(j)
    BY <1>1, RestartRuns DEF Running
  <2>3. \A v \in Workers : loop'[v] = "reclaiming" => batch'[v] \subseteq overdue
    BY <1>1, <2>1, RestartRuns DEF BaseInv, StaleInv
  <2>4. QED BY <1>1, <2>1, <2>2, <2>3 DEF BaseInv, StaleInv, QueueTypeOK
<1>4. QED BY <1>1, <1>2, <1>3, BaseFrame

\* Together.
LEMMA BaseStep ==
  ASSUME TypeInv, TypeInv', BaseInv, [Next]_vars
  PROVE  BaseInv'
<1>1. SpentGrows
  BY SpentStep
<1>2. CASE Arrival
  BY <1>1, <1>2, BaseRequests, BaseAdmins DEF Arrival
<1>3. CASE \E r \in Requests : RequestStep(r)
  BY <1>1, <1>3, BaseRequests
<1>4. CASE \E w \in Workers : LoopMove(w) \/ End(w)
  BY <1>1, <1>4, BaseLoop, BaseRestarts
<1>5. CASE \E w \in Workers, s \in Slots : TaskStep(w, s)
  BY <1>1, <1>5, BaseTasks
<1>6. CASE \E a \in Admins : AdminStep(a)
  BY <1>1, <1>6, BaseAdmins
<1>7. CASE \E j \in JobIds : BecomeDue(j) \/ Expire(j)
  BY <1>1, <1>7, BaseRequests, BaseExpire
<1>8. CASE Fault
  BY <1>1, <1>8, BaseRequests, BaseLoop, BaseTasks, BaseAdmins DEF Fault
<1>9. CASE UNCHANGED vars
  BY <1>1, <1>9, BaseRequests
<1>10. QED BY <1>2, <1>3, <1>4, <1>5, <1>6, <1>7, <1>8, <1>9 DEF Next, Work

-----------------------------------------------------------------------------
(* How the parts of InOnePlace follow from what a step does. *)

\* j comes to no place.
PlaceKept(j) ==
  /\ Contains(pending, j)' => Contains(pending, j)
  /\ Popped(j)' => Popped(j)
  /\ Running(j)' => Running(j)
  /\ (j \in processing)' => j \in processing
  /\ (j \in retry)' => j \in retry
  /\ InDLQ(j)' => InDLQ(j)
  /\ Replaying(j)' => Replaying(j)

LEMMA ExclusiveKept ==
  ASSUME NEW j, Exclusive(j), PlaceKept(j)
  PROVE  Exclusive(j)'
BY DEF Exclusive, PlaceKept

\* The lists stay, and with them what is known of them.
LEMMA DLQStays ==
  ASSUME OnceInDLQ, FoundStays, OneReplay, UNCHANGED <<dlq, adm>>
  PROVE  /\ OnceInDLQ' /\ FoundStays' /\ OneReplay'
         /\ \A j : InDLQ(j)' <=> InDLQ(j)
         /\ \A j : Replaying(j)' <=> Replaying(j)
BY DEF OnceInDLQ, FoundStays, OneReplay, InDLQ, Replaying

LEMMA PendingStays ==
  ASSUME OnceInPending, UNCHANGED pending
  PROVE  OnceInPending' /\ \A j : Contains(pending, j)' <=> Contains(pending, j)
BY DEF OnceInPending, Contains

LEMMA RunsStay ==
  ASSUME OnceRunning, Acknowledged, UNCHANGED task,
         \A j \in JobIds : Running(j) => (j \in processing' <=> j \in processing)
  PROVE  OnceRunning' /\ Acknowledged' /\ \A j : Running(j)' <=> Running(j)
<1>1. \A v, u, j : Runs(v, u, j)' <=> Runs(v, u, j)
  BY DEF Runs
<1>2. \A j : Running(j)' <=> Running(j)
  BY <1>1 DEF Running
<1>3. OnceRunning'
  BY <1>1 DEF OnceRunning
<1>4. Acknowledged'
  BY <1>1 DEF Acknowledged, Running
<1>5. QED BY <1>2, <1>3, <1>4

\* A step that places nothing.
LEMMA PlaceStill ==
  ASSUME InOnePlace, UNCHANGED <<pending, processing, retry, dlq, adm, task>>,
         \A j \in JobIds : Popped(j)' => Popped(j), Batches'
  PROVE  InOnePlace'
<1>1. /\ OnceInDLQ' /\ FoundStays' /\ OneReplay' /\ OnceInPending'
      /\ OnceRunning' /\ Acknowledged'
  BY DLQStays, PendingStays, RunsStay DEF InOnePlace
<1>2. \A j \in JobIds : PlaceKept(j)
  BY DLQStays, PendingStays, RunsStay DEF InOnePlace, PlaceKept
<1>3. \A j \in JobIds : Exclusive(j)'
  BY <1>2, ExclusiveKept DEF InOnePlace
<1>4. QED BY <1>1, <1>3 DEF InOnePlace

\* A goroutine moves on with its run, before the Ack or after it.
LEMMA PlaceGoto ==
  ASSUME TypeInv, InOnePlace, UNCHANGED <<pending, processing, retry, due, dlq, adm>>,
         UNCHANGED <<loop, batch, held>>,
         NEW w \in Workers, NEW s \in Slots, NEW pc, TaskGoto(w, s, pc),
         {task[w][s].pc, pc} \cap {"idle", "leaving"} = {},
         task[w][s].pc \in FailurePc <=> pc \in FailurePc
  PROVE  InOnePlace'
<1>1. \A v \in Workers, u \in Slots, j \in JobIds : Runs(v, u, j)' <=> Runs(v, u, j)
  BY GotoRuns
<1>2. \A v \in Workers, u \in Slots : task'[v][u].pc \in FailurePc <=> task[v][u].pc \in FailurePc
  BY GotoMoves
<1>3. OnceRunning'
  BY <1>1 DEF InOnePlace, OnceRunning
<1>4. Acknowledged'
  BY <1>1, <1>2 DEF InOnePlace, Acknowledged
<1>5. \A j \in JobIds : PlaceKept(j)
  BY <1>1, DLQStays, PendingStays DEF InOnePlace, PlaceKept, Popped, Running
<1>6. \A j \in JobIds : Exclusive(j)'
  BY <1>5, ExclusiveKept DEF InOnePlace
<1>7. Batches' /\ OnceInDLQ' /\ FoundStays' /\ OneReplay' /\ OnceInPending'
  BY DLQStays, PendingStays DEF InOnePlace, Batches
<1>8. QED BY <1>3, <1>4, <1>6, <1>7 DEF InOnePlace

-----------------------------------------------------------------------------
(* Each action keeps every job in one place. *)

\* An unknown job is nowhere.
LEMMA UnknownNowhere ==
  ASSUME TypeInv, SafeInv, IdleInv, NEW j \in JobIds, ~Known(j)
  PROVE  /\ ~Contains(pending, j) /\ ~Popped(j) /\ ~Running(j) /\ j \notin processing
         /\ j \notin retry /\ ~InDLQ(j) /\ ~Replaying(j)
<1>1. ~Queued(j)
  BY DEF SafeInv, KnownInQueue
<1>2. ~Popped(j) /\ ~Replaying(j)
  BY DEF SafeInv, KnownInLoop, KnownInAdm, Popped, Replaying
<1>3. ~Running(j)
  BY JobsAssumption DEF SafeInv, KnownInTask, IdleInv, Running, Runs
<1>4. QED BY <1>1, <1>2, <1>3 DEF Queued

\* Requests place a job when they submit it.
LEMMA PlaceRequests ==
  ASSUME TypeInv, SafeInv, BaseInv, InOnePlace, NEW r \in Requests,
         \/ \E t \in Tracks : CompleteCheck(r, t) \/ RetryCheck(r, t)
         \/ RequestStep(r) \/ RequestEnqueueFails(r) \/ RequestAbort(r)
  PROVE  InOnePlace'
<1>1. CASE RequestEnqueue(r)
  <2> DEFINE x == req[r].job
  <2>1. x \in JobIds /\ ~Known(x) /\ LPush(x)
    BY <1>1 DEF RequestEnqueue, SafeInv, FreshRequests, HasRow, ReqType
  <2>2. UNCHANGED <<processing, retry, due, dlq, adm, task, loop, held, batch>>
    BY <1>1 DEF RequestEnqueue
  <2> HIDE DEF x
  <2>3. /\ ~Contains(pending, x) /\ ~Popped(x) /\ ~Running(x) /\ x \notin processing
        /\ x \notin retry /\ ~InDLQ(x) /\ ~Replaying(x)
    BY <2>1, UnknownNowhere DEF BaseInv
  <2>4. OnceInPending' /\ \A k : Contains(pending, k)' <=> Contains(pending, k) \/ k = x
    BY <2>1, <2>3, LPushOnce, LPushContains DEF InOnePlace
  <2>5. /\ OnceInDLQ' /\ FoundStays' /\ OneReplay' /\ OnceRunning' /\ Acknowledged' /\ Batches'
        /\ \A j : InDLQ(j)' <=> InDLQ(j)
        /\ \A j : Replaying(j)' <=> Replaying(j)
        /\ \A j : Running(j)' <=> Running(j)
        /\ \A j : Popped(j)' <=> Popped(j)
    BY <2>2, DLQStays, RunsStay DEF InOnePlace, Batches, Popped
  <2>6. ASSUME NEW j \in JobIds PROVE Exclusive(j)'
    <3>1. CASE j = x
      BY <2>2, <2>3, <2>5, <3>1 DEF Exclusive
    <3>2. CASE j # x
      BY <2>2, <2>4, <2>5, <3>2, ExclusiveKept DEF InOnePlace, PlaceKept
    <3>3. QED BY <3>1, <3>2
  <2>7. QED BY <2>4, <2>5, <2>6 DEF InOnePlace
<1>2. CASE ~RequestEnqueue(r)
  <2>1. UNCHANGED <<pending, processing, retry, due, dlq, adm, task, loop, held, batch>>
    <3>1. CASE \E t \in Tracks : CompleteCheck(r, t) \/ RetryCheck(r, t)
      BY <3>1 DEF CompleteCheck, RetryCheck
    <3>2. CASE RequestStep(r)
      BY <1>2, <3>2 DEF RequestStep, CompleteMark, CompleteCreate, RetryCreate, RetryMark
    <3>3. CASE RequestEnqueueFails(r) \/ RequestAbort(r)
      BY <3>3 DEF RequestEnqueueFails, RequestAbort
    <3>4. QED BY <3>1, <3>2, <3>3
  <2>2. Batches' /\ \A j \in JobIds : Popped(j)' => Popped(j)
    BY <2>1 DEF InOnePlace, Batches, Popped
  <2>3. QED BY <2>1, <2>2, PlaceStill
<1>3. QED BY <1>1, <1>2

\* Time.
LEMMA PlaceTime ==
  ASSUME TypeInv, InOnePlace,
         UNCHANGED vars \/ \E j \in JobIds : BecomeDue(j) \/ Expire(j)
  PROVE  InOnePlace'
<1>1. /\ UNCHANGED <<pending, processing, retry, dlq, adm, task, loop, held, batch>>
      /\ due \subseteq due'
  <2>1. CASE UNCHANGED vars
    BY <2>1 DEF vars
  <2>2. CASE \E j \in JobIds : BecomeDue(j)
    BY <2>2 DEF BecomeDue
  <2>3. CASE \E j \in JobIds : Expire(j)
    BY <2>3 DEF Expire
  <2>4. QED BY <2>1, <2>2, <2>3
<1>2. Batches' /\ \A j \in JobIds : Popped(j)' => Popped(j)
  BY <1>1 DEF InOnePlace, Batches, Popped
<1>3. QED BY <1>1, <1>2, PlaceStill

\* The main loop reads a batch, or moves to a point where it holds nothing.
LEMMA PlaceScans ==
  ASSUME TypeInv, InOnePlace, NEW w \in Workers,
         PromoteScan(w) \/ ReclaimScan(w) \/ Acquire(w) \/ PopTimeout(w)
  PROVE  InOnePlace'
<1>1. /\ UNCHANGED <<pending, processing, retry, due, dlq, adm, task, held>>
      /\ \A v \in Workers \ {w} : loop'[v] = loop[v] /\ batch'[v] = batch[v]
      /\ loop'[w] # "popped"
  BY DEF PromoteScan, ReclaimScan, Acquire, PopTimeout, LoopType
<1>2. loop'[w] = "promoting" => batch'[w] \subseteq due
  BY DEF PromoteScan, ReclaimScan, Acquire, PopTimeout, LoopType
<1>3. Batches'
  <2>1. ASSUME NEW v \in Workers, loop'[v] = "promoting" PROVE batch'[v] \subseteq due'
    BY <1>1, <1>2, <2>1 DEF InOnePlace, Batches
  <2>2. QED BY <2>1 DEF Batches
<1>4. \A j \in JobIds : Popped(j)' => Popped(j)
  BY <1>1 DEF Popped
<1>5. QED BY <1>1, <1>3, <1>4, PlaceStill

\* A retry that is due moves to the list.
LEMMA PlacePromote ==
  ASSUME TypeInv, Calm, InOnePlace, NEW w \in Workers, NEW x \in JobIds, PromoteOne(w, x)
  PROVE  InOnePlace'
<1>1. /\ LPush(x) /\ retry' = retry \ {x} /\ due' = due \ {x}
      /\ x \in batch[w] /\ batch'[w] = batch[w] \ {x} /\ loop[w] = "promoting"
      /\ loop'[w] \in {"promoting", "reclaim"}
      /\ UNCHANGED <<processing, dlq, adm, task, held>>
  BY DEF PromoteOne, Moved, PromoteMember, LoopType
<1>2. \A v \in Workers : v = w
  BY TheWorker DEF Calm, Steady
<1>3. x \in retry
  BY <1>1 DEF InOnePlace, Batches, QueueTypeOK
<1>4. /\ ~Contains(pending, x) /\ ~Popped(x) /\ ~Running(x) /\ x \notin processing
      /\ ~InDLQ(x) /\ ~Replaying(x)
  BY <1>3 DEF InOnePlace, Exclusive
<1>5. OnceInPending' /\ \A k : Contains(pending, k)' <=> Contains(pending, k) \/ k = x
  BY <1>1, <1>4, LPushOnce, LPushContains DEF InOnePlace
<1>6. /\ OnceInDLQ' /\ FoundStays' /\ OneReplay' /\ OnceRunning' /\ Acknowledged'
      /\ \A j : InDLQ(j)' <=> InDLQ(j)
      /\ \A j : Replaying(j)' <=> Replaying(j)
      /\ \A j : Running(j)' <=> Running(j)
  BY <1>1, DLQStays, RunsStay DEF InOnePlace
<1>7. \A j : ~Popped(j)'
  BY <1>1, <1>2 DEF Popped
<1>8. Batches'
  BY <1>1, <1>2 DEF InOnePlace, Batches
<1>9. ASSUME NEW j \in JobIds PROVE Exclusive(j)'
  <2>1. CASE j = x
    BY <1>1, <1>4, <1>6, <1>7, <2>1 DEF Exclusive
  <2>2. CASE j # x
    BY <1>1, <1>5, <1>6, <1>7, <2>2, ExclusiveKept DEF InOnePlace, PlaceKept
  <2>3. QED BY <2>1, <2>2
<1>10. QED BY <1>5, <1>6, <1>8, <1>9 DEF InOnePlace

\* A job whose deadline has passed moves to the list; no goroutine runs it.
LEMMA PlaceReclaim ==
  ASSUME TypeInv, BaseInv, Calm, InOnePlace, NEW w \in Workers, NEW x \in JobIds,
         ReclaimOne(w, x)
  PROVE  InOnePlace'
<1>1. /\ LPush(x) /\ processing' = processing \ {x} /\ x \in batch[w]
      /\ loop[w] = "reclaiming" /\ loop'[w] \in {"reclaiming", "acquire"}
      /\ UNCHANGED <<retry, due, dlq, adm, task, held>>
  BY DEF ReclaimOne, Moved, ReclaimMember, ZRemProcessing, LoopType
<1>2. \A v \in Workers : v = w
  BY TheWorker DEF Calm, Steady
<1>3. x \in processing /\ ~Running(x)
  BY <1>1 DEF Calm, BaseInv, StaleInv, QueueTypeOK
<1>4. ~Contains(pending, x) /\ ~Popped(x) /\ x \notin retry /\ ~InDLQ(x) /\ ~Replaying(x)
  BY <1>3 DEF InOnePlace, Exclusive
<1>5. OnceInPending' /\ \A k : Contains(pending, k)' <=> Contains(pending, k) \/ k = x
  BY <1>1, <1>4, LPushOnce, LPushContains DEF InOnePlace
<1>6. /\ OnceInDLQ' /\ FoundStays' /\ OneReplay'
      /\ \A j : InDLQ(j)' <=> InDLQ(j)
      /\ \A j : Replaying(j)' <=> Replaying(j)
  BY <1>1, DLQStays DEF InOnePlace
<1>7. OnceRunning' /\ Acknowledged' /\ \A j : Running(j)' <=> Running(j)
  BY <1>1, <1>3, RunsStay DEF InOnePlace
<1>8. Batches' /\ \A j : ~Popped(j)'
  BY <1>1, <1>2 DEF Batches, Popped
<1>9. ASSUME NEW j \in JobIds PROVE Exclusive(j)'
  <2>1. CASE j = x
    BY <1>1, <1>3, <1>4, <1>6, <1>7, <1>8, <2>1 DEF Exclusive
  <2>2. CASE j # x
    BY <1>1, <1>5, <1>6, <1>7, <1>8, <2>2, ExclusiveKept DEF InOnePlace, PlaceKept
  <2>3. QED BY <2>1, <2>2
<1>10. QED BY <1>5, <1>6, <1>7, <1>8, <1>9 DEF InOnePlace

\* A popped job is in the main loop's hands only.
LEMMA PlacePop ==
  ASSUME TypeInv, Calm, InOnePlace, NEW w \in Workers, NEW x \in JobIds, Pop(w, x)
  PROVE  InOnePlace'
<1>1. /\ BRPop(x) /\ loop'[w] = "popped" /\ held'[w] = x
      /\ UNCHANGED <<processing, retry, due, dlq, adm, task, batch>>
  BY DEF Pop, LoopType
<1>2. \A v \in Workers : v = w
  BY TheWorker DEF Calm, Steady
<1>3. Contains(pending, x)
  BY <1>1, BRPopContains
<1>4. /\ ~Running(x) /\ x \notin processing /\ x \notin retry /\ ~InDLQ(x) /\ ~Replaying(x)
  BY <1>3 DEF InOnePlace, Exclusive
<1>5. /\ OnceInPending' /\ ~Contains(pending, x)'
      /\ \A k : Contains(pending, k)' => Contains(pending, k)
  BY <1>1, BRPopOnce, BRPopContains DEF InOnePlace
<1>6. /\ OnceInDLQ' /\ FoundStays' /\ OneReplay' /\ OnceRunning' /\ Acknowledged'
      /\ \A j : InDLQ(j)' <=> InDLQ(j)
      /\ \A j : Replaying(j)' <=> Replaying(j)
      /\ \A j : Running(j)' <=> Running(j)
  BY <1>1, DLQStays, RunsStay DEF InOnePlace
<1>7. Batches' /\ \A j : Popped(j)' => j = x
  BY <1>1, <1>2 DEF Batches, Popped
<1>8. ASSUME NEW j \in JobIds PROVE Exclusive(j)'
  <2>1. CASE j = x
    BY <1>1, <1>4, <1>5, <1>6, <2>1 DEF Exclusive
  <2>2. CASE j # x
    BY <1>1, <1>5, <1>6, <1>7, <2>2, ExclusiveKept DEF InOnePlace, PlaceKept
  <2>3. QED BY <2>1, <2>2
<1>9. QED BY <1>5, <1>6, <1>7, <1>8 DEF InOnePlace

\* A claimed job is run by one goroutine, under its processing entry.
LEMMA PlaceClaim ==
  ASSUME TypeInv, BaseInv, Calm, InOnePlace, NEW w \in Workers, NEW s \in Slots, Claim(w, s)
  PROVE  InOnePlace'
<1> DEFINE x == held[w]
<1>1. /\ x \in JobIds /\ loop[w] = "popped" /\ loop'[w] = "promote"
      /\ TaskAt(w, s, "idle") /\ processing' = processing \cup {x}
      /\ task' = [task EXCEPT ![w][s] = [pc |-> "start", job |-> x]]
      /\ UNCHANGED <<pending, retry, due, dlq, adm, batch>>
  BY DEF Claim, ZAddProcessing, LoopType
<1>2. \A v \in Workers : v = w
  BY TheWorker DEF Calm, Steady
<1>3. Popped(x)
  BY <1>1 DEF Popped
<1> HIDE DEF x
<1>4. /\ ~Contains(pending, x) /\ ~Running(x) /\ x \notin processing
      /\ x \notin retry /\ ~InDLQ(x) /\ ~Replaying(x)
  BY <1>1, <1>3 DEF InOnePlace, Exclusive
<1>5. /\ \A v \in Workers, u \in Slots : v # w \/ u # s => task'[v][u] = task[v][u]
      /\ task'[w][s] = [pc |-> "start", job |-> x]
      /\ \A v \in Workers, u \in Slots, j \in JobIds :
           Runs(v, u, j)' <=> Runs(v, u, j) \/ (v = w /\ u = s /\ j = x)
  BY <1>1, ClaimRuns DEF BaseInv
<1>6. /\ OnceInDLQ' /\ FoundStays' /\ OneReplay' /\ OnceInPending'
      /\ \A j : InDLQ(j)' <=> InDLQ(j)
      /\ \A j : Replaying(j)' <=> Replaying(j)
      /\ \A j : Contains(pending, j)' <=> Contains(pending, j)
  BY <1>1, DLQStays, PendingStays DEF InOnePlace
<1>7. \A v \in Workers, u \in Slots : ~Runs(v, u, x)
  BY <1>4 DEF Running
<1>8. OnceRunning'
  BY <1>5, <1>7 DEF InOnePlace, OnceRunning
<1>9. Acknowledged'
  <2>1. ASSUME NEW v \in Workers, NEW u \in Slots, NEW j \in JobIds, Runs(v, u, j)'
        PROVE  j \in processing' <=> task'[v][u].pc \notin FailurePc
    <3>1. CASE v = w /\ u = s
      <4>1. task'[v][u].pc \notin FailurePc /\ j = x
        BY <1>5, <2>1, <3>1 DEF Runs, FailurePc
      <4>2. QED BY <4>1, <1>1
    <3>2. CASE v # w \/ u # s
      <4>1. Runs(v, u, j) /\ j # x /\ task'[v][u] = task[v][u]
        BY <1>5, <1>7, <2>1, <3>2
      <4>2. QED BY <4>1, <1>1 DEF InOnePlace, Acknowledged
    <3>3. QED BY <3>1, <3>2
  <2>2. QED BY <2>1 DEF Acknowledged
<1>10. Batches' /\ \A j : ~Popped(j)'
  BY <1>1, <1>2 DEF Batches, Popped
<1>11. \A j \in JobIds : Running(j)' => Running(j) \/ j = x
  BY <1>5 DEF Running
<1>12. ASSUME NEW j \in JobIds PROVE Exclusive(j)'
  <2>1. CASE j = x
    BY <1>1, <1>4, <1>6, <1>10, <2>1 DEF Exclusive
  <2>2. CASE j # x
    BY <1>1, <1>6, <1>10, <1>11, <2>2, ExclusiveKept DEF InOnePlace, PlaceKept
  <2>3. QED BY <2>1, <2>2
<1>13. QED BY <1>6, <1>8, <1>9, <1>10, <1>12 DEF InOnePlace

\* The main loop.
LEMMA PlaceLoop ==
  ASSUME TypeInv, BaseInv, CalmInv, Calm, Calm', InOnePlace, NEW w \in Workers,
         LoopMove(w) \/ \E j \in JobIds : MoveFails(w, j)
  PROVE  InOnePlace'
<1>1. ~term[w] /\ loop[w] \notin {"draining", "requeue", "requeueing"}
  BY DEF Calm, CalmInv
<1>2. CASE PromoteScan(w) \/ ReclaimScan(w) \/ Acquire(w) \/ PopTimeout(w)
  BY <1>2, PlaceScans
<1>3. CASE \E j \in JobIds : PromoteOne(w, j) \/ ReclaimOne(w, j) \/ Pop(w, j)
  BY <1>3, PlacePromote, PlaceReclaim, PlacePop
<1>4. CASE \E s \in Slots : Claim(w, s)
  BY <1>4, PlaceClaim
<1>5. CASE ClaimFails(w) \/ \E j \in JobIds : MoveFails(w, j)
  BY <1>1, <1>5, NotSteady DEF ClaimFails, MoveFails
<1>6. CASE BeginDrain(w) \/ DrainTimeout(w) \/ RequeueAck(w)
  BY <1>1, <1>6 DEF BeginDrain, DrainTimeout, RequeueAck
<1>7. QED BY <1>2, <1>3, <1>4, <1>5, <1>6 DEF LoopMove

\* A process that dies leaves the processing entries of its runs.
LEMMA PlaceRestarts ==
  ASSUME TypeInv, CalmInv, Calm, InOnePlace, NEW w \in Workers, End(w)
  PROVE  InOnePlace'
<1>1. loop[w] \notin {"draining", "requeue", "requeueing"}
  BY DEF Calm, CalmInv
<1>2. Crash(w)
  BY <1>1 DEF End, Exit, Stop, RequeuePush
<1>3. WorkerRestart(w) /\ UNCHANGED <<pending, processing, retry, due, dlq, adm>>
  BY <1>2 DEF Crash
<1>4. \A v \in Workers : v = w
  BY TheWorker DEF Calm, Steady
<1>5. /\ \A v \in Workers, u \in Slots, j \in JobIds : ~Runs(v, u, j)'
      /\ loop'[w] = "promote"
  BY <1>3, <1>4, RestartRuns
<1>6. /\ OnceInDLQ' /\ FoundStays' /\ OneReplay' /\ OnceInPending'
      /\ \A j : InDLQ(j)' <=> InDLQ(j)
      /\ \A j : Replaying(j)' <=> Replaying(j)
      /\ \A j : Contains(pending, j)' <=> Contains(pending, j)
  BY <1>3, DLQStays, PendingStays DEF InOnePlace
<1>7. OnceRunning' /\ Acknowledged' /\ \A j \in JobIds : ~Running(j)'
  BY <1>5 DEF OnceRunning, Acknowledged, Running
<1>8. Batches' /\ \A j : ~Popped(j)'
  BY <1>4, <1>5 DEF Batches, Popped
<1>9. \A j \in JobIds : PlaceKept(j)
  BY <1>3, <1>6, <1>7, <1>8 DEF PlaceKept
<1>10. QED BY <1>6, <1>7, <1>8, <1>9, ExclusiveKept DEF InOnePlace

\* The Ack takes the processing entry of the only run of the job.
LEMMA PlaceAck ==
  ASSUME TypeInv, InOnePlace, NEW w \in Workers, NEW s \in Slots, Ack(w, s)
  PROVE  InOnePlace'
<1> DEFINE x == task[w][s].job
<1>1. PICK pc \in {"leaving", "handling"} : TaskGoto(w, s, pc)
  BY DEF Ack, AfterAck
<1>2. /\ task[w][s].pc \notin {"idle", "leaving"} /\ x \in JobIds
      /\ processing' = processing \ {x}
      /\ UNCHANGED <<pending, retry, due, dlq, adm, loop, held, batch>>
  BY DEF Ack, AfterAck, TaskAt, ZRemProcessing, TaskType
<1>3. Runs(w, s, x)
  BY <1>2 DEF Runs
<1> HIDE DEF x
<1>4. /\ \A v \in Workers, u \in Slots : v # w \/ u # s => task'[v][u].pc = task[v][u].pc
      /\ task'[w][s].pc = pc
      /\ \A v \in Workers, u \in Slots, j \in JobIds :
           Runs(v, u, j)' <=> Runs(v, u, j) /\ (v # w \/ u # s \/ pc # "leaving")
  BY <1>1, <1>2, GotoMoves, GotoRuns
<1>5. OnceRunning'
  BY <1>4 DEF InOnePlace, OnceRunning
<1>6. Acknowledged'
  <2>1. ASSUME NEW v \in Workers, NEW u \in Slots, NEW j \in JobIds, Runs(v, u, j)'
        PROVE  j \in processing' <=> task'[v][u].pc \notin FailurePc
    <3>1. CASE v = w /\ u = s
      <4>1. j = x /\ pc = "handling"
        BY <1>1, <1>2, <1>3, <1>4, <2>1, <3>1 DEF Runs
      <4>2. QED BY <1>2, <1>4, <3>1, <4>1 DEF FailurePc
    <3>2. CASE v # w \/ u # s
      <4>1. Runs(v, u, j) /\ task'[v][u].pc = task[v][u].pc
        BY <1>4, <2>1, <3>2
      <4>2. j # x
        BY <1>2, <1>3, <3>2, <4>1 DEF InOnePlace, OnceRunning
      <4>3. QED BY <1>2, <4>1, <4>2 DEF InOnePlace, Acknowledged
    <3>3. QED BY <3>1, <3>2
  <2>2. QED BY <2>1 DEF Acknowledged
<1>7. /\ OnceInDLQ' /\ FoundStays' /\ OneReplay' /\ OnceInPending' /\ Batches'
      /\ \A j : InDLQ(j)' <=> InDLQ(j)
      /\ \A j : Replaying(j)' <=> Replaying(j)
      /\ \A j : Contains(pending, j)' <=> Contains(pending, j)
  BY <1>2, DLQStays, PendingStays DEF InOnePlace, Batches
<1>8. \A j \in JobIds : PlaceKept(j)
  BY <1>2, <1>4, <1>7 DEF PlaceKept, Running, Popped
<1>9. QED BY <1>5, <1>6, <1>7, <1>8, ExclusiveKept DEF InOnePlace

\* A run that has failed ends with its job scheduled, or buried.
LEMMA PlaceEnds ==
  ASSUME TypeInv, BaseInv, Calm, InOnePlace, NEW w \in Workers, NEW s \in Slots,
         ScheduleRetry(w, s) \/ Bury(w, s)
  PROVE  InOnePlace'
<1>0. PICK x \in JobIds : x = task[w][s].job
  BY DEF ScheduleRetry, Bury, TaskAt, TaskType
<1>1. /\ task[w][s].pc \in {"retrying", "burying"} /\ TaskGoto(w, s, "leaving")
      /\ UNCHANGED <<pending, processing, adm, loop, held, batch>>
  BY DEF ScheduleRetry, Bury, TaskAt
<1>2. Runs(w, s, x)
  BY <1>0, <1>1 DEF Runs
<1>3. \/ retry' = retry \cup {x} /\ due' = due \ {x} /\ UNCHANGED dlq
      \/ UNCHANGED <<retry, due>> /\ \E e \in DLQEntry : e.job = x /\ dlq' = Append(dlq, e)
  <2>1. CASE ScheduleRetry(w, s)
    BY <1>0, <2>1 DEF ScheduleRetry, ZAddRetry
  <2>2. CASE Bury(w, s)
    BY <1>0, <2>2 DEF Bury, PushDLQ, DLQEntry, QueueTypeOK
  <2>3. QED BY <2>1, <2>2
<1>4. Running(x) /\ x \notin processing
  BY <1>1, <1>2 DEF InOnePlace, Acknowledged, Running, FailurePc
<1>5. ~Contains(pending, x) /\ ~Popped(x) /\ x \notin retry /\ ~InDLQ(x) /\ ~Replaying(x)
  BY <1>1, <1>4 DEF InOnePlace, Exclusive
<1>6. /\ \A v \in Workers, u \in Slots : v # w \/ u # s => task'[v][u].pc = task[v][u].pc
      /\ \A v \in Workers, u \in Slots, j \in JobIds :
           Runs(v, u, j)' <=> Runs(v, u, j) /\ (v # w \/ u # s)
  BY <1>1, GotoMoves, GotoRuns
<1>7. ~Running(x)' /\ \A j \in JobIds : Running(j)' => Running(j)
  BY <1>1, <1>2, <1>6 DEF Running, InOnePlace, OnceRunning
<1>8. OnceRunning' /\ Acknowledged'
  BY <1>1, <1>6 DEF InOnePlace, OnceRunning, Acknowledged
<1>9. /\ OnceInPending'
      /\ \A j : Replaying(j)' <=> Replaying(j)
      /\ \A j : Contains(pending, j)' <=> Contains(pending, j)
      /\ \A j : Popped(j)' <=> Popped(j)
  BY <1>1, PendingStays DEF InOnePlace, Replaying, Popped
<1>10. Batches' /\ OneReplay'
  <2>1. x \notin due
    BY <1>5 DEF QueueTypeOK
  <2>2. QED BY <1>1, <1>3, <2>1 DEF InOnePlace, Batches, OneReplay
<1>11. CASE retry' = retry \cup {x} /\ UNCHANGED dlq
  <2>1. OnceInDLQ' /\ FoundStays' /\ \A j : InDLQ(j)' <=> InDLQ(j)
    BY <1>1, <1>11, DLQStays DEF InOnePlace
  <2>2. ASSUME NEW j \in JobIds PROVE Exclusive(j)'
    <3>1. CASE j = x
      BY <1>1, <1>4, <1>5, <1>7, <1>9, <2>1, <3>1 DEF Exclusive
    <3>2. CASE j # x
      BY <1>1, <1>7, <1>9, <1>11, <2>1, <3>2, ExclusiveKept DEF InOnePlace, PlaceKept
    <3>3. QED BY <3>1, <3>2
  <2>3. QED BY <1>8, <1>9, <1>10, <2>1, <2>2 DEF InOnePlace
<1>12. CASE UNCHANGED <<retry, due>> /\ \E e \in DLQEntry : e.job = x /\ dlq' = Append(dlq, e)
  <2>1. PICK e \in DLQEntry : e.job = x /\ dlq' = Append(dlq, e)
    BY <1>12
  <2>2. OnceInDLQ' /\ \A j : InDLQ(j)' => InDLQ(j) \/ j = x
    BY <1>5, <2>1, AppendOnce DEF InOnePlace
  <2>3. FoundStays'
    <3>1. \A d : Contains(dlq, d) => Contains(dlq, d)'
      BY <2>1, AppendProperties DEF QueueTypeOK, Contains
    <3>2. QED BY <1>1, <3>1 DEF InOnePlace, FoundStays
  <2>4. ASSUME NEW j \in JobIds PROVE Exclusive(j)'
    <3>1. CASE j = x
      BY <1>1, <1>4, <1>5, <1>7, <1>9, <1>12, <3>1 DEF Exclusive
    <3>2. CASE j # x
      BY <1>1, <1>7, <1>9, <1>12, <2>2, <3>2, ExclusiveKept DEF InOnePlace, PlaceKept
    <3>3. QED BY <3>1, <3>2
  <2>5. QED BY <1>8, <1>9, <1>10, <2>2, <2>3, <2>4 DEF InOnePlace
<1>13. QED BY <1>3, <1>11, <1>12

\* A slot becomes free.
LEMMA PlaceLeave ==
  ASSUME TypeInv, InOnePlace, NEW w \in Workers, NEW s \in Slots, Leave(w, s)
  PROVE  InOnePlace'
<1>1. /\ TaskAt(w, s, "leaving") /\ task' = [task EXCEPT ![w][s] = IdleTask]
      /\ UNCHANGED <<pending, processing, retry, due, dlq, adm, loop, held, batch>>
  BY DEF Leave
<1>2. /\ \A v \in Workers, u \in Slots : v # w \/ u # s => task'[v][u] = task[v][u]
      /\ \A v \in Workers, u \in Slots, j \in JobIds : Runs(v, u, j)' <=> Runs(v, u, j)
      /\ \A j \in JobIds : ~Runs(w, s, j)
  BY <1>1, LeaveRuns DEF Runs, TaskAt
<1>3. OnceRunning' /\ Acknowledged'
  BY <1>1, <1>2 DEF InOnePlace, OnceRunning, Acknowledged
<1>4. /\ OnceInDLQ' /\ FoundStays' /\ OneReplay' /\ OnceInPending' /\ Batches'
      /\ \A j : InDLQ(j)' <=> InDLQ(j)
      /\ \A j : Replaying(j)' <=> Replaying(j)
      /\ \A j : Contains(pending, j)' <=> Contains(pending, j)
  BY <1>1, DLQStays, PendingStays DEF InOnePlace, Batches
<1>5. \A j \in JobIds : PlaceKept(j)
  BY <1>1, <1>2, <1>4 DEF PlaceKept, Running, Popped
<1>6. QED BY <1>3, <1>4, <1>5, ExclusiveKept DEF InOnePlace

\* The goroutines.
LEMMA PlaceTasks ==
  ASSUME TypeInv, BaseInv, CalmInv, Calm, Calm', InOnePlace,
         NEW w \in Workers, NEW s \in Slots,
         \/ TaskStep(w, s)
         \/ AckFails(w, s) \/ LookupFails(w, s)
         \/ FailureWriteFails(w, s) \/ EnqueueFails(w, s)
  PROVE  InOnePlace'
<1>1. ~term[w]
  BY DEF Calm, CalmInv
<1>2. ~Spend("error")
  BY NotSteady
<1>3. CASE \/ MarkRunning(w, s) \/ Transcoded(w, s) \/ TranscodeFails(w, s) \/ Complete(w, s)
  <2>1. \E pc \in {"work", "finishing", "failed", "done"} : TaskGoto(w, s, pc)
    BY <1>3 DEF MarkRunning, Transcoded, TranscodeFails, Complete
  <2>2. task[w][s].pc \in {"start", "work", "finishing"}
    BY <1>3 DEF MarkRunning, Transcoded, TranscodeFails, Complete, TaskAt
  <2>3. UNCHANGED <<pending, processing, retry, due, dlq, adm, loop, batch, held>>
    BY <1>3 DEF MarkRunning, Transcoded, TranscodeFails, Complete
  <2>4. QED BY <2>1, <2>2, <2>3, PlaceGoto DEF FailurePc
<1>4. CASE \/ Lookup(w, s) \/ ResetJob(w, s) \/ BackToProcessing(w, s) \/ FailJob(w, s)
           \/ BackToDraft(w, s)
  <2>1. \E pc \in FailurePc : TaskGoto(w, s, pc)
    <3>1. CASE Lookup(w, s) \/ ResetJob(w, s) \/ BackToProcessing(w, s)
      BY <3>1 DEF Lookup, ResetJob, BackToProcessing, FailurePc
    <3>2. CASE FailJob(w, s) \/ BackToDraft(w, s)
      BY <3>2 DEF FailJob, BackToDraft, FailurePc
    <3>3. QED BY <1>4, <3>1, <3>2
  <2>2. task[w][s].pc \in FailurePc
    BY <1>4 DEF Lookup, ResetJob, BackToProcessing, FailJob, BackToDraft, TaskAt, FailurePc
  <2>3. UNCHANGED <<pending, processing, retry, due, dlq, adm, loop, batch, held>>
    BY <1>4 DEF Lookup, ResetJob, BackToProcessing, FailJob, BackToDraft
  <2>4. QED BY <2>1, <2>2, <2>3, PlaceGoto DEF FailurePc
<1>5. CASE MarkRunningFails(w, s) \/ CompleteFails(w, s)
  BY <1>1, <1>2, <1>5 DEF MarkRunningFails, CompleteFails
<1>6. CASE \/ AckFails(w, s) \/ LookupFails(w, s)
           \/ FailureWriteFails(w, s) \/ EnqueueFails(w, s)
  BY <1>2, <1>6 DEF AckFails, LookupFails, FailureWriteFails, EnqueueFails
<1>7. CASE Ack(w, s) \/ ScheduleRetry(w, s) \/ Bury(w, s) \/ Leave(w, s)
  BY <1>7, PlaceAck, PlaceEnds, PlaceLeave
<1>8. QED BY <1>3, <1>4, <1>5, <1>6, <1>7 DEF TaskStep

\* A replay takes its entry from the dead letters and pushes its job.
LEMMA PlaceAdmins ==
  ASSUME TypeInv, BaseInv, Calm, Calm', InOnePlace, NEW a \in Admins,
         \/ \E t \in Tracks, e \in ToSet(dlq) : DlqFind(a, t, e)
         \/ AdminStep(a)
         \/ DlqEnqueueFails(a) \/ AdminAbort(a)
  PROVE  InOnePlace'
<1>1. UNCHANGED <<processing, retry, due, task, loop, batch, held>>
  BY DEF DlqFind, AdminStep, DlqRemove, DlqEnqueue, DlqMark, DlqEnqueueFails, AdminAbort
<1>2. /\ OnceRunning' /\ Acknowledged' /\ Batches'
      /\ \A j : Running(j)' <=> Running(j)
      /\ \A j : Popped(j)' <=> Popped(j)
  BY <1>1, RunsStay DEF InOnePlace, Batches, Popped
<1>3. CASE \E t \in Tracks, e \in ToSet(dlq) : DlqFind(a, t, e)
  <2>1. PICK e \in ToSet(dlq) :
          /\ adm[a].pc = "idle" /\ Spend("replay") /\ Contains(dlq, e)
          /\ adm' = [adm EXCEPT ![a] = [pc |-> "found", entry |-> e]]
          /\ UNCHANGED <<pending, dlq>>
    BY <1>3 DEF DlqFind, NewestOf, Contains
  <2>2. \A b \in Admins \ {a} : adm[b].pc = "idle"
    <3>1. CASE OneAdmin
      BY <3>1 DEF OneAdmin
    <3>2. CASE ~OneAdmin
      <4>1. spent'["replay"] <= 1
        BY <3>2 DEF Calm, OneAdmin
      <4>2. spent["replay"] = 0
        BY <2>1, <4>1 DEF Spend, HistoryType, Disturbances
      <4>3. QED BY <4>2 DEF BaseInv, ReplayInv
    <3>3. QED BY <3>1, <3>2
  <2>3. /\ \A b \in Admins \ {a} : adm'[b] = adm[b]
        /\ adm'[a] = [pc |-> "found", entry |-> e]
    BY <2>1 DEF AdmType
  <2>4. OneReplay' /\ FoundStays' /\ \A j : Replaying(j)' => Replaying(j)
    BY <2>1, <2>2, <2>3 DEF OneReplay, FoundStays, Replaying
  <2>5. /\ OnceInPending' /\ OnceInDLQ'
        /\ \A j : InDLQ(j)' <=> InDLQ(j)
        /\ \A j : Contains(pending, j)' <=> Contains(pending, j)
    BY <2>1, PendingStays DEF InOnePlace, OnceInDLQ, InDLQ
  <2>6. \A j \in JobIds : PlaceKept(j)
    BY <1>1, <1>2, <2>4, <2>5 DEF PlaceKept
  <2>7. QED BY <1>2, <2>4, <2>5, <2>6, ExclusiveKept DEF InOnePlace
<1>4. CASE AdminStep(a) \/ DlqEnqueueFails(a) \/ AdminAbort(a)
  <2>1. adm[a].pc # "idle" /\ \A b \in Admins \ {a} : adm'[b] = adm[b]
    BY <1>4 DEF AdminStep, DlqRemove, DlqEnqueue, DlqMark, DlqEnqueueFails, AdminAbort, AdmType
  <2>2. \A b \in Admins \ {a} : adm[b].pc = "idle"
    BY <2>1 DEF InOnePlace, OneReplay
  <2>3. adm[a].entry \in DLQEntry
    BY <2>1 DEF AdmType
  <2>4. PICK e \in DLQEntry : e = adm[a].entry
    BY <2>3
  <2>5. e.job \in JobIds
    BY DEF DLQEntry
  <2>6. OneReplay'
    BY <2>1, <2>2 DEF OneReplay
  <2>7. CASE DlqRemove(a)
    <3>1. /\ adm[a].pc = "found" /\ LRemDLQ(e) /\ UNCHANGED pending
          /\ adm'[a].pc = "removed" /\ adm'[a].entry = e
      BY <2>4, <2>7 DEF DlqRemove, AdmType
    <3>2. Contains(dlq, e)
      BY <2>4, <3>1 DEF InOnePlace, FoundStays
    <3>3. InDLQ(e.job)
      BY <3>2 DEF Contains, InDLQ
    <3>4. /\ ~Contains(pending, e.job) /\ ~Popped(e.job) /\ ~Running(e.job)
          /\ e.job \notin processing /\ e.job \notin retry
      BY <2>5, <3>3 DEF InOnePlace, Exclusive
    <3>5. OnceInDLQ' /\ ~InDLQ(e.job)' /\ \A j : InDLQ(j)' => InDLQ(j)
      BY <3>1, <3>2, LRemOnce DEF InOnePlace
    <3>6. OnceInPending' /\ \A j : Contains(pending, j)' <=> Contains(pending, j)
      BY <3>1, PendingStays DEF InOnePlace
    <3>7. FoundStays' /\ \A j : Replaying(j)' => j = e.job
      BY <2>1, <2>2, <3>1 DEF FoundStays, Replaying
    <3>8. ASSUME NEW j \in JobIds PROVE Exclusive(j)'
      <4>1. CASE j = e.job
        BY <1>1, <1>2, <3>4, <3>5, <3>6, <4>1 DEF Exclusive
      <4>2. CASE j # e.job
        BY <1>1, <1>2, <3>5, <3>6, <3>7, <4>2, ExclusiveKept DEF InOnePlace, PlaceKept
      <4>3. QED BY <4>1, <4>2
    <3>9. QED BY <1>2, <2>6, <3>5, <3>6, <3>7, <3>8 DEF InOnePlace
  <2>8. CASE DlqEnqueue(a)
    <3>1. /\ adm[a].pc = "removed" /\ LPush(e.job) /\ UNCHANGED dlq /\ adm'[a].pc = "pushed"
      BY <2>4, <2>8 DEF DlqEnqueue, AdmType
    <3>2. Replaying(e.job)
      BY <2>4, <3>1 DEF Replaying
    <3>3. /\ ~Contains(pending, e.job) /\ ~Popped(e.job) /\ ~Running(e.job)
          /\ e.job \notin processing /\ e.job \notin retry /\ ~InDLQ(e.job)
      BY <2>5, <3>2 DEF InOnePlace, Exclusive
    <3>4. /\ OnceInPending'
          /\ \A k : Contains(pending, k)' <=> Contains(pending, k) \/ k = e.job
      BY <2>5, <3>1, <3>3, LPushOnce, LPushContains DEF InOnePlace
    <3>5. OnceInDLQ' /\ \A j : InDLQ(j)' <=> InDLQ(j)
      BY <3>1 DEF InOnePlace, OnceInDLQ, InDLQ
    <3>6. FoundStays' /\ \A j : ~Replaying(j)'
      BY <2>1, <2>2, <3>1 DEF FoundStays, Replaying
    <3>7. ASSUME NEW j \in JobIds PROVE Exclusive(j)'
      <4>1. CASE j = e.job
        BY <1>1, <1>2, <3>3, <3>5, <3>6, <4>1 DEF Exclusive
      <4>2. CASE j # e.job
        BY <1>1, <1>2, <3>4, <3>5, <3>6, <4>2, ExclusiveKept DEF InOnePlace, PlaceKept
      <4>3. QED BY <4>1, <4>2
    <3>8. QED BY <1>2, <2>6, <3>4, <3>5, <3>6, <3>7 DEF InOnePlace
  <2>9. CASE DlqEnqueueFails(a) /\ dlq' = Append(dlq, adm[a].entry)
    <3>1. /\ adm[a].pc = "removed" /\ UNCHANGED pending /\ adm'[a].pc = "idle"
          /\ dlq' = Append(dlq, e)
      BY <2>4, <2>9 DEF DlqEnqueueFails, AdmType, IdleAdm
    <3>2. Replaying(e.job)
      BY <2>4, <3>1 DEF Replaying
    <3>3. /\ ~Contains(pending, e.job) /\ ~Popped(e.job) /\ ~Running(e.job)
          /\ e.job \notin processing /\ e.job \notin retry /\ ~InDLQ(e.job)
      BY <2>5, <3>2 DEF InOnePlace, Exclusive
    <3>4. OnceInPending' /\ \A j : Contains(pending, j)' <=> Contains(pending, j)
      BY <3>1, PendingStays DEF InOnePlace
    <3>5. OnceInDLQ' /\ \A j : InDLQ(j)' => InDLQ(j) \/ j = e.job
      BY <3>1, <3>3, AppendOnce DEF InOnePlace
    <3>6. FoundStays' /\ \A j : ~Replaying(j)'
      BY <2>1, <2>2, <3>1 DEF FoundStays, Replaying
    <3>7. ASSUME NEW j \in JobIds PROVE Exclusive(j)'
      <4>1. CASE j = e.job
        BY <1>1, <1>2, <3>3, <3>4, <3>6, <4>1 DEF Exclusive
      <4>2. CASE j # e.job
        BY <1>1, <1>2, <3>4, <3>5, <3>6, <4>2, ExclusiveKept DEF InOnePlace, PlaceKept
      <4>3. QED BY <4>1, <4>2
    <3>8. QED BY <1>2, <2>6, <3>4, <3>5, <3>6, <3>7 DEF InOnePlace
  <2>10. CASE DlqMark(a) \/ AdminAbort(a) \/ (DlqEnqueueFails(a) /\ UNCHANGED dlq)
    <3>1. UNCHANGED <<pending, dlq>> /\ adm'[a].pc = "idle"
      <4>1. CASE DlqMark(a)
        BY <4>1 DEF DlqMark, AdmType, IdleAdm
      <4>2. CASE AdminAbort(a)
        BY <4>2 DEF AdminAbort, AdmType, IdleAdm
      <4>3. CASE DlqEnqueueFails(a) /\ UNCHANGED dlq
        BY <4>3 DEF DlqEnqueueFails, AdmType, IdleAdm
      <4>4. QED BY <2>10, <4>1, <4>2, <4>3
    <3>2. FoundStays' /\ \A j : ~Replaying(j)'
      BY <2>1, <2>2, <3>1 DEF FoundStays, Replaying
    <3>3. /\ OnceInPending' /\ OnceInDLQ'
          /\ \A j : InDLQ(j)' <=> InDLQ(j)
          /\ \A j : Contains(pending, j)' <=> Contains(pending, j)
      BY <3>1, PendingStays DEF InOnePlace, OnceInDLQ, InDLQ
    <3>4. \A j \in JobIds : PlaceKept(j)
      BY <1>1, <1>2, <3>2, <3>3 DEF PlaceKept
    <3>5. QED BY <1>2, <2>6, <3>2, <3>3, <3>4, ExclusiveKept DEF InOnePlace
  <2>11. QED BY <1>4, <2>7, <2>8, <2>9, <2>10 DEF AdminStep, DlqEnqueueFails
<1>5. QED BY <1>3, <1>4

\* Together.
LEMMA PlaceStep ==
  ASSUME TypeInv, TypeInv', SafeInv, CalmInv, BaseInv, PlaceInv, [Next]_vars
  PROVE  PlaceInv'
<1> SUFFICES ASSUME Calm'
             PROVE  InOnePlace'
  BY DEF PlaceInv
<1>1. Calm
  BY SpentStep, SettingKept
<1>2. InOnePlace
  BY <1>1 DEF PlaceInv
<1>3. CASE Arrival
  BY <1>1, <1>2, <1>3, PlaceRequests, PlaceAdmins DEF Arrival
<1>4. CASE \E r \in Requests : RequestStep(r)
  BY <1>2, <1>4, PlaceRequests
<1>5. CASE \E w \in Workers : LoopMove(w) \/ End(w)
  BY <1>1, <1>2, <1>5, PlaceLoop, PlaceRestarts
<1>6. CASE \E w \in Workers, s \in Slots : TaskStep(w, s)
  BY <1>1, <1>2, <1>6, PlaceTasks
<1>7. CASE \E a \in Admins : AdminStep(a)
  BY <1>1, <1>2, <1>7, PlaceAdmins
<1>8. CASE \E j \in JobIds : BecomeDue(j) \/ Expire(j)
  BY <1>2, <1>8, PlaceTime
<1>9. CASE Fault
  <2>1. CASE \E r \in Requests : RequestEnqueueFails(r) \/ RequestAbort(r)
    BY <1>2, <2>1, PlaceRequests
  <2>2. CASE \E w \in Workers : Signal(w)
    BY <2>2, NotCalm DEF Signal
  <2>3. CASE \E w \in Workers, j \in JobIds : MoveFails(w, j)
    BY <1>1, <1>2, <2>3, PlaceLoop
  <2>4. CASE \E w \in Workers, s \in Slots :
               AckFails(w, s) \/ LookupFails(w, s) \/ FailureWriteFails(w, s) \/ EnqueueFails(w, s)
    BY <1>1, <1>2, <2>4, PlaceTasks
  <2>5. CASE \E a \in Admins : DlqEnqueueFails(a) \/ AdminAbort(a)
    BY <1>1, <1>2, <2>5, PlaceAdmins
  <2>6. QED BY <1>9, <2>1, <2>2, <2>3, <2>4, <2>5 DEF Fault
<1>10. CASE UNCHANGED vars
  BY <1>2, <1>10, PlaceTime
<1>11. QED BY <1>3, <1>4, <1>5, <1>6, <1>7, <1>8, <1>9, <1>10 DEF Next, Work

-----------------------------------------------------------------------------
(* The invariants hold of every behaviour. *)

LEMMA BaseInit ==
  ASSUME Init
  PROVE  BaseInv
BY DEF Init, QueueInit, IdleTask, IdleAdm, BaseInv, IdleInv, ReplayInv, StaleInv

LEMMA BaseInvariant == Spec => []BaseInv
<1>1. Init => BaseInv
  BY BaseInit
<1>2. TypeInv /\ TypeInv' /\ BaseInv /\ [Next]_vars => BaseInv'
  BY BaseStep
<1>3. QED BY <1>1, <1>2, TypeInvariant, PTL DEF Spec

LEMMA PlaceInit ==
  ASSUME Init
  PROVE  PlaceInv
<1>1. Len(pending) = 0 /\ Len(dlq) = 0 /\ processing = {} /\ retry = {}
  BY DEF Init, QueueInit
<1>2. \A j : ~Contains(pending, j) /\ ~InDLQ(j)
  BY <1>1 DEF Contains, InDLQ
<1>3. \A w \in Workers, s \in Slots, j \in JobIds : ~Runs(w, s, j)
  BY JobsAssumption DEF Init, IdleTask, Runs
<1>4. \A j \in JobIds : ~Running(j) /\ ~Popped(j) /\ ~Replaying(j)
  BY <1>3 DEF Init, IdleAdm, Running, Popped, Replaying
<1>5. \A j \in JobIds : Exclusive(j)
  BY <1>1, <1>2, <1>4 DEF Exclusive
<1>6. OnceInPending /\ OnceInDLQ /\ OnceRunning /\ Acknowledged
  BY <1>1, <1>3 DEF OnceInPending, OnceInDLQ, OnceRunning, Acknowledged
<1>7. Batches /\ FoundStays /\ OneReplay
  BY DEF Init, IdleAdm, Batches, FoundStays, OneReplay
<1>8. QED BY <1>5, <1>6, <1>7 DEF PlaceInv, InOnePlace

(* One worker process that is not shut down, not slow and whose calls do   *)
(* not fail keeps every job in one place: waiting in the list, popped, run *)
(* by one goroutine, waiting for its retry, dead-lettered or about to be   *)
(* replayed.  This holds through its crashes, faults of the API process    *)
(* and replays one at a time.                                              *)
THEOREM PlaceInvariant == Spec => []PlaceInv
<1>1. Init => PlaceInv
  BY PlaceInit
<1>2. TypeInv /\ TypeInv' /\ SafeInv /\ CalmInv /\ BaseInv /\ PlaceInv /\ [Next]_vars
        => PlaceInv'
  BY PlaceStep
<1>3. QED BY <1>1, <1>2, TypeInvariant, SafetyInvariant, CalmInvariant, BaseInvariant, PTL
          DEF Spec

\* Disturbances stay within their limits.
SpentWithin == \A d \in Disturbances : spent[d] <= Limit[d]

LEMMA WithinLimits == Spec => []SpentWithin
<1>1. Init => SpentWithin
  BY PipelineAssumption DEF Init, SpentWithin
<1>2. ASSUME TypeInv, SpentWithin, [Next]_vars
      PROVE  SpentWithin'
  <2>1. CASE UNCHANGED spent
    BY <1>2, <2>1 DEF SpentWithin
  <2>2. CASE \E d \in Disturbances : Spend(d)
    <3>1. PICK d \in Disturbances : Spend(d)
      BY <2>2
    <3>2. \A e \in Disturbances : spent'[e] = IF e = d THEN spent[d] + 1 ELSE spent[e]
      BY <1>2, <3>1 DEF Spend, HistoryType
    <3>3. spent[d] \in Nat /\ Limit[d] \in Nat /\ spent[d] < Limit[d]
      BY <1>2, <3>1, PipelineAssumption DEF Spend, HistoryType
    <3>4. spent[d] + 1 <= Limit[d]
      BY <3>3
    <3>5. QED BY <1>2, <3>2, <3>4 DEF SpentWithin
  <2>3. QED BY <1>2, <2>1, <2>2, CountedStep DEF Counted
<1>3. QED BY <1>1, <1>2, TypeInvariant, PTL DEF Spec

\* The setting of a system with one worker, as a limit on its disturbances:
\* crashes, and faults of the API process, are not among them.
OneWorkerSetting ==
  /\ OneWorker
  /\ \A d \in {"slow", "error", "signal"} : Limit[d] = 0
  /\ Limit["replay"] <= 1 \/ OneAdmin

LEMMA SettingIsCalm ==
  ASSUME OneWorkerSetting, TypeInv, SpentWithin
  PROVE  Calm
BY PipelineAssumption
   DEF OneWorkerSetting, HistoryType, SpentWithin, Calm, Steady, Disturbances

-----------------------------------------------------------------------------
(* One run per job. *)

\* A set without two elements.
LEMMA AtMostOne ==
  ASSUME NEW S, \A a, b \in S : a = b
  PROVE  /\ S = {} => Cardinality(S) = 0
         /\ S # {} => Cardinality(S) = 1
<1>1. S = {} => Cardinality(S) = 0
  BY FS_EmptySet
<1>2. ASSUME S # {} PROVE Cardinality(S) = 1
  <2>1. PICK x : S = {x}
    BY <1>2
  <2>2. QED BY <2>1, FS_Singleton
<1>3. QED BY <1>1, <1>2

\* A job in one place has one copy.
LEMMA OneCopy ==
  ASSUME TypeInv, CalmInv, Calm, InOnePlace
  PROVE  OneRunPerJob
<1> SUFFICES ASSUME NEW j \in JobIds
             PROVE  Copies(j) <= 1
  BY DEF OneRunPerJob
<1> DEFINE P == {i \in 1..Len(pending) : pending[i] = j}
           H == {w \in Workers : j \in InHand(w)}
           R == {x \in Workers \X Slots : Runs(x[1], x[2], j)}
<1>1. \A i, k \in P : i = k
  BY DEF InOnePlace, OnceInPending
<1>2. \A v, w \in H : v = w
  BY TheWorker DEF Calm, Steady
<1>3. \A x, y \in R : x = y
  BY DEF InOnePlace, OnceRunning
<1>4. P # {} => Contains(pending, j)
  BY DEF Contains
<1>5. H # {} => Popped(j)
  BY DEF Calm, CalmInv, InHand, Popped
<1>6. R # {} => Running(j)
  BY DEF Running
<1>7. Exclusive(j)
  BY DEF InOnePlace
<1>8. Copies(j) = Cardinality(P) + Cardinality(H) + Cardinality(R)
  BY DEF Copies
<1> HIDE DEF P, H, R
<1>9. /\ P = {} => Cardinality(P) = 0
      /\ P # {} => Cardinality(P) = 1
      /\ H = {} => Cardinality(H) = 0
      /\ H # {} => Cardinality(H) = 1
      /\ R = {} => Cardinality(R) = 0
      /\ R # {} => Cardinality(R) = 1
  BY <1>1, <1>2, <1>3, AtMostOne
<1>10. QED BY <1>4, <1>5, <1>6, <1>7, <1>8, <1>9 DEF Exclusive

(* With one worker process a job is never in two places to be run from:    *)
(* not after a crash, whose orphan is reclaimed once, nor by a request or  *)
(* a replay that fails half-way.                                           *)
THEOREM OneRunAtATime ==
  ASSUME OneWorkerSetting
  PROVE  Spec => []OneRunPerJob
<1>1. TypeInv /\ CalmInv /\ PlaceInv /\ SpentWithin => OneRunPerJob
  BY SettingIsCalm, OneCopy DEF PlaceInv
<1>2. QED BY <1>1, TypeInvariant, CalmInvariant, PlaceInvariant, WithinLimits, PTL

-----------------------------------------------------------------------------
(* How often a job is run, and what is left to do about one that has       *)
(* completed.                                                              *)

\* A goroutine is about to start a run of j, or to schedule one.
Again == {"start", "resetting", "reprocessing", "retrying"}
Starts(j) == \E w \in Workers, s \in Slots : Runs(w, s, j) /\ task[w][s].pc \in Again
Orphan(j) == j \in processing /\ ~Running(j)
Found(j) == \E a \in Admins : adm[a].pc = "found" /\ adm[a].entry.job = j

\* j will be run once more than its row counts.
WillRun(j) ==
  \/ Contains(pending, j) \/ Popped(j) \/ j \in retry
  \/ Orphan(j) \/ Starts(j) \/ Found(j) \/ Replaying(j)

\* What a completed job is not: there is nothing left but its Ack.
Busy(j) == \E w \in Workers, s \in Slots : Runs(w, s, j) /\ task[w][s].pc # "done"
Unfinished(j) == WillRun(j) \/ InDLQ(j) \/ Busy(j)

\* The row of a job that was not submitted is as it was inserted.
RowInv ==
  \A j \in JobIds : ~Known(j) => job[j].attempts = 0 /\ job[j].status \in {"none", "pending"}

Budget == MaxAttempts + spent["crash"] + spent["replay"]
WithinBudget(j) ==
  /\ job[j].attempts <= Budget
  /\ WillRun(j) => job[j].attempts < Budget
  /\ spent["crash"] = 0 /\ job[j].status = "completed" => ~Unfinished(j)
CountInv == Calm => \A j \in JobIds : WithinBudget(j)

\* j comes no nearer to a run.
Onward(j) == (WillRun(j)' => WillRun(j)) /\ (Unfinished(j)' => Unfinished(j))

\* The row of j counts no run, and its job does not complete.
RowKept(j) ==
  /\ job'[j].attempts = job[j].attempts
  /\ job'[j].status = "completed" => job[j].status = "completed"

LEMMA BudgetGrows ==
  ASSUME TypeInv, TypeInv', SpentGrows
  PROVE  /\ Budget \in Nat /\ Budget' \in Nat /\ Budget' >= Budget
         /\ spent'["crash"] = 0 => spent["crash"] = 0
BY PipelineAssumption DEF Budget, SpentGrows, HistoryType, Disturbances

LEMMA BudgetKept ==
  ASSUME TypeInv, TypeInv', SpentGrows, NEW j \in JobIds, WithinBudget(j), Onward(j), RowKept(j)
  PROVE  WithinBudget(j)'
<1>1. job[j].attempts \in Nat /\ job'[j].attempts \in Nat
  BY DEF JobType
<1>2. QED BY <1>1, BudgetGrows DEF WithinBudget, Onward, RowKept

\* No job changes its place.
LEMMA OnwardStill ==
  ASSUME UNCHANGED <<pending, processing, retry, dlq, adm, task>>,
         NEW j, Popped(j)' => Popped(j)
  PROVE  Onward(j)
<1>1. /\ Contains(pending, j)' <=> Contains(pending, j)
      /\ InDLQ(j)' <=> InDLQ(j)
      /\ Found(j)' <=> Found(j)
      /\ Replaying(j)' <=> Replaying(j)
  BY DEF Contains, InDLQ, Found, Replaying
<1>2. \A w, s : Runs(w, s, j)' <=> Runs(w, s, j)
  BY DEF Runs
<1>3. (Running(j)' <=> Running(j)) /\ (Starts(j)' <=> Starts(j)) /\ (Busy(j)' <=> Busy(j))
  BY <1>2 DEF Running, Starts, Busy
<1>4. Orphan(j)' <=> Orphan(j)
  BY <1>3 DEF Orphan
<1>5. QED BY <1>1, <1>3, <1>4 DEF Onward, WillRun, Unfinished

\* A goroutine moves on before its end: it comes to another run only by
\* deciding on a retry.
LEMMA OnwardGoto ==
  ASSUME TypeInv, NEW w \in Workers, NEW s \in Slots, NEW pc, TaskGoto(w, s, pc),
         UNCHANGED <<pending, processing, retry, dlq, adm, loop, held>>,
         {task[w][s].pc, pc} \cap {"idle", "leaving"} = {}, task[w][s].pc # "done",
         NEW j \in JobIds
  PROVE  /\ j # task[w][s].job \/ pc \notin Again \/ task[w][s].pc \in Again => Onward(j)
         /\ Unfinished(j)' => Unfinished(j)
<1>1. /\ Contains(pending, j)' <=> Contains(pending, j)
      /\ InDLQ(j)' <=> InDLQ(j)
      /\ Found(j)' <=> Found(j)
      /\ Replaying(j)' <=> Replaying(j)
      /\ Popped(j)' <=> Popped(j)
  BY DEF Contains, InDLQ, Found, Replaying, Popped
<1>2. /\ \A v \in Workers, u \in Slots : Runs(v, u, j)' <=> Runs(v, u, j)
      /\ \A v \in Workers, u \in Slots : v # w \/ u # s => task'[v][u].pc = task[v][u].pc
      /\ task'[w][s].pc = pc
  <2>1. TaskType /\ task[w][s].pc # "leaving" /\ pc # "leaving"
    OBVIOUS
  <2>2. QED BY <2>1, GotoRuns, GotoMoves
<1>3. Running(j)' <=> Running(j)
  BY <1>2 DEF Running
<1>4. Orphan(j)' <=> Orphan(j)
  BY <1>3 DEF Orphan
<1>5. Busy(j)' => Busy(j)
  BY <1>2 DEF Busy
<1>6. Starts(j)' => Starts(j) \/ (j = task[w][s].job /\ pc \in Again)
  BY <1>2 DEF Starts, Runs
<1>7. j = task[w][s].job => Busy(j)
  BY DEF Busy, Runs
<1>8. j = task[w][s].job /\ task[w][s].pc \in Again => Starts(j)
  BY DEF Starts, Runs
<1>9. j # task[w][s].job \/ pc \notin Again \/ task[w][s].pc \in Again
        => (WillRun(j)' => WillRun(j))
  BY <1>1, <1>4, <1>6, <1>8 DEF WillRun
<1>10. WillRun(j)' => WillRun(j) \/ Busy(j)
  BY <1>1, <1>4, <1>6, <1>7 DEF WillRun
<1>11. Unfinished(j)' => Unfinished(j)
  BY <1>1, <1>5, <1>10 DEF Unfinished
<1>12. QED BY <1>9, <1>11 DEF Onward

\* While a goroutine runs a job in one place, nobody else will.
LEMMA OnlyRun ==
  ASSUME TypeInv, InOnePlace, NEW w \in Workers, NEW s \in Slots, NEW pc, TaskGoto(w, s, pc),
         UNCHANGED <<pending, processing, retry, dlq, adm, loop, held>>,
         {task[w][s].pc, pc} \cap {"idle", "leaving"} = {}, pc \notin Again,
         NEW x \in JobIds, x = task[w][s].job
  PROVE  ~WillRun(x)' /\ (pc = "done" => ~Unfinished(x)')
<1>1. Runs(w, s, x) /\ Running(x)
  BY DEF Running, Runs
<1>2. /\ ~Contains(pending, x) /\ ~Popped(x) /\ x \notin retry /\ ~InDLQ(x) /\ ~Replaying(x)
  BY <1>1 DEF InOnePlace, Exclusive
<1>3. ~Found(x)
  BY <1>2 DEF InOnePlace, FoundStays, Found, Contains, InDLQ
<1>4. /\ ~Contains(pending, x)' /\ ~Popped(x)' /\ x \notin retry' /\ ~InDLQ(x)'
      /\ ~Replaying(x)' /\ ~Found(x)'
  BY <1>2, <1>3 DEF Contains, Popped, InDLQ, Replaying, Found
<1>5. /\ \A v \in Workers, u \in Slots : Runs(v, u, x)' => v = w /\ u = s
      /\ Runs(w, s, x)' /\ task'[w][s].pc = pc
  <2>1. TaskType /\ task[w][s].pc # "leaving" /\ pc # "leaving"
    OBVIOUS
  <2>2. \A v \in Workers, u \in Slots : Runs(v, u, x)' <=> Runs(v, u, x)
    BY <2>1, GotoRuns
  <2>3. \A v \in Workers, u \in Slots : Runs(v, u, x) => v = w /\ u = s
    BY <1>1 DEF InOnePlace, OnceRunning
  <2>4. task'[w][s].pc = pc
    BY <2>1, GotoMoves
  <2>5. QED BY <1>1, <2>2, <2>3, <2>4
<1>6. ~Orphan(x)' /\ ~Starts(x)' /\ (pc = "done" => ~Busy(x)')
  BY <1>5 DEF Orphan, Running, Starts, Busy
<1>7. QED BY <1>4, <1>6 DEF WillRun, Unfinished

-----------------------------------------------------------------------------
(* Each action keeps the count. *)

\* Requests insert a row and submit its job once.
LEMMA CountRequests ==
  ASSUME TypeInv, TypeInv', SafeInv, BaseInv, RowInv, SpentGrows, NEW r \in Requests,
         \/ \E t \in Tracks : CompleteCheck(r, t) \/ RetryCheck(r, t)
         \/ RequestStep(r) \/ RequestEnqueueFails(r) \/ RequestAbort(r),
         NEW j \in JobIds, WithinBudget(j)
  PROVE  WithinBudget(j)'
<1>1. RowKept(j)
  <2>1. CASE \E t \in Tracks : CompleteCheck(r, t) \/ RetryCheck(r, t)
    BY <2>1 DEF CompleteCheck, RetryCheck, RowKept
  <2>2. CASE \E i \in JobIds : CompleteCreate(r, i) \/ RetryCreate(r, i)
    <3>1. PICK i \in JobIds : CreateTranscodeJob(i, req[r].track)
      BY <2>2 DEF CompleteCreate, RetryCreate
    <3>2. job[i].attempts = 0
      BY <3>1 DEF CreateTranscodeJob, SafeInv, FreshRequests, RowInv
    <3>3. /\ job'[i].attempts = 0 /\ job'[i].status = "pending"
          /\ i # j => job'[j] = job[j]
      BY <3>1 DEF CreateTranscodeJob, JobType
    <3>4. QED BY <3>2, <3>3 DEF RowKept
  <2>3. CASE CompleteMark(r) \/ RetryMark(r) \/ RequestEnqueue(r)
    BY <2>3 DEF CompleteMark, RetryMark, RequestEnqueue, RowKept
  <2>4. CASE RequestEnqueueFails(r) \/ RequestAbort(r)
    BY <2>4 DEF RequestEnqueueFails, RequestAbort, RowKept
  <2>5. QED BY <2>1, <2>2, <2>3, <2>4 DEF RequestStep
<1>2. CASE RequestEnqueue(r)
  <2>1. PICK x \in JobIds : /\ x = req[r].job /\ ~Known(x) /\ LPush(x)
    BY <1>2 DEF RequestEnqueue, SafeInv, FreshRequests, HasRow, ReqType
  <2>2. UNCHANGED <<processing, retry, dlq, adm, task, loop, held>>
    BY <1>2 DEF RequestEnqueue
  <2>3. CASE j = x
    <3>1. job'[j].attempts = 0 /\ job'[j].status # "completed"
      BY <1>1, <2>1, <2>3 DEF RowInv, RowKept
    <3>2. Budget' \in Nat \ {0}
      BY PipelineAssumption DEF Budget, HistoryType, Disturbances
    <3>3. 0 <= Budget' /\ 0 < Budget'
      BY <3>2
    <3>4. QED BY <3>1, <3>3 DEF WithinBudget
  <2>4. CASE j # x
    <3>1. Contains(pending, j)' => Contains(pending, j)
      BY <2>1, <2>4, LPushContains
    <3>2. /\ InDLQ(j)' <=> InDLQ(j)
          /\ Found(j)' <=> Found(j)
          /\ Replaying(j)' <=> Replaying(j)
          /\ Popped(j)' <=> Popped(j)
      BY <2>2 DEF InDLQ, Found, Replaying, Popped
    <3>3. \A w, s : Runs(w, s, j)' <=> Runs(w, s, j)
      BY <2>2 DEF Runs
    <3>4. (Running(j)' <=> Running(j)) /\ (Starts(j)' <=> Starts(j)) /\ (Busy(j)' <=> Busy(j))
      BY <2>2, <3>3 DEF Running, Starts, Busy
    <3>5. Orphan(j)' <=> Orphan(j)
      BY <2>2, <3>4 DEF Orphan
    <3>6. Onward(j)
      BY <2>2, <3>1, <3>2, <3>4, <3>5 DEF Onward, WillRun, Unfinished
    <3>7. QED BY <1>1, <3>6, BudgetKept
  <2>5. QED BY <2>3, <2>4
<1>3. CASE ~RequestEnqueue(r)
  <2>1. UNCHANGED <<pending, processing, retry, dlq, adm, task, loop, held>>
    <3>1. CASE \E t \in Tracks : CompleteCheck(r, t) \/ RetryCheck(r, t)
      BY <3>1 DEF CompleteCheck, RetryCheck
    <3>2. CASE RequestStep(r)
      BY <1>3, <3>2 DEF RequestStep, CompleteMark, CompleteCreate, RetryCreate, RetryMark
    <3>3. CASE RequestEnqueueFails(r) \/ RequestAbort(r)
      BY <3>3 DEF RequestEnqueueFails, RequestAbort
    <3>4. QED BY <3>1, <3>2, <3>3
  <2>2. Popped(j)' => Popped(j)
    BY <2>1 DEF Popped
  <2>3. Onward(j)
    BY <2>1, <2>2, OnwardStill
  <2>4. QED BY <1>1, <2>3, BudgetKept
<1>4. QED BY <1>2, <1>3

\* Time.
LEMMA CountTime ==
  ASSUME TypeInv, TypeInv', SpentGrows,
         UNCHANGED vars \/ \E i \in JobIds : BecomeDue(i) \/ Expire(i),
         NEW j \in JobIds, WithinBudget(j)
  PROVE  WithinBudget(j)'
<1>1. UNCHANGED <<job, pending, processing, retry, dlq, adm, task, loop, held>>
  <2>1. CASE UNCHANGED vars
    BY <2>1 DEF vars
  <2>2. CASE \E i \in JobIds : BecomeDue(i)
    BY <2>2 DEF BecomeDue
  <2>3. CASE \E i \in JobIds : Expire(i)
    BY <2>3 DEF Expire
  <2>4. QED BY <2>1, <2>2, <2>3
<1>2. Popped(j)' => Popped(j)
  BY <1>1 DEF Popped
<1>3. Onward(j) /\ RowKept(j)
  BY <1>1, <1>2, OnwardStill DEF RowKept
<1>4. QED BY <1>3, BudgetKept

\* The main loop hands a job on, and starts its run.
LEMMA OnwardLoop ==
  ASSUME TypeInv, BaseInv, CalmInv, Calm, Calm', InOnePlace, NEW w \in Workers,
         LoopMove(w) \/ \E i \in JobIds : MoveFails(w, i),
         NEW j \in JobIds
  PROVE  Onward(j)
<1>1. ~term[w] /\ loop[w] \notin {"draining", "requeue", "requeueing"}
  BY DEF Calm, CalmInv
<1>2. \A v \in Workers : v = w
  BY TheWorker DEF Calm, Steady
<1>3. CASE PromoteScan(w) \/ ReclaimScan(w) \/ Acquire(w) \/ PopTimeout(w)
  <2>1. UNCHANGED <<pending, processing, retry, dlq, adm, task>> /\ loop'[w] # "popped"
    BY <1>3 DEF PromoteScan, ReclaimScan, Acquire, PopTimeout, LoopType
  <2>2. ~Popped(j)'
    BY <1>2, <2>1 DEF Popped
  <2>3. QED BY <2>1, <2>2, OnwardStill
<1>4. CASE \E x \in JobIds : PromoteOne(w, x) \/ ReclaimOne(w, x) \/ Pop(w, x)
  <2>1. PICK x \in JobIds : PromoteOne(w, x) \/ ReclaimOne(w, x) \/ Pop(w, x)
    BY <1>4
  <2>2. UNCHANGED <<dlq, adm, task>>
    BY <2>1 DEF PromoteOne, ReclaimOne, Pop
  <2>3. /\ InDLQ(j)' <=> InDLQ(j)
        /\ Found(j)' <=> Found(j)
        /\ Replaying(j)' <=> Replaying(j)
    BY <2>2 DEF InDLQ, Found, Replaying
  <2>4. \A v, s : Runs(v, s, j)' <=> Runs(v, s, j)
    BY <2>2 DEF Runs
  <2>5. (Running(j)' <=> Running(j)) /\ (Starts(j)' <=> Starts(j)) /\ (Busy(j)' <=> Busy(j))
    BY <2>2, <2>4 DEF Running, Starts, Busy
  <2>6. /\ Contains(pending, j)' \/ Popped(j)' => WillRun(j)
        /\ j \in retry' => j \in retry
        /\ j \in processing' => j \in processing
    <3>1. CASE PromoteOne(w, x)
      <4>1. /\ LPush(x) /\ retry' = retry \ {x} /\ x \in batch[w] /\ loop[w] = "promoting"
            /\ loop'[w] # "popped" /\ UNCHANGED processing
        BY <3>1 DEF PromoteOne, Moved, PromoteMember, LoopType
      <4>2. x \in retry
        BY <4>1 DEF InOnePlace, Batches, QueueTypeOK
      <4>3. (Contains(pending, j)' => Contains(pending, j) \/ j = x) /\ ~Popped(j)'
        BY <1>2, <4>1, LPushContains DEF Popped
      <4>4. QED BY <4>1, <4>2, <4>3 DEF WillRun
    <3>2. CASE ReclaimOne(w, x)
      <4>1. /\ LPush(x) /\ processing' = processing \ {x} /\ x \in batch[w]
            /\ loop[w] = "reclaiming" /\ loop'[w] # "popped" /\ UNCHANGED retry
        BY <3>2 DEF ReclaimOne, Moved, ReclaimMember, ZRemProcessing, LoopType
      <4>2. Orphan(x)
        BY <4>1 DEF Calm, BaseInv, StaleInv, QueueTypeOK, Orphan
      <4>3. (Contains(pending, j)' => Contains(pending, j) \/ j = x) /\ ~Popped(j)'
        BY <1>2, <4>1, LPushContains DEF Popped
      <4>4. QED BY <4>1, <4>2, <4>3 DEF WillRun
    <3>3. CASE Pop(w, x)
      <4>1. BRPop(x) /\ held'[w] = x /\ UNCHANGED <<processing, retry>>
        BY <3>3 DEF Pop, LoopType
      <4>2. Contains(pending, x) /\ (Contains(pending, j)' => Contains(pending, j))
        BY <4>1, BRPopContains
      <4>3. Popped(j)' => j = x
        BY <1>2, <4>1 DEF Popped
      <4>4. QED BY <4>1, <4>2, <4>3 DEF WillRun
    <3>4. QED BY <2>1, <3>1, <3>2, <3>3
  <2>7. Orphan(j)' => Orphan(j)
    BY <2>5, <2>6 DEF Orphan
  <2>8. WillRun(j)' => WillRun(j)
    BY <2>3, <2>5, <2>6, <2>7 DEF WillRun
  <2>9. QED BY <2>3, <2>5, <2>8 DEF Onward, Unfinished
<1>5. CASE \E s \in Slots : Claim(w, s)
  <2>1. PICK s \in Slots : Claim(w, s)
    BY <1>5
  <2>2. PICK x \in JobIds : x = held[w]
    BY <2>1 DEF Claim, LoopType
  <2>3. /\ loop[w] = "popped" /\ loop'[w] = "promote" /\ processing' = processing \cup {x}
        /\ TaskAt(w, s, "idle") /\ task' = [task EXCEPT ![w][s] = [pc |-> "start", job |-> x]]
        /\ UNCHANGED <<pending, retry, dlq, adm>>
    BY <2>1, <2>2 DEF Claim, ZAddProcessing, LoopType
  <2>4. /\ \A v \in Workers, u \in Slots : v # w \/ u # s => task'[v][u] = task[v][u]
        /\ task'[w][s] = [pc |-> "start", job |-> x]
        /\ \A v \in Workers, u \in Slots :
             Runs(v, u, j)' <=> Runs(v, u, j) \/ (v = w /\ u = s /\ j = x)
    <3>1. /\ \A v \in Workers, u \in Slots : v # w \/ u # s => task'[v][u] = task[v][u]
          /\ task'[w][s] = [pc |-> "start", job |-> x]
          /\ \A v \in Workers, u \in Slots, i \in JobIds :
               Runs(v, u, i)' <=> Runs(v, u, i) \/ (v = w /\ u = s /\ i = x)
      BY <2>3, ClaimRuns DEF BaseInv
    <3>2. QED BY <3>1
  <2>5. /\ InDLQ(j)' <=> InDLQ(j)
        /\ Found(j)' <=> Found(j)
        /\ Replaying(j)' <=> Replaying(j)
        /\ Contains(pending, j)' <=> Contains(pending, j)
    BY <2>3 DEF InDLQ, Found, Replaying, Contains
  <2>6. ~Popped(j)'
    BY <1>2, <2>3 DEF Popped
  <2>7. (Starts(j)' => Starts(j) \/ j = x) /\ (Busy(j)' => Busy(j) \/ j = x)
    <3>1. ASSUME NEW v \in Workers, NEW u \in Slots, Runs(v, u, j)', j # x
          PROVE  Runs(v, u, j) /\ task'[v][u] = task[v][u]
      <4>1. Runs(v, u, j)
        BY <2>4, <3>1
      <4>2. v # w \/ u # s
        BY <2>4, <3>1 DEF Runs
      <4>3. QED BY <2>4, <4>1, <4>2
    <3>2. QED BY <3>1 DEF Starts, Busy
  <2>8. Orphan(j)' => Orphan(j) \/ j = x
    BY <2>3, <2>4 DEF Orphan, Running
  <2>9. j = x => Popped(j)
    BY <2>2, <2>3 DEF Popped
  <2>10. WillRun(j)' => WillRun(j)
    BY <2>3, <2>5, <2>6, <2>7, <2>8, <2>9 DEF WillRun
  <2>11. Busy(j)' => Busy(j) \/ WillRun(j)
    BY <2>7, <2>9 DEF WillRun
  <2>12. QED BY <2>5, <2>10, <2>11 DEF Onward, Unfinished
<1>6. CASE ClaimFails(w) \/ \E i \in JobIds : MoveFails(w, i)
  BY <1>1, <1>6, NotSteady DEF ClaimFails, MoveFails
<1>7. CASE BeginDrain(w) \/ DrainTimeout(w) \/ RequeueAck(w)
  BY <1>1, <1>7 DEF BeginDrain, DrainTimeout, RequeueAck
<1>8. QED BY <1>3, <1>4, <1>5, <1>6, <1>7 DEF LoopMove

LEMMA CountLoop ==
  ASSUME TypeInv, TypeInv', SpentGrows, BaseInv, CalmInv, Calm, Calm', InOnePlace,
         NEW w \in Workers, LoopMove(w) \/ \E i \in JobIds : MoveFails(w, i),
         NEW j \in JobIds, WithinBudget(j)
  PROVE  WithinBudget(j)'
<1>1. UNCHANGED job
  BY DEF LoopMove, PromoteScan, ReclaimScan, PromoteOne, ReclaimOne, Pop, Acquire, PopTimeout,
         Claim, ClaimFails, BeginDrain, DrainTimeout, RequeueAck, MoveFails
<1>2. Onward(j) /\ RowKept(j)
  BY <1>1, OnwardLoop DEF RowKept
<1>3. QED BY <1>2, BudgetKept

\* A crash is counted, and with it the run that the reclaim makes up for.
LEMMA CountRestarts ==
  ASSUME TypeInv, TypeInv', SpentGrows, CalmInv, Calm, Calm', NEW w \in Workers, End(w),
         NEW j \in JobIds, WithinBudget(j)
  PROVE  WithinBudget(j)'
<1>1. loop[w] \notin {"draining", "requeue", "requeueing"}
  BY DEF Calm, CalmInv
<1>2. Crash(w)
  BY <1>1 DEF End, Exit, Stop, RequeuePush
<1>3. Spend("crash") /\ UNCHANGED job
  BY <1>1, <1>2 DEF Crash
<1>4. spent'["crash"] = spent["crash"] + 1 /\ spent'["replay"] >= spent["replay"]
  BY <1>3 DEF Spend, HistoryType, SpentGrows, Disturbances
<1>5. Budget' > Budget /\ Budget \in Nat /\ Budget' \in Nat
  BY <1>4, PipelineAssumption DEF Budget, HistoryType, Disturbances
<1>6. job[j].attempts <= Budget /\ job[j].attempts \in Nat
  BY DEF WithinBudget, JobType
<1>7. spent'["crash"] # 0
  BY <1>4 DEF HistoryType, Disturbances
<1>8. QED BY <1>3, <1>5, <1>6, <1>7 DEF WithinBudget

\* A run is counted when it starts, and a retry decided on when the count allows it.
LEMMA CountRuns ==
  ASSUME TypeInv, TypeInv', SpentGrows, Calm, InOnePlace,
         NEW w \in Workers, NEW s \in Slots,
         \/ MarkRunning(w, s) \/ Transcoded(w, s) \/ TranscodeFails(w, s) \/ Complete(w, s)
         \/ Lookup(w, s) \/ ResetJob(w, s) \/ BackToProcessing(w, s) \/ FailJob(w, s)
         \/ BackToDraft(w, s),
         NEW j \in JobIds, WithinBudget(j)
  PROVE  WithinBudget(j)'
<1>1. PICK pc : TaskGoto(w, s, pc)
  BY DEF MarkRunning, Transcoded, TranscodeFails, Complete, Lookup, ResetJob, BackToProcessing,
         FailJob, BackToDraft
<1>2. UNCHANGED <<pending, processing, retry, dlq, adm, loop, held, spent>>
  BY DEF MarkRunning, Transcoded, TranscodeFails, Complete, Lookup, ResetJob, BackToProcessing,
         FailJob, BackToDraft
<1>3. PICK x \in JobIds : x = task[w][s].job
  <2>1. task[w][s].pc # "idle"
    BY DEF MarkRunning, Transcoded, TranscodeFails, Complete, Lookup, ResetJob,
           BackToProcessing, FailJob, BackToDraft, TaskAt
  <2>2. QED BY <2>1 DEF TaskType
<1>4. task'[w][s].pc = pc
  BY <1>1, GotoMoves
<1>5. CASE MarkRunning(w, s)
  <2>1. task[w][s].pc = "start" /\ pc = "work" /\ MarkJobRunning(x)
    BY <1>1, <1>3, <1>4, <1>5, GotoMoves DEF MarkRunning, TaskAt
  <2>2. CASE j = x
    <3>1. WillRun(j)
      BY <1>3, <2>1, <2>2 DEF WillRun, Starts, Runs, Again
    <3>2. ~WillRun(j)'
      BY <1>1, <1>2, <1>3, <2>1, <2>2, OnlyRun DEF Again
    <3>3. job'[j].attempts = job[j].attempts + 1 /\ job'[j].status = "running"
      BY <2>1, <2>2 DEF MarkJobRunning, JobType
    <3>4. job[j].attempts < Budget /\ job[j].attempts \in Nat /\ Budget \in Nat
      BY <3>1, BudgetGrows DEF WithinBudget, JobType
    <3>5. Budget' = Budget
      BY <1>2 DEF Budget
    <3>6. QED BY <3>2, <3>3, <3>4, <3>5 DEF WithinBudget
  <2>3. CASE j # x
    <3>1. RowKept(j)
      BY <2>1, <2>3 DEF MarkJobRunning, JobType, RowKept
    <3>2. Onward(j)
      BY <1>1, <1>2, <1>3, <2>1, <2>3, OnwardGoto
    <3>3. QED BY <3>1, <3>2, BudgetKept
  <2>4. QED BY <2>2, <2>3
<1>6. CASE Complete(w, s)
  <2>1. task[w][s].pc = "finishing" /\ pc = "done" /\ MarkJobCompleted(x)
    BY <1>1, <1>3, <1>4, <1>6, GotoMoves DEF Complete, TaskAt
  <2>2. Onward(j)
    BY <1>1, <1>2, <2>1, OnwardGoto DEF Again
  <2>3. CASE j = x
    <3>1. ~Unfinished(j)' /\ ~WillRun(j)'
      BY <1>1, <1>2, <1>3, <2>1, <2>3, OnlyRun DEF Again
    <3>2. job'[j].attempts = job[j].attempts
      BY <2>1, <2>3 DEF MarkJobCompleted, JobType
    <3>3. Budget' = Budget
      BY <1>2 DEF Budget
    <3>4. QED BY <3>1, <3>2, <3>3 DEF WithinBudget
  <2>4. CASE j # x
    <3>1. RowKept(j)
      BY <2>1, <2>4 DEF MarkJobCompleted, JobType, RowKept
    <3>2. QED BY <2>2, <3>1, BudgetKept
  <2>5. QED BY <2>3, <2>4
<1>7. CASE Lookup(w, s)
  <2>1. /\ task[w][s].pc = "handling" /\ pc \in {"resetting", "failing"} /\ UNCHANGED job
        /\ pc = "resetting" => job[x].attempts < MaxAttempts
    BY <1>1, <1>3, <1>4, <1>7, GotoMoves DEF Lookup, TaskAt
  <2>2. RowKept(j)
    BY <2>1 DEF RowKept
  <2>3. CASE pc = "failing" \/ j # x
    <3>1. Onward(j)
      BY <1>1, <1>2, <1>3, <2>1, <2>3, OnwardGoto DEF Again
    <3>2. QED BY <2>2, <3>1, BudgetKept
  <2>4. CASE pc = "resetting" /\ j = x
    <3>1. job[j].attempts < MaxAttempts /\ MaxAttempts \in Nat /\ job[j].attempts \in Nat
      BY <2>1, <2>4, PipelineAssumption DEF JobType
    <3>2. Budget >= MaxAttempts /\ Budget \in Nat /\ Budget' = Budget
      BY <1>2, PipelineAssumption DEF Budget, HistoryType, Disturbances
    <3>3. Unfinished(j)' => Unfinished(j)
      BY <1>1, <1>2, <2>1, OnwardGoto
    <3>4. job'[j].attempts < Budget' /\ job'[j].attempts <= Budget'
      BY <2>2, <3>1, <3>2 DEF RowKept
    <3>5. spent'["crash"] = 0 /\ job'[j].status = "completed" => ~Unfinished(j)'
      BY <1>2, <2>2, <3>3 DEF RowKept, WithinBudget
    <3>6. QED BY <3>4, <3>5 DEF WithinBudget
  <2>5. QED BY <2>1, <2>3, <2>4
<1>8. CASE \/ Transcoded(w, s) \/ TranscodeFails(w, s) \/ BackToDraft(w, s)
           \/ BackToProcessing(w, s)
  <2>1. /\ task[w][s].pc \in {"work", "drafting", "reprocessing"} /\ UNCHANGED job
        /\ pc \in {"finishing", "failed", "burying", "retrying"}
        /\ pc = "retrying" => task[w][s].pc = "reprocessing"
    <3>1. /\ task[w][s].pc \in {"work", "drafting", "reprocessing"} /\ UNCHANGED job
          /\ \E q \in {"finishing", "failed", "burying", "retrying"} :
               TaskGoto(w, s, q) /\ (q = "retrying" => task[w][s].pc = "reprocessing")
      BY <1>8 DEF Transcoded, TranscodeFails, BackToDraft, BackToProcessing, TaskAt
    <3>2. PICK q \in {"finishing", "failed", "burying", "retrying"} :
            TaskGoto(w, s, q) /\ (q = "retrying" => task[w][s].pc = "reprocessing")
      BY <3>1
    <3>3. pc = q
      BY <1>4, <3>2, GotoMoves
    <3>4. QED BY <3>1, <3>2, <3>3
  <2>2. Onward(j) /\ RowKept(j)
    BY <1>1, <1>2, <2>1, OnwardGoto DEF Again, RowKept
  <2>3. QED BY <2>2, BudgetKept
<1>9. CASE ResetJob(w, s) \/ FailJob(w, s)
  <2>1. /\ task[w][s].pc \in {"resetting", "failing"}
        /\ pc \in {"reprocessing", "drafting"}
        /\ pc = "reprocessing" => task[w][s].pc = "resetting"
        /\ ResetJobPending(x) \/ MarkJobFailed(x)
    BY <1>1, <1>3, <1>4, <1>9, GotoMoves DEF ResetJob, FailJob, TaskAt
  <2>2. Onward(j)
    BY <1>1, <1>2, <2>1, OnwardGoto DEF Again
  <2>3. RowKept(j)
    BY <2>1 DEF ResetJobPending, MarkJobFailed, JobType, RowKept
  <2>4. QED BY <2>2, <2>3, BudgetKept
<1>10. QED BY <1>5, <1>6, <1>7, <1>8, <1>9

\* The end of a goroutine: what is left of its job is a retry it had decided on,
\* or a dead letter.
LEMMA OnwardEnds ==
  ASSUME TypeInv, InOnePlace, NEW w \in Workers, NEW s \in Slots,
         Ack(w, s) \/ ScheduleRetry(w, s) \/ Bury(w, s) \/ Leave(w, s),
         NEW j \in JobIds
  PROVE  Onward(j)
<1>1. UNCHANGED <<pending, adm, loop, held>>
  BY DEF Ack, ScheduleRetry, Bury, Leave
<1>2. /\ Contains(pending, j)' <=> Contains(pending, j)
      /\ Popped(j)' <=> Popped(j)
      /\ Found(j)' <=> Found(j)
      /\ Replaying(j)' <=> Replaying(j)
  BY <1>1 DEF Contains, Popped, Found, Replaying
<1>3. CASE Leave(w, s)
  <2>1. /\ TaskAt(w, s, "leaving") /\ task' = [task EXCEPT ![w][s] = IdleTask]
        /\ UNCHANGED <<processing, retry, dlq>>
    BY <1>3 DEF Leave
  <2>2. /\ \A v \in Workers, u \in Slots : v # w \/ u # s => task'[v][u] = task[v][u]
        /\ task'[w][s] = IdleTask
        /\ \A v \in Workers, u \in Slots, i \in JobIds : Runs(v, u, i)' <=> Runs(v, u, i)
    BY <2>1, LeaveRuns
  <2>3. ~Runs(w, s, j)
    BY <2>1 DEF Runs, TaskAt
  <2>4. (Running(j)' <=> Running(j)) /\ (Starts(j)' => Starts(j)) /\ (Busy(j)' => Busy(j))
    BY <2>2, <2>3 DEF Running, Starts, Busy
  <2>5. (Orphan(j)' => Orphan(j)) /\ (InDLQ(j)' <=> InDLQ(j))
    BY <2>1, <2>4 DEF Orphan, InDLQ
  <2>6. QED BY <1>2, <2>1, <2>4, <2>5 DEF Onward, WillRun, Unfinished
<1>4. CASE Ack(w, s) \/ ScheduleRetry(w, s) \/ Bury(w, s)
  <2>1. PICK pc \in {"leaving", "handling"} : TaskGoto(w, s, pc)
    BY <1>4 DEF Ack, AfterAck, ScheduleRetry, Bury
  <2>2. task[w][s].pc \in {"done", "failed", "retrying", "burying"}
    BY <1>4 DEF Ack, AfterAck, ScheduleRetry, Bury, TaskAt
  <2>3. PICK x \in JobIds : x = task[w][s].job
    BY <2>2 DEF TaskType
  <2>4. Runs(w, s, x) /\ Running(x)
    BY <2>2, <2>3 DEF Running, Runs
  <2>5. /\ \A v \in Workers, u \in Slots, i \in JobIds :
             Runs(v, u, i)' <=> Runs(v, u, i) /\ (v # w \/ u # s \/ pc # "leaving")
        /\ \A v \in Workers, u \in Slots : v # w \/ u # s => task'[v][u].pc = task[v][u].pc
        /\ task'[w][s].pc = pc
    BY <2>1, <2>2, GotoRuns, GotoMoves
  <2>6. Starts(j)' => Starts(j)
    BY <2>1, <2>5 DEF Starts, Again
  <2>7. Running(j) => Running(j)' \/ j = x
    BY <2>3, <2>5 DEF Running, Runs
  <2>8. CASE Ack(w, s)
    <3>1. processing' = processing \ {x} /\ UNCHANGED <<retry, dlq>>
      BY <2>3, <2>8 DEF Ack, ZRemProcessing
    <3>2. Orphan(j)' => Orphan(j)
      BY <2>7, <3>1 DEF Orphan
    <3>3. Busy(j)' => Busy(j)
      <4>1. pc = "handling" => task[w][s].pc = "failed"
        BY <2>5, <2>8, GotoMoves DEF Ack, AfterAck, TaskAt
      <4>2. QED BY <2>1, <2>5, <4>1 DEF Busy
    <3>4. InDLQ(j)' <=> InDLQ(j)
      BY <3>1 DEF InDLQ
    <3>5. QED BY <1>2, <2>6, <3>1, <3>2, <3>3, <3>4 DEF Onward, WillRun, Unfinished
  <2>9. CASE ScheduleRetry(w, s) \/ Bury(w, s)
    <3>1. /\ UNCHANGED processing /\ pc = "leaving" /\ task[w][s].pc \in {"retrying", "burying"}
          /\ retry' = retry \/ (retry' = retry \cup {x} /\ task[w][s].pc = "retrying")
      BY <2>3, <2>5, <2>9, GotoMoves DEF ScheduleRetry, ZAddRetry, Bury, TaskAt
    <3>2. InDLQ(j)' => InDLQ(j) \/ j = x
      <4>1. CASE ScheduleRetry(w, s)
        BY <4>1 DEF ScheduleRetry, InDLQ
      <4>2. CASE Bury(w, s)
        <5>1. dlq' = Append(dlq, [job |-> x, failedAt |-> stamp])
          BY <2>3, <4>2 DEF Bury, PushDLQ
        <5>2. [job |-> x, failedAt |-> stamp] \in DLQEntry
          BY DEF DLQEntry, QueueTypeOK
        <5>3. QED BY <5>1, <5>2, AppendProperties DEF QueueTypeOK, InDLQ
      <4>3. QED BY <2>9, <4>1, <4>2
    <3>3. x \notin processing
      BY <2>4, <3>1 DEF InOnePlace, Acknowledged, FailurePc
    <3>4. Orphan(j)' => Orphan(j)
      BY <2>7, <3>1, <3>3 DEF Orphan
    <3>5. (Busy(j)' => Busy(j)) /\ Busy(x)
      BY <2>4, <2>5, <3>1 DEF Busy
    <3>6. j \in retry' => j \in retry \/ Starts(j)
      BY <2>4, <3>1 DEF Starts, Again
    <3>7. WillRun(j)' => WillRun(j)
      BY <1>2, <2>6, <3>4, <3>6 DEF WillRun
    <3>8. QED BY <3>2, <3>5, <3>7 DEF Onward, Unfinished
  <2>10. QED BY <1>4, <2>8, <2>9
<1>5. QED BY <1>3, <1>4

\* The goroutines.
LEMMA CountTasks ==
  ASSUME TypeInv, TypeInv', SpentGrows, CalmInv, Calm, Calm', InOnePlace,
         NEW w \in Workers, NEW s \in Slots,
         \/ TaskStep(w, s)
         \/ AckFails(w, s) \/ LookupFails(w, s)
         \/ FailureWriteFails(w, s) \/ EnqueueFails(w, s),
         NEW j \in JobIds, WithinBudget(j)
  PROVE  WithinBudget(j)'
<1>1. ~term[w]
  BY DEF Calm, CalmInv
<1>2. ~Spend("error")
  BY NotSteady
<1>3. CASE \/ MarkRunning(w, s) \/ Transcoded(w, s) \/ TranscodeFails(w, s) \/ Complete(w, s)
           \/ Lookup(w, s) \/ ResetJob(w, s) \/ BackToProcessing(w, s) \/ FailJob(w, s)
           \/ BackToDraft(w, s)
  BY <1>3, CountRuns
<1>4. CASE Ack(w, s) \/ ScheduleRetry(w, s) \/ Bury(w, s) \/ Leave(w, s)
  <2>1. UNCHANGED job
    BY <1>4 DEF Ack, ScheduleRetry, Bury, Leave
  <2>2. Onward(j) /\ RowKept(j)
    BY <1>4, <2>1, OnwardEnds DEF RowKept
  <2>3. QED BY <2>2, BudgetKept
<1>5. CASE MarkRunningFails(w, s) \/ CompleteFails(w, s)
  BY <1>1, <1>2, <1>5 DEF MarkRunningFails, CompleteFails
<1>6. CASE \/ AckFails(w, s) \/ LookupFails(w, s)
           \/ FailureWriteFails(w, s) \/ EnqueueFails(w, s)
  BY <1>2, <1>6 DEF AckFails, LookupFails, FailureWriteFails, EnqueueFails
<1>7. QED BY <1>3, <1>4, <1>5, <1>6 DEF TaskStep

\* A replay is counted when it starts; from then on its job is that replay's.
LEMMA CountAdmins ==
  ASSUME TypeInv, TypeInv', SpentGrows, InOnePlace, NEW a \in Admins,
         \/ \E t \in Tracks, e \in ToSet(dlq) : DlqFind(a, t, e)
         \/ AdminStep(a)
         \/ DlqEnqueueFails(a) \/ AdminAbort(a),
         NEW j \in JobIds, WithinBudget(j)
  PROVE  WithinBudget(j)'
<1>1. UNCHANGED <<job, processing, retry, task, loop, held>>
  BY DEF DlqFind, AdminStep, DlqRemove, DlqEnqueue, DlqMark, DlqEnqueueFails, AdminAbort
<1>2. \A w, s : Runs(w, s, j)' <=> Runs(w, s, j)
  BY <1>1 DEF Runs
<1>3. /\ Running(j)' <=> Running(j)
      /\ Starts(j)' <=> Starts(j)
      /\ Busy(j)' <=> Busy(j)
      /\ Popped(j)' <=> Popped(j)
  BY <1>1, <1>2 DEF Running, Starts, Busy, Popped
<1>4. (Orphan(j)' <=> Orphan(j)) /\ RowKept(j)
  BY <1>1, <1>3 DEF Orphan, RowKept
<1>5. CASE \E t \in Tracks, e \in ToSet(dlq) : DlqFind(a, t, e)
  <2>1. PICK e \in ToSet(dlq) :
          /\ Contains(dlq, e) /\ Spend("replay")
          /\ adm' = [adm EXCEPT ![a] = [pc |-> "found", entry |-> e]]
          /\ UNCHANGED <<pending, dlq>>
    BY <1>5 DEF DlqFind, NewestOf, Contains
  <2>2. spent'["replay"] = spent["replay"] + 1 /\ spent'["crash"] = spent["crash"]
    BY <2>1 DEF Spend, HistoryType, Disturbances
  <2>3. Budget' > Budget /\ Budget \in Nat /\ Budget' \in Nat
    BY <2>2, PipelineAssumption DEF Budget, HistoryType, Disturbances
  <2>4. job'[j].attempts <= Budget' /\ job'[j].attempts < Budget'
    <3>1. job[j].attempts <= Budget /\ job[j].attempts \in Nat
      BY DEF WithinBudget, JobType
    <3>2. QED BY <1>1, <2>3, <3>1
  <2>5. Unfinished(j)' => Unfinished(j)
    <3>1. /\ \A b \in Admins \ {a} : adm'[b] = adm[b]
          /\ adm'[a] = [pc |-> "found", entry |-> e]
      BY <2>1 DEF AdmType
    <3>2. (Found(j)' => Found(j) \/ InDLQ(j)) /\ (Replaying(j)' => Replaying(j))
      BY <2>1, <3>1 DEF Found, Replaying, InDLQ, Contains
    <3>3. (InDLQ(j)' <=> InDLQ(j)) /\ (Contains(pending, j)' <=> Contains(pending, j))
      BY <2>1 DEF InDLQ, Contains
    <3>4. WillRun(j)' => WillRun(j) \/ InDLQ(j)
      BY <1>1, <1>3, <1>4, <3>2, <3>3 DEF WillRun
    <3>5. QED BY <1>3, <3>3, <3>4 DEF Unfinished
  <2>6. spent'["crash"] = 0 /\ job'[j].status = "completed" => ~Unfinished(j)'
    BY <1>1, <2>2, <2>5 DEF WithinBudget
  <2>7. QED BY <2>4, <2>6 DEF WithinBudget
<1>6. CASE AdminStep(a) \/ DlqEnqueueFails(a) \/ AdminAbort(a)
  <2>1. /\ adm[a].pc # "idle" /\ adm'[a].pc # "found"
        /\ \A b \in Admins \ {a} : adm'[b] = adm[b]
    <3>1. CASE DlqRemove(a) \/ DlqEnqueue(a)
      BY <3>1 DEF DlqRemove, DlqEnqueue, AdmType
    <3>2. CASE DlqMark(a)
      BY <3>2 DEF DlqMark, AdmType, IdleAdm
    <3>3. CASE DlqEnqueueFails(a) \/ AdminAbort(a)
      BY <3>3 DEF DlqEnqueueFails, AdminAbort, AdmType, IdleAdm
    <3>4. QED BY <1>6, <3>1, <3>2, <3>3 DEF AdminStep
  <2>2. PICK e \in DLQEntry : e = adm[a].entry
    BY <2>1 DEF AdmType
  <2>3. Found(j)' => Found(j)
    BY <2>1 DEF Found
  <2>4. CASE DlqRemove(a)
    <3>1. /\ adm[a].pc = "found" /\ LRemDLQ(e) /\ UNCHANGED pending /\ adm'[a].entry = e
      BY <2>2, <2>4 DEF DlqRemove, AdmType
    <3>2. Replaying(j)' => Replaying(j) \/ Found(j)
      BY <2>1, <2>2, <3>1 DEF Replaying, Found
    <3>3. (InDLQ(j)' => InDLQ(j)) /\ (Contains(pending, j)' <=> Contains(pending, j))
      BY <3>1, LRemIn DEF Contains
    <3>4. QED BY <1>1, <1>3, <1>4, <2>3, <3>2, <3>3, BudgetKept DEF Onward, WillRun, Unfinished
  <2>5. CASE ~DlqRemove(a)
    <3>1. /\ adm'[a].pc # "removed" /\ adm[a].pc \in AdmPc
          /\ (adm[a].pc = "removed" /\ LPush(e.job)) \/ UNCHANGED pending
          /\ (adm[a].pc = "removed" /\ dlq' = Append(dlq, e)) \/ UNCHANGED dlq
      <4>1. CASE DlqEnqueue(a)
        BY <2>2, <4>1 DEF DlqEnqueue, AdmType
      <4>2. CASE DlqMark(a)
        BY <4>2 DEF DlqMark, AdmType, IdleAdm
      <4>3. CASE DlqEnqueueFails(a)
        BY <2>2, <4>3 DEF DlqEnqueueFails, AdmType, IdleAdm
      <4>4. CASE AdminAbort(a)
        BY <4>4 DEF AdminAbort, AdmType, IdleAdm
      <4>5. QED BY <1>6, <2>5, <4>1, <4>2, <4>3, <4>4 DEF AdminStep
    <3>2. Replaying(j)' => Replaying(j)
      BY <2>1, <3>1 DEF Replaying
    <3>3. adm[a].pc = "removed" /\ j = e.job => Replaying(j)
      BY <2>2 DEF Replaying
    <3>4. Contains(pending, j)' => Contains(pending, j) \/ Replaying(j)
      <4>1. CASE adm[a].pc = "removed" /\ LPush(e.job)
        <5>1. e.job \in JobIds
          BY DEF DLQEntry
        <5>2. QED BY <3>3, <4>1, <5>1, LPushContains
      <4>2. CASE UNCHANGED pending
        BY <4>2 DEF Contains
      <4>3. QED BY <3>1, <4>1, <4>2
    <3>5. InDLQ(j)' => InDLQ(j) \/ Replaying(j)
      <4>1. CASE adm[a].pc = "removed" /\ dlq' = Append(dlq, e)
        BY <3>3, <4>1, AppendProperties DEF QueueTypeOK, InDLQ
      <4>2. CASE UNCHANGED dlq
        BY <4>2 DEF InDLQ
      <4>3. QED BY <3>1, <4>1, <4>2
    <3>6. WillRun(j)' => WillRun(j)
      BY <1>1, <1>3, <1>4, <2>3, <3>2, <3>4 DEF WillRun
    <3>7. InDLQ(j)' => InDLQ(j) \/ WillRun(j)
      BY <3>5 DEF WillRun
    <3>8. Onward(j)
      BY <1>3, <3>6, <3>7 DEF Onward, Unfinished
    <3>9. QED BY <1>4, <3>8, BudgetKept
  <2>6. QED BY <2>4, <2>5
<1>7. QED BY <1>5, <1>6

\* What a step may do to the row of a job, and to its history.
RowWritten(j) ==
  MarkJobRunning(j) \/ MarkJobCompleted(j) \/ MarkJobFailed(j) \/ ResetJobPending(j)

LEMMA RowChanges ==
  ASSUME [Next]_vars
  PROVE  \/ UNCHANGED job
         \/ \E j \in JobIds : \E t : CreateTranscodeJob(j, t)
         \/ \E w \in Workers, s \in Slots :
              /\ task[w][s].pc \in {"start", "finishing", "resetting", "failing"}
              /\ RowWritten(task[w][s].job)
<1> DEFINE Written(w, s) ==
             /\ task[w][s].pc \in {"start", "finishing", "resetting", "failing"}
             /\ RowWritten(task[w][s].job)
<1>1. CASE Arrival
  BY <1>1 DEF Arrival, CompleteCheck, RetryCheck, DlqFind
<1>2. CASE \E r \in Requests : RequestStep(r)
  BY <1>2 DEF RequestStep, CompleteMark, CompleteCreate, RetryCreate, RetryMark, RequestEnqueue
<1>3. CASE \E w \in Workers : LoopMove(w)
  BY <1>3 DEF LoopMove, PromoteScan, ReclaimScan, PromoteOne, ReclaimOne, Pop, Acquire,
              PopTimeout, Claim, ClaimFails, BeginDrain, DrainTimeout, RequeueAck
<1>4. CASE \E w \in Workers : End(w)
  BY <1>4 DEF End, Exit, Stop, RequeuePush, Crash
<1>5. CASE \E w \in Workers, s \in Slots : TaskStep(w, s)
  <2>1. PICK w \in Workers, s \in Slots : TaskStep(w, s)
    BY <1>5
  <2>2. CASE \/ MarkRunningFails(w, s) \/ CompleteFails(w, s) \/ Transcoded(w, s)
             \/ TranscodeFails(w, s)
    BY <2>2 DEF MarkRunningFails, CompleteFails, Transcoded, TranscodeFails
  <2>3. CASE \/ Ack(w, s) \/ Lookup(w, s) \/ Leave(w, s) \/ BackToProcessing(w, s)
             \/ BackToDraft(w, s) \/ ScheduleRetry(w, s) \/ Bury(w, s)
    BY <2>3 DEF Ack, Lookup, Leave, BackToProcessing, BackToDraft, ScheduleRetry, Bury
  <2>4. CASE MarkRunning(w, s) \/ Complete(w, s) \/ ResetJob(w, s) \/ FailJob(w, s)
    <3>1. Written(w, s)
      BY <2>4 DEF MarkRunning, Complete, ResetJob, FailJob, TaskAt, RowWritten
    <3>2. QED BY <3>1
  <2>5. QED BY <2>1, <2>2, <2>3, <2>4 DEF TaskStep
<1>6. CASE \E a \in Admins : AdminStep(a)
  BY <1>6 DEF AdminStep, DlqRemove, DlqEnqueue, DlqMark
<1>7. CASE \E j \in JobIds : BecomeDue(j) \/ Expire(j)
  BY <1>7 DEF BecomeDue, Expire
<1>8. CASE Fault
  BY <1>8 DEF Fault, RequestEnqueueFails, RequestAbort, Signal, MoveFails, AckFails, LookupFails,
              FailureWriteFails, EnqueueFails, DlqEnqueueFails, AdminAbort
<1>9. CASE UNCHANGED vars
  BY <1>9 DEF vars
<1>10. QED BY <1>1, <1>2, <1>3, <1>4, <1>5, <1>6, <1>7, <1>8, <1>9 DEF Next, Work

LEMMA FateChanges ==
  ASSUME [Next]_vars
  PROVE  \/ UNCHANGED fate
         \/ \E S : Drop(S)
         \/ \E r \in Requests : RequestEnqueue(r)
         \/ \E w \in Workers, s \in Slots : Complete(w, s)
<1>1. CASE Arrival
  BY <1>1 DEF Arrival, CompleteCheck, RetryCheck, DlqFind
<1>2. CASE \E r \in Requests : RequestStep(r)
  BY <1>2 DEF RequestStep, CompleteMark, CompleteCreate, RetryCreate, RetryMark
<1>3. CASE \E w \in Workers : LoopMove(w)
  BY <1>3 DEF LoopMove, PromoteScan, ReclaimScan, PromoteOne, ReclaimOne, Pop, Acquire,
              PopTimeout, Claim, ClaimFails, BeginDrain, DrainTimeout, RequeueAck
<1>4. CASE \E w \in Workers : End(w)
  BY <1>4 DEF End, Exit, Stop, RequeuePush, Crash
<1>5. CASE \E w \in Workers, s \in Slots : TaskStep(w, s)
  <2>1. PICK w \in Workers, s \in Slots : TaskStep(w, s)
    BY <1>5
  <2>2. CASE \/ MarkRunning(w, s) \/ MarkRunningFails(w, s) \/ CompleteFails(w, s)
             \/ Transcoded(w, s) \/ TranscodeFails(w, s) \/ Ack(w, s) \/ Lookup(w, s)
    BY <2>2 DEF MarkRunning, MarkRunningFails, CompleteFails, Transcoded, TranscodeFails, Ack,
                Lookup
  <2>3. CASE \/ ResetJob(w, s) \/ FailJob(w, s) \/ Leave(w, s) \/ BackToProcessing(w, s)
             \/ BackToDraft(w, s) \/ ScheduleRetry(w, s) \/ Bury(w, s)
    BY <2>3 DEF ResetJob, FailJob, Leave, BackToProcessing, BackToDraft, ScheduleRetry, Bury
  <2>4. QED BY <2>1, <2>2, <2>3 DEF TaskStep
<1>6. CASE \E a \in Admins : AdminStep(a)
  BY <1>6 DEF AdminStep, DlqRemove, DlqEnqueue, DlqMark
<1>7. CASE \E j \in JobIds : BecomeDue(j) \/ Expire(j)
  BY <1>7 DEF BecomeDue, Expire
<1>8. CASE Fault
  BY <1>8 DEF Fault, RequestEnqueueFails, RequestAbort, Signal, MoveFails, AckFails, LookupFails,
              FailureWriteFails, EnqueueFails, DlqEnqueueFails, AdminAbort
<1>9. CASE UNCHANGED vars
  BY <1>9 DEF vars
<1>10. QED BY <1>1, <1>2, <1>3, <1>4, <1>5, <1>6, <1>7, <1>8, <1>9 DEF Next, Work

\* The rows of jobs nobody has submitted.
LEMMA RowStep ==
  ASSUME TypeInv, SafeInv, RowInv, [Next]_vars
  PROVE  RowInv'
<1>1. \A j \in JobIds : ~Known(j)' => ~Known(j)
  <2> SUFFICES ASSUME NEW j \in JobIds, Known(j) PROVE Known(j)'
    OBVIOUS
  <2>1. CASE UNCHANGED fate
    BY <2>1 DEF Known
  <2>2. CASE \E S : Drop(S)
    BY <2>2 DEF Drop, Known
  <2>3. CASE \E r \in Requests : RequestEnqueue(r)
    BY <2>3 DEF RequestEnqueue, Known, HistoryType
  <2>4. CASE \E w \in Workers, s \in Slots : Complete(w, s)
    BY <2>4 DEF Complete, Known, HistoryType
  <2>5. QED BY <2>1, <2>2, <2>3, <2>4, FateChanges
<1>2. CASE UNCHANGED job
  BY <1>1, <1>2 DEF RowInv
<1>3. CASE \E j \in JobIds : \E t : CreateTranscodeJob(j, t)
  BY <1>1, <1>3 DEF CreateTranscodeJob, RowInv, JobType
<1>4. CASE \E w \in Workers, s \in Slots :
             /\ task[w][s].pc \in {"start", "finishing", "resetting", "failing"}
             /\ RowWritten(task[w][s].job)
  <2>1. PICK w \in Workers, s \in Slots :
          /\ task[w][s].pc \in {"start", "finishing", "resetting", "failing"}
          /\ RowWritten(task[w][s].job)
    BY <1>4
  <2>2. PICK x \in JobIds : x = task[w][s].job
    BY <2>1 DEF TaskType
  <2>3. Known(x)
    <3>1. task[w][s].pc # "idle"
      BY <2>1, SMTT(30)
    <3>2. QED BY <2>2, <3>1 DEF SafeInv, KnownInTask
  <2>4. \A j \in JobIds : j # x => job'[j] = job[j]
    BY <2>1, <2>2 DEF RowWritten, MarkJobRunning, MarkJobCompleted, MarkJobFailed,
                      ResetJobPending, JobType
  <2>5. QED BY <1>1, <2>3, <2>4 DEF RowInv
<1>5. QED BY <1>2, <1>3, <1>4, RowChanges

\* Together.
LEMMA CountStep ==
  ASSUME TypeInv, TypeInv', SafeInv, CalmInv, BaseInv, RowInv, PlaceInv, CountInv, [Next]_vars
  PROVE  CountInv'
<1> SUFFICES ASSUME Calm', NEW j \in JobIds
             PROVE  WithinBudget(j)'
  BY DEF CountInv
<1>1. SpentGrows
  BY SpentStep
<1>2. Calm
  BY <1>1, SettingKept
<1>3. InOnePlace /\ WithinBudget(j)
  BY <1>2 DEF PlaceInv, CountInv
<1>4. CASE Arrival
  BY <1>1, <1>3, <1>4, CountRequests, CountAdmins DEF Arrival
<1>5. CASE \E r \in Requests : RequestStep(r)
  BY <1>1, <1>3, <1>5, CountRequests
<1>6. CASE \E w \in Workers : LoopMove(w) \/ End(w)
  BY <1>1, <1>2, <1>3, <1>6, CountLoop, CountRestarts
<1>7. CASE \E w \in Workers, s \in Slots : TaskStep(w, s)
  BY <1>1, <1>2, <1>3, <1>7, CountTasks
<1>8. CASE \E a \in Admins : AdminStep(a)
  BY <1>1, <1>3, <1>8, CountAdmins
<1>9. CASE \E i \in JobIds : BecomeDue(i) \/ Expire(i)
  BY <1>1, <1>3, <1>9, CountTime
<1>10. CASE Fault
  <2>1. CASE \E r \in Requests : RequestEnqueueFails(r) \/ RequestAbort(r)
    BY <1>1, <1>3, <2>1, CountRequests
  <2>2. CASE \E w \in Workers : Signal(w)
    BY <2>2, NotCalm DEF Signal
  <2>3. CASE \E w \in Workers, i \in JobIds : MoveFails(w, i)
    BY <1>1, <1>2, <1>3, <2>3, CountLoop
  <2>4. CASE \E w \in Workers, s \in Slots :
               AckFails(w, s) \/ LookupFails(w, s) \/ FailureWriteFails(w, s) \/ EnqueueFails(w, s)
    BY <1>1, <1>2, <1>3, <2>4, CountTasks
  <2>5. CASE \E a \in Admins : DlqEnqueueFails(a) \/ AdminAbort(a)
    BY <1>1, <1>3, <2>5, CountAdmins
  <2>6. QED BY <1>10, <2>1, <2>2, <2>3, <2>4, <2>5 DEF Fault
<1>11. CASE UNCHANGED vars
  BY <1>1, <1>3, <1>11, CountTime
<1>12. QED BY <1>4, <1>5, <1>6, <1>7, <1>8, <1>9, <1>10, <1>11 DEF Next, Work

LEMMA RowInvariant == Spec => []RowInv
<1>1. Init => RowInv
  BY DEF Init, CatalogInit, RowInv
<1>2. TypeInv /\ SafeInv /\ RowInv /\ [Next]_vars => RowInv'
  BY RowStep
<1>3. QED BY <1>1, <1>2, TypeInvariant, SafetyInvariant, PTL DEF Spec

\* No row has counted a run, and no job has completed.
LEMMA CountInit ==
  ASSUME Init
  PROVE  CountInv
<1> SUFFICES ASSUME NEW j \in JobIds
             PROVE  WithinBudget(j)
  BY DEF CountInv
<1>1. job[j].attempts = 0 /\ job[j].status = "none"
  BY DEF Init, CatalogInit
<1>2. spent["crash"] = 0 /\ spent["replay"] = 0
  BY DEF Init, Disturbances
<1>3. 0 < Budget /\ 0 <= Budget
  BY <1>2, PipelineAssumption DEF Budget
<1>4. QED BY <1>1, <1>2, <1>3 DEF WithinBudget

LEMMA CountInvariant == Spec => []CountInv
<1>1. Init => CountInv
  BY CountInit
<1>2. TypeInv /\ TypeInv' /\ SafeInv /\ CalmInv /\ BaseInv /\ RowInv /\ PlaceInv /\ CountInv
        /\ [Next]_vars => CountInv'
  BY CountStep
<1>3. QED BY <1>1, <1>2, TypeInvariant, SafetyInvariant, CalmInvariant, BaseInvariant,
             RowInvariant, PlaceInvariant, PTL DEF Spec

(* With one worker process a job is run MaxAttempts times, and once more   *)
(* for each crash and each replay: the reclaim that follows a crash, the   *)
(* retry decided on by HandleFailure and a replay each stand for one run,  *)
(* and no two of them for the same.                                        *)
THEOREM RunsAreBounded ==
  ASSUME OneWorkerSetting
  PROVE  Spec => []AttemptsBounded
<1>1. TypeInv /\ CountInv /\ SpentWithin => AttemptsBounded
  <2> SUFFICES ASSUME TypeInv, CountInv, SpentWithin, NEW j \in JobIds
               PROVE  job[j].attempts
                        <= MaxAttempts + spent["crash"] + spent["signal"] + spent["replay"]
    BY DEF AttemptsBounded
  <2>1. job[j].attempts <= Budget
    BY SettingIsCalm DEF CountInv, WithinBudget
  <2>2. QED BY <2>1, PipelineAssumption DEF Budget, HistoryType, Disturbances, JobType
<1>2. QED BY <1>1, TypeInvariant, CountInvariant, WithinLimits, PTL

(* With one worker process a completed row is never reopened before a      *)
(* crash: when MarkJobCompleted commits no other run of the job is left to *)
(* start, and the goroutine that completed it only acknowledges.           *)
THEOREM CompletedIsFinal ==
  ASSUME OneWorkerSetting
  PROVE  Spec => CompletedStays
<1>1. ASSUME TypeInv, CountInv, SpentWithin, [Next]_vars
      PROVE  [\A j \in JobIds : job[j].status = "completed" =>
                job'[j].status = "completed" \/ spent["crash"] + spent["signal"] > 0]_job
  <2> SUFFICES ASSUME NEW j \in JobIds, job[j].status = "completed",
                      ~(spent["crash"] + spent["signal"] > 0)
               PROVE  job'[j] = job[j]
    OBVIOUS
  <2>1. spent["crash"] = 0
    BY <1>1 DEF HistoryType, Disturbances
  <2>2. ~Busy(j)
    BY <1>1, <2>1, SettingIsCalm DEF CountInv, WithinBudget, Unfinished
  <2>3. CASE \E i \in JobIds : \E t : CreateTranscodeJob(i, t)
    BY <1>1, <2>3 DEF CreateTranscodeJob, JobType
  <2>4. CASE \E w \in Workers, s \in Slots :
               /\ task[w][s].pc \in {"start", "finishing", "resetting", "failing"}
               /\ RowWritten(task[w][s].job)
    <3>1. PICK w \in Workers, s \in Slots :
            /\ task[w][s].pc \in {"start", "finishing", "resetting", "failing"}
            /\ RowWritten(task[w][s].job)
      BY <2>4
    <3>2. task[w][s].job # j
      BY <2>2, <3>1 DEF Busy, Runs
    <3>3. QED BY <1>1, <3>1, <3>2
          DEF RowWritten, MarkJobRunning, MarkJobCompleted, MarkJobFailed, ResetJobPending,
              JobType
  <2>5. QED BY <1>1, <2>3, <2>4, RowChanges
<1>2. QED BY <1>1, TypeInvariant, CountInvariant, WithinLimits, PTL DEF Spec, CompletedStays

-----------------------------------------------------------------------------
(* A job that is run stays in the processing set until its Ack, where no   *)
(* other goroutine can take it out.                                        *)

OneSlot == Cardinality(Slots) = 1

LEMMA TheSlot ==
  ASSUME OneSlot, NEW s \in Slots, NEW u \in Slots
  PROVE  s = u
<1>1. IsFiniteSet(Slots)
  BY PipelineAssumption
<1>2. PICK x : Slots = {x}
  BY <1>1, FS_Singleton DEF OneSlot
<1>3. QED BY <1>2

Guarded == {"start", "work", "finishing", "failed", "done"}

\* Between the two commands of RequeueTranscode the main loop answers for the job.
Shielded ==
  \A w \in Workers, s \in Slots :
    task[w][s].pc \in Guarded =>
      \/ task[w][s].job \in processing
      \/ loop[w] = "requeueing" /\ held[w] = task[w][s].job
ShieldInv == Steady /\ OneSlot => Shielded

\* Steps that move no worker.
LEMMA ShieldStill ==
  ASSUME Shielded, UNCHANGED <<processing, loop, held, task>>
  PROVE  Shielded'
BY DEF Shielded

\* The main loop: the set loses no job that is run, but for the requeue.
LEMMA ShieldLoop ==
  ASSUME TypeInv, BaseInv, Steady, OneSlot, Shielded, NEW w \in Workers,
         LoopMove(w) \/ \E j \in JobIds : MoveFails(w, j)
  PROVE  Shielded'
<1>1. (\A v \in Workers : v = w) /\ loop[w] # "requeueing"
  BY TheWorker
     DEF Steady, LoopMove, PromoteScan, ReclaimScan, PromoteOne, ReclaimOne, Pop, Acquire,
         PopTimeout, Claim, ClaimFails, BeginDrain, DrainTimeout, RequeueAck, MoveFails
<1>2. \A s \in Slots : task[w][s].pc \in Guarded => task[w][s].job \in processing
  BY <1>1 DEF Shielded
<1>3. CASE \E s \in Slots : Claim(w, s)
  <2>1. PICK s \in Slots : Claim(w, s)
    BY <1>3
  <2>2. /\ held[w] \in JobIds /\ TaskAt(w, s, "idle") /\ processing' = processing \cup {held[w]}
        /\ task' = [task EXCEPT ![w][s] = [pc |-> "start", job |-> held[w]]]
    BY <2>1 DEF Claim, ZAddProcessing, LoopType
  <2>3. task'[w][s] = [pc |-> "start", job |-> held[w]]
    BY <2>2, ClaimRuns, ZenonT(30) DEF BaseInv
  <2>4. \A u \in Slots : u = s
    BY TheSlot
  <2>5. QED BY <1>1, <2>2, <2>3, <2>4 DEF Shielded
<1>4. CASE RequeueAck(w)
  <2>1. /\ loop'[w] = "requeueing" /\ processing' = processing \ {held[w]}
        /\ UNCHANGED <<held, task>>
    BY <1>4 DEF RequeueAck, ZRemProcessing, LoopType
  <2>2. QED BY <1>1, <1>2, <2>1 DEF Shielded
<1>5. CASE \E j \in JobIds : ReclaimOne(w, j)
  <2>1. PICK j \in JobIds : ReclaimOne(w, j)
    BY <1>5
  <2>2. /\ j \in batch[w] /\ loop[w] = "reclaiming" /\ processing' = processing \ {j}
        /\ UNCHANGED task
    BY <2>1 DEF ReclaimOne, Moved, ReclaimMember, ZRemProcessing
  <2>3. ~Running(j)
    BY <2>2 DEF BaseInv, StaleInv
  <2>4. \A s \in Slots : task[w][s].pc \in Guarded => task[w][s].job # j
    BY <2>3 DEF Running, Runs, Guarded
  <2>5. QED BY <1>1, <1>2, <2>2, <2>4 DEF Shielded
<1>6. CASE UNCHANGED <<processing, task>>
  BY <1>1, <1>2, <1>6 DEF Shielded
<1>7. QED BY <1>3, <1>4, <1>5, <1>6
      DEF LoopMove, PromoteScan, ReclaimScan, PromoteOne, Pop, Acquire, PopTimeout,
          ClaimFails, BeginDrain, DrainTimeout, MoveFails

\* A goroutine leaves its run with the Ack, or before it.
LEMMA ShieldTasks ==
  ASSUME TypeInv, Steady, OneSlot, Shielded, NEW w \in Workers, NEW s \in Slots,
         \/ TaskStep(w, s)
         \/ AckFails(w, s) \/ LookupFails(w, s)
         \/ FailureWriteFails(w, s) \/ EnqueueFails(w, s)
  PROVE  Shielded'
<1>1. \A v \in Workers, u \in Slots : v = w /\ u = s
  BY TheWorker, TheSlot DEF Steady
<1>2. CASE Leave(w, s)
  <2>1. TaskAt(w, s, "leaving") /\ task' = [task EXCEPT ![w][s] = IdleTask]
    BY <1>2 DEF Leave
  <2>2. task'[w][s] = IdleTask
    BY <2>1, LeaveRuns
  <2>3. task'[w][s].pc = "idle"
    BY <2>2 DEF IdleTask
  <2>4. QED BY <1>1, <2>3 DEF Shielded, Guarded
<1>3. CASE \/ MarkRunning(w, s) \/ MarkRunningFails(w, s) \/ Transcoded(w, s)
           \/ TranscodeFails(w, s) \/ Complete(w, s) \/ CompleteFails(w, s)
  <2>1. /\ task[w][s].pc \in Guarded /\ UNCHANGED <<processing, loop, held>>
        /\ \E pc : TaskGoto(w, s, pc)
    BY <1>3 DEF MarkRunning, MarkRunningFails, Transcoded, TranscodeFails, Complete,
                CompleteFails, TaskAt, Guarded
  <2>2. task'[w][s].job = task[w][s].job
    BY <2>1, GotoMoves
  <2>3. QED BY <1>1, <2>1, <2>2 DEF Shielded
<1>4. CASE \/ Ack(w, s) \/ AckFails(w, s) \/ Lookup(w, s) \/ LookupFails(w, s)
           \/ ResetJob(w, s) \/ BackToProcessing(w, s) \/ FailJob(w, s) \/ BackToDraft(w, s)
           \/ FailureWriteFails(w, s) \/ ScheduleRetry(w, s) \/ Bury(w, s)
           \/ EnqueueFails(w, s)
  <2>1. \E pc \in {"leaving"} \cup FailurePc : TaskGoto(w, s, pc)
    <3>1. CASE Ack(w, s) \/ AckFails(w, s) \/ Lookup(w, s) \/ LookupFails(w, s)
      BY <3>1 DEF Ack, AckFails, AfterAck, Lookup, LookupFails, FailurePc
    <3>2. CASE \/ ResetJob(w, s) \/ BackToProcessing(w, s) \/ FailJob(w, s)
               \/ BackToDraft(w, s) \/ FailureWriteFails(w, s)
      BY <3>2 DEF ResetJob, BackToProcessing, FailJob, BackToDraft, FailureWriteFails, FailurePc
    <3>3. CASE ScheduleRetry(w, s) \/ Bury(w, s) \/ EnqueueFails(w, s)
      BY <3>3 DEF ScheduleRetry, Bury, EnqueueFails
    <3>4. QED BY <1>4, <3>1, <3>2, <3>3
  <2>2. task'[w][s].pc \notin Guarded
    BY <2>1, GotoMoves DEF Guarded, FailurePc
  <2>3. QED BY <1>1, <2>2 DEF Shielded
<1>5. QED BY <1>2, <1>3, <1>4 DEF TaskStep

LEMMA ShieldStep ==
  ASSUME TypeInv, TypeInv', BaseInv, ShieldInv, [Next]_vars
  PROVE  ShieldInv'
<1> SUFFICES ASSUME Steady', OneSlot
             PROVE  Shielded'
  BY DEF ShieldInv
<1>1. Steady
  BY SpentStep, SettingKept
<1>2. Shielded
  BY <1>1 DEF ShieldInv
<1>3. CASE Arrival
  BY <1>2, <1>3, ShieldStill DEF Arrival, CompleteCheck, RetryCheck, DlqFind
<1>4. CASE \E r \in Requests : RequestStep(r)
  <2>1. UNCHANGED <<processing, loop, held, task>>
    BY <1>4 DEF RequestStep, CompleteMark, CompleteCreate, RetryCreate, RetryMark,
                RequestEnqueue
  <2>2. QED BY <1>2, <2>1, ShieldStill
<1>5. CASE \E w \in Workers : LoopMove(w)
  BY <1>1, <1>2, <1>5, ShieldLoop
<1>6. CASE \E w \in Workers : End(w)
  <2>1. PICK w \in Workers : End(w)
    BY <1>6
  <2>2. WorkerRestart(w)
    BY <2>1 DEF End, Exit, Stop, RequeuePush, Crash
  <2>3. \A v \in Workers, u \in Slots : task'[v][u].pc = "idle"
    BY <1>1, <2>2, TheWorker, RestartRuns DEF Steady, IdleTask
  <2>4. QED BY <2>3 DEF Shielded, Guarded
<1>7. CASE \E w \in Workers, s \in Slots : TaskStep(w, s)
  BY <1>1, <1>2, <1>7, ShieldTasks
<1>8. CASE \E a \in Admins : AdminStep(a)
  <2>1. UNCHANGED <<processing, loop, held, task>>
    BY <1>8 DEF AdminStep, DlqRemove, DlqEnqueue, DlqMark
  <2>2. QED BY <1>2, <2>1, ShieldStill
<1>9. CASE \E j \in JobIds : BecomeDue(j) \/ Expire(j)
  <2>1. UNCHANGED <<processing, loop, held, task>>
    BY <1>9 DEF BecomeDue, Expire
  <2>2. QED BY <1>2, <2>1, ShieldStill
<1>10. CASE Fault
  <2>1. CASE \/ \E r \in Requests : RequestEnqueueFails(r) \/ RequestAbort(r)
             \/ \E w \in Workers : Signal(w)
             \/ \E a \in Admins : DlqEnqueueFails(a) \/ AdminAbort(a)
    <3>1. UNCHANGED <<processing, loop, held, task>>
      BY <2>1 DEF RequestEnqueueFails, RequestAbort, Signal, DlqEnqueueFails, AdminAbort
    <3>2. QED BY <1>2, <3>1, ShieldStill
  <2>2. CASE \E w \in Workers, j \in JobIds : MoveFails(w, j)
    BY <1>1, <1>2, <2>2, ShieldLoop
  <2>3. CASE \E w \in Workers, s \in Slots :
               AckFails(w, s) \/ LookupFails(w, s) \/ FailureWriteFails(w, s) \/ EnqueueFails(w, s)
    BY <1>1, <1>2, <2>3, ShieldTasks
  <2>4. QED BY <1>10, <2>1, <2>2, <2>3 DEF Fault
<1>11. CASE UNCHANGED vars
  BY <1>2, <1>11, ShieldStill DEF vars
<1>12. QED BY <1>3, <1>4, <1>5, <1>6, <1>7, <1>8, <1>9, <1>10, <1>11 DEF Next, Work

LEMMA ShieldInvariant == Spec => []ShieldInv
<1>1. Init => ShieldInv
  BY DEF Init, IdleTask, ShieldInv, Shielded, Guarded
<1>2. TypeInv /\ TypeInv' /\ BaseInv /\ ShieldInv /\ [Next]_vars => ShieldInv'
  BY ShieldStep
<1>3. QED BY <1>1, <1>2, TypeInvariant, BaseInvariant, PTL DEF Spec

-----------------------------------------------------------------------------
(* A track that is processing is pursued. *)

\* A request's job is a job of its track; a row that is not there has no track.
RowTrack ==
  /\ \A j \in JobIds : job[j].status = "none" => job[j].track = NoTrack
  /\ \A r \in Requests : HasRow(r) => job[req[r].job].track = req[r].track

\* The track of a row is never changed.
TracksKept ==
  \A j \in JobIds :
    job[j].status # "none" => job'[j].track = job[j].track /\ job'[j].status # "none"

RequestMoves(r) ==
  \/ \E t \in Tracks : CompleteCheck(r, t) \/ RetryCheck(r, t)
  \/ RequestStep(r) \/ RequestEnqueueFails(r) \/ RequestAbort(r)

LEMMA RequestsOnly ==
  ASSUME [Next]_vars
  PROVE  UNCHANGED req \/ \E r \in Requests : RequestMoves(r)
<1>1. CASE Arrival
  BY <1>1 DEF Arrival, DlqFind, RequestMoves
<1>2. CASE \E r \in Requests : RequestStep(r)
  BY <1>2 DEF RequestMoves
<1>3. CASE \E w \in Workers : LoopMove(w)
  BY <1>3 DEF LoopMove, PromoteScan, ReclaimScan, PromoteOne, ReclaimOne, Pop, Acquire,
              PopTimeout, Claim, ClaimFails, BeginDrain, DrainTimeout, RequeueAck
<1>4. CASE \E w \in Workers : End(w)
  BY <1>4 DEF End, Exit, Stop, RequeuePush, Crash
<1>5. CASE \E w \in Workers, s \in Slots : TaskStep(w, s)
  <2>1. PICK w \in Workers, s \in Slots : TaskStep(w, s)
    BY <1>5
  <2>2. CASE \/ MarkRunning(w, s) \/ MarkRunningFails(w, s) \/ CompleteFails(w, s)
             \/ Transcoded(w, s) \/ TranscodeFails(w, s) \/ Complete(w, s) \/ Ack(w, s)
             \/ Lookup(w, s)
    BY <2>2 DEF MarkRunning, MarkRunningFails, CompleteFails, Transcoded, TranscodeFails,
                Complete, Ack, Lookup
  <2>3. CASE \/ ResetJob(w, s) \/ FailJob(w, s) \/ Leave(w, s) \/ BackToProcessing(w, s)
             \/ BackToDraft(w, s) \/ ScheduleRetry(w, s) \/ Bury(w, s)
    BY <2>3 DEF ResetJob, FailJob, Leave, BackToProcessing, BackToDraft, ScheduleRetry, Bury
  <2>4. QED BY <2>1, <2>2, <2>3 DEF TaskStep
<1>6. CASE \E a \in Admins : AdminStep(a)
  BY <1>6 DEF AdminStep, DlqRemove, DlqEnqueue, DlqMark
<1>7. CASE \E j \in JobIds : BecomeDue(j) \/ Expire(j)
  BY <1>7 DEF BecomeDue, Expire
<1>8. CASE Fault
  BY <1>8 DEF Fault, Signal, MoveFails, AckFails, LookupFails, FailureWriteFails, EnqueueFails,
              DlqEnqueueFails, AdminAbort, RequestMoves
<1>9. CASE UNCHANGED vars
  BY <1>9 DEF vars
<1>10. QED BY <1>1, <1>2, <1>3, <1>4, <1>5, <1>6, <1>7, <1>8, <1>9 DEF Next, Work

LEMMA TracksStay ==
  ASSUME TypeInv, SafeInv, RowTrack, [Next]_vars
  PROVE  TracksKept /\ \A j \in JobIds : job'[j].status = "none" => job'[j].track = NoTrack
<1>1. CASE UNCHANGED job
  BY <1>1 DEF TracksKept, RowTrack
<1>2. CASE \E j \in JobIds : \E t : CreateTranscodeJob(j, t)
  BY <1>2 DEF CreateTranscodeJob, JobType, TracksKept, RowTrack
<1>3. CASE \E w \in Workers, s \in Slots :
             /\ task[w][s].pc \in {"start", "finishing", "resetting", "failing"}
             /\ RowWritten(task[w][s].job)
  <2>1. PICK w \in Workers, s \in Slots : RowWritten(task[w][s].job)
    BY <1>3
  <2>2. \A j \in JobIds :
          job'[j] = job[j] \/ (job'[j].track = job[j].track /\ job'[j].status # "none")
    BY <2>1 DEF RowWritten, MarkJobRunning, MarkJobCompleted, MarkJobFailed, ResetJobPending,
                JobType
  <2>3. QED BY <2>2 DEF TracksKept, RowTrack
<1>4. QED BY <1>1, <1>2, <1>3, RowChanges

LEMMA RowTrackStep ==
  ASSUME TypeInv, SafeInv, RowTrack, [Next]_vars
  PROVE  RowTrack'
<1>1. TracksKept /\ \A j \in JobIds : job'[j].status = "none" => job'[j].track = NoTrack
  BY TracksStay
<1>2. \A r \in Requests : HasRow(r) => req[r].job \in JobIds /\ job[req[r].job].status # "none"
  BY DEF SafeInv, FreshRequests, HasRow, ReqType
<1>3. \A r \in Requests : HasRow(r) => job'[req[r].job].track = req[r].track
  BY <1>1, <1>2 DEF RowTrack, TracksKept
<1>4. ASSUME NEW r \in Requests, HasRow(r)'
      PROVE  job'[req'[r].job].track = req'[r].track
  <2>1. CASE req'[r] = req[r]
    BY <1>3, <1>4, <2>1 DEF HasRow
  <2>2. CASE RequestMoves(r)
    <3>1. CASE \/ \E t \in Tracks : CompleteCheck(r, t) \/ RetryCheck(r, t)
               \/ CompleteMark(r) \/ RequestEnqueue(r) \/ RequestEnqueueFails(r)
               \/ RequestAbort(r)
      <4>1. CASE \E t \in Tracks : CompleteCheck(r, t) \/ RetryCheck(r, t)
        <5>1. req'[r].pc \in {"checked", "retryChecked"}
          BY <4>1 DEF CompleteCheck, RetryCheck, ReqType
        <5>2. QED BY <1>4, <5>1 DEF HasRow
      <4>2. CASE CompleteMark(r)
        <5>1. req'[r].pc = "marked"
          BY <4>2 DEF CompleteMark, ReqType
        <5>2. QED BY <1>4, <5>1 DEF HasRow
      <4>3. CASE RequestEnqueue(r) \/ RequestEnqueueFails(r) \/ RequestAbort(r)
        <5>1. req'[r] = IdleReq
          BY <4>3 DEF RequestEnqueue, RequestEnqueueFails, RequestAbort, ReqType
        <5>2. QED BY <1>4, <5>1 DEF HasRow, IdleReq
      <4>4. QED BY <3>1, <4>1, <4>2, <4>3
    <3>2. CASE RetryMark(r)
      <4>1. HasRow(r) /\ req'[r].job = req[r].job /\ req'[r].track = req[r].track
        BY <3>2 DEF RetryMark, HasRow, ReqType
      <4>2. QED BY <1>3, <4>1
    <3>3. CASE \E j \in JobIds : CompleteCreate(r, j) \/ RetryCreate(r, j)
      <4>1. PICK j \in JobIds : CompleteCreate(r, j) \/ RetryCreate(r, j)
        BY <3>3
      <4>2. /\ CreateTranscodeJob(j, req[r].track)
            /\ req'[r].job = j /\ req'[r].track = req[r].track
        BY <4>1 DEF CompleteCreate, RetryCreate, ReqType
      <4>3. QED BY <4>2 DEF CreateTranscodeJob, JobType
    <3>4. QED BY <2>2, <3>1, <3>2, <3>3 DEF RequestMoves, RequestStep
  <2>3. CASE \E q \in Requests : q # r /\ RequestMoves(q)
    <3>1. PICK q \in Requests : q # r /\ RequestMoves(q)
      BY <2>3
    <3>2. \E v : req' = [req EXCEPT ![q] = v]
      <4>1. CASE \E t \in Tracks : CompleteCheck(q, t) \/ RetryCheck(q, t)
        BY <4>1 DEF CompleteCheck, RetryCheck
      <4>2. CASE RequestStep(q)
        BY <4>2 DEF RequestStep, CompleteMark, CompleteCreate, RetryCreate, RetryMark,
                    RequestEnqueue, ReqType
      <4>3. CASE RequestEnqueueFails(q) \/ RequestAbort(q)
        BY <4>3 DEF RequestEnqueueFails, RequestAbort
      <4>4. QED BY <3>1, <4>1, <4>2, <4>3 DEF RequestMoves
    <3>3. req'[r] = req[r]
      BY <3>1, <3>2 DEF ReqType
    <3>4. QED BY <2>1, <3>3
  <2>4. QED BY <2>1, <2>2, <2>3, RequestsOnly
<1>5. QED BY <1>1, <1>4 DEF RowTrack, HasRow

LEMMA RowTrackInvariant == Spec => []RowTrack
<1>1. Init => RowTrack
  BY DEF Init, CatalogInit, IdleReq, HasRow, RowTrack
<1>2. TypeInv /\ SafeInv /\ RowTrack /\ [Next]_vars => RowTrack'
  BY RowTrackStep
<1>3. QED BY <1>1, <1>2, TypeInvariant, SafetyInvariant, PTL DEF Spec

\* Where no death loses a job that is run: nobody dies, or no job is run twice.
Sole == Steady /\ spent["replay"] = 0 /\ (spent["signal"] = 0 \/ OneSlot)
Sheltered == spent["apiFault"] = 0 /\ spent["replay"] = 0 /\ (NoWorkerDeath \/ Sole)

\* The points from which a goroutine still writes the status of its track, or
\* hands its job on to someone who will.
Ahead == {"start", "work", "failed", "handling", "resetting", "reprocessing", "retrying",
          "failing", "drafting"}
StillAhead(w, s) ==
  task[w][s].pc \in Ahead \/ (task[w][s].pc = "burying" /\ spent["error"] > 0)
RunAhead(j) == \E w \in Workers, s \in Slots : task[w][s].job = j /\ StillAhead(w, s)

\* A goroutine that has written the status and takes the job out of the set.
RunPast(j) ==
  \E w \in Workers, s \in Slots :
    task[w][s].job = j /\ task[w][s].pc \in {"finishing", "done"}

Waiting(j) ==
  \/ Contains(pending, j) \/ j \in retry \/ fate[j] = "dropped"
  \/ \E w \in Workers : j \in InHand(w)
  \/ InDLQ(j) /\ spent["error"] > 0
Pursued(j) == Waiting(j) \/ RunAhead(j) \/ (j \in processing /\ ~RunPast(j))

Answered(t) ==
  \/ \E r \in Requests : req[r].track = t /\ req[r].pc \in {"marked", "created"}
  \/ \E j \in JobIds : job[j].track = t /\ Pursued(j)
NoTrackLeft == \A t \in Tracks : track[t].status = "processing" => Answered(t)
PursuedInv == Sheltered => NoTrackLeft

\* What a step has to show.
LEMMA LeftBehind ==
  ASSUME TypeInv, SafeInv, RowTrack, [Next]_vars, NoTrackLeft,
         \A t \in Tracks : \A r \in Requests :
           req[r].track = t /\ req[r].pc \in {"marked", "created"} => Answered(t)',
         \A t \in Tracks :
           track'[t].status = "processing" => track[t].status = "processing" \/ Answered(t)',
         \A j \in JobIds, t \in Tracks :
           /\ job[j].track = t /\ Pursued(j)
           /\ track[t].status = "processing" /\ track'[t].status = "processing"
           => Pursued(j)' \/ Answered(t)'
  PROVE  NoTrackLeft'
<1> SUFFICES ASSUME NEW t \in Tracks, track'[t].status = "processing",
                    track[t].status = "processing"
             PROVE  Answered(t)'
  BY DEF NoTrackLeft
<1>1. CASE \E r \in Requests : req[r].track = t /\ req[r].pc \in {"marked", "created"}
  BY <1>1
<1>2. CASE \E j \in JobIds : job[j].track = t /\ Pursued(j)
  <2>1. PICK j \in JobIds : job[j].track = t /\ Pursued(j)
    BY <1>2
  <2>2. job[j].status # "none"
    BY <2>1, CatalogAssumption DEF RowTrack
  <2>3. TracksKept
    BY TracksStay
  <2>4. job'[j].track = t
    BY <2>1, <2>2, <2>3 DEF TracksKept
  <2>5. Pursued(j)' \/ Answered(t)'
    BY <2>1
  <2>6. QED BY <2>4, <2>5 DEF Answered
<1>3. QED BY <1>1, <1>2 DEF NoTrackLeft, Answered

\* A goroutine that moves on loses nothing but its own job.
LEMMA PursuedGoto ==
  ASSUME TypeInv, TypeInv', SpentGrows, NEW w \in Workers, NEW s \in Slots, NEW pc,
         TaskGoto(w, s, pc), task[w][s].pc # "idle",
         UNCHANGED <<pending, loop, held>>,
         \A j \in JobIds : j \in retry => j \in retry',
         \A j \in JobIds : InDLQ(j) => InDLQ(j)',
         \A j \in JobIds : fate[j] = "dropped" => fate'[j] = "dropped",
         \/ UNCHANGED processing
         \/ /\ processing' = processing \ {task[w][s].job}
            /\ task[w][s].pc \in {"failed", "done"},
         pc \in {"finishing", "done"} => task[w][s].pc \in {"work", "finishing"},
         NEW j \in JobIds, Pursued(j)
  PROVE  \/ Pursued(j)'
         \/ j = task[w][s].job /\ StillAhead(w, s)
<1>1. spent["error"] > 0 => spent'["error"] > 0
  BY DEF SpentGrows, HistoryType, Disturbances
<1>2. CASE Waiting(j)
  <2>1. \A v \in Workers : InHand(v)' = InHand(v)
    BY DEF InHand
  <2>2. Waiting(j)'
    BY <1>1, <1>2, <2>1 DEF Waiting
  <2>3. QED BY <2>2 DEF Pursued
<1>3. CASE RunAhead(j)
  <2>1. PICK v \in Workers, u \in Slots : task[v][u].job = j /\ StillAhead(v, u)
    BY <1>3 DEF RunAhead
  <2>2. CASE v = w /\ u = s
    BY <2>1, <2>2
  <2>3. CASE v # w \/ u # s
    <3>1. task'[v][u].job = j /\ task'[v][u].pc = task[v][u].pc
      BY <2>1, <2>3, GotoMoves
    <3>2. StillAhead(v, u)'
      BY <1>1, <2>1, <3>1 DEF StillAhead
    <3>3. QED BY <3>1, <3>2 DEF Pursued, RunAhead
  <2>4. QED BY <2>2, <2>3
<1>4. CASE j \in processing /\ ~RunPast(j)
  <2>1. CASE j = task[w][s].job /\ task[w][s].pc \in Ahead
    BY <2>1 DEF StillAhead
  <2>2. CASE j = task[w][s].job /\ task[w][s].pc \notin Ahead
    <3>1. task[w][s].pc \notin {"finishing", "done"}
      BY <1>4, <2>2 DEF RunPast
    <3>2. processing' = processing /\ pc \notin {"finishing", "done"}
      BY <2>2, <3>1 DEF Ahead
    <3>3. ~RunPast(j)'
      BY <1>4, <3>2, GotoMoves DEF RunPast
    <3>4. QED BY <1>4, <3>2, <3>3 DEF Pursued
  <2>3. CASE j # task[w][s].job
    <3>1. ~RunPast(j)'
      BY <1>4, <2>3, GotoMoves DEF RunPast
    <3>2. QED BY <1>4, <2>3, <3>1 DEF Pursued
  <2>4. QED BY <2>1, <2>2, <2>3
<1>5. QED BY <1>2, <1>3, <1>4 DEF Pursued

\* The goroutine of a job: it leaves the job with one that is ahead again, with
\* the written status, or with the next key.
LEMMA PursuedTasks ==
  ASSUME TypeInv, TypeInv', SpentGrows, NEW w \in Workers, NEW s \in Slots,
         \/ TaskStep(w, s)
         \/ AckFails(w, s) \/ LookupFails(w, s)
         \/ FailureWriteFails(w, s) \/ EnqueueFails(w, s),
         NEW j \in JobIds, Pursued(j), NEW t \in Tracks, job[j].track = t,
         track'[t].status = "processing"
  PROVE  Pursued(j)'
<1>1. CASE Leave(w, s)
  <2>1. /\ TaskAt(w, s, "leaving") /\ task' = [task EXCEPT ![w][s] = IdleTask]
        /\ UNCHANGED <<pending, processing, retry, dlq, loop, held, fate, spent>>
    BY <1>1 DEF Leave
  <2>a. /\ task'[w][s] = IdleTask
        /\ \A v \in Workers, u \in Slots : v # w \/ u # s => task'[v][u] = task[v][u]
    BY <2>1, LeaveRuns
  <2>2. /\ task'[w][s].pc = "idle" /\ task[w][s].pc = "leaving"
        /\ \A v \in Workers, u \in Slots : v # w \/ u # s => task'[v][u] = task[v][u]
    BY <2>1, <2>a DEF IdleTask, TaskAt
  <2>3. Waiting(j) => Waiting(j)'
    BY <2>1 DEF Waiting, InHand, InDLQ
  <2>4. RunAhead(j) => RunAhead(j)'
    BY <2>1, <2>2 DEF RunAhead, StillAhead, Ahead
  <2>5. RunPast(j)' => RunPast(j)
    BY <2>2 DEF RunPast
  <2>6. QED BY <2>1, <2>3, <2>4, <2>5 DEF Pursued
<1>2. CASE \/ MarkRunning(w, s) \/ MarkRunningFails(w, s) \/ Transcoded(w, s)
           \/ TranscodeFails(w, s) \/ Complete(w, s) \/ CompleteFails(w, s)
  <2>1. PICK pc : /\ TaskGoto(w, s, pc)
                  /\ pc \in {"work", "failed"} \/ Transcoded(w, s) \/ Complete(w, s)
                  /\ pc \in {"finishing", "done"} => task[w][s].pc \in {"work", "finishing"}
    <3>1. CASE MarkRunning(w, s) \/ MarkRunningFails(w, s)
      BY <3>1 DEF MarkRunning, MarkRunningFails
    <3>2. CASE Transcoded(w, s) \/ TranscodeFails(w, s)
      BY <3>2 DEF Transcoded, TranscodeFails, TaskAt
    <3>3. CASE Complete(w, s) \/ CompleteFails(w, s)
      BY <3>3 DEF Complete, CompleteFails, TaskAt
    <3>4. QED BY <1>2, <3>1, <3>2, <3>3
  <2>2. /\ task[w][s].pc \in {"start", "work", "finishing"}
        /\ UNCHANGED <<pending, processing, retry, dlq, loop, held>>
    BY <1>2 DEF MarkRunning, MarkRunningFails, Transcoded, TranscodeFails, Complete,
                CompleteFails, TaskAt
  <2>3. \A i \in JobIds : fate[i] = "dropped" => fate'[i] = "dropped"
    <3>1. CASE Complete(w, s)
      BY <3>1 DEF Complete, HistoryType
    <3>2. CASE UNCHANGED fate
      BY <3>2
    <3>3. QED BY <1>2, <3>1, <3>2
          DEF MarkRunning, MarkRunningFails, Transcoded, TranscodeFails, CompleteFails
  <2>4. Pursued(j)' \/ (j = task[w][s].job /\ StillAhead(w, s))
    BY <2>1, <2>2, <2>3, PursuedGoto DEF InDLQ
  <2>5. CASE pc \in {"work", "failed"}
    <3>1. task'[w][s].pc = pc /\ task'[w][s].job = task[w][s].job
      BY <2>1, GotoMoves
    <3>2. j = task[w][s].job => RunAhead(j)'
      BY <2>5, <3>1 DEF RunAhead, StillAhead, Ahead
    <3>3. QED BY <2>4, <3>2 DEF Pursued
  <2>6. CASE Transcoded(w, s)
    <3>1. PICK x \in {"pending_review", "published"} :
            UpdateStatus(job[task[w][s].job].track, x, FALSE)
      BY <2>6 DEF Transcoded
    <3>2. j # task[w][s].job
      BY <3>1 DEF UpdateStatus, TrackType
    <3>3. QED BY <2>4, <3>2
  <2>7. CASE Complete(w, s)
    <3>1. ~StillAhead(w, s)
      BY <2>7 DEF Complete, TaskAt, StillAhead, Ahead
    <3>2. QED BY <2>4, <3>1
  <2>8. QED BY <2>1, <2>5, <2>6, <2>7
<1>3. CASE Ack(w, s) \/ AckFails(w, s)
  <2>1. PICK pc \in {"leaving", "handling"} :
          TaskGoto(w, s, pc) /\ (task[w][s].pc = "failed" => pc = "handling")
    BY <1>3 DEF Ack, AckFails, AfterAck, TaskAt
  <2>2. /\ task[w][s].pc \in {"done", "failed"}
        /\ UNCHANGED <<pending, retry, dlq, loop, held, fate>>
        /\ UNCHANGED processing \/ processing' = processing \ {task[w][s].job}
    BY <1>3 DEF Ack, AckFails, AfterAck, TaskAt, ZRemProcessing
  <2>3. Pursued(j)' \/ (j = task[w][s].job /\ StillAhead(w, s))
    BY <2>1, <2>2, PursuedGoto DEF InDLQ
  <2>4. CASE task[w][s].pc = "failed"
    <3>1. task'[w][s].pc = "handling" /\ task'[w][s].job = task[w][s].job
      BY <2>1, <2>4, GotoMoves
    <3>2. j = task[w][s].job => RunAhead(j)'
      BY <3>1 DEF RunAhead, StillAhead, Ahead
    <3>3. QED BY <2>3, <3>2 DEF Pursued
  <2>5. CASE task[w][s].pc = "done"
    BY <2>3, <2>5 DEF StillAhead, Ahead
  <2>6. QED BY <2>2, <2>4, <2>5
<1>4. CASE \/ Lookup(w, s) \/ LookupFails(w, s) \/ ResetJob(w, s) \/ BackToProcessing(w, s)
           \/ FailJob(w, s) \/ BackToDraft(w, s) \/ FailureWriteFails(w, s)
  <2>1. PICK pc \in FailurePc :
          /\ TaskGoto(w, s, pc)
          /\ pc # "burying" \/ BackToDraft(w, s) \/ Spend("error")
    BY <1>4 DEF Lookup, LookupFails, ResetJob, BackToProcessing, FailJob, BackToDraft,
                FailureWriteFails, FailurePc
  <2>2. /\ task[w][s].pc # "idle" /\ task[w][s].pc # "done"
        /\ UNCHANGED <<pending, processing, retry, dlq, loop, held, fate>>
    BY <1>4 DEF Lookup, LookupFails, ResetJob, BackToProcessing, FailJob, BackToDraft,
                FailureWriteFails, TaskAt
  <2>3. Pursued(j)' \/ (j = task[w][s].job /\ StillAhead(w, s))
    BY <2>1, <2>2, PursuedGoto DEF InDLQ, FailurePc
  <2>4. task'[w][s].pc = pc /\ task'[w][s].job = task[w][s].job
    BY <2>1, GotoMoves
  <2>5. CASE pc # "burying"
    <3>1. StillAhead(w, s)'
      BY <2>1, <2>4, <2>5 DEF StillAhead, Ahead, FailurePc
    <3>2. QED BY <2>3, <2>4, <3>1 DEF Pursued, RunAhead
  <2>6. CASE BackToDraft(w, s)
    <3>1. UpdateStatus(job[task[w][s].job].track, "draft", TRUE)
      BY <2>6 DEF BackToDraft
    <3>2. j # task[w][s].job
      BY <3>1 DEF UpdateStatus, TrackType
    <3>3. QED BY <2>3, <3>2
  <2>7. CASE pc = "burying" /\ Spend("error")
    <3>1. spent'["error"] > 0
      BY <2>7, SpendGrows DEF Disturbances
    <3>2. StillAhead(w, s)'
      BY <2>4, <2>7, <3>1 DEF StillAhead
    <3>3. QED BY <2>3, <2>4, <3>2 DEF Pursued, RunAhead
  <2>8. QED BY <2>1, <2>5, <2>6, <2>7
<1>5. CASE ScheduleRetry(w, s) \/ Bury(w, s) \/ EnqueueFails(w, s)
  <2>1. /\ TaskGoto(w, s, "leaving") /\ task[w][s].pc \in {"retrying", "burying"}
        /\ UNCHANGED <<pending, processing, loop, held>>
    BY <1>5 DEF ScheduleRetry, Bury, EnqueueFails, TaskAt
  <2>2. task[w][s].job \in JobIds
    BY <2>1 DEF TaskType
  <2>3. \A i \in JobIds : i \in retry => i \in retry'
    BY <1>5 DEF ScheduleRetry, ZAddRetry, Bury, EnqueueFails
  <2>4. \A i \in JobIds : fate[i] = "dropped" => fate'[i] = "dropped"
    BY <1>5 DEF ScheduleRetry, Bury, EnqueueFails, Drop
  <2>5. \A i \in JobIds : InDLQ(i)' <=> InDLQ(i) \/ (Bury(w, s) /\ i = task[w][s].job)
    <3>1. CASE Bury(w, s)
      <4>1. PushDLQ(task[w][s].job)
        BY <3>1 DEF Bury
      <4>2. dlq' = Append(dlq, [job |-> task[w][s].job, failedAt |-> stamp])
        BY <4>1 DEF PushDLQ
      <4>3. [job |-> task[w][s].job, failedAt |-> stamp] \in DLQEntry
        BY <2>2 DEF QueueTypeOK, DLQEntry
      <4>4. QED BY <3>1, <4>2, <4>3, AppendProperties, SMTT(20) DEF InDLQ, QueueTypeOK
    <3>2. CASE ~Bury(w, s) /\ UNCHANGED dlq
      BY <3>2 DEF InDLQ
    <3>3. QED BY <1>5, <3>1, <3>2 DEF ScheduleRetry, EnqueueFails
  <2>6. Pursued(j)' \/ (j = task[w][s].job /\ StillAhead(w, s))
    BY <2>1, <2>3, <2>4, <2>5, PursuedGoto
  <2>7. CASE ScheduleRetry(w, s)
    <3>1. task[w][s].job \in retry'
      BY <2>7 DEF ScheduleRetry, ZAddRetry
    <3>2. QED BY <2>6, <3>1 DEF Pursued, Waiting
  <2>8. CASE Bury(w, s)
    <3>1. task[w][s].pc = "burying" /\ UNCHANGED spent
      BY <2>8 DEF Bury, TaskAt
    <3>2. StillAhead(w, s) => spent'["error"] > 0
      BY <3>1 DEF StillAhead, Ahead
    <3>3. QED BY <2>5, <2>6, <2>8, <3>2 DEF Pursued, Waiting
  <2>9. CASE EnqueueFails(w, s)
    <3>1. fate'[task[w][s].job] = "dropped"
      BY <2>2, <2>9 DEF EnqueueFails, Drop
    <3>2. QED BY <2>6, <3>1 DEF Pursued, Waiting
  <2>10. QED BY <1>5, <2>7, <2>8, <2>9
<1>6. QED BY <1>1, <1>2, <1>3, <1>4, <1>5 DEF TaskStep

\* The main loop hands every job on, or drops it.
LEMMA PursuedLoop ==
  ASSUME TypeInv, TypeInv', SpentGrows, BaseInv, NEW w \in Workers,
         LoopMove(w) \/ \E i \in JobIds : MoveFails(w, i),
         NEW j \in JobIds, Pursued(j)
  PROVE  Pursued(j)'
<1>1. spent["error"] > 0 => spent'["error"] > 0
  BY DEF SpentGrows, HistoryType, Disturbances
<1>2. InDLQ(j)' <=> InDLQ(j)
  BY DEF LoopMove, PromoteScan, ReclaimScan, PromoteOne, ReclaimOne, Pop, Acquire, PopTimeout,
         Claim, ClaimFails, BeginDrain, DrainTimeout, RequeueAck, MoveFails, InDLQ
<1>3. CASE \E s \in Slots : Claim(w, s)
  <2>1. PICK s \in Slots : Claim(w, s)
    BY <1>3
  <2>2. /\ TaskAt(w, s, "idle") /\ held[w] \in JobIds
        /\ task' = [task EXCEPT ![w][s] = [pc |-> "start", job |-> held[w]]]
        /\ UNCHANGED <<pending, retry, fate>> /\ processing' = processing \cup {held[w]}
        /\ \A v \in Workers : v # w => loop'[v] = loop[v] /\ held'[v] = held[v]
    BY <2>1 DEF Claim, ZAddProcessing, LoopType
  <2>3. /\ \A v \in Workers, u \in Slots : v # w \/ u # s => task'[v][u] = task[v][u]
        /\ task'[w][s] = [pc |-> "start", job |-> held[w]]
    BY <2>2, ClaimRuns, ZenonT(30) DEF BaseInv
  <2>4. task'[w][s].pc = "start" /\ task'[w][s].job = held[w] /\ task[w][s].pc = "idle"
    BY <2>2, <2>3 DEF TaskAt
  <2>5. j = held[w] => RunAhead(j)'
    BY <2>4 DEF RunAhead, StillAhead, Ahead
  <2>6. j \in InHand(w) => j = held[w]
    BY DEF InHand
  <2>7. \A v \in Workers : v # w => InHand(v)' = InHand(v)
    BY <2>2 DEF InHand
  <2>8. Waiting(j) => Waiting(j)' \/ RunAhead(j)'
    BY <1>1, <1>2, <2>2, <2>5, <2>6, <2>7 DEF Waiting
  <2>9. RunAhead(j) => RunAhead(j)'
    BY <1>1, <2>3, <2>4 DEF RunAhead, StillAhead, Ahead
  <2>10. RunPast(j)' => RunPast(j)
    BY <2>3, <2>4 DEF RunPast
  <2>11. QED BY <2>2, <2>8, <2>9, <2>10 DEF Pursued
<1>4. CASE UNCHANGED task
  <2>1. RunAhead(j) => RunAhead(j)'
    BY <1>1, <1>4 DEF RunAhead, StillAhead
  <2>2. RunPast(j)' => RunPast(j)
    BY <1>4 DEF RunPast
  <2>3. \A v \in Workers : v # w => InHand(v)' = InHand(v)
    <3>1. \A v \in Workers : v # w => loop'[v] = loop[v] /\ held'[v] = held[v]
      BY DEF LoopMove, PromoteScan, ReclaimScan, PromoteOne, ReclaimOne, Moved, Pop, Acquire,
             PopTimeout, Claim, ClaimFails, BeginDrain, DrainTimeout, RequeueAck, MoveFails,
             LoopType
    <3>2. QED BY <3>1 DEF InHand
  <2>4. fate[j] = "dropped" => fate'[j] = "dropped"
    BY DEF LoopMove, PromoteScan, ReclaimScan, PromoteOne, ReclaimOne, Pop, Acquire, PopTimeout,
           Claim, ClaimFails, BeginDrain, DrainTimeout, RequeueAck, MoveFails, Drop
  <2>5. CASE \E i \in JobIds : PromoteOne(w, i) \/ ReclaimOne(w, i) \/ MoveFails(w, i)
    <3>1. PICK i \in JobIds : PromoteOne(w, i) \/ ReclaimOne(w, i) \/ MoveFails(w, i)
      BY <2>5
    <3>2. loop[w] \in {"promoting", "reclaiming"} /\ (LPush(i) \/ UNCHANGED pending)
      BY <3>1 DEF PromoteOne, ReclaimOne, MoveFails, PromoteMember, ReclaimMember
    <3>3. \A k : Contains(pending, k) => Contains(pending, k)'
      BY <3>2, LPushContains
    <3>4. (j \in retry => j \in retry' \/ Contains(pending, j)')
          /\ (j \in processing => j \in processing' \/ Contains(pending, j)')
      <4>1. CASE PromoteOne(w, i)
        <5>1. LPush(i) /\ retry' = retry \ {i} /\ UNCHANGED processing
          BY <4>1 DEF PromoteOne, PromoteMember
        <5>2. QED BY <5>1, LPushContains
      <4>2. CASE ReclaimOne(w, i)
        <5>1. LPush(i) /\ processing' = processing \ {i} /\ UNCHANGED retry
          BY <4>2 DEF ReclaimOne, ReclaimMember, ZRemProcessing
        <5>2. QED BY <5>1, LPushContains
      <4>3. CASE MoveFails(w, i)
        BY <4>3 DEF MoveFails
      <4>4. QED BY <3>1, <4>1, <4>2, <4>3
    <3>5. InHand(w) = {}
      BY <3>2 DEF InHand
    <3>6. QED BY <1>1, <1>2, <2>1, <2>2, <2>3, <2>4, <3>3, <3>4, <3>5 DEF Pursued, Waiting
  <2>6. CASE \E i \in JobIds : Pop(w, i)
    <3>1. PICK i \in JobIds : Pop(w, i)
      BY <2>6
    <3>2. /\ loop[w] = "blocked" /\ BRPop(i) /\ UNCHANGED <<processing, retry>>
          /\ loop'[w] = "popped" /\ held'[w] = i
      BY <3>1 DEF Pop, LoopType
    <3>3. InHand(w) = {} /\ InHand(w)' = {i}
      BY <3>2 DEF InHand
    <3>4. Contains(pending, j) => Contains(pending, j)' \/ j = i
      BY <3>2, BRPopContains
    <3>5. QED BY <1>1, <1>2, <2>1, <2>2, <2>3, <2>4, <3>2, <3>3, <3>4 DEF Pursued, Waiting
  <2>7. CASE ClaimFails(w)
    <3>1. /\ held[w] \in JobIds /\ UNCHANGED <<processing, retry>>
          /\ \/ LPush(held[w])
             \/ UNCHANGED pending /\ Drop({held[w]})
      BY <2>7 DEF ClaimFails, LoopType
    <3>2. \A k : Contains(pending, k) => Contains(pending, k)'
      BY <3>1, LPushContains
    <3>3. j = held[w] => Contains(pending, j)' \/ fate'[j] = "dropped"
      BY <3>1, LPushContains DEF Drop
    <3>4. j \in InHand(w) => j = held[w]
      BY DEF InHand
    <3>5. QED BY <1>1, <1>2, <2>1, <2>2, <2>3, <2>4, <3>1, <3>2, <3>3, <3>4
          DEF Pursued, Waiting
  <2>8. CASE RequeueAck(w)
    <3>1. /\ loop[w] = "requeue" /\ loop'[w] = "requeueing" /\ held'[w] = held[w]
          /\ UNCHANGED <<pending, retry>> /\ processing' = processing \ {held[w]}
      BY <2>8 DEF RequeueAck, ZRemProcessing, LoopType
    <3>2. InHand(w) = {} /\ InHand(w)' = {held[w]}
      BY <3>1 DEF InHand
    <3>3. QED BY <1>1, <1>2, <2>1, <2>2, <2>3, <2>4, <3>1, <3>2 DEF Pursued, Waiting
  <2>9. CASE \/ PromoteScan(w) \/ ReclaimScan(w) \/ Acquire(w) \/ PopTimeout(w)
             \/ BeginDrain(w) \/ DrainTimeout(w)
    <3>1. loop[w] \notin {"popped", "requeueing"} /\ UNCHANGED <<pending, processing, retry>>
      BY <2>9 DEF PromoteScan, ReclaimScan, Acquire, PopTimeout, BeginDrain, DrainTimeout
    <3>2. InHand(w) = {}
      BY <3>1 DEF InHand
    <3>3. QED BY <1>1, <1>2, <2>1, <2>2, <2>3, <2>4, <3>1, <3>2 DEF Pursued, Waiting
  <2>10. QED BY <1>3, <2>5, <2>6, <2>7, <2>8, <2>9 DEF LoopMove
<1>5. QED BY <1>3, <1>4
      DEF LoopMove, PromoteScan, ReclaimScan, PromoteOne, ReclaimOne, Pop, Acquire, PopTimeout,
          ClaimFails, BeginDrain, DrainTimeout, RequeueAck, MoveFails

\* A process that ends: the processing set keeps what its goroutines ran, and
\* what it had in hand is handed on or dropped.
LEMMA SoleShields ==
  ASSUME TypeInv, PlaceInv, ShieldInv, Sole
  PROVE  Shielded
<1>1. CASE spent["signal"] = 0
  <2>1. Acknowledged
    BY <1>1 DEF Sole, Calm, PlaceInv, InOnePlace
  <2>2. ASSUME NEW w \in Workers, NEW s \in Slots, task[w][s].pc \in Guarded
        PROVE  task[w][s].job \in processing
    <3>1. task[w][s].pc \notin FailurePc /\ Runs(w, s, task[w][s].job)
      BY <2>2 DEF Guarded, FailurePc, Runs
    <3>2. task[w][s].job \in JobIds
      BY <2>2 DEF TaskType, Guarded
    <3>3. QED BY <2>1, <3>1, <3>2 DEF Acknowledged
  <2>3. QED BY <2>2 DEF Shielded
<1>2. CASE OneSlot
  BY <1>2 DEF Sole, ShieldInv
<1>3. QED BY <1>1, <1>2 DEF Sole

LEMMA PursuedEnds ==
  ASSUME TypeInv, TypeInv', SpentGrows, CalmInv, PlaceInv, ShieldInv, Sheltered, Sheltered',
         NEW w \in Workers, End(w), NEW j \in JobIds, Pursued(j)
  PROVE  Pursued(j)'
<1>1. Sole
  <2>1. CASE Sole'
    BY <2>1, SettingKept DEF Sole, SpentGrows, HistoryType, Disturbances
  <2>2. CASE NoWorkerDeath'
    <3>1. NoWorkerDeath
      BY <2>2 DEF NoWorkerDeath, SpentGrows, HistoryType, Disturbances
    <3>2. loop[w] \notin {"draining", "requeue", "requeueing"}
      BY <3>1 DEF NoWorkerDeath, CalmInv
    <3>3. Spend("crash")
      BY <3>2 DEF End, Exit, Stop, RequeuePush, Crash
    <3>4. QED BY <2>2, <3>3, SpendGrows DEF NoWorkerDeath, Disturbances
  <2>3. QED BY <2>1, <2>2 DEF Sheltered
<1>2. Shielded /\ spent["error"] = 0 /\ \A v \in Workers : v = w
  BY <1>1, SoleShields, TheWorker DEF Sole, Steady
<1>3. WorkerRestart(w) /\ UNCHANGED <<processing, retry, dlq>>
  BY DEF End, Exit, Stop, RequeuePush, Crash
<1>4. \A v \in Workers, u \in Slots : task'[v][u].pc = "idle"
  BY <1>2, <1>3, RestartRuns DEF IdleTask
<1>5. ~RunPast(j)'
  BY <1>4 DEF RunPast
<1>6. \E S : Drop(S) /\ InFailure(w) \subseteq S
             /\ \/ UNCHANGED pending /\ InHand(w) \subseteq S
                \/ LPush(held[w]) /\ held[w] \in JobIds
  <2>1. CASE Stop(w) \/ Crash(w)
    BY <2>1 DEF Stop, Crash, Exposed
  <2>2. CASE RequeuePush(w)
    BY <2>2 DEF RequeuePush, LoopType
  <2>3. QED BY <2>1, <2>2 DEF End, Exit
<1>7. PICK S : /\ Drop(S) /\ InFailure(w) \subseteq S
               /\ \/ UNCHANGED pending /\ InHand(w) \subseteq S
                  \/ LPush(held[w]) /\ held[w] \in JobIds
  BY <1>6
<1>8. j \in S \/ fate[j] = "dropped" => Pursued(j)'
  BY <1>7 DEF Drop, Pursued, Waiting
<1>9. \A k : Contains(pending, k) => Contains(pending, k)'
  BY <1>7, LPushContains
<1>10. j \in InHand(w) => Pursued(j)'
  <2>1. CASE InHand(w) \subseteq S
    BY <1>8, <2>1
  <2>2. CASE LPush(held[w]) /\ held[w] \in JobIds
    <3>1. j = held[w] => Contains(pending, j)'
      BY <2>2, LPushContains
    <3>2. j \in InHand(w) => j = held[w]
      BY DEF InHand
    <3>3. QED BY <3>1, <3>2 DEF Pursued, Waiting
  <2>3. QED BY <1>7, <2>1, <2>2
<1>11. CASE Waiting(j)
  <2>1. CASE Contains(pending, j) \/ j \in retry
    BY <1>3, <1>9, <2>1 DEF Pursued, Waiting
  <2>2. CASE \E v \in Workers : j \in InHand(v)
    BY <1>2, <1>10, <2>2
  <2>3. QED BY <1>2, <1>8, <1>11, <2>1, <2>2 DEF Waiting
<1>12. CASE RunAhead(j)
  <2>1. PICK s \in Slots : task[w][s].job = j /\ task[w][s].pc \in Ahead
    BY <1>2, <1>12 DEF RunAhead, StillAhead
  <2>2. CASE task[w][s].pc \in FailurePc
    <3>1. j \in InFailure(w)
      BY <2>1, <2>2 DEF InFailure
    <3>2. QED BY <1>7, <1>8, <3>1
  <2>3. CASE task[w][s].pc \in Guarded
    <3>1. j \in processing \/ (loop[w] = "requeueing" /\ held[w] = j)
      BY <1>2, <2>1, <2>3 DEF Shielded
    <3>2. CASE j \in processing
      BY <1>3, <1>5, <3>2 DEF Pursued
    <3>3. CASE loop[w] = "requeueing" /\ held[w] = j
      BY <1>10, <3>3 DEF InHand
    <3>4. QED BY <3>1, <3>2, <3>3
  <2>4. QED BY <2>1, <2>2, <2>3 DEF Ahead, FailurePc, Guarded
<1>13. CASE j \in processing
  BY <1>3, <1>5, <1>13 DEF Pursued
<1>14. QED BY <1>11, <1>12, <1>13 DEF Pursued

\* Steps that take no job from anyone.
LEMMA PursuedStill ==
  ASSUME TypeInv, TypeInv', SpentGrows, UNCHANGED <<processing, loop, held, task>>,
         \A k \in JobIds : Contains(pending, k) => Contains(pending, k)',
         \A k \in JobIds : k \in retry => k \in retry',
         \A k \in JobIds : InDLQ(k) => InDLQ(k)',
         NEW j \in JobIds, fate[j] = "dropped" => fate'[j] = "dropped" \/ Contains(pending, j)',
         Pursued(j)
  PROVE  Pursued(j)'
<1>1. spent["error"] > 0 => spent'["error"] > 0
  BY DEF SpentGrows, HistoryType, Disturbances
<1>2. Waiting(j) => Waiting(j)'
  <2>1. \A v \in Workers : InHand(v)' = InHand(v)
    BY DEF InHand
  <2>2. QED BY <1>1, <2>1 DEF Waiting
<1>3. RunAhead(j) => RunAhead(j)'
  BY <1>1 DEF RunAhead, StillAhead
<1>4. RunPast(j)' => RunPast(j)
  BY DEF RunPast
<1>5. QED BY <1>2, <1>3, <1>4 DEF Pursued

\* A request marks its track and hands its job to the queue.
LEMMA PursuedRequests ==
  ASSUME TypeInv, TypeInv', SafeInv, RowTrack, SpentGrows, [Next]_vars, NoTrackLeft,
         NEW r \in Requests,
         RequestStep(r) \/ \E t \in Tracks : CompleteCheck(r, t) \/ RetryCheck(r, t)
  PROVE  NoTrackLeft'
<1>1. /\ UNCHANGED <<processing, retry, dlq, loop, held, task>>
      /\ UNCHANGED <<pending, fate>> \/ RequestEnqueue(r)
  BY DEF RequestStep, CompleteMark, CompleteCreate, RetryCreate, RetryMark, RequestEnqueue,
         CompleteCheck, RetryCheck
<1>2. RequestEnqueue(r) =>
        /\ HasRow(r) /\ req[r].job \in JobIds /\ LPush(req[r].job) /\ UNCHANGED job
        /\ fate' = [fate EXCEPT ![req[r].job] = "submitted"]
  BY DEF RequestEnqueue, HasRow, ReqType
<1>3. ASSUME NEW j \in JobIds, Pursued(j)
      PROVE  Pursued(j)'
  <2>1. \A k \in JobIds : Contains(pending, k) => Contains(pending, k)'
    BY <1>1, <1>2, LPushContains
  <2>2. fate[j] = "dropped" => fate'[j] = "dropped" \/ Contains(pending, j)'
    <3>1. CASE UNCHANGED fate
      BY <3>1
    <3>2. CASE RequestEnqueue(r)
      <4>1. j = req[r].job => Contains(pending, j)'
        BY <1>2, <3>2, LPushContains
      <4>2. j # req[r].job => fate'[j] = fate[j]
        BY <1>2, <3>2 DEF HistoryType
      <4>3. QED BY <4>1, <4>2
    <3>3. QED BY <1>1, <3>1, <3>2
  <2>3. \A k \in JobIds : (k \in retry => k \in retry') /\ (InDLQ(k) => InDLQ(k)')
    BY <1>1 DEF InDLQ
  <2>4. QED BY <1>1, <1>3, <2>1, <2>2, <2>3, PursuedStill
<1>4. ASSUME NEW t \in Tracks, NEW q \in Requests,
             req[q].track = t, req[q].pc \in {"marked", "created"}
      PROVE  Answered(t)'
  <2>1. CASE req'[q].track = t /\ req'[q].pc \in {"marked", "created"}
    BY <2>1 DEF Answered
  <2>2. CASE q = r /\ RequestEnqueue(r)
    <3>1. HasRow(r) /\ req[r].job \in JobIds /\ LPush(req[r].job) /\ UNCHANGED job
      BY <1>2, <2>2
    <3>2. PICK j \in JobIds : j = req[r].job
      BY <3>1
    <3>3. job[j].track = t
      BY <1>4, <2>2, <3>1, <3>2 DEF RowTrack
    <3>4. Contains(pending, j)'
      BY <3>1, <3>2, LPushContains
    <3>5. QED BY <3>1, <3>3, <3>4 DEF Answered, Pursued, Waiting
  <2>3. CASE q = r /\ \E j \in JobIds : CompleteCreate(r, j)
    <3>1. req'[r].pc = "created" /\ req'[r].track = req[r].track
      BY <2>3 DEF CompleteCreate, ReqType
    <3>2. QED BY <1>4, <2>1, <2>3, <3>1
  <2>4. CASE q # r
    <3>1. req'[q] = req[q]
      BY <2>4 DEF RequestStep, CompleteMark, CompleteCreate, RetryCreate, RetryMark,
                  RequestEnqueue, CompleteCheck, RetryCheck, ReqType
    <3>2. QED BY <1>4, <2>1, <3>1
  <2>5. QED BY <1>4, <2>2, <2>3, <2>4
        DEF RequestStep, CompleteMark, RetryCreate, RetryMark, CompleteCheck, RetryCheck
<1>5. ASSUME NEW t \in Tracks, track'[t].status = "processing", track[t].status # "processing"
      PROVE  Answered(t)'
  <2>1. CompleteMark(r) \/ RetryMark(r)
    BY <1>5 DEF RequestStep, CompleteCreate, RetryCreate, RequestEnqueue, CompleteCheck,
                RetryCheck
  <2>2. UpdateStatus(req[r].track, "processing", FALSE)
    BY <2>1 DEF CompleteMark, RetryMark
  <2>3. req[r].track = t
    BY <1>5, <2>2 DEF UpdateStatus, TrackType
  <2>4. req'[r].track = req[r].track /\ req'[r].pc \in {"marked", "created"}
    BY <2>1 DEF CompleteMark, RetryMark, ReqType
  <2>5. QED BY <2>3, <2>4 DEF Answered
<1>6. QED BY <1>3, <1>4, <1>5, LeftBehind

\* Steps of workers write the status of no track but that of their job.
LEMMA PursuedWorkers ==
  ASSUME TypeInv, TypeInv', SafeInv, RowTrack, SpentGrows, [Next]_vars, NoTrackLeft,
         UNCHANGED req,
         \A t \in Tracks :
           track'[t].status = "processing" => track[t].status = "processing" \/ Answered(t)',
         \A j \in JobIds, t \in Tracks :
           Pursued(j) /\ job[j].track = t /\ track'[t].status = "processing" => Pursued(j)'
  PROVE  NoTrackLeft'
<1>1. \A t \in Tracks : \A r \in Requests :
        req[r].track = t /\ req[r].pc \in {"marked", "created"} => Answered(t)'
  BY DEF Answered
<1>2. QED BY <1>1, LeftBehind

LEMMA PursuedStep ==
  ASSUME TypeInv, TypeInv', SafeInv, CalmInv, BaseInv, PlaceInv, ShieldInv, RowTrack,
         PursuedInv, [Next]_vars
  PROVE  PursuedInv'
<1> SUFFICES ASSUME Sheltered'
             PROVE  NoTrackLeft'
  BY DEF PursuedInv
<1>1. SpentGrows
  BY SpentStep
<1>2. Sheltered
  BY <1>1, SettingKept DEF Sheltered, NoWorkerDeath, Sole, SpentGrows, HistoryType, Disturbances
<1>3. NoTrackLeft
  BY <1>2 DEF PursuedInv
<1>4. spent'["apiFault"] = 0 /\ spent'["replay"] = 0
  BY DEF Sheltered
<1>5. ~Spend("apiFault") /\ ~Spend("replay")
  BY <1>4, SpendGrows DEF Disturbances
<1>6. \A a \in Admins : adm[a].pc = "idle"
  BY <1>2 DEF Sheltered, BaseInv, ReplayInv
<1>7. CASE UNCHANGED <<track, req>> /\ \A j \in JobIds : Pursued(j) => Pursued(j)'
  BY <1>1, <1>3, <1>7, PursuedWorkers
<1>8. CASE Arrival
  <2>1. CASE \E a \in Admins, t \in Tracks : \E e \in ToSet(dlq) : DlqFind(a, t, e)
    BY <1>5, <2>1 DEF DlqFind
  <2>2. CASE \E r \in Requests, t \in Tracks : CompleteCheck(r, t) \/ RetryCheck(r, t)
    BY <1>1, <1>3, <2>2, PursuedRequests
  <2>3. QED BY <1>8, <2>1, <2>2 DEF Arrival
<1>9. CASE \E r \in Requests : RequestStep(r)
  BY <1>1, <1>3, <1>9, PursuedRequests
<1>10. CASE \E w \in Workers : LoopMove(w) \/ \E i \in JobIds : MoveFails(w, i)
  <2>1. UNCHANGED <<track, req>>
    BY <1>10 DEF LoopMove, PromoteScan, ReclaimScan, PromoteOne, ReclaimOne, Pop, Acquire,
                 PopTimeout, Claim, ClaimFails, BeginDrain, DrainTimeout, RequeueAck, MoveFails
  <2>2. QED BY <1>1, <1>7, <1>10, <2>1, PursuedLoop
<1>11. CASE \E w \in Workers : End(w)
  <2>1. UNCHANGED <<track, req>>
    BY <1>11 DEF End, Exit, Stop, RequeuePush, Crash
  <2>2. QED BY <1>1, <1>2, <1>7, <1>11, <2>1, PursuedEnds
<1>12. CASE \E w \in Workers, s \in Slots :
              \/ TaskStep(w, s)
              \/ AckFails(w, s) \/ LookupFails(w, s)
              \/ FailureWriteFails(w, s) \/ EnqueueFails(w, s)
  <2>1. PICK w \in Workers, s \in Slots :
               \/ TaskStep(w, s)
               \/ AckFails(w, s) \/ LookupFails(w, s)
               \/ FailureWriteFails(w, s) \/ EnqueueFails(w, s)
    BY <1>12
  <2>2. UNCHANGED req
    <3>1. CASE TaskStep(w, s)
      BY <3>1 DEF TaskStep, MarkRunning, MarkRunningFails, Transcoded, TranscodeFails, Complete,
                  CompleteFails, Ack, Lookup, ResetJob, BackToProcessing, FailJob, BackToDraft,
                  ScheduleRetry, Bury, Leave
    <3>2. CASE \/ AckFails(w, s) \/ LookupFails(w, s) \/ FailureWriteFails(w, s)
               \/ EnqueueFails(w, s)
      BY <3>2 DEF AckFails, LookupFails, FailureWriteFails, EnqueueFails
    <3>3. QED BY <2>1, <3>1, <3>2
  <2>3. ASSUME NEW t \in Tracks, track'[t].status = "processing",
               track[t].status # "processing"
        PROVE  Answered(t)'
    <3>1. BackToProcessing(w, s)
      <4>1. UNCHANGED track \/ Transcoded(w, s) \/ BackToDraft(w, s) \/ BackToProcessing(w, s)
        <5>1. CASE TaskStep(w, s)
          BY <5>1 DEF TaskStep, MarkRunning, MarkRunningFails, TranscodeFails, Complete,
                      CompleteFails, Ack, Lookup, ResetJob, FailJob, ScheduleRetry, Bury, Leave
        <5>2. CASE \/ AckFails(w, s) \/ LookupFails(w, s) \/ FailureWriteFails(w, s)
                   \/ EnqueueFails(w, s)
          BY <5>2 DEF AckFails, LookupFails, FailureWriteFails, EnqueueFails
        <5>3. QED BY <2>1, <5>1, <5>2
      <4>2. CASE Transcoded(w, s) \/ BackToDraft(w, s)
        <5>1. PICK x \in {"pending_review", "published", "draft"}, e \in BOOLEAN :
                UpdateStatus(job[task[w][s].job].track, x, e)
          BY <4>2 DEF Transcoded, BackToDraft
        <5>2. track'[t].status \in {track[t].status, x}
          BY <5>1 DEF UpdateStatus, TrackType
        <5>3. QED BY <2>3, <5>2
      <4>3. QED BY <2>3, <4>1, <4>2
    <3>2. /\ UpdateStatus(job[task[w][s].job].track, "processing", TRUE) /\ UNCHANGED job
          /\ TaskGoto(w, s, "retrying") /\ task[w][s].pc # "idle"
      BY <3>1 DEF BackToProcessing, TaskAt
    <3>3. PICK j \in JobIds : j = task[w][s].job
      BY <3>2 DEF TaskType
    <3>4. job'[j].track = t
      <4>1. UpdateStatus(job[j].track, "processing", TRUE) /\ UNCHANGED job
        BY <3>2, <3>3
      <4>2. job[j].track # t => track'[t] = track[t]
        BY <4>1 DEF UpdateStatus, TrackType
      <4>3. QED BY <2>3, <4>1, <4>2
    <3>5. task'[w][s].pc = "retrying" /\ task'[w][s].job = j
      BY <3>2, <3>3, GotoMoves
    <3>6. RunAhead(j)'
      BY <3>5 DEF RunAhead, StillAhead, Ahead
    <3>7. QED BY <3>4, <3>6 DEF Answered, Pursued
  <2>4. \A j \in JobIds, t \in Tracks :
          Pursued(j) /\ job[j].track = t /\ track'[t].status = "processing" => Pursued(j)'
    BY <1>1, <2>1, PursuedTasks
  <2>5. QED BY <1>1, <1>3, <2>2, <2>3, <2>4, PursuedWorkers
<1>13. CASE \E a \in Admins : AdminStep(a) \/ DlqEnqueueFails(a) \/ AdminAbort(a)
  BY <1>6, <1>13 DEF AdminStep, DlqRemove, DlqEnqueue, DlqMark, DlqEnqueueFails, AdminAbort
<1>14. CASE \E r \in Requests : RequestEnqueueFails(r) \/ RequestAbort(r)
  BY <1>5, <1>14 DEF RequestEnqueueFails, RequestAbort
<1>15. CASE \/ \E j \in JobIds : BecomeDue(j) \/ Expire(j)
            \/ \E w \in Workers : Signal(w)
            \/ UNCHANGED vars
  <2>1. UNCHANGED <<track, req, pending, processing, retry, dlq, loop, held, task, fate>>
    BY <1>15 DEF BecomeDue, Expire, Signal, vars
  <2>2. \A k \in JobIds :
          /\ Contains(pending, k) => Contains(pending, k)'
          /\ k \in retry => k \in retry'
          /\ InDLQ(k) => InDLQ(k)'
          /\ fate[k] = "dropped" => fate'[k] = "dropped"
    BY <2>1 DEF InDLQ
  <2>3. \A j \in JobIds : Pursued(j) => Pursued(j)'
    BY <1>1, <2>1, <2>2, PursuedStill
  <2>4. QED BY <1>7, <2>1, <2>3
<1>16. QED BY <1>8, <1>9, <1>10, <1>11, <1>12, <1>13, <1>14, <1>15 DEF Next, Work, Fault

LEMMA PursuedInvariant == Spec => []PursuedInv
<1>1. Init => PursuedInv
  BY DEF Init, CatalogInit, PursuedInv, NoTrackLeft
<1>2. TypeInv /\ TypeInv' /\ SafeInv /\ CalmInv /\ BaseInv /\ PlaceInv /\ ShieldInv /\ RowTrack
      /\ PursuedInv /\ [Next]_vars => PursuedInv'
  BY PursuedStep
<1>3. QED BY <1>1, <1>2, TypeInvariant, SafetyInvariant, CalmInvariant, BaseInvariant,
             PlaceInvariant, ShieldInvariant, RowTrackInvariant, PTL DEF Spec

(* A track that is shown as processing has a request at work on it, a job  *)
(* that will write its status again, a job that was dropped, or one whose  *)
(* burial PostgreSQL did not record.                                       *)
THEOREM ProcessingIsPursued == Spec => []ProcessingHasJob
<1>1. TypeInv /\ PursuedInv => ProcessingHasJob
  <2> SUFFICES ASSUME TypeInv, PursuedInv, spent["apiFault"] = 0, spent["replay"] = 0,
                      NoWorkerDeath \/ NoDuplicateRun,
                      NEW t \in Tracks, track[t].status = "processing",
                      ~\E r \in Requests : req[r].track = t /\ req[r].pc \in {"marked", "created"}
               PROVE  \E j \in JobIds :
                        /\ job[j].track = t
                        /\ \/ WillWriteStatus(j)
                           \/ fate[j] = "dropped"
                           \/ spent["error"] > 0 /\ InDLQ(j)
    BY DEF ProcessingHasJob
  <2>1. Sheltered
    BY DEF Sheltered, Sole, Steady, OneWorker, OneSlot, NoDuplicateRun
  <2>2. PICK j \in JobIds : job[j].track = t /\ Pursued(j)
    BY <2>1 DEF PursuedInv, NoTrackLeft, Answered
  <2>3. CASE RunAhead(j)
    <3>1. PICK w \in Workers, s \in Slots : task[w][s].job = j /\ StillAhead(w, s)
      BY <2>3 DEF RunAhead
    <3>2. task[w][s].pc \in {"start", "work", "failed"} \/ j \in InFailure(w)
      BY <3>1 DEF StillAhead, Ahead, InFailure, FailurePc
    <3>3. QED BY <2>2, <3>1, <3>2 DEF WillWriteStatus, Exposed
  <2>4. CASE Waiting(j) \/ j \in processing
    BY <2>2, <2>4 DEF Waiting, WillWriteStatus, Exposed
  <2>5. QED BY <2>2, <2>3, <2>4 DEF Pursued
<1>2. QED BY <1>1, TypeInvariant, PursuedInvariant, PTL
=============================================================================
