--------------------------- MODULE TranscodeQueue ---------------------------
(***************************************************************************)
(* The four Redis keys of internal/platform/queue/redis.go and the         *)
(* commands the program sends them.  A member is the serialised            *)
(* TranscodeJob; a job id is serialised the same way every time, so the    *)
(* two sorted sets hold a job at most once while the two lists may hold it *)
(* several times.  Scores are times; the model keeps what is read of them: *)
(* whether they have passed.                                               *)
(***************************************************************************)
EXTENDS Naturals, SequencesExt, TranscodeJobs

VARIABLES
  pending,     \* gachify:transcode:queue, a list, oldest first (LPUSH / BRPOP)
  processing,  \* gachify:transcode:processing, a sorted set
  overdue,     \* its members whose visibility deadline has passed
  retry,       \* gachify:transcode:retry, a sorted set
  due,         \* its members whose retry time has come
  dlq,         \* gachify:transcode:dlq, a list of DLQEntry, oldest first
  stamp        \* number of entries ever built: FailedAt, which tells them apart

queueVars == <<pending, processing, overdue, retry, due, dlq, stamp>>

DLQEntry == [job : JobIds, failedAt : Nat]

QueueTypeOK ==
  /\ pending \in Seq(JobIds)
  /\ processing \in SUBSET JobIds /\ overdue \in SUBSET processing
  /\ retry \in SUBSET JobIds /\ due \in SUBSET retry
  /\ dlq \in Seq(DLQEntry) /\ stamp \in Nat

QueueInit ==
  /\ pending = << >> /\ dlq = << >> /\ stamp = 0
  /\ processing = {} /\ overdue = {} /\ retry = {} /\ due = {}

-----------------------------------------------------------------------------
\* EnqueueTranscode.
LPush(j) == pending' = Append(pending, j)

\* The BRPOP of DequeueTranscode.
BRPop(j) ==
  /\ pending # << >>
  /\ j = Head(pending)
  /\ pending' = Tail(pending)

\* Mutant: a popped job is not put under a visibility deadline.
ZAddNothing(j) == UNCHANGED <<processing, overdue>>

\* The ZADD of DequeueTranscode: a new deadline, also for a member already there.
ZAddProcessing(j) ==
  /\ processing' = processing \cup {j}
  /\ overdue' = overdue \ {j}

\* AckTranscode.
ZRemProcessing(j) ==
  /\ processing' = processing \ {j}
  /\ overdue' = overdue \ {j}

\* EnqueueTranscodeDelayed.
ZAddRetry(j) ==
  /\ retry' = retry \cup {j}
  /\ due' = due \ {j}

\* The pipeline of PromoteReadyRetries, for one member it has read: LPUSH
\* whether or not the member is still in the set.
PromoteMember(j) ==
  /\ LPush(j)
  /\ retry' = retry \ {j}
  /\ due' = due \ {j}

\* Mutant: the pipeline of ReclaimStaleProcessing without its ZREM.
ReclaimKeepsMember(j) ==
  /\ LPush(j)
  /\ UNCHANGED <<processing, overdue>>

\* Mutant: the pipeline of ReclaimStaleProcessing without its LPUSH.
ReclaimDropsMember(j) ==
  /\ ZRemProcessing(j)
  /\ UNCHANGED pending

\* The pipeline of ReclaimStaleProcessing, likewise.
ReclaimMember(j) ==
  /\ LPush(j)
  /\ ZRemProcessing(j)

\* EnqueueDLQ.
PushDLQ(j) ==
  /\ dlq' = Append(dlq, [job |-> j, failedAt |-> stamp])
  /\ stamp' = stamp + 1

\* LREM 1 of an entry: nothing happens when another caller has removed it.
LRemDLQ(e) ==
  dlq' = IF Contains(dlq, e)
         THEN RemoveAt(dlq, CHOOSE i \in 1..Len(dlq) : dlq[i] = e)
         ELSE dlq

\* e is the entry RetryDLQJob picks: the newest of a job in S.
NewestOf(e, S) ==
  \E i \in 1..Len(dlq) :
    /\ e = dlq[i] /\ e.job \in S
    /\ \A k \in i+1 .. Len(dlq) : dlq[k].job \notin S
=============================================================================
