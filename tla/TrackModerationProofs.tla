----------------------- MODULE TrackModerationProofs -----------------------
(***************************************************************************)
(* From a finished transcode to the followers' notification, for any       *)
(* number of tracks, jobs, workers and moderators.                         *)
(*                                                                         *)
(* First that moderators, creators and sweeps leave the pipeline alone but *)
(* for the rows of the tracks, so that its invariants hold of the whole.   *)
(* Then that followers are told once for each release, and that a track    *)
(* follows its lifecycle where one run, one request and one moderator work *)
(* on it at a time.                                                        *)
(***************************************************************************)
EXTENDS TrackModeration, TranscodePipelineProofs

-----------------------------------------------------------------------------
(* Types. *)

ModPc == {"idle", "loaded", "published"}
SweepPc == {"waiting", "sweeping", "notifying"}
SomeTrack == Tracks \cup {NoTrack}

ModType ==
  /\ mod \in [Moderators -> [pc : ModPc, track : SomeTrack]]
  /\ \A m \in Moderators : mod[m].pc # "idle" => mod[m].track \in Tracks
NowType == now \in [Tracks -> {"idle", "published"}]
SweepType ==
  /\ sweep \in [Workers -> [pc : SweepPc, batch : SUBSET Tracks, track : SomeTrack]]
  /\ \A w \in Workers : sweep[w].pc = "notifying" => sweep[w].track \in Tracks
RecordType ==
  /\ reviewed \in [Tracks -> BOOLEAN]
  /\ releases \in [Tracks -> Nat] /\ notices \in [Tracks -> Nat]
ModerationType == ModType /\ NowType /\ SweepType /\ RecordType

-----------------------------------------------------------------------------
(* The two kinds of step. *)

\* A step of a moderator, a creator or a sweep, as the pipeline sees it.
OwnStep == UNCHANGED <<job, queueVars, workerVars, req, adm, fate>> /\ Counted

\* What such a step does to the rows of the tracks.
TrackStep ==
  \/ UNCHANGED track
  \/ \E t \in Tracks :
       \/ AdminApprove(t) \/ UpdateStatus(t, "draft", TRUE) \/ AdminPublish(t)
       \/ SetScheduledPublish(t) \/ CreatorPublishNow(t) \/ PublishScheduledTrack(t)
       \/ track[t].sched = "later" /\ track' = [track EXCEPT ![t].sched = "due"]

Deed(m) ==
  \/ ModeratorStep(m) \/ PublishAborts(m)
  \/ \E t \in Tracks : Approve(m, t) \/ Reject(m, t) \/ PublishLoad(m, t)
CreatorDeed(t) ==
  SchedulePublish(t) \/ ScheduleDue(t) \/ PublishNow(t) \/ PublishNowNotify(t)
  \/ PublishNowAborts(t)
SweepDeed(w) == SweepStep(w) \/ \E t \in Tracks : SweepFails(w, t)

LEMMA NextCases ==
  ASSUME [ModerationNext]_allVars
  PROVE  \/ PipelineWork \/ \E w \in Workers : PipelineEnd(w)
         \/ \E m \in Moderators : Deed(m)
         \/ \E t \in Tracks : CreatorDeed(t)
         \/ \E w \in Workers : SweepDeed(w)
         \/ UNCHANGED allVars
BY DEF ModerationNext, Deed, CreatorDeed, SweepDeed

LEMMA DeedIsOwn ==
  ASSUME ModerationType, NEW m \in Moderators, Deed(m)
  PROVE  OwnStep /\ TrackStep
<1>1. CASE \E t \in Tracks : Approve(m, t) \/ Reject(m, t)
  BY <1>1 DEF Approve, Reject, OwnStep, TrackStep, Counted, pipelineRest
<1>2. CASE \E t \in Tracks : PublishLoad(m, t)
  BY <1>2 DEF PublishLoad, OwnStep, TrackStep, Counted, vars, catalogVars
<1>3. CASE PublishWrite(m)
  <2>1. mod[m].track \in Tracks
    BY <1>3 DEF PublishWrite, ModerationType, ModType
  <2>2. QED BY <1>3, <2>1 DEF PublishWrite, OwnStep, TrackStep, Counted, pipelineRest
<1>4. CASE PublishConflict(m) \/ PublishNotify(m)
  BY <1>4 DEF PublishConflict, PublishNotify, OwnStep, TrackStep, Counted, vars, catalogVars
<1>5. CASE PublishAborts(m)
  BY <1>5 DEF PublishAborts, OwnStep, TrackStep, Counted, pipelineKept, catalogVars, Disturbances
<1>6. QED BY <1>1, <1>2, <1>3, <1>4, <1>5 DEF Deed, ModeratorStep

LEMMA CreatorIsOwn ==
  ASSUME NEW t \in Tracks, CreatorDeed(t)
  PROVE  OwnStep /\ TrackStep
<1>1. CASE SchedulePublish(t) \/ ScheduleDue(t) \/ PublishNow(t)
  BY <1>1 DEF SchedulePublish, ScheduleDue, PublishNow, OwnStep, TrackStep, Counted, pipelineRest
<1>2. CASE PublishNowNotify(t)
  BY <1>2 DEF PublishNowNotify, OwnStep, TrackStep, Counted, vars, catalogVars
<1>3. CASE PublishNowAborts(t)
  BY <1>3 DEF PublishNowAborts, OwnStep, TrackStep, Counted, pipelineKept, catalogVars,
              Disturbances
<1>4. QED BY <1>1, <1>2, <1>3 DEF CreatorDeed

LEMMA SweepIsOwn ==
  ASSUME NEW w \in Workers, SweepDeed(w)
  PROVE  OwnStep /\ TrackStep
<1>1. CASE SweepList(w) \/ SweepNotify(w) \/ \E t \in Tracks : SweepSkip(w, t)
  BY <1>1 DEF SweepList, SweepNotify, SweepSkip, OwnStep, TrackStep, Counted, vars, catalogVars
<1>2. CASE \E t \in Tracks : SweepPublish(w, t)
  BY <1>2 DEF SweepPublish, OwnStep, TrackStep, Counted, pipelineRest
<1>3. CASE \E t \in Tracks : SweepFails(w, t)
  BY <1>3 DEF SweepFails, OwnStep, TrackStep, Counted, pipelineKept, catalogVars, Disturbances
<1>4. QED BY <1>1, <1>2, <1>3 DEF SweepDeed, SweepStep

\* Every step is one of the pipeline or leaves it alone.
LEMMA TwoKinds ==
  ASSUME ModerationType, [ModerationNext]_allVars
  PROVE  [Next]_vars \/ (OwnStep /\ TrackStep)
<1>1. CASE PipelineWork \/ \E w \in Workers : PipelineEnd(w)
  BY <1>1 DEF PipelineWork, PipelineEnd, Next
<1>2. CASE UNCHANGED allVars
  BY <1>2 DEF allVars
<1>3. QED BY <1>1, <1>2, NextCases, DeedIsOwn, CreatorIsOwn, SweepIsOwn

-----------------------------------------------------------------------------
(* The types are kept. *)

LEMMA OwnTypes ==
  ASSUME TypeInv, OwnStep, TrackStep
  PROVE  TypeInv'
<1>1. TrackType'
  <2>1. CASE UNCHANGED track
    BY <2>1 DEF TypeInv, TrackType
  <2>2. CASE \E t \in Tracks : UpdateStatus(t, "draft", TRUE)
    BY <2>2, UpdateStatusType DEF TypeInv, Status
  <2>3. CASE \E t \in Tracks : AdminApprove(t) \/ AdminPublish(t)
    BY <2>3 DEF TypeInv, TrackType, AdminApprove, AdminPublish, Status
  <2>4. CASE \E t \in Tracks : CreatorPublishNow(t) \/ PublishScheduledTrack(t)
    BY <2>4 DEF TypeInv, TrackType, CreatorPublishNow, PublishScheduledTrack, Status, Schedule
  <2>5. CASE \E t \in Tracks :
               \/ SetScheduledPublish(t)
               \/ track[t].sched = "later" /\ track' = [track EXCEPT ![t].sched = "due"]
    BY <2>5 DEF TypeInv, TrackType, SetScheduledPublish, Schedule
  <2>6. QED BY <2>1, <2>2, <2>3, <2>4, <2>5 DEF TrackStep
<1>2. HistoryType'
  <2>1. \A d \in Disturbances : Spend(d) => spent' \in [Disturbances -> Nat]
    BY SpendType DEF TypeInv
  <2>2. QED BY <2>1 DEF OwnStep, Counted, TypeInv, HistoryType
<1>3. /\ JobType' /\ QueueTypeOK' /\ LoopType'
      /\ TaskType' /\ ReqType' /\ AdmType'
  BY DEF OwnStep, TypeInv, JobType, QueueTypeOK, LoopType, TaskType, ReqType, AdmType,
         queueVars, workerVars
<1>4. QED BY <1>1, <1>2, <1>3 DEF TypeInv

\* A track that goes live is counted.
LEMMA ReleaseType ==
  ASSUME RecordType, CountReleases
  PROVE  releases' \in [Tracks -> Nat]
BY DEF RecordType, CountReleases

LEMMA NotifyType ==
  ASSUME RecordType, NEW t \in Tracks, Notify(t)
  PROVE  notices' \in [Tracks -> Nat]
BY DEF RecordType, Notify

LEMMA ReviewType ==
  ASSUME RecordType, NEW t, NEW passed \in BOOLEAN, Review(t, passed)
  PROVE  reviewed' \in [Tracks -> BOOLEAN]
BY DEF RecordType, Review

\* The sweep w goes on.
LEMMA SweepNextType ==
  ASSUME SweepType, NEW w \in Workers, NEW t, SweepNext(w, t)
  PROVE  SweepType'
<1> DEFINE x == [pc |-> IF sweep[w].batch = {t} THEN "waiting" ELSE "sweeping",
                 batch |-> sweep[w].batch \ {t}, track |-> NoTrack]
<1>1. sweep' = [sweep EXCEPT ![w] = x]
  BY DEF SweepNext
<1>2. x \in [pc : SweepPc, batch : SUBSET Tracks, track : SomeTrack] /\ x.pc # "notifying"
  BY DEF SweepType, SweepPc, SomeTrack
<1> HIDE DEF x
<1>3. QED BY <1>1, <1>2 DEF SweepType

LEMMA DeedTypes ==
  ASSUME ModerationType, NEW m \in Moderators, Deed(m)
  PROVE  ModerationType'
<1>1. CASE \E t \in Tracks : Approve(m, t) \/ Reject(m, t)
  <2>1. PICK t \in Tracks : Approve(m, t) \/ Reject(m, t)
    BY <1>1
  <2>2. reviewed' \in [Tracks -> BOOLEAN]
    BY <2>1, ReviewType DEF Approve, Reject, ModerationType
  <2>3. QED BY <2>1, <2>2 DEF Approve, Reject, ModerationType, ModType, NowType, SweepType,
                              RecordType
<1>2. CASE \E t \in Tracks : PublishLoad(m, t)
  <2>1. PICK t \in Tracks : PublishLoad(m, t)
    BY <1>2
  <2>2. reviewed' \in [Tracks -> BOOLEAN]
    BY <2>1, ReviewType DEF PublishLoad, ModerationType
  <2>3. ModType'
    BY <2>1 DEF PublishLoad, ModerationType, ModType, ModPc, SomeTrack
  <2>4. QED BY <2>1, <2>2, <2>3 DEF PublishLoad, ModerationType, NowType, SweepType, RecordType
<1>3. CASE PublishWrite(m)
  <2>1. ModType'
    BY <1>3 DEF PublishWrite, ModerationType, ModType, ModPc
  <2>2. QED BY <1>3, <2>1, ReleaseType
            DEF PublishWrite, ModerationType, NowType, SweepType, RecordType
<1>4. CASE PublishConflict(m) \/ PublishNotify(m) \/ PublishAborts(m)
  <2>1. ModType'
    BY <1>4 DEF PublishConflict, PublishNotify, PublishAborts, ModerationType, ModType, ModPc,
                IdleMod, SomeTrack
  <2>2. notices' \in [Tracks -> Nat]
    BY <1>4, NotifyType
       DEF PublishConflict, PublishNotify, PublishAborts, ModerationType, RecordType, ModType
  <2>3. QED BY <1>4, <2>1, <2>2
            DEF PublishConflict, PublishNotify, PublishAborts, ModerationType, NowType, SweepType,
                RecordType
<1>5. QED BY <1>1, <1>2, <1>3, <1>4 DEF Deed, ModeratorStep

LEMMA CreatorTypes ==
  ASSUME ModerationType, NEW t \in Tracks, CreatorDeed(t)
  PROVE  ModerationType'
<1>1. CASE SchedulePublish(t) \/ ScheduleDue(t)
  BY <1>1 DEF SchedulePublish, ScheduleDue, moderationVars, ModerationType, ModType, NowType,
              SweepType, RecordType
<1>2. CASE PublishNow(t)
  BY <1>2, ReleaseType DEF PublishNow, ModerationType, ModType, NowType, SweepType, RecordType
<1>3. CASE PublishNowNotify(t)
  BY <1>3, NotifyType
     DEF PublishNowNotify, ModerationType, ModType, NowType, SweepType, RecordType
<1>4. CASE PublishNowAborts(t)
  BY <1>4 DEF PublishNowAborts, ModerationType, ModType, NowType, SweepType, RecordType
<1>5. QED BY <1>1, <1>2, <1>3, <1>4 DEF CreatorDeed

LEMMA SweepTypes ==
  ASSUME ModerationType, NEW w \in Workers, SweepDeed(w)
  PROVE  ModerationType'
<1>1. CASE SweepList(w)
  <2>1. SweepType'
    BY <1>1 DEF SweepList, ModerationType, SweepType, SweepPc, SomeTrack
  <2>2. QED BY <1>1, <2>1 DEF SweepList, ModerationType, ModType, NowType, RecordType
<1>2. CASE \E t \in Tracks : SweepPublish(w, t)
  <2>1. PICK t \in Tracks : SweepPublish(w, t)
    BY <1>2
  <2>2. SweepType'
    BY <2>1, ZenonT(40) DEF SweepPublish, ModerationType, SweepType, SweepPc, SomeTrack
  <2>3. QED BY <2>1, <2>2, ReleaseType
            DEF SweepPublish, ModerationType, ModType, NowType, RecordType
<1>3. CASE \E t \in Tracks : SweepSkip(w, t) \/ SweepFails(w, t)
  <2>1. PICK t \in Tracks : SweepSkip(w, t) \/ SweepFails(w, t)
    BY <1>3
  <2>2. SweepType'
    BY <2>1, SweepNextType DEF SweepSkip, SweepFails, ModerationType
  <2>3. QED BY <2>1, <2>2 DEF SweepSkip, SweepFails, ModerationType, ModType, NowType, RecordType
<1>4. CASE SweepNotify(w)
  <2>1. SweepType'
    BY <1>4, SweepNextType DEF SweepNotify, ModerationType
  <2>2. notices' \in [Tracks -> Nat]
    BY <1>4, NotifyType DEF SweepNotify, ModerationType, RecordType, SweepType
  <2>3. QED BY <1>4, <2>1, <2>2 DEF SweepNotify, ModerationType, ModType, NowType, RecordType
<1>5. QED BY <1>1, <1>2, <1>3, <1>4 DEF SweepDeed, SweepStep

LEMMA PipelineTypes ==
  ASSUME ModerationType, PipelineWork \/ \E w \in Workers : PipelineEnd(w)
  PROVE  ModerationType'
<1>1. CASE PipelineWork
  <2>1. reviewed' \in [Tracks -> BOOLEAN]
    BY <1>1 DEF PipelineWork, Supersede, ModerationType, RecordType
  <2>2. QED BY <1>1, <2>1, ReleaseType
            DEF PipelineWork, ModerationType, ModType, NowType, SweepType, RecordType
<1>2. CASE \E w \in Workers : PipelineEnd(w)
  <2>1. PICK w \in Workers : PipelineEnd(w)
    BY <1>2
  <2>2. SweepType'
    BY <2>1 DEF PipelineEnd, ModerationType, SweepType, SweepPc, SomeTrack, IdleSweep
  <2>3. QED BY <2>1, <2>2 DEF PipelineEnd, ModerationType, ModType, NowType, RecordType
<1>3. QED BY <1>1, <1>2

LEMMA ModerationTypeStep ==
  ASSUME ModerationType, [ModerationNext]_allVars
  PROVE  ModerationType'
<1>1. CASE UNCHANGED allVars
  BY <1>1 DEF allVars, moderationVars, ModerationType, ModType, NowType, SweepType, RecordType
<1>2. QED BY <1>1, NextCases, DeedTypes, CreatorTypes, SweepTypes, PipelineTypes

LEMMA ModerationTypeInit == ModerationInit => ModerationType
BY DEF ModerationInit, ModerationType, ModType, NowType, SweepType, RecordType, ModPc, SweepPc,
       SomeTrack, IdleMod, IdleSweep

(* The types of the whole system: of what the pipeline, the moderators, the *)
(* creators and the sweeps keep, for any number of each.                    *)
THEOREM ModerationTypeCorrect == ModerationSpec => [](TypeInv /\ ModerationType)
<1>1. ModerationInit => TypeInv /\ ModerationType
  BY ModerationTypeInit, TypeInit DEF ModerationInit
<1>2. TypeInv /\ ModerationType /\ [ModerationNext]_allVars => (TypeInv /\ ModerationType)'
  BY TwoKinds, TypeStep, OwnTypes, ModerationTypeStep, PipelineAssumption
<1>3. QED BY <1>1, <1>2, PTL DEF ModerationSpec

-----------------------------------------------------------------------------
(* One notice for each release. *)

\* A worker that is stopping was told to, and its sweep tells nobody any more.
DrainInv == \A w \in Workers : loop[w] \in {"draining", "requeue", "requeueing"} => term[w]

\* Who has released t and not yet told its followers.
Telling(t) == {m \in Moderators : mod[m] = [pc |-> "published", track |-> t]}
Creating(t) == IF now[t] = "published" THEN 1 ELSE 0
Sweeping(t) == {w \in Workers : sweep[w].pc = "notifying" /\ sweep[w].track = t}

\* The sweeps that will, unless they are disturbed.
Sure(t) == {w \in Sweeping(t) : ~term[w]}

\* What has been released is told or lost, or somebody is sure to tell it.
Ledger(t) ==
  /\ notices[t] + Cardinality(Telling(t)) + Creating(t) + Cardinality(Sweeping(t)) <= releases[t]
  /\ releases[t]
       <= notices[t] + Cardinality(Telling(t)) + Creating(t) + Cardinality(Sure(t)) + Losses

Countable(t) ==
  /\ IsFiniteSet(Telling(t)) /\ IsFiniteSet(Sweeping(t)) /\ IsFiniteSet(Sure(t))
  /\ Cardinality(Telling(t)) \in Nat /\ Cardinality(Sweeping(t)) \in Nat
  /\ Cardinality(Sure(t)) \in Nat /\ Cardinality(Sure(t)) <= Cardinality(Sweeping(t))
  /\ Creating(t) \in Nat

\* Finitely many may owe a notice, before a step and after it.
LEMMA Counts ==
  ASSUME NEW t
  PROVE  Countable(t) /\ Countable(t)'
<1>1. ASSUME NEW S, NEW T, S \subseteq T, IsFiniteSet(T)
      PROVE  /\ IsFiniteSet(S) /\ Cardinality(S) \in Nat /\ Cardinality(T) \in Nat
             /\ Cardinality(S) <= Cardinality(T)
  BY <1>1, FS_Subset, FS_CardinalityType
<1>2. IsFiniteSet(Moderators) /\ IsFiniteSet(Workers)
  BY ModerationAssumption, PipelineAssumption
<1>3. /\ Telling(t) \subseteq Moderators /\ Sweeping(t) \subseteq Workers
      /\ Sure(t) \subseteq Sweeping(t) /\ Creating(t) \in Nat
  BY DEF Telling, Sweeping, Sure, Creating
<1>4. /\ Telling(t)' \subseteq Moderators /\ Sweeping(t)' \subseteq Workers
      /\ Sure(t)' \subseteq Sweeping(t)' /\ Creating(t)' \in Nat
  BY DEF Telling, Sweeping, Sure, Creating
<1>5. IsFiniteSet(Sweeping(t)) /\ IsFiniteSet(Sweeping(t)')
  BY <1>1, <1>2, <1>3, <1>4
<1>6. Countable(t)
  BY <1>1, <1>2, <1>3, <1>5 DEF Countable
<1>7. Countable(t)'
  BY <1>1, <1>2, <1>4, <1>5 DEF Countable
<1>8. QED BY <1>6, <1>7

LEMMA OneMore ==
  ASSUME NEW S, IsFiniteSet(S), NEW x, x \notin S, NEW T, T = S \cup {x}
  PROVE  Cardinality(T) = Cardinality(S) + 1
BY FS_AddElement

LEMMA OneLess ==
  ASSUME NEW S, IsFiniteSet(S), NEW x \in S, NEW T, T = S \ {x}
  PROVE  Cardinality(T) = Cardinality(S) - 1
BY FS_RemoveElement

LEMMA LossType ==
  ASSUME TypeInv, TypeInv'
  PROVE  Losses \in Nat /\ Losses' \in Nat
BY DEF TypeInv, HistoryType, Disturbances, Losses

LEMMA LossGrows ==
  ASSUME TypeInv, TypeInv', Counted
  PROVE  /\ Losses' >= Losses
         /\ \A d \in {"crash", "signal", "error", "apiFault"} : Spend(d) => Losses' = Losses + 1
<1>1. /\ \A c \in Disturbances : spent[c] \in Nat
      /\ \A d \in Disturbances : Spend(d) =>
           spent'[d] = spent[d] + 1 /\ \A c \in Disturbances \ {d} : spent'[c] = spent[c]
  BY DEF TypeInv, HistoryType, Spend
<1>2. {"crash", "signal", "error", "apiFault"} \subseteq Disturbances
  BY DEF Disturbances
<1>3. ASSUME NEW d \in {"crash", "signal", "error", "apiFault"}, Spend(d)
      PROVE  Losses' = Losses + 1
  <2>1. CASE d = "crash"
    BY <1>1, <1>2, <1>3, <2>1 DEF Losses
  <2>2. CASE d = "signal"
    BY <1>1, <1>2, <1>3, <2>2 DEF Losses
  <2>3. CASE d = "error"
    BY <1>1, <1>2, <1>3, <2>3 DEF Losses
  <2>4. CASE d = "apiFault"
    BY <1>1, <1>2, <1>3, <2>4 DEF Losses
  <2>5. QED BY <2>1, <2>2, <2>3, <2>4
<1>4. ASSUME NEW d \in Disturbances \ {"crash", "signal", "error", "apiFault"}, Spend(d)
      PROVE  Losses' = Losses
  BY <1>1, <1>2, <1>4 DEF Losses
<1>5. UNCHANGED spent => Losses' = Losses
  BY DEF Losses
<1>6. Losses \in Nat
  BY LossType
<1>7. QED BY <1>3, <1>4, <1>5, <1>6 DEF Counted

\* Nothing of it changes.
LEMMA LedgerStays ==
  ASSUME TypeInv, TypeInv', ModerationType, ModerationType', Counted, NEW t \in Tracks, Ledger(t),
         Telling(t)' = Telling(t), now'[t] = now[t], Sweeping(t)' = Sweeping(t),
         Sure(t)' = Sure(t), notices'[t] = notices[t], releases'[t] = releases[t]
  PROVE  Ledger(t)'
<1>1. Losses' >= Losses /\ Losses \in Nat /\ Losses' \in Nat
  BY LossGrows, LossType
<1>2. /\ Cardinality(Telling(t))' = Cardinality(Telling(t)) /\ Creating(t)' = Creating(t)
      /\ Cardinality(Sweeping(t))' = Cardinality(Sweeping(t))
      /\ Cardinality(Sure(t))' = Cardinality(Sure(t))
  BY DEF Creating
<1>3. /\ Cardinality(Telling(t)) \in Nat /\ Creating(t) \in Nat
      /\ Cardinality(Sweeping(t)) \in Nat /\ Cardinality(Sure(t)) \in Nat
      /\ notices[t] \in Nat /\ releases[t] \in Nat
  BY Counts DEF Countable, ModerationType, RecordType
<1>4. QED BY <1>1, <1>2, <1>3 DEF Ledger

LEMMA DrainStep ==
  ASSUME TypeInv, DrainInv, [Next]_vars
  PROVE  DrainInv'
<1>1. UNCHANGED <<loop, term>> => DrainInv'
  BY DEF DrainInv
<1>2. ASSUME NEW w \in Workers, WorkerRestart(w)
      PROVE  DrainInv'
  BY <1>2 DEF DrainInv, WorkerRestart, TypeInv, LoopType
<1>3. CASE \E w \in Workers : LoopMove(w)
  <2>1. PICK w \in Workers : LoopMove(w)
    BY <1>3
  <2>2. CASE PromoteScan(w) \/ ReclaimScan(w) \/ Acquire(w) \/ PopTimeout(w)
    BY <2>2 DEF PromoteScan, ReclaimScan, Acquire, PopTimeout, DrainInv, TypeInv, LoopType
  <2>3. CASE \E j \in JobIds : PromoteOne(w, j) \/ ReclaimOne(w, j) \/ Pop(w, j)
    BY <2>3 DEF PromoteOne, ReclaimOne, Moved, Pop, DrainInv, TypeInv, LoopType
  <2>4. CASE (\E s \in Slots : Claim(w, s)) \/ ClaimFails(w)
    BY <2>4 DEF Claim, ClaimFails, DrainInv, TypeInv, LoopType
  <2>5. CASE BeginDrain(w) \/ DrainTimeout(w) \/ RequeueAck(w)
    BY <2>5 DEF BeginDrain, DrainTimeout, RequeueAck, DrainInv, TypeInv, LoopType
  <2>6. QED BY <2>1, <2>2, <2>3, <2>4, <2>5 DEF LoopMove
<1>4. CASE Fault
  <2>1. CASE \E w \in Workers : Signal(w)
    BY <2>1 DEF Signal, DrainInv, TypeInv, LoopType
  <2>2. CASE \E w \in Workers, j \in JobIds : MoveFails(w, j)
    BY <2>2 DEF MoveFails, DrainInv, TypeInv, LoopType
  <2>3. CASE \E w \in Workers, s \in Slots :
               \/ AckFails(w, s) \/ LookupFails(w, s)
               \/ FailureWriteFails(w, s) \/ EnqueueFails(w, s)
    BY <1>1, <2>3 DEF AckFails, LookupFails, FailureWriteFails, EnqueueFails
  <2>4. CASE (\E r \in Requests : RequestEnqueueFails(r) \/ RequestAbort(r))
             \/ (\E a \in Admins : DlqEnqueueFails(a) \/ AdminAbort(a))
    BY <1>1, <2>4 DEF RequestEnqueueFails, RequestAbort, DlqEnqueueFails, AdminAbort, workerVars
  <2>5. QED BY <1>4, <2>1, <2>2, <2>3, <2>4 DEF Fault
<1>5. CASE Arrival \/ \E r \in Requests : RequestStep(r)
  BY <1>1, <1>5
     DEF Arrival, CompleteCheck, RetryCheck, DlqFind, RequestStep, CompleteMark, CompleteCreate,
         RetryCreate, RetryMark, RequestEnqueue, workerVars
<1>6. CASE \E w \in Workers, s \in Slots : TaskStep(w, s)
  <2>1. PICK w \in Workers, s \in Slots : TaskStep(w, s)
    BY <1>6
  <2>2. CASE \/ MarkRunning(w, s) \/ MarkRunningFails(w, s) \/ Transcoded(w, s)
             \/ TranscodeFails(w, s) \/ Complete(w, s) \/ CompleteFails(w, s)
    BY <1>1, <2>2 DEF MarkRunning, MarkRunningFails, Transcoded, TranscodeFails, Complete,
                      CompleteFails
  <2>3. CASE \/ Ack(w, s) \/ Lookup(w, s) \/ ResetJob(w, s) \/ BackToProcessing(w, s)
             \/ FailJob(w, s) \/ BackToDraft(w, s) \/ ScheduleRetry(w, s) \/ Bury(w, s)
             \/ Leave(w, s)
    BY <1>1, <2>3 DEF Ack, Lookup, ResetJob, BackToProcessing, FailJob, BackToDraft,
                      ScheduleRetry, Bury, Leave
  <2>4. QED BY <2>1, <2>2, <2>3 DEF TaskStep
<1>7. CASE \/ \E a \in Admins : AdminStep(a)
           \/ \E j \in JobIds : BecomeDue(j) \/ Expire(j)
  BY <1>1, <1>7 DEF AdminStep, DlqRemove, DlqEnqueue, DlqMark, BecomeDue, Expire, workerVars
<1>8. CASE \E w \in Workers : End(w)
  BY <1>2, <1>8 DEF End, Exit, Stop, RequeuePush, Crash
<1>9. CASE UNCHANGED vars
  BY <1>1, <1>9 DEF vars, workerVars
<1>10. QED BY <1>3, <1>4, <1>5, <1>6, <1>7, <1>8, <1>9 DEF Next, Work

\* What the pipeline writes into the rows of the tracks, with moderation.
Unreleased == {"draft", "processing", "pending_review"}
RowsWritten ==
  \/ UNCHANGED track
  \/ \E t, e : \E s \in Unreleased : UpdateStatus(t, s, e)

LEMMA WorkEffects ==
  ASSUME Work
  PROVE  RowsWritten /\ (UNCHANGED term \/ \E w \in Workers : Signal(w))
<1>1. UNCHANGED <<track, term>> => RowsWritten /\ UNCHANGED term
  BY DEF RowsWritten
<1>2. CASE \E w \in Workers : LoopMove(w)
  BY <1>1, <1>2
     DEF LoopMove, PromoteScan, ReclaimScan, PromoteOne, ReclaimOne, Pop, Acquire, PopTimeout,
         Claim, ClaimFails, BeginDrain, DrainTimeout, RequeueAck, catalogVars
<1>3. CASE Fault
  <2>1. CASE \E w \in Workers : Signal(w)
    BY <2>1 DEF Signal, RowsWritten, catalogVars
  <2>2. CASE \/ \E w \in Workers, j \in JobIds : MoveFails(w, j)
             \/ \E w \in Workers, s \in Slots :
                  \/ AckFails(w, s) \/ LookupFails(w, s)
                  \/ FailureWriteFails(w, s) \/ EnqueueFails(w, s)
    BY <1>1, <2>2 DEF MoveFails, AckFails, LookupFails, FailureWriteFails, EnqueueFails,
                      catalogVars
  <2>3. CASE \E r \in Requests : RequestEnqueueFails(r)
    BY <2>3 DEF RequestEnqueueFails, RowsWritten, Unreleased, workerVars
  <2>4. CASE \/ \E r \in Requests : RequestAbort(r)
             \/ \E a \in Admins : DlqEnqueueFails(a) \/ AdminAbort(a)
    BY <1>1, <2>4 DEF RequestAbort, DlqEnqueueFails, AdminAbort, workerVars, catalogVars
  <2>5. QED BY <1>3, <2>1, <2>2, <2>3, <2>4 DEF Fault
<1>4. CASE Arrival
  BY <1>1, <1>4 DEF Arrival, CompleteCheck, RetryCheck, DlqFind, workerVars, catalogVars
<1>5. CASE \E r \in Requests : RequestStep(r)
  <2>1. PICK r \in Requests : RequestStep(r)
    BY <1>5
  <2>2. CASE CompleteMark(r) \/ RetryMark(r)
    BY <2>2 DEF CompleteMark, RetryMark, RowsWritten, Unreleased, workerVars
  <2>3. CASE (\E j \in JobIds : CompleteCreate(r, j) \/ RetryCreate(r, j)) \/ RequestEnqueue(r)
    BY <1>1, <2>3 DEF CompleteCreate, RetryCreate, RequestEnqueue, workerVars, catalogVars
  <2>4. QED BY <2>1, <2>2, <2>3 DEF RequestStep
<1>6. CASE \E w \in Workers, s \in Slots : TaskStep(w, s)
  <2>1. PICK w \in Workers, s \in Slots : TaskStep(w, s)
    BY <1>6
  <2>2. CASE Transcoded(w, s)
    BY <2>2, ModerationAssumption DEF Transcoded, RowsWritten, Unreleased
  <2>3. CASE BackToProcessing(w, s) \/ BackToDraft(w, s)
    BY <2>3 DEF BackToProcessing, BackToDraft, RowsWritten, Unreleased
  <2>4. CASE \/ MarkRunning(w, s) \/ MarkRunningFails(w, s) \/ TranscodeFails(w, s)
             \/ Complete(w, s) \/ CompleteFails(w, s)
    BY <1>1, <2>4 DEF MarkRunning, MarkRunningFails, TranscodeFails, Complete, CompleteFails,
                      catalogVars
  <2>5. CASE \/ Ack(w, s) \/ Lookup(w, s) \/ ResetJob(w, s) \/ FailJob(w, s)
             \/ ScheduleRetry(w, s) \/ Bury(w, s) \/ Leave(w, s)
    BY <1>1, <2>5 DEF Ack, Lookup, ResetJob, FailJob, ScheduleRetry, Bury, Leave, catalogVars
  <2>6. QED BY <2>1, <2>2, <2>3, <2>4, <2>5 DEF TaskStep
<1>7. CASE \E a \in Admins : AdminStep(a)
  <2>1. PICK a \in Admins : AdminStep(a)
    BY <1>7
  <2>2. CASE DlqMark(a)
    BY <2>2 DEF DlqMark, RowsWritten, Unreleased, workerVars
  <2>3. CASE DlqRemove(a) \/ DlqEnqueue(a)
    BY <1>1, <2>3 DEF DlqRemove, DlqEnqueue, workerVars, catalogVars
  <2>4. QED BY <2>1, <2>2, <2>3 DEF AdminStep
<1>8. CASE \E j \in JobIds : BecomeDue(j) \/ Expire(j)
  BY <1>1, <1>8 DEF BecomeDue, Expire, workerVars, catalogVars
<1>9. QED BY <1>2, <1>3, <1>4, <1>5, <1>6, <1>7, <1>8 DEF Work

\* With moderation the pipeline releases nothing.
LEMMA WorkReleasesNothing ==
  ASSUME TypeInv, Work, NEW t \in Tracks
  PROVE  Live(t)' => Live(t)
BY WorkEffects DEF RowsWritten, Unreleased, UpdateStatus, Live, TypeInv, TrackType

\* A sweep stops owing, or being sure to pay.
LEMMA SweepOwesLess ==
  ASSUME TypeInv, TypeInv', ModerationType, ModerationType', Counted, NEW t \in Tracks, Ledger(t),
         Telling(t)' = Telling(t), now'[t] = now[t], notices'[t] = notices[t],
         releases'[t] = releases[t],
         Sweeping(t)' \subseteq Sweeping(t),
         NEW w, Sure(t) \ {w} \subseteq Sure(t)',
         w \in Sure(t) => w \in Sure(t)' \/ Losses' >= Losses + 1
  PROVE  Ledger(t)'
<1>1. Countable(t) /\ Countable(t)'
  BY Counts
<1>2. Losses' >= Losses /\ Losses \in Nat /\ Losses' \in Nat
  BY LossGrows, LossType
<1>3. Cardinality(Sweeping(t)') <= Cardinality(Sweeping(t))
  BY <1>1, FS_Subset DEF Countable
<1>4. Cardinality(Sure(t)) + Losses <= Cardinality(Sure(t)') + Losses'
  <2>1. CASE Sure(t) \subseteq Sure(t)'
    <3>1. Cardinality(Sure(t)) <= Cardinality(Sure(t)')
      BY <1>1, <2>1, FS_Subset DEF Countable
    <3>2. Cardinality(Sure(t)) \in Nat /\ Cardinality(Sure(t)') \in Nat
      BY <1>1 DEF Countable
    <3>3. QED BY <1>2, <3>1, <3>2
  <2>2. CASE ~(Sure(t) \subseteq Sure(t)')
    <3>1. w \in Sure(t) /\ w \notin Sure(t)'
      BY <2>2
    <3>2. Losses' >= Losses + 1
      BY <3>1
    <3>3. Cardinality(Sure(t) \ {w}) = Cardinality(Sure(t)) - 1
      BY <1>1, <3>1, FS_RemoveElement DEF Countable
    <3>4. Cardinality(Sure(t) \ {w}) <= Cardinality(Sure(t)')
      BY <1>1, FS_Subset DEF Countable
    <3>5. Cardinality(Sure(t)) \in Nat /\ Cardinality(Sure(t)') \in Nat
      BY <1>1 DEF Countable
    <3>6. QED BY <1>2, <3>2, <3>3, <3>4, <3>5
  <2>3. QED BY <2>1, <2>2
<1>5. Cardinality(Telling(t)') = Cardinality(Telling(t)) /\ Creating(t)' = Creating(t)
  BY DEF Creating
<1>6. /\ Cardinality(Telling(t)) \in Nat /\ Creating(t) \in Nat
      /\ Cardinality(Sweeping(t)) \in Nat /\ Cardinality(Sure(t)) \in Nat
      /\ Cardinality(Sweeping(t)') \in Nat /\ Cardinality(Sure(t)') \in Nat
      /\ notices[t] \in Nat /\ releases[t] \in Nat
  BY <1>1 DEF Countable, ModerationType, RecordType
<1>7. QED BY <1>2, <1>3, <1>4, <1>5, <1>6 DEF Ledger

LEMMA LedgerWork ==
  ASSUME TypeInv, TypeInv', ModerationType, ModerationType', NEW t \in Tracks, Ledger(t),
         PipelineWork
  PROVE  Ledger(t)'
<1>1. Counted /\ Work
  BY CountedStep DEF PipelineWork, Next
<1>2. releases'[t] = releases[t]
  BY <1>1, WorkReleasesNothing DEF PipelineWork, CountReleases, ModerationType, RecordType
<1>3. UNCHANGED <<mod, now, sweep, notices>>
  BY DEF PipelineWork
<1>4. Telling(t)' = Telling(t) /\ Sweeping(t)' = Sweeping(t)
  BY <1>3 DEF Telling, Sweeping
<1>5. CASE UNCHANGED term
  <2>1. Sure(t)' = Sure(t)
    BY <1>4, <1>5 DEF Sure
  <2>2. QED BY <1>1, <1>2, <1>3, <1>4, <2>1, LedgerStays
<1>6. CASE \E w \in Workers : Signal(w)
  <2>1. PICK w \in Workers : Signal(w)
    BY <1>6
  <2>2. Sure(t) \ {w} \subseteq Sure(t)'
    BY <1>4, <2>1 DEF Sure, Sweeping, Signal, TypeInv, LoopType
  <2>3. Losses' = Losses + 1
    BY <1>1, <2>1, LossGrows DEF Signal
  <2>4. Losses \in Nat /\ Losses' >= Losses + 1
    BY <2>3, LossType
  <2>5. QED BY <1>1, <1>2, <1>3, <1>4, <2>2, <2>4, SweepOwesLess
<1>7. QED BY <1>1, <1>5, <1>6, WorkEffects

\* The end of a worker ends its sweep: it was told to stop, or it crashed.
LEMMA LedgerEnd ==
  ASSUME TypeInv, TypeInv', ModerationType, ModerationType', DrainInv, NEW t \in Tracks, Ledger(t),
         NEW w \in Workers, PipelineEnd(w)
  PROVE  Ledger(t)'
<1>1. Counted /\ End(w)
  BY CountedStep DEF PipelineEnd, Next
<1>2. UNCHANGED <<mod, now, notices, releases>> /\ sweep' = [sweep EXCEPT ![w] = IdleSweep]
  BY DEF PipelineEnd
<1>3. term' = [term EXCEPT ![w] = FALSE]
  BY <1>1 DEF End, Exit, Stop, RequeuePush, Crash, WorkerRestart
<1>4. Telling(t)' = Telling(t)
  BY <1>2 DEF Telling
<1>5. \A v \in Workers \ {w} : sweep'[v] = sweep[v] /\ term'[v] = term[v]
  BY <1>2, <1>3 DEF ModerationType, SweepType, TypeInv, LoopType
<1>6. sweep'[w].pc = "waiting"
  BY <1>2 DEF ModerationType, SweepType, IdleSweep
<1>7. Sweeping(t)' \subseteq Sweeping(t) /\ Sure(t) \ {w} \subseteq Sure(t)'
  BY <1>5, <1>6 DEF Sweeping, Sure
<1>8. w \in Sure(t) => Losses' >= Losses + 1
  <2>1. CASE Exit(w)
    BY <2>1 DEF Exit, Stop, RequeuePush, DrainInv, Sure, Sweeping
  <2>2. CASE Crash(w)
    <3>1. Spend("crash") \/ Spend("error")
      BY <2>2 DEF Crash
    <3>2. Losses' = Losses + 1
      BY <1>1, <3>1, LossGrows
    <3>3. QED BY <3>2, LossType
  <2>3. QED BY <1>1, <2>1, <2>2 DEF End
<1>9. QED BY <1>1, <1>2, <1>4, <1>7, <1>8, SweepOwesLess

\* A moderator's call: AdminPublish releases, and the notifier tells.
LEMMA LedgerDeed ==
  ASSUME TypeInv, TypeInv', ModerationType, ModerationType', Counted, NEW t \in Tracks, Ledger(t),
         NEW m \in Moderators, Deed(m)
  PROVE  Ledger(t)'
<1>1. UNCHANGED <<now, sweep, term>>
  BY DEF Deed, ModeratorStep, Approve, Reject, PublishLoad, PublishWrite, PublishConflict,
         PublishNotify, PublishAborts, vars, workerVars, pipelineRest, pipelineKept
<1>2. Sweeping(t)' = Sweeping(t) /\ Sure(t)' = Sure(t) /\ Creating(t)' = Creating(t)
  BY <1>1 DEF Sweeping, Sure, Creating
<1>3. \A i \in Moderators \ {m} : mod'[i] = mod[i]
  BY DEF Deed, ModeratorStep, Approve, Reject, PublishLoad, PublishWrite, PublishConflict,
         PublishNotify, PublishAborts, ModerationType, ModType
<1>4. Countable(t) /\ Losses' >= Losses /\ Losses \in Nat /\ Losses' \in Nat
  BY Counts, LossGrows, LossType
<1>5. /\ Cardinality(Telling(t)) \in Nat /\ Creating(t) \in Nat
      /\ Cardinality(Sweeping(t)) \in Nat /\ Cardinality(Sure(t)) \in Nat
      /\ notices[t] \in Nat /\ releases[t] \in Nat
  BY <1>4 DEF Countable, ModerationType, RecordType
<1>6. CASE PublishWrite(m)
  <2>1. mod[m].pc = "loaded" /\ mod'[m] = [pc |-> "published", track |-> mod[m].track]
    BY <1>6 DEF PublishWrite, ModerationType, ModType
  <2>2. UNCHANGED notices /\ CountReleases /\ AdminPublish(mod[m].track)
    BY <1>6 DEF PublishWrite
  <2>3. CASE mod[m].track = t
    <3>1. Telling(t)' = Telling(t) \cup {m} /\ m \notin Telling(t)
      BY <1>3, <2>1, <2>3 DEF Telling
    <3>2. Cardinality(Telling(t))' = Cardinality(Telling(t)) + 1
      BY <1>4, <3>1, OneMore DEF Countable
    <3>3. Live(t)' /\ ~Live(t)
      BY <2>2, <2>3 DEF AdminPublish, Live, TypeInv, TrackType
    <3>4. releases'[t] = releases[t] + 1
      BY <2>2, <3>3 DEF CountReleases
    <3>5. QED BY <1>2, <1>4, <1>5, <2>2, <3>2, <3>4 DEF Ledger
  <2>4. CASE mod[m].track # t
    <3>1. Telling(t)' = Telling(t)
      BY <1>3, <2>1, <2>4 DEF Telling
    <3>2. releases'[t] = releases[t]
      BY <2>2, <2>4 DEF AdminPublish, CountReleases, Live, TypeInv, TrackType
    <3>3. QED BY <1>1, <1>2, <2>2, <3>1, <3>2, LedgerStays
  <2>5. QED BY <2>3, <2>4
<1>7. CASE PublishNotify(m)
  <2>1. /\ mod[m].pc = "published" /\ mod'[m] = IdleMod /\ mod[m].track \in Tracks
        /\ mod[m] \in [pc : ModPc, track : SomeTrack]
    BY <1>7 DEF PublishNotify, ModerationType, ModType
  <2>2. UNCHANGED releases /\ Notify(mod[m].track)
    BY <1>7 DEF PublishNotify
  <2>3. CASE mod[m].track = t
    <3>1. Telling(t)' = Telling(t) \ {m} /\ m \in Telling(t)
      BY <1>3, <2>1, <2>3 DEF Telling, IdleMod
    <3>2. Cardinality(Telling(t))' = Cardinality(Telling(t)) - 1
      BY <1>4, <3>1, OneLess DEF Countable
    <3>3. notices'[t] = notices[t] + 1
      BY <2>2, <2>3 DEF Notify, ModerationType, RecordType
    <3>4. QED BY <1>2, <1>4, <1>5, <2>2, <3>2, <3>3 DEF Ledger
  <2>4. CASE mod[m].track # t
    <3>1. Telling(t)' = Telling(t)
      BY <1>3, <2>1, <2>4 DEF Telling, IdleMod
    <3>2. notices'[t] = notices[t]
      BY <2>2, <2>4 DEF Notify, ModerationType, RecordType
    <3>3. QED BY <1>1, <1>2, <2>2, <3>1, <3>2, LedgerStays
  <2>5. QED BY <2>3, <2>4
<1>8. CASE PublishAborts(m)
  <2>1. UNCHANGED <<releases, notices>> /\ mod'[m] = IdleMod /\ Spend("apiFault")
    BY <1>8 DEF PublishAborts, ModerationType, ModType
  <2>2. Telling(t)' = Telling(t) \ {m}
    BY <1>3, <2>1 DEF Telling, IdleMod
  <2>3. Losses' = Losses + 1
    BY <2>1, LossGrows
  <2>4. CASE m \in Telling(t)
    <3>1. Cardinality(Telling(t))' = Cardinality(Telling(t)) - 1
      BY <1>4, <2>2, <2>4, OneLess DEF Countable
    <3>2. QED BY <1>2, <1>4, <1>5, <2>1, <2>3, <3>1 DEF Ledger
  <2>5. CASE m \notin Telling(t)
    <3>1. Telling(t)' = Telling(t)
      BY <2>2, <2>5
    <3>2. QED BY <1>1, <1>2, <2>1, <3>1, LedgerStays
  <2>6. QED BY <2>4, <2>5
<1>9. CASE PublishConflict(m) \/ \E u \in Tracks : Approve(m, u) \/ Reject(m, u) \/ PublishLoad(m, u)
  <2>1. UNCHANGED <<releases, notices>> /\ mod[m].pc # "published" /\ mod'[m].pc # "published"
    <3>1. CASE PublishConflict(m)
      BY <3>1 DEF PublishConflict, IdleMod, ModerationType, ModType
    <3>2. ASSUME NEW u \in Tracks, Approve(m, u) \/ Reject(m, u)
          PROVE  UNCHANGED <<releases, notices>> /\ mod[m].pc = "idle" /\ mod'[m].pc = "idle"
      BY <3>2 DEF Approve, Reject
    <3>3. ASSUME NEW u \in Tracks, PublishLoad(m, u)
          PROVE  UNCHANGED <<releases, notices>> /\ mod[m].pc = "idle" /\ mod'[m].pc = "loaded"
      BY <3>3 DEF PublishLoad, ModerationType, ModType
    <3>4. QED BY <1>9, <3>1, <3>2, <3>3
  <2>2. Telling(t)' = Telling(t)
    BY <1>3, <2>1 DEF Telling
  <2>3. QED BY <1>1, <1>2, <2>1, <2>2, LedgerStays
<1>10. QED BY <1>6, <1>7, <1>8, <1>9 DEF Deed, ModeratorStep

\* A creator's call: CreatorPublishNow releases, and the notifier tells.
LEMMA LedgerCreator ==
  ASSUME TypeInv, TypeInv', ModerationType, ModerationType', Counted, NEW t \in Tracks, Ledger(t),
         NEW u \in Tracks, CreatorDeed(u)
  PROVE  Ledger(t)'
<1>1. UNCHANGED <<mod, sweep, term>>
  BY DEF CreatorDeed, SchedulePublish, ScheduleDue, PublishNow, PublishNowNotify, PublishNowAborts,
         vars, moderationVars, workerVars, pipelineRest, pipelineKept
<1>2. Telling(t)' = Telling(t) /\ Sweeping(t)' = Sweeping(t) /\ Sure(t)' = Sure(t)
  BY <1>1 DEF Telling, Sweeping, Sure
<1>3. /\ Countable(t) /\ Losses' >= Losses /\ Losses \in Nat /\ Losses' \in Nat
      /\ notices[t] \in Nat /\ releases[t] \in Nat
  BY Counts, LossGrows, LossType DEF ModerationType, RecordType
<1>4. /\ Cardinality(Telling(t)) \in Nat /\ Creating(t) \in Nat
      /\ Cardinality(Sweeping(t)) \in Nat /\ Cardinality(Sure(t)) \in Nat
      /\ Cardinality(Telling(t))' = Cardinality(Telling(t))
      /\ Cardinality(Sweeping(t))' = Cardinality(Sweeping(t))
      /\ Cardinality(Sure(t))' = Cardinality(Sure(t))
  BY <1>2, <1>3 DEF Countable
<1>5. CASE PublishNow(u)
  <2>1. now[u] = "idle" /\ now' = [now EXCEPT ![u] = "published"]
    BY <1>5 DEF PublishNow
  <2>2. UNCHANGED notices /\ CountReleases /\ CreatorPublishNow(u)
    BY <1>5 DEF PublishNow
  <2>3. CASE u = t
    <3>1. Creating(t) = 0 /\ Creating(t)' = 1
      BY <2>1, <2>3 DEF Creating, ModerationType, NowType
    <3>2. Live(t)' /\ ~Live(t)
      BY <2>2, <2>3 DEF CreatorPublishNow, Live, TypeInv, TrackType
    <3>3. releases'[t] = releases[t] + 1
      BY <2>2, <3>2 DEF CountReleases
    <3>4. QED BY <1>3, <1>4, <2>2, <3>1, <3>3 DEF Ledger
  <2>4. CASE u # t
    <3>1. now'[t] = now[t]
      BY <2>1, <2>4 DEF ModerationType, NowType
    <3>2. releases'[t] = releases[t]
      BY <2>2, <2>4 DEF CreatorPublishNow, CountReleases, Live, TypeInv, TrackType
    <3>3. QED BY <1>2, <2>2, <3>1, <3>2, LedgerStays
  <2>5. QED BY <2>3, <2>4
<1>6. CASE PublishNowNotify(u)
  <2>1. now[u] = "published" /\ now' = [now EXCEPT ![u] = "idle"] /\ UNCHANGED releases /\ Notify(u)
    BY <1>6 DEF PublishNowNotify
  <2>2. CASE u = t
    <3>1. Creating(t) = 1 /\ Creating(t)' = 0
      BY <2>1, <2>2 DEF Creating, ModerationType, NowType
    <3>2. notices'[t] = notices[t] + 1
      BY <2>1, <2>2 DEF Notify, ModerationType, RecordType
    <3>3. QED BY <1>3, <1>4, <2>1, <3>1, <3>2 DEF Ledger
  <2>3. CASE u # t
    <3>1. now'[t] = now[t] /\ notices'[t] = notices[t]
      BY <2>1, <2>3 DEF Notify, ModerationType, NowType, RecordType
    <3>2. QED BY <1>2, <2>1, <3>1, LedgerStays
  <2>4. QED BY <2>2, <2>3
<1>7. CASE PublishNowAborts(u)
  <2>1. /\ now[u] = "published" /\ now' = [now EXCEPT ![u] = "idle"]
        /\ UNCHANGED <<releases, notices>> /\ Spend("apiFault")
    BY <1>7 DEF PublishNowAborts
  <2>2. Losses' = Losses + 1
    BY <1>3, <2>1, LossGrows
  <2>3. CASE u = t
    <3>1. Creating(t) = 1 /\ Creating(t)' = 0
      BY <2>1, <2>3 DEF Creating, ModerationType, NowType
    <3>2. QED BY <1>3, <1>4, <2>1, <2>2, <3>1 DEF Ledger
  <2>4. CASE u # t
    <3>1. now'[t] = now[t]
      BY <2>1, <2>4 DEF ModerationType, NowType
    <3>2. QED BY <1>2, <2>1, <3>1, LedgerStays
  <2>5. QED BY <2>3, <2>4
<1>8. CASE SchedulePublish(u) \/ ScheduleDue(u)
  <2>1. UNCHANGED <<now, releases, notices>>
    BY <1>8 DEF SchedulePublish, ScheduleDue, moderationVars
  <2>2. QED BY <1>2, <2>1, LedgerStays
<1>9. QED BY <1>5, <1>6, <1>7, <1>8 DEF CreatorDeed

\* A sweep: PublishScheduledTrack releases, and the notifier tells, but for the shutdown.
LEMMA LedgerSweep ==
  ASSUME TypeInv, TypeInv', ModerationType, ModerationType', Counted, NEW t \in Tracks, Ledger(t),
         NEW w \in Workers, SweepDeed(w)
  PROVE  Ledger(t)'
<1>1. UNCHANGED <<mod, now, term>>
  BY DEF SweepDeed, SweepStep, SweepList, SweepPublish, SweepSkip, SweepNotify, SweepFails,
         vars, workerVars, pipelineRest, pipelineKept
<1>2. Telling(t)' = Telling(t) /\ Creating(t)' = Creating(t)
  BY <1>1 DEF Telling, Creating
<1>3. \A v \in Workers \ {w} : sweep'[v] = sweep[v]
  BY DEF SweepDeed, SweepStep, SweepList, SweepPublish, SweepSkip, SweepNotify, SweepFails,
         SweepNext, ModerationType, SweepType
<1>4. /\ Countable(t) /\ Losses' >= Losses /\ Losses \in Nat /\ Losses' \in Nat
      /\ notices[t] \in Nat /\ releases[t] \in Nat
  BY Counts, LossGrows, LossType DEF ModerationType, RecordType
<1>5. /\ Cardinality(Telling(t)) \in Nat /\ Creating(t) \in Nat
      /\ Cardinality(Sweeping(t)) \in Nat /\ Cardinality(Sure(t)) \in Nat
      /\ Cardinality(Telling(t))' = Cardinality(Telling(t))
  BY <1>2, <1>4 DEF Countable
<1>6. ASSUME sweep'[w].pc # "notifying"
      PROVE  Sweeping(t)' = Sweeping(t) \ {w} /\ Sure(t)' = Sure(t) \ {w}
  BY <1>1, <1>3, <1>6 DEF Sweeping, Sure
<1>7. ASSUME NEW u \in Tracks, SweepNext(w, u)
      PROVE  sweep'[w].pc # "notifying"
  BY <1>7 DEF SweepNext, ModerationType, SweepType
<1>8. CASE \E u \in Tracks : SweepPublish(w, u)
  <2>1. PICK u \in Tracks : SweepPublish(w, u)
    BY <1>8
  <2>2. /\ sweep[w].pc = "sweeping" /\ ~term[w] /\ UNCHANGED notices
        /\ CountReleases /\ PublishScheduledTrack(u)
        /\ sweep' = [sweep EXCEPT ![w].pc = "notifying", ![w].track = u]
    BY <2>1 DEF SweepPublish
  <2>3. sweep'[w].pc = "notifying" /\ sweep'[w].track = u
    BY <2>2 DEF ModerationType, SweepType
  <2>4. CASE u = t
    <3>1. /\ Sweeping(t)' = Sweeping(t) \cup {w} /\ w \notin Sweeping(t)
          /\ Sure(t)' = Sure(t) \cup {w} /\ w \notin Sure(t)
      BY <1>1, <1>3, <2>2, <2>3, <2>4 DEF Sweeping, Sure
    <3>2. /\ Cardinality(Sweeping(t))' = Cardinality(Sweeping(t)) + 1
          /\ Cardinality(Sure(t))' = Cardinality(Sure(t)) + 1
      BY <1>4, <3>1, OneMore DEF Countable
    <3>3. Live(t)' /\ ~Live(t)
      BY <2>2, <2>4 DEF PublishScheduledTrack, Live, TypeInv, TrackType
    <3>4. releases'[t] = releases[t] + 1
      BY <2>2, <3>3 DEF CountReleases
    <3>5. QED BY <1>2, <1>4, <1>5, <2>2, <3>2, <3>4 DEF Ledger
  <2>5. CASE u # t
    <3>1. Sweeping(t)' = Sweeping(t) /\ Sure(t)' = Sure(t)
      BY <1>1, <1>3, <2>2, <2>3, <2>5 DEF Sweeping, Sure
    <3>2. releases'[t] = releases[t]
      BY <2>2, <2>5 DEF PublishScheduledTrack, CountReleases, Live, TypeInv, TrackType
    <3>3. QED BY <1>1, <1>2, <2>2, <3>1, <3>2, LedgerStays
  <2>6. QED BY <2>4, <2>5
<1>9. CASE SweepNotify(w)
  <2>1. /\ sweep[w].pc = "notifying" /\ sweep[w].track \in Tracks /\ UNCHANGED releases
        /\ (IF term[w] THEN UNCHANGED notices ELSE Notify(sweep[w].track))
        /\ SweepNext(w, sweep[w].track)
    BY <1>9 DEF SweepNotify, ModerationType, SweepType
  <2>2. sweep'[w].pc # "notifying"
    BY <1>7, <2>1
  <2>3. Sweeping(t)' = Sweeping(t) \ {w} /\ Sure(t)' = Sure(t) \ {w}
    BY <1>6, <2>2
  <2>4. CASE term[w]
    <3>1. w \notin Sure(t) /\ Sure(t) \ {w} \subseteq Sure(t)' /\ Sweeping(t)' \subseteq Sweeping(t)
      BY <2>3, <2>4 DEF Sure
    <3>2. QED BY <1>1, <1>2, <2>1, <2>4, <3>1, SweepOwesLess
  <2>5. CASE ~term[w] /\ sweep[w].track = t
    <3>1. w \in Sweeping(t) /\ w \in Sure(t)
      BY <2>1, <2>5 DEF Sweeping, Sure
    <3>2. /\ Cardinality(Sweeping(t))' = Cardinality(Sweeping(t)) - 1
          /\ Cardinality(Sure(t))' = Cardinality(Sure(t)) - 1
      BY <1>4, <2>3, <3>1, OneLess DEF Countable
    <3>3. notices'[t] = notices[t] + 1
      BY <2>1, <2>5 DEF Notify, ModerationType, RecordType
    <3>4. QED BY <1>2, <1>4, <1>5, <2>1, <3>2, <3>3 DEF Ledger
  <2>6. CASE ~term[w] /\ sweep[w].track # t
    <3>1. Sweeping(t)' = Sweeping(t) /\ Sure(t)' = Sure(t)
      BY <2>3, <2>6 DEF Sweeping, Sure
    <3>2. notices'[t] = notices[t]
      BY <2>1, <2>6 DEF Notify, ModerationType, RecordType
    <3>3. QED BY <1>1, <1>2, <2>1, <3>1, <3>2, LedgerStays
  <2>7. QED BY <2>4, <2>5, <2>6
<1>10. CASE \E u \in Tracks : SweepFails(w, u)
  <2>1. PICK u \in Tracks : SweepFails(w, u)
    BY <1>10
  <2>2. UNCHANGED <<releases, notices>> /\ Spend("error") /\ SweepNext(w, u)
    BY <2>1 DEF SweepFails
  <2>3. Losses' = Losses + 1
    BY <2>2, LossGrows
  <2>4. Losses' >= Losses + 1
    BY <1>4, <2>3
  <2>5. Sweeping(t)' = Sweeping(t) \ {w} /\ Sure(t)' = Sure(t) \ {w}
    BY <1>6, <1>7, <2>2
  <2>6. Sure(t) \ {w} \subseteq Sure(t)' /\ Sweeping(t)' \subseteq Sweeping(t)
    BY <2>5
  <2>7. QED BY <1>1, <1>2, <2>2, <2>4, <2>6, SweepOwesLess
<1>11. CASE SweepList(w) \/ \E u \in Tracks : SweepSkip(w, u)
  <2>1. UNCHANGED <<releases, notices>> /\ sweep[w].pc # "notifying"
    BY <1>11 DEF SweepList, SweepSkip
  <2>2. CASE SweepList(w)
    <3>1. sweep'[w].pc = "sweeping"
      BY <2>2 DEF SweepList, ModerationType, SweepType
    <3>2. QED BY <1>6, <3>1, <2>1, <1>1, <1>2, LedgerStays DEF Sweeping, Sure
  <2>3. CASE \E u \in Tracks : SweepSkip(w, u)
    <3>1. sweep'[w].pc # "notifying"
      BY <1>7, <2>3 DEF SweepSkip
    <3>2. Sweeping(t)' = Sweeping(t) /\ Sure(t)' = Sure(t)
      BY <1>6, <2>1, <3>1 DEF Sweeping, Sure
    <3>3. QED BY <1>1, <1>2, <2>1, <3>2, LedgerStays
  <2>4. QED BY <1>11, <2>2, <2>3
<1>12. QED BY <1>8, <1>9, <1>10, <1>11 DEF SweepDeed, SweepStep

\* The ledger of every track, through every step.
LedgerInv == DrainInv /\ \A t \in Tracks : Ledger(t)

LEMMA LedgerStep ==
  ASSUME TypeInv, TypeInv', ModerationType, ModerationType', LedgerInv,
         [ModerationNext]_allVars
  PROVE  LedgerInv'
<1>1. CASE PipelineWork
  <2>1. [Next]_vars /\ DrainInv
    BY <1>1 DEF PipelineWork, Next, LedgerInv
  <2>2. QED BY <1>1, <2>1, DrainStep, LedgerWork DEF LedgerInv
<1>2. CASE \E w \in Workers : PipelineEnd(w)
  <2>1. [Next]_vars /\ DrainInv
    BY <1>2 DEF PipelineEnd, Next, LedgerInv
  <2>2. QED BY <1>2, <2>1, DrainStep, LedgerEnd DEF LedgerInv
<1>3. ASSUME OwnStep
      PROVE  DrainInv' /\ Counted
  BY <1>3 DEF LedgerInv, DrainInv, OwnStep, workerVars
<1>4. CASE \E m \in Moderators : Deed(m)
  BY <1>3, <1>4, DeedIsOwn, LedgerDeed DEF LedgerInv
<1>5. CASE \E u \in Tracks : CreatorDeed(u)
  BY <1>3, <1>5, CreatorIsOwn, LedgerCreator DEF LedgerInv
<1>6. CASE \E w \in Workers : SweepDeed(w)
  BY <1>3, <1>6, SweepIsOwn, LedgerSweep DEF LedgerInv
<1>7. CASE UNCHANGED allVars
  <2>1. UNCHANGED <<loop, term, mod, now, sweep, releases, notices, spent>>
    BY <1>7 DEF allVars, vars, moderationVars, workerVars
  <2>2. DrainInv' /\ Counted
    BY <2>1 DEF LedgerInv, DrainInv, Counted
  <2>3. ASSUME NEW t \in Tracks
        PROVE  /\ Telling(t)' = Telling(t) /\ Sweeping(t)' = Sweeping(t) /\ Sure(t)' = Sure(t)
               /\ now'[t] = now[t] /\ notices'[t] = notices[t] /\ releases'[t] = releases[t]
    BY <2>1 DEF Telling, Sweeping, Sure
  <2>4. QED BY <2>2, <2>3, LedgerStays DEF LedgerInv
<1>8. QED BY <1>1, <1>2, <1>4, <1>5, <1>6, <1>7, NextCases

LEMMA LedgerStart ==
  ASSUME ModerationInit
  PROVE  LedgerInv
<1>1. DrainInv
  BY DEF ModerationInit, Init, DrainInv
<1>2. ASSUME NEW t \in Tracks
      PROVE  Ledger(t)
  <2>1. Telling(t) = {} /\ Sweeping(t) = {} /\ Sure(t) = {}
    BY DEF ModerationInit, Telling, Sweeping, Sure, IdleMod, IdleSweep
  <2>2. Creating(t) = 0 /\ notices[t] = 0 /\ releases[t] = 0
    BY DEF ModerationInit, Creating
  <2>3. Losses = 0
    BY DEF ModerationInit, Init, Losses, Disturbances
  <2>4. Cardinality({}) = 0
    BY FS_EmptySet
  <2>5. QED BY <2>1, <2>2, <2>3, <2>4 DEF Ledger
<1>3. QED BY <1>1, <1>2 DEF LedgerInv

\* The followers of a track are told at most once for each time it went live,
\* whoever of the moderators, the creator and the sweeps of the workers released
\* it, and once, but for the processes that died and the queries that failed:
\* for any number of tracks, moderators and workers, and any faults.
THEOREM OneNotice == ModerationSpec => []OneNoticePerRelease
<1>1. ModerationInit => LedgerInv
  BY LedgerStart
<1>2. TypeInv /\ TypeInv' /\ ModerationType /\ ModerationType' /\ LedgerInv
      /\ [ModerationNext]_allVars => LedgerInv'
  BY LedgerStep
<1>3. TypeInv /\ ModerationType /\ LedgerInv => OneNoticePerRelease
  <2>1. SUFFICES ASSUME TypeInv, ModerationType, LedgerInv, NEW t \in Tracks
                 PROVE  /\ notices[t] + Owed(t) <= releases[t]
                        /\ releases[t] <= notices[t] + Owed(t) + Losses
    BY DEF OneNoticePerRelease
  <2>2. /\ Ledger(t) /\ Countable(t) /\ Losses \in Nat
        /\ notices[t] \in Nat /\ releases[t] \in Nat
    BY <2>1, Counts DEF LedgerInv, ModerationType, RecordType, TypeInv, HistoryType,
                        Disturbances, Losses
  <2>3. Owed(t) = Cardinality(Telling(t)) + Creating(t) + Cardinality(Sweeping(t))
    BY DEF Owed, Telling, Creating, Sweeping
  <2>4. QED BY <2>2, <2>3 DEF Ledger, Countable
<1>4. QED BY <1>1, <1>2, <1>3, ModerationTypeCorrect, PTL DEF ModerationSpec

-----------------------------------------------------------------------------
(* The invariants of the pipeline hold of the whole. *)

PipelineInv ==
  /\ TypeInv /\ SafeInv /\ CalmInv /\ BaseInv /\ PlaceInv /\ RowTrack /\ SpentWithin

LEMMA WithinStep ==
  ASSUME TypeInv, SpentWithin, Counted
  PROVE  SpentWithin'
<1>1. CASE UNCHANGED spent
  BY <1>1 DEF SpentWithin
<1>2. CASE \E d \in Disturbances : Spend(d)
  <2>1. PICK d \in Disturbances : Spend(d)
    BY <1>2
  <2>2. \A e \in Disturbances : spent'[e] = IF e = d THEN spent[d] + 1 ELSE spent[e]
    BY <2>1 DEF Spend, TypeInv, HistoryType
  <2>3. spent[d] \in Nat /\ Limit[d] \in Nat /\ spent[d] < Limit[d]
    BY <2>1, PipelineAssumption DEF Spend, TypeInv, HistoryType
  <2>4. spent[d] + 1 <= Limit[d]
    BY <2>3
  <2>5. QED BY <2>2, <2>4 DEF SpentWithin
<1>3. QED BY <1>1, <1>2 DEF Counted

LEMMA PipelineKeeps ==
  ASSUME PipelineInv, TypeInv', [Next]_vars
  PROVE  PipelineInv'
<1>1. SafeInv' /\ CalmInv'
  BY SafeStep, CalmStep DEF PipelineInv
<1>2. BaseInv' /\ PlaceInv'
  BY BaseStep, PlaceStep DEF PipelineInv
<1>3. RowTrack'
  BY RowTrackStep DEF PipelineInv
<1>4. SpentWithin'
  BY WithinStep, CountedStep DEF PipelineInv
<1>5. QED BY <1>1, <1>2, <1>3, <1>4 DEF PipelineInv

\* They are about the rows of jobs, the keys, the processes and the counts alone.
LEMMA OwnKeeps ==
  ASSUME PipelineInv, TypeInv', OwnStep
  PROVE  PipelineInv'
<1>1. UNCHANGED <<job, pending, processing, overdue, retry, due, dlq, stamp, loop, batch, held,
                  active, term, task, req, adm, fate>>
  BY DEF OwnStep, queueVars, workerVars
<1>2. SpentGrows /\ SpentWithin'
  BY SpendGrows, WithinStep
     DEF OwnStep, Counted, SpentGrows, PipelineInv, TypeInv, HistoryType
<1>3. SafeInv'
  <2>1. KnownInQueue' /\ KnownInLoop' /\ KnownInTask' /\ KnownInAdm'
    BY <1>1 DEF PipelineInv, SafeInv, KnownInQueue, KnownInLoop, KnownInTask, KnownInAdm, Queued,
                Known, Contains, InDLQ
  <2>2. FreshRequests' /\ FinishedRuns'
    BY <1>1 DEF PipelineInv, SafeInv, FreshRequests, FinishedRuns, HasRow, Known
  <2>3. AccountedFor'
    BY <1>1 DEF PipelineInv, SafeInv, AccountedFor, Carried, Queued, Contains, InDLQ, InHands,
                Exposed, InHand, InFailure, Replaying
  <2>4. QED BY <2>1, <2>2, <2>3 DEF SafeInv
<1>4. /\ spent'["signal"] = 0 => spent["signal"] = 0
      /\ FaultFree' => FaultFree
      /\ spent["replay"] > 0 => spent'["replay"] > 0
      /\ (Steady' => Steady) /\ (Calm' => Calm)
  <2>1. \A d \in Disturbances : spent[d] \in Nat /\ spent'[d] \in Nat /\ spent'[d] >= spent[d]
    BY <1>2 DEF SpentGrows, PipelineInv, TypeInv, HistoryType
  <2>2. (Steady' => Steady) /\ (Calm' => Calm)
    BY <1>2, SettingKept DEF PipelineInv, TypeInv
  <2>3. QED BY <2>1, <2>2 DEF FaultFree, Disturbances
<1>5. CalmInv'
  BY <1>1, <1>4 DEF PipelineInv, CalmInv
<1>6. BaseInv'
  BY <1>1, <1>4 DEF PipelineInv, BaseInv, IdleInv, ReplayInv, StaleInv, Running, Runs
<1>7. PlaceInv'
  <2>1. SUFFICES ASSUME Calm'
                 PROVE  InOnePlace'
    BY DEF PlaceInv
  <2>2. InOnePlace
    BY <1>4, <2>1 DEF PipelineInv, PlaceInv
  <2>3. (\A j \in JobIds : Exclusive(j))'
    BY <1>1, <2>2 DEF InOnePlace, Exclusive, Contains, InDLQ, Popped, Running, Runs, Replaying
  <2>4. (OnceInPending /\ OnceInDLQ /\ OnceRunning)'
    BY <1>1, <2>2 DEF InOnePlace, OnceInPending, OnceInDLQ, OnceRunning, Runs
  <2>5. (Acknowledged /\ Batches /\ FoundStays /\ OneReplay)'
    BY <1>1, <2>2 DEF InOnePlace, Acknowledged, Batches, FoundStays, OneReplay, Runs, Contains
  <2>6. QED BY <2>3, <2>4, <2>5 DEF InOnePlace
<1>8. RowTrack'
  BY <1>1 DEF PipelineInv, RowTrack, HasRow
<1>9. QED BY <1>2, <1>3, <1>5, <1>6, <1>7, <1>8 DEF PipelineInv

LEMMA PipelineInvariant == ModerationSpec => []PipelineInv
<1>1. ModerationInit => PipelineInv
  <2>1. SUFFICES ASSUME ModerationInit
                 PROVE  PipelineInv
    OBVIOUS
  <2>2. Init
    BY <2>1 DEF ModerationInit
  <2>3. TypeInv /\ SafeInv /\ CalmInv /\ BaseInv /\ PlaceInv
    BY <2>2, TypeInit, SafeInit, CalmInit, BaseInit, PlaceInit
  <2>4. RowTrack /\ SpentWithin
    BY <2>2, PipelineAssumption DEF Init, CatalogInit, IdleReq, HasRow, RowTrack, SpentWithin
  <2>5. QED BY <2>3, <2>4 DEF PipelineInv
<1>2. PipelineInv /\ TypeInv' /\ ModerationType /\ [ModerationNext]_allVars => PipelineInv'
  BY TwoKinds, PipelineKeeps, OwnKeeps
<1>3. QED BY <1>1, <1>2, ModerationTypeCorrect, PTL DEF ModerationSpec

(* Whatever moderators, creators and sweeps do, a job that was submitted is *)
(* still somewhere, was finished or was dropped by a fault: the pipeline    *)
(* keeps its promise in the composition.                                    *)
THEOREM NothingLostInTheWhole == ModerationSpec => []AccountedFor
<1>1. PipelineInv => AccountedFor
  BY DEF PipelineInv, SafeInv
<1>2. QED BY <1>1, PipelineInvariant, PTL

-----------------------------------------------------------------------------
(* One run, one request and one moderator at a time. *)

\* A single worker whose calls do not fail, requests and reviews one at a time;
\* calls of the API may fail, and its process die, any number of times.
ReviewSetting ==
  /\ OneWorker
  /\ \A a, b \in Requests : a = b
  /\ \A a, b \in Moderators : a = b
  /\ ModeratesFrom \subseteq {"pending_review"}
  /\ \A d \in Disturbances \ {"apiFault"} : Limit[d] = 0

\* Somebody will still write the status of its track for job j.
Pending(j) == \E w \in Workers, s \in Slots : task[w][s].job = j /\ task[w][s].pc \in Ahead
Unsettled(j) == Contains(pending, j) \/ j \in retry \/ Popped(j) \/ Pending(j)

\* No deadline has passed: what is in the set is run.
Quiet == overdue = {} /\ \A j \in JobIds : ~Orphan(j)

\* One unsettled job for a track, which is processing ...
OneToSettle ==
  \A i, j \in JobIds : Unsettled(i) /\ Unsettled(j) /\ job[i].track = job[j].track => i = j
StillProcessing ==
  \A j \in JobIds :
    Unsettled(j) => job[j].track \in Tracks /\ track[job[j].track].status = "processing"

\* ... or the request that will bring it one.
RequestLeads ==
  \A r \in Requests :
    /\ req[r].pc # "idle" => req[r].track \in Tracks
    /\ req[r].pc \in {"checked", "retryChecked", "retryCreated"} =>
         track[req[r].track].status = "draft"
    /\ req[r].pc \in {"marked", "created"} =>
         /\ track[req[r].track].status = "processing"
         /\ \A j \in JobIds : Unsettled(j) => job[j].track # req[r].track

\* What a moderator is about to publish is under review, and was looked at.
LoadedIsReviewed ==
  \A m \in Moderators :
    mod[m].pc = "loaded" =>
      track[mod[m].track].status = "pending_review" /\ reviewed[mod[m].track]

LifeInv ==
  /\ Quiet /\ OneToSettle /\ StillProcessing /\ RequestLeads
  /\ LoadedIsReviewed /\ ReleasedIsReviewed

LEMMA InSetting ==
  ASSUME ReviewSetting, PipelineInv
  PROVE  /\ Calm /\ Steady /\ InOnePlace
         /\ \A d \in Disturbances \ {"apiFault"} : ~Spend(d)
         /\ \A w \in Workers : ~term[w] /\ loop[w] \notin {"draining", "requeue", "requeueing"}
         /\ \A a \in Admins : adm[a].pc = "idle"
<1>1. \A d \in Disturbances \ {"apiFault"} : spent[d] = 0 /\ ~Spend(d)
  BY DEF ReviewSetting, PipelineInv, SpentWithin, TypeInv, HistoryType, Spend
<1>2. {"slow", "error", "signal", "replay"} \subseteq Disturbances \ {"apiFault"}
  BY DEF Disturbances
<1>3. Calm /\ Steady
  BY <1>1, <1>2 DEF ReviewSetting, Calm, Steady
<1>4. InOnePlace
  BY <1>3 DEF PipelineInv, PlaceInv
<1>5. \A w \in Workers : ~term[w] /\ loop[w] \notin {"draining", "requeue", "requeueing"}
  BY <1>1, <1>2 DEF PipelineInv, CalmInv
<1>6. \A a \in Admins : adm[a].pc = "idle"
  BY <1>1, <1>2 DEF PipelineInv, BaseInv, ReplayInv
<1>7. QED BY <1>1, <1>3, <1>4, <1>5, <1>6

\* What the loop does, and what a run does, when nothing disturbs them.
LoopStill(w) == PromoteScan(w) \/ ReclaimScan(w) \/ Acquire(w) \/ PopTimeout(w)
LoopTakes(w) == \E j \in JobIds : PromoteOne(w, j) \/ Pop(w, j)
RunStep(w, s) ==
  \/ MarkRunning(w, s) \/ Transcoded(w, s) \/ TranscodeFails(w, s) \/ Complete(w, s)
  \/ Ack(w, s) \/ Lookup(w, s) \/ ResetJob(w, s) \/ BackToProcessing(w, s) \/ FailJob(w, s)
  \/ BackToDraft(w, s) \/ ScheduleRetry(w, s) \/ Bury(w, s) \/ Leave(w, s)

LEMMA QuietSteps ==
  ASSUME ReviewSetting, PipelineInv, Quiet, Work
  PROVE  \/ \E r \in Requests : RequestMoves(r)
         \/ \E w \in Workers : LoopStill(w) \/ LoopTakes(w) \/ \E s \in Slots : Claim(w, s)
         \/ \E w \in Workers, s \in Slots : RunStep(w, s)
         \/ \E j \in JobIds : BecomeDue(j)
<1>1. /\ ~Spend("error") /\ ~Spend("slow") /\ ~Spend("signal") /\ ~Spend("replay")
      /\ \A w \in Workers : ~term[w] /\ loop[w] \notin {"draining", "requeue", "requeueing"}
      /\ \A a \in Admins : adm[a].pc = "idle"
  BY InSetting DEF Disturbances
<1>2. CASE Arrival
  BY <1>1, <1>2 DEF Arrival, DlqFind, RequestMoves
<1>3. CASE \E r \in Requests : RequestStep(r)
  BY <1>3 DEF RequestMoves
<1>4. CASE \E w \in Workers : LoopMove(w)
  <2>1. PICK w \in Workers : LoopMove(w)
    BY <1>4
  <2>2. ~BeginDrain(w) /\ ~DrainTimeout(w) /\ ~RequeueAck(w) /\ ~ClaimFails(w)
    BY <1>1 DEF BeginDrain, DrainTimeout, RequeueAck, ClaimFails
  <2>3. \A j \in JobIds : ~ReclaimOne(w, j)
    <3>1. loop[w] = "reclaiming" => batch[w] \subseteq {}
      BY InSetting DEF PipelineInv, BaseInv, StaleInv, Quiet
    <3>2. QED BY <3>1 DEF ReclaimOne, Moved
  <2>4. QED BY <2>1, <2>2, <2>3 DEF LoopMove, LoopStill, LoopTakes
<1>5. CASE \E w \in Workers, s \in Slots : TaskStep(w, s)
  BY <1>1, <1>5 DEF TaskStep, RunStep, MarkRunningFails, CompleteFails
<1>6. CASE \E a \in Admins : AdminStep(a)
  BY <1>1, <1>6 DEF AdminStep, DlqRemove, DlqEnqueue, DlqMark
<1>7. CASE \E j \in JobIds : BecomeDue(j) \/ Expire(j)
  <2>1. \A j \in JobIds : ~Expire(j)
    BY <1>1 DEF Expire, Quiet, Orphan
  <2>2. QED BY <1>7, <2>1
<1>8. CASE Fault
  BY <1>1, <1>8
     DEF Fault, RequestMoves, Signal, MoveFails, AckFails, LookupFails, FailureWriteFails,
         EnqueueFails, DlqEnqueueFails, AdminAbort
<1>9. QED BY <1>2, <1>3, <1>4, <1>5, <1>6, <1>7, <1>8 DEF Work

LEMMA NobodyEnds ==
  ASSUME ReviewSetting, PipelineInv, NEW w \in Workers, End(w)
  PROVE  FALSE
BY InSetting DEF End, Exit, Stop, RequeuePush, Crash, Disturbances

\* What a step settles, and what it may write then.
Settles ==
  /\ Quiet' /\ UNCHANGED req
  /\ \A j \in JobIds : Unsettled(j)' => Unsettled(j)
  /\ \A t \in Tracks :
       track'[t].status = track[t].status
       \/ /\ track'[t].status \in {"pending_review", "draft"}
          /\ \E j \in JobIds : Unsettled(j) /\ ~Unsettled(j)' /\ job[j].track = t

\* The main loop moves jobs that are unsettled, and settles none.
LEMMA LoopSettles ==
  ASSUME ReviewSetting, PipelineInv, Quiet, NEW w \in Workers,
         LoopStill(w) \/ LoopTakes(w) \/ \E s \in Slots : Claim(w, s)
  PROVE  Settles
<1>1. /\ InOnePlace /\ TypeInv /\ BaseInv /\ \A v \in Workers : v = w
  BY InSetting, TheWorker DEF PipelineInv, ReviewSetting
<1>2. UNCHANGED <<track, req>>
  BY DEF LoopStill, LoopTakes, PromoteScan, ReclaimScan, Acquire, PopTimeout, PromoteOne, Pop,
         Claim, catalogVars
<1>3. CASE LoopStill(w)
  <2>1. UNCHANGED <<pending, processing, overdue, retry, task>> /\ loop'[w] # "popped"
    BY <1>1, <1>3 DEF LoopStill, PromoteScan, ReclaimScan, Acquire, PopTimeout, queueVars,
                      TypeInv, LoopType
  <2>2. \A j : ~Popped(j)'
    BY <1>1, <2>1 DEF Popped
  <2>3. \A j : Pending(j)' => Pending(j)
    BY <2>1 DEF Pending
  <2>4. Quiet'
    BY <2>1 DEF Quiet, Orphan, Running, Runs
  <2>5. \A j : Contains(pending, j)' => Contains(pending, j)
    BY <2>1 DEF Contains
  <2>6. \A j \in JobIds : Unsettled(j)' => Unsettled(j)
    BY <2>1, <2>2, <2>3, <2>5 DEF Unsettled
  <2>7. QED BY <1>2, <2>4, <2>6 DEF Settles
<1>4. ASSUME NEW x \in JobIds, PromoteOne(w, x)
      PROVE  Settles
  <2>1. /\ LPush(x) /\ retry' = retry \ {x} /\ x \in batch[w] /\ loop[w] = "promoting"
        /\ loop'[w] # "popped" /\ UNCHANGED <<processing, overdue, task>>
    BY <1>1, <1>4 DEF PromoteOne, Moved, PromoteMember, TypeInv, LoopType
  <2>2. x \in retry
    BY <1>1, <2>1 DEF InOnePlace, Batches, TypeInv, QueueTypeOK
  <2>3. \A j : Contains(pending, j)' => Contains(pending, j) \/ j = x
    BY <1>1, <2>1, LPushContains DEF TypeInv
  <2>4. (\A j : ~Popped(j)') /\ (\A j : Pending(j)' => Pending(j))
    BY <1>1, <2>1 DEF Popped, Pending
  <2>5. Quiet'
    BY <2>1 DEF Quiet, Orphan, Running, Runs
  <2>6. \A j \in JobIds : Unsettled(j)' => Unsettled(j)
    BY <2>1, <2>2, <2>3, <2>4 DEF Unsettled
  <2>7. QED BY <1>2, <2>5, <2>6 DEF Settles
<1>5. ASSUME NEW x \in JobIds, Pop(w, x)
      PROVE  Settles
  <2>1. /\ BRPop(x) /\ loop'[w] = "popped" /\ held'[w] = x
        /\ UNCHANGED <<processing, overdue, retry, task>>
    BY <1>1, <1>5 DEF Pop, TypeInv, LoopType
  <2>2. /\ Contains(pending, x)
        /\ \A j : Contains(pending, j)' => Contains(pending, j)
    BY <1>1, <2>1, BRPopContains DEF TypeInv
  <2>3. (\A j : Popped(j)' => j = x) /\ (\A j : Pending(j)' => Pending(j))
    BY <1>1, <2>1 DEF Popped, Pending
  <2>4. Quiet'
    BY <2>1 DEF Quiet, Orphan, Running, Runs
  <2>5. \A j \in JobIds : Unsettled(j)' => Unsettled(j)
    BY <2>1, <2>2, <2>3 DEF Unsettled
  <2>6. QED BY <1>2, <2>4, <2>5 DEF Settles
<1>6. ASSUME NEW s \in Slots, Claim(w, s)
      PROVE  Settles
  <2>1. PICK x : x = held[w]
    OBVIOUS
  <2>2. /\ x \in JobIds /\ loop[w] = "popped" /\ loop'[w] = "promote"
        /\ TaskAt(w, s, "idle") /\ processing' = processing \cup {x}
        /\ overdue' \subseteq overdue
        /\ task' = [task EXCEPT ![w][s] = [pc |-> "start", job |-> x]]
        /\ UNCHANGED <<pending, retry>>
    BY <1>1, <1>6, <2>1 DEF Claim, ZAddProcessing, TypeInv, LoopType
  <2>3. Popped(x)
    BY <2>1, <2>2 DEF Popped
  <2>4. /\ \A v \in Workers, u \in Slots : v # w \/ u # s => task'[v][u] = task[v][u]
        /\ task'[w][s] = [pc |-> "start", job |-> x]
        /\ \A v \in Workers, u \in Slots, j \in JobIds :
             Runs(v, u, j)' <=> Runs(v, u, j) \/ (v = w /\ u = s /\ j = x)
    BY <1>1, <2>2, ClaimRuns DEF BaseInv, TypeInv
  <2>5. (\A j : ~Popped(j)') /\ (\A j : Contains(pending, j)' => Contains(pending, j))
    BY <1>1, <2>2 DEF Popped, Contains
  <2>6. \A j : Pending(j)' => Pending(j) \/ j = x
    BY <2>4 DEF Pending
  <2>7. \A j \in JobIds : Running(j) \/ j = x => Running(j)'
    BY <2>4 DEF Running
  <2>8. Quiet'
    BY <2>2, <2>7 DEF Quiet, Orphan
  <2>9. \A j \in JobIds : Unsettled(j)' => Unsettled(j)
    BY <2>2, <2>3, <2>5, <2>6 DEF Unsettled
  <2>10. QED BY <1>2, <2>8, <2>9 DEF Settles
<1>7. QED BY <1>3, <1>4, <1>5, <1>6 DEF LoopTakes

LEMMA DueSettles ==
  ASSUME Quiet, NEW x \in JobIds, BecomeDue(x)
  PROVE  Settles
BY DEF BecomeDue, Settles, Quiet, Orphan, Running, Runs, Unsettled, Contains, Popped, Pending,
       workerVars, catalogVars

\* A run goes on.
LEMMA GotoSettles ==
  ASSUME TypeInv, InOnePlace, Quiet, NEW w \in Workers, NEW s \in Slots, NEW pc,
         TaskGoto(w, s, pc), task[w][s].pc \notin {"idle", "leaving"},
         pc \in Ahead => task[w][s].pc \in Ahead,
         UNCHANGED <<pending, loop, held>>, overdue' \subseteq overdue,
         \/ UNCHANGED retry
         \/ retry' = retry \cup {task[w][s].job} /\ task[w][s].pc \in Ahead,
         \/ UNCHANGED processing /\ (pc # "leaving" \/ task[w][s].pc \in FailurePc)
         \/ processing' = processing \ {task[w][s].job}
  PROVE  Quiet' /\ \A j \in JobIds : Unsettled(j)' => Unsettled(j)
<1>1. /\ \A v \in Workers, u \in Slots : task'[v][u].job = task[v][u].job
      /\ \A v \in Workers, u \in Slots : v # w \/ u # s => task'[v][u].pc = task[v][u].pc
      /\ task'[w][s].pc = pc
  BY GotoMoves DEF TypeInv
<1>2. PICK x : x = task[w][s].job
  OBVIOUS
<1>3. ASSUME NEW j \in JobIds, j \in processing'
      PROVE  Running(j)'
  <2>1. j \in processing /\ Running(j)
    BY <1>3 DEF Quiet, Orphan
  <2>2. PICK v \in Workers, u \in Slots : Runs(v, u, j)
    BY <2>1 DEF Running
  <2>3. v # w \/ u # s \/ pc # "leaving"
    <3>1. ASSUME v = w, u = s, pc = "leaving"
          PROVE  FALSE
      <4>1. j = x
        BY <1>2, <2>2, <3>1 DEF Runs
      <4>2. task[w][s].pc \in FailurePc
        BY <1>2, <1>3, <3>1, <4>1
      <4>3. QED BY <2>1, <2>2, <3>1, <4>2 DEF InOnePlace, Acknowledged
    <3>2. QED BY <3>1
  <2>4. Runs(v, u, j)'
    BY <1>1, <2>2, <2>3 DEF Runs
  <2>5. QED BY <2>4 DEF Running
<1>4. Quiet'
  BY <1>3 DEF Quiet, Orphan
<1>5. \A j : Pending(j)' => Pending(j)
  BY <1>1 DEF Pending
<1>6. task[w][s].pc \in Ahead => Pending(x)
  BY <1>2 DEF Pending
<1>7. \A j : (Popped(j)' => Popped(j)) /\ (Contains(pending, j)' => Contains(pending, j))
  BY DEF Popped, Contains
<1>8. \A j \in JobIds : Unsettled(j)' => Unsettled(j)
  BY <1>2, <1>5, <1>6, <1>7 DEF Unsettled
<1>9. QED BY <1>4, <1>8

\* Once its run has written the status, nobody else will.
LEMMA RunSettles ==
  ASSUME TypeInv, InOnePlace, NEW w \in Workers, NEW s \in Slots, NEW pc,
         TaskGoto(w, s, pc), task[w][s].pc \in Ahead, pc \notin Ahead,
         task[w][s].job \in JobIds, UNCHANGED <<pending, retry, loop, held>>
  PROVE  Unsettled(task[w][s].job) /\ ~Unsettled(task[w][s].job)'
<1>1. /\ \A v \in Workers, u \in Slots : task'[v][u].job = task[v][u].job
      /\ \A v \in Workers, u \in Slots : v # w \/ u # s => task'[v][u].pc = task[v][u].pc
      /\ task'[w][s].pc = pc
  BY GotoMoves DEF TypeInv
<1>2. PICK x \in JobIds : x = task[w][s].job
  OBVIOUS
<1>3. Pending(x) /\ Runs(w, s, x) /\ Running(x)
  BY <1>2 DEF Pending, Running, Runs, Ahead
<1>4. ~Contains(pending, x) /\ ~Popped(x) /\ x \notin retry
  BY <1>3 DEF InOnePlace, Exclusive
<1>5. ~Contains(pending, x)' /\ ~Popped(x)' /\ x \notin retry'
  BY <1>4 DEF Contains, Popped
<1>6. ~Pending(x)'
  <2>1. ASSUME NEW v \in Workers, NEW u \in Slots, task[v][u].job = x, task[v][u].pc \in Ahead
        PROVE  v = w /\ u = s
    BY <1>3, <2>1 DEF Runs, Ahead, InOnePlace, OnceRunning
  <2>2. QED BY <1>1, <2>1 DEF Pending
<1>7. task'[w][s].job = x
  BY <1>1, <1>2
<1>8. Unsettled(x) /\ ~Unsettled(x)'
  BY <1>3, <1>5, <1>6 DEF Unsettled
<1>9. QED BY <1>2, <1>7, <1>8

\* What a run writes into the row of its track.
LEMMA RunWrites ==
  ASSUME TypeInv, StillProcessing, NEW x \in JobIds, Unsettled(x), NEW st, NEW e,
         UpdateStatus(job[x].track, st, e)
  PROVE  /\ track[job[x].track].status = "processing" /\ track'[job[x].track].status = st
         /\ \A t \in Tracks : t # job[x].track => track'[t].status = track[t].status
BY DEF StillProcessing, UpdateStatus, TypeInv, TrackType

LEMMA RunStepSettles ==
  ASSUME ReviewSetting, PipelineInv, LifeInv, NEW w \in Workers, NEW s \in Slots, RunStep(w, s)
  PROVE  Settles
<1>1. TypeInv /\ InOnePlace /\ Quiet /\ StillProcessing /\ SafeInv
  BY InSetting DEF PipelineInv, LifeInv
<1>2. PICK x : x = task[w][s].job
  OBVIOUS
<1>3. task[w][s].pc # "idle" => x \in JobIds
  BY <1>1, <1>2 DEF TypeInv, TaskType
<1>4. ASSUME Quiet', UNCHANGED <<track, req>>, \A j \in JobIds : Unsettled(j)' => Unsettled(j)
      PROVE  Settles
  BY <1>4 DEF Settles
<1>5. CASE MarkRunning(w, s)
  <2>1. /\ TaskGoto(w, s, "work") /\ task[w][s].pc = "start"
        /\ UNCHANGED <<pending, processing, overdue, retry, loop, held, track, req>>
    BY <1>5 DEF MarkRunning, TaskAt, queueVars
  <2>2. QED BY <1>1, <1>4, <2>1, GotoSettles DEF Ahead
<1>6. CASE TranscodeFails(w, s)
  <2>1. /\ TaskGoto(w, s, "failed") /\ task[w][s].pc = "work"
        /\ UNCHANGED <<pending, processing, overdue, retry, loop, held, track, req>>
    BY <1>6 DEF TranscodeFails, TaskAt, queueVars, catalogVars
  <2>2. QED BY <1>1, <1>4, <2>1, GotoSettles DEF Ahead
<1>7. CASE Complete(w, s)
  <2>1. /\ TaskGoto(w, s, "done") /\ task[w][s].pc = "finishing"
        /\ UNCHANGED <<pending, processing, overdue, retry, loop, held, track, req>>
    BY <1>7 DEF Complete, TaskAt, queueVars
  <2>2. QED BY <1>1, <1>4, <2>1, GotoSettles DEF Ahead
<1>8. CASE Ack(w, s)
  <2>1. /\ \/ task[w][s].pc = "done" /\ TaskGoto(w, s, "leaving")
           \/ task[w][s].pc = "failed" /\ TaskGoto(w, s, "handling")
        /\ processing' = processing \ {task[w][s].job} /\ overdue' \subseteq overdue
        /\ UNCHANGED <<pending, retry, loop, held, track, req>>
    BY <1>8 DEF Ack, AfterAck, TaskAt, ZRemProcessing, catalogVars
  <2>2. CASE task[w][s].pc = "done" /\ TaskGoto(w, s, "leaving")
    BY <1>1, <1>4, <2>1, <2>2, GotoSettles DEF Ahead
  <2>3. CASE task[w][s].pc = "failed" /\ TaskGoto(w, s, "handling")
    BY <1>1, <1>4, <2>1, <2>3, GotoSettles DEF Ahead
  <2>4. QED BY <2>1, <2>2, <2>3
<1>9. CASE Lookup(w, s)
  <2>1. PICK pc \in {"resetting", "failing"} : TaskGoto(w, s, pc)
    BY <1>9 DEF Lookup
  <2>2. /\ task[w][s].pc = "handling"
        /\ UNCHANGED <<pending, processing, overdue, retry, loop, held, track, req>>
    BY <1>9 DEF Lookup, TaskAt, queueVars, catalogVars
  <2>3. QED BY <1>1, <1>4, <2>1, <2>2, GotoSettles DEF Ahead
<1>10. CASE ResetJob(w, s)
  <2>1. /\ TaskGoto(w, s, "reprocessing") /\ task[w][s].pc = "resetting"
        /\ UNCHANGED <<pending, processing, overdue, retry, loop, held, track, req>>
    BY <1>10 DEF ResetJob, TaskAt, queueVars
  <2>2. QED BY <1>1, <1>4, <2>1, GotoSettles DEF Ahead
<1>11. CASE FailJob(w, s)
  <2>1. /\ TaskGoto(w, s, "drafting") /\ task[w][s].pc = "failing"
        /\ UNCHANGED <<pending, processing, overdue, retry, loop, held, track, req>>
    BY <1>11 DEF FailJob, TaskAt, queueVars
  <2>2. QED BY <1>1, <1>4, <2>1, GotoSettles DEF Ahead
<1>12. CASE ScheduleRetry(w, s)
  <2>1. /\ TaskGoto(w, s, "leaving") /\ task[w][s].pc = "retrying"
        /\ retry' = retry \cup {task[w][s].job}
        /\ UNCHANGED <<pending, processing, overdue, loop, held, track, req>>
    BY <1>12 DEF ScheduleRetry, TaskAt, ZAddRetry, catalogVars
  <2>2. QED BY <1>1, <1>4, <2>1, GotoSettles DEF Ahead, FailurePc
<1>13. CASE Bury(w, s)
  <2>1. /\ TaskGoto(w, s, "leaving") /\ task[w][s].pc = "burying"
        /\ UNCHANGED <<pending, processing, overdue, retry, loop, held, track, req>>
    BY <1>13 DEF Bury, TaskAt, catalogVars
  <2>2. QED BY <1>1, <1>4, <2>1, GotoSettles DEF Ahead, FailurePc
<1>14. CASE Leave(w, s)
  <2>1. /\ task[w][s].pc = "leaving" /\ task' = [task EXCEPT ![w][s] = IdleTask]
        /\ UNCHANGED <<pending, processing, overdue, retry, loop, held, track, req>>
    BY <1>14 DEF Leave, TaskAt, queueVars, catalogVars
  <2>2. /\ \A v \in Workers, u \in Slots : v # w \/ u # s => task'[v][u] = task[v][u]
        /\ task'[w][s] = IdleTask
        /\ \A v \in Workers, u \in Slots, j \in JobIds : Runs(v, u, j)' <=> Runs(v, u, j)
    BY <1>1, <2>1, LeaveRuns DEF TaskAt, TypeInv
  <2>3. \A j : Pending(j)' => Pending(j)
    BY <2>2 DEF Pending, IdleTask, Ahead
  <2>4. Quiet'
    <3>1. \A j \in JobIds : Running(j) => Running(j)'
      BY <2>2 DEF Running
    <3>2. QED BY <1>1, <2>1, <3>1 DEF Quiet, Orphan
  <2>5. \A j \in JobIds : Unsettled(j)' => Unsettled(j)
    BY <2>1, <2>3 DEF Unsettled, Contains, Popped
  <2>6. QED BY <1>4, <2>1, <2>4, <2>5
<1>15. CASE BackToProcessing(w, s)
  <2>1. /\ TaskGoto(w, s, "retrying") /\ task[w][s].pc = "reprocessing"
        /\ UpdateStatus(job[x].track, "processing", TRUE)
        /\ UNCHANGED <<pending, processing, overdue, retry, loop, held, req>>
    BY <1>2, <1>15 DEF BackToProcessing, TaskAt, queueVars
  <2>2. Unsettled(x) /\ x \in JobIds
    BY <1>2, <1>3, <2>1 DEF Unsettled, Pending, Ahead
  <2>3. \A t \in Tracks : track'[t].status = track[t].status
    BY <1>1, <2>1, <2>2, RunWrites
  <2>4. Quiet' /\ \A j \in JobIds : Unsettled(j)' => Unsettled(j)
    BY <1>1, <2>1, GotoSettles DEF Ahead
  <2>5. QED BY <2>1, <2>3, <2>4 DEF Settles
<1>16. CASE Transcoded(w, s) \/ BackToDraft(w, s)
  <2>1. PICK st \in {"pending_review", "draft"}, e \in BOOLEAN :
          UpdateStatus(job[x].track, st, e)
    BY <1>2, <1>16, ModerationAssumption DEF Transcoded, BackToDraft
  <2>2. PICK pc \in {"finishing", "burying"} : TaskGoto(w, s, pc)
    BY <1>16 DEF Transcoded, BackToDraft
  <2>3. /\ task[w][s].pc \in {"work", "drafting"}
        /\ UNCHANGED <<pending, processing, overdue, retry, loop, held, req>>
    BY <1>16 DEF Transcoded, BackToDraft, TaskAt, queueVars
  <2>4. x \in JobIds /\ task[w][s].pc \in Ahead /\ pc \notin Ahead /\ pc # "leaving"
    BY <1>3, <2>2, <2>3 DEF Ahead
  <2>5. task'[w][s].job = x
    BY <1>1, <1>2, <2>2, GotoMoves DEF TypeInv
  <2>6. Unsettled(task[w][s].job) /\ ~Unsettled(task[w][s].job)'
    BY <1>1, <1>2, <2>2, <2>3, <2>4, RunSettles
  <2>7. Unsettled(x) /\ ~Unsettled(x)'
    BY <1>2, <2>5, <2>6
  <2>8. Quiet' /\ \A j \in JobIds : Unsettled(j)' => Unsettled(j)
    BY <1>1, <2>2, <2>3, <2>4, GotoSettles
  <2>9. \A t \in Tracks :
          track'[t].status = track[t].status
          \/ (track'[t].status \in {"pending_review", "draft"} /\ job[x].track = t)
    BY <1>1, <2>1, <2>4, <2>7, RunWrites
  <2>10. QED BY <2>3, <2>4, <2>7, <2>8, <2>9 DEF Settles
<1>17. QED BY <1>5, <1>6, <1>7, <1>8, <1>9, <1>10, <1>11, <1>12, <1>13, <1>14, <1>15, <1>16
           DEF RunStep

\* What a step of a worker does, told of the tracks.
LEMMA LifeSettles ==
  ASSUME TypeInv, SafeInv, TracksKept, LifeInv, Settles, UNCHANGED mod, Supersede,
         ModerationType
  PROVE  LifeInv'
<1>1. /\ Quiet' /\ UNCHANGED req /\ \A j \in JobIds : Unsettled(j)' => Unsettled(j)
      /\ OneToSettle /\ StillProcessing /\ RequestLeads /\ LoadedIsReviewed /\ ReleasedIsReviewed
  BY DEF Settles, LifeInv
<1>2. \A j \in JobIds : Unsettled(j) => job'[j].track = job[j].track
  <2>1. ASSUME NEW j \in JobIds, Unsettled(j)
        PROVE  Known(j)
    BY <2>1 DEF SafeInv, KnownInQueue, KnownInLoop, KnownInTask, Unsettled, Queued, Popped, Pending,
                Ahead
  <2>2. QED BY <2>1 DEF SafeInv, FreshRequests, TracksKept
<1>3. ASSUME NEW t \in Tracks, track'[t].status # track[t].status
      PROVE  /\ track'[t].status \in {"pending_review", "draft"}
             /\ track[t].status = "processing"
             /\ \E j \in JobIds : Unsettled(j) /\ job[j].track = t
             /\ \A j \in JobIds : Unsettled(j)' => job[j].track # t
  <2>1. /\ track'[t].status \in {"pending_review", "draft"}
        /\ \E j \in JobIds : Unsettled(j) /\ ~Unsettled(j)' /\ job[j].track = t
    BY <1>3 DEF Settles
  <2>2. PICK x \in JobIds : Unsettled(x) /\ ~Unsettled(x)' /\ job[x].track = t
    BY <2>1
  <2>3. track[t].status = "processing"
    BY <1>1, <2>2 DEF StillProcessing
  <2>4. \A j \in JobIds : Unsettled(j)' => job[j].track # t
    BY <1>1, <2>2 DEF OneToSettle
  <2>5. QED BY <2>1, <2>2, <2>3, <2>4
<1>4. OneToSettle'
  BY <1>1, <1>2 DEF OneToSettle
<1>5. StillProcessing'
  BY <1>1, <1>2, <1>3 DEF StillProcessing
<1>6. RequestLeads'
  <2>1. ASSUME NEW r \in Requests, req[r].pc # "idle"
        PROVE  req[r].track \in Tracks
    BY <1>1, <2>1 DEF RequestLeads
  <2>2. ASSUME NEW r \in Requests, req[r].pc \in {"checked", "retryChecked", "retryCreated"}
        PROVE  track'[req[r].track].status = "draft"
    BY <1>1, <1>3, <2>1, <2>2 DEF RequestLeads
  <2>3. ASSUME NEW r \in Requests, req[r].pc \in {"marked", "created"}
        PROVE  /\ track'[req[r].track].status = "processing"
               /\ \A j \in JobIds : Unsettled(j)' => job'[j].track # req[r].track
    BY <1>1, <1>2, <1>3, <2>1, <2>3 DEF RequestLeads
  <2>4. QED BY <1>1, <2>1, <2>2, <2>3 DEF RequestLeads
<1>7. \A t \in Tracks : track[t].status # "processing" => reviewed'[t] = reviewed[t]
  <2>1. ASSUME NEW t \in Tracks, Finishes(t)
        PROVE  track[t].status = "processing"
    <3>1. PICK w \in Workers, s \in Slots : task[w][s].pc = "work" /\ job[task[w][s].job].track = t
      BY <2>1 DEF Finishes
    <3>2. task[w][s].job \in JobIds
      BY <3>1 DEF TypeInv, TaskType
    <3>3. Unsettled(task[w][s].job)
      BY <3>1 DEF Unsettled, Pending, Ahead
    <3>4. QED BY <1>1, <3>1, <3>2, <3>3 DEF StillProcessing
  <2>2. QED BY <2>1 DEF Supersede, ModerationType, RecordType
<1>8. LoadedIsReviewed'
  BY <1>1, <1>3, <1>7 DEF LoadedIsReviewed, ModerationType, ModType
<1>9. ReleasedIsReviewed'
  BY <1>1, <1>3, <1>7 DEF ReleasedIsReviewed
<1>10. QED BY <1>1, <1>4, <1>5, <1>6, <1>8, <1>9 DEF LifeInv

\* A request moves: what it says of its track stays true.
LEMMA LifeRequests ==
  ASSUME ReviewSetting, PipelineInv, LifeInv, ModerationType, NEW r \in Requests, RequestMoves(r),
         UNCHANGED mod, Supersede
  PROVE  /\ LifeInv'
         /\ \A t \in Tracks :
              track'[t].status = track[t].status
              \/ <<track[t].status, track'[t].status>>
                   \in {<<"draft", "processing">>, <<"processing", "draft">>}
<1>1. /\ TypeInv /\ SafeInv /\ RowTrack /\ IdleInv /\ (\A q \in Requests : q = r)
      /\ Quiet /\ OneToSettle /\ StillProcessing /\ RequestLeads /\ LoadedIsReviewed /\ ReleasedIsReviewed
  BY DEF PipelineInv, BaseInv, ReviewSetting, LifeInv
<1>2. UNCHANGED <<processing, overdue, retry, loop, held, task>>
  BY DEF RequestMoves, CompleteCheck, RetryCheck, RequestStep, CompleteMark, CompleteCreate,
         RetryCreate, RetryMark, RequestEnqueue, RequestEnqueueFails, RequestAbort, queueVars,
         workerVars
<1>3. Quiet' /\ \A j : (Pending(j)' <=> Pending(j)) /\ (Popped(j)' <=> Popped(j))
  BY <1>1, <1>2 DEF Quiet, Orphan, Running, Runs, Pending, Popped
<1>4. UNCHANGED pending => \A j \in JobIds : Unsettled(j)' <=> Unsettled(j)
  BY <1>2, <1>3 DEF Unsettled, Contains
<1>5. UNCHANGED reviewed
  BY <1>2 DEF Supersede, Finishes, ModerationType, RecordType
<1>6. ASSUME \A t \in Tracks :
               track'[t].status = track[t].status
               \/ <<track[t].status, track'[t].status>>
                    \in {<<"draft", "processing">>, <<"processing", "draft">>}
      PROVE  LoadedIsReviewed' /\ ReleasedIsReviewed'
  BY <1>1, <1>5, <1>6 DEF LoadedIsReviewed, ReleasedIsReviewed, ModerationType, ModType
<1>7. PICK t : t = req[r].track
  OBVIOUS
<1>8. ASSUME UNCHANGED <<track, job, pending>>, req'[r].pc = "idle"
      PROVE  LifeInv' /\ \A u \in Tracks : track'[u].status = track[u].status
  <2>1. LoadedIsReviewed' /\ ReleasedIsReviewed'
    BY <1>6, <1>8
  <2>2. OneToSettle' /\ StillProcessing'
    BY <1>1, <1>4, <1>8 DEF OneToSettle, StillProcessing
  <2>3. RequestLeads'
    BY <1>1, <1>8 DEF RequestLeads
  <2>4. QED BY <1>3, <1>8, <2>1, <2>2, <2>3 DEF LifeInv
<1>9. CASE \E u \in Tracks : CompleteCheck(r, u) \/ RetryCheck(r, u)
  <2>1. PICK u \in Tracks : CompleteCheck(r, u) \/ RetryCheck(r, u)
    BY <1>9
  <2>2. /\ UNCHANGED <<track, job, pending>> /\ track[u].status = "draft"
        /\ req'[r].pc \in {"checked", "retryChecked"} /\ req'[r].track = u
    BY <1>1, <2>1 DEF CompleteCheck, RetryCheck, TypeInv, ReqType, catalogVars, queueVars
  <2>3. LoadedIsReviewed' /\ ReleasedIsReviewed'
    BY <1>6, <2>2
  <2>4. OneToSettle' /\ StillProcessing'
    BY <1>1, <1>4, <2>2 DEF OneToSettle, StillProcessing
  <2>5. RequestLeads'
    BY <1>1, <2>2 DEF RequestLeads
  <2>6. QED BY <1>3, <2>2, <2>3, <2>4, <2>5 DEF LifeInv
<1>10. CASE RequestAbort(r)
  <2>1. UNCHANGED <<track, job, pending>> /\ req'[r].pc = "idle"
    BY <1>1, <1>10 DEF RequestAbort, IdleReq, TypeInv, ReqType, catalogVars, queueVars
  <2>2. QED BY <1>8, <2>1
<1>11. CASE CompleteMark(r) \/ RetryMark(r)
  <2>1. /\ UpdateStatus(t, "processing", FALSE) /\ UNCHANGED <<job, pending>>
        /\ req[r].pc \in {"checked", "retryCreated"}
        /\ req'[r].pc \in {"marked", "created"} /\ req'[r].track = t
    BY <1>1, <1>7, <1>11 DEF CompleteMark, RetryMark, TypeInv, ReqType, queueVars
  <2>2. t \in Tracks /\ track[t].status = "draft"
    BY <1>1, <1>7, <2>1 DEF RequestLeads
  <2>3. /\ track'[t].status = "processing"
        /\ \A u \in Tracks : u # t => track'[u].status = track[u].status
    BY <1>1, <2>1, <2>2 DEF UpdateStatus, TypeInv, TrackType
  <2>4. \A j \in JobIds : Unsettled(j) => job[j].track # t
    BY <1>1, <2>2 DEF StillProcessing
  <2>5. \A u \in Tracks :
          track'[u].status = track[u].status
          \/ <<track[u].status, track'[u].status>>
               \in {<<"draft", "processing">>, <<"processing", "draft">>}
    BY <2>2, <2>3
  <2>6. OneToSettle' /\ StillProcessing'
    BY <1>1, <1>4, <2>1, <2>3, <2>4 DEF OneToSettle, StillProcessing
  <2>7. RequestLeads'
    BY <1>1, <1>4, <2>1, <2>2, <2>3, <2>4 DEF RequestLeads
  <2>8. QED BY <1>3, <1>6, <2>5, <2>6, <2>7 DEF LifeInv
<1>12. CASE \E j \in JobIds : CompleteCreate(r, j) \/ RetryCreate(r, j)
  <2>1. PICK x \in JobIds : CompleteCreate(r, x) \/ RetryCreate(r, x)
    BY <1>12
  <2>2. /\ CreateTranscodeJob(x, t) /\ UNCHANGED <<track, pending>>
        /\ \/ req[r].pc = "marked" /\ req'[r].pc = "created"
           \/ req[r].pc = "retryChecked" /\ req'[r].pc = "retryCreated"
        /\ req'[r].track = t
    BY <1>1, <1>7, <2>1 DEF CompleteCreate, RetryCreate, TypeInv, ReqType, queueVars
  <2>3. ~Known(x)
    BY <1>1, <2>2 DEF CreateTranscodeJob, SafeInv, FreshRequests
  <2>4. ~Contains(pending, x) /\ ~Popped(x) /\ ~Running(x) /\ x \notin retry
    BY <1>1, <2>3, UnknownNowhere
  <2>5. ~Unsettled(x)
    BY <2>4 DEF Unsettled, Pending, Running, Runs, Ahead
  <2>6. \A j \in JobIds : Unsettled(j) => job'[j].track = job[j].track
    BY <1>1, <2>2, <2>5 DEF CreateTranscodeJob, TypeInv, JobType
  <2>7. LoadedIsReviewed' /\ ReleasedIsReviewed'
    BY <1>6, <2>2
  <2>8. OneToSettle' /\ StillProcessing'
    BY <1>1, <1>4, <2>2, <2>6 DEF OneToSettle, StillProcessing
  <2>9. RequestLeads'
    BY <1>1, <1>4, <1>7, <2>2, <2>6 DEF RequestLeads
  <2>10. QED BY <1>3, <2>2, <2>7, <2>8, <2>9 DEF LifeInv
<1>13. CASE RequestEnqueue(r)
  <2>1. PICK x : x = req[r].job
    OBVIOUS
  <2>2. /\ req[r].pc = "created" /\ LPush(x) /\ UNCHANGED <<track, job>>
        /\ req'[r].pc = "idle"
    BY <1>1, <1>13, <2>1 DEF RequestEnqueue, IdleReq, TypeInv, ReqType, catalogVars
  <2>3. x \in JobIds /\ job[x].track = t
    BY <1>1, <1>7, <2>1, <2>2 DEF TypeInv, ReqType, RowTrack, HasRow
  <2>4. \A j : Contains(pending, j)' <=> Contains(pending, j) \/ j = x
    BY <1>1, <2>2, <2>3, LPushContains DEF TypeInv
  <2>5. \A j \in JobIds : Unsettled(j)' => Unsettled(j) \/ j = x
    BY <1>2, <1>3, <2>4 DEF Unsettled
  <2>6. /\ t \in Tracks /\ track[t].status = "processing"
        /\ \A j \in JobIds : Unsettled(j) => job[j].track # t
    BY <1>1, <1>7, <2>2 DEF RequestLeads
  <2>7. LoadedIsReviewed' /\ ReleasedIsReviewed'
    BY <1>6, <2>2
  <2>8. OneToSettle' /\ StillProcessing'
    BY <1>1, <2>2, <2>3, <2>5, <2>6 DEF OneToSettle, StillProcessing
  <2>9. RequestLeads'
    BY <1>1, <2>2 DEF RequestLeads
  <2>10. QED BY <1>3, <2>2, <2>7, <2>8, <2>9 DEF LifeInv
<1>14. CASE RequestEnqueueFails(r)
  <2>1. /\ req[r].pc = "created" /\ UpdateStatus(t, "draft", TRUE) /\ UNCHANGED <<job, pending>>
        /\ req'[r].pc = "idle"
    BY <1>1, <1>7, <1>14 DEF RequestEnqueueFails, IdleReq, TypeInv, ReqType, queueVars
  <2>2. /\ t \in Tracks /\ track[t].status = "processing"
        /\ \A j \in JobIds : Unsettled(j) => job[j].track # t
    BY <1>1, <1>7, <2>1 DEF RequestLeads
  <2>3. /\ track'[t].status = "draft"
        /\ \A u \in Tracks : u # t => track'[u].status = track[u].status
    BY <1>1, <2>1, <2>2 DEF UpdateStatus, TypeInv, TrackType
  <2>4. \A u \in Tracks :
          track'[u].status = track[u].status
          \/ <<track[u].status, track'[u].status>>
               \in {<<"draft", "processing">>, <<"processing", "draft">>}
    BY <2>2, <2>3
  <2>5. OneToSettle' /\ StillProcessing'
    BY <1>1, <1>4, <2>1, <2>2, <2>3 DEF OneToSettle, StillProcessing
  <2>6. RequestLeads'
    BY <1>1, <2>1 DEF RequestLeads
  <2>7. QED BY <1>3, <1>6, <2>4, <2>5, <2>6 DEF LifeInv
<1>15. QED BY <1>9, <1>10, <1>11, <1>12, <1>13, <1>14 DEF RequestMoves, RequestStep

\* A review or a release leaves the pipeline, and the tracks it works on, alone.
Reviews ==
  \A t \in Tracks :
    track'[t].status = track[t].status
    \/ <<track[t].status, track'[t].status>>
         \in {<<"pending_review", "approved">>, <<"pending_review", "draft">>,
              <<"pending_review", "published">>, <<"approved", "published">>}

LEMMA LifeReviews ==
  ASSUME LifeInv, OwnStep, Reviews, LoadedIsReviewed', ReleasedIsReviewed'
  PROVE  LifeInv'
<1>1. UNCHANGED <<job, pending, processing, overdue, retry, loop, held, task, req>>
  BY DEF OwnStep, queueVars, workerVars
<1>2. \A j : Unsettled(j)' <=> Unsettled(j)
  BY <1>1 DEF Unsettled, Contains, Popped, Pending
<1>3. Quiet'
  BY <1>1 DEF LifeInv, Quiet, Orphan, Running, Runs
<1>4. OneToSettle'
  BY <1>1, <1>2 DEF LifeInv, OneToSettle
<1>5. \A t \in Tracks :
        track[t].status \in {"draft", "processing"} => track'[t].status = track[t].status
  BY DEF Reviews
<1>6. StillProcessing'
  BY <1>1, <1>2, <1>5 DEF LifeInv, StillProcessing
<1>7. RequestLeads'
  <2>1. ASSUME NEW r \in Requests, req[r].pc # "idle"
        PROVE  req[r].track \in Tracks
    BY <2>1 DEF LifeInv, RequestLeads
  <2>2. RequestLeads
    BY DEF LifeInv
  <2>3. ASSUME NEW r \in Requests
        PROVE  /\ req[r].pc \in {"checked", "retryChecked", "retryCreated"} =>
                    track'[req[r].track].status = "draft"
               /\ req[r].pc \in {"marked", "created"} =>
                    track'[req[r].track].status = "processing"
    BY <1>5, <2>1, <2>2 DEF RequestLeads
  <2>4. QED BY <1>1, <1>2, <2>2, <2>3 DEF RequestLeads
<1>8. QED BY <1>3, <1>4, <1>6, <1>7 DEF LifeInv

LEMMA LifeModerators ==
  ASSUME ReviewSetting, TypeInv, ModerationType, LifeInv, NEW m \in Moderators, Deed(m)
  PROVE  Reviews /\ LifeInv'
<1>1. /\ OwnStep /\ (\A i \in Moderators : i = m) /\ LoadedIsReviewed /\ ReleasedIsReviewed
      /\ mod[m].pc = "loaded" => mod[m].track \in Tracks
  BY DeedIsOwn DEF ReviewSetting, LifeInv, ModerationType, ModType
<1>2. CASE \E t \in Tracks : Approve(m, t)
  <2>1. PICK t \in Tracks : Approve(m, t)
    BY <1>2
  <2>2. /\ mod[m].pc = "idle" /\ UNCHANGED mod
        /\ track[t].status = "pending_review" /\ track'[t].status = "approved"
        /\ \A u \in Tracks : u # t => track'[u].status = track[u].status
    BY <2>1 DEF Approve, AdminApprove, TypeInv, TrackType
  <2>3. reviewed'[t] /\ \A u \in Tracks : u # t => reviewed'[u] = reviewed[u]
    BY <2>1 DEF Approve, Review, ModerationType, RecordType
  <2>4. Reviews
    BY <2>2 DEF Reviews
  <2>5. LoadedIsReviewed' /\ ReleasedIsReviewed'
    BY <1>1, <2>2, <2>3 DEF LoadedIsReviewed, ReleasedIsReviewed
  <2>6. QED BY <1>1, <2>4, <2>5, LifeReviews
<1>3. CASE \E t \in Tracks : Reject(m, t)
  <2>1. PICK t \in Tracks : Reject(m, t)
    BY <1>3
  <2>2. /\ mod[m].pc = "idle" /\ UNCHANGED mod
        /\ track[t].status = "pending_review" /\ track'[t].status = "draft"
        /\ \A u \in Tracks : u # t => track'[u].status = track[u].status
    BY <2>1 DEF Reject, UpdateStatus, ReviewSetting, TypeInv, TrackType
  <2>3. \A u \in Tracks : u # t => reviewed'[u] = reviewed[u]
    BY <2>1 DEF Reject, Review, ModerationType, RecordType
  <2>4. Reviews
    BY <2>2 DEF Reviews
  <2>5. LoadedIsReviewed' /\ ReleasedIsReviewed'
    BY <1>1, <2>2, <2>3 DEF LoadedIsReviewed, ReleasedIsReviewed
  <2>6. QED BY <1>1, <2>4, <2>5, LifeReviews
<1>4. CASE \E t \in Tracks : PublishLoad(m, t)
  <2>1. PICK t \in Tracks : PublishLoad(m, t)
    BY <1>4
  <2>2. /\ mod'[m].track = t /\ track[t].status = "pending_review" /\ UNCHANGED track
    BY <2>1 DEF PublishLoad, ReviewSetting, ModerationType, ModType, vars, catalogVars
  <2>3. reviewed'[t] /\ \A u \in Tracks : u # t => reviewed'[u] = reviewed[u]
    BY <2>1 DEF PublishLoad, Review, ModerationType, RecordType
  <2>4. Reviews
    BY <2>2 DEF Reviews
  <2>5. LoadedIsReviewed' /\ ReleasedIsReviewed'
    BY <1>1, <2>2, <2>3 DEF LoadedIsReviewed, ReleasedIsReviewed
  <2>6. QED BY <1>1, <2>4, <2>5, LifeReviews
<1>5. CASE PublishWrite(m)
  <2>1. PICK t : t = mod[m].track
    OBVIOUS
  <2>2. /\ mod[m].pc = "loaded" /\ mod'[m].pc = "published" /\ UNCHANGED reviewed
        /\ AdminPublish(t)
    BY <1>5, <2>1 DEF PublishWrite, ModerationType, ModType
  <2>3. t \in Tracks /\ track[t].status = "pending_review" /\ reviewed[t]
    BY <1>1, <2>1, <2>2 DEF LoadedIsReviewed
  <2>4. /\ track'[t].status = "published"
        /\ \A u \in Tracks : u # t => track'[u].status = track[u].status
    BY <2>2, <2>3 DEF AdminPublish, TypeInv, TrackType
  <2>5. Reviews
    BY <2>3, <2>4 DEF Reviews
  <2>6. LoadedIsReviewed' /\ ReleasedIsReviewed'
    BY <1>1, <2>2, <2>3, <2>4 DEF LoadedIsReviewed, ReleasedIsReviewed
  <2>7. QED BY <1>1, <2>5, <2>6, LifeReviews
<1>6. CASE PublishConflict(m) \/ PublishNotify(m) \/ PublishAborts(m)
  <2>1. mod'[m].pc = "idle" /\ UNCHANGED <<track, reviewed>>
    BY <1>6 DEF PublishConflict, PublishNotify, PublishAborts, IdleMod, ModerationType, ModType,
                vars, catalogVars, pipelineKept
  <2>2. Reviews
    BY <2>1 DEF Reviews
  <2>3. LoadedIsReviewed' /\ ReleasedIsReviewed'
    BY <1>1, <2>1 DEF LoadedIsReviewed, ReleasedIsReviewed
  <2>4. QED BY <1>1, <2>2, <2>3, LifeReviews
<1>7. QED BY <1>2, <1>3, <1>4, <1>5, <1>6 DEF Deed, ModeratorStep

\* A creator, or a sweep, releases what was approved.
LEMMA LifeReleases ==
  ASSUME TypeInv, ModerationType, LifeInv, OwnStep, UNCHANGED <<mod, reviewed>>,
         \/ \A t \in Tracks : track'[t].status = track[t].status
         \/ \E t \in Tracks : CreatorPublishNow(t) \/ PublishScheduledTrack(t)
  PROVE  Reviews /\ LifeInv'
<1>1. ASSUME NEW t \in Tracks, track'[t].status # track[t].status
      PROVE  track[t].status = "approved" /\ track'[t].status = "published"
  BY <1>1 DEF CreatorPublishNow, PublishScheduledTrack, TypeInv, TrackType
<1>2. Reviews
  BY <1>1 DEF Reviews
<1>3. LoadedIsReviewed'
  BY <1>1 DEF LifeInv, LoadedIsReviewed, ModerationType, ModType
<1>4. ReleasedIsReviewed'
  BY <1>1 DEF LifeInv, ReleasedIsReviewed
<1>5. QED BY <1>2, <1>3, <1>4, LifeReviews

LEMMA LifeCreators ==
  ASSUME TypeInv, ModerationType, LifeInv, NEW t \in Tracks, CreatorDeed(t)
  PROVE  Reviews /\ LifeInv'
<1>1. OwnStep
  BY CreatorIsOwn
<1>2. UNCHANGED <<mod, reviewed>>
  BY DEF CreatorDeed, SchedulePublish, ScheduleDue, PublishNow, PublishNowNotify, PublishNowAborts,
         moderationVars
<1>3. CASE SchedulePublish(t) \/ ScheduleDue(t)
  <2>1. \A u \in Tracks : track'[u].status = track[u].status
    BY <1>3 DEF SchedulePublish, SetScheduledPublish, ScheduleDue, TypeInv, TrackType
  <2>2. QED BY <1>1, <1>2, <2>1, LifeReleases
<1>4. CASE PublishNow(t)
  BY <1>1, <1>2, <1>4, LifeReleases DEF PublishNow
<1>5. CASE PublishNowNotify(t) \/ PublishNowAborts(t)
  <2>1. UNCHANGED track
    BY <1>5 DEF PublishNowNotify, PublishNowAborts, vars, catalogVars, pipelineKept
  <2>2. QED BY <1>1, <1>2, <2>1, LifeReleases
<1>6. QED BY <1>3, <1>4, <1>5 DEF CreatorDeed

LEMMA LifeSweeps ==
  ASSUME TypeInv, ModerationType, LifeInv, NEW w \in Workers, SweepDeed(w)
  PROVE  Reviews /\ LifeInv'
<1>1. OwnStep
  BY SweepIsOwn
<1>2. UNCHANGED <<mod, reviewed>>
  BY DEF SweepDeed, SweepStep, SweepList, SweepPublish, SweepSkip, SweepNotify, SweepFails
<1>3. CASE \E t \in Tracks : SweepPublish(w, t)
  BY <1>1, <1>2, <1>3, LifeReleases DEF SweepPublish
<1>4. CASE \/ SweepList(w) \/ SweepNotify(w)
           \/ \E t \in Tracks : SweepSkip(w, t) \/ SweepFails(w, t)
  <2>1. UNCHANGED track
    BY <1>4 DEF SweepList, SweepSkip, SweepNotify, SweepFails, vars, catalogVars, pipelineKept
  <2>2. QED BY <1>1, <1>2, <2>1, LifeReleases
<1>5. QED BY <1>3, <1>4 DEF SweepDeed, SweepStep

\* What the pipeline writes.
PipelineWrites ==
  \A t \in Tracks :
    track'[t].status = track[t].status
    \/ <<track[t].status, track'[t].status>>
         \in {<<"draft", "processing">>, <<"processing", "draft">>,
              <<"processing", "pending_review">>}

LEMMA LifeWork ==
  ASSUME ReviewSetting, PipelineInv, ModerationType, LifeInv, PipelineWork
  PROVE  PipelineWrites /\ LifeInv'
<1>1. Work /\ UNCHANGED mod /\ Supersede /\ Quiet /\ [Next]_vars
  BY DEF PipelineWork, LifeInv, Next
<1>2. TypeInv /\ SafeInv /\ RowTrack /\ TracksKept
  BY <1>1, TracksStay DEF PipelineInv
<1>3. ASSUME Settles
      PROVE  PipelineWrites /\ LifeInv'
  <2>1. LifeInv'
    BY <1>1, <1>2, <1>3, LifeSettles
  <2>2. PipelineWrites
    BY <1>3 DEF Settles, PipelineWrites, LifeInv, StillProcessing
  <2>3. QED BY <2>1, <2>2
<1>4. CASE \E r \in Requests : RequestMoves(r)
  <2>1. PICK r \in Requests : RequestMoves(r)
    BY <1>4
  <2>2. LifeInv' /\ \A t \in Tracks :
              track'[t].status = track[t].status
              \/ <<track[t].status, track'[t].status>>
                   \in {<<"draft", "processing">>, <<"processing", "draft">>}
    BY <1>1, <2>1, LifeRequests
  <2>3. QED BY <2>2 DEF PipelineWrites
<1>5. CASE \E w \in Workers : LoopStill(w) \/ LoopTakes(w) \/ \E s \in Slots : Claim(w, s)
  BY <1>1, <1>3, <1>5, LoopSettles
<1>6. CASE \E w \in Workers, s \in Slots : RunStep(w, s)
  BY <1>3, <1>6, RunStepSettles
<1>7. CASE \E j \in JobIds : BecomeDue(j)
  BY <1>1, <1>3, <1>7, DueSettles
<1>8. QED BY <1>1, <1>4, <1>5, <1>6, <1>7, QuietSteps

LEMMA LifeStep ==
  ASSUME ReviewSetting, PipelineInv, ModerationType, LifeInv, [ModerationNext]_allVars
  PROVE  (PipelineWrites \/ Reviews) /\ LifeInv'
<1>1. TypeInv
  BY DEF PipelineInv
<1>2. CASE PipelineWork
  BY <1>2, LifeWork
<1>3. CASE \E w \in Workers : PipelineEnd(w)
  BY <1>3, NobodyEnds DEF PipelineEnd
<1>4. CASE \E m \in Moderators : Deed(m)
  BY <1>1, <1>4, LifeModerators
<1>5. CASE \E t \in Tracks : CreatorDeed(t)
  BY <1>1, <1>5, LifeCreators
<1>6. CASE \E w \in Workers : SweepDeed(w)
  BY <1>1, <1>6, LifeSweeps
<1>7. CASE UNCHANGED allVars
  <2>1. OwnStep /\ UNCHANGED <<track, mod, reviewed>>
    BY <1>7 DEF allVars, vars, catalogVars, moderationVars, OwnStep, Counted
  <2>2. QED BY <1>1, <2>1, LifeReleases
<1>8. QED BY <1>2, <1>3, <1>4, <1>5, <1>6, <1>7, NextCases

LEMMA LifeStart ==
  ASSUME ModerationInit
  PROVE  LifeInv
<1>1. /\ Len(pending) = 0 /\ processing = {} /\ overdue = {} /\ retry = {}
      /\ \A w \in Workers : loop[w] = "promote" /\ \A s \in Slots : task[w][s].pc = "idle"
      /\ \A r \in Requests : req[r].pc = "idle"
      /\ \A t \in Tracks : track[t].status = "draft"
      /\ \A m \in Moderators : mod[m].pc = "idle"
  BY DEF ModerationInit, Init, CatalogInit, QueueInit, IdleTask, IdleReq, IdleMod
<1>2. \A j : ~Unsettled(j)
  BY <1>1 DEF Unsettled, Contains, Popped, Pending, Ahead
<1>3. Quiet
  BY <1>1 DEF Quiet, Orphan
<1>4. QED BY <1>1, <1>2, <1>3 DEF LifeInv, OneToSettle, StillProcessing, RequestLeads,
                                LoadedIsReviewed, ReleasedIsReviewed

LEMMA LifeInvariant ==
  ASSUME ReviewSetting
  PROVE  ModerationSpec => []LifeInv
<1>1. ModerationInit => LifeInv
  BY LifeStart
<1>2. PipelineInv /\ ModerationType /\ LifeInv /\ [ModerationNext]_allVars => LifeInv'
  BY LifeStep
<1>3. QED BY <1>1, <1>2, PipelineInvariant, ModerationTypeCorrect, PTL DEF ModerationSpec

(* With one worker and one request and one moderator at a time, whatever    *)
(* fails in the API, nothing goes live that no moderator has passed since   *)
(* its last run.                                                            *)
THEOREM ReviewedBeforeRelease ==
  ASSUME ReviewSetting
  PROVE  ModerationSpec => []ReleasedIsReviewed
<1>1. LifeInv => ReleasedIsReviewed
  BY DEF LifeInv
<1>2. QED BY <1>1, LifeInvariant, PTL

\* A step writes the row of one track at most.
LEMMA OneTrack ==
  ASSUME TypeInv, ModerationType, ReviewSetting, PipelineInv, [ModerationNext]_allVars
  PROVE  \E t : \A u \in Tracks : u # t => track'[u].status = track[u].status
<1>1. ASSUME UNCHANGED track
      PROVE  \E t : \A u \in Tracks : u # t => track'[u].status = track[u].status
  BY <1>1
<1>2. CASE PipelineWork
  <2>1. RowsWritten
    BY <1>2, WorkEffects DEF PipelineWork
  <2>2. QED BY <1>1, <2>1 DEF RowsWritten, UpdateStatus, TypeInv, TrackType
<1>3. CASE \E w \in Workers : PipelineEnd(w)
  BY <1>3, NobodyEnds DEF PipelineEnd
<1>4. CASE TrackStep
  <2>1. CASE UNCHANGED track
    BY <1>1, <2>1
  <2>2. CASE \E t \in Tracks :
               \/ AdminApprove(t) \/ UpdateStatus(t, "draft", TRUE) \/ AdminPublish(t)
               \/ SetScheduledPublish(t) \/ CreatorPublishNow(t) \/ PublishScheduledTrack(t)
               \/ track[t].sched = "later" /\ track' = [track EXCEPT ![t].sched = "due"]
    <3>1. PICK t \in Tracks :
               \/ AdminApprove(t) \/ UpdateStatus(t, "draft", TRUE) \/ AdminPublish(t)
               \/ SetScheduledPublish(t) \/ CreatorPublishNow(t) \/ PublishScheduledTrack(t)
               \/ track[t].sched = "later" /\ track' = [track EXCEPT ![t].sched = "due"]
      BY <2>2
    <3>2. \A u \in Tracks : u # t => track'[u] = track[u]
      BY <3>1 DEF AdminApprove, UpdateStatus, AdminPublish, SetScheduledPublish, CreatorPublishNow,
                  PublishScheduledTrack, TypeInv, TrackType
    <3>3. QED BY <3>2
  <2>3. QED BY <1>4, <2>1, <2>2 DEF TrackStep
<1>5. CASE UNCHANGED allVars
  <2>1. UNCHANGED track
    BY <1>5 DEF allVars, vars, catalogVars
  <2>2. QED BY <1>1, <2>1
<1>6. QED BY <1>2, <1>3, <1>4, <1>5, NextCases, DeedIsOwn, CreatorIsOwn, SweepIsOwn

\* The statuses, as TrackLifecycle sees them.
StatusOf == [t \in Tracks |-> track[t].status]

LEMMA LifecycleStep ==
  ASSUME ReviewSetting, PipelineInv, ModerationType, LifeInv, [ModerationNext]_allVars
  PROVE  [Lifecycle!Next]_StatusOf
<1>1. PICK t : \A u \in Tracks : u # t => track'[u].status = track[u].status
  BY OneTrack DEF PipelineInv
<1>2. CASE t \notin Tracks \/ track'[t].status = track[t].status
  <2>1. \A u \in Tracks : track'[u].status = track[u].status
    BY <1>1, <1>2
  <2>2. UNCHANGED StatusOf
    BY <2>1 DEF StatusOf
  <2>3. QED BY <2>2
<1>3. CASE t \in Tracks /\ track'[t].status # track[t].status
  <2>1. <<track[t].status, track'[t].status>>
          \in {<<"draft", "processing">>, <<"processing", "draft">>,
               <<"processing", "pending_review">>, <<"pending_review", "approved">>,
               <<"pending_review", "draft">>, <<"pending_review", "published">>,
               <<"approved", "published">>}
    BY <1>3, LifeStep DEF PipelineWrites, Reviews
  <2>2. StatusOf' = [StatusOf EXCEPT ![t] = track'[t].status]
    BY <1>1, <1>3 DEF StatusOf
  <2>3. StatusOf[t] = track[t].status
    BY <1>3 DEF StatusOf
  <2>4. ASSUME NEW from, NEW to, track[t].status = from, track'[t].status = to
        PROVE  Lifecycle!Move(t, from, to)
    BY <1>3, <2>2, <2>3, <2>4 DEF StatusOf, Lifecycle!Move
  <2>5. \/ Lifecycle!Submit(t) \/ Lifecycle!Finish(t) \/ Lifecycle!GiveUp(t)
        \/ Lifecycle!Approve(t) \/ Lifecycle!Reject(t) \/ Lifecycle!Publish(t)
    BY <2>1, <2>4
       DEF Lifecycle!Submit, Lifecycle!Finish, Lifecycle!GiveUp, Lifecycle!Approve,
           Lifecycle!Reject, Lifecycle!Publish
  <2>6. QED BY <1>3, <2>5 DEF Lifecycle!Next
<1>4. QED BY <1>2, <1>3

(* In the same setting a track moves only as the README says: draft,        *)
(* processing, pending_review, approved, published, and back to draft when  *)
(* it is rejected or its runs have failed.  The composed pipeline implements *)
(* TrackLifecycle.                                                          *)
THEOREM LifecycleFollowed ==
  ASSUME ReviewSetting
  PROVE  ModerationSpec => FollowsLifecycle
<1>1. ModerationInit => Lifecycle!Init
  BY DEF ModerationInit, Init, CatalogInit, Lifecycle!Init
<1>2. PipelineInv /\ ModerationType /\ LifeInv /\ [ModerationNext]_allVars
        => [Lifecycle!Next]_StatusOf
  BY LifecycleStep
<1>3. QED
  BY <1>1, <1>2, LifeInvariant, PipelineInvariant, ModerationTypeCorrect, PTL
     DEF ModerationSpec, FollowsLifecycle, Lifecycle!Spec, StatusOf

=============================================================================
