---------------------------- MODULE UploadStudio ----------------------------
(***************************************************************************)
(* The creator's pages: the upload wizard (apps/web/src/pages/             *)
(* UploadPage.tsx), its drafts, polls and retries, and the lyrics editor   *)
(* of the hub (CreatorHubPage.tsx), over the server's tracks as            *)
(* internal/modules/creator and the worker change them.  The queue, the    *)
(* jobs and the schedule are those of TranscodePipeline and                *)
(* TrackModeration; here a transcode is two steps.                         *)
(***************************************************************************)
EXTENDS Naturals, FiniteSets

CONSTANTS
  Rows, NoRow,     \* tracks that the server can hold (bound)
  Calls,           \* functions of the pages that are awaiting something (bound)
  Tries,           \* maxAttempts of pollStatus: 40
  MaxFlows,        \* uploads begun in the wizard (bound)
  MaxActs,         \* what the creator and the moderator do (bound)
  MaxTroubles      \* calls that fail (bound)

ASSUME StudioAssumption ==
  /\ NoRow \notin Rows
  /\ Tries \in Nat \ {0} /\ MaxFlows \in Nat \ {0}
  /\ MaxActs \in Nat /\ MaxTroubles \in Nat

VARIABLES
  row,          \* row[r]: the server's track: status, metadata, the master's upload
  worker,       \* worker[r]: the run that transcodes r, and the metadata it has read
  wizard,       \* the state of UploadPage
  myTracks,     \* the statuses that its list "Your uploads" shows
  call,         \* call[c]: a save, upload, retry, poll or lyrics function under way
  acts, troubles,
  late          \* history: a save was answered to a wizard that had been reset since

studioVars == <<row, worker, wizard, myTracks, call, acts, troubles, late>>

\* gachi_metadata: the wizard's form (the flow it was filled in), the creator's
\* lyrics, and what the worker adds (hls, analysis).
NoMeta == [form |-> 0, lyrics |-> FALSE, hls |-> FALSE]
Absent == [status |-> "none", meta |-> NoMeta, master |-> "none"]
FailedRow(flow) == [status |-> "failed", meta |-> [NoMeta EXCEPT !.form = flow],
                    master |-> "stored"]
ReviewedRow == [status |-> "pending_review", meta |-> [NoMeta EXCEPT !.hls = TRUE],
                master |-> "stored"]
NoCall == [kind |-> "none", at |-> "idle", id |-> NoRow, flow |-> 0, tries |-> 0,
           status |-> "none", meta |-> NoMeta]
NoShown == [id |-> NoRow, status |-> "none"]
FreshWizard == [step |-> "metadata", flow |-> 1, filled |-> FALSE, draft |-> NoRow,
                shown |-> NoShown, retrying |-> NoRow]
FailedUpload(r) ==
  [FreshWizard EXCEPT !.step = "error", !.filled = TRUE, !.draft = r,
                      !.shown = [id |-> r, status |-> "failed"]]

\* "failed" is a draft with a processing_error (isFailedTrack).
IsDraft(r) == row[r].status \in {"draft", "failed"}
Statuses == [r \in Rows |-> row[r].status]

\* The wizard has just been opened, or its upload has failed.
Init ==
  /\ row \in [Rows -> {Absent, FailedRow(0), FailedRow(1), ReviewedRow}]
  /\ LET uploaded == {r \in Rows : row[r] = FailedRow(1)} IN
       \/ uploaded = {} /\ wizard = FreshWizard
       \/ \E r \in Rows : uploaded = {r} /\ wizard = FailedUpload(r)
  /\ worker = [r \in Rows |-> [at |-> "idle", meta |-> NoMeta]]
  /\ myTracks = Statuses
  /\ call = [c \in Calls |-> NoCall]
  /\ acts = 0 /\ troubles = 0 /\ late = FALSE

Acts == acts < MaxActs /\ acts' = acts + 1 /\ UNCHANGED troubles
Trouble == troubles < MaxTroubles /\ troubles' = troubles + 1 /\ UNCHANGED acts
Goes == UNCHANGED <<acts, troubles>>

\* Which of the idle calls is taken makes no difference.
Begin(kind, id) ==
  LET idle == {c \in Calls : call[c].at = "idle"} IN
  /\ idle # {}
  /\ call' = [call EXCEPT ![CHOOSE c \in idle : TRUE] = [NoCall EXCEPT
       !.kind = kind, !.at = "sent", !.id = id, !.flow = wizard.flow]]

Is(c, kind, at) == call[c].kind = kind /\ call[c].at = at
Moves(c, at) == call' = [call EXCEPT ![c].at = at]
Ends(c) == call' = [call EXCEPT ![c] = NoCall]

-----------------------------------------------------------------------------
(* What the creator does *)

\* TrackMetadataForm (the title is what the button needs)
EditForm ==
  /\ wizard.step = "metadata" /\ ~wizard.filled
  /\ wizard' = [wizard EXCEPT !.filled = TRUE]
  /\ Goes /\ UNCHANGED <<row, worker, myTracks, call, late>>

\* "Continue to audio": the button stays enabled while a save is under way.
SaveMetadata ==
  /\ wizard.step = "metadata" /\ wizard.filled
  /\ Acts /\ Begin("save", wizard.draft)
  /\ UNCHANGED <<row, worker, wizard, myTracks, late>>

Back ==
  /\ wizard.step = "audio"
  /\ Acts
  /\ wizard' = [wizard EXCEPT !.step = "metadata"]
  /\ UNCHANGED <<row, worker, myTracks, call, late>>

UploadAudio ==
  /\ wizard.step = "audio" /\ wizard.draft # NoRow
  /\ Acts /\ Begin("audio", wizard.draft)
  /\ wizard' = [wizard EXCEPT !.step = "uploading"]
  /\ UNCHANGED <<row, worker, myTracks, late>>

HandleRetry(r) ==
  /\ wizard.retrying # r
  /\ Acts /\ Begin("retry", r)
  /\ wizard' = [wizard EXCEPT !.step = "processing", !.retrying = r]
  /\ UNCHANGED <<row, worker, myTracks, late>>

\* Mutant: the next upload begins with the draft of the last one.
ResetKeepsDraft ==
  /\ wizard.step \in {"done", "error"} /\ wizard.flow < MaxFlows
  /\ Acts
  /\ wizard' = [FreshWizard EXCEPT !.flow = wizard.flow + 1, !.draft = wizard.draft,
                                   !.retrying = wizard.retrying]
  /\ UNCHANGED <<row, worker, myTracks, call, late>>

\* "Upload another"
ResetFlow ==
  /\ wizard.step \in {"done", "error"} /\ wizard.flow < MaxFlows
  /\ Acts
  /\ wizard' = [FreshWizard EXCEPT !.flow = wizard.flow + 1,
                                   !.retrying = wizard.retrying]
  /\ UNCHANGED <<row, worker, myTracks, call, late>>

\* loadMyTracks (the request and its answer in one step)
Refresh ==
  /\ myTracks # Statuses
  /\ Acts
  /\ myTracks' = Statuses
  /\ UNCHANGED <<row, worker, wizard, call, late>>

\* LrcEditorPanel of a track of the hub: one save of a track at a time.
SaveLyrics(r) ==
  /\ row[r].status # "none"
  /\ \A c \in Calls : ~(call[c].kind = "lyrics" /\ call[c].id = r)
  /\ Acts /\ Begin("lyrics", r)
  /\ UNCHANGED <<row, worker, wizard, myTracks, late>>

-----------------------------------------------------------------------------
(* The server and the worker *)

client == <<worker, wizard, myTracks, late>>

\* CreateDraft, or UpdateDraft of the whole metadata.
SaveArrives(c) ==
  /\ Is(c, "save", "sent")
  /\ \E r \in Rows :
       /\ IF call[c].id = NoRow THEN row[r].status = "none"
                                ELSE r = call[c].id /\ IsDraft(r)
       /\ row' = [row EXCEPT
            ![r].status = IF @ = "none" THEN "draft" ELSE @,
            ![r].meta = [NoMeta EXCEPT !.form = call[c].flow]]
       /\ call' = [call EXCEPT ![c].at = "saved", ![c].id = r]
  /\ Goes /\ UNCHANGED client

\* PresignDraftUpload attaches the master's key, the PUT stores the object.
PresignArrives(c) ==
  /\ Is(c, "audio", "sent") /\ IsDraft(call[c].id)
  /\ row' = [row EXCEPT ![call[c].id].master = IF @ = "stored" THEN @ ELSE "key"]
  /\ Moves(c, "presigned")
  /\ Goes /\ UNCHANGED client

PutArrives(c) ==
  /\ Is(c, "audio", "presigned")
  /\ row' = [row EXCEPT ![call[c].id].master = "stored"]
  /\ Moves(c, "stored")
  /\ Goes /\ UNCHANGED client

\* CompleteUpload, and RetryTranscode of a failed one.
Submit(c) ==
  LET r == call[c].id IN
  /\ \/ Is(c, "audio", "stored") /\ IsDraft(r)
     \/ Is(c, "retry", "sent") /\ row[r].status = "failed"
  /\ row[r].master = "stored"
  /\ row' = [row EXCEPT ![r].status = "processing"]
  /\ Moves(c, "queued")
  /\ Goes /\ UNCHANGED client

\* Mutant: the lyrics replace the metadata.
WithLyricsOnly(meta) == [NoMeta EXCEPT !.lyrics = TRUE]

WithLyrics(meta) == [meta EXCEPT !.lyrics = TRUE]

\* UpdateOwnedLyricsLRC reads the metadata, and writes all of it back.
LyricsRead(c) ==
  LET r == call[c].id IN
  /\ Is(c, "lyrics", "sent")
  /\ IsDraft(r) \/ row[r].status \in {"processing", "pending_review", "published"}
  /\ call' = [call EXCEPT ![c].at = "read", ![c].meta = row[r].meta]
  /\ Goes /\ UNCHANGED <<client, row>>

LyricsWritten(c) ==
  /\ Is(c, "lyrics", "read")
  /\ row' = [row EXCEPT ![call[c].id].meta = WithLyrics(call[c].meta)]
  /\ Ends(c)
  /\ Goes /\ UNCHANGED client

\* RunTranscode reads the metadata before the transcode, and writes all of it
\* back after.
WorkerReads(r) ==
  /\ row[r].status = "processing" /\ worker[r].at = "idle"
  /\ worker' = [worker EXCEPT ![r] = [at |-> "runs", meta |-> row[r].meta]]
  /\ Goes /\ UNCHANGED <<row, wizard, myTracks, call, late>>

WorkerEnds(r) ==
  /\ worker[r].at = "runs"
  /\ row' = [row EXCEPT ![r].meta = [worker[r].meta EXCEPT !.hls = TRUE],
                        ![r].status = "pending_review"]
  /\ worker' = [worker EXCEPT ![r].at = "idle"]
  /\ Goes /\ UNCHANGED <<wizard, myTracks, call, late>>

WorkerFails(r) ==
  /\ worker[r].at = "runs"
  /\ Trouble
  /\ row' = [row EXCEPT ![r].status = "failed"]
  /\ worker' = [worker EXCEPT ![r].at = "idle"]
  /\ UNCHANGED <<wizard, myTracks, call, late>>

-----------------------------------------------------------------------------
(* The answers *)

\* saveMetadata goes on to the cover, if one was picked.
SaveAnswers(c) ==
  /\ Is(c, "save", "saved")
  /\ \/ /\ wizard' = [wizard EXCEPT !.draft = call[c].id]
        /\ Moves(c, "cover")
     \/ /\ wizard' = [wizard EXCEPT !.draft = call[c].id, !.step = "audio"]
        /\ Ends(c)
  /\ late' = (late \/ call[c].flow # wizard.flow)
  /\ Goes /\ UNCHANGED <<row, worker, myTracks>>

\* uploadTrackCover: presign, PUT and complete, in one step.
CoverSaved(c) ==
  /\ Is(c, "save", "cover")
  /\ wizard' = [wizard EXCEPT !.step = "audio"]
  /\ Ends(c)
  /\ Goes /\ UNCHANGED <<row, worker, myTracks, late>>

\* The answer of completeUpload or retryTranscode starts a poll.
Submitted(c) ==
  /\ call[c].kind \in {"audio", "retry"} /\ call[c].at = "queued"
  /\ wizard' = [wizard EXCEPT
       !.shown = [id |-> call[c].id, status |-> "processing"],
       !.step = IF call[c].kind = "audio" THEN "processing" ELSE @,
       !.retrying = IF call[c].kind = "retry" THEN NoRow ELSE @]
  /\ call' = [call EXCEPT ![c].kind = "poll", ![c].at = "sleeps"]
  /\ Goes /\ UNCHANGED <<row, worker, myTracks, late>>

\* The 1.5 s have passed and getUploadStatus has read the row.
PollReads(c) ==
  /\ Is(c, "poll", "sleeps")
  /\ call' = [call EXCEPT ![c].at = "read", ![c].status = row[call[c].id].status]
  /\ Goes /\ UNCHANGED <<client, row>>

\* Another round, or the time-out.
Again(c, shown) ==
  IF call[c].tries + 1 < Tries
  THEN /\ call' = [call EXCEPT ![c].at = "sleeps", ![c].tries = @ + 1]
       /\ wizard' = [wizard EXCEPT !.shown = shown]
  ELSE Ends(c) /\ wizard' = [wizard EXCEPT !.shown = shown, !.step = "error"]

PollAnswers(c) ==
  LET shown == [id |-> call[c].id, status |-> call[c].status] IN
  /\ Is(c, "poll", "read")
  /\ IF shown.status \in {"published", "approved", "pending_review", "failed"}
     THEN /\ wizard' = [wizard EXCEPT
               !.shown = shown,
               !.step = IF shown.status = "failed" THEN "error" ELSE "done"]
          /\ myTracks' = Statuses
          /\ Ends(c)
     ELSE Again(c, shown) /\ UNCHANGED myTracks
  /\ Goes /\ UNCHANGED <<row, worker, late>>

PollFails(c) ==
  /\ call[c].kind = "poll"
  /\ Trouble
  /\ Again(c, wizard.shown)
  /\ UNCHANGED <<row, worker, myTracks, late>>

\* What the server turns down.
Refusable(c) ==
  LET r == call[c].id IN
  \/ Is(c, "save", "sent") /\ (IF r = NoRow THEN \A x \in Rows : row[x].status # "none"
                                            ELSE ~IsDraft(r))
  \/ Is(c, "audio", "sent") /\ ~IsDraft(r)
  \/ Is(c, "audio", "stored") /\ ~(IsDraft(r) /\ row[r].master = "stored")
  \/ Is(c, "retry", "sent") /\ ~(row[r].status = "failed" /\ row[r].master = "stored")
  \/ Is(c, "lyrics", "sent") /\ row[r].status = "approved"

\* Mutant: a failed upload is not shown as one.
StopsSilently(c) ==
  wizard' = [wizard EXCEPT !.retrying = IF call[c].kind = "retry" THEN NoRow ELSE @]

\* The catch of each function: a save only says so.
Stops(c) ==
  wizard' = [wizard EXCEPT
    !.step = IF call[c].kind \in {"audio", "retry"} THEN "error" ELSE @,
    !.retrying = IF call[c].kind = "retry" THEN NoRow ELSE @]

CallRefused(c) ==
  /\ Refusable(c)
  /\ Stops(c) /\ Ends(c)
  /\ Goes /\ UNCHANGED <<row, worker, myTracks, late>>

CallFails(c) ==
  /\ call[c].kind \in {"save", "audio", "retry", "lyrics"}
  /\ Trouble
  /\ Stops(c) /\ Ends(c)
  /\ UNCHANGED <<row, worker, myTracks, late>>

-----------------------------------------------------------------------------
\* The pages, by what their controls start: the list has a button for each failed
\* upload, and the wizard has one for the upload that it shows.
YourUploads == Refresh \/ \E r \in Rows : myTracks[r] = "failed" /\ HandleRetry(r)

UploadPage ==
  \/ EditForm \/ SaveMetadata \/ Back \/ UploadAudio \/ ResetFlow
  \/ \E r \in Rows :
       wizard.step = "error" /\ wizard.shown = [id |-> r, status |-> "failed"]
       /\ HandleRetry(r)

CreatorHubPage == \E r \in Rows : SaveLyrics(r)

CallStep(c) ==
  \/ SaveArrives(c) \/ PresignArrives(c) \/ PutArrives(c) \/ Submit(c)
  \/ LyricsRead(c) \/ LyricsWritten(c)
  \/ SaveAnswers(c) \/ CoverSaved(c) \/ Submitted(c)
  \/ PollReads(c) \/ PollAnswers(c) \/ CallRefused(c)

WorkerStep(r) == WorkerReads(r) \/ WorkerEnds(r) \/ WorkerFails(r)

StudioNext ==
  \/ UploadPage \/ YourUploads \/ CreatorHubPage
  \/ \E c \in Calls : CallStep(c) \/ PollFails(c) \/ CallFails(c)
  \/ \E r \in Rows : WorkerStep(r)

-----------------------------------------------------------------------------
(* Properties *)

\* A track that is uploaded in the wizard keeps the metadata of its own flow:
\* an upload begun with "Upload another" never writes over the track before it,
\* unless the answer of an earlier flow's save came after the reset.
DraftKeepsItsFlow ==
  [][\A r \in Rows :
       row[r].meta.form # 0 => late \/ row'[r].meta.form = row[r].meta.form]_studioVars

\* An upload or a retry ends in a verdict, whatever the worker does: the poll gives
\* up after its attempts, and every failure is shown.
WizardSettles ==
  wizard.step \in {"uploading", "processing"} ~>
    wizard.step \notin {"uploading", "processing"}
=============================================================================
