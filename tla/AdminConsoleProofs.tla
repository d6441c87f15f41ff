------------------------- MODULE AdminConsoleProofs ------------------------
(***************************************************************************)
(* Proofs about the creator's pages and the moderation console together    *)
(* (AdminConsole), for any number of tracks, calls, tries and flows.       *)
(* SoloInv says which preview is registered while one plays or loads,      *)
(* FlowInv that a draft, and each call about it, is of the present flow    *)
(* unless a reset came between.                                            *)
(***************************************************************************)
EXTENDS AdminConsole, FiniteSetTheorems, TLAPS

Ids == Rows \cup {NoRow}
RowStatuses == {"none", "draft", "failed", "processing", "pending_review", "approved",
                "published"}
MetaType == [form : Nat, lyrics : BOOLEAN, hls : BOOLEAN]
RowType == [status : RowStatuses, meta : MetaType, master : {"none", "key", "stored"}]
WorkerType == [at : {"idle", "runs"}, meta : MetaType]
Shown == [id : Ids, status : RowStatuses]
WizardType == [step : {"metadata", "audio", "uploading", "processing", "done", "error"},
               flow : Nat, filled : BOOLEAN, draft : Ids, shown : Shown, retrying : Ids]
CallKinds == {"none", "save", "audio", "retry", "lyrics", "poll"}
CallPlaces == {"idle", "sent", "saved", "cover", "presigned", "stored", "queued", "read",
               "sleeps"}
CallRecord == [kind : CallKinds, at : CallPlaces, id : Ids, flow : Nat, tries : Nat,
               status : RowStatuses, meta : MetaType]
\* A call that reads or writes a track has one.
CallType == {k \in CallRecord :
               /\ k.kind \in CallKinds \ {"none", "save"} => k.id \in Rows
               /\ k.at = "read" => k.kind \in {"poll", "lyrics"}}
DeedKinds == {"none", "load", "open", "approve", "reject", "save", "publish"}
DeedRecord == [kind : DeedKinds, at : {"idle", "sent", "read", "done"}, id : Ids,
               meta : MetaType, list : SUBSET Rows, closes : BOOLEAN]
DeedType == {d \in DeedRecord :
               /\ d.kind \notin {"none", "load"} => d.id \in Rows
               /\ d.at = "read" => d.kind \in {"save", "publish"}}
ConsoleType == [key : BOOLEAN, authed : BOOLEAN, list : SUBSET Rows, panel : Ids,
                loaded : BOOLEAN]

\* The types of both sides.
Types ==
  /\ row \in [Rows -> RowType] /\ worker \in [Rows -> WorkerType]
  /\ wizard \in WizardType /\ call \in [Calls -> CallType] /\ late \in BOOLEAN
  /\ deed \in DeedType /\ console \in ConsoleType
  /\ sound \in [Rows -> {"silent", "asked", "playing", "orphan"}] /\ mixed \in BOOLEAN

\* The call that a page begins is one that was idle.
LEMMA Begun ==
  ASSUME Types, NEW kind \in CallKinds, NEW id \in Ids, Begin(kind, id),
         kind # "save" => id \in Rows
  PROVE  \E c \in Calls :
           /\ call[c].at = "idle"
           /\ call' = [call EXCEPT ![c] = [NoCall EXCEPT !.kind = kind, !.at = "sent",
                                                        !.id = id, !.flow = wizard.flow]]
           /\ call' \in [Calls -> CallType]
<1> DEFINE c == CHOOSE k \in {k \in Calls : call[k].at = "idle"} : TRUE
           New == [NoCall EXCEPT !.kind = kind, !.at = "sent", !.id = id, !.flow = wizard.flow]
<1>1. c \in Calls /\ call[c].at = "idle"
  BY DEF Begin
<1>2. New \in CallType
  <2>1. wizard.flow \in Nat
    BY DEF Types, WizardType
  <2>2. NoMeta \in MetaType
    BY DEF NoMeta, MetaType
  <2>3. NoCall \in CallRecord
    BY <2>2 DEF NoCall, CallRecord, CallKinds, CallPlaces, RowStatuses, Ids
  <2>4. New \in CallRecord /\ New.kind = kind /\ New.at = "sent" /\ New.id = id
    BY <2>1, <2>3 DEF CallRecord, CallPlaces
  <2>5. QED
    BY <2>4 DEF CallType
<1>3. call' = [call EXCEPT ![c] = New]
  BY DEF Begin
<1> HIDE DEF c, New
<1>4. call' \in [Calls -> CallType]
  BY <1>1, <1>2, <1>3 DEF Types
<1>5. QED
  BY <1>1, <1>3, <1>4 DEF New

\* The pages' and the server's steps keep the types.
LEMMA StudioTypes == Types /\ StudioNext /\ UNCHANGED consoleVars => Types'
<1> SUFFICES ASSUME Types, StudioNext, UNCHANGED consoleVars PROVE Types'
  OBVIOUS
<1> DEFINE RowsOK == row' \in [Rows -> RowType]
           WorkersOK == worker' \in [Rows -> WorkerType]
           CallsOK == call' \in [Calls -> CallType]
           WizardOK == wizard' \in WizardType
<1>0. ASSUME NEW kind \in CallKinds, NEW id \in Ids, kind # "save" => id \in Rows,
             Begin(kind, id)
      PROVE  CallsOK
  BY <1>0, Begun
<1>1. SUFFICES RowsOK /\ WorkersOK /\ CallsOK /\ WizardOK /\ late' \in BOOLEAN
  BY DEF Types, consoleVars
<1>2. ASSUME NEW r \in Rows, HandleRetry(r)
      PROVE  RowsOK /\ WorkersOK /\ CallsOK /\ WizardOK /\ late' \in BOOLEAN
  <2>1. CallsOK
    BY <1>0, <1>2 DEF HandleRetry, CallKinds, Ids
  <2>2. WizardOK
    BY <1>2 DEF HandleRetry, Types, WizardType, Ids
  <2>3. QED
    BY <1>2, <2>1, <2>2 DEF HandleRetry, Types
<1>3. CASE UploadPage \/ YourUploads \/ CreatorHubPage
  <2>1. CASE EditForm \/ Back \/ Refresh
    <3>1. WizardOK
      BY <2>1 DEF EditForm, Back, Refresh, Types, WizardType
    <3>2. QED
      BY <2>1, <3>1 DEF EditForm, Back, Refresh, Types
  <2>2. CASE SaveMetadata
    <3>1. wizard.draft \in Ids
      BY DEF Types, WizardType
    <3>2. QED
      BY <1>0, <2>2, <3>1 DEF SaveMetadata, CallKinds, Types
  <2>3. CASE UploadAudio
    <3>1. wizard.draft \in Rows
      BY <2>3 DEF UploadAudio, Types, WizardType, Ids
    <3>2. CallsOK
      BY <1>0, <2>3, <3>1 DEF UploadAudio, CallKinds, Ids
    <3>3. WizardOK
      BY <2>3 DEF UploadAudio, Types, WizardType
    <3>4. QED
      BY <2>3, <3>2, <3>3 DEF UploadAudio, Types
  <2>4. CASE ResetFlow
    <3>1. NoShown \in Shown
      BY DEF NoShown, Shown, Ids, RowStatuses
    <3> DEFINE flow == wizard.flow + 1
    <3>2. flow \in Nat /\ wizard.retrying \in Ids
      BY DEF Types, WizardType
    <3>3. wizard' = [FreshWizard EXCEPT !.flow = flow, !.retrying = wizard.retrying]
      BY <2>4 DEF ResetFlow
    <3> HIDE DEF flow
    <3>4. FreshWizard \in WizardType
      BY <3>1 DEF FreshWizard, WizardType, Ids
    <3>5. WizardOK
      BY <3>2, <3>3, <3>4 DEF WizardType
    <3>6. QED
      BY <2>4, <3>5 DEF ResetFlow, Types
  <2>5. ASSUME NEW r \in Rows, SaveLyrics(r)
        PROVE  RowsOK /\ WorkersOK /\ CallsOK /\ WizardOK /\ late' \in BOOLEAN
    <3>1. CallsOK
      BY <1>0, <2>5 DEF SaveLyrics, CallKinds, Ids
    <3>2. QED
      BY <2>5, <3>1 DEF SaveLyrics, Types
  <2>6. QED
    BY <1>2, <1>3, <2>1, <2>2, <2>3, <2>4, <2>5 DEF UploadPage, YourUploads, CreatorHubPage
<1>4. ASSUME NEW c \in Calls, CallStep(c) \/ PollFails(c) \/ CallFails(c)
      PROVE  RowsOK /\ WorkersOK /\ CallsOK /\ WizardOK /\ late' \in BOOLEAN
  <2>0. /\ call[c].kind \in CallKinds /\ call[c].at \in CallPlaces /\ call[c].id \in Ids
        /\ call[c].flow \in Nat /\ call[c].tries \in Nat
        /\ call[c].status \in RowStatuses /\ call[c].meta \in MetaType
        /\ call[c].kind \in CallKinds \ {"none", "save"} => call[c].id \in Rows
        /\ call[c].at = "read" => call[c].kind \in {"poll", "lyrics"}
    BY DEF Types, CallType, CallRecord
  <2>1. ASSUME Ends(c) PROVE CallsOK
    <3>1. NoMeta \in MetaType
      BY DEF NoMeta, MetaType
    <3>2. NoCall \in CallType
      BY <3>1 DEF NoCall, CallType, CallRecord, CallKinds, CallPlaces, RowStatuses, Ids
    <3>3. QED
      BY <2>1, <3>2 DEF Ends, Types
  <2>2. ASSUME NEW at \in CallPlaces \ {"read"}, call[c].at # "idle", Moves(c, at)
        PROVE  CallsOK
    <3>1. [call[c] EXCEPT !.at = at] \in CallType
      BY <2>0, <2>2 DEF Types, CallType, CallRecord
    <3>2. QED
      BY <2>2, <3>1 DEF Moves, Types
  <2>3. CASE SaveArrives(c)
    <3> DEFINE m == [NoMeta EXCEPT !.form = call[c].flow]
    <3>1. PICK r \in Rows :
            /\ row' = [row EXCEPT ![r].status = IF @ = "none" THEN "draft" ELSE @,
                                  ![r].meta = m]
            /\ call' = [call EXCEPT ![c].at = "saved", ![c].id = r]
      BY <2>3 DEF SaveArrives
    <3>2. m \in MetaType
      BY <2>0 DEF NoMeta, MetaType
    <3> HIDE DEF m
    <3>3. RowsOK
      <4>1. row[r] \in RowType
        BY DEF Types
      <4>2. [row[r] EXCEPT !.status = IF @ = "none" THEN "draft" ELSE @, !.meta = m] \in RowType
        BY <3>2, <4>1 DEF RowType, RowStatuses
      <4>3. row' = [row EXCEPT ![r] = [row[r] EXCEPT !.status = IF @ = "none" THEN "draft" ELSE @,
                                                     !.meta = m]]
        BY <3>1, <4>1 DEF Types
      <4>4. QED
        BY <4>2, <4>3 DEF Types
    <3>4. CallsOK
      <4>1. [call[c] EXCEPT !.at = "saved", !.id = r] \in CallType
        BY <2>0, ZenonT(40) DEF Types, CallType, CallRecord, CallPlaces, Ids
      <4>2. call' = [call EXCEPT ![c] = [call[c] EXCEPT !.at = "saved", !.id = r]]
        BY <3>1 DEF Types
      <4>3. QED
        BY <4>1, <4>2 DEF Types
    <3>5. QED
      BY <2>3, <3>3, <3>4 DEF SaveArrives, client, Types
  <2>4. CASE PresignArrives(c)
    <3>1. RowsOK
      BY <2>4, ZenonT(40) DEF PresignArrives, Types, RowType
    <3>2. QED
      BY <2>2, <2>4, <3>1 DEF PresignArrives, Is, CallPlaces, client, Types
  <2>5. CASE PutArrives(c)
    <3>1. RowsOK
      BY <2>5 DEF PutArrives, Types, RowType
    <3>2. QED
      BY <2>2, <2>5, <3>1 DEF PutArrives, Is, CallPlaces, client, Types
  <2>6. CASE Submit(c)
    <3>1. RowsOK
      BY <2>6, ZenonT(40) DEF Submit, Types, RowType, RowStatuses
    <3>2. CallsOK
      BY <2>2, <2>6 DEF Submit, Is, CallPlaces
    <3>3. QED
      BY <2>6, <3>1, <3>2 DEF Submit, client, Types
  <2>7. CASE LyricsRead(c)
    <3>1. call[c].kind = "lyrics" /\ call[c].id \in Rows
      BY <2>0, <2>7 DEF LyricsRead, Is, CallKinds
    <3>2. row[call[c].id].meta \in MetaType
      BY <3>1 DEF Types, RowType
    <3> DEFINE m == row[call[c].id].meta
    <3> HIDE DEF m
    <3>3. [call[c] EXCEPT !.at = "read", !.meta = m] \in CallType
      BY <2>0, <3>1, <3>2, ZenonT(40) DEF m, Types, CallType, CallRecord, CallPlaces
    <3>4. call' = [call EXCEPT ![c] = [call[c] EXCEPT !.at = "read", !.meta = m]]
      BY <2>7 DEF LyricsRead, m, Types
    <3>5. CallsOK
      BY <3>3, <3>4 DEF Types
    <3>6. QED
      BY <2>7, <3>5 DEF LyricsRead, client, Types
  <2>8. CASE LyricsWritten(c)
    <3>1. WithLyrics(call[c].meta) \in MetaType
      BY <2>0 DEF WithLyrics, MetaType
    <3>2. RowsOK
      BY <2>8, <3>1 DEF LyricsWritten, Types, RowType
    <3>3. QED
      BY <2>1, <2>8, <3>2 DEF LyricsWritten, client, Types
  <2>9. CASE SaveAnswers(c)
    <3>1. WizardOK
      BY <2>0, <2>9 DEF SaveAnswers, Types, WizardType
    <3>2. CallsOK
      BY <2>1, <2>2, <2>9 DEF SaveAnswers, Is, CallPlaces
    <3>3. QED
      BY <2>9, <3>1, <3>2 DEF SaveAnswers, Types
  <2>10. CASE CoverSaved(c)
    <3>1. WizardOK
      BY <2>10 DEF CoverSaved, Types, WizardType
    <3>2. QED
      BY <2>1, <2>10, <3>1 DEF CoverSaved, Types
  <2>11. CASE Submitted(c)
    <3>1. [id |-> call[c].id, status |-> "processing"] \in Shown
      BY <2>0 DEF Shown, RowStatuses
    <3>2. WizardOK
      BY <2>11, <3>1 DEF Submitted, Types, WizardType, Ids
    <3>3. [call[c] EXCEPT !.kind = "poll", !.at = "sleeps"] \in CallType
      BY <2>0, <2>11 DEF Submitted, Types, CallType, CallRecord, CallKinds, CallPlaces
    <3>4. call' = [call EXCEPT ![c] = [call[c] EXCEPT !.kind = "poll", !.at = "sleeps"]]
      BY <2>11 DEF Submitted, Types
    <3>5. CallsOK
      BY <3>3, <3>4 DEF Types
    <3>6. QED
      BY <2>11, <3>2, <3>5 DEF Submitted, Types
  <2>12. CASE PollReads(c)
    <3>1. call[c].kind = "poll" /\ call[c].id \in Rows
      BY <2>0, <2>12 DEF PollReads, Is, CallKinds
    <3> DEFINE status == row[call[c].id].status
    <3>2. status \in RowStatuses
      BY <3>1 DEF Types, RowType
    <3> HIDE DEF status
    <3>3. [call[c] EXCEPT !.at = "read", !.status = status] \in CallType
      BY <2>0, <3>1, <3>2 DEF Types, CallType, CallRecord, CallPlaces
    <3>4. call' = [call EXCEPT ![c] = [call[c] EXCEPT !.at = "read", !.status = status]]
      BY <2>12 DEF PollReads, status, Types
    <3>5. CallsOK
      BY <3>3, <3>4 DEF Types
    <3>6. QED
      BY <2>12, <3>5 DEF PollReads, client, Types
  <2>13. ASSUME NEW shown \in Shown, Again(c, shown), call[c].kind = "poll"
         PROVE  CallsOK /\ WizardOK
    <3>1. CASE call[c].tries + 1 < Tries
      <4> DEFINE n == call[c].tries + 1
      <4>0. n \in Nat
        BY <2>0
      <4> HIDE DEF n
      <4>1. [call[c] EXCEPT !.at = "sleeps", !.tries = n] \in CallType
        BY <2>0, <2>13, <4>0 DEF Types, CallType, CallRecord, CallPlaces
      <4>2. call' = [call EXCEPT ![c] = [call[c] EXCEPT !.at = "sleeps", !.tries = n]]
        BY <2>13, <3>1 DEF Again, n, Types
      <4>3. CallsOK
        BY <4>1, <4>2 DEF Types
      <4>4. WizardOK
        BY <2>13, <3>1 DEF Again, Types, WizardType
      <4>5. QED
        BY <4>3, <4>4
    <3>2. CASE ~(call[c].tries + 1 < Tries)
      <4>1. WizardOK
        BY <2>13, <3>2 DEF Again, Types, WizardType
      <4>2. QED
        BY <2>1, <2>13, <3>2, <4>1 DEF Again
    <3>3. QED
      BY <3>1, <3>2
  <2>14. CASE PollAnswers(c)
    <3> DEFINE shown == [id |-> call[c].id, status |-> call[c].status]
    <3>1. shown \in Shown
      BY <2>0 DEF Shown
    <3> HIDE DEF shown
    <3>2. CASE Again(c, shown)
      BY <2>13, <2>14, <3>1, <3>2 DEF PollAnswers, Is, Types
    <3>3. CASE /\ wizard' = [wizard EXCEPT !.shown = shown,
                               !.step = IF shown.status = "failed" THEN "error" ELSE "done"]
               /\ Ends(c)
      <4>1. WizardOK
        BY <3>1, <3>3 DEF Types, WizardType
      <4>2. QED
        BY <2>1, <2>14, <3>3, <4>1 DEF PollAnswers, Types
    <3>4. QED
      BY <2>14, <3>2, <3>3 DEF PollAnswers, shown
  <2>15. CASE PollFails(c)
    <3>1. wizard.shown \in Shown
      BY DEF Types, WizardType
    <3>2. QED
      BY <2>13, <2>15, <3>1 DEF PollFails, Types
  <2>16. CASE CallRefused(c) \/ CallFails(c)
    <3>1. WizardOK
      BY <2>16 DEF CallRefused, CallFails, Stops, Types, WizardType, Ids
    <3>2. QED
      BY <2>1, <2>16, <3>1 DEF CallRefused, CallFails, Types
  <2>17. QED
    BY <1>4, <2>3, <2>4, <2>5, <2>6, <2>7, <2>8, <2>9, <2>10, <2>11, <2>12, <2>14, <2>15,
       <2>16 DEF CallStep
<1>5. ASSUME NEW r \in Rows, WorkerStep(r)
      PROVE  RowsOK /\ WorkersOK /\ CallsOK /\ WizardOK /\ late' \in BOOLEAN
  <2>1. row[r].meta \in MetaType /\ worker[r].meta \in MetaType
    BY DEF Types, RowType, WorkerType
  <2>2. CASE WorkerReads(r)
    <3>1. [at |-> "runs", meta |-> row[r].meta] \in WorkerType
      BY <2>1 DEF WorkerType
    <3>2. QED
      BY <2>2, <3>1 DEF WorkerReads, Types
  <2>3. CASE WorkerEnds(r)
    <3> DEFINE m == [worker[r].meta EXCEPT !.hls = TRUE]
    <3>1. m \in MetaType
      BY <2>1 DEF MetaType
    <3> HIDE DEF m
    <3>2. [row[r] EXCEPT !.meta = m, !.status = "pending_review"] \in RowType
      BY <3>1 DEF Types, RowType, RowStatuses
    <3>3. row' = [row EXCEPT ![r] = [row[r] EXCEPT !.meta = m, !.status = "pending_review"]]
      BY <2>3 DEF WorkerEnds, m, Types
    <3>4. RowsOK
      BY <3>2, <3>3 DEF Types
    <3>5. WorkersOK
      BY <2>3 DEF WorkerEnds, Types, WorkerType
    <3>6. QED
      BY <2>3, <3>4, <3>5 DEF WorkerEnds, Types
  <2>4. CASE WorkerFails(r)
    <3>1. RowsOK
      BY <2>4, SMTT(20) DEF WorkerFails, Types, RowType, RowStatuses
    <3>2. WorkersOK
      BY <2>4 DEF WorkerFails, Types, WorkerType
    <3>3. QED
      BY <2>4, <3>1, <3>2 DEF WorkerFails, Types
  <2>5. QED
    BY <1>5, <2>2, <2>3, <2>4 DEF WorkerStep
<1>6. QED
  BY <1>2, <1>3, <1>4, <1>5 DEF StudioNext

\* The console and what the moderator does leave the creator's side alone, but for
\* the tracks.
LEMMA CreatorsSide ==
  AdminPage \/ AdminPendingTrackPanel \/ ConsoleStep => UNCHANGED others
BY DEF AdminPage, AdminPendingTrackPanel, ConsoleStep, Login, Logout, LoadList, Approve,
   Reject, Review, Toggle, ClosePanel, PanelFooter, SaveChanges, Publish, PanelReject,
   PanelToggle, ServerStep, ListRead, TrackRead, VerdictArrives, ModerationReads,
   ModerationWrites, Listed, Done, Opened, DeedRefused, DeedFails, PanelPlays, Plays,
   PreviewFails, Does, Preview

\* The console's steps keep the types.
LEMMA ConsoleTypes ==
  Types /\ (AdminPage \/ AdminPendingTrackPanel \/ ConsoleStep) => Types'
<1> SUFFICES ASSUME Types, AdminPage \/ AdminPendingTrackPanel \/ ConsoleStep PROVE Types'
  OBVIOUS
<1> DEFINE RowsOK == row' \in [Rows -> RowType]
           DeedOK == deed' \in DeedType
           PageOK == console' \in ConsoleType
           SoundOK == sound' \in [Rows -> {"silent", "asked", "playing", "orphan"}]
           All == RowsOK /\ DeedOK /\ PageOK /\ SoundOK /\ mixed' \in BOOLEAN
<1>0. /\ deed.kind \in DeedKinds /\ deed.at \in {"idle", "sent", "read", "done"}
      /\ deed.id \in Ids /\ deed.meta \in MetaType /\ deed.list \in SUBSET Rows
      /\ deed.closes \in BOOLEAN
      /\ deed.kind \notin {"none", "load"} => deed.id \in Rows
      /\ deed.at = "read" => deed.kind \in {"save", "publish"}
      /\ console.list \in SUBSET Rows /\ console.panel \in Ids /\ console.key \in BOOLEAN
      /\ console.authed \in BOOLEAN /\ console.loaded \in BOOLEAN
  BY DEF Types, DeedType, DeedRecord, ConsoleType
<1>1. UNCHANGED others
  BY CreatorsSide
<1>2. SUFFICES All
  BY <1>1 DEF Types, others
<1>3. NoDeed \in DeedRecord /\ NoDeed.kind = "none" /\ NoDeed.at = "idle"
  <2>1. NoMeta \in MetaType
    BY DEF NoMeta, MetaType
  <2>2. QED
    BY <2>1 DEF NoDeed, DeedRecord, DeedKinds, Ids
<1>4. ASSUME deed' = NoDeed
      PROVE  DeedOK
  BY <1>3, <1>4 DEF DeedType
<1>5. ASSUME NEW kind \in DeedKinds, NEW id \in Ids, NEW closes \in BOOLEAN,
             kind \notin {"none", "load"} => id \in Rows, Does(kind, id, closes)
      PROVE  All
  <2>1. DeedOK
    BY <1>3, <1>5 DEF Does, DeedType, DeedRecord
  <2>2. QED
    BY <1>5, <2>1 DEF Does, previews, Types
<1>6. ASSUME NEW gone \in SUBSET Rows, Unmounts(gone)
      PROVE  SoundOK /\ mixed' \in BOOLEAN
  BY <1>6 DEF Unmounts, Types
<1>7. CASE LoadList \/ \E r \in Rows : Approve(r) \/ Reject(r)
  BY <1>5, <1>7 DEF LoadList, Approve, Reject, DeedKinds, Ids
<1>8. CASE PanelFooter
  <2>1. console.panel \in Rows
    BY <1>0, <1>8 DEF PanelFooter, SaveChanges, Publish, PanelReject, PanelForm, Ids
  <2>2. QED
    BY <1>5, <1>8, <2>1 DEF PanelFooter, SaveChanges, Publish, PanelReject, DeedKinds, Ids
<1>9. CASE Login
  <2>1. DeedOK
    BY <1>3, <1>9 DEF Login, DeedType, DeedRecord, DeedKinds
  <2>2. PageOK
    BY <1>9 DEF Login, Types, ConsoleType
  <2>3. QED
    BY <1>9, <2>1, <2>2 DEF Login, previews, Types
<1>10. CASE Logout
  <2>1. PageOK
    BY <1>10 DEF Logout, Types, ConsoleType
  <2>2. QED
    BY <1>0, <1>6, <1>10, <2>1 DEF Logout, Types
<1>11. ASSUME NEW r \in Rows, Review(r)
       PROVE  All
  <2>1. DeedOK
    BY <1>3, <1>11 DEF Review, DeedType, DeedRecord, DeedKinds, Ids
  <2>2. PageOK
    BY <1>11 DEF Review, Types, ConsoleType, Ids
  <2>3. QED
    BY <1>11, <2>1, <2>2 DEF Review, previews, Types
<1>12. ASSUME NEW r \in Rows, Toggle(r) \/ Plays(r) \/ PreviewFails(r)
       PROVE  All
  BY <1>12 DEF Toggle, Plays, PreviewFails, Preview, Types
<1>13. CASE ClosePanel
  <2>1. PageOK
    BY <1>13 DEF ClosePanel, Types, ConsoleType, Ids
  <2>2. QED
    BY <1>13, <2>1 DEF ClosePanel, Types
<1>14. CASE PanelToggle \/ PanelPlays
  BY <1>14 DEF PanelToggle, PanelPlays, Preview, Types
<1>15. CASE ListRead
  <2>1. Pending \in SUBSET Rows
    BY DEF Pending
  <2>2. DeedOK
    BY <1>0, <1>15, <2>1 DEF ListRead, Types, DeedType, DeedRecord
  <2>3. QED
    BY <1>15, <2>2 DEF ListRead, page, previews, Types
<1>16. ASSUME deed' = [deed EXCEPT !.at = "done"]
       PROVE  DeedOK
  BY <1>0, <1>16 DEF Types, DeedType, DeedRecord
<1>17. CASE TrackRead
  BY <1>16, <1>17 DEF TrackRead, page, previews, Types
<1>18. CASE VerdictArrives
  <2>1. RowsOK
    BY <1>18, ZenonT(40) DEF VerdictArrives, Types, RowType, RowStatuses
  <2>2. QED
    BY <1>16, <1>18, <2>1 DEF VerdictArrives, page, previews, Types
<1>19. CASE ModerationReads
  <2>1. deed.kind \in {"save", "publish"}
    BY <1>19 DEF ModerationReads, Sent
  <2> DEFINE m == row[deed.id].meta
  <2>2. m \in MetaType
    BY <1>0, <2>1 DEF Types, RowType
  <2>3. deed' = [deed EXCEPT !.at = "read", !.meta = m]
    BY <1>19 DEF ModerationReads
  <2> HIDE DEF m
  <2>4. DeedOK
    BY <1>0, <2>1, <2>2, <2>3 DEF Types, DeedType, DeedRecord
  <2>5. QED
    BY <1>19, <2>4 DEF ModerationReads, page, previews, Types
<1>20. CASE ModerationWrites
  <2> DEFINE m == Merged(deed.meta)
             status == IF deed.kind = "publish" THEN "published" ELSE row[deed.id].status
  <2>1. deed.id \in Rows
    BY <1>0, <1>20 DEF ModerationWrites
  <2>2. m \in MetaType /\ status \in RowStatuses
    BY <1>0, <2>1 DEF Merged, Types, RowType, RowStatuses
  <2>3. row' = [row EXCEPT ![deed.id] = [row[deed.id] EXCEPT !.meta = m, !.status = status]]
    BY <1>20, <2>1 DEF ModerationWrites, Types, RowType
  <2> HIDE DEF m, status
  <2>4. [row[deed.id] EXCEPT !.meta = m, !.status = status] \in RowType
    BY <2>1, <2>2 DEF Types, RowType
  <2>5. RowsOK
    BY <2>3, <2>4 DEF Types
  <2>6. QED
    BY <1>16, <1>20, <2>5 DEF ModerationWrites, page, previews, Types
<1>21. CASE Listed
  <2>1. PageOK
    BY <1>0, <1>21 DEF Listed, Types, ConsoleType, Ids
  <2>2. QED
    BY <1>0, <1>4, <1>6, <1>21, <2>1 DEF Listed, Types
<1>22. CASE Done
  <2> DEFINE closes == deed.closes /\ deed.kind = "reject"
  <2>1. deed' = [NoDeed EXCEPT !.kind = "load", !.at = "sent", !.closes = closes]
    BY <1>22 DEF Done
  <2>2. closes \in BOOLEAN
    OBVIOUS
  <2> HIDE DEF closes
  <2>3. DeedOK
    BY <1>3, <2>1, <2>2 DEF DeedType, DeedRecord, DeedKinds
  <2>4. PageOK
    BY <1>0, <1>22 DEF Done, Types, ConsoleType, Ids
  <2>5. QED
    BY <1>22, <2>3, <2>4 DEF Done, Types
<1>23. CASE Opened
  <2>1. PageOK
    BY <1>0, <1>23 DEF Opened, Types, ConsoleType
  <2>2. QED
    BY <1>4, <1>23, <2>1 DEF Opened, previews, Types
<1>24. CASE DeedRefused
  <2>1. PageOK
    BY <1>0, <1>24 DEF DeedRefused, page, Types, ConsoleType
  <2>2. SoundOK /\ mixed' \in BOOLEAN
    BY <1>0, <1>6, <1>24 DEF DeedRefused, page, previews, Types
  <2>3. QED
    BY <1>4, <1>24, <2>1, <2>2 DEF DeedRefused, Types
<1>25. CASE DeedFails
  <2>1. PageOK
    BY <1>0, <1>25 DEF DeedFails, Types, ConsoleType
  <2>2. QED
    BY <1>4, <1>25, <2>1 DEF DeedFails, previews, Types
<1>26. QED
  BY <1>7, <1>8, <1>9, <1>10, <1>11, <1>12, <1>13, <1>14, <1>15, <1>17, <1>18, <1>19,
     <1>20, <1>21, <1>22, <1>23, <1>24, <1>25
     DEF AdminPage, AdminPendingTrackPanel, ServerStep, ConsoleStep

(* The pages of the creator and of the moderator, the server's tracks and  *)
(* the calls under way keep their types.                                   *)
THEOREM TypeCorrect == ConsoleSpec => []Types
<1>1. BothInit => Types
  <2> SUFFICES ASSUME BothInit PROVE Types
    OBVIOUS
  <2>1. NoMeta \in MetaType /\ \A f \in Nat : [NoMeta EXCEPT !.form = f] \in MetaType
    BY DEF NoMeta, MetaType
  <2>2. [NoMeta EXCEPT !.hls = TRUE] \in MetaType
    BY <2>1 DEF MetaType
  <2>3. {Absent, FailedRow(0), FailedRow(1), ReviewedRow} \subseteq RowType
    BY <2>1, <2>2 DEF Absent, FailedRow, ReviewedRow, RowType, RowStatuses
  <2>4. row \in [Rows -> RowType]
    BY <2>3 DEF BothInit, Init
  <2>5. NoShown \in Shown /\ \A r \in Rows : [id |-> r, status |-> "failed"] \in Shown
    BY DEF NoShown, Shown, Ids, RowStatuses
  <2>6. FreshWizard \in WizardType
    BY <2>5 DEF FreshWizard, WizardType, Ids
  <2>7. \A r \in Rows : FailedUpload(r) \in WizardType
    BY <2>5, <2>6 DEF FailedUpload, WizardType, Ids
  <2>8. wizard \in WizardType
    BY <2>6, <2>7 DEF BothInit, Init
  <2>9. NoCall \in CallType
    BY <2>1 DEF NoCall, CallType, CallRecord, CallKinds, CallPlaces, RowStatuses, Ids
  <2>10. call \in [Calls -> CallType] /\ worker \in [Rows -> WorkerType] /\ late \in BOOLEAN
    BY <2>1, <2>9 DEF BothInit, Init, WorkerType
  <2>11. NoDeed \in DeedType
    BY <2>1 DEF NoDeed, DeedType, DeedRecord, DeedKinds, Ids
  <2>12. console \in ConsoleType
    BY DEF BothInit, ConsoleInit, ConsoleType, Pending, Ids
  <2>13. QED
    BY <2>4, <2>8, <2>10, <2>11, <2>12 DEF BothInit, ConsoleInit, Types
<1>2. Types /\ [ConsoleNext]_allVars => Types'
  <2> SUFFICES ASSUME Types, [ConsoleNext]_allVars PROVE Types'
    OBVIOUS
  <2>1. CASE UNCHANGED allVars
    BY <2>1 DEF allVars, studioVars, consoleVars, Types
  <2>2. QED
    BY <2>1, StudioTypes, ConsoleTypes DEF ConsoleNext
<1>3. QED
  BY <1>1, <1>2, PTL DEF ConsoleSpec

-----------------------------------------------------------------------------
(* The previews *)

\* No preview but one is loaded or plays, and activeStop holds the one that plays.
SoloInv ==
  mixed \/ \A r \in Rows : sound[r] # "silent" =>
             /\ sound[r] # "orphan"
             /\ \A s \in Rows \ {r} : sound[s] = "silent"
             /\ sound[r] = "playing" => activeStop = r

(* SoloPreview: one preview of the list plays at a time, unless one was    *)
(* begun, or its button removed, while a preview was being loaded.         *)
THEOREM OnePreview == ConsoleSpec => []SoloPreview
<1>1. BothInit => SoloInv
  BY DEF BothInit, ConsoleInit, SoloInv
<1>2. Types /\ SoloInv /\ [ConsoleNext]_allVars => SoloInv'
  <2> SUFFICES ASSUME Types, SoloInv, [ConsoleNext]_allVars PROVE SoloInv'
    OBVIOUS
  <2>0. sound \in [Rows -> {"silent", "asked", "playing", "orphan"}] /\ mixed \in BOOLEAN
    BY DEF Types
  <2>1. CASE UNCHANGED <<sound, activeStop, mixed>>
    BY <2>1 DEF SoloInv
  <2>2. ASSUME NEW gone, Unmounts(gone)
        PROVE  SoloInv'
    BY <2>0, <2>2 DEF Unmounts, SoloInv
  <2>3. ASSUME NEW r \in Rows, Toggle(r)
        PROVE  SoloInv'
    <3>1. CASE sound[r] = "playing"
      BY <2>0, <2>3, <3>1 DEF Toggle, SoloInv
    <3>2. CASE sound[r] = "silent" /\ \E s \in Rows : sound[s] \in {"asked", "orphan"}
      BY <2>0, <2>3, <3>2 DEF Toggle, SoloInv
    <3>3. CASE sound[r] = "silent" /\ \A s \in Rows : sound[s] \in {"silent", "playing"}
      <4>1. CASE mixed
        BY <2>3, <3>3, <4>1 DEF Toggle, SoloInv
      <4>2. CASE ~mixed
        <5>1. \A s \in Rows : sound[s] = "playing" => activeStop = s
          BY <4>2 DEF SoloInv
        <5>2. \A s \in Rows : sound'[s] = IF s = r THEN "asked" ELSE "silent"
          BY <2>0, <2>3, <3>3, <5>1 DEF Toggle
        <5>3. QED
          BY <5>2 DEF SoloInv
      <4>3. QED
        BY <4>1, <4>2
    <3>4. QED
      BY <2>0, <2>3, <3>1, <3>2, <3>3 DEF Toggle
  <2>4. ASSUME NEW r \in Rows, Plays(r)
        PROVE  SoloInv'
    BY <2>0, <2>4 DEF Plays, SoloInv
  <2>5. ASSUME NEW r \in Rows, PreviewFails(r)
        PROVE  SoloInv'
    BY <2>0, <2>5 DEF PreviewFails, SoloInv
  <2>6. CASE AdminPage
    BY <2>1, <2>2, <2>3, <2>6 DEF AdminPage, Login, Logout, LoadList, Approve, Reject, Review,
       Does, previews
  <2>7. CASE AdminPendingTrackPanel
    BY <2>1, <2>7 DEF AdminPendingTrackPanel, ClosePanel, PanelFooter, SaveChanges, Publish,
       PanelReject, PanelToggle, Does, previews
  <2>8. CASE ConsoleStep
    BY <2>1, <2>2, <2>4, <2>5, <2>8 DEF ConsoleStep, ServerStep, ListRead, TrackRead,
       VerdictArrives, ModerationReads, ModerationWrites, Listed, Done, Opened, DeedRefused,
       DeedFails, PanelPlays, page, previews
  <2>9. QED
    BY <2>1, <2>6, <2>7, <2>8 DEF ConsoleNext, allVars, consoleVars
<1>3. SoloInv => SoloPreview
  <2> SUFFICES ASSUME SoloInv, ~mixed PROVE SoloPreview
    BY DEF SoloPreview
  <2> DEFINE heard == {r \in Rows : sound[r] = "playing"}
  <2>1. CASE heard = {}
    BY <2>1, FS_EmptySet DEF SoloPreview
  <2>2. ASSUME NEW r \in heard
        PROVE  SoloPreview
    <3>1. heard = {r}
      BY <2>2 DEF SoloInv
    <3>2. Cardinality(heard) = 1
      BY <3>1, FS_Singleton
    <3>3. QED
      BY <3>2 DEF SoloPreview
  <2>3. QED
    BY <2>1, <2>2
<1>4. QED
  BY <1>1, <1>2, <1>3, TypeCorrect, PTL DEF ConsoleSpec

-----------------------------------------------------------------------------
(* The metadata *)

\* A lyrics function that had read the metadata ends with its write, or fails.
LEMMA LyricsEnd ==
  ASSUME Types, ConsoleNext,
         NEW c \in Calls, Is(c, "lyrics", "read"), call'[c].at = "idle"
  PROVE  LyricsWritten(c) \/ (CallFails(c) /\ UNCHANGED row)
<1>1. call[c].kind = "lyrics" /\ call[c].at = "read" /\ call' # call
  BY DEF Is
<1>2. StudioNext
  BY <1>1, CreatorsSide DEF ConsoleNext, others
<1>3. ASSUME NEW kind \in CallKinds, NEW id \in Ids, Begin(kind, id),
             kind # "save" => id \in Rows
      PROVE  FALSE
  <2>1. PICK x \in Calls :
           /\ call[x].at = "idle"
           /\ call' = [call EXCEPT ![x] = [NoCall EXCEPT !.kind = kind, !.at = "sent",
                                                        !.id = id, !.flow = wizard.flow]]
    BY <1>3, Begun
  <2>2. x # c
    BY <1>1, <2>1
  <2>3. QED
    BY <1>1, <2>1, <2>2 DEF Types
<1>4. ASSUME NEW r \in Rows, HandleRetry(r) \/ SaveLyrics(r)
      PROVE  FALSE
  BY <1>3, <1>4 DEF HandleRetry, SaveLyrics, CallKinds, Ids
<1>5. ~SaveMetadata /\ ~UploadAudio
  BY <1>3 DEF SaveMetadata, UploadAudio, CallKinds, Ids, Types, WizardType
<1>6. PICK x \in Calls : CallStep(x) \/ PollFails(x) \/ CallFails(x)
  BY <1>1, <1>2, <1>4, <1>5 DEF StudioNext, UploadPage, YourUploads, CreatorHubPage, EditForm,
     Back, ResetFlow, Refresh, WorkerStep, WorkerReads, WorkerEnds, WorkerFails
<1>7. x = c
  BY <1>1, <1>6 DEF CallStep, SaveArrives, PresignArrives, PutArrives, Submit, LyricsRead,
     LyricsWritten, SaveAnswers, CoverSaved, Submitted, PollReads, PollAnswers, PollFails,
     CallRefused, CallFails, Again, Moves, Ends, Types
<1>8. QED
  BY <1>1, <1>6, <1>7 DEF CallStep, Is, SaveArrives, PresignArrives, PutArrives, Submit,
     LyricsRead, SaveAnswers, CoverSaved, Submitted, PollReads, PollAnswers, PollFails,
     CallRefused, Refusable, CallFails

(* NoFieldDropped: no writer of the metadata drops the lyrics or the hls   *)
(* entry that it had read and that is still there.                         *)
THEOREM FieldsKept == ConsoleSpec => NoFieldDropped
<1> DEFINE kept(r, read) ==
             /\ read.lyrics /\ row[r].meta.lyrics => row'[r].meta.lyrics
             /\ read.hls /\ row[r].meta.hls => row'[r].meta.hls
           Kept == \A r \in Rows :
             /\ deed.at = "read" /\ deed.id = r /\ deed'.at = "done" => kept(r, deed.meta)
             /\ worker[r].at = "runs" /\ worker'[r].at = "idle" => kept(r, worker[r].meta)
             /\ \A c \in Calls :
                  Is(c, "lyrics", "read") /\ call[c].id = r /\ call'[c].at = "idle" =>
                    kept(r, call[c].meta)
<1>1. Types /\ [ConsoleNext]_allVars => [Kept]_allVars
  <2> SUFFICES ASSUME Types, ConsoleNext, NEW r \in Rows
               PROVE  /\ deed.at = "read" /\ deed.id = r /\ deed'.at = "done" => kept(r, deed.meta)
                      /\ worker[r].at = "runs" /\ worker'[r].at = "idle" => kept(r, worker[r].meta)
                      /\ \A c \in Calls :
                           Is(c, "lyrics", "read") /\ call[c].id = r /\ call'[c].at = "idle" =>
                             kept(r, call[c].meta)
    OBVIOUS
  <2>0. row \in [Rows -> RowType] /\ row[r].meta \in MetaType
    BY DEF Types, RowType
  <2>1. ASSUME deed.at = "read", deed.id = r, deed'.at = "done"
        PROVE  kept(r, deed.meta)
    <3>1. ModerationWrites \/ UNCHANGED row
      BY <2>1 DEF ConsoleNext, consoleVars, AdminPage, AdminPendingTrackPanel, ConsoleStep, Login,
         Logout, LoadList, Approve, Reject, Review, Toggle, ClosePanel, PanelFooter, SaveChanges,
         Publish, PanelReject, PanelToggle, ServerStep, ListRead, TrackRead, VerdictArrives, Sent,
         ModerationReads, Listed, Done, Opened, DeedRefused, DeedFails, PanelPlays, Plays,
         PreviewFails, Does, Preview
    <3>2. QED
      BY <2>0, <2>1, <3>1 DEF ModerationWrites, Merged, RowType
  <2>2. ASSUME worker[r].at = "runs", worker'[r].at = "idle"
        PROVE  kept(r, worker[r].meta)
    <3>1. \E x \in Rows : WorkerStep(x)
      BY <2>2, CreatorsSide DEF ConsoleNext, others, StudioNext, UploadPage, YourUploads, CreatorHubPage,
         EditForm, SaveMetadata, Back, UploadAudio, ResetFlow, HandleRetry, Refresh, SaveLyrics,
         CallStep, SaveArrives, PresignArrives, PutArrives, Submit, LyricsRead, LyricsWritten,
         SaveAnswers, CoverSaved, Submitted, PollReads, PollAnswers, PollFails, CallRefused,
         CallFails, client
    <3>2. PICK x \in Rows : WorkerStep(x)
      BY <3>1
    <3>3. x = r /\ (WorkerEnds(r) \/ WorkerFails(r))
      BY <2>2, <3>2 DEF WorkerStep, WorkerReads, WorkerEnds, WorkerFails, Types
    <3>4. worker[r].meta \in MetaType
      BY DEF Types, WorkerType
    <3>5. CASE WorkerEnds(r)
      <4>1. row'[r].meta = [worker[r].meta EXCEPT !.hls = TRUE]
        BY <2>0, <3>5 DEF WorkerEnds, RowType
      <4>2. QED
        BY <3>4, <4>1 DEF MetaType
    <3>6. CASE WorkerFails(r)
      BY <2>0, <3>6 DEF WorkerFails, RowType
    <3>7. QED
      BY <3>3, <3>5, <3>6, SMTT(20)
  <2>3. ASSUME NEW c \in Calls, Is(c, "lyrics", "read"), call[c].id = r, call'[c].at = "idle"
        PROVE  kept(r, call[c].meta)
    <3>1. CASE LyricsWritten(c)
      <4>1. row'[r].meta = WithLyrics(call[c].meta) /\ call[c].meta \in MetaType
        BY <2>0, <2>3, <3>1 DEF LyricsWritten, RowType, Types, CallType, CallRecord
      <4>2. QED
        BY <4>1 DEF WithLyrics, MetaType
    <3>2. QED
      BY <2>0, <2>3, <3>1, LyricsEnd
  <2>4. QED
    BY <2>1, <2>2, <2>3
<1>2. QED
  BY <1>1, TypeCorrect, PTL DEF ConsoleSpec, NoFieldDropped

-----------------------------------------------------------------------------
(* The flows of the wizard *)

\* The form that track r was filled in with is that of flow f.
OfFlow(r, f) == row[r].status # "none" /\ row[r].meta.form = f

\* Until a save is answered to a wizard that was reset: the draft of the wizard and
\* that of each save is of its flow, and whoever has read the metadata of a track has
\* read the form that the track still has.
FlowInv ==
  late \/ /\ \A r \in Rows : row[r].status = "none" => row[r].meta.form = 0
          /\ wizard.draft # NoRow => OfFlow(wizard.draft, wizard.flow)
          /\ \A c \in Calls : call[c].kind = "save" /\ call[c].id # NoRow =>
               OfFlow(call[c].id, call[c].flow)
          /\ \A r \in Rows : worker[r].at = "runs" => OfFlow(r, worker[r].meta.form)
          /\ \A c \in Calls : Is(c, "lyrics", "read") => OfFlow(call[c].id, call[c].meta.form)
          /\ deed.at = "read" => OfFlow(deed.id, deed.meta.form)

\* What a step must not do to the forms, and what it may begin.
RowsFine ==
  /\ \A r \in Rows : row'[r].status = "none" => row'[r].meta.form = 0
  /\ \A r \in Rows : \A f \in Nat : OfFlow(r, f) => OfFlow(r, f)'
WizardFine ==
  \/ wizard'.draft = NoRow
  \/ wizard'.draft = wizard.draft /\ wizard'.flow = wizard.flow
  \/ wizard'.draft \in Rows /\ OfFlow(wizard'.draft, wizard'.flow)
SavesFine(c) ==
  call'[c].kind = "save" /\ call'[c].id # NoRow =>
    \/ call[c].kind = "save" /\ call'[c].id = call[c].id /\ call'[c].flow = call[c].flow
    \/ call'[c].id = wizard.draft /\ call'[c].flow = wizard.flow
    \/ OfFlow(call[c].id, call[c].flow)'
LyricsFine(c) ==
  Is(c, "lyrics", "read")' =>
    call'[c] = call[c] \/ OfFlow(call'[c].id, call'[c].meta.form)
CallsFine == \A c \in Calls : SavesFine(c) /\ LyricsFine(c)
WorkersFine ==
  \A r \in Rows : worker'[r].at = "runs" =>
    worker'[r] = worker[r] \/ OfFlow(r, worker'[r].meta.form)
DeedFine == deed'.at = "read" => deed' = deed \/ OfFlow(deed'.id, deed'.meta.form)
FormStep == RowsFine /\ WizardFine /\ CallsFine /\ WorkersFine /\ DeedFine

\* FlowInv needs no more.
LEMMA FormStepKeeps ==
  ASSUME Types, Types', FlowInv, FormStep, ~late
  PROVE  FlowInv'
<1>0. /\ \A r \in Rows : worker'[r].meta.form \in Nat
      /\ \A c \in Calls : /\ call[c].id \in Ids /\ call'[c].id \in Ids /\ call'[c].kind \in CallKinds
                          /\ call'[c].flow \in Nat /\ call'[c].meta.form \in Nat
      /\ wizard.draft \in Ids /\ wizard'.flow \in Nat /\ deed'.meta.form \in Nat
  BY DEF Types, WorkerType, CallType, CallRecord, WizardType, DeedType, DeedRecord, MetaType
<1>1. \A r \in Rows : \A f \in Nat : OfFlow(r, f) => OfFlow(r, f)'
  BY DEF FormStep, RowsFine
<1>2. \A r \in Rows : row'[r].status = "none" => row'[r].meta.form = 0
  BY DEF FormStep, RowsFine
<1>3. ASSUME wizard'.draft # NoRow
      PROVE  OfFlow(wizard.draft, wizard.flow)'
  <2>1. wizard'.draft \in Rows /\ OfFlow(wizard'.draft, wizard'.flow)
    BY <1>0, <1>3 DEF FormStep, WizardFine, FlowInv, Ids
  <2>2. /\ row'[wizard'.draft].status # "none"
        /\ row'[wizard'.draft].meta.form = wizard'.flow
    BY <1>0, <1>1, <2>1 DEF OfFlow
  <2>3. QED
    BY <2>1, <2>2 DEF OfFlow
<1>4. ASSUME NEW c \in Calls, call'[c].kind = "save", call'[c].id # NoRow
      PROVE  OfFlow(call[c].id, call[c].flow)'
  <2>1. call'[c].id \in Rows
    BY <1>0, <1>4 DEF Ids
  <2>2. \/ OfFlow(call[c].id, call[c].flow)'
        \/ row[call'[c].id].status # "none" /\ row[call'[c].id].meta.form = call'[c].flow
    BY <1>4 DEF FormStep, CallsFine, SavesFine, FlowInv, OfFlow
  <2>3. QED
    BY <1>0, <1>1, <2>1, <2>2 DEF OfFlow
<1>5. ASSUME NEW r \in Rows, worker'[r].at = "runs"
      PROVE  OfFlow(r, worker[r].meta.form)'
  <2>1. row[r].status # "none" /\ row[r].meta.form = worker'[r].meta.form
    BY <1>5 DEF FormStep, WorkersFine, FlowInv, OfFlow
  <2>2. QED
    BY <1>0, <1>1, <2>1 DEF OfFlow
<1>6. ASSUME NEW c \in Calls, Is(c, "lyrics", "read")'
      PROVE  OfFlow(call[c].id, call[c].meta.form)'
  <2>1. call'[c].id \in Rows
    BY <1>6 DEF Is, Types, CallType, CallKinds
  <2>2. row[call'[c].id].status # "none" /\ row[call'[c].id].meta.form = call'[c].meta.form
    BY <1>6 DEF FormStep, CallsFine, LyricsFine, FlowInv, OfFlow, Is
  <2>3. QED
    BY <1>0, <1>1, <2>1, <2>2 DEF OfFlow
<1>7. ASSUME deed'.at = "read"
      PROVE  OfFlow(deed.id, deed.meta.form)'
  <2>1. deed'.id \in Rows
    BY <1>7 DEF Types, DeedType
  <2>2. row[deed'.id].status # "none" /\ row[deed'.id].meta.form = deed'.meta.form
    BY <1>7 DEF FormStep, DeedFine, FlowInv, OfFlow
  <2>3. QED
    BY <1>0, <1>1, <2>1, <2>2 DEF OfFlow
<1>8. QED
  BY <1>2, <1>3, <1>4, <1>5, <1>6, <1>7 DEF FlowInv

\* What is left as it was, or as good as that.
LEMMA Stays ==
  ASSUME Types, FlowInv, ~late
  PROVE  /\ (\A r \in Rows : /\ row'[r].status = "none" => row[r].status = "none"
                             /\ row[r].status # "none" => row'[r].status # "none"
                             /\ row'[r].meta.form = row[r].meta.form) => RowsFine
         /\ UNCHANGED row => RowsFine
         /\ UNCHANGED wizard => WizardFine
         /\ UNCHANGED call => CallsFine
         /\ UNCHANGED worker => WorkersFine
         /\ UNCHANGED deed => DeedFine
BY DEF FlowInv, OfFlow, RowsFine, WizardFine, CallsFine, SavesFine, LyricsFine, WorkersFine,
   DeedFine

\* A call that ends, moves on to an await where it holds no metadata, or begins.
LEMMA CallsStay ==
  ASSUME Types, FlowInv, ~late
  PROVE  /\ \A c \in Calls : Ends(c) => CallsFine
         /\ \A c \in Calls : \A at \in CallPlaces \ {"read"} : Moves(c, at) => CallsFine
         /\ \A kind \in CallKinds : \A id \in Ids :
              /\ Begin(kind, id)
              /\ kind = "save" => id = wizard.draft
              /\ kind # "save" => id \in Rows
              => CallsFine
<1>1. ASSUME NEW c \in Calls, Ends(c)
      PROVE  CallsFine
  BY <1>1 DEF Ends, NoCall, CallsFine, SavesFine, LyricsFine, Is, Types
<1>2. ASSUME NEW c \in Calls, NEW at \in CallPlaces \ {"read"}, Moves(c, at)
      PROVE  CallsFine
  <2>1. \A k \in Calls \ {c} : call'[k] = call[k]
    BY <1>2 DEF Moves, Types
  <2>2. /\ call'[c].kind = call[c].kind /\ call'[c].id = call[c].id
        /\ call'[c].flow = call[c].flow /\ call'[c].at = at
    BY <1>2 DEF Moves, Types, CallType, CallRecord
  <2>3. QED
    BY <2>1, <2>2 DEF CallsFine, SavesFine, LyricsFine, Is
<1>3. ASSUME NEW kind \in CallKinds, NEW id \in Ids, Begin(kind, id),
             kind = "save" => id = wizard.draft, kind # "save" => id \in Rows
      PROVE  CallsFine
  <2>1. PICK c \in Calls :
           call' = [call EXCEPT ![c] = [NoCall EXCEPT !.kind = kind, !.at = "sent",
                                                      !.id = id, !.flow = wizard.flow]]
    BY <1>3, Begun, ZenonT(40)
  <2>2. \A k \in Calls \ {c} : call'[k] = call[k]
    BY <2>1 DEF Types
  <2>3. /\ call'[c].kind = kind /\ call'[c].id = id /\ call'[c].flow = wizard.flow
        /\ call'[c].at = "sent"
    BY <2>1 DEF Types, NoCall
  <2>4. QED
    BY <1>3, <2>2, <2>3 DEF CallsFine, SavesFine, LyricsFine, Is
<1>4. QED
  BY <1>1, <1>2, <1>3

\* Every step of a call is such a step.
LEMMA CallForms ==
  ASSUME Types, FlowInv, ~late, ~late',
         NEW c \in Calls, CallStep(c) \/ PollFails(c) \/ CallFails(c), UNCHANGED consoleVars
  PROVE  FormStep
<1>0. DeedFine /\ (UNCHANGED worker => WorkersFine)
  BY Stays DEF consoleVars
<1>1. CASE SaveArrives(c)
  <2> DEFINE m == [NoMeta EXCEPT !.form = call[c].flow]
  <2>1. PICK r \in Rows :
          /\ IF call[c].id = NoRow THEN row[r].status = "none" ELSE r = call[c].id /\ IsDraft(r)
          /\ row' = [row EXCEPT ![r].status = IF @ = "none" THEN "draft" ELSE @, ![r].meta = m]
          /\ call' = [call EXCEPT ![c].at = "saved", ![c].id = r]
    BY <1>1 DEF SaveArrives
  <2>2. m.form = call[c].flow
    BY DEF NoMeta
  <2> HIDE DEF m
  <2>3. /\ row'[r].meta = m /\ row'[r].status # "none"
        /\ \A x \in Rows \ {r} : row'[x] = row[x]
    BY <2>1 DEF Types, RowType
  <2>4. row[r].status # "none" => row[r].meta.form = call[c].flow
    BY <1>1, <2>1 DEF SaveArrives, Is, IsDraft, FlowInv, OfFlow
  <2>5. RowsFine
    BY <2>2, <2>3, <2>4 DEF RowsFine, OfFlow, FlowInv
  <2>6. /\ \A k \in Calls \ {c} : call'[k] = call[k]
        /\ call'[c].id = r /\ call'[c].flow = call[c].flow /\ call'[c].at = "saved"
    BY <2>1 DEF Types, CallType, CallRecord
  <2>7. CallsFine
    BY <2>2, <2>3, <2>6 DEF CallsFine, SavesFine, LyricsFine, Is, OfFlow
  <2>8. QED
    BY <1>0, <1>1, <2>5, <2>7, Stays DEF SaveArrives, client, FormStep
<1>2. CASE PresignArrives(c) \/ PutArrives(c)
  <2>1. RowsFine
    BY <1>2, Stays DEF PresignArrives, PutArrives, Types, RowType
  <2>2. CallsFine
    BY <1>2, CallsStay DEF PresignArrives, PutArrives, CallPlaces
  <2>3. QED
    BY <1>0, <1>2, <2>1, <2>2, Stays DEF PresignArrives, PutArrives, client, FormStep
<1>3. CASE Submit(c)
  <2>1. row[call[c].id].status # "none"
    BY <1>3 DEF Submit, IsDraft
  <2>2. RowsFine
    BY <1>3, <2>1, Stays DEF Submit, Types, RowType
  <2>3. CallsFine
    BY <1>3, CallsStay DEF Submit, CallPlaces
  <2>4. QED
    BY <1>0, <1>3, <2>2, <2>3, Stays DEF Submit, client, FormStep
<1>4. CASE LyricsRead(c)
  <2>1. call[c].id \in Rows
    BY <1>4 DEF LyricsRead, Is, Types, CallType, CallKinds
  <2>2. row[call[c].id].status # "none"
    BY <1>4 DEF LyricsRead, IsDraft
  <2>3. /\ \A k \in Calls \ {c} : call'[k] = call[k]
        /\ call'[c].kind = call[c].kind /\ call'[c].id = call[c].id
        /\ call'[c].flow = call[c].flow /\ call'[c].meta = row[call[c].id].meta
    BY <1>4 DEF LyricsRead, Types, CallType, CallRecord
  <2>4. CallsFine
    BY <1>4, <2>2, <2>3, ZenonT(40) DEF LyricsRead, CallsFine, SavesFine, LyricsFine, Is, OfFlow
  <2>5. QED
    BY <1>0, <1>4, <2>4, Stays DEF LyricsRead, client, FormStep
<1>5. CASE LyricsWritten(c)
  <2>1. call[c].id \in Rows /\ call[c].meta \in MetaType
    BY <1>5 DEF LyricsWritten, Is, Types, CallType, CallRecord, CallKinds
  <2>2. OfFlow(call[c].id, call[c].meta.form)
    BY <1>5 DEF LyricsWritten, FlowInv
  <2>3. WithLyrics(call[c].meta).form = call[c].meta.form
    BY <2>1 DEF WithLyrics, MetaType
  <2>4. RowsFine
    <3>1. row'[call[c].id].meta = WithLyrics(call[c].meta)
      BY <1>5, <2>1 DEF LyricsWritten, Types, RowType
    <3>2. /\ \A x \in Rows : row'[x].status = row[x].status
          /\ \A x \in Rows \ {call[c].id} : row'[x] = row[x]
      BY <1>5, <2>1 DEF LyricsWritten, Types, RowType
    <3>3. QED
      BY <2>1, <2>2, <2>3, <3>1, <3>2, Stays DEF OfFlow
  <2>5. QED
    BY <1>0, <1>5, <2>4, CallsStay, Stays DEF LyricsWritten, client, FormStep
<1>6. CASE SaveAnswers(c)
  <2>1. wizard'.draft = call[c].id /\ wizard'.flow = wizard.flow
    BY <1>6 DEF SaveAnswers, Types, WizardType
  <2>2. call[c].flow = wizard.flow
    BY <1>6 DEF SaveAnswers
  <2>3. call[c].id \in Ids
    BY DEF Types, CallType, CallRecord
  <2>4. WizardFine
    BY <1>6, <2>1, <2>2, <2>3 DEF SaveAnswers, Is, WizardFine, FlowInv, Ids
  <2>5. CallsFine
    BY <1>6, CallsStay DEF SaveAnswers, CallPlaces
  <2>6. QED
    BY <1>0, <1>6, <2>4, <2>5, Stays DEF SaveAnswers, FormStep
<1>7. ASSUME UNCHANGED <<row, worker>>, CallsFine,
             wizard'.draft = wizard.draft, wizard'.flow = wizard.flow
      PROVE  FormStep
  BY <1>0, <1>7, Stays DEF WizardFine, FormStep
<1>8. CASE CoverSaved(c) \/ CallRefused(c) \/ CallFails(c)
  BY <1>7, <1>8, CallsStay DEF CoverSaved, CallRefused, CallFails, Stops, Types, WizardType
<1>9. CASE Submitted(c)
  <2>1. /\ \A k \in Calls \ {c} : call'[k] = call[k]
        /\ call'[c].kind = "poll"
    BY <1>9 DEF Submitted, Types, CallType, CallRecord
  <2>2. CallsFine
    BY <2>1 DEF CallsFine, SavesFine, LyricsFine, Is
  <2>3. QED
    BY <1>7, <1>9, <2>2 DEF Submitted, Types, WizardType
<1>10. CASE PollReads(c)
  <2>1. /\ \A k \in Calls \ {c} : call'[k] = call[k]
        /\ call'[c].kind = "poll"
    BY <1>10 DEF PollReads, Is, Types, CallType, CallRecord
  <2>2. CallsFine
    BY <2>1 DEF CallsFine, SavesFine, LyricsFine, Is
  <2>3. QED
    BY <1>7, <1>10, <2>2 DEF PollReads, client
<1>11. ASSUME NEW shown, Again(c, shown), call[c].kind = "poll"
       PROVE  CallsFine /\ wizard'.draft = wizard.draft /\ wizard'.flow = wizard.flow
  <2>1. wizard'.draft = wizard.draft /\ wizard'.flow = wizard.flow
    BY <1>11 DEF Again, Types, WizardType
  <2>2. CASE Ends(c)
    BY <2>1, <2>2, CallsStay
  <2>3. CASE ~Ends(c)
    <3>1. /\ \A k \in Calls \ {c} : call'[k] = call[k]
          /\ call'[c].kind = "poll"
      BY <1>11, <2>3 DEF Again, Types, CallType, CallRecord
    <3>2. QED
      BY <2>1, <3>1 DEF CallsFine, SavesFine, LyricsFine, Is
  <2>4. QED
    BY <2>2, <2>3
<1>12. CASE PollAnswers(c)
  <2>1. CallsFine /\ wizard'.draft = wizard.draft /\ wizard'.flow = wizard.flow
    <3>1. CASE Again(c, [id |-> call[c].id, status |-> call[c].status])
      BY <1>11, <1>12, <3>1 DEF PollAnswers, Is
    <3>2. CASE ~Again(c, [id |-> call[c].id, status |-> call[c].status])
      BY <1>12, <3>2, CallsStay DEF PollAnswers, Types, WizardType
    <3>3. QED
      BY <3>1, <3>2
  <2>2. QED
    BY <1>7, <1>12, <2>1 DEF PollAnswers
<1>13. CASE PollFails(c)
  BY <1>7, <1>11, <1>13 DEF PollFails
<1>14. QED
  BY <1>1, <1>2, <1>3, <1>4, <1>5, <1>6, <1>8, <1>9, <1>10, <1>12, <1>13 DEF CallStep

\* And every other step.
LEMMA AllForms ==
  ASSUME Types, FlowInv, ~late, ~late', ConsoleNext
  PROVE  FormStep
<1>1. CASE StudioNext /\ UNCHANGED consoleVars
  <2>0. DeedFine
    BY <1>1, Stays DEF consoleVars
  <2>1. ASSUME UNCHANGED <<row, worker>>, CallsFine, WizardFine
        PROVE  FormStep
    BY <2>0, <2>1, Stays DEF FormStep
  <2>2. ASSUME NEW r \in Rows, HandleRetry(r)
        PROVE  FormStep
    <3>1. CallsFine
      BY <2>2, CallsStay DEF HandleRetry, CallKinds, Ids
    <3>2. WizardFine
      BY <2>2 DEF HandleRetry, WizardFine, Types, WizardType
    <3>3. QED
      BY <2>1, <2>2, <3>1, <3>2 DEF HandleRetry
  <2>3. ASSUME NEW r \in Rows, SaveLyrics(r)
        PROVE  FormStep
    <3>1. CallsFine
      BY <2>3, CallsStay DEF SaveLyrics, CallKinds, Ids
    <3>2. QED
      BY <2>1, <2>3, <3>1, Stays DEF SaveLyrics
  <2>4. CASE SaveMetadata
    <3>1. wizard.draft \in Ids
      BY DEF Types, WizardType
    <3>2. CallsFine
      BY <2>4, <3>1, CallsStay DEF SaveMetadata, CallKinds
    <3>3. QED
      BY <2>1, <2>4, <3>2, Stays DEF SaveMetadata
  <2>5. CASE UploadAudio
    <3>1. wizard.draft \in Rows
      BY <2>5 DEF UploadAudio, Types, WizardType, Ids
    <3>2. CallsFine
      BY <2>5, <3>1, CallsStay DEF UploadAudio, CallKinds, Ids
    <3>3. WizardFine
      BY <2>5 DEF UploadAudio, WizardFine, Types, WizardType
    <3>4. QED
      BY <2>1, <2>5, <3>2, <3>3 DEF UploadAudio
  <2>6. CASE EditForm \/ Back \/ ResetFlow \/ Refresh
    <3>1. WizardFine
      BY <2>6 DEF EditForm, Back, ResetFlow, Refresh, FreshWizard, WizardFine, Types, WizardType
    <3>2. QED
      BY <2>1, <2>6, <3>1, Stays DEF EditForm, Back, ResetFlow, Refresh
  <2>7. ASSUME NEW r \in Rows, WorkerStep(r)
        PROVE  FormStep
    <3>1. CASE WorkerReads(r)
      <4>1. WorkersFine
        BY <3>1 DEF WorkerReads, WorkersFine, OfFlow, Types
      <4>2. QED
        BY <2>0, <3>1, <4>1, Stays DEF WorkerReads, FormStep
    <3>2. CASE WorkerEnds(r)
      <4> DEFINE m == [worker[r].meta EXCEPT !.hls = TRUE]
      <4>1. m.form = worker[r].meta.form
        BY DEF Types, WorkerType, MetaType
      <4>2. OfFlow(r, worker[r].meta.form)
        BY <3>2 DEF WorkerEnds, FlowInv
      <4>3. /\ row'[r].meta = m /\ row'[r].status = "pending_review"
            /\ \A x \in Rows \ {r} : row'[x] = row[x]
        BY <3>2 DEF WorkerEnds, Types, RowType
      <4> HIDE DEF m
      <4>4. RowsFine
        BY <4>1, <4>2, <4>3, Stays DEF OfFlow
      <4>5. WorkersFine
        BY <3>2 DEF WorkerEnds, WorkersFine, Types, WorkerType
      <4>6. QED
        BY <2>0, <3>2, <4>4, <4>5, Stays DEF WorkerEnds, FormStep
    <3>3. CASE WorkerFails(r)
      <4>1. row[r].status # "none"
        BY <3>3 DEF WorkerFails, FlowInv, OfFlow
      <4>2. RowsFine
        BY <3>3, <4>1, Stays DEF WorkerFails, Types, RowType
      <4>3. WorkersFine
        BY <3>3 DEF WorkerFails, WorkersFine, Types, WorkerType
      <4>4. QED
        BY <2>0, <3>3, <4>2, <4>3, Stays DEF WorkerFails, FormStep
    <3>4. QED
      BY <2>7, <3>1, <3>2, <3>3 DEF WorkerStep
  <2>8. QED
    BY <1>1, <2>2, <2>3, <2>4, <2>5, <2>6, <2>7, CallForms DEF StudioNext, UploadPage,
       YourUploads, CreatorHubPage
<1>2. CASE AdminPage \/ AdminPendingTrackPanel \/ ConsoleStep
  <2>0. WizardFine /\ CallsFine /\ WorkersFine
    BY <1>2, CreatorsSide, Stays DEF others
  <2>1. CASE ModerationWrites
    <3>1. deed.id \in Rows /\ deed.at = "read" /\ deed'.at = "done"
      BY <2>1 DEF ModerationWrites, Types, DeedType, DeedRecord, DeedKinds
    <3>2. OfFlow(deed.id, deed.meta.form)
      BY <3>1 DEF FlowInv
    <3>3. /\ row'[deed.id].meta = deed.meta /\ row'[deed.id].status # "none"
          /\ \A x \in Rows \ {deed.id} : row'[x] = row[x]
      BY <2>1, <3>1, <3>2 DEF ModerationWrites, Merged, OfFlow, Types, RowType
    <3>4. RowsFine
      BY <3>1, <3>2, <3>3, Stays DEF OfFlow
    <3>5. QED
      BY <2>0, <3>1, <3>4 DEF DeedFine, FormStep
  <2>2. CASE ModerationReads
    <3>1. deed.id \in Rows
      BY <2>2 DEF ModerationReads, Sent, Types, DeedType
    <3>2. row[deed.id].status # "none"
      BY <2>2 DEF ModerationReads, Editable, IsDraft
    <3>3. deed'.id = deed.id /\ deed'.meta = row[deed.id].meta
      BY <2>2 DEF ModerationReads, Types, DeedType, DeedRecord
    <3>4. QED
      BY <2>0, <2>2, <3>2, <3>3, Stays DEF ModerationReads, DeedFine, OfFlow, FormStep
  <2>3. CASE VerdictArrives
    <3>1. RowsFine
      <4>1. /\ \A x \in Rows : row'[x].meta = row[x].meta
            /\ \A x \in Rows \ {deed.id} : row'[x] = row[x]
            /\ deed.id \in Rows => row'[deed.id].status # "none"
        BY <2>3 DEF VerdictArrives, Types, RowType
      <4>2. QED
        BY <4>1, Stays
    <3>2. QED
      BY <2>0, <2>3, <3>1 DEF VerdictArrives, DeedFine, Types, DeedType, DeedRecord, FormStep
  <2>4. CASE UNCHANGED row /\ (deed'.at # "read" \/ deed' = deed)
    BY <2>0, <2>4, Stays DEF DeedFine, FormStep
  <2>5. ASSUME NEW kind, NEW id, NEW closes, Does(kind, id, closes)
        PROVE  FormStep
    BY <2>4, <2>5 DEF Does, NoDeed
  <2>6. ASSUME NEW r \in Rows, \/ Review(r) \/ Toggle(r) \/ Plays(r) \/ PreviewFails(r)
        PROVE  FormStep
    BY <2>4, <2>6 DEF Review, Toggle, Plays, PreviewFails, Preview, NoDeed
  <2>7. CASE Login \/ Logout \/ ClosePanel \/ PanelToggle \/ PanelPlays
    BY <2>4, <2>7 DEF Login, Logout, ClosePanel, PanelToggle, PanelPlays, Preview, NoDeed
  <2>8. CASE ListRead \/ TrackRead
    BY <2>4, <2>8 DEF ListRead, TrackRead, Types, DeedType, DeedRecord
  <2>9. CASE Listed \/ Done \/ Opened \/ DeedRefused \/ DeedFails
    <3>1. UNCHANGED row
      BY <2>9 DEF Listed, Done, Opened, DeedRefused, DeedFails
    <3>2. deed' = NoDeed \/ Done
      BY <2>9 DEF Listed, Opened, DeedRefused, DeedFails
    <3>3. deed'.at # "read"
      <4> DEFINE closes == deed.closes /\ deed.kind = "reject"
      <4>1. Done => deed' = [NoDeed EXCEPT !.kind = "load", !.at = "sent", !.closes = closes]
        BY DEF Done
      <4> HIDE DEF closes
      <4>2. NoDeed \in DeedRecord /\ NoDeed.at = "idle"
        BY DEF NoDeed, NoMeta, MetaType, DeedRecord, DeedKinds, Ids
      <4>3. QED
        BY <3>2, <4>1, <4>2 DEF DeedRecord
    <3>4. QED
      BY <2>4, <3>1, <3>3
  <2>10. QED
    BY <1>2, <2>1, <2>2, <2>3, <2>5, <2>6, <2>7, <2>8, <2>9 DEF AdminPage,
       AdminPendingTrackPanel, ConsoleStep, ServerStep, LoadList, Approve, Reject, PanelFooter,
       SaveChanges, Publish, PanelReject
<1>3. QED
  BY <1>1, <1>2 DEF ConsoleNext

\* FlowInv holds throughout.
LEMMA FlowInvariant == ConsoleSpec => []FlowInv
<1>1. BothInit => FlowInv
  <2> SUFFICES ASSUME BothInit PROVE FlowInv
    OBVIOUS
  <2>1. \A r \in Rows : row[r] \in {Absent, FailedRow(0), FailedRow(1), ReviewedRow}
    BY DEF BothInit, Init
  <2>2. \A r \in Rows : row[r].status = "none" => row[r].meta.form = 0
    BY <2>1 DEF Absent, FailedRow, ReviewedRow, NoMeta
  <2>3. wizard.draft # NoRow => OfFlow(wizard.draft, wizard.flow)
    <3>1. CASE wizard = FreshWizard
      BY <3>1 DEF FreshWizard
    <3>2. ASSUME NEW r \in Rows, row[r] = FailedRow(1), wizard = FailedUpload(r)
          PROVE  OfFlow(wizard.draft, wizard.flow)
      <4>1. wizard.draft = r /\ wizard.flow = 1
        BY <3>2 DEF FailedUpload, FreshWizard
      <4>2. row[r].status = "failed" /\ row[r].meta.form = 1
        BY <3>2 DEF FailedRow, NoMeta
      <4>3. QED
        BY <4>1, <4>2 DEF OfFlow
    <3>3. QED
      BY <3>1, <3>2 DEF BothInit, Init
  <2>4. /\ \A c \in Calls : call[c].kind # "save" /\ ~Is(c, "lyrics", "read")
        /\ \A r \in Rows : worker[r].at = "idle"
        /\ deed.at = "idle"
    BY DEF BothInit, Init, ConsoleInit, NoCall, NoDeed, Is
  <2>5. QED
    BY <2>2, <2>3, <2>4 DEF FlowInv
<1>2. Types /\ Types' /\ FlowInv /\ [ConsoleNext]_allVars => FlowInv'
  <2> SUFFICES ASSUME Types, Types', FlowInv, [ConsoleNext]_allVars PROVE FlowInv'
    OBVIOUS
  <2>1. CASE UNCHANGED allVars
    BY <2>1 DEF allVars, studioVars, consoleVars, FlowInv, OfFlow, Is
  <2>2. CASE late'
    BY <2>2 DEF FlowInv
  <2>3. CASE late /\ ConsoleNext
    <3>1. late'
      BY <2>3, CreatorsSide, ZenonT(40) DEF ConsoleNext, others, StudioNext, UploadPage, YourUploads,
         CreatorHubPage, EditForm, SaveMetadata, Back, UploadAudio, ResetFlow, HandleRetry,
         Refresh, SaveLyrics, CallStep, SaveArrives, PresignArrives, PutArrives, Submit,
         LyricsRead, LyricsWritten, SaveAnswers, CoverSaved, Submitted, PollReads, PollAnswers,
         PollFails, CallRefused, CallFails, client, WorkerStep, WorkerReads, WorkerEnds,
         WorkerFails
    <3>2. QED
      BY <3>1, SMTT(20) DEF FlowInv
  <2>4. CASE ~late /\ ~late' /\ ConsoleNext
    BY <2>4, AllForms, FormStepKeeps
  <2>5. QED
    BY <2>1, <2>2, <2>3, <2>4
<1>3. QED
  BY <1>1, <1>2, TypeCorrect, PTL DEF ConsoleSpec

(* DraftKeepsItsFlow: a track that is filled in keeps the form of its own  *)
(* flow, unless a save of an earlier flow was answered after a reset.      *)
THEOREM DraftKept == ConsoleSpec => DraftKeepsItsFlow
<1> DEFINE Kept == \A r \in Rows :
             row[r].meta.form # 0 => late \/ row'[r].meta.form = row[r].meta.form
<1>1. Types /\ FlowInv /\ [ConsoleNext]_allVars => [Kept]_studioVars
  <2> SUFFICES ASSUME Types, FlowInv, ConsoleNext, ~late,
                      NEW r \in Rows, row[r].meta.form # 0
               PROVE  row'[r].meta.form = row[r].meta.form
    BY DEF allVars
  <2>1. CASE late'
    <3>1. UNCHANGED row
      BY <2>1, CreatorsSide DEF ConsoleNext, others, StudioNext, UploadPage, YourUploads,
         CreatorHubPage, EditForm, SaveMetadata, Back, UploadAudio, ResetFlow, HandleRetry,
         Refresh, SaveLyrics, CallStep, SaveArrives, PresignArrives, PutArrives, Submit,
         LyricsRead, LyricsWritten, SaveAnswers, CoverSaved, Submitted, PollReads, PollAnswers,
         PollFails, CallRefused, CallFails, client, WorkerStep, WorkerReads, WorkerEnds,
         WorkerFails
    <3>2. QED
      BY <3>1
  <2>2. CASE ~late'
    <3>1. RowsFine
      BY <2>2, AllForms DEF FormStep
    <3>2. row[r].meta.form \in Nat /\ row[r].status # "none"
      BY DEF FlowInv, Types, RowType, MetaType
    <3>3. QED
      BY <3>1, <3>2 DEF RowsFine, OfFlow
  <2>3. QED
    BY <2>1, <2>2
<1>2. QED
  BY <1>1, TypeCorrect, FlowInvariant, PTL DEF ConsoleSpec, DraftKeepsItsFlow
=============================================================================
