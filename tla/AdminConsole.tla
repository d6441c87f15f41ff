---------------------------- MODULE AdminConsole ----------------------------
(***************************************************************************)
(* The moderation console (apps/web/src/pages/AdminPage.tsx with           *)
(* components/admin/AdminPendingTrackPanel.tsx and                         *)
(* AdminTrackPlayButton.tsx) and the handlers of internal/modules/admin    *)
(* that it calls, over the tracks that the creator of UploadStudio edits.  *)
(* The retry of dead letters is an action of TranscodePipeline.            *)
(***************************************************************************)
EXTENDS UploadStudio

VARIABLES
  console,      \* the page: key of sessionStorage, shown, the list, the open panel
  deed,         \* the console's function that awaits the server
  sound,        \* sound[r]: the preview of the button of r
  panelSound,   \* the preview of the panel
  activeStop,   \* the button whose stop function activeStop holds
  mixed         \* history: two previews were being loaded at once, or one was when
                \* its button was removed

consoleVars == <<console, deed, sound, panelSound, activeStop, mixed>>
allVars == <<studioVars, consoleVars>>

NoDeed == [kind |-> "none", at |-> "idle", id |-> NoRow, meta |-> NoMeta, list |-> {},
           closes |-> FALSE]

Pending == {r \in Rows : row[r].status = "pending_review"}

\* The console is open and has loaded its list.
ConsoleInit ==
  /\ console = [key |-> TRUE, authed |-> TRUE, list |-> Pending, panel |-> NoRow,
                loaded |-> FALSE]
  /\ deed = NoDeed
  /\ sound = [r \in Rows |-> "silent"] /\ panelSound = "silent"
  /\ activeStop = NoRow /\ mixed = FALSE

previews == <<sound, panelSound, activeStop, mixed>>
others == <<worker, wizard, myTracks, call, late>>

\* The page has one function awaiting the server at a time (bound).
Does(kind, id, closes) ==
  /\ console.authed /\ deed.at = "idle"
  /\ Acts
  /\ deed' = [NoDeed EXCEPT !.kind = kind, !.at = "sent", !.id = id, !.closes = closes]
  /\ UNCHANGED <<row, others, console, previews>>

-----------------------------------------------------------------------------
(* What the moderator does *)

Login ==
  /\ ~console.authed /\ deed.at = "idle"
  /\ Acts
  /\ console' = [console EXCEPT !.key = TRUE, !.authed = TRUE]
  /\ deed' = [NoDeed EXCEPT !.kind = "load", !.at = "sent"]
  /\ UNCHANGED <<row, others, previews>>

\* Buttons that are removed stop what they play; a preview that is being loaded
\* goes on, and plays with no button.
Unmounts(gone) ==
  /\ sound' = [r \in Rows |->
       IF r \in gone THEN IF sound[r] = "asked" THEN "orphan" ELSE "silent"
       ELSE sound[r]]
  /\ mixed' = (mixed \/ \E r \in gone : sound[r] = "asked")
  /\ UNCHANGED activeStop

PanelStops ==
  panelSound' = IF panelSound \in {"asked", "orphan"} THEN "orphan" ELSE "silent"

Logout ==
  /\ console.authed
  /\ Acts
  /\ console' = [console EXCEPT !.key = FALSE, !.authed = FALSE]
  /\ Unmounts(console.list) /\ PanelStops
  /\ UNCHANGED <<row, others, deed>>

LoadList == Does("load", NoRow, FALSE)
Approve(r) == r \in console.list /\ Does("approve", r, FALSE)
Reject(r) == r \in console.list /\ Does("reject", r, FALSE)

Review(r) ==
  /\ console.authed /\ console.panel = NoRow /\ r \in console.list
  /\ deed.at = "idle"
  /\ Acts
  /\ console' = [console EXCEPT !.panel = r, !.loaded = FALSE]
  /\ deed' = [NoDeed EXCEPT !.kind = "open", !.at = "sent", !.id = r]
  /\ UNCHANGED <<row, others, previews>>

ClosePanel ==
  /\ console.authed /\ console.panel # NoRow
  /\ Acts
  /\ console' = [console EXCEPT !.panel = NoRow]
  /\ PanelStops
  /\ UNCHANGED <<row, others, deed, sound, activeStop, mixed>>

\* The fields of the panel are the moderator's own: a save sends those, and no
\* lyrics and no hls.
PanelForm == console.authed /\ console.panel # NoRow /\ console.loaded
SaveChanges == PanelForm /\ Does("save", console.panel, FALSE)
Publish == PanelForm /\ Does("publish", console.panel, TRUE)
PanelReject == PanelForm /\ Does("reject", console.panel, TRUE)
PanelFooter == SaveChanges \/ Publish \/ PanelReject

-----------------------------------------------------------------------------
(* The server *)

\* Every call but the page's first carries the key of sessionStorage.
Sent(kinds) == deed.kind \in kinds /\ deed.at = "sent" /\ console.key
page == <<console, previews>>

ListRead ==
  /\ Sent({"load"})
  /\ deed' = [deed EXCEPT !.at = "done", !.list = Pending]
  /\ Goes /\ UNCHANGED <<row, others, page>>

\* getTrack, of a track under review or not.
TrackRead ==
  /\ Sent({"open"})
  /\ deed' = [deed EXCEPT !.at = "done"]
  /\ Goes /\ UNCHANGED <<row, others, page>>

\* AdminApprove tests the status, rejectTrack does not.
VerdictArrives ==
  /\ Sent({"approve", "reject"})
  /\ deed.kind = "approve" => row[deed.id].status = "pending_review"
  /\ row' = [row EXCEPT ![deed.id].status =
       IF deed.kind = "approve" THEN "approved" ELSE "failed"]
  /\ deed' = [deed EXCEPT !.at = "done"]
  /\ Goes /\ UNCHANGED <<others, page>>

Editable(kind, r) ==
  row[r].status = "pending_review" \/ (kind = "publish" /\ IsDraft(r))

\* updateTrack and publishTrack read the metadata ...
ModerationReads ==
  /\ Sent({"save", "publish"}) /\ Editable(deed.kind, deed.id)
  /\ deed' = [deed EXCEPT !.at = "read", !.meta = row[deed.id].meta]
  /\ Goes /\ UNCHANGED <<row, others, page>>

\* Mutant: the patch alone is written.
MergedPatchAlone(meta) == NoMeta

\* mergeGachiMetadata keeps what the patch does not name.
Merged(meta) == meta

\* ... and write all of it back if the status still allows it.
ModerationWrites ==
  /\ deed.at = "read"
  /\ Editable(deed.kind, deed.id) \/ (deed.kind = "publish" /\ row[deed.id].status = "approved")
  /\ row' = [row EXCEPT ![deed.id].meta = Merged(deed.meta),
                        ![deed.id].status = IF deed.kind = "publish" THEN "published" ELSE @]
  /\ deed' = [deed EXCEPT !.at = "done"]
  /\ Goes /\ UNCHANGED <<others, page>>

-----------------------------------------------------------------------------
(* The answers *)

\* load: the rows that are gone lose their buttons.
Listed ==
  /\ deed.kind = "load" /\ deed.at = "done"
  /\ console' = [console EXCEPT !.list = deed.list,
                                !.panel = IF deed.closes THEN NoRow ELSE @]
  /\ deed' = NoDeed
  /\ Unmounts(console.list \ deed.list)
  /\ IF deed.closes THEN PanelStops ELSE UNCHANGED panelSound
  /\ Goes /\ UNCHANGED <<row, others>>

\* approve, reject and onSaved load the list again; publish closes the panel at
\* once, the panel's reject after the load.
Done ==
  /\ deed.kind \notin {"load", "open"} /\ deed.at = "done"
  /\ console' = [console EXCEPT !.panel = IF deed.kind = "publish" THEN NoRow ELSE @]
  /\ IF deed.kind = "publish" THEN PanelStops ELSE UNCHANGED panelSound
  /\ deed' = [NoDeed EXCEPT !.kind = "load", !.at = "sent",
                            !.closes = deed.closes /\ deed.kind = "reject"]
  /\ Goes /\ UNCHANGED <<row, others, sound, activeStop, mixed>>

Opened ==
  /\ deed.kind = "open" /\ deed.at = "done"
  /\ console' = [console EXCEPT !.loaded = (console.panel = deed.id)]
  /\ deed' = NoDeed
  /\ Goes /\ UNCHANGED <<row, others, previews>>

\* A call the server turns down, or that is sent without the key: a load without
\* the key shows the login again.
DeedRefused ==
  /\ deed.at \in {"sent", "read"}
  /\ \/ ~console.key
     \/ deed.kind = "approve" /\ row[deed.id].status # "pending_review"
     \/ deed.kind \in {"save", "publish"} /\ ~Editable(deed.kind, deed.id)
  /\ IF deed.kind = "load" /\ ~console.key
     THEN /\ console' = [console EXCEPT !.authed = FALSE]
          /\ Unmounts(console.list) /\ PanelStops
     ELSE UNCHANGED page
  /\ deed' = NoDeed
  /\ Goes /\ UNCHANGED <<row, others>>

\* A call fails, or answers 401: the key goes, and the page stays as it is.
DeedFails ==
  /\ deed.at # "idle"
  /\ Trouble
  /\ \E key \in {FALSE, console.key} : console' = [console EXCEPT !.key = key]
  /\ deed' = NoDeed
  /\ UNCHANGED <<row, others, previews>>

-----------------------------------------------------------------------------
(* Previews *)

Preview == UNCHANGED <<row, others, console, deed>>

\* toggle of AdminTrackPlayButton: what activeStop holds is stopped first.
Toggle(r) ==
  /\ console.authed /\ r \in console.list /\ sound[r] \in {"silent", "playing"}
  /\ Acts
  /\ IF sound[r] = "playing"
     THEN sound' = [sound EXCEPT ![r] = "silent"] /\ UNCHANGED mixed
     ELSE /\ sound' = [s \in Rows |-> IF s = r THEN "asked"
                                      ELSE IF s = activeStop /\ sound[s] = "playing"
                                           THEN "silent" ELSE sound[s]]
          /\ mixed' = (mixed \/ \E s \in Rows : sound[s] \in {"asked", "orphan"})
  /\ Preview /\ UNCHANGED <<panelSound, activeStop>>

\* Mutant: activeStop is not set.
PlaysUnstoppable(r) ==
  /\ sound[r] \in {"asked", "orphan"}
  /\ sound' = [sound EXCEPT ![r] = IF @ = "asked" THEN "playing" ELSE @]
  /\ Goes /\ Preview /\ UNCHANGED <<panelSound, mixed, activeStop>>

\* getPlayback and attachAdminPlayback are done: the audio plays.
Plays(r) ==
  /\ sound[r] = "asked" \/ (sound[r] = "orphan" /\ activeStop # r)
  /\ sound' = [sound EXCEPT ![r] = IF @ = "asked" THEN "playing" ELSE @]
  /\ activeStop' = r
  /\ Goes /\ Preview /\ UNCHANGED <<panelSound, mixed>>

PreviewFails(r) ==
  /\ sound[r] \in {"asked", "orphan"}
  /\ Trouble
  /\ sound' = [sound EXCEPT ![r] = "silent"]
  /\ Preview /\ UNCHANGED <<panelSound, activeStop, mixed>>

\* togglePlay of the panel knows nothing of activeStop.
PanelToggle ==
  /\ PanelForm
  /\ Acts
  /\ panelSound' = IF panelSound = "playing" THEN "silent" ELSE "asked"
  /\ Preview /\ UNCHANGED <<sound, activeStop, mixed>>

PanelPlays ==
  /\ panelSound = "asked"
  /\ panelSound' = "playing"
  /\ Goes /\ Preview /\ UNCHANGED <<sound, activeStop, mixed>>

-----------------------------------------------------------------------------
\* The surfaces, by what their controls start.
AdminPage ==
  \/ Login \/ Logout \/ LoadList
  \/ \E r \in Rows : Approve(r) \/ Reject(r) \/ Review(r) \/ Toggle(r)

AdminPendingTrackPanel ==
  ClosePanel \/ PanelFooter \/ PanelToggle

ServerStep == ListRead \/ TrackRead \/ VerdictArrives \/ ModerationReads \/ ModerationWrites
ConsoleStep ==
  \/ ServerStep \/ Listed \/ Done \/ Opened \/ DeedRefused \/ DeedFails \/ PanelPlays
  \/ \E r \in Rows : Plays(r) \/ PreviewFails(r)

BothInit == Init /\ ConsoleInit

ConsoleNext ==
  \/ StudioNext /\ UNCHANGED consoleVars
  \/ AdminPage \/ AdminPendingTrackPanel \/ ConsoleStep

\* Every request is answered or fails, and every timer fires; nothing is assumed of
\* the worker, the creator or the moderator.
ConsoleSpec ==
  /\ BothInit /\ [][ConsoleNext]_allVars
  /\ \A c \in Calls : WF_allVars(CallStep(c) /\ UNCHANGED consoleVars)

-----------------------------------------------------------------------------
(* Properties *)

\* No writer of the metadata drops the lyrics or the hls entry that it had read and
\* that is still there: the creator's lyrics, the moderator's fields and the
\* worker's results are merged, although each writes the whole of it.  What it had
\* not read, it may drop: lyrics that are saved during the transcode are lost.
NoFieldDropped ==
  [][\A r \in Rows :
       LET kept(read) ==
             /\ read.lyrics /\ row[r].meta.lyrics => row'[r].meta.lyrics
             /\ read.hls /\ row[r].meta.hls => row'[r].meta.hls IN
       /\ deed.at = "read" /\ deed.id = r /\ deed'.at = "done" => kept(deed.meta)
       /\ worker[r].at = "runs" /\ worker'[r].at = "idle" => kept(worker[r].meta)
       /\ \A c \in Calls :
            Is(c, "lyrics", "read") /\ call[c].id = r /\ call'[c].at = "idle" =>
              kept(call[c].meta)]_allVars

\* One preview of the list plays at a time, as long as none is begun, and no button
\* removed, while another preview is being loaded (activeStop is set when the audio
\* plays).
SoloPreview ==
  mixed \/ Cardinality({r \in Rows : sound[r] = "playing"}) <= 1
=============================================================================
