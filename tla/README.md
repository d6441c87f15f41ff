# TLA+ models of Gachify

Gachify is a music service: a Go API and worker (`internal/`, `cmd/`), PostgreSQL,
Redis, object storage, and a React client (`apps/web`). These modules model the parts
of it where several processes, or several functions that await, work on the same state:
the way of a track from an upload to its followers, the listening parties end to end,
and of the client the session, the library, the player and the creator's and
moderators' pages with the server behind them. Paths below are relative to the
repository root; a bare `.ts` or `.tsx` name is under `apps/web/src`.

To check a run: `tlc -workers 2 -config MCPipelineFaults.cfg MCTranscodePipeline`.
To check a proof: `tlapm TranscodePipelineProofs.tla`.

## Inventory

| Component | State | Operations | Interacts by |
|---|---|---|---|
| Transcode queue, `platform/queue/redis.go` | four Redis keys: pending list, processing and retry sorted sets, dead-letter list | enqueue, delayed enqueue, promote, reclaim, dequeue, ack, requeue, dead-letter, replay | called by API and workers; pipelines are not transactions |
| Worker loop, `cmd/worker/main.go` | job slots, `activeJob`, wait group, signal context | promote, reclaim, acquire, dequeue, start; drain, requeue at shutdown | goroutine per job, one shared `activeJob` |
| Transcode run, `worker/transcode.go` | job row, track row, objects | mark running, work, write status, mark completed | called by a slot's goroutine |
| Failure handling, `worker/retry.go` | job row, track row | retry with backoff or dead-letter | called after the ack |
| Creator uploads, `modules/creator/service.go` | track row, job row | InitUpload, CompleteUpload, RetryTranscode | request goroutines |
| Admin, `modules/admin` | track row, dead letters | approve, reject, publish, replay | request goroutines |
| Scheduled publish, `worker/scheduled_publish.go`, `creator/draft_service.go` | `scheduled_publish_at` | schedule, publish now, sweep every 30 s | one sweep per worker process |
| Notifier, `modules/social/notify.go` | notification rows | tell followers of a release | called after each publish |
| Party hub, `modules/party/handler.go` | rooms, one channel per guest | create, update, subscribe, stream, leave | mutex, buffered channels |
| Party client, `hooks/useListeningParty.ts`, `pages/PartyPage.tsx` | timer, `applying` flag, last state applied | debounce and push; subscribe, fetch, apply | HTTP, SSE |
| Sessions, `modules/auth`, `api/client.ts`, `store/authStore.ts` | refresh and access tokens; `localStorage`, `refreshPromise` of each tab | login, refresh, logout; send, refuse, refresh, send again | PostgreSQL, Redis blacklist, tabs that share a storage |
| Library, `modules/library`, `store/libraryStore.ts`, `lib/localLibrary.ts` | likes and playlist items (JSON) at the server, a copy in the store, a guest's in `localStorage` | load, toggle, import, create, rename, add, remove, reorder, share, join, leave | calls whose answers overlap; friends on other pages |
| Offline, `modules/offline`, `lib/offlineTracks.ts` | download rows, IndexedDB records | package, record, remove, expire | limit tested on both sides |
| Queue, `store/playerStore.ts`, `hooks/usePlayerStateSync.ts` | queue, index, current track, repeat, shuffle, radio | play, next, prev, move, remove, clear, shuffle, radio, adopt a saved queue | calls that await the recommender |
| Audio, `hooks/useAudioEngine.ts`, `lib/crossfade.ts`, `lib/mobileMedia.ts`, `hooks/useSleepTimer.ts` | one audio element, its loads | load, cancel, fade, retry, play, pause, volume | effects, media events, timers |
| Upload wizard and lyrics editor, `pages/UploadPage.tsx`, `pages/CreatorHubPage.tsx` | steps, draft, polls; the track's `gachi_metadata` | save, upload, submit, poll, retry, reset, lyrics | calls to creator handlers, the worker |
| Moderation console, `pages/AdminPage.tsx`, `components/admin` | list, open panel, previews | list, edit, approve, reject, publish, preview | calls to admin handlers |
| Streaming, search, users, share, imports, push, health, ops | rows or none | CRUD, formatting | |

What makes each correct, in a line: no upload is lost and none is stuck (queue, worker,
failure handling); a track moves only along its lifecycle, is released only reviewed, and
its followers are told once (catalog, admin, schedule); guests converge on the host's
state and never hold it up (party); a login has one living refresh token and ends only
for a cause (sessions); what the store shows is what the server has once calls have
ended, and an edit loses nothing it had read (library); the track that is heard is the
one the queue points at (queue, audio); no writer of a track's metadata drops what
another put there, and no flow of the wizard writes over another's track (creator,
moderation).

The hard behaviours: replicas that run the same scan, crashes between the two
writes of a hand-over, a cancelled context that fails the repair along with the
failure, deadlines that pass under a live run, requests that test and then write, sends
outside a lock; and in the client functions that compute the next state before an await
and write it after, effects that were cancelled but go on, and answers that come after
a logout, a reset or a newer answer. `PROJECT.json` lists each at its line with the properties that
watch it.

## Modules

| Module | Models |
|---|---|
| `TranscodeJobs` | job ids, which the rows and the keys share |
| `TrackCatalog` | `tracks` and `transcode_jobs`, one operator per SQL statement that writes a status |
| `TranscodeQueue` | the four keys, one operator per command or pipeline |
| `TranscodePipeline` | requests, worker processes and administrators over the two |
| `TranscodePipelineProofs` | its proofs: what is lost, what is run how often, what is stuck |
| `TrackLifecycle` | the abstract track: submit, finish, give up, approve, reject, publish |
| `TrackModeration`, `TrackModerationProofs` | moderators, schedules, sweeps and notices composed with the pipeline; implements `TrackLifecycle` |
| `PartyHub` | one room of the listening parties |
| `ListeningParty`, `ListeningPartyProofs` | the host's and guests' pages over `PartyHub`, which it implements; the proofs about both |
| `WebApi` | the client's calls: which part of the API each goes to, and whether it sends the token |
| `WebSession`, `WebSessionProofs` | tabs, calls, refreshes and the server's tokens |
| `WebLibrary` | likes, the import of a guest's library, offline downloads |
| `WebPlaylists`, `WebLibraryProofs` | playlists, over `WebLibrary`; the proofs about both |
| `PlayerQueue`, `PlayerQueueProofs` | the queue with its radio and the queue of another device, and its proofs |
| `AudioEngine`, `AudioEngineProofs` | what is heard of the current track |
| `UploadStudio` | the upload wizard and lyrics editor over the server's tracks |
| `AdminConsole`, `AdminConsoleProofs` | the moderation console, over `UploadStudio`; the proofs about both |
| `MC...` | instances for TLC |

### Pipeline

A step is one call to PostgreSQL or Redis, or one Redis pipeline. Every process has a
program counter:

- `loop[w]` is the main loop of `cmd/worker/main.go`; `batch[w]` the members a scan has
  read, `held[w]` the job that is in no Redis key (between BRPOP and ZADD, and between
  the two halves of `RequeueTranscode`), `active[w]` the variable `activeJob`, `term[w]`
  the cancelled context. `task[w][s]` is the goroutine in slot `s`: `start` and `work`
  are `RunTranscode`, `finishing` its `MarkJobCompleted`, `done` and `failed` the ack,
  `handling` to `burying` the calls of `HandleFailure`, `leaving` its deferred functions.
- `req[r]` is a `CompleteUpload` (check, mark, create, enqueue) or a `RetryTranscode`
  (check, create, mark, enqueue); `adm[a]` is `retryDLQ` with `RetryDLQJob` (find,
  remove, enqueue, mark).
- Scores are kept as what is read of them: `overdue` of `processing`, `due` of `retry`.
- `fate` and `spent` are histories. `fate[j]` says that `j` was queued, completed, or
  dropped by a holder that died or whose write failed; it never goes back from dropped,
  so no property can be satisfied by losing a job twice. `spent` counts disturbances.

`WorkerRestart` is `restart: unless-stopped` of `docker-compose.prod.yml`: a process
that ended starts again with nothing in memory.

What is abstracted: the work between `MarkJobRunning` and the status write (download,
analysis, lyrics, ffmpeg, upload, metadata) is one step that succeeds or fails. A
pipeline of LPUSH and ZREM is one step, except that a broken connection may leave the
LPUSH alone (`MoveFails`). Any other failed call has no effect. Uploads that have not
reached `CompleteUpload` are the initial drafts. The notification that an unmoderated run
sends is left out.

### Moderation

`TrackModeration` extends the pipeline with `mod[m]` (a publish in progress: it loads,
tests, writes, notifies; approve and reject are one statement), `now[t]` (the creator's
publish-now between its UPDATE and the notice) and `sweep[w]` (the goroutine of
`RunScheduledPublishLoop`, with the list it read and the track it is about to announce).
A scheduled time is `null`, `later` or `due`. `reviewed`, `releases` and `notices` are
histories: what a moderator has looked at since the last run, how often the track
went live, how often followers were told. The end of a worker ends its sweep.

`TrackLifecycle` is what the documentation promises of a track. `FollowsLifecycle`
states that the composed system implements it, with `status <- track[t].status`: whatever
the pipeline, moderators, creator and sweeps interleave, the status moves along
draft, processing, pending review, approved, published, or back to draft from processing
or review.

### Party hub

`PartyHub` is one room (rooms do not interact). A state is the number of the update that
wrote it. A step is what runs under `room.mu`, one channel send, or one receive.
`host[h]` is an open `UpdateHost` with the channels it copied and still has to try;
`guest[g]` is the `events` handler: subscribe, initial state, stream, leave. A guest that
reconnects is another guest. A send to a guest that has left panics and ends the call
(the `Recoverer` middleware keeps the server up). An invalid code or token changes no
state and is left out.

### Listening party

`ListeningParty` extends the hub with the two pages. `ui` is the host's: on `PartyPage`
or not, its player paused, playing (each 250 ms tick restarts the timer) or held,
the 800 ms timer armed, and how many things the host has done. `TimerFires(h)` sends
what the player is then; `PutArrives(h)` is `WriteState` of the hub, `PutFails(h)` the
lost call. `client[c]` is a guest's page: its stream, its first fetch (wanted, asked,
read), what it shows, whether it is `busy` applying. A state that arrives while busy is
passed over (`Taken`). `content[s]` says which of the host's acts state `s` shows, so
that a state of the room can be compared with the player.

### Session

The tabs share `stored` (the pair of tokens in `localStorage`) and have a page each. A
pair is a number; `login[n]`, `alive`, `valid` are the server's rows and the blacklist.
`req[t][q]` is one `request` of `client.ts`: sent with or without a token, refused,
waiting for the tab's `refreshPromise`, sent again. `refresh[r]` is one call of
`/auth/refresh` from the client's read of the token to its `setTokens`, and at the
server in two steps: `Refresh` finds the token, then revokes it and issues the next pair.
`SignIn`, `OpenTab`, `AuthCallback`, `LogoutStarts`, `LogoutEnds` and `Expire` are the
rest. `WebApi` gives the calls: each client function with its `auth` flag, and the
groups the server guards.

### Library

`page` is the store, `browser` the `localStorage`, `account` the server. `visit` is `init`
or `login` with the load, the import and the reload they run, one await at a time;
`call[c]` is a `toggleLiked` whose next set was computed before the await; `download[d]`
a `downloadTrackForOffline` from its test of the limit to its record. `WebPlaylists` adds
the server's `rows`, the store's `shelf`, the page `shown`, and `edit[e]`: a call that
creates, renames, deletes, adds, removes, sets, shares, joins or leaves, which at the
server reads the items and writes them back in two steps, and whose answer the store
merges. A friend edits the same rows.

### Player

`PlayerQueue` has one action for each synchronous stretch of `playerStore.ts`; `calls`
are the open `getRecommendNext` calls with the queue that each read before its await.
`similar` is the list beside the track, which may be of an earlier track. `AudioEngine`
has the element (`src`, paused, a `play()` not begun, volume) and `loads`: the
asynchronous body of the load effect, at the await it is at (`fadeOut`, `attachFaded`,
`fadeIn`, `attach`, `retry`), `live` until its cleanup has cancelled it. Which track comes
next is `PlayerQueue`'s matter; in `AudioEngine` it is any.

### Studio and console

`UploadStudio` has the server's tracks (`row`: status, metadata, master file), the run of
the worker with the metadata it read before the work (`worker`), the state of `UploadPage`
(`wizard`) and its list. `call[c]` is one of the pages' functions with the await it is
at; a call writes what its answer brings to the wizard as it is then, which may be of a
later flow. Metadata are reduced to the flow whose form it was filled with, the lyrics,
and what the worker adds. `AdminConsole` adds the list, the panel, the function that
awaits (`deed`), and the previews: `sound[r]` of the button of a row (`asked` while it
loads, `orphan` when its button was removed meanwhile), `activeStop` of
`adminPlayback.ts`. Its server side is `admin/handler.go`, `patch.go` and `publish.go`.

## Runs

Passing:

| Run | Instance | Shows |
|---|---|---|
| `pipeline_one_worker` | 1 worker, 2 slots, 2 requests, 1 track, 2 jobs; a crash, an API fault, a replay | `TypeOK`; a job is never in two places to be run from (`OneRunPerJob`); attempts are bounded (`AttemptsBounded`); what main requeues is in flight (`ActiveJobInFlight`); completed rows stay so (`CompletedStays`) |
| `pipeline_faults` | 1 worker, 1 slot, 1 job; each disturbance once | `AccountedFor`, `NoLossWithoutFault`, `DeadLetterEarned`, `ProcessingHasJob` |
| `pipeline_live` | 1 worker, 2 jobs; a crash and a SIGTERM; fair | `EveryJobSettles`, `NoTrackStuck`, `ShutdownEnds` |
| `moderation` | 1 worker, 2 slots, 1 track, 3 jobs, 1 request at a time, 1 moderator; undisturbed; fair | `FollowsLifecycle`, `ReleasedIsReviewed`, `ScheduleIsKept` |
| `moderation_faults` | 1 worker, 2 moderators; up to two kinds of crash, signal, error, API fault | `OneNoticePerRelease` |
| `listening_party` | a host's page with 1 call at a time, 1 guest's page with 2 streams, channels of 1, 2 updates, 1 act; fair | what the room has reaches a guest that reads (`GuestHasLatest`), a page at rest shows its stream's last event (`GuestAtRestFollows`), a pause is pushed in the end (`PauseIsPushed`), `RollbackOnlyAtStart`, no send waits for a guest (`UpdateEnds`) |
| `player_queue` | 3 tracks, queue up to 3, answers of 2, 1 call of each kind | the index stays in the queue (`TypeOK`) and points at what plays (`CurrentIsQueued`); only a click on a similar track puts one in twice (`DuplicatesOnlyFromSimilar`) |
| `player_engine` | a track and a mix, 2 loads at once | `HeardIsCurrent`, `FadesKeepVolume`, `CancelledStaysSilent` |
| `session` | 2 tabs with 2 calls each, 2 calls and 2 refreshes at once, 3 pairs | `OneLivingToken`, `GuardedCallsCarryToken`, `StaysSignedIn` |
| `library` | 3 tracks, 2 lists of a guest (one empty), 1 like, 2 downloads at a limit of 1, 2 playlists, 2 edits; 3 acts, 1 trouble | the import is repeated only after a loss (`ImportedOncePerLoss`) and clears nothing before it (`ImportedBeforeCleared`); at rest the store is the server's (`AtRestStoreIsTrue`, `AtRestShelfIsTrue`); `OfflineWithinLimit`; an edit keeps what it read (`KeepsWhatItRead`) |
| `studio` | 2 tracks, 2 calls, 2 polls, 2 flows; 3 acts, 1 trouble; fair | `DraftKeepsItsFlow`, `NoFieldDropped`, `SoloPreview`, every upload ends in a verdict (`WizardSettles`) |

Violated:

| Run | Property | What happens |
|---|---|---|
| `guest_library` | `GuestLibraryKept` | a guest with likes signs in and out before the import; `reset` empties the store and not `localStorage`; the guest's next like overwrites what is stored. `pages/LibraryPage.tsx:85` says that a guest's likes are kept on the device |

More configurations are kept beside the runs, for larger instances and for other
sentences of the documentation that the code does not keep:

| Configuration | Module | Shows |
|---|---|---|
| `MCPipelineReplicas`, `MCModerationReplicas`, `MCPartyHub` | `MCTranscodePipeline`, `MCTrackModeration`, `MCPartyHub` | pass: 2 workers on one job; 2 sweeps that list one track; the hub alone with channels of 2, 3 updates and 2 calls |
| `MCPipelineAttempts` | `MCTranscodePipeline` | `AttemptsBounded` fails with two replicas, without a fault: both promote one due retry (`README.md:209` gives the maximum) |
| `MCPipelineProtected` | `MCTranscodePipeline` | `RunIsProtected` fails: the ack of one run removes the processing entry of the other (`redis.go:137`) |
| `MCModerationShutdown` | `MCTrackModeration` | `FollowsLifecycle` fails: SIGTERM between the status write and `MarkJobCompleted` takes a track under review back to processing (`README.md:213`) |
| `MCPartyFollow` | `MCPartyHub` | `GuestsFollow` fails: a guest leaves after the copy of the subscribers, the send panics, the guests after it miss the update (`useListeningParty.ts:31`) |
| `MCHostFollowed` | `MCListeningParty` | `HostIsFollowed` fails: while the host plays, each tick restarts the timer and nothing is pushed (`PartyPage.tsx`: "guests follow automatically") |
| `MCSleepTimer` | `MCAudioEngine` | `SleepTimerHolds` fails: the timer pauses the element, but a load under way, or an `appendRecommendedNext` that is answered, plays on (the comment of `useSleepTimer.ts`) |

### Bounds

Pipeline: job ids are given out once, so the number of ids bounds the uploads; a request
begins only while an id is left (`JobIdLeft`). `Limit` bounds each kind of disturbance.
One of a kind is enough for each race named above: they need one crash, one signal or one
overrun between two given steps, and a second replica or request. `MaxAttempts = 2` has
both branches of `HandleFailure`; the moderation runs with faults use 1, since how often
a run is retried does not matter to notices. In `moderation_faults` the constraint
`TwoDisturbances` keeps the number of kinds at two. `ModeratesFrom` restricts moderators to
tracks under review.

Party: `Buffer` is 1 in place of the code's 4, with one update more than it holds, so that
channels fill; two streams let a page reconnect; `MaxActs` bounds what the host does.

Client: `MaxQueue`, `MaxAnswer`, `MaxSimilar`, `MaxCalls` bound the queue, an answer of the
recommender, the similar list and the open calls; three tracks make every move of the
queue different. Two loads make one cancelled and one live. `MaxTokens` bounds the pairs
issued: three are a sign-in and two refreshes, or a sign-in, a refresh and another
sign-in; `MaxOpen` the calls under way. `NotDoubled` leaves out the states after two
refreshes of one token, which all three properties of the run excuse. `MaxActs` bounds
what the user, the friend or the moderator begins and `MaxTroubles` the calls that fail;
every race named below needs at most three acts and one failure. `Tries` stands for the
wizard's 40 polls, `MaxFlows` for its uploads. `MaxLength` bounds playlists, `MaxTracks` is
the offline limit.

Deadlock checking is off in the party runs and in the runs of the client: the bounds on
updates, acts, tokens and calls let these systems come to rest, which their programs may
do as well (a user may stop). It is on in the runs of the pipeline and of moderation.

The premises in the properties are where the code stops keeping them, found by TLC and
kept explicit: `OneRunPerJob` and `FollowsLifecycle` are claimed for one replica,
`ProcessingHasJob` either without a worker's death or without a double run (one worker,
no overrun, no failed call, and one slot if it is shut down: see the disagreements),
`FollowsLifecycle` without faults, with one request at a time per system and one
moderator. Two `CompleteUpload` calls that both pass the status test put two jobs on one
track, and two moderators can publish what one of them rejected. The histories `clean`,
`crossed`, `overtaken`, `late`, `mixed`, `excused`, `doubled` and `troubled` name the
overlaps that the client does not survive; "Known disagreements" below says what happens
in each.

### Fairness

Weak fairness of a request's, a goroutine's, an administrator's and the main loop's steps
says that a call that began goes on: nothing in the code waits for another actor but the
main loop for a slot, and slots are left by goroutines that are fair. `BecomeDue` and
`Expire` are fair because time passes. Nothing is assumed of arrivals, of a run's success,
or of disturbances; these may fail every time and then end in the dead letters. For
moderation, a sweep is fair (a ticker) and so is a publish call that has written; no
moderator and no creator has to act. In the hub only the host's sends are fair: a client
need not read. `PartyFairSpec` adds that a timer that is set fires and a PUT that was sent
arrives or fails. `ConsoleSpec` is weakly fair to each `CallStep(c)`: a request is answered
or fails, and a poll's timer fires. Of the worker, the creator and the moderator it
assumes nothing: `WizardSettles` is about a poll that may never see its track done. The
other specifications of the client state no fairness; their properties are safety.

Symmetry is used in runs without temporal properties except action properties over
identities that are permuted as a set.

## Proofs

For every value of the constants, from the assumptions named in the modules
(`JobsAssumption`, `CatalogAssumption`, `PipelineAssumption`, `ModerationAssumption`,
`PartyAssumption`, `ClientAssumption`, `SessionAssumption`, `LibraryAssumption`,
`PlaylistAssumption`, `PlayerAssumption`, `EngineAssumption`, `StudioAssumption`), which TLC
evaluates in the runs. They say that bounds are numbers, that sets which stand for processes or slots are
finite where they are counted, and that the values for "none" are none of the others.

Nothing below is proved by unfolding a property: each has an inductive strengthening,
named here, with a lemma for each kind of step and one that puts them together.

Pipeline (`TranscodePipelineProofs`)

- `TypeCorrect`: `Spec => []TypeOK`. `TypeOK` is not inductive: a step enqueues or marks the
  job of a program counter, so `TypeInvariant` adds that each counter that is about to use
  a job has one.
- `NothingLostSilently`: `Spec => []AccountedFor`. The strengthening `SafeInv` says of
  each place a job can be taken from that the job was queued before (`KnownIn...`), that
  a request's fresh id has not been, and that a finished run's job is marked completed or
  dropped: otherwise an ack could remove the last trace of a submitted job.
- `NothingLostWithoutFault`: `Spec => []NoLossWithoutFault`, from the former and
  `CalmInv`: while no worker died, no context was cancelled and no call failed, nobody
  is in a state from which the next step drops a job.
- `BuriedWhenSpent`: `Spec => []DeadLetterEarned`. `EarnedInv` adds that a goroutine that is
  about to bury, and an administrator that holds a dead letter, has a job with its
  attempts spent; no step lowers a counter (`AttemptsGrow`).
- `ActiveIsInFlight`: `Spec => []ActiveJobInFlight`, inductive with the types, for any number
  of replicas.
- `PlaceInvariant`: while the one worker was neither shut down nor slow, no call of it
  failed and two administrators do not replay twice (`Calm`), a job is in one place:
  `Exclusive` says which places exclude which, `OnceInPending`, `OnceInDLQ`, `OnceRunning`
  that it is there once. `BaseInv` is what that rests on: idle slots, replays counted, and
  no running job with a passed deadline, so that a reclaim finds only jobs of the dead.
- `OneRunAtATime`, `RunsAreBounded`, `CompletedIsFinal`: `OneRunPerJob`, `AttemptsBounded` and
  `CompletedStays` for every instance with such a worker (`OneWorkerSetting`, the setting of
  `pipeline_one_worker`: crashes, API faults and replays stay as many as `Limit` allows).
  `CountInv` says that a job which will be run again has an attempt left of `MaxAttempts`
  plus the crashes and replays so far; a crash gives one because the run it ends has
  counted one, and in one place the job is only once.
- `ProcessingIsPursued`: `Spec => []ProcessingHasJob`, for any number of workers, with the
  premises of the property. `PursuedInv` follows a job of the track: it waits, or a
  goroutine will still write the status (`Ahead`), or the processing set has it while
  nobody is past the status write with it (`RunPast`). `Sheltered` is the premise as the
  invariant keeps it; where a worker may die, `Shielded` (a running job has its processing
  entry, or the main loop has the job in hand) and `PlaceInv` for one slot keep the
  ack of one copy from taking the entry of another.

Moderation (`TrackModerationProofs`)

- `ModerationTypeCorrect`: the types of the pipeline and of what moderation adds to it.
- `NothingLostInTheWhole`: `ModerationSpec => []AccountedFor`. A step of a moderator, a
  creator or a sweep changes the pipeline's state only in the rows of tracks and in the
  API faults spent (`OwnStep`, `TrackStep`), so every invariant proved of `Spec` survives it:
  `PipelineInv` is their conjunction, `PipelineInvariant` lifts it to the whole.
- `OneNotice`: `ModerationSpec => []OneNoticePerRelease`, for any disturbances. The property
  is not inductive, because a sweep whose process has been told to stop still counts as
  owing a notice and may yet leave without it. `Ledger` counts only the sweeps that are
  sure to tell (`Sure`: their process has not been told to stop) on the side where a
  release is lost; `DrainInv` says that a process at its end was told to stop, so that
  leaving costs no sure one.
- `ReviewedBeforeRelease`: `ModerationSpec => []ReleasedIsReviewed`, and `LifecycleFollowed`:
  `ModerationSpec => FollowsLifecycle`, for every instance with `ReviewSetting`, the setting
  of the run `moderation`: one worker process that is not disturbed, one request and one
  moderator at work at a time, who only loads tracks under review, and calls of the API
  that fail as often as they like. The numbers of slots, tracks, jobs and retries are any.
  "Bounds" and `MCModerationShutdown` say what happens outside that setting. `LifeInv`:
  a job that will still write a status (`Unsettled`) is the only one of its track
  (`OneToSettle`), whose row is `processing` (`StillProcessing`); a request that has marked a track
  brings its first one (`RequestLeads`); nothing is reclaimed from a live process
  (`Quiet`); and what the moderator has loaded stays under review until it is published
  (`LoadedIsReviewed`). It rests on `InOnePlace`, which `PipelineInv` carries over. Each
  step then moves the status of one track along an edge of `TrackLifecycle`.

Party (`ListeningPartyProofs`)

- `RoomReachesGuests`: `Spec => []GuestHasLatest`. `GuestHasLatest` says nothing of an update
  on its way; `HubInv` does: without overlap one call at most sends, it sends the room's
  state, and a guest it has already tried with success has that state at the end of its
  channel or in its last event.
- `RollbackOnce`: `Spec => RollbackOnlyAtStart`, by `OrderInv`: the states in a channel are in
  order, after the last event unless that was the initial state.
- `PartyImplementsHub`: `PartySpec => Spec`, each step of the pages is one of the hub or
  leaves it alone; `PartyReachesGuests` and `PartyRollbackOnce` follow.
- `TypeCorrect`: `PartySpec => [](TypeOK /\ PageTypeOK)`; each state of the room carries an
  act of the host.
- `PagesFollow`: `PartySpec => []GuestAtRestFollows`. `PageInv` says that no two pages have
  one stream and that a page shows, or is about to show, its stream's last event.

Client (`WebSessionProofs`, `WebLibraryProofs`, `PlayerQueueProofs`, `AudioEngineProofs`,
`AdminConsoleProofs`; each has its `TypeCorrect`)

- `GuardedCarry`, `OneToken`, `StaysIn`. `Numbers` bounds every token in use by the last one
  issued; `CarryInv` says that a refresh that succeeds has a token for the calls that
  wait; `OneInv` that a token checked by an open refresh is the only living one of its
  login; `SafeInv` that without an excuse the stored token lives or is about to be
  replaced by the answer of a refresh of its own.
- `ImportOnce`, `ClearedOnceImported`, `StoreAtRest`, `OfflineLimit`, all of `CollectionSpec`:
  the steps of the playlists touch the library only by a reload (`Besides`). `ImportInv`
  ties the copies to the answers lost, `ClearInv` the library that an import carries to
  what the browser has, `RestInv` a toggle under way to the store it was computed from.
  `RoomInv` counts the tracks that are there with those that a tested download will add.
- `ShelfAtRest`: `CollectionSpec => []AtRestShelfIsTrue`. `ShelfInv` says that without an
  overlap one edit runs at a time and not beside a load, and `EditInv` what that one has
  done to the row and not yet to the store; `Seen` is what the account may see of a row.
- `QueueInOrder`, and from it `IndexFollows` (`CurrentIsQueued`), `NoDoubles`
  (`DuplicatesOnlyFromSimilar`) and `TypeCorrect`: `QueueInv` adds to them that the queues
  which open calls read before their await are queues and not empty, so that a late answer
  extends one. What `findIndex` finds is the first place
  (`LeastNumber`), and a queue of distinct tracks without one of them, or with one it
  lacks, is distinct again; each is a lemma about the operators.
- `HeardCurrent`, `VolumeKept`, from `HeardInv`: at each await of a load that runs alone,
  `CleanLoad` says what it has done to the element. `SilentCancelled` needs the types only.
- `OnePreview` (`SoloInv`: all but one are silent, and the one that plays is registered),
  `FieldsKept` (every writer merges into what it read), `DraftKept` (`FlowInv`: the draft of
  the wizard, each save and everyone who has read a track's metadata have the form of that
  track).

Only model-checked:

- liveness, out of the prover's reach: `EveryJobSettles`, `NoTrackStuck`, `ShutdownEnds`,
  `ScheduleIsKept`, `PauseIsPushed`, `UpdateEnds`, `WizardSettles`;
- `KeepsWhatItRead`: it is about sequences filtered and merged by the recursive operators
  of the libraries.

## Known disagreements

What the histories above excuse, and what else the code does that its texts or its
users would not expect. Each was met while modelling; none is needed by a passing run.

Pipeline. A SIGTERM that requeues `activeJob` puts a second copy of a job into the
pending list if its goroutine has scheduled the retry by then (`main.go`, `retry.go`).
With two slots both copies run, the ack of one removes the processing entry of the other,
and a crash then loses a job whose track stays in processing: found when the premise of
`ProcessingHasJob` was tried without its limit of one slot.

Player. A load that was cancelled still sets the element's source
(`useAudioEngine.ts:38`), so after two quick skips the older track may be heard. Playing
the same track again does not run the load effect. A crossfade that starts during another
takes the faded volume as its target. A load unmutes a muted player
(`mobileMedia.ts:14`). `appendRecommendedNext` and `startRadio` extend the queue they read
before the await. The similar list may be an earlier track's (`NowPlayingView.tsx:112`).
A queue read from another device replaces the queue under a playing track
(`usePlayerStateSync.ts:39`), and its 2.5 s save is restarted by every tick.

Session. Two tabs that refresh one token: the second is refused, and its `clearTokens`
deletes the tokens the first has stored (`client.ts:118`, `auth/service.go:73`). A refresh
that is answered after a logout stores the old session's tokens (`client.ts:67`). A refused
call of an old session clears a new login's tokens. `init` signs out on any failure, not
only a refusal (`authStore.ts:58`). `refreshUser` that is answered after a logout signs the
page in again. `getTrackReactions` never sends the token.

Party. A host that plays on does not push; one that leaves `PartyPage` stops pushing; a
PUT may overtake another; a guest's late fetch sets it back; a send to a channel that was
closed ends the loop over the others.

Library. A guest's likes are lost by `reset` and a toggle (the violation run), and likes
made after the import are never imported (`localLibrary.ts:44`). Overlapping toggles, and
answers after a reset, put an old set into the store (`libraryStore.ts:117`). Playlist
answers are applied in any order. Items are read, changed and written back, and a reorder
sends the whole list, so a friend's additions may go. `PlaylistPage` moves by the index of
the filtered list (`:70`). An import that is repeated after a lost answer doubles its
playlists; one failing insert ends it. `markLibraryMigrated` clears what another tab has
added. The offline count is tested before the insert on both sides, and IndexedDB records
outlive the account.

Studio. Lyrics saved while a track is transcoded are lost (`worker/transcode.go:56`,
against `LrcEditorPanel.tsx:61`), and a save that overlaps the worker's write drops the
`hls` entry. `UpdateDraft` replaces the metadata. A poll of an earlier try may end the
form being filled (`UploadPage.tsx:138`); a save that is answered after a reset gives the
old draft to the new flow; "Continue" twice makes two drafts. `InitCoverUpload` sets the
key before the file is there. `rejectTrack` rejects whatever the status is. The page tests
for "Admin key" where the server says "admin key" (`AdminPage.tsx:40`). Two previews that
load together both play, the panel's preview is not coordinated with them, and that of a
removed button plays on.

## Plan

Done: pipeline, moderation, party end to end, session, library, playlists, offline, queue,
audio, studio, console; the theorems above, which cover every safety property of the
passing runs but `KeepsWhatItRead`. Left, in this order:
the worker's run split into its writes (HLS key, segments); the saving side of the
player-state sync; the tokens of password reset and mail verification.

## Not modelled

- Pages that fetch and render, with state of their own only: search, home, discover, feed,
  charts, artist, profile, settings, onboarding, notifications, recent tracks, embed,
  sidebar, `TrackPage` with its reactions and comments, `uiStore`, push subscriptions.
- Of the modelled pages: playlist clone, export, follow and public lists, the matching of
  an imported list; seeking, rate, incognito, effects and karaoke; the covers' data, the
  artist profile, the dead-letter section and the schedule panel of the console (which
  puts UTC text into a local time field), leaving the wizard's page for another.
- `email_tokens.go`, the OIDC exchange, token encoding; the saving of the player's state.
- Streaming and signing, search, users, imports, seed data, health, e-mail, metrics: they
  read, format, or write one row in one statement. The pure functions (byte ranges,
  playlist text, `RetryDelay`) and the generated `api/generated/schema.ts` keep no state.
- Object storage, ffmpeg, the analyzer, the recommender and PostgreSQL are external:
  their calls succeed or fail, and answer anything of their kind.

`PROJECT.json` has the full list with reasons.
