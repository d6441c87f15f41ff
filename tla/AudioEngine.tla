----------------------------- MODULE AudioEngine ----------------------------
(***************************************************************************)
(* What is heard of the current track (apps/web/src/hooks/useAudioEngine,  *)
(* lib/crossfade, lib/mobileMedia, hooks/useSleepTimer and the parts of    *)
(* store/playerStore that touch the audio element).  Each change of the    *)
(* current track starts a load; the loads before it are only marked as     *)
(* cancelled and go on at their awaits: a fade, a call of the server, a    *)
(* second call after a failure.  Which track follows which is PlayerQueue: *)
(* here it is any.                                                         *)
(***************************************************************************)
EXTENDS Naturals, FiniteSets

CONSTANTS
  Tracks,
  NoTrack,
  Mixes,       \* continuous mixes: they are crossfaded
  Loads        \* loads that may be open at once (bound)

ASSUME EngineAssumption == NoTrack \notin Tracks /\ Mixes \subseteq Tracks

\* Volumes: 0, less than the default, the default of 0.8.
Half == 1
Full == 2

VARIABLES
  track,         \* currentTrack
  isPlaying,
  fadeOnLoad,    \* crossfadeOnLoad or gaplessOnLoad
  volume,        \* the volume the user set
  audio,         \* the element: its source, paused, a play() not begun, its volume
  loaded,        \* the track the load effect last ran for
  loads,         \* its asynchronous runs
  asking,        \* appendRecommendedNext awaits the server
  sleep,         \* the sleep timer; fired until the listener plays again
  clean          \* history: the last load ran alone and found its source

engineVars == <<track, isPlaying, fadeOnLoad, volume, audio, loaded, loads, asking,
                sleep, clean>>

Idle == [pc |-> "idle", track |-> NoTrack, live |-> FALSE, target |-> Full]
Open(l) == loads[l].pc # "idle"

TypeOK ==
  /\ track \in Tracks \cup {NoTrack} /\ loaded \in Tracks \cup {NoTrack}
  /\ isPlaying \in BOOLEAN /\ fadeOnLoad \in BOOLEAN
  /\ asking \in BOOLEAN /\ clean \in BOOLEAN
  /\ volume \in 0..Full
  /\ audio \in [src : Tracks \cup {NoTrack}, paused : BOOLEAN, starting : BOOLEAN,
                vol : 0..Full]
  /\ loads \in [Loads -> [pc : {"idle", "fadeOut", "attachFaded", "fadeIn", "attach",
                                "retry"},
                          track : Tracks \cup {NoTrack}, live : BOOLEAN,
                          target : 0..Full]]
  /\ \A l \in Loads : Open(l) => loads[l].track # NoTrack
  /\ sleep \in {"off", "armed", "fired"}

Init ==
  /\ track = NoTrack /\ loaded = NoTrack
  /\ isPlaying = FALSE /\ fadeOnLoad = FALSE
  /\ volume = Full
  /\ audio = [src |-> NoTrack, paused |-> TRUE, starting |-> FALSE, vol |-> Full]
  /\ loads = [l \in Loads |-> Idle]
  /\ asking = FALSE /\ sleep = "off" /\ clean = TRUE

store == <<track, isPlaying, fadeOnLoad, volume>>
engine == <<loaded, loads, clean>>

-----------------------------------------------------------------------------
(* The element *)

\* Mutant: the default whatever the user set.
AudibleDefault(v) == Full

\* ensureAudible: a volume of 0 becomes the default.
Audible(v) == IF v > 0 THEN v ELSE Full

Playing(a) == [a EXCEPT !.paused = FALSE, !.starting = (a.src # NoTrack)]
Paused(a) == [a EXCEPT !.paused = TRUE, !.starting = FALSE]

\* audio.src = url: the element stops without a pause event.
WithSource(a, t) == [Paused(a) EXCEPT !.src = t]

\* A play() that has not begun is rejected, and its catch clears the flag.
FlagAfterSource == IF audio.starting THEN FALSE ELSE isPlaying

\* The playing event.
PlaybackBegins ==
  /\ audio.starting
  /\ audio' = [audio EXCEPT !.starting = FALSE, !.vol = Audible(volume)]
  /\ UNCHANGED <<store, engine, asking, sleep>>

-----------------------------------------------------------------------------
(* The store *)

ShouldFade(from, to) == from # NoTrack /\ from # to /\ {from, to} \cap Mixes # {}

PlayTrack(t) ==
  /\ track' = t
  /\ isPlaying' = TRUE
  /\ fadeOnLoad' = ShouldFade(track, t)
  /\ UNCHANGED volume

\* The listener plays a track, or goes to the next one.
Pick ==
  /\ \E t \in Tracks : PlayTrack(t)
  /\ sleep' = IF sleep = "fired" THEN "off" ELSE sleep
  /\ UNCHANGED <<audio, engine, asking>>

\* The pause and ended events, and next.
Ends ==
  /\ ~audio.paused /\ ~audio.starting
  /\ audio' = Paused(audio)
  /\ \/ \E t \in Tracks : PlayTrack(t) /\ UNCHANGED asking
     \/ asking' = TRUE /\ isPlaying' = FALSE /\ UNCHANGED <<track, fadeOnLoad, volume>>
     \/ isPlaying' = FALSE /\ UNCHANGED <<track, fadeOnLoad, volume, asking>>
  /\ UNCHANGED <<engine, sleep>>

RadioAnswers ==
  /\ asking /\ asking' = FALSE
  /\ \/ \E t \in Tracks : PlayTrack(t)
     \/ isPlaying' = FALSE /\ UNCHANGED <<track, fadeOnLoad, volume>>
  /\ UNCHANGED <<audio, engine, sleep>>

TogglePlay ==
  /\ audio' = IF isPlaying THEN Paused(audio) ELSE Playing(audio)
  /\ isPlaying' = ~isPlaying
  /\ sleep' = IF sleep = "fired" /\ ~isPlaying THEN "off" ELSE sleep
  /\ UNCHANGED <<track, fadeOnLoad, volume, engine, asking>>

PauseStep ==
  /\ audio' = Paused(audio)
  /\ isPlaying' = FALSE
  /\ UNCHANGED <<track, fadeOnLoad, volume, engine, asking>>

Pause == PauseStep /\ UNCHANGED sleep

\* The last queued track is removed.
RemoveLast ==
  /\ track # NoTrack
  /\ track' = NoTrack /\ isPlaying' = FALSE
  /\ audio' = Paused(audio)
  /\ UNCHANGED <<fadeOnLoad, volume, engine, asking, sleep>>

SetVolume ==
  /\ volume' \in 0..Full
  /\ audio' = [audio EXCEPT !.vol = volume']
  /\ UNCHANGED <<track, isPlaying, fadeOnLoad, engine, asking, sleep>>

SetSleepTimer ==
  /\ sleep' \in {"off", "armed"} \ {sleep}
  /\ UNCHANGED <<store, audio, engine, asking>>

\* useSleepTimer: pause, and the timer is cleared.  The history leaves out a
\* timer that fires in the instant before the effect of a new track.
SleepTimerFires ==
  /\ sleep = "armed"
  /\ sleep' = IF track = loaded THEN "fired" ELSE "off"
  /\ PauseStep

-----------------------------------------------------------------------------
(* The loads *)

Cancelled == [l \in Loads |-> [loads[l] EXCEPT !.live = FALSE]]

\* The effect of a change of the current track, up to the first await.
LoadEffect ==
  /\ track # loaded
  /\ loaded' = track
  /\ clean' = (track # NoTrack /\ \A l \in Loads : ~Open(l))
  /\ IF track = NoTrack
     THEN loads' = Cancelled /\ UNCHANGED <<isPlaying, fadeOnLoad>>
     ELSE \E l \in {k \in Loads : ~Open(k)} :
            LET fades == fadeOnLoad /\ audio.src # NoTrack IN
            /\ loads' = [Cancelled EXCEPT ![l] =
                           [pc |-> IF fades THEN "fadeOut" ELSE "attach",
                            track |-> track, live |-> TRUE, target |-> audio.vol]]
            /\ isPlaying' = FALSE
            /\ fadeOnLoad' = (fadeOnLoad /\ fades)
  /\ UNCHANGED <<track, volume, audio, asking, sleep>>

At(l, pc) == loads[l].pc = pc
Goto(l, pc) == loads' = [loads EXCEPT ![l].pc = pc]
Finish(l) == loads' = [loads EXCEPT ![l] = Idle]
OtherVars == <<track, volume, loaded, asking, sleep>>
LoadOnly == UNCHANGED <<OtherVars, clean>>

\* Mutant: a load that was cancelled plays.
ConcludeCancelled(l, a) ==
  /\ Finish(l)
  /\ audio' = Playing(a) /\ isPlaying' = TRUE /\ fadeOnLoad' = FALSE

\* The end of a load: playAudible, or a return if the load was cancelled.
\* The browser may refuse to play.
Conclude(l, a) ==
  /\ Finish(l)
  /\ IF loads[l].live
     THEN LET b == [a EXCEPT !.vol = Audible(volume)] IN
          /\ fadeOnLoad' = FALSE
          /\ \/ audio' = Playing(b) /\ isPlaying' = TRUE
             \/ audio' = b /\ isPlaying' = FALSE
     ELSE audio' = a /\ UNCHANGED <<isPlaying, fadeOnLoad>>

Fade(l) ==
  /\ At(l, "fadeOut") \/ At(l, "fadeIn")
  /\ audio' = [audio EXCEPT !.vol = IF loads[l].target = 0 THEN 0 ELSE Half]
  /\ audio' # audio
  /\ UNCHANGED <<isPlaying, fadeOnLoad, loads>> /\ LoadOnly

FadedOut(l) ==
  /\ At(l, "fadeOut")
  /\ Goto(l, "attachFaded")
  /\ audio' = [Paused(audio) EXCEPT !.vol = 0]
  /\ isPlaying' = (isPlaying /\ audio.paused)
  /\ UNCHANGED fadeOnLoad /\ LoadOnly

FadedIn(l) ==
  /\ At(l, "fadeIn")
  /\ Conclude(l, [audio EXCEPT !.vol = loads[l].target])
  /\ LoadOnly

\* The source is set without a look at cancelled.
AttachFaded(l) ==
  /\ At(l, "attachFaded")
  /\ Goto(l, "fadeIn")
  /\ audio' = WithSource(audio, loads[l].track)
  /\ isPlaying' = FlagAfterSource
  /\ UNCHANGED fadeOnLoad /\ LoadOnly

\* Mutant: a fade without its source plays on.
AttachFadedFailsPlays(l) ==
  /\ At(l, "attachFaded")
  /\ Conclude(l, audio)
  /\ LoadOnly

AttachFadedFails(l) ==
  /\ At(l, "attachFaded")
  /\ IF loads[l].live THEN Goto(l, "attach") ELSE Finish(l)
  /\ UNCHANGED <<audio, isPlaying, fadeOnLoad>> /\ LoadOnly

Attach(l) ==
  /\ At(l, "attach")
  /\ \/ loads[l].live /\ Conclude(l, WithSource(audio, loads[l].track))
     \/ /\ ~loads[l].live /\ Finish(l)
        /\ audio' = WithSource(audio, loads[l].track)
        /\ isPlaying' = FlagAfterSource /\ UNCHANGED fadeOnLoad
  /\ LoadOnly

AttachFails(l) ==
  /\ At(l, "attach")
  /\ Goto(l, "retry")
  /\ UNCHANGED <<audio, isPlaying, fadeOnLoad>> /\ LoadOnly

\* One second call; here a load that was cancelled leaves the source alone.
Retry(l) ==
  /\ At(l, "retry")
  /\ \/ /\ loads[l].live /\ Conclude(l, WithSource(audio, loads[l].track))
        /\ UNCHANGED clean
     \/ /\ Finish(l) /\ UNCHANGED <<audio, isPlaying, fadeOnLoad>>
        /\ clean' = (clean /\ ~loads[l].live)
  /\ UNCHANGED OtherVars

LoadStep(l) ==
  \/ FadedOut(l) \/ FadedIn(l) \/ AttachFaded(l) \/ AttachFadedFails(l)
  \/ Attach(l) \/ AttachFails(l) \/ Retry(l)

-----------------------------------------------------------------------------
\* The keys of the lock screen: play only starts, pause only pauses.
MediaSession == (~isPlaying /\ TogglePlay) \/ Pause \/ Pick

\* The bar's button is disabled without a track; the space bar is not.
PlayerBar == (track # NoTrack /\ TogglePlay) \/ Pick \/ SetVolume
Keyboard == TogglePlay \/ Pick

\* The menu of a track that plays; rate and incognito change nothing here.
PlayerComfortMenu == track # NoTrack /\ SetSleepTimer

Next ==
  \/ PlayerBar \/ Keyboard \/ PlayerComfortMenu \/ MediaSession \/ RemoveLast
  \/ SleepTimerFires
  \/ PlaybackBegins \/ Ends \/ RadioAnswers
  \/ LoadEffect \/ \E l \in Loads : Fade(l) \/ LoadStep(l)

Spec == Init /\ [][Next]_engineVars

-----------------------------------------------------------------------------
(* Properties *)

Quiet == track = loaded /\ \A l \in Loads : ~Open(l)
Heard == ~audio.paused /\ ~audio.starting /\ audio.src # NoTrack

(* Once a load that overlapped no other has found its source, what is      *)
(* heard is the current track, through fades, failures and their retries.  *)
HeardIsCurrent == Quiet /\ Heard /\ clean /\ track # NoTrack => audio.src = track

(* It is then heard at the volume that the user set, also if that was set  *)
(* during a fade or a fade failed.  (A muted player is unmuted by a load.) *)
FadesKeepVolume == Quiet /\ Heard /\ clean /\ volume > 0 => audio.vol = volume

(* A load that was cancelled, at whatever await, never starts the element: *)
(* what starts it is the listener or the load of the last effect.          *)
CancelledStaysSilent ==
  [][audio.paused /\ ~audio'.paused =>
       TogglePlay \/ \E l \in Loads : loads[l].live /\ loads'[l].pc = "idle"]_engineVars

(* useSleepTimer.ts: "Pause playback when the sleep timer expires."        *)
SleepTimerHolds == sleep = "fired" => audio.paused
=============================================================================
