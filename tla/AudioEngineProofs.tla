------------------------- MODULE AudioEngineProofs -------------------------
(***************************************************************************)
(* Proofs about AudioEngine for any tracks and any number of loads that    *)
(* are open at once.  HeardInv says what a load that runs alone has done   *)
(* to the element at each of its awaits: CleanLoad.                        *)
(***************************************************************************)
EXTENDS AudioEngine, TLAPS

Sources == Tracks \cup {NoTrack}
AudioType == [src : Sources, paused : BOOLEAN, starting : BOOLEAN, vol : 0..Full]
PCs == {"idle", "fadeOut", "attachFaded", "fadeIn", "attach", "retry"}
LoadType == [pc : PCs, track : Sources, live : BOOLEAN, target : 0..Full]

\* What the element becomes keeps its type.
LEMMA ElementTypes ==
  ASSUME NEW a \in AudioType, NEW t \in Sources, NEW v \in 0..Full
  PROVE  /\ Playing(a) \in AudioType /\ Paused(a) \in AudioType
         /\ WithSource(a, t) \in AudioType
         /\ [a EXCEPT !.vol = v] \in AudioType
         /\ Audible(v) \in 0..Full
<1>1. a.src \in Sources /\ a.paused \in BOOLEAN /\ a.starting \in BOOLEAN /\ a.vol \in 0..Full
  BY DEF AudioType
<1>2. Paused(a) \in AudioType
  BY DEF AudioType, Paused
<1>3. WithSource(a, t) \in AudioType
  BY <1>2 DEF AudioType, WithSource
<1>4. Playing(a) \in AudioType
  BY DEF AudioType, Playing
<1>5. [a EXCEPT !.vol = v] \in AudioType
  BY DEF AudioType
<1>6. Audible(v) \in 0..Full
  BY DEF Audible, Full
<1>7. QED
  BY <1>2, <1>3, <1>4, <1>5, <1>6

\* The end of a load, of an element as the load leaves it.
LEMMA ConcludeTypes ==
  ASSUME TypeOK, NEW l \in Loads, NEW a \in AudioType, Conclude(l, a)
  PROVE  /\ audio' \in AudioType
         /\ isPlaying' \in BOOLEAN /\ fadeOnLoad' \in BOOLEAN
<1>1. volume \in 0..Full
  BY DEF TypeOK
<1>2. Audible(volume) \in 0..Full
  BY <1>1 DEF Audible, Full
<1>3. [a EXCEPT !.vol = Audible(volume)] \in AudioType
  BY <1>2 DEF AudioType
<1>4. Playing([a EXCEPT !.vol = Audible(volume)]) \in AudioType
  BY <1>3 DEF AudioType, Playing, Sources
<1>5. QED
  BY <1>3, <1>4 DEF Conclude, TypeOK

\* A load that goes on, and one that is finished.
LEMMA LoadTypes ==
  ASSUME TypeOK, NEW l \in Loads, NEW pc \in PCs
  PROVE  /\ Open(l) => LET next == [loads EXCEPT ![l].pc = pc] IN
              /\ next \in [Loads -> LoadType]
              /\ \A k \in Loads : next[k].pc # "idle" => next[k].track # NoTrack
         /\ LET next == [loads EXCEPT ![l] = Idle] IN
              /\ next \in [Loads -> LoadType]
              /\ \A k \in Loads : next[k].pc # "idle" => next[k].track # NoTrack
BY DEF TypeOK, Open, Idle, LoadType, PCs, Full, Sources

\* The engine starts with its types.
LEMMA InitTypes == Init => TypeOK
<1> SUFFICES ASSUME Init PROVE TypeOK
  OBVIOUS
<1>1. loads \in [Loads -> LoadType] /\ \A l \in Loads : ~Open(l)
  BY DEF Init, Idle, LoadType, PCs, Open, Full, Sources
<1>2. audio \in AudioType /\ volume \in 0..Full
  BY DEF Init, AudioType, Full, Sources
<1>3. QED
  BY <1>1, <1>2 DEF Init, TypeOK, LoadType, AudioType, PCs, Sources

(* TypeOK: every variable of the engine keeps its type, and a load that    *)
(* is open has a track.                                                    *)
THEOREM TypeCorrect == Spec => []TypeOK
<1>1. Init => TypeOK
  BY InitTypes
<1>2. TypeOK /\ [Next]_engineVars => TypeOK'
  <2> SUFFICES ASSUME TypeOK, [Next]_engineVars PROVE TypeOK'
    OBVIOUS
  <2> DEFINE LoadsOK == /\ loads' \in [Loads -> LoadType]
                        /\ \A k \in Loads : loads'[k].pc # "idle" => loads'[k].track # NoTrack
             StoreOK == /\ track' \in Sources /\ isPlaying' \in BOOLEAN
                        /\ fadeOnLoad' \in BOOLEAN /\ volume' \in 0..Full
             EngineOK == loaded' \in Sources /\ clean' \in BOOLEAN /\ LoadsOK
             RestOK == asking' \in BOOLEAN /\ sleep' \in {"off", "armed", "fired"}
  <2>0. /\ audio \in AudioType /\ loads \in [Loads -> LoadType]
        /\ \A k \in Loads : loads[k].pc # "idle" => loads[k].track # NoTrack
    BY DEF TypeOK, AudioType, LoadType, PCs, Sources, Open
  <2>1. SUFFICES audio' \in AudioType /\ StoreOK /\ EngineOK /\ RestOK
    BY DEF TypeOK, AudioType, LoadType, PCs, Sources, Open
  <2>2. UNCHANGED engine => EngineOK
    BY <2>0 DEF TypeOK, engine, Sources
  <2>3. /\ Playing(audio) \in AudioType /\ Paused(audio) \in AudioType
        /\ \A t \in Sources : WithSource(audio, t) \in AudioType
        /\ \A v \in 0..Full : [audio EXCEPT !.vol = v] \in AudioType
        /\ \A v \in 0..Full : Audible(v) \in 0..Full
    <3>1. NoTrack \in Sources /\ 0 \in 0..Full
      BY DEF Sources, Full
    <3>2. \A t \in Sources, v \in 0..Full :
             /\ Playing(audio) \in AudioType /\ Paused(audio) \in AudioType
             /\ WithSource(audio, t) \in AudioType
             /\ [audio EXCEPT !.vol = v] \in AudioType
             /\ Audible(v) \in 0..Full
      BY <2>0, ElementTypes
    <3>3. QED
      BY <3>1, <3>2
  <2>4. ASSUME NEW t \in Tracks, PlayTrack(t)
        PROVE  StoreOK
    BY <2>4 DEF PlayTrack, ShouldFade, TypeOK, Sources
  <2>5. CASE PlaybackBegins
    <3>1. audio' \in AudioType
      <4>1. Audible(volume) \in 0..Full
        BY <2>3 DEF TypeOK
      <4>2. QED
        BY <2>0, <2>5, <4>1 DEF PlaybackBegins, AudioType
    <3>2. QED
      BY <2>2, <2>5, <3>1 DEF PlaybackBegins, store, TypeOK, Sources
  <2>6. CASE Pick
    BY <2>0, <2>2, <2>4, <2>6 DEF Pick, TypeOK
  <2>7. CASE Ends
    <3>1. StoreOK
      BY <2>4, <2>7 DEF Ends, TypeOK, Sources
    <3>2. QED
      BY <2>2, <2>3, <2>7, <3>1 DEF Ends, TypeOK
  <2>8. CASE RadioAnswers
    <3>1. StoreOK
      BY <2>4, <2>8 DEF RadioAnswers, TypeOK, Sources
    <3>2. QED
      BY <2>0, <2>2, <2>8, <3>1 DEF RadioAnswers, TypeOK
  <2>9. CASE TogglePlay
    BY <2>2, <2>3, <2>9 DEF TogglePlay, TypeOK, Sources
  <2>10. ASSUME PauseStep, sleep' \in {"off", "armed", "fired"}
         PROVE  audio' \in AudioType /\ StoreOK /\ EngineOK /\ RestOK
    BY <2>2, <2>3, <2>10 DEF PauseStep, TypeOK, Sources
  <2>11. CASE RemoveLast
    BY <2>2, <2>3, <2>11 DEF RemoveLast, TypeOK, Sources
  <2>12. CASE SetVolume
    BY <2>2, <2>3, <2>12 DEF SetVolume, TypeOK, Sources
  <2>13. CASE SetSleepTimer
    BY <2>0, <2>2, <2>13 DEF SetSleepTimer, store, TypeOK, Sources
  <2>14. CASE LoadEffect
    <3>1. Cancelled \in [Loads -> LoadType]
      BY <2>0 DEF Cancelled, LoadType
    <3>2. \A k \in Loads : Cancelled[k].pc = loads[k].pc /\ Cancelled[k].track = loads[k].track
      BY <2>0 DEF Cancelled, LoadType
    <3>3. LoadsOK /\ isPlaying' \in BOOLEAN /\ fadeOnLoad' \in BOOLEAN
      <4>1. CASE track = NoTrack
        BY <2>0, <2>14, <3>1, <3>2, <4>1 DEF LoadEffect, TypeOK
      <4>2. CASE track # NoTrack
        <5> DEFINE fades == fadeOnLoad /\ audio.src # NoTrack
                   New == [pc |-> IF fades THEN "fadeOut" ELSE "attach",
                           track |-> track, live |-> TRUE, target |-> audio.vol]
        <5>1. PICK l \in Loads : /\ loads' = [Cancelled EXCEPT ![l] = New]
                                 /\ isPlaying' = FALSE
                                 /\ fadeOnLoad' = (fadeOnLoad /\ fades)
          BY <2>14, <4>2 DEF LoadEffect
        <5>2. New \in LoadType /\ New.track # NoTrack
          BY <2>0, <4>2 DEF LoadType, PCs, TypeOK, AudioType, Sources
        <5> HIDE DEF New
        <5>3. QED
          BY <2>0, <3>1, <3>2, <5>1, <5>2 DEF TypeOK
      <4>3. QED
        BY <4>1, <4>2
    <3>4. QED
      BY <2>0, <2>14, <3>3 DEF LoadEffect, TypeOK, Sources
  <2>15. ASSUME NEW l \in Loads, Fade(l) \/ LoadStep(l)
         PROVE  audio' \in AudioType /\ StoreOK /\ EngineOK /\ RestOK
    <3>1. loads[l].track \in Sources /\ loads[l].target \in 0..Full
      BY <2>0 DEF LoadType
    <3>2. LoadsOK
      <4>1. \A pc \in PCs : Open(l) /\ Goto(l, pc) => LoadsOK
        BY <2>0, LoadTypes DEF Goto
      <4>2. Finish(l) => LoadsOK
        <5>1. "idle" \in PCs
          BY DEF PCs
        <5>2. QED
          BY <2>0, <5>1, LoadTypes DEF Finish
      <4>3. Fade(l) => LoadsOK
        BY <2>0 DEF Fade
      <4>4. FadedOut(l) \/ AttachFaded(l) \/ AttachFails(l) => LoadsOK
        BY <4>1 DEF FadedOut, AttachFaded, AttachFails, At, Open, PCs
      <4>5. FadedIn(l) \/ AttachFadedFails(l) \/ Attach(l) \/ Retry(l) => LoadsOK
        BY <4>1, <4>2 DEF FadedIn, AttachFadedFails, Attach, Retry, Conclude, At, Open, PCs
      <4>6. QED
        BY <2>15, <4>3, <4>4, <4>5 DEF LoadStep
    <3>3. audio' \in AudioType /\ isPlaying' \in BOOLEAN /\ fadeOnLoad' \in BOOLEAN
      <4>1. CASE Fade(l)
        <5>1. audio' \in AudioType
          BY <2>3, <4>1 DEF Fade, Full, Half
        <5>2. QED
          BY <4>1, <5>1 DEF Fade, TypeOK
      <4>2. CASE FadedOut(l)
        <5>1. [Paused(audio) EXCEPT !.vol = 0] \in AudioType
          BY <2>3 DEF AudioType, Full
        <5>2. QED
          BY <2>0, <4>2, <5>1 DEF FadedOut, TypeOK, AudioType
      <4>3. CASE FadedIn(l)
        <5>1. [audio EXCEPT !.vol = loads[l].target] \in AudioType
          BY <2>3, <3>1
        <5>2. QED
          BY <4>3, <5>1, ConcludeTypes DEF FadedIn
      <4>4. CASE AttachFaded(l)
        BY <2>3, <3>1, <4>4 DEF AttachFaded, FlagAfterSource, TypeOK
      <4>5. CASE AttachFadedFails(l) \/ AttachFails(l)
        BY <2>0, <4>5 DEF AttachFadedFails, AttachFails, TypeOK
      <4>6. CASE Attach(l)
        <5>1. WithSource(audio, loads[l].track) \in AudioType
          BY <2>3, <3>1
        <5>2. QED
          BY <4>6, <5>1, ConcludeTypes DEF Attach, FlagAfterSource, TypeOK
      <4>7. CASE Retry(l)
        <5>1. WithSource(audio, loads[l].track) \in AudioType
          BY <2>3, <3>1
        <5>2. QED
          BY <2>0, <4>7, <5>1, ConcludeTypes DEF Retry, TypeOK
      <4>8. QED
        BY <2>15, <4>1, <4>2, <4>3, <4>4, <4>5, <4>6, <4>7 DEF LoadStep
    <3>4. UNCHANGED OtherVars /\ clean' \in BOOLEAN
      BY <2>15 DEF Fade, LoadStep, FadedOut, FadedIn, AttachFaded, AttachFadedFails,
           Attach, AttachFails, Retry, LoadOnly, TypeOK
    <3>5. QED
      BY <3>2, <3>3, <3>4 DEF OtherVars, TypeOK, Sources
  <2>16. CASE UNCHANGED engineVars
    BY <2>0, <2>2, <2>16 DEF engineVars, engine, TypeOK, Sources
  <2>17. Pause \/ SleepTimerFires => PauseStep /\ sleep' \in {"off", "armed", "fired"}
    BY DEF Pause, SleepTimerFires, TypeOK
  <2>18. QED
    BY <2>5, <2>6, <2>7, <2>8, <2>9, <2>10, <2>11, <2>12, <2>13, <2>14, <2>15, <2>16,
       <2>17 DEF Next, PlayerBar, Keyboard, PlayerComfortMenu, MediaSession
<1>3. QED
  BY <1>1, <1>2, PTL DEF Spec

-----------------------------------------------------------------------------
(* What is heard *)

\* The loads that are open, and the element, of a load that runs alone: one load
\* at most, for the track that the effect last ran for; after its fade the element
\* has its source; once it is over, the element has its source and, if the user
\* did not mute it, the user's volume.
CleanLoad ==
  /\ \A k, l \in Loads : Open(k) /\ Open(l) => k = l
  /\ \A l \in Loads : Open(l) => /\ loads[l].live /\ loads[l].track = loaded
                                 /\ At(l, "fadeIn") => audio.src = loaded
  /\ (\A l \in Loads : ~Open(l)) =>
       audio.src = loaded /\ (volume > 0 => audio.vol = volume)

HeardInv == TypeOK /\ (clean => CleanLoad)

\* The end of the only load, with its source set.
LEMMA CleanConclude ==
  ASSUME TypeOK, CleanLoad, NEW l \in Loads, Open(l),
         NEW a \in AudioType, a.src = loaded, Conclude(l, a),
         UNCHANGED <<volume, loaded>>
  PROVE  CleanLoad'
<1>1. /\ loads \in [Loads -> LoadType] /\ volume \in 0..Full
  BY DEF TypeOK, LoadType, PCs, Sources
<1>2. \A k \in Loads : ~Open(k)'
  BY <1>1 DEF Conclude, Finish, Idle, Open, CleanLoad, LoadType
<1>3. audio'.src = loaded /\ (volume > 0 => audio'.vol = volume)
  <2>1. loads[l].live
    BY DEF CleanLoad
  <2>2. audio' \in {Playing([a EXCEPT !.vol = Audible(volume)]), [a EXCEPT !.vol = Audible(volume)]}
    BY <2>1 DEF Conclude
  <2>3. volume > 0 => Audible(volume) = volume
    BY DEF Audible
  <2>4. QED
    BY <2>2, <2>3 DEF Playing, AudioType
<1>4. QED
  BY <1>2, <1>3 DEF CleanLoad, At, Open

\* Steps that leave the loads and the element's source alone.
LEMMA CleanKept ==
  ASSUME CleanLoad, UNCHANGED <<loads, loaded>>, audio'.src = audio.src,
         \/ UNCHANGED <<volume, audio.vol>>
         \/ volume' > 0 => audio'.vol = volume'
  PROVE  CleanLoad'
BY DEF CleanLoad, At, Open

\* A step of a load that runs alone.
LEMMA CleanLoadStep ==
  ASSUME TypeOK, CleanLoad, NEW l \in Loads, Fade(l) \/ LoadStep(l), clean'
  PROVE  CleanLoad'
<1>1. /\ loads \in [Loads -> LoadType] /\ audio \in AudioType /\ volume \in 0..Full
  BY DEF TypeOK, LoadType, AudioType, PCs, Sources
<1>2. Open(l)
  BY DEF Fade, LoadStep, FadedOut, FadedIn, AttachFaded, AttachFadedFails, Attach,
     AttachFails, Retry, At, Open
<1>3. loads[l].live /\ loads[l].track = loaded /\ loads[l].track \in Sources
  BY <1>1, <1>2 DEF CleanLoad, LoadType
<1>4. UNCHANGED <<volume, loaded>>
  BY DEF Fade, LoadStep, FadedOut, FadedIn, AttachFaded, AttachFadedFails, Attach,
     AttachFails, Retry, LoadOnly, OtherVars
<1>5. WithSource(audio, loaded) \in AudioType /\ WithSource(audio, loaded).src = loaded
  BY <1>1, <1>3 DEF WithSource, Paused, AudioType
<1>6. ASSUME NEW pc \in PCs \ {"idle"}, Goto(l, pc), pc = "fadeIn" => audio'.src = loaded
      PROVE  CleanLoad'
  <2>1. \A k \in Loads : /\ Open(k)' <=> Open(k)
                         /\ loads'[k].live = loads[k].live
                         /\ loads'[k].track = loads[k].track
                         /\ k = l /\ At(k, "fadeIn")' => pc = "fadeIn"
    BY <1>1, <1>2, <1>6 DEF Goto, Open, At, LoadType, PCs
  <2>2. QED
    BY <1>2, <1>4, <1>6, <2>1 DEF CleanLoad
<1>7. CASE Fade(l)
  BY <1>1, <1>2, <1>4, <1>7 DEF Fade, CleanLoad, At, Open, AudioType
<1>8. CASE FadedOut(l)
  BY <1>6, <1>8 DEF FadedOut, PCs
<1>9. CASE FadedIn(l)
  <2>1. [audio EXCEPT !.vol = loads[l].target] \in AudioType
    BY <1>1 DEF AudioType, LoadType
  <2>2. [audio EXCEPT !.vol = loads[l].target].src = loaded
    BY <1>1, <1>2, <1>9 DEF FadedIn, CleanLoad, AudioType
  <2>3. QED
    BY <1>2, <1>4, <1>9, <2>1, <2>2, CleanConclude DEF FadedIn
<1>10. CASE AttachFaded(l)
  BY <1>3, <1>5, <1>6, <1>10 DEF AttachFaded, PCs
<1>11. CASE AttachFadedFails(l)
  BY <1>3, <1>6, <1>11 DEF AttachFadedFails, PCs
<1>12. CASE Attach(l)
  BY <1>2, <1>3, <1>4, <1>5, <1>12, CleanConclude DEF Attach
<1>13. CASE AttachFails(l)
  BY <1>6, <1>13 DEF AttachFails, PCs
<1>14. CASE Retry(l)
  BY <1>2, <1>3, <1>4, <1>5, <1>14, CleanConclude DEF Retry
<1>15. QED
  BY <1>7, <1>8, <1>9, <1>10, <1>11, <1>12, <1>13, <1>14 DEF LoadStep

\* HeardInv is inductive.
LEMMA HeardInductive == TypeOK' /\ HeardInv /\ [Next]_engineVars => HeardInv'
<1> SUFFICES ASSUME TypeOK', TypeOK, clean => CleanLoad, [Next]_engineVars, clean'
             PROVE  CleanLoad'
  BY DEF HeardInv
<1>1. /\ loads \in [Loads -> LoadType] /\ audio \in AudioType /\ volume \in 0..Full
  BY DEF TypeOK, LoadType, AudioType, PCs, Sources
<1>2. CASE LoadEffect
  <2>1. track # NoTrack /\ \A k \in Loads : ~Open(k)
    BY <1>2 DEF LoadEffect
  <2> DEFINE fades == fadeOnLoad /\ audio.src # NoTrack
             New == [pc |-> IF fades THEN "fadeOut" ELSE "attach",
                     track |-> track, live |-> TRUE, target |-> audio.vol]
  <2>2. PICK l \in Loads : loads' = [Cancelled EXCEPT ![l] = New]
    BY <1>2, <2>1 DEF LoadEffect
  <2>3. New.track = track /\ New.live /\ New.pc # "fadeIn" /\ New.pc # "idle"
    OBVIOUS
  <2> HIDE DEF New
  <2>4. loads'[l] = New /\ \A k \in Loads \ {l} : ~Open(k)'
    BY <1>1, <2>1, <2>2 DEF Cancelled, Open, LoadType
  <2>5. loaded' = track
    BY <1>2 DEF LoadEffect
  <2>6. QED
    BY <2>3, <2>4, <2>5 DEF CleanLoad, Open, At
<1>3. CASE \E l \in Loads : Fade(l) \/ LoadStep(l)
  <2>1. clean
    BY <1>3 DEF Fade, LoadStep, FadedOut, FadedIn, AttachFaded, AttachFadedFails, Attach,
       AttachFails, Retry, LoadOnly
  <2>2. QED
    BY <1>3, <2>1, CleanLoadStep
<1>4. CASE PlaybackBegins
  <2>1. volume > 0 => Audible(volume) = volume
    BY DEF Audible
  <2>2. QED
    BY <1>1, <1>4, <2>1, CleanKept DEF PlaybackBegins, store, engine, AudioType
<1>5. CASE SetVolume
  BY <1>1, <1>5, CleanKept DEF SetVolume, engine, AudioType
<1>6. ASSUME audio' \in {audio, Paused(audio), Playing(audio)}, UNCHANGED <<volume, engine>>
      PROVE  CleanLoad'
  <2>1. audio'.src = audio.src /\ audio'.vol = audio.vol
    BY <1>1, <1>6 DEF Paused, Playing, AudioType
  <2>2. QED
    BY <1>6, <2>1, CleanKept DEF engine
<1>7. CASE \/ Pick \/ Ends \/ RadioAnswers \/ TogglePlay \/ Pause \/ RemoveLast
           \/ SetSleepTimer \/ SleepTimerFires \/ UNCHANGED engineVars
  BY <1>6, <1>7 DEF Pick, PlayTrack, Ends, RadioAnswers, TogglePlay, Pause, PauseStep,
     RemoveLast, SetSleepTimer, SleepTimerFires, engineVars, engine, store
<1>8. QED
  BY <1>2, <1>3, <1>4, <1>5, <1>7 DEF Next, PlayerBar, Keyboard, PlayerComfortMenu,
     MediaSession

\* HeardInv holds throughout.
LEMMA HeardInvariant == Spec => []HeardInv
<1>1. Init => HeardInv
  <2> SUFFICES ASSUME Init PROVE CleanLoad /\ TypeOK
    BY DEF HeardInv
  <2>1. \A l \in Loads : ~Open(l)
    BY DEF Init, Open, Idle
  <2>2. CleanLoad
    BY <2>1 DEF Init, CleanLoad
  <2>3. TypeOK
    BY InitTypes
  <2>4. QED
    BY <2>2, <2>3
<1>2. QED
  BY <1>1, HeardInductive, TypeCorrect, PTL DEF Spec

(* HeardIsCurrent: once a load that ran alone has found its source, what   *)
(* is heard is the current track.                                          *)
THEOREM HeardCurrent == Spec => []HeardIsCurrent
<1>1. HeardInv => HeardIsCurrent
  BY DEF HeardInv, CleanLoad, HeardIsCurrent, Quiet
<1>2. QED
  BY <1>1, HeardInvariant, PTL

(* FadesKeepVolume: it is then heard at the volume that the user set.      *)
THEOREM VolumeKept == Spec => []FadesKeepVolume
<1>1. HeardInv => FadesKeepVolume
  BY DEF HeardInv, CleanLoad, FadesKeepVolume, Quiet
<1>2. QED
  BY <1>1, HeardInvariant, PTL

-----------------------------------------------------------------------------
(* Who starts the element *)

(* CancelledStaysSilent: a load that was cancelled never starts the        *)
(* element, at whatever await it was cancelled.                            *)
THEOREM SilentCancelled == Spec => CancelledStaysSilent
<1> DEFINE Starter == TogglePlay \/ \E l \in Loads : loads[l].live /\ loads'[l].pc = "idle"
<1>1. TypeOK /\ [Next]_engineVars => [audio.paused /\ ~audio'.paused => Starter]_engineVars
  <2> SUFFICES ASSUME TypeOK, [Next]_engineVars, audio.paused, ~audio'.paused
               PROVE  Starter
    OBVIOUS
  <2>1. /\ loads \in [Loads -> LoadType] /\ audio \in AudioType
    BY DEF TypeOK, LoadType, AudioType, PCs, Sources
  <2>2. /\ Paused(audio).paused
        /\ \A t : WithSource(audio, t).paused
        /\ \A v : [audio EXCEPT !.vol = v].paused /\ [Paused(audio) EXCEPT !.vol = v].paused
    BY <2>1 DEF Paused, WithSource, AudioType
  <2>3. ASSUME NEW l \in Loads, Fade(l) \/ LoadStep(l)
        PROVE  Starter
    <3>1. ASSUME NEW a, Conclude(l, a), a.paused
          PROVE  Starter
      BY <2>1, <3>1 DEF Conclude, Finish, Idle
    <3>2. ~(Fade(l) \/ FadedOut(l) \/ AttachFaded(l) \/ AttachFadedFails(l) \/ AttachFails(l))
      BY <2>2 DEF Fade, FadedOut, AttachFaded, AttachFadedFails, AttachFails
    <3>3. QED
      BY <2>2, <2>3, <3>1, <3>2 DEF LoadStep, FadedIn, Attach, Retry
  <2>4. QED
    BY <2>1, <2>2, <2>3 DEF Next, PlayerBar, Keyboard, PlayerComfortMenu, MediaSession, Pick,
       Ends, RadioAnswers, Pause, PauseStep, RemoveLast, SetVolume, SetSleepTimer,
       SleepTimerFires, PlaybackBegins, LoadEffect, engineVars, AudioType
<1>2. QED
  BY <1>1, TypeCorrect, PTL DEF Spec, CancelledStaysSilent
=============================================================================
