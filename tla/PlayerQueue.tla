----------------------------- MODULE PlayerQueue ----------------------------
(***************************************************************************)
(* The queue of the web player (apps/web/src/store/playerStore.ts) with    *)
(* the surfaces that drive it, the radio that extends it by a server call, *)
(* and the queue of another device (hooks/usePlayerStateSync.ts).  A step  *)
(* is one synchronous stretch of the page's JavaScript: what a call reads  *)
(* before its await is kept in the call's record and used after it.  What  *)
(* is heard of the current track is AudioEngine.                           *)
(***************************************************************************)
EXTENDS Naturals, Sequences, FiniteSets

CONSTANTS
  Tracks,      \* published tracks, by id
  NoTrack,     \* currentTrack = null
  MaxQueue,    \* length of a queue (bound)
  MaxAnswer,   \* tracks in an answer of the radio (bound)
  MaxSimilar,  \* similar tracks shown (bound)
  MaxCalls     \* calls of one kind open at once (bound)

ASSUME PlayerAssumption ==
  /\ NoTrack \notin Tracks
  /\ MaxQueue \in Nat \ {0} /\ MaxCalls \in Nat
  /\ MaxAnswer \in Nat /\ MaxSimilar \in Nat

VARIABLES
  queue,         \* a sequence of tracks
  queueIndex,    \* counted from 0, as in the source
  currentTrack,
  repeat,
  shuffle,
  radioMode,
  calls,         \* open calls of api.getRecommendNext
  reads,         \* reads of the saved queue under way
  similar,       \* the similar tracks shown beside the current one
  adopted        \* history: the queue was replaced under a playing track

playerVars == <<queue, queueIndex, currentTrack, repeat, shuffle, radioMode, calls,
                reads, similar, adopted>>

modes == <<repeat, shuffle, radioMode>>
remote == <<calls, reads, similar>>

Members(q) == {q[i] : i \in 1..Len(q)}
Distinct(q) == \A i, j \in 1..Len(q) : q[i] = q[j] => i = j

\* Lists a page shows, a device saved or the server sends: ids are distinct.
Lists(n) == {q \in UNION {[1..k -> Tracks] : k \in 0..n} : Distinct(q)}

At(q, i) == q[i + 1]

\* findIndex((t) => t.id === track.id), and 0 for a track that is not there.
IsFirst(q, t, i) == At(q, i) = t /\ \A j \in 0..(i - 1) : At(q, j) # t
FindIndex(q, t) ==
  IF t \in Members(q) THEN CHOOSE i \in 0..(Len(q) - 1) : IsFirst(q, t, i) ELSE 0

TypeOK ==
  /\ queue \in Seq(Tracks)
  /\ queueIndex \in Nat /\ (queue # << >> => queueIndex < Len(queue))
  /\ currentTrack \in Tracks \cup {NoTrack}
  /\ repeat \in {"off", "all", "one"}
  /\ shuffle \in BOOLEAN /\ radioMode \in BOOLEAN
  /\ calls \subseteq [kind : {"next", "radio"}, track : Tracks, queue : Seq(Tracks)]
  /\ \A c \in calls : c.queue # << >>
  /\ reads \in Nat
  /\ similar \in Seq(Tracks)
  /\ adopted \in BOOLEAN

Init ==
  /\ queue = << >> /\ queueIndex = 0 /\ currentTrack = NoTrack
  /\ repeat = "off" /\ shuffle = FALSE /\ radioMode = TRUE
  /\ calls = {} /\ reads = 0 /\ similar = << >>
  /\ adopted = FALSE

-----------------------------------------------------------------------------
(* Playing a track *)

PlayTrack(t, q) ==
  /\ currentTrack' = t
  /\ queue' = q
  /\ queueIndex' = FindIndex(q, t)
  /\ adopted' = (t \notin Members(q))

SamePlace == UNCHANGED <<queue, queueIndex, currentTrack, adopted>>

\* A row, a card or "play all" of a page: the page's list becomes the queue.
PlayFromList ==
  /\ \E q \in Lists(MaxQueue) : \E t \in Members(q) : PlayTrack(t, q)
  /\ UNCHANGED <<modes, remote>>

-----------------------------------------------------------------------------
(* next and previous *)

Playable == queue # << >> /\ currentTrack # NoTrack
AtEnd == queueIndex + 1 >= Len(queue)

RepeatOne ==
  /\ Playable /\ repeat = "one"
  /\ PlayTrack(currentTrack, queue)
  /\ UNCHANGED <<modes, remote>>

StepForward ==
  /\ Playable /\ repeat # "one" /\ ~AtEnd
  /\ PlayTrack(At(queue, queueIndex + 1), queue)
  /\ UNCHANGED <<modes, remote>>

\* Only a queue that starts again is shuffled.
Shuffled(q) ==
  {[i \in 1..Len(q) |-> q[p[i]]] : p \in {f \in [1..Len(q) -> 1..Len(q)] : Distinct(f)}}

StartAgain ==
  /\ Playable /\ repeat = "all" /\ AtEnd
  /\ \E q \in IF shuffle THEN Shuffled(queue) ELSE {queue} : PlayTrack(At(q, 0), q)
  /\ UNCHANGED <<modes, remote>>

Call(kind, t, q) ==
  /\ Cardinality(calls) < MaxCalls
  /\ calls' = calls \cup {[kind |-> kind, track |-> t, queue |-> q]}
  /\ UNCHANGED <<reads, similar>>

\* appendRecommendedNext up to its await.
AskRadio ==
  /\ Playable /\ repeat = "off" /\ AtEnd /\ radioMode
  /\ Call("next", currentTrack, queue)
  /\ SamePlace /\ UNCHANGED modes

\* next; at the end of a queue without repeat and radio it only stops.
Forward == RepeatOne \/ StepForward \/ StartAgain \/ AskRadio

\* In the first three seconds of a track; later it only seeks.
Previous ==
  /\ Playable
  /\ PlayTrack(At(queue, IF queueIndex = 0 THEN Len(queue) - 1 ELSE queueIndex - 1), queue)
  /\ UNCHANGED <<modes, remote>>

ToggleShuffle ==
  /\ shuffle' = ~shuffle
  /\ SamePlace /\ UNCHANGED <<repeat, radioMode, remote>>

CycleRepeat ==
  /\ repeat' = [off |-> "all", all |-> "one", one |-> "off"][repeat]
  /\ SamePlace /\ UNCHANGED <<shuffle, radioMode, remote>>

ToggleRadioMode ==
  /\ radioMode' = ~radioMode
  /\ SamePlace /\ UNCHANGED <<repeat, shuffle, remote>>

-----------------------------------------------------------------------------
(* The radio *)

\* startRadio up to its await.
StartRadio(t, q) ==
  /\ Call("radio", t, q)
  /\ radioMode' = TRUE
  /\ SamePlace /\ UNCHANGED <<repeat, shuffle>>

\* What the server sends may be queued: it is told of the last 20 at most.
Answers(c) == {a \in Lists(MaxAnswer) : Len(c.queue) + Len(a) <= MaxQueue}

\* Mutant: what the server sends is appended as it is.
UnheardAll(c) == Answers(c)

\* What filtering an answer by the ids of the queue leaves.
Unheard(c) == {a \in Answers(c) : Members(a) \cap Members(c.queue) = {}}

\* The rest of appendRecommendedNext and of startRadio: the queue that they
\* extend is the one they read before the await.
RadioAnswers(c) ==
  /\ calls' = calls \ {c}
  /\ \E new \in Unheard(c) :
       CASE c.kind = "radio" -> PlayTrack(c.track, c.queue \o new)
         [] c.kind = "next" /\ new # << >> -> PlayTrack(new[1], c.queue \o new)
         [] OTHER -> SamePlace
  /\ UNCHANGED <<modes, reads, similar>>

RadioFails(c) ==
  /\ calls' = calls \ {c}
  /\ IF c.kind = "radio" THEN PlayTrack(c.track, c.queue) ELSE SamePlace
  /\ UNCHANGED <<modes, reads, similar>>

-----------------------------------------------------------------------------
(* The queue panel *)

Without(q, i) == [k \in 1..(Len(q) - 1) |-> IF k <= i THEN q[k] ELSE q[k + 1]]

\* splice(from, 1), splice(to, 0, item)
Moved(q, from, to) ==
  [k \in 1..Len(q) |->
     IF k = to + 1 THEN q[from + 1]
     ELSE IF from < k /\ k <= to THEN q[k + 1]
     ELSE IF to + 1 < k /\ k <= from + 1 THEN q[k - 1]
     ELSE q[k]]

RemoveCurrent ==
  IF Len(queue) = 1
  THEN queue' = << >> /\ queueIndex' = 0 /\ currentTrack' = NoTrack /\ UNCHANGED adopted
  ELSE LET rest == Without(queue, queueIndex)
           i == IF queueIndex < Len(rest) THEN queueIndex ELSE Len(rest) - 1
       IN  PlayTrack(At(rest, i), rest)

RemoveFromQueue(index) ==
  /\ index < Len(queue)
  /\ IF index = queueIndex
     THEN RemoveCurrent
     ELSE /\ queue' = Without(queue, index)
          /\ queueIndex' = IF index < queueIndex THEN queueIndex - 1 ELSE queueIndex
          /\ UNCHANGED <<currentTrack, adopted>>
  /\ UNCHANGED <<modes, remote>>

PlayQueueIndex(index) ==
  /\ index < Len(queue)
  /\ PlayTrack(At(queue, index), queue)
  /\ UNCHANGED <<modes, remote>>

ClearUpcoming ==
  /\ currentTrack # NoTrack /\ ~AtEnd
  /\ queue' = SubSeq(queue, 1, queueIndex + 1)
  /\ UNCHANGED <<queueIndex, currentTrack, adopted, modes, remote>>

\* Mutant: the index follows the current track only if that is what moved.
ReorderKeepsIndex(from, to) ==
  /\ from # to /\ from < Len(queue) /\ to < Len(queue)
  /\ queue' = Moved(queue, from, to)
  /\ queueIndex' = IF from = queueIndex THEN to ELSE queueIndex
  /\ UNCHANGED <<currentTrack, adopted, modes, remote>>

ReorderQueue(from, to) ==
  /\ from # to /\ from < Len(queue) /\ to < Len(queue)
  /\ queue' = Moved(queue, from, to)
  /\ queueIndex' = IF from = queueIndex THEN to
                   ELSE IF from < queueIndex /\ to >= queueIndex THEN queueIndex - 1
                   ELSE IF from > queueIndex /\ to <= queueIndex THEN queueIndex + 1
                   ELSE queueIndex
  /\ UNCHANGED <<currentTrack, adopted, modes, remote>>

-----------------------------------------------------------------------------
(* The similar tracks of the expanded player *)

\* The answer for an earlier track is ignored, but until the one for the
\* current track is here the earlier tracks stay on the screen.
SimilarArrives ==
  /\ currentTrack # NoTrack
  /\ \E s \in Lists(MaxSimilar) : currentTrack \notin Members(s) /\ similar' = s
  /\ SamePlace /\ UNCHANGED <<modes, calls, reads>>

PlaySimilar ==
  /\ currentTrack # NoTrack /\ Len(similar) < MaxQueue
  /\ \E t \in Members(similar) : PlayTrack(t, <<currentTrack>> \o similar)
  /\ UNCHANGED <<modes, remote>>

-----------------------------------------------------------------------------
(* The queue of another device: usePlayerStateSync *)

\* A session begins, or a page is loaded with one.
StartHydration ==
  /\ reads < MaxCalls
  /\ reads' = reads + 1
  /\ SamePlace /\ UNCHANGED <<modes, calls, similar>>

\* Mutant: the saved index is taken as it is.
HydrateUnclamped ==
  /\ reads > 0
  /\ reads' = reads - 1
  /\ \E tracks \in Lists(MaxQueue) : \E index \in 0..MaxQueue :
       /\ queue' = tracks /\ queueIndex' = index
       /\ adopted' = (adopted \/ currentTrack # NoTrack)
  /\ UNCHANGED <<currentTrack, modes, calls, similar>>

\* Of what some device put last, the tracks that can still be read become
\* the queue, whatever plays here.
Hydrate ==
  /\ reads > 0
  /\ reads' = reads - 1
  /\ \E tracks \in Lists(MaxQueue) : \E index \in 0..MaxQueue :
       IF tracks = << >>
       THEN SamePlace
       ELSE /\ queue' = tracks
            /\ queueIndex' = IF index < Len(tracks) THEN index ELSE Len(tracks) - 1
            /\ adopted' = (adopted \/ currentTrack # NoTrack)
            /\ UNCHANGED currentTrack
  /\ UNCHANGED <<modes, calls, similar>>

-----------------------------------------------------------------------------
(* The surfaces of the page *)

PlayerBar == ToggleShuffle \/ Previous \/ Forward \/ CycleRepeat \/ ToggleRadioMode

\* Its radio button takes the queue as it is.
ExpandedTrack == StartRadio(currentTrack, queue) \/ SimilarArrives \/ PlaySimilar

NowPlayingView == currentTrack # NoTrack /\ (PlayerBar \/ ExpandedTrack)

Keyboard == Previous \/ Forward

\* An item is played, removed, or dropped on: the one that is dragged was picked
\* up earlier, and the queue may have moved on since.
QueueItem(i) ==
  \/ PlayQueueIndex(i) \/ RemoveFromQueue(i)
  \/ \E from \in 0 .. Len(queue) - 1 : ReorderQueue(from, i)

\* Only what follows the current track is listed.
QueuePanel == ClearUpcoming \/ \E i \in queueIndex + 1 .. Len(queue) - 1 : QueueItem(i)

Sync == StartHydration \/ Hydrate

\* RadioStartButton of a track or of a page's list.
RadioStartButton == \E q \in Lists(MaxQueue) : \E t \in Members(q) : StartRadio(t, q)
Radio == RadioStartButton \/ \E c \in calls : RadioAnswers(c) \/ RadioFails(c)

Next == PlayFromList \/ PlayerBar \/ Keyboard \/ QueuePanel \/ NowPlayingView \/ Radio \/ Sync

Spec == Init /\ [][Next]_playerVars

-----------------------------------------------------------------------------
(* Properties *)

(* The track that plays is the one the queue index points to, whatever was *)
(* moved, removed, cleared or appended meanwhile: "next" goes on from what *)
(* is heard.  The exception is a queue adopted from another device while a *)
(* track plays, until a track of it plays.                                 *)
CurrentIsQueued ==
  currentTrack # NoTrack /\ ~adopted =>
    queue # << >> /\ At(queue, queueIndex) = currentTrack

(* A queue of distinct tracks stays one, through answers of the radio that *)
(* come late, moves, removals and shuffles.  The exception is a click on a *)
(* similar track of an earlier track's list, and the calls that read the   *)
(* queue it makes.                                                         *)
AllDistinct == Distinct(queue) /\ \A c \in calls : Distinct(c.queue)
DuplicatesOnlyFromSimilar ==
  [][AllDistinct /\ ~Distinct(queue') => PlaySimilar]_playerVars
=============================================================================
