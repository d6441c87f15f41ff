-------------------------- MODULE PlayerQueueProofs --------------------------
(***************************************************************************)
(* Proofs about PlayerQueue, for any set of tracks and any bounds.         *)
(***************************************************************************)
EXTENDS PlayerQueue, SequenceTheorems, FiniteSetTheorems, TLAPS

-----------------------------------------------------------------------------
(* Sequences of tracks *)

\* The least-number principle for a set: the intervals 0..n are ordered by
\* strict inclusion, which is well-founded on finite sets.
LEMMA LeastNumber ==
  ASSUME NEW T, T \subseteq Nat, T # {}
  PROVE  \E x \in T : \A y \in T : x <= y
<1> DEFINE R == StrictSubsetOrdering(Nat)
           F == FiniteSubsetsOf(Nat)
           U == {0..x : x \in T}
<1>1. IsWellFoundedOn(R, F)
  BY FS_StrictSubsetOrderingWellFounded
<1>2. U \subseteq F
  <2>1. \A n \in Nat : 0..n \in SUBSET Nat /\ IsFiniteSet(0..n)
    BY FS_Interval
  <2> QED
    BY <2>1 DEF FiniteSubsetsOf
<1>3. PICK u \in U : \A v \in U : ~(<<v, u>> \in R)
  <2>1. U # {}
    OBVIOUS
  <2> HIDE DEF R, F, U
  <2> QED
    BY <1>1, <1>2, <2>1, WFMin
<1>4. PICK x \in T : u = 0..x
  OBVIOUS
<1>5. ASSUME NEW y \in T, y < x
      PROVE  FALSE
  <2>1. x \in 0..x /\ x \notin 0..y /\ (0..y) \subseteq (0..x)
    BY <1>5
  <2>2. <<0..y, 0..x>> \in R
    BY <2>1 DEF StrictSubsetOrdering
  <2> QED
    BY <1>3, <1>4, <2>2
<1> QED
  BY <1>5

\* findIndex of a track that is in the list: a place of the list that holds it.
LEMMA FoundIsThere ==
  ASSUME NEW q \in Seq(Tracks), NEW t \in Members(q)
  PROVE  FindIndex(q, t) \in 0..(Len(q) - 1) /\ At(q, FindIndex(q, t)) = t
<1> DEFINE T == {i \in 0..(Len(q) - 1) : At(q, i) = t}
<1>1. T \subseteq Nat
  OBVIOUS
<1>2. T # {}
  <2>1. PICK k \in 1..Len(q) : q[k] = t
    BY DEF Members
  <2>2. (k - 1) \in T
    BY <2>1, LenProperties DEF At
  <2> QED
    BY <2>2
<1>3. PICK x \in T : \A y \in T : x <= y
  <2> HIDE DEF T
  <2> QED
    BY <1>1, <1>2, LeastNumber
<1>4. x \in 0..(Len(q) - 1) /\ IsFirst(q, t, x)
  BY <1>3, LenProperties DEF IsFirst
<1> DEFINE i == CHOOSE n \in 0..(Len(q) - 1) : IsFirst(q, t, n)
<1>5. i \in 0..(Len(q) - 1) /\ IsFirst(q, t, i)
  BY <1>4
<1> QED
  BY <1>5 DEF FindIndex, IsFirst

\* findIndex of any track is a place of a list that is not empty.
LEMMA FoundInRange ==
  ASSUME NEW q \in Seq(Tracks), NEW t
  PROVE  FindIndex(q, t) \in Nat /\ (q # << >> => FindIndex(q, t) < Len(q))
<1>1. CASE t \in Members(q)
  BY <1>1, FoundIsThere, LenProperties
<1>2. CASE t \notin Members(q)
  BY <1>2, LenProperties, EmptySeq DEF FindIndex
<1> QED
  BY <1>1, <1>2

\* A list that a page shows, a device saved or the server sends.
LEMMA ListsAreSequences ==
  ASSUME NEW n \in Nat, NEW q \in Lists(n)
  PROVE  q \in Seq(Tracks) /\ Distinct(q)
<1>1. PICK k \in 0..n : q \in [1..k -> Tracks]
  BY DEF Lists
<1>2. k \in Nat
  OBVIOUS
<1> QED
  BY <1>1, <1>2, SeqDef DEF Lists

\* A track taken out of a list.
LEMMA WithoutIsSequence ==
  ASSUME NEW q \in Seq(Tracks), NEW i \in 0..(Len(q) - 1)
  PROVE  /\ Without(q, i) \in Seq(Tracks) /\ Len(Without(q, i)) = Len(q) - 1
         /\ Distinct(q) => Distinct(Without(q, i))
<1> DEFINE r == Without(q, i)
<1>1. Len(q) \in Nat /\ \A k \in 1..Len(q) : q[k] \in Tracks
  BY LenProperties, ElementOfSeq
<1>2. \A k \in 1..(Len(q) - 1) : r[k] = IF k <= i THEN q[k] ELSE q[k + 1]
  BY DEF Without
<1>3. r \in [1..(Len(q) - 1) -> Tracks] /\ Len(q) - 1 \in Nat
  BY <1>1 DEF Without
<1>4. r \in Seq(Tracks) /\ Len(r) = Len(q) - 1
  BY <1>3, IsASeq, LenProperties
<1>5. ASSUME Distinct(q), NEW k \in 1..(Len(q) - 1), NEW m \in 1..(Len(q) - 1), r[k] = r[m]
      PROVE  k = m
  BY <1>1, <1>2, <1>5 DEF Distinct
<1> QED
  BY <1>4, <1>5 DEF Distinct

\* A track moved within a list.
LEMMA MovedIsSequence ==
  ASSUME NEW q \in Seq(Tracks), NEW from \in 0..(Len(q) - 1), NEW to \in 0..(Len(q) - 1)
  PROVE  /\ Moved(q, from, to) \in Seq(Tracks) /\ Len(Moved(q, from, to)) = Len(q)
         /\ Distinct(q) => Distinct(Moved(q, from, to))
<1> DEFINE r == Moved(q, from, to)
           place(k) == IF k = to + 1 THEN from + 1
                       ELSE IF from < k /\ k <= to THEN k + 1
                       ELSE IF to + 1 < k /\ k <= from + 1 THEN k - 1
                       ELSE k
<1>1. Len(q) \in Nat /\ \A k \in 1..Len(q) : q[k] \in Tracks
  BY LenProperties, ElementOfSeq
<1>2. \A k \in 1..Len(q) : place(k) \in 1..Len(q)
  BY <1>1
<1>3. \A k, m \in 1..Len(q) : place(k) = place(m) => k = m
  BY <1>1
<1>4. \A k \in 1..Len(q) : r[k] = q[place(k)]
  BY DEF Moved
<1>5. r \in [1..Len(q) -> Tracks]
  BY <1>1 DEF Moved
<1>6. r \in Seq(Tracks) /\ Len(r) = Len(q)
  BY <1>1, <1>5, IsASeq, LenProperties
<1> HIDE DEF place, r
<1>7. ASSUME Distinct(q), NEW k \in 1..Len(q), NEW m \in 1..Len(q), r[k] = r[m]
      PROVE  k = m
  BY <1>2, <1>3, <1>4, <1>7 DEF Distinct
<1>8. Distinct(q) => Distinct(r)
  BY <1>6, <1>7 DEF Distinct
<1> QED
  BY <1>6, <1>8 DEF r

\* A list shuffled.
LEMMA ShuffledIsSequence ==
  ASSUME NEW q \in Seq(Tracks), NEW s \in Shuffled(q)
  PROVE  s \in Seq(Tracks) /\ Len(s) = Len(q) /\ (Distinct(q) => Distinct(s))
<1>1. Len(q) \in Nat /\ \A k \in 1..Len(q) : q[k] \in Tracks
  BY LenProperties, ElementOfSeq
<1>2. PICK p \in [1..Len(q) -> 1..Len(q)] :
        Distinct(p) /\ s = [i \in 1..Len(q) |-> q[p[i]]]
  BY DEF Shuffled
<1>3. s \in [1..Len(q) -> Tracks]
  BY <1>1, <1>2
<1>4. s \in Seq(Tracks) /\ Len(s) = Len(q)
  BY <1>1, <1>3, IsASeq, LenProperties
<1>5. \A i, j \in 1..Len(q) : p[i] = p[j] => i = j
  <2>1. p \in Seq(1..Len(q)) /\ Len(p) = Len(q)
    BY <1>1, IsASeq, LenProperties
  <2> QED
    BY <1>2, <2>1 DEF Distinct
<1>6. ASSUME Distinct(q), NEW i \in 1..Len(q), NEW j \in 1..Len(q), s[i] = s[j]
      PROVE  i = j
  <2>1. q[p[i]] = q[p[j]] /\ p[i] \in 1..Len(q) /\ p[j] \in 1..Len(q)
    BY <1>2, <1>6
  <2>2. p[i] = p[j]
    BY <1>6, <2>1 DEF Distinct
  <2> QED
    BY <1>5, <2>2
<1> QED
  BY <1>4, <1>6 DEF Distinct

\* A queue extended by an answer of the radio, or put behind a track.
LEMMA JoinedIsSequence ==
  ASSUME NEW q \in Seq(Tracks), NEW a \in Seq(Tracks)
  PROVE  /\ q \o a \in Seq(Tracks)
         /\ q # << >> \/ a # << >> => q \o a # << >>
         /\ Members(q) \subseteq Members(q \o a)
         /\ Distinct(q) /\ Distinct(a) /\ Members(a) \cap Members(q) = {} => Distinct(q \o a)
<1> DEFINE r == q \o a
<1>1. Len(q) \in Nat /\ Len(a) \in Nat /\ r \in Seq(Tracks) /\ Len(r) = Len(q) + Len(a)
  BY LenProperties, ConcatProperties
<1>2. \A i \in 1..Len(r) : r[i] = IF i <= Len(q) THEN q[i] ELSE a[i - Len(q)]
  BY ConcatProperties
<1>3. q # << >> \/ a # << >> => r # << >>
  BY <1>1, EmptySeq
<1>4. Members(q) \subseteq Members(r)
  BY <1>1, <1>2 DEF Members
<1>5. ASSUME Distinct(q), Distinct(a), Members(a) \cap Members(q) = {},
             NEW i \in 1..Len(r), NEW j \in 1..Len(r), r[i] = r[j]
      PROVE  i = j
  <2>1. CASE i <= Len(q) /\ j <= Len(q)
    BY <1>1, <1>2, <1>5, <2>1 DEF Distinct
  <2>2. CASE i > Len(q) /\ j > Len(q)
    <3>1. i - Len(q) \in 1..Len(a) /\ j - Len(q) \in 1..Len(a)
      BY <1>1, <2>2
    <3>2. a[i - Len(q)] = a[j - Len(q)]
      BY <1>1, <1>2, <1>5, <2>2
    <3> QED
      BY <1>1, <1>5, <3>1, <3>2 DEF Distinct
  <2>3. ASSUME NEW k \in 1..Len(q), NEW m \in 1..Len(r), m > Len(q), r[k] = r[m]
        PROVE  FALSE
    <3>1. q[k] \in Members(q) /\ m - Len(q) \in 1..Len(a)
      BY <1>1, <2>3 DEF Members
    <3>2. a[m - Len(q)] \in Members(a)
      BY <3>1 DEF Members
    <3>3. q[k] = a[m - Len(q)]
      BY <1>1, <1>2, <2>3
    <3> QED
      BY <1>5, <3>1, <3>2, <3>3
  <2> QED
    BY <1>1, <1>5, <2>1, <2>2, <2>3
<1> QED
  BY <1>1, <1>3, <1>4, <1>5 DEF Distinct

-----------------------------------------------------------------------------
(* The inductive invariant: TypeOK and CurrentIsQueued in two halves, what *)
(* plays and what is open, and a queue whenever a track plays.             *)

Place ==
  /\ queue \in Seq(Tracks)
  /\ queueIndex \in Nat /\ (queue # << >> => queueIndex < Len(queue))
  /\ currentTrack \in Tracks \cup {NoTrack}
  /\ adopted \in BOOLEAN
  /\ currentTrack # NoTrack => queue # << >>
  /\ CurrentIsQueued

OpenCalls == [kind : {"next", "radio"}, track : Tracks, queue : Seq(Tracks)]

Modes ==
  /\ repeat \in {"off", "all", "one"}
  /\ shuffle \in BOOLEAN /\ radioMode \in BOOLEAN

Remote ==
  /\ calls \subseteq OpenCalls /\ \A c \in calls : c.queue # << >>
  /\ reads \in Nat
  /\ similar \in Seq(Tracks)

QueueInv == Place /\ Modes /\ Remote

\* The invariant says what TypeOK says, and more.
LEMMA InvTypes == QueueInv => TypeOK /\ CurrentIsQueued
BY DEF QueueInv, Place, Modes, Remote, TypeOK, OpenCalls

\* A step leaves what plays in order; unless it plays a similar track, it makes
\* no double in the queue either.
InOrder == Place' /\ (AllDistinct => Distinct(queue'))

\* Playing a track of Tracks with a queue that is not empty.
LEMMA PlayKeeps ==
  ASSUME NEW q \in Seq(Tracks), NEW t \in Tracks, q # << >>, PlayTrack(t, q)
  PROVE  Place' /\ queue' = q
<1>1. queue' = q /\ currentTrack' = t /\ queueIndex' = FindIndex(q, t)
      /\ adopted' = (t \notin Members(q))
  BY DEF PlayTrack
<1>2. queueIndex' \in Nat /\ queueIndex' < Len(q)
  BY <1>1, FoundInRange
<1>3. ~adopted' => At(queue', queueIndex') = currentTrack'
  BY <1>1, FoundIsThere
<1>4. adopted' \in BOOLEAN
  BY <1>1, Zenon
<1> QED
  BY <1>1, <1>2, <1>3, <1>4 DEF Place, CurrentIsQueued

\* A member of a list: the list is not empty and holds it at some place.
LEMMA MemberOfList ==
  ASSUME NEW q \in Seq(Tracks), NEW t \in Members(q)
  PROVE  q # << >> /\ t \in Tracks
<1>1. PICK i \in 1..Len(q) : q[i] = t
  BY DEF Members
<1>2. Len(q) \in Nat /\ Len(<< >>) = 0
  BY LenProperties, EmptySeq
<1> QED
  BY <1>1, <1>2, ElementOfSeq

\* The tracks of a queue by their places, counted from 0.
LEMMA TrackAt ==
  ASSUME NEW q \in Seq(Tracks), NEW i \in Nat, i < Len(q)
  PROVE  At(q, i) \in Tracks /\ q # << >>
BY LenProperties, ElementOfSeq, EmptySeq DEF At

-----------------------------------------------------------------------------
(* The steps *)

\* The surfaces of the page lead to these steps, and to no other.
LEMMA Steps ==
  ASSUME Next
  PROVE  \/ PlayFromList \/ RepeatOne \/ StepForward \/ StartAgain \/ AskRadio \/ Previous
         \/ ToggleShuffle \/ CycleRepeat \/ ToggleRadioMode
         \/ ClearUpcoming \/ SimilarArrives \/ PlaySimilar \/ StartHydration \/ Hydrate
         \/ \E i \in queueIndex + 1 .. Len(queue) - 1 :
              \/ PlayQueueIndex(i) \/ RemoveFromQueue(i)
              \/ \E from \in 0 .. Len(queue) - 1 : ReorderQueue(from, i)
         \/ currentTrack # NoTrack /\ StartRadio(currentTrack, queue)
         \/ \E q \in Lists(MaxQueue) : \E t \in Members(q) : StartRadio(t, q)
         \/ \E c \in calls : RadioAnswers(c) \/ RadioFails(c)
BY DEF Next, PlayerBar, Keyboard, Forward, QueuePanel, QueueItem, NowPlayingView,
     ExpandedTrack, Radio, RadioStartButton, Sync

\* The steps that leave what plays alone.
LEMMA SamePlaceKeeps ==
  ASSUME QueueInv, SamePlace
  PROVE  InOrder
BY DEF QueueInv, Place, CurrentIsQueued, SamePlace, InOrder, AllDistinct, Distinct, At

\* next, previous, a row, "play all".
LEMMA PlayingKeeps ==
  ASSUME QueueInv, PlayFromList \/ RepeatOne \/ StepForward \/ StartAgain \/ Previous
  PROVE  InOrder
<1>1. CASE PlayFromList
  <2>1. PICK q \in Lists(MaxQueue) : \E t \in Members(q) : PlayTrack(t, q)
    BY <1>1 DEF PlayFromList
  <2>2. PICK t \in Members(q) : PlayTrack(t, q)
    BY <2>1
  <2>3. q \in Seq(Tracks) /\ Distinct(q)
    BY ListsAreSequences, PlayerAssumption
  <2>4. q # << >> /\ t \in Tracks
    BY <2>3, MemberOfList
  <2>5. Place' /\ queue' = q
    BY <2>2, <2>3, <2>4, PlayKeeps
  <2> QED
    BY <2>3, <2>5 DEF InOrder
<1>2. ASSUME NEW t \in Tracks, queue # << >>, PlayTrack(t, queue)
      PROVE  InOrder
  <2>1. Place' /\ queue' = queue
    BY <1>2, PlayKeeps DEF QueueInv, Place
  <2> QED
    BY <2>1 DEF InOrder, AllDistinct
<1>3. CASE RepeatOne
  BY <1>2, <1>3 DEF RepeatOne, Playable, QueueInv, Place
<1>4. CASE StepForward
  <2>1. queueIndex + 1 < Len(queue) /\ queueIndex + 1 \in Nat
    BY <1>4, LenProperties DEF StepForward, AtEnd, QueueInv, Place
  <2>2. At(queue, queueIndex + 1) \in Tracks
    BY <2>1, TrackAt DEF QueueInv, Place
  <2> QED
    BY <1>2, <1>4, <2>2 DEF StepForward, Playable
<1>5. CASE StartAgain
  <2>1. PICK q \in (IF shuffle THEN Shuffled(queue) ELSE {queue}) : PlayTrack(At(q, 0), q)
    BY <1>5 DEF StartAgain
  <2>2. q \in Seq(Tracks) /\ Len(q) = Len(queue) /\ (Distinct(queue) => Distinct(q))
    BY ShuffledIsSequence DEF QueueInv, Place
  <2>3. 0 < Len(q)
    BY <1>5, <2>2, LenProperties DEF StartAgain, Playable, QueueInv, Place
  <2>4. At(q, 0) \in Tracks /\ q # << >>
    BY <2>2, <2>3, TrackAt
  <2>5. Place' /\ queue' = q
    BY <2>1, <2>2, <2>4, PlayKeeps
  <2> QED
    BY <2>2, <2>5 DEF InOrder, AllDistinct
<1>6. CASE Previous
  <2> DEFINE i == IF queueIndex = 0 THEN Len(queue) - 1 ELSE queueIndex - 1
  <2>1. i \in Nat /\ i < Len(queue)
    BY <1>6, LenProperties DEF Previous, Playable, QueueInv, Place
  <2>2. At(queue, i) \in Tracks
    BY <2>1, TrackAt DEF QueueInv, Place
  <2> QED
    BY <1>2, <1>6, <2>2 DEF Previous, Playable
<1> QED
  BY <1>1, <1>3, <1>4, <1>5, <1>6

\* The radio's answer, late or not: the queue that was read is extended by
\* tracks it does not hold.
LEMMA AnswerKeeps ==
  ASSUME QueueInv, NEW c \in calls, RadioAnswers(c) \/ RadioFails(c)
  PROVE  InOrder
<1>1. c \in OpenCalls /\ c.queue \in Seq(Tracks) /\ c.queue # << >> /\ c.track \in Tracks
  BY DEF QueueInv, Remote, OpenCalls
<1>2. AllDistinct => Distinct(c.queue)
  BY DEF AllDistinct
<1>3. CASE RadioFails(c)
  <2>1. CASE c.kind = "radio"
    <3>1. Place' /\ queue' = c.queue
      BY <1>1, <1>3, <2>1, PlayKeeps DEF RadioFails
    <3> QED
      BY <1>2, <3>1 DEF InOrder
  <2>2. CASE c.kind # "radio"
    BY <1>3, <2>2, SamePlaceKeeps DEF RadioFails
  <2> QED
    BY <2>1, <2>2
<1>4. CASE RadioAnswers(c)
  <2>1. PICK new \in Unheard(c) :
          CASE c.kind = "radio" -> PlayTrack(c.track, c.queue \o new)
            [] c.kind = "next" /\ new # << >> -> PlayTrack(new[1], c.queue \o new)
            [] OTHER -> SamePlace
    BY <1>4 DEF RadioAnswers
  <2>2. new \in Seq(Tracks) /\ Distinct(new) /\ Members(new) \cap Members(c.queue) = {}
    BY ListsAreSequences, PlayerAssumption DEF Unheard, Answers
  <2>3. /\ c.queue \o new \in Seq(Tracks) /\ c.queue \o new # << >>
        /\ AllDistinct => Distinct(c.queue \o new)
    BY <1>1, <1>2, <2>2, JoinedIsSequence
  <2>4. ASSUME NEW t \in Tracks, PlayTrack(t, c.queue \o new)
        PROVE  InOrder
    <3>1. Place' /\ queue' = c.queue \o new
      BY <2>3, <2>4, PlayKeeps
    <3> QED
      BY <2>3, <3>1 DEF InOrder
  <2>5. CASE c.kind = "radio"
    BY <1>1, <2>1, <2>4, <2>5
  <2>6. CASE c.kind = "next" /\ new # << >>
    <3>1. new[1] \in Tracks
      BY <2>2, <2>6, LenProperties, ElementOfSeq, EmptySeq
    <3> QED
      BY <2>1, <2>4, <2>6, <3>1
  <2>7. CASE c.kind # "radio" /\ ~(c.kind = "next" /\ new # << >>)
    BY <2>1, <2>7, SamePlaceKeeps
  <2> QED
    BY <2>5, <2>6, <2>7
<1> QED
  BY <1>3, <1>4

\* The queue panel: the index follows the current track.
LEMMA PanelKeeps ==
  ASSUME QueueInv, NEW i \in queueIndex + 1 .. Len(queue) - 1,
         \/ PlayQueueIndex(i) \/ RemoveFromQueue(i)
         \/ \E from \in 0 .. Len(queue) - 1 : ReorderQueue(from, i)
  PROVE  InOrder
<1>1. /\ queue \in Seq(Tracks) /\ queueIndex \in Nat /\ Len(queue) \in Nat
      /\ i \in Nat /\ queueIndex < i /\ i < Len(queue)
      /\ queue # << >>
  BY LenProperties, EmptySeq DEF QueueInv, Place
<1>2. CASE PlayQueueIndex(i)
  <2>1. Place' /\ queue' = queue
    BY <1>1, <1>2, TrackAt, PlayKeeps DEF PlayQueueIndex
  <2> QED
    BY <2>1 DEF InOrder, AllDistinct
<1>3. CASE RemoveFromQueue(i)
  <2> DEFINE q == Without(queue, i)
  <2>1. queue' = q /\ queueIndex' = queueIndex /\ UNCHANGED <<currentTrack, adopted>>
    BY <1>1, <1>3 DEF RemoveFromQueue
  <2>2. q \in Seq(Tracks) /\ Len(q) = Len(queue) - 1 /\ (Distinct(queue) => Distinct(q))
    BY <1>1, WithoutIsSequence
  <2>3. At(q, queueIndex) = At(queue, queueIndex) /\ queueIndex < Len(q)
    BY <1>1, <2>2 DEF At, Without
  <2>4. q # << >>
    BY <1>1, <2>2, <2>3, EmptySeq
  <2> HIDE DEF q
  <2> QED
    BY <2>1, <2>2, <2>3, <2>4 DEF InOrder, Place, CurrentIsQueued, QueueInv, AllDistinct
<1>4. ASSUME NEW from \in 0 .. Len(queue) - 1, ReorderQueue(from, i)
      PROVE  InOrder
  <2> DEFINE q == Moved(queue, from, i)
             n == IF from = queueIndex THEN i
                  ELSE IF from < queueIndex /\ i >= queueIndex THEN queueIndex - 1
                  ELSE IF from > queueIndex /\ i <= queueIndex THEN queueIndex + 1
                  ELSE queueIndex
  <2>1. queue' = q /\ queueIndex' = n /\ UNCHANGED <<currentTrack, adopted>>
    BY <1>4 DEF ReorderQueue
  <2>2. q \in Seq(Tracks) /\ Len(q) = Len(queue) /\ (Distinct(queue) => Distinct(q))
    BY <1>1, MovedIsSequence
  <2>3. n \in Nat /\ n < Len(q)
    BY <1>1, <2>2
  <2>4. At(q, n) = At(queue, queueIndex)
    BY <1>1, <2>3 DEF At, Moved
  <2>5. q # << >>
    BY <1>1, <2>2, <2>3, EmptySeq
  <2> HIDE DEF q, n
  <2> QED
    BY <2>1, <2>2, <2>3, <2>4, <2>5 DEF InOrder, Place, CurrentIsQueued, QueueInv, AllDistinct
<1> QED
  BY <1>2, <1>3, <1>4

\* "Clear upcoming" keeps the current track, which is the last one then.
LEMMA ClearKeeps ==
  ASSUME QueueInv, ClearUpcoming
  PROVE  InOrder
<1> DEFINE q == SubSeq(queue, 1, queueIndex + 1)
<1>1. queueIndex \in Nat /\ Len(queue) \in Nat /\ queueIndex + 1 < Len(queue)
      /\ queue \in Seq(Tracks)
  BY LenProperties DEF QueueInv, Place, ClearUpcoming, AtEnd
<1>2. q \in Seq(Tracks) /\ Len(q) = queueIndex + 1
      /\ \A k \in 1..(queueIndex + 1) : q[k] = queue[k]
  BY <1>1, SubSeqProperties
<1>3. q # << >> /\ At(q, queueIndex) = At(queue, queueIndex)
  BY <1>1, <1>2, EmptySeq DEF At
<1>4. Distinct(queue) => Distinct(q)
  BY <1>1, <1>2 DEF Distinct
<1>5. queue' = q /\ UNCHANGED <<queueIndex, currentTrack, adopted>>
  BY DEF ClearUpcoming
<1> HIDE DEF q
<1> QED
  BY <1>1, <1>2, <1>3, <1>4, <1>5 DEF InOrder, Place, CurrentIsQueued, QueueInv, AllDistinct

\* A queue adopted from another device.
LEMMA HydrateKeeps ==
  ASSUME QueueInv, Hydrate
  PROVE  InOrder
<1>1. PICK q \in Lists(MaxQueue) : \E index \in 0..MaxQueue :
        IF q = << >>
        THEN SamePlace
        ELSE /\ queue' = q
             /\ queueIndex' = IF index < Len(q) THEN index ELSE Len(q) - 1
             /\ adopted' = (adopted \/ currentTrack # NoTrack)
             /\ UNCHANGED currentTrack
  BY DEF Hydrate
<1>2. q \in Seq(Tracks) /\ Distinct(q) /\ Len(q) \in Nat
  BY ListsAreSequences, LenProperties, PlayerAssumption
<1>3. CASE q = << >>
  BY <1>1, <1>3, SamePlaceKeeps
<1>4. CASE q # << >>
  <2>1. Len(q) > 0
    BY <1>2, <1>4, EmptySeq
  <2>2. /\ queue' = q /\ queueIndex' \in Nat /\ queueIndex' < Len(q)
        /\ adopted' = (adopted \/ currentTrack # NoTrack) /\ currentTrack' = currentTrack
    BY <1>1, <1>2, <1>4, <2>1
  <2>3. adopted' \in BOOLEAN /\ (currentTrack' # NoTrack => adopted')
    BY <2>2, Zenon
  <2> QED
    BY <1>2, <1>4, <2>2, <2>3 DEF InOrder, Place, CurrentIsQueued, QueueInv
<1> QED
  BY <1>3, <1>4

\* A similar track plays: the queue is the list that is shown, behind the current
\* track, and may name one twice.
LEMMA SimilarKeeps ==
  ASSUME QueueInv, PlaySimilar
  PROVE  Place'
<1>1. currentTrack \in Tracks /\ similar \in Seq(Tracks)
  BY DEF QueueInv, Place, Remote, PlaySimilar
<1>2. <<currentTrack>> \in Seq(Tracks) /\ <<currentTrack>> # << >>
  BY <1>1
<1> DEFINE q == <<currentTrack>> \o similar
<1>3. q \in Seq(Tracks) /\ q # << >>
  BY <1>1, <1>2, JoinedIsSequence
<1>4. PICK t \in Members(similar) : PlayTrack(t, q)
  BY DEF PlaySimilar
<1>5. t \in Tracks
  BY <1>1, MemberOfList
<1> HIDE DEF q
<1> QED
  BY <1>3, <1>4, <1>5, PlayKeeps

\* Every step keeps what plays in order, and only PlaySimilar doubles a track.
LEMMA PlaceStep ==
  ASSUME QueueInv, [Next]_playerVars
  PROVE  Place' /\ (AllDistinct /\ ~Distinct(queue') => PlaySimilar)
<1>1. CASE UNCHANGED playerVars
  BY <1>1, SamePlaceKeeps DEF playerVars, SamePlace, InOrder
<1>2. CASE PlaySimilar
  BY <1>2, SimilarKeeps
<1>3. CASE Next /\ ~PlaySimilar
  <2>1. ASSUME \/ AskRadio \/ ToggleShuffle \/ CycleRepeat \/ ToggleRadioMode
               \/ SimilarArrives \/ StartHydration \/ \E t, q : StartRadio(t, q)
        PROVE  SamePlace
    BY <2>1 DEF AskRadio, ToggleShuffle, CycleRepeat, ToggleRadioMode, SimilarArrives,
         StartHydration, StartRadio
  <2>2. \/ SamePlace \/ PlayFromList \/ RepeatOne \/ StepForward \/ StartAgain \/ Previous
        \/ ClearUpcoming \/ Hydrate
        \/ \E i \in queueIndex + 1 .. Len(queue) - 1 :
             \/ PlayQueueIndex(i) \/ RemoveFromQueue(i)
             \/ \E from \in 0 .. Len(queue) - 1 : ReorderQueue(from, i)
        \/ \E c \in calls : RadioAnswers(c) \/ RadioFails(c)
    BY <1>3, <2>1, Steps
  <2>3. InOrder
    BY <2>2, SamePlaceKeeps, PlayingKeeps, ClearKeeps, HydrateKeeps, PanelKeeps, AnswerKeeps
  <2> QED
    BY <2>3 DEF InOrder
<1> QED
  BY <1>1, <1>2, <1>3

\* The modes keep their types.
LEMMA ModesStep ==
  ASSUME QueueInv, [Next]_playerVars
  PROVE  Modes'
<1>1. CASE UNCHANGED playerVars
  BY <1>1 DEF QueueInv, Modes, playerVars
<1>2. ASSUME UNCHANGED modes
      PROVE  Modes'
  BY <1>2 DEF QueueInv, Modes, modes
<1>3. CASE ToggleShuffle
  BY <1>3 DEF QueueInv, Modes, ToggleShuffle
<1>4. CASE CycleRepeat
  BY <1>4 DEF QueueInv, Modes, CycleRepeat
<1>5. CASE ToggleRadioMode
  BY <1>5 DEF QueueInv, Modes, ToggleRadioMode
<1>6. ASSUME NEW t, NEW q, StartRadio(t, q)
      PROVE  Modes'
  BY <1>6 DEF QueueInv, Modes, StartRadio
<1>7. ASSUME NEW c \in calls, RadioAnswers(c) \/ RadioFails(c)
      PROVE  Modes'
  BY <1>2, <1>7 DEF RadioAnswers, RadioFails
<1>8. ASSUME NEW i, \/ PlayQueueIndex(i) \/ RemoveFromQueue(i)
                   \/ \E from \in 0 .. Len(queue) - 1 : ReorderQueue(from, i)
      PROVE  Modes'
  BY <1>2, <1>8 DEF PlayQueueIndex, RemoveFromQueue, ReorderQueue
<1>9. CASE \/ PlayFromList \/ RepeatOne \/ StepForward \/ StartAgain \/ AskRadio \/ Previous
           \/ ClearUpcoming \/ SimilarArrives \/ PlaySimilar \/ StartHydration \/ Hydrate
  BY <1>2, <1>9 DEF PlayFromList, RepeatOne, StepForward, StartAgain, AskRadio, Previous,
       ClearUpcoming, SimilarArrives, PlaySimilar, StartHydration, Hydrate
<1> QED
  BY <1>1, <1>3, <1>4, <1>5, <1>6, <1>7, <1>8, <1>9, Steps

\* A call remembers a queue that is not empty.
LEMMA CallKeeps ==
  ASSUME QueueInv, NEW kind \in {"next", "radio"}, NEW t \in Tracks, NEW q \in Seq(Tracks),
         q # << >>, Call(kind, t, q)
  PROVE  Remote'
BY DEF QueueInv, Remote, Call, OpenCalls

\* What is open keeps its types.
LEMMA RemoteStep ==
  ASSUME QueueInv, [Next]_playerVars
  PROVE  Remote'
<1>1. CASE UNCHANGED playerVars
  BY <1>1 DEF QueueInv, Remote, playerVars
<1>2. ASSUME UNCHANGED remote
      PROVE  Remote'
  BY <1>2 DEF QueueInv, Remote, remote
<1>3. CASE AskRadio
  <2>1. currentTrack \in Tracks /\ queue \in Seq(Tracks) /\ queue # << >>
        /\ Call("next", currentTrack, queue)
    BY <1>3 DEF QueueInv, Place, AskRadio, Playable
  <2> QED
    BY <2>1, CallKeeps
<1>4. CASE currentTrack # NoTrack /\ StartRadio(currentTrack, queue)
  <2>1. currentTrack \in Tracks /\ queue \in Seq(Tracks) /\ queue # << >>
        /\ Call("radio", currentTrack, queue)
    BY <1>4 DEF QueueInv, Place, StartRadio
  <2> QED
    BY <2>1, CallKeeps
<1>5. ASSUME NEW q \in Lists(MaxQueue), NEW t \in Members(q), StartRadio(t, q)
      PROVE  Remote'
  <2>1. q \in Seq(Tracks)
    BY ListsAreSequences, PlayerAssumption
  <2>2. q # << >> /\ t \in Tracks
    BY <2>1, MemberOfList
  <2> QED
    BY <1>5, <2>1, <2>2, CallKeeps DEF StartRadio
<1>6. ASSUME NEW c \in calls, RadioAnswers(c) \/ RadioFails(c)
      PROVE  Remote'
  BY <1>6 DEF QueueInv, Remote, RadioAnswers, RadioFails
<1>7. CASE SimilarArrives
  <2>1. similar' \in Seq(Tracks)
    BY <1>7, ListsAreSequences, PlayerAssumption DEF SimilarArrives
  <2> QED
    BY <1>7, <2>1 DEF QueueInv, Remote, SimilarArrives
<1>8. CASE StartHydration \/ Hydrate
  BY <1>8 DEF QueueInv, Remote, StartHydration, Hydrate
<1>9. ASSUME NEW i, \/ PlayQueueIndex(i) \/ RemoveFromQueue(i)
                   \/ \E from \in 0 .. Len(queue) - 1 : ReorderQueue(from, i)
      PROVE  Remote'
  BY <1>2, <1>9 DEF PlayQueueIndex, RemoveFromQueue, ReorderQueue
<1>10. CASE \/ PlayFromList \/ RepeatOne \/ StepForward \/ StartAgain \/ Previous \/ ClearUpcoming
            \/ PlaySimilar \/ ToggleShuffle \/ CycleRepeat \/ ToggleRadioMode
  BY <1>2, <1>10 DEF PlayFromList, RepeatOne, StepForward, StartAgain, Previous, ClearUpcoming,
       PlaySimilar, ToggleShuffle, CycleRepeat, ToggleRadioMode
<1> QED
  BY <1>1, <1>3, <1>4, <1>5, <1>6, <1>7, <1>8, <1>9, <1>10, Steps

-----------------------------------------------------------------------------
(* The theorems *)

\* The invariant is inductive.
THEOREM QueueInOrder == Spec => []QueueInv
<1>1. Init => QueueInv
  <2> SUFFICES ASSUME Init
               PROVE  QueueInv
    OBVIOUS
  <2>1. << >> \in Seq(Tracks)
    BY EmptySeq
  <2>2. Place
    BY <2>1 DEF Init, Place, CurrentIsQueued
  <2>3. Modes
    BY DEF Init, Modes
  <2>4. Remote
    BY <2>1 DEF Init, Remote
  <2> QED
    BY <2>2, <2>3, <2>4 DEF QueueInv
<1>2. QueueInv /\ [Next]_playerVars => QueueInv'
  BY PlaceStep, ModesStep, RemoteStep DEF QueueInv
<1> QED
  BY <1>1, <1>2, PTL DEF Spec

\* TypeOK, with the bounds of queueIndex: no surface of the page, answer of the
\* radio or queue of another device leaves it outside the queue.
THEOREM TypeCorrect == Spec => []TypeOK
BY QueueInOrder, InvTypes, PTL

\* CurrentIsQueued: the queue index points to the track that plays, whatever was
\* moved, removed, cleared or appended, unless another device's queue was adopted.
THEOREM IndexFollows == Spec => []CurrentIsQueued
BY QueueInOrder, InvTypes, PTL

\* DuplicatesOnlyFromSimilar: only a click on a similar track makes a queue name a
\* track twice.
THEOREM NoDoubles == Spec => DuplicatesOnlyFromSimilar
<1>1. QueueInv /\ [Next]_playerVars
        => [AllDistinct /\ ~Distinct(queue') => PlaySimilar]_playerVars
  BY PlaceStep
<1> QED
  BY <1>1, QueueInOrder, PTL DEF Spec, DuplicatesOnlyFromSimilar
=============================================================================
