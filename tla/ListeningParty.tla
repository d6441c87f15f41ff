--------------------------- MODULE ListeningParty ---------------------------
(***************************************************************************)
(* A listening party end to end: PartyHub with the pages on both sides     *)
(* (apps/web/src/hooks/useListeningParty.ts, pages/PartyPage.tsx).  The    *)
(* host's page pushes its player after 800 ms without a change, in calls   *)
(* that may fail or overtake one another; a guest's page applies the       *)
(* states of its event stream, and the one it fetches when it opens, one   *)
(* at a time.  The room's states are numbered by PartyHub; what the host's *)
(* player was like is the number of the host's acts until then.            *)
(***************************************************************************)
EXTENDS PartyHub

CONSTANTS
  Clients,   \* pages of guests
  NoStream,
  MaxActs    \* acts of the host (bound)

ASSUME ClientAssumption == NoStream \notin Guests /\ MaxActs \in Nat

VARIABLES
  ui,        \* the host's page and player
  puts,      \* puts[h]: the host's act that a call under way carries, or Idle
  content,   \* content[s]: the act that the room's state s shows
  client,    \* client[c]: a guest's page
  troubled   \* history: a call failed, or one overtook another

pageVars == <<ui, puts, content, client, troubled>>
allVars == <<partyVars, pageVars>>

Idle == MaxActs + 1

PageTypeOK ==
  /\ ui \in [open : BOOLEAN, player : {"paused", "ticking", "held"}, armed : BOOLEAN,
             acts : 0..MaxActs]
  /\ puts \in [Hosts -> 0..Idle]
  /\ content \in Seq(0..MaxActs) /\ Len(content) = state
  /\ client \in [Clients -> [stream : Guests \cup {NoStream}, fetched : 0..MaxUpdates,
                             fetch : {"wanted", "sent", "done"}, shown : 0..MaxUpdates,
                             applying : 0..MaxUpdates, busy : BOOLEAN,
                             stale : BOOLEAN]]
  /\ troubled \in BOOLEAN

PartyInit ==
  /\ Init
  /\ ui = [open |-> TRUE, player |-> "paused", armed |-> TRUE, acts |-> 0]
  /\ puts = [h \in Hosts |-> Idle]
  /\ content = << >>
  /\ client = [c \in Clients |->
       [stream |-> NoStream, fetched |-> 0, fetch |-> "wanted", shown |-> 0,
        applying |-> 0, busy |-> FALSE, stale |-> FALSE]]
  /\ troubled = FALSE

-----------------------------------------------------------------------------
(* The host's page *)

\* Mutant: the effect does not depend on what was done.
HostActsUnseen ==
  /\ ui.acts < MaxActs
  /\ \E p \in {"paused", "ticking"} : ui' = [ui EXCEPT !.player = p, !.acts = @ + 1]
  /\ UNCHANGED <<partyVars, puts, content, client, troubled>>

\* Play, pause, skip, seek, an edit of the queue: the effect clears the timer
\* and sets it again.
HostActs ==
  /\ ui.acts < MaxActs
  /\ \E p \in {"paused", "ticking"} :
       ui' = [ui EXCEPT !.player = p, !.acts = @ + 1, !.armed = ui.open]
  /\ UNCHANGED <<partyVars, puts, content, client, troubled>>

\* While it scrubs or waits for data the player does not tick.
HostHolds ==
  /\ ui.player # "paused"
  /\ ui' = [ui EXCEPT !.player = IF @ = "held" THEN "ticking" ELSE "held"]
  /\ UNCHANGED <<partyVars, puts, content, client, troubled>>

\* The effect depends on progressMs, too.
Ticking == ui.player = "ticking"
Tick ==
  /\ Ticking
  /\ ui' = [ui EXCEPT !.armed = ui.open]
  /\ UNCHANGED <<partyVars, puts, content, client, troubled>>

\* The page is left for another one, and its effects end; or it is opened again,
\* with the token in sessionStorage.
HostTurnsPage ==
  /\ ui' = [ui EXCEPT !.open = ~@, !.armed = ~ui.open]
  /\ UNCHANGED <<partyVars, puts, content, client, troubled>>

\* Progress comes every 250 ms, so the 800 ms end only between ticks.
TimerFires(h) ==
  /\ ui.armed /\ ~Ticking /\ puts[h] = Idle /\ ~Sending(h)
  /\ puts' = [puts EXCEPT ![h] = ui.acts]
  /\ ui' = [ui EXCEPT !.armed = FALSE]
  /\ UNCHANGED <<partyVars, content, client, troubled>>

PutArrives(h) ==
  /\ puts[h] # Idle
  /\ WriteState(h)
  /\ content' = Append(content, puts[h])
  /\ puts' = [puts EXCEPT ![h] = Idle]
  /\ troubled' = (troubled \/ \E k \in Hosts : puts[k] < puts[h])
  /\ UNCHANGED <<ui, client>>

\* .catch(() => {})
PutFails(h) ==
  /\ puts[h] # Idle
  /\ puts' = [puts EXCEPT ![h] = Idle]
  /\ troubled' = TRUE
  /\ UNCHANGED <<partyVars, ui, content, client>>

-----------------------------------------------------------------------------
(* A guest's page *)

\* Mutant: the flag is looked at only when the tracks are there.
TakenAnyway(cl, s) == [cl EXCEPT !.busy = TRUE, !.applying = IF cl.busy THEN @ ELSE s]

\* apply: a state that comes while another is applied is passed over.
Taken(cl, s) ==
  IF cl.busy THEN [cl EXCEPT !.stale = TRUE]
  ELSE [cl EXCEPT !.busy = TRUE, !.applying = s, !.stale = FALSE]

HubOnly == UNCHANGED <<ui, puts, content, troubled>>

\* new EventSource, and again after its stream ended.
Connect(c, g) ==
  /\ client[c].stream = NoStream
  /\ Subscribe(g)
  /\ client' = [client EXCEPT ![c].stream = g]
  /\ HubOnly

\* The first state of the stream, and the ones after it.
StateEvent(c, g) ==
  /\ client[c].stream = g
  /\ WriteInitial(g) \/ Receive(g)
  /\ client' = [client EXCEPT ![c] = Taken(@, guest'[g].last)]
  /\ HubOnly

StreamEnds(c, g) ==
  /\ client[c].stream = g
  /\ Unsub(g)
  /\ client' = [client EXCEPT ![c].stream = NoStream]
  /\ HubOnly

\* getListeningParty: the room is read, and the answer arrives later.
FetchReads(c) ==
  /\ client[c].fetch = "wanted"
  /\ client' = [client EXCEPT ![c].fetch = "sent", ![c].fetched = state]
  /\ UNCHANGED partyVars /\ HubOnly

FetchArrives(c) ==
  /\ client[c].fetch = "sent"
  /\ LET cl == client[c]
         late == cl.stream # NoStream /\ guest[cl.stream].last # cl.fetched
         next == IF cl.busy THEN cl ELSE [Taken(cl, cl.fetched) EXCEPT !.stale = late]
     IN  client' = [client EXCEPT ![c] = [next EXCEPT !.fetch = "done", !.fetched = 0]]
  /\ UNCHANGED partyVars /\ HubOnly

FetchFails(c) ==
  /\ client[c].fetch = "sent"
  /\ client' = [client EXCEPT ![c].fetch = "done", ![c].fetched = 0]
  /\ UNCHANGED partyVars /\ HubOnly

\* The tracks are here: the player follows, unless none of them can be read.
Applied(c) ==
  /\ client[c].busy
  /\ client' = [client EXCEPT ![c].busy = FALSE, ![c].shown = client[c].applying,
                              ![c].applying = 0]
  /\ UNCHANGED partyVars /\ HubOnly

-----------------------------------------------------------------------------
Push(h) == TimerFires(h) \/ PutArrives(h)
ClientStep(c) ==
  \/ FetchReads(c) \/ FetchArrives(c) \/ FetchFails(c) \/ Applied(c)
  \/ \E g \in Guests : Connect(c, g) \/ StateEvent(c, g) \/ StreamEnds(c, g)

PartyNext ==
  \/ HostActs \/ HostHolds \/ Tick \/ HostTurnsPage
  \/ \E h \in Hosts : Push(h) \/ PutFails(h) \/ (HostStep(h) /\ UNCHANGED pageVars)
  \/ \E c \in Clients : ClientStep(c)

PartySpec == PartyInit /\ [][PartyNext]_allVars

\* Timers fire, calls end one way or the other.  Nobody has to act, read or join.
PartyFairSpec ==
  /\ PartySpec
  /\ \A h \in Hosts :
       /\ WF_allVars(TimerFires(h)) /\ WF_allVars(PutArrives(h))
       /\ WF_allVars(HostStep(h) /\ UNCHANGED pageVars)

-----------------------------------------------------------------------------
(* Properties *)

RoomShows == IF content = << >> THEN 0 ELSE content[state]
Still == ui.open /\ ~Ticking

(* The last thing the host did before it paused on the page is in the room *)
(* in the end, however often the timer was set again before, as long as no *)
(* call failed or was overtaken.  (The bound on updates may stop it.)      *)
PauseIsPushed ==
  <>[](Still /\ ~troubled) => []<>(RoomShows = ui.acts \/ state = MaxUpdates)

(* A guest's page at rest shows the last state of its stream, unless that  *)
(* was passed over while another was applied, or the answer to the fetch   *)
(* came late and set the page back: through reconnections, answers that    *)
(* come before the stream and tracks that load slowly.                     *)
GuestAtRestFollows ==
  \A c \in Clients :
    LET cl == client[c] IN
    (/\ ~cl.busy /\ ~cl.stale
     /\ cl.stream # NoStream /\ guest[cl.stream].pc = "streaming") =>
        cl.shown = guest[cl.stream].last

(* PartyPage.tsx: "Play, pause, and skip from the player — guests follow   *)
(* automatically."  What the host did last is in the room in the end, if it *)
(* stays on the page and no call fails or is overtaken.                    *)
HostIsFollowed ==
  <>[](ui.open /\ ~troubled) => []<>(RoomShows = ui.acts \/ state = MaxUpdates)
=============================================================================
