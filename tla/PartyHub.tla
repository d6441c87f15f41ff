------------------------------ MODULE PartyHub ------------------------------
(***************************************************************************)
(* One room of the listening parties (internal/modules/party/handler.go):  *)
(* the host's PUTs hand player states to the guests' event streams through *)
(* one buffered channel per guest.  A step is what runs under the room's   *)
(* mutex, one send or one receive.  A state is the number of the update    *)
(* that wrote it.                                                          *)
(***************************************************************************)
EXTENDS Naturals, Sequences

CONSTANTS
  Guests,      \* event streams; one that reconnects is another guest
  Hosts,       \* PUTs of the host that may be open at once
  Buffer,      \* capacity of a subscriber's channel (4)
  MaxUpdates   \* updates of the host (bound)

ASSUME PartyAssumption == Buffer \in Nat \ {0} /\ MaxUpdates \in Nat

VARIABLES
  state,       \* room.state
  subs,        \* room.subs: the guests whose channel is registered
  chan,        \* chan[g]: the states in g's channel
  host,        \* host[h]: the call's state and the channels it still has to try
  guest,       \* guest[g]: its events handler, and the states it wrote to the client
  missed,      \* history: the last state meant for g did not enter its channel
  overlapped   \* history: an update began before the one before it had ended

partyVars == <<state, subs, chan, host, guest, missed, overlapped>>

TypeOK ==
  /\ state \in 0..MaxUpdates
  /\ subs \subseteq Guests
  /\ chan \in [Guests -> Seq(1..MaxUpdates)]
  /\ host \in [Hosts -> [value : 0..MaxUpdates, todo : SUBSET Guests]]
  /\ guest \in [Guests -> [pc : {"new", "subscribed", "streaming", "gone"},
                           first : 0..MaxUpdates, last : 0..MaxUpdates]]
  /\ missed \in [Guests -> BOOLEAN]
  /\ overlapped \in BOOLEAN

Init ==
  /\ state = 0
  /\ subs = {}
  /\ chan = [g \in Guests |-> << >>]
  /\ host = [h \in Hosts |-> [value |-> 0, todo |-> {}]]
  /\ guest = [g \in Guests |-> [pc |-> "new", first |-> 0, last |-> 0]]
  /\ missed = [g \in Guests |-> FALSE]
  /\ overlapped = FALSE

Sending(h) == host[h].todo # {}

-----------------------------------------------------------------------------
(* The host: UpdateHost *)

\* Under the mutex: the state is written and the subscribers are copied.
WriteState(h) ==
  /\ ~Sending(h) /\ state < MaxUpdates
  /\ state' = state + 1
  /\ host' = [host EXCEPT ![h] = [value |-> state + 1, todo |-> subs]]
  /\ overlapped' = (overlapped \/ \E k \in Hosts : Sending(k))
  /\ UNCHANGED <<subs, chan, guest, missed>>

Tried(h, g) == host' = [host EXCEPT ![h].todo = @ \ {g}]

\* Mutant: ch <- state without a default.
SendBlocks(h, g) ==
  /\ g \in host[h].todo /\ guest[g].pc # "gone"
  /\ Len(chan[g]) < Buffer
  /\ chan' = [chan EXCEPT ![g] = Append(@, host[h].value)]
  /\ missed' = [missed EXCEPT ![g] = FALSE]
  /\ Tried(h, g)
  /\ UNCHANGED <<state, subs, guest, overlapped>>

\* Without the mutex, in no fixed order; a full channel is passed over.
Send(h, g) ==
  /\ g \in host[h].todo /\ guest[g].pc # "gone"
  /\ IF Len(chan[g]) < Buffer
     THEN /\ chan' = [chan EXCEPT ![g] = Append(@, host[h].value)]
          /\ missed' = [missed EXCEPT ![g] = FALSE]
     ELSE /\ missed' = [missed EXCEPT ![g] = TRUE]
          /\ UNCHANGED chan
  /\ Tried(h, g)
  /\ UNCHANGED <<state, subs, guest, overlapped>>

\* The channel was closed since it was copied: the send panics, and the call
\* ends with the channels after it not tried.
SendPanics(h, g) ==
  /\ g \in host[h].todo /\ guest[g].pc = "gone"
  /\ missed' = [k \in Guests |-> missed[k] \/ k \in host[h].todo]
  /\ host' = [host EXCEPT ![h].todo = {}]
  /\ UNCHANGED <<state, subs, chan, guest, overlapped>>

-----------------------------------------------------------------------------
(* A guest: the events handler *)

Subscribe(g) ==
  /\ guest[g].pc = "new"
  /\ subs' = subs \cup {g}
  /\ guest' = [guest EXCEPT ![g].pc = "subscribed"]
  /\ UNCHANGED <<state, chan, host, missed, overlapped>>

\* Mutant: the stream begins with the first update after it.
WriteNoInitial(g) ==
  /\ guest[g].pc = "subscribed"
  /\ guest' = [guest EXCEPT ![g].pc = "streaming"]
  /\ UNCHANGED <<state, subs, chan, host, missed, overlapped>>

\* Mutant: the heartbeat writes the state of the room again.
WriteAtHeartbeat(g) ==
  /\ guest[g].pc \in {"subscribed", "streaming"}
  /\ guest' = [guest EXCEPT ![g].pc = "streaming", ![g].last = state,
                            ![g].first = IF guest[g].pc = "streaming" THEN @ ELSE state]
  /\ UNCHANGED <<state, subs, chan, host, missed, overlapped>>

\* Get, after Subscribe, and the first event.
WriteInitial(g) ==
  /\ guest[g].pc = "subscribed"
  /\ guest' = [guest EXCEPT ![g] = [pc |-> "streaming", first |-> state, last |-> state]]
  /\ UNCHANGED <<state, subs, chan, host, missed, overlapped>>

Receive(g) ==
  /\ guest[g].pc = "streaming" /\ chan[g] # << >>
  /\ guest' = [guest EXCEPT ![g].last = Head(chan[g])]
  /\ chan' = [chan EXCEPT ![g] = Tail(@)]
  /\ UNCHANGED <<state, subs, host, missed, overlapped>>

\* The client is gone; unsub under the mutex: delete, close.
Unsub(g) ==
  /\ guest[g].pc = "streaming"
  /\ subs' = subs \ {g}
  /\ chan' = [chan EXCEPT ![g] = << >>]
  /\ guest' = [guest EXCEPT ![g].pc = "gone"]
  /\ UNCHANGED <<state, host, missed, overlapped>>

-----------------------------------------------------------------------------
HostStep(h) == \E g \in Guests : Send(h, g) \/ SendPanics(h, g)
GuestStep(g) == WriteInitial(g) \/ Receive(g)

Next ==
  \/ \E h \in Hosts : WriteState(h) \/ HostStep(h)
  \/ \E g \in Guests : Subscribe(g) \/ GuestStep(g) \/ Unsub(g)

Spec == Init /\ [][Next]_partyVars

\* A call that sends runs on.  A client need not read, so no guest is fair.
FairSpec == Spec /\ \A h \in Hosts : WF_partyVars(HostStep(h))

-----------------------------------------------------------------------------
(* Properties *)

Quiet == \A h \in Hosts : ~Sending(h)
CaughtUp(g) == guest[g].pc = "streaming" /\ chan[g] = << >>

(* Whenever no update is on its way, a guest that has read its channel has *)
(* what the room has, if its last send found room in the channel and no    *)
(* two updates overlapped: no update falls between the snapshot of the     *)
(* subscribers, the subscription and the read of the initial state.        *)
GuestHasLatest ==
  Quiet /\ ~overlapped =>
    \A g \in Guests : CaughtUp(g) /\ ~missed[g] => guest[g].last = state

(* A guest sees the room go back at most once, from the initial state it   *)
(* read to the updates that its channel already held.                      *)
RollbackOnlyAtStart ==
  [][overlapped' \/ \A g \in Guests :
       guest'[g].last < guest[g].last => guest[g].last = guest[g].first]_partyVars

(* A guest that does not read never holds up the host's update.            *)
UpdateEnds == \A h \in Hosts : Sending(h) ~> ~Sending(h)

(* useListeningParty.ts: "Host pushes player state; guests follow via      *)
(* SSE."  Whenever no update is on its way, a guest that has read its      *)
(* channel has what the room has.                                          *)
GuestsFollow ==
  Quiet => \A g \in Guests : CaughtUp(g) => guest[g].last = state
=============================================================================
