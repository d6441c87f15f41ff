------------------------ MODULE ListeningPartyProofs ------------------------
(***************************************************************************)
(* Proofs about PartyHub and ListeningParty, for any number of guests, of  *)
(* their pages and of the host's calls, any buffer and any number of       *)
(* updates: guests have what the room has, go back to an older state only  *)
(* at the start of their stream, and their pages show it.                  *)
(*                                                                         *)
(* GuestHasLatest says nothing of an update on its way.  The invariant     *)
(* does: of a room whose updates have not overlapped, one call at most     *)
(* sends, it sends the room's state, and a guest that it has already tried *)
(* with success has that state at the end of its channel or, if that is    *)
(* empty, in its last event (Fresh).  That no update slips between the     *)
(* subscription and the initial state comes from the order of the two.     *)
(*                                                                         *)
(* The pages only use the hub, so what is proved of it holds with them,    *)
(* too; and of a page the invariant says that no other one has its stream, *)
(* and that what it shows, or is about to show, is the last event of that  *)
(* stream unless one was passed over.                                      *)
(***************************************************************************)
EXTENDS ListeningParty, SequenceTheorems, TLAPS

-----------------------------------------------------------------------------
(* The hub                                                                 *)

Active(g) == guest[g].pc \in {"subscribed", "streaming"}
Owing(g) == \E h \in Hosts : g \in host[h].todo

Fresh(g) ==
  IF chan[g] = << >> THEN guest[g].pc = "streaming" => guest[g].last = state
                     ELSE chan[g][Len(chan[g])] = state

SendersSendState == \A h \in Hosts : Sending(h) => host[h].value = state
OneSender == \A h, k \in Hosts : Sending(h) /\ Sending(k) => h = k

HubInv ==
  /\ TypeOK
  /\ \A h \in Hosts : Sending(h) => host[h].value > 0
  /\ \A g \in Guests : g \in subs <=> Active(g)
  /\ \A g \in Guests : guest[g].pc = "new" => chan[g] = << >> /\ ~Owing(g)
  /\ ~overlapped => SendersSendState /\ OneSender
  /\ ~overlapped => \A g \in Guests : Active(g) /\ ~missed[g] /\ ~Owing(g) => Fresh(g)

\* The rooms of Init satisfy the invariant: no guest, no update.
LEMMA HubInit == Init => HubInv
<1> SUFFICES ASSUME Init PROVE HubInv OBVIOUS
<1>1. TypeOK
  <2>1. << >> \in Seq(1..MaxUpdates) OBVIOUS
  <2>2. chan \in [Guests -> Seq(1..MaxUpdates)] BY <2>1 DEF Init
  <2>3. 0 \in 0..MaxUpdates BY PartyAssumption
  <2>4. host \in [Hosts -> [value : 0..MaxUpdates, todo : SUBSET Guests]]
    BY <2>3 DEF Init
  <2>5. guest \in [Guests -> [pc : {"new", "subscribed", "streaming", "gone"},
                              first : 0..MaxUpdates, last : 0..MaxUpdates]]
    BY <2>3 DEF Init
  <2> QED BY <2>2, <2>3, <2>4, <2>5 DEF Init, TypeOK
<1>2. \A h \in Hosts : ~Sending(h) BY DEF Init, Sending
<1>3. \A g \in Guests : guest[g].pc = "new" /\ chan[g] = << >> /\ ~Owing(g)
  BY DEF Init, Owing
<1>4. \A g \in Guests : ~Active(g) /\ g \notin subs BY <1>3 DEF Init, Active
<1> QED BY <1>1, <1>2, <1>3, <1>4 DEF HubInv, SendersSendState, OneSender

\* A step of the host: a write under the mutex, a send, or a panic.
LEMMA HostKeepsHubInv ==
  ASSUME HubInv, NEW h \in Hosts, WriteState(h) \/ HostStep(h)
  PROVE  HubInv'
<1> USE PartyAssumption DEF HubInv, Sending
<1>1. CASE WriteState(h)
  <2>1. TypeOK' BY <1>1 DEF WriteState, TypeOK
  <2>2. (\A k \in Hosts : Sending(k) => host[k].value > 0)'
    BY <1>1 DEF WriteState, TypeOK
  <2>3. (\A g \in Guests : g \in subs <=> Active(g))' BY <1>1 DEF WriteState, Active
  <2>4. (\A g \in Guests : guest[g].pc = "new" => chan[g] = << >> /\ ~Owing(g))'
    BY <1>1 DEF WriteState, TypeOK, Active, Owing
  <2>5. (~overlapped => SendersSendState /\ OneSender)'
    BY <1>1 DEF WriteState, TypeOK, SendersSendState, OneSender
  <2>6. (~overlapped => \A g \in Guests : Active(g) /\ ~missed[g] /\ ~Owing(g) => Fresh(g))'
    BY <1>1 DEF WriteState, TypeOK, Active, Owing
  <2> QED BY <2>1, <2>2, <2>3, <2>4, <2>5, <2>6
<1>2. ASSUME NEW g \in Guests, Send(h, g) PROVE HubInv'
  <2>1. TypeOK'
    <3>8. host[h].value \in 0..MaxUpdates BY DEF TypeOK
    <3>9. host[h].value > 0 BY <1>2 DEF Send
    <3>1. host[h].value \in 1..MaxUpdates BY <3>8, <3>9
    <3>2. Append(chan[g], host[h].value) \in Seq(1..MaxUpdates) BY <3>1 DEF TypeOK
    <3>3. chan' \in [Guests -> Seq(1..MaxUpdates)] BY <1>2, <3>2 DEF Send, TypeOK
    <3>4. missed' \in [Guests -> BOOLEAN] BY <1>2 DEF Send, TypeOK
    <3>5. host' \in [Hosts -> [value : 0..MaxUpdates, todo : SUBSET Guests]]
      BY <1>2 DEF Send, Tried, TypeOK
    <3> QED BY <1>2, <3>3, <3>4, <3>5 DEF Send, TypeOK
  <2>2. (\A k \in Hosts : Sending(k) => host[k].value > 0)'
    BY <1>2 DEF Send, Tried, TypeOK
  <2>3. (\A x \in Guests : x \in subs <=> Active(x))' BY <1>2 DEF Send, Active
  <2>4. (\A x \in Guests : guest[x].pc = "new" => chan[x] = << >> /\ ~Owing(x))'
    BY <1>2 DEF Send, Tried, TypeOK, Owing
  <2>5. (~overlapped => SendersSendState /\ OneSender)'
    <3>1. overlapped' = overlapped /\ state' = state BY <1>2 DEF Send
    <3>2. \A k \in Hosts : Sending(k)' => Sending(k) /\ host'[k].value = host[k].value
      BY <1>2 DEF Send, Tried, TypeOK
    <3> QED BY <3>1, <3>2 DEF SendersSendState, OneSender
  <2>6. ASSUME ~overlapped', NEW x \in Guests, (Active(x) /\ ~missed[x] /\ ~Owing(x))'
        PROVE  Fresh(x)'
    <3>1. host[h].value = state BY <1>2, <2>6 DEF Send, SendersSendState
    <3>2. CASE x = g
      <4>1. chan'[g] = Append(chan[g], state)
        BY <1>2, <2>6, <3>1, <3>2 DEF Send, TypeOK
      <4>2. chan[g] \in Seq(1..MaxUpdates) BY DEF TypeOK
      <4>3. chan'[g] # << >> /\ chan'[g][Len(chan'[g])] = state
        BY <4>1, <4>2, SMTT(20)
      <4> QED BY <1>2, <3>2, <4>3 DEF Send, Fresh
    <3>3. CASE x # g
      <4>1. chan'[x] = chan[x] /\ missed'[x] = missed[x] BY <1>2, <3>3 DEF Send, TypeOK
      <4>2. ~Owing(x) BY <1>2, <2>6, <3>3 DEF Send, Tried, TypeOK, Owing
      <4>3. Fresh(x) BY <1>2, <2>6, <4>1, <4>2 DEF Send, Active
      <4> QED BY <1>2, <4>1, <4>3 DEF Send, Fresh
    <3> QED BY <3>2, <3>3
  <2> QED BY <2>1, <2>2, <2>3, <2>4, <2>5, <2>6
<1>3. ASSUME NEW g \in Guests, SendPanics(h, g) PROVE HubInv'
  <2>1. TypeOK' BY <1>3 DEF SendPanics, TypeOK
  <2>2. (\A k \in Hosts : Sending(k) => host[k].value > 0)'
    BY <1>3 DEF SendPanics, TypeOK
  <2>3. (\A x \in Guests : x \in subs <=> Active(x))' BY <1>3 DEF SendPanics, Active
  <2>4. (\A x \in Guests : guest[x].pc = "new" => chan[x] = << >> /\ ~Owing(x))'
    BY <1>3 DEF SendPanics, TypeOK, Owing
  <2>5. (~overlapped => SendersSendState /\ OneSender)'
    <3>1. overlapped' = overlapped /\ state' = state BY <1>3 DEF SendPanics
    <3>2. \A k \in Hosts : Sending(k)' => Sending(k) /\ host'[k] = host[k]
      BY <1>3 DEF SendPanics, TypeOK
    <3> QED BY <3>1, <3>2 DEF SendersSendState, OneSender
  <2>6. ASSUME ~overlapped', NEW x \in Guests, (Active(x) /\ ~missed[x] /\ ~Owing(x))'
        PROVE  Fresh(x)'
    <3>1. ~missed[x] /\ x \notin host[h].todo BY <1>3, <2>6 DEF SendPanics, TypeOK
    <3>2. ~Owing(x) BY <1>3, <2>6, <3>1 DEF SendPanics, TypeOK, Owing
    <3> QED BY <1>3, <2>6, <3>1, <3>2 DEF SendPanics, Active, Fresh
  <2> QED BY <2>1, <2>2, <2>3, <2>4, <2>5, <2>6
<1> QED BY <1>1, <1>2, <1>3 DEF HostStep

\* A step of a guest: subscription, initial state, an event, or its end.
LEMMA GuestKeepsHubInv ==
  ASSUME HubInv, NEW g \in Guests, Subscribe(g) \/ GuestStep(g) \/ Unsub(g)
  PROVE  HubInv'
<1> USE PartyAssumption DEF HubInv
<1>1. UNCHANGED <<state, host, missed, overlapped>>
  BY DEF Subscribe, GuestStep, WriteInitial, Receive, Unsub
<1>2. TypeOK'
  <2>1. CASE Subscribe(g) BY <2>1 DEF Subscribe, TypeOK
  <2>2. CASE WriteInitial(g) BY <2>2 DEF WriteInitial, TypeOK
  <2>3. CASE Receive(g)
    <3>1. Head(chan[g]) \in 1..MaxUpdates /\ Tail(chan[g]) \in Seq(1..MaxUpdates)
      BY <2>3 DEF Receive, TypeOK
    <3>2. chan' \in [Guests -> Seq(1..MaxUpdates)] BY <2>3, <3>1 DEF Receive, TypeOK
    <3>3. Head(chan[g]) \in 0..MaxUpdates BY <3>1
    <3> QED BY <2>3, <3>2, <3>3, ZenonT(40) DEF Receive, TypeOK
  <2>4. CASE Unsub(g)
    <3>1. << >> \in Seq(1..MaxUpdates) OBVIOUS
    <3>2. chan' \in [Guests -> Seq(1..MaxUpdates)] BY <2>4, <3>1 DEF Unsub, TypeOK
    <3> QED BY <2>4, <3>2, ZenonT(40) DEF Unsub, TypeOK
  <2> QED BY <2>1, <2>2, <2>3, <2>4 DEF GuestStep
<1>3. (\A h \in Hosts : Sending(h) => host[h].value > 0)' BY <1>1 DEF Sending
<1>4. (\A x \in Guests : x \in subs <=> Active(x))'
  <2>1. CASE Subscribe(g) BY <2>1 DEF Subscribe, TypeOK, Active
  <2>2. CASE WriteInitial(g) BY <2>2 DEF WriteInitial, TypeOK, Active
  <2>3. CASE Receive(g) BY <2>3 DEF Receive, TypeOK, Active
  <2>4. CASE Unsub(g) BY <2>4 DEF Unsub, TypeOK, Active
  <2> QED BY <2>1, <2>2, <2>3, <2>4 DEF GuestStep
<1>5. (\A x \in Guests : guest[x].pc = "new" => chan[x] = << >> /\ ~Owing(x))'
  <2>1. \A x \in Guests : guest'[x].pc = "new" => guest[x].pc = "new" /\ chan'[x] = chan[x]
    <3>1. CASE Subscribe(g) BY <3>1 DEF Subscribe, TypeOK
    <3>2. CASE WriteInitial(g) BY <3>2 DEF WriteInitial, TypeOK
    <3>3. CASE Receive(g) BY <3>3 DEF Receive, TypeOK
    <3>4. CASE Unsub(g) BY <3>4 DEF Unsub, TypeOK
    <3> QED BY <3>1, <3>2, <3>3, <3>4 DEF GuestStep
  <2> QED BY <1>1, <2>1 DEF Owing
<1>6. (~overlapped => SendersSendState /\ OneSender)'
  BY <1>1 DEF SendersSendState, OneSender, Sending
<1>7. ASSUME ~overlapped', NEW x \in Guests, (Active(x) /\ ~missed[x] /\ ~Owing(x))'
      PROVE  Fresh(x)'
  <2>1. ~overlapped /\ ~missed[x] /\ ~Owing(x) BY <1>1, <1>7 DEF Owing
  <2>2. CASE x # g
    <3>1. guest'[x] = guest[x] /\ chan'[x] = chan[x]
      BY <2>2 DEF Subscribe, GuestStep, WriteInitial, Receive, Unsub, TypeOK
    <3> QED BY <1>1, <1>7, <2>1, <3>1 DEF Active, Fresh
  <2>3. CASE x = g /\ Subscribe(g)
    BY <2>3 DEF Subscribe, TypeOK, Fresh
  <2>4. CASE x = g /\ WriteInitial(g)
    BY <1>1, <2>1, <2>4 DEF WriteInitial, TypeOK, Active, Fresh
  <2>5. CASE x = g /\ Receive(g)
    <3>1. Fresh(g) BY <2>1, <2>5 DEF Receive, Active
    <3>2. chan[g] \in Seq(1..MaxUpdates) /\ chan[g] # << >> BY <2>5 DEF Receive, TypeOK
    <3>3. chan'[g] = Tail(chan[g]) /\ guest'[g].last = Head(chan[g])
      BY <2>5 DEF Receive, TypeOK
    <3>4. chan[g][Len(chan[g])] = state BY <3>1, <3>2 DEF Fresh
    <3>5. CASE Tail(chan[g]) = << >>
      <4>1. Len(Tail(chan[g])) = 0 BY <3>5, EmptySeq
      <4>2. Len(Tail(chan[g])) = Len(chan[g]) - 1 BY <3>2
      <4>3. Len(chan[g]) = 1 BY <3>2, <4>1, <4>2
      <4>4. Head(chan[g]) = chan[g][Len(chan[g])] BY <3>2, <4>3
      <4>5. chan'[g] = << >> /\ guest'[g].last = state BY <3>3, <3>4, <3>5, <4>4
      <4> QED BY <1>1, <2>5, <4>5 DEF Fresh
    <3>6. CASE Tail(chan[g]) # << >>
      <4>1. Tail(chan[g])[Len(Tail(chan[g]))] = chan[g][Len(chan[g])]
        BY <3>2, <3>6
      <4> QED BY <1>1, <2>5, <3>3, <3>4, <3>6, <4>1 DEF Fresh
    <3> QED BY <3>5, <3>6
  <2>6. CASE x = g /\ Unsub(g)
    BY <1>7, <2>6 DEF Unsub, TypeOK, Active
  <2> QED BY <2>2, <2>3, <2>4, <2>5, <2>6 DEF GuestStep
<1> QED BY <1>2, <1>3, <1>4, <1>5, <1>6, <1>7

\* HubInv is an invariant of the room.
THEOREM HubInvariant == Spec => []HubInv
<1>1. HubInv /\ [Next]_partyVars => HubInv'
  <2> SUFFICES ASSUME HubInv, [Next]_partyVars PROVE HubInv' OBVIOUS
  <2>1. CASE Next BY <2>1, HostKeepsHubInv, GuestKeepsHubInv DEF Next
  <2>2. CASE UNCHANGED partyVars
    BY <2>2 DEF partyVars, HubInv, TypeOK, Sending, Active, Owing, Fresh,
      SendersSendState, OneSender
  <2> QED BY <2>1, <2>2
<1> QED BY <1>1, HubInit, PTL DEF Spec

\* While no update is on its way, a guest that has read its channel has what
\* the room has (UpdateHost, Subscribe and events of the hub), if its last
\* send found room and no two updates overlapped.
THEOREM RoomReachesGuests == Spec => []GuestHasLatest
<1>1. HubInv => GuestHasLatest
  BY DEF HubInv, GuestHasLatest, Quiet, CaughtUp, Sending, Active, Owing, Fresh
<1> QED BY <1>1, HubInvariant, PTL

-----------------------------------------------------------------------------
\* The channel of a guest holds states in the order in which they were written,
\* none older than what it received last.
Ordered(g) ==
  /\ guest[g].last <= state
  /\ \A i \in 1..Len(chan[g]) : chan[g][i] <= state
  /\ \A i, j \in 1..Len(chan[g]) : i <= j => chan[g][i] <= chan[g][j]
  /\ guest[g].last # guest[g].first =>
       \A i \in 1..Len(chan[g]) : guest[g].last <= chan[g][i]

OrderInv == ~overlapped => \A g \in Guests : Ordered(g)

\* A write makes the room's state newer; a send puts that state at the end.
LEMMA HostKeepsOrder ==
  ASSUME HubInv, OrderInv, NEW h \in Hosts, WriteState(h) \/ HostStep(h), ~overlapped',
         NEW x \in Guests
  PROVE  Ordered(x)'
<1> DEFINE c == chan[x]
<1>1. state \in Nat /\ c \in Seq(1..MaxUpdates) /\ guest[x].last \in Nat
      /\ \A i \in 1..Len(c) : c[i] \in Nat
  BY PartyAssumption DEF HubInv, TypeOK
<1>2. ~overlapped /\ Ordered(x)
  <2>1. WriteState(h) => ~overlapped
    BY DEF WriteState
  <2>2. HostStep(h) => ~overlapped
    BY DEF HostStep, Send, SendPanics
  <2>3. QED
    BY <2>1, <2>2 DEF OrderInv
<1>3. CASE WriteState(h)
  <2>1. state' = state + 1 /\ chan' = chan /\ guest' = guest
    BY <1>3 DEF WriteState
  <2>2. QED
    BY <1>1, <1>2, <2>1 DEF Ordered
<1>4. CASE HostStep(h)
  <2>1. state' = state /\ guest' = guest
    BY <1>4 DEF HostStep, Send, SendPanics
  <2>2. CASE chan'[x] = c
    BY <1>2, <2>1, <2>2 DEF Ordered
  <2>3. CASE chan'[x] = Append(c, state)
    <3>1. /\ Len(chan'[x]) = Len(c) + 1 /\ Len(c) \in Nat
          /\ \A i \in 1..Len(c) : chan'[x][i] = c[i]
          /\ chan'[x][Len(c) + 1] = state
      BY <1>1, <2>3
    <3>2. \A i \in 1..Len(chan'[x]) : chan'[x][i] <= state
      BY <1>1, <1>2, <3>1 DEF Ordered
    <3>3. \A i, j \in 1..Len(chan'[x]) : i <= j => chan'[x][i] <= chan'[x][j]
      BY <1>1, <1>2, <3>1 DEF Ordered
    <3>4. guest[x].last # guest[x].first =>
            \A i \in 1..Len(chan'[x]) : guest[x].last <= chan'[x][i]
      BY <1>1, <1>2, <3>1 DEF Ordered
    <3>5. QED
      BY <1>2, <2>1, <3>2, <3>3, <3>4 DEF Ordered
  <2>4. chan'[x] = c \/ chan'[x] = Append(c, state)
    <3>1. ASSUME NEW g \in Guests, Send(h, g)
          PROVE  chan'[x] = c \/ chan'[x] = Append(c, state)
      <4>1. host[h].value = state
        BY <1>2, <3>1 DEF Send, HubInv, SendersSendState, Sending
      <4>2. QED
        BY <3>1, <4>1 DEF Send, HubInv, TypeOK
    <3>2. ASSUME NEW g \in Guests, SendPanics(h, g)
          PROVE  chan'[x] = c
      BY <3>2 DEF SendPanics
    <3>3. QED
      BY <1>4, <3>1, <3>2 DEF HostStep
  <2>5. QED
    BY <2>2, <2>3, <2>4
<1>5. QED
  BY <1>3, <1>4

\* A guest begins with the room's state and goes on with the head of its channel.
LEMMA GuestKeepsOrder ==
  ASSUME HubInv, OrderInv, NEW g \in Guests, Subscribe(g) \/ GuestStep(g) \/ Unsub(g),
         ~overlapped', NEW x \in Guests
  PROVE  /\ Ordered(x)'
         /\ guest'[x].last < guest[x].last => guest[x].last = guest[x].first
<1> DEFINE c == chan[x]
<1>1. state \in Nat /\ c \in Seq(1..MaxUpdates) /\ guest[x].last \in Nat
      /\ \A i \in 1..Len(c) : c[i] \in Nat
  BY PartyAssumption DEF HubInv, TypeOK
<1>2. Ordered(x) /\ state' = state
  BY DEF Subscribe, GuestStep, WriteInitial, Receive, Unsub, OrderInv
<1>3. CASE /\ chan'[x] = c
           /\ guest'[x].last = guest[x].last /\ guest'[x].first = guest[x].first
  BY <1>1, <1>2, <1>3 DEF Ordered
<1>4. CASE x = g /\ WriteInitial(g)
  <2>1. guest'[x].last = state /\ guest'[x].first = state /\ chan' = chan
    BY <1>4 DEF WriteInitial, HubInv, TypeOK
  <2>2. QED
    BY <1>1, <1>2, <2>1 DEF Ordered
<1>5. CASE x = g /\ Receive(g)
  <2>1. c # << >> /\ guest'[x].last = Head(c) /\ guest'[x].first = guest[x].first
        /\ chan'[x] = Tail(c)
    BY <1>5 DEF Receive, HubInv, TypeOK
  <2>2. /\ Len(c) \in Nat /\ Len(c) > 0 /\ Len(Tail(c)) = Len(c) - 1
        /\ \A i \in 1..Len(c) - 1 : Tail(c)[i] = c[i + 1]
        /\ Head(c) = c[1]
    BY <1>1, <2>1
  <2>3. Head(c) <= state
    BY <1>1, <1>2, <2>2 DEF Ordered
  <2>4. \A i \in 1..Len(Tail(c)) : Tail(c)[i] <= state /\ Head(c) <= Tail(c)[i]
    BY <1>1, <1>2, <2>2 DEF Ordered
  <2>5. \A i, j \in 1..Len(Tail(c)) : i <= j => Tail(c)[i] <= Tail(c)[j]
    BY <1>1, <1>2, <2>2 DEF Ordered
  <2>6. Ordered(x)'
    BY <1>2, <2>1, <2>3, <2>4, <2>5 DEF Ordered
  <2>7. guest[x].last # guest[x].first => guest[x].last <= Head(c)
    BY <1>1, <1>2, <2>2 DEF Ordered
  <2>8. QED
    BY <1>1, <2>1, <2>2, <2>6, <2>7
<1>6. CASE x = g /\ Unsub(g)
  <2>1. chan'[x] = << >> /\ guest'[x].last = guest[x].last
    BY <1>6 DEF Unsub, HubInv, TypeOK
  <2>2. QED
    BY <1>1, <1>2, <2>1 DEF Ordered
<1>7. CASE x # g \/ Subscribe(g)
  BY <1>3, <1>7 DEF Subscribe, GuestStep, WriteInitial, Receive, Unsub, HubInv, TypeOK
<1>8. QED
  BY <1>4, <1>5, <1>6, <1>7 DEF GuestStep

\* A guest sees the room go back at most once, from the initial state it read to
\* the updates that its channel held by then, unless two updates overlapped.
THEOREM RollbackOnce == Spec => RollbackOnlyAtStart
<1>1. Init => OrderInv
  <2> SUFFICES ASSUME Init, NEW g \in Guests PROVE Ordered(g)
    BY DEF OrderInv
  <2>1. Len(chan[g]) = 0 /\ guest[g].last = 0 /\ guest[g].first = 0 /\ state = 0
    BY DEF Init
  <2>2. QED
    BY <2>1 DEF Ordered
<1>2. ASSUME HubInv, OrderInv, [Next]_partyVars
      PROVE  /\ OrderInv'
             /\ overlapped' \/ \A g \in Guests :
                  guest'[g].last < guest[g].last => guest[g].last = guest[g].first
  <2> SUFFICES ASSUME ~overlapped', NEW x \in Guests
               PROVE  /\ Ordered(x)'
                      /\ guest'[x].last < guest[x].last => guest[x].last = guest[x].first
    BY DEF OrderInv
  <2>0. guest[x].last \in Nat
    <3>1. guest[x].last \in 0..MaxUpdates
      BY <1>2 DEF HubInv, TypeOK
    <3>2. QED
      BY <3>1, PartyAssumption
  <2>1. ASSUME NEW h \in Hosts, WriteState(h) \/ HostStep(h)
        PROVE  /\ Ordered(x)'
               /\ guest'[x].last < guest[x].last => guest[x].last = guest[x].first
    <3>1. guest' = guest
      BY <2>1 DEF WriteState, HostStep, Send, SendPanics
    <3>2. QED
      BY <1>2, <2>0, <2>1, <3>1, HostKeepsOrder
  <2>2. CASE UNCHANGED partyVars
    BY <1>2, <2>0, <2>2 DEF partyVars, OrderInv, Ordered
  <2>3. QED
    BY <1>2, <2>1, <2>2, GuestKeepsOrder DEF Next
<1>3. HubInv /\ OrderInv /\ [Next]_partyVars =>
        [overlapped' \/ \A g \in Guests :
           guest'[g].last < guest[g].last => guest[g].last = guest[g].first]_partyVars
  BY <1>2
<1>4. HubInv /\ OrderInv /\ [Next]_partyVars => OrderInv'
  BY <1>2
<1>5. QED
  BY <1>1, <1>3, <1>4, HubInvariant, PTL DEF Spec, RollbackOnlyAtStart

-----------------------------------------------------------------------------
(* The pages                                                               *)

(* A step of the pages is a step of the hub, or leaves it alone.           *)
LEMMA PageStepIsHubStep ==
  ASSUME [PartyNext]_allVars
  PROVE  [Next]_partyVars
<1>1. CASE HostActs \/ HostHolds \/ Tick \/ HostTurnsPage
  BY <1>1 DEF HostActs, HostHolds, Tick, HostTurnsPage
<1>2. ASSUME NEW h \in Hosts, Push(h) \/ PutFails(h) \/ (HostStep(h) /\ UNCHANGED pageVars)
      PROVE  [Next]_partyVars
  BY <1>2 DEF Push, TimerFires, PutArrives, PutFails, Next
<1>3. ASSUME NEW c \in Clients, ClientStep(c)
      PROVE  [Next]_partyVars
  BY <1>3 DEF ClientStep, FetchReads, FetchArrives, FetchFails, Applied, Connect, StateEvent,
     StreamEnds, Next, GuestStep
<1>4. CASE UNCHANGED allVars
  BY <1>4 DEF allVars
<1>5. QED
  BY <1>1, <1>2, <1>3, <1>4 DEF PartyNext

(* The hub that the pages use is the hub: whatever the host's timer, its   *)
(* calls and the guests' fetches do, the room goes through its own steps.  *)
THEOREM PartyImplementsHub == PartySpec => Spec
<1>1. PartyInit => Init
  BY DEF PartyInit
<1>2. QED
  BY <1>1, PageStepIsHubStep, PTL DEF PartySpec, Spec

(* With the pages around it, too, the room reaches the guests.             *)
THEOREM PartyReachesGuests == PartySpec => []GuestHasLatest
  BY PartyImplementsHub, RoomReachesGuests, PTL

(* And a stream sees the room go back at most once, at its start.          *)
THEOREM PartyRollbackOnce == PartySpec => RollbackOnlyAtStart
  BY PartyImplementsHub, RollbackOnce, PTL

-----------------------------------------------------------------------------
(* What a guest's page shows *)

PageType == [stream : Guests \cup {NoStream}, fetched : 0..MaxUpdates,
             fetch : {"wanted", "sent", "done"}, shown : 0..MaxUpdates,
             applying : 0..MaxUpdates, busy : BOOLEAN, stale : BOOLEAN]

\* A page follows the guest g that is its stream.
Follows(cl, g) ==
  (IF cl.busy THEN cl.applying ELSE cl.shown) = guest[g].last

PageInv ==
  /\ client \in [Clients -> PageType]
  /\ \A c \in Clients : client[c].stream # NoStream => guest[client[c].stream].pc # "new"
  /\ \A c, d \in Clients :
       client[c].stream = client[d].stream /\ client[c].stream # NoStream => c = d
  /\ \A c \in Clients :
       LET g == client[c].stream IN
       ~client[c].stale /\ g # NoStream /\ guest[g].pc = "streaming" => Follows(client[c], g)

\* The pages' invariant holds when the pages are opened.
LEMMA PageInit == PartyInit => PageInv
<1> SUFFICES ASSUME PartyInit PROVE PageInv
  OBVIOUS
<1>1. [stream |-> NoStream, fetched |-> 0, fetch |-> "wanted", shown |-> 0,
       applying |-> 0, busy |-> FALSE, stale |-> FALSE] \in PageType
  BY PartyAssumption DEF PageType
<1>2. client \in [Clients -> PageType] /\ \A c \in Clients : client[c].stream = NoStream
  BY <1>1 DEF PartyInit
<1>3. QED
  BY <1>2 DEF PageInv

\* taken, for a state that its stream g brought it.
LEMMA TakenFollows ==
  ASSUME NEW cl \in PageType, NEW s \in 0..MaxUpdates
  PROVE  /\ Taken(cl, s) \in PageType /\ Taken(cl, s).stream = cl.stream
         /\ Taken(cl, s).busy
         /\ Taken(cl, s).stale \/ Taken(cl, s).applying = s
  BY DEF Taken, PageType

(* A step of the hub that no page takes part in: one of the host's.        *)
LEMMA HostKeepsPageInv ==
  ASSUME PageInv, UNCHANGED <<guest, client>>
  PROVE  PageInv'
  BY DEF PageInv, Follows

\* The answer of a guest's first fetch and the end of an applied state keep PageInv.
LEMMA FetchKeepsPageInv ==
  ASSUME HubInv, PageInv, NEW c \in Clients,
         FetchReads(c) \/ FetchArrives(c) \/ FetchFails(c) \/ Applied(c)
  PROVE  PageInv'
<1> DEFINE cl == client[c]
<1>0. 0 \in 0..MaxUpdates
  BY PartyAssumption
<1>1. guest' = guest /\ cl \in PageType /\ state \in 0..MaxUpdates
  BY DEF FetchReads, FetchArrives, FetchFails, Applied, partyVars, PageInv, HubInv, TypeOK
<1>2. PICK next \in PageType :
        /\ client' = [client EXCEPT ![c] = next]
        /\ next.stream = cl.stream
        /\ ~next.stale /\ cl.stream # NoStream /\ guest[cl.stream].pc = "streaming"
             => Follows(next, cl.stream)
  <2>1. CASE FetchReads(c)
    <3> DEFINE next == [cl EXCEPT !.fetch = "sent", !.fetched = state]
    <3>1. client' = [client EXCEPT ![c] = next]
      BY <2>1 DEF FetchReads, PageInv
    <3>2. next \in PageType /\ next.stream = cl.stream /\ next.stale = cl.stale
          /\ next.busy = cl.busy /\ next.applying = cl.applying /\ next.shown = cl.shown
      BY <1>1 DEF PageType
    <3>3. QED
      BY <3>1, <3>2 DEF PageInv, Follows
  <2>2. CASE FetchFails(c)
    <3> DEFINE next == [cl EXCEPT !.fetch = "done", !.fetched = 0]
    <3>1. client' = [client EXCEPT ![c] = next]
      BY <2>2 DEF FetchFails, PageInv
    <3>2. next \in PageType /\ next.stream = cl.stream /\ next.stale = cl.stale
          /\ next.busy = cl.busy /\ next.applying = cl.applying /\ next.shown = cl.shown
      BY <1>1, <1>0 DEF PageType
    <3>3. QED
      BY <3>1, <3>2 DEF PageInv, Follows
  <2>3. CASE Applied(c)
    <3> DEFINE next == [cl EXCEPT !.busy = FALSE, !.shown = cl.applying, !.applying = 0]
    <3>1. client' = [client EXCEPT ![c] = next] /\ cl.busy
      BY <2>3 DEF Applied, PageInv
    <3>2. next \in PageType /\ next.stream = cl.stream /\ next.stale = cl.stale
          /\ ~next.busy /\ next.shown = cl.applying
      BY <1>1, <1>0 DEF PageType
    <3>3. QED
      BY <3>1, <3>2 DEF PageInv, Follows
  <2>4. CASE FetchArrives(c)
    <3> DEFINE late == cl.stream # NoStream /\ guest[cl.stream].last # cl.fetched
               mid == IF cl.busy THEN cl ELSE [Taken(cl, cl.fetched) EXCEPT !.stale = late]
               next == [mid EXCEPT !.fetch = "done", !.fetched = 0]
    <3>1. client' = [client EXCEPT ![c] = next]
      BY <2>4 DEF FetchArrives
    <3>2. CASE cl.busy
      <4>1. mid = cl
        BY <3>2
      <4>2. next \in PageType /\ next.stream = cl.stream /\ next.stale = cl.stale
            /\ next.busy = cl.busy /\ next.applying = cl.applying /\ next.shown = cl.shown
        BY <1>1, <4>1, <1>0 DEF PageType
      <4>3. QED
        BY <3>1, <4>2 DEF PageInv, Follows
    <3>3. CASE ~cl.busy
      <4> DEFINE took == Taken(cl, cl.fetched)
      <4>1. took = [cl EXCEPT !.busy = TRUE, !.applying = cl.fetched, !.stale = FALSE]
        BY <3>3 DEF Taken
      <4>2. took \in PageType /\ took.stream = cl.stream /\ took.busy
            /\ took.applying = cl.fetched
        BY <1>1, <4>1 DEF PageType
      <4>3. mid = [took EXCEPT !.stale = late] /\ late \in BOOLEAN
        BY <3>3
      <4> HIDE DEF took, late
      <4>4. mid \in PageType /\ mid.stream = cl.stream /\ mid.busy
            /\ mid.applying = cl.fetched /\ mid.stale = late
        BY <4>2, <4>3 DEF PageType
      <4> HIDE DEF mid
      <4>5. next \in PageType /\ next.stream = cl.stream /\ next.busy
            /\ next.applying = cl.fetched /\ next.stale = late
        BY <4>4, <1>0 DEF PageType
      <4> HIDE DEF next
      <4>6. QED
        BY <3>1, <4>5 DEF Follows, late
    <3>4. QED
      BY <3>2, <3>3
  <2>5. QED
    BY <2>1, <2>2, <2>3, <2>4
<1>3. \A d \in Clients : client'[d] = IF d = c THEN next ELSE client[d]
  BY <1>2 DEF PageInv
<1>4. client' \in [Clients -> PageType]
  BY <1>2 DEF PageInv
<1>5. QED
  BY <1>1, <1>2, <1>3, <1>4 DEF PageInv, Follows

(* Connect, an event of the stream, or its end: steps of a guest and of the *)
(* page whose stream it is.                                                *)
LEMMA StreamKeepsPageInv ==
  ASSUME HubInv, HubInv', PageInv, NEW c \in Clients, NEW g \in Guests,
         Connect(c, g) \/ StateEvent(c, g) \/ StreamEnds(c, g)
  PROVE  PageInv'
<1> DEFINE cl == client[c]
<1>1. cl \in PageType /\ \A x \in Guests : guest'[x].last \in 0..MaxUpdates
  BY DEF PageInv, HubInv, TypeOK
<1>2. \A x \in Guests \ {g} : guest'[x] = guest[x]
  BY DEF Connect, StateEvent, StreamEnds, Subscribe, WriteInitial, Receive, Unsub, HubInv, TypeOK
<1>3. CASE Connect(c, g)
  <2> DEFINE next == [cl EXCEPT !.stream = g]
  <2>1. guest[g].pc = "new" /\ guest'[g].pc = "subscribed" /\ cl.stream = NoStream
    BY <1>3 DEF Connect, Subscribe, HubInv, TypeOK
  <2>2. next \in PageType /\ next.stream = g
    BY <1>1 DEF PageType
  <2>3. \A d \in Clients : client'[d] = IF d = c THEN next ELSE client[d]
    BY <1>3 DEF Connect, PageInv
  <2>4. \A d \in Clients : client[d].stream # g
    BY <2>1, ClientAssumption DEF PageInv
  <2>5. client' \in [Clients -> PageType]
    BY <1>3, <2>2 DEF Connect, PageInv
  <2> HIDE DEF next
  <2>6. \A d \in Clients : d # c /\ client[d].stream # NoStream =>
          client[d].stream \in Guests \ {g}
    BY <2>4 DEF PageInv, PageType
  <2>7. QED
    BY <1>2, <2>1, <2>2, <2>3, <2>4, <2>5, <2>6 DEF PageInv, Follows
<1>4. CASE StateEvent(c, g)
  <2> DEFINE next == Taken(cl, guest'[g].last)
  <2>1. cl.stream = g /\ guest'[g].pc = "streaming"
    BY <1>4 DEF StateEvent, WriteInitial, Receive, HubInv, TypeOK
  <2>2. next \in PageType /\ next.stream = g /\ next.busy
        /\ (next.stale \/ next.applying = guest'[g].last)
    BY <1>1, <2>1, TakenFollows
  <2>3. client' = [client EXCEPT ![c] = next]
    BY <1>4 DEF StateEvent
  <2> HIDE DEF next
  <2>4. \A d \in Clients : client'[d] = IF d = c THEN next ELSE client[d]
    BY <2>3 DEF PageInv
  <2>5. client' \in [Clients -> PageType]
    BY <2>2, <2>3 DEF PageInv
  <2>6. \A d \in Clients : d # c /\ client[d].stream # NoStream =>
          client[d].stream \in Guests \ {g}
    BY <2>1, ClientAssumption DEF PageInv, PageType
  <2>7. QED
    BY <1>2, <2>1, <2>2, <2>4, <2>5, <2>6 DEF PageInv, Follows
<1>5. CASE StreamEnds(c, g)
  <2> DEFINE next == [cl EXCEPT !.stream = NoStream]
  <2>1. cl.stream = g
    BY <1>5 DEF StreamEnds
  <2>2. next \in PageType /\ next.stream = NoStream
    BY <1>1 DEF PageType
  <2>3. client' = [client EXCEPT ![c] = next]
    BY <1>5 DEF StreamEnds, PageInv
  <2> HIDE DEF next
  <2>4. \A d \in Clients : client'[d] = IF d = c THEN next ELSE client[d]
    BY <2>3 DEF PageInv
  <2>5. client' \in [Clients -> PageType]
    BY <2>2, <2>3 DEF PageInv
  <2>6. \A d \in Clients : d # c /\ client[d].stream # NoStream =>
          client[d].stream \in Guests \ {g}
    BY <2>1, ClientAssumption DEF PageInv, PageType
  <2>7. QED
    BY <1>2, <2>2, <2>4, <2>5, <2>6 DEF PageInv, Follows
<1>6. QED
  BY <1>3, <1>4, <1>5

\* Every step of the party keeps PageInv.
LEMMA PageNext ==
  ASSUME HubInv, HubInv', PageInv, [PartyNext]_allVars
  PROVE  PageInv'
<1>1. CASE HostActs \/ HostHolds \/ Tick \/ HostTurnsPage \/ UNCHANGED allVars
  BY <1>1, HostKeepsPageInv DEF HostActs, HostHolds, Tick, HostTurnsPage, allVars, partyVars,
     pageVars
<1>2. ASSUME NEW h \in Hosts, Push(h) \/ PutFails(h) \/ (HostStep(h) /\ UNCHANGED pageVars)
      PROVE  PageInv'
  <2>1. UNCHANGED <<guest, client>>
    BY <1>2 DEF Push, TimerFires, PutArrives, PutFails, HostStep, WriteState, Send, SendPanics,
       partyVars, pageVars
  <2>2. QED
    BY <2>1, HostKeepsPageInv
<1>3. ASSUME NEW c \in Clients, ClientStep(c)
      PROVE  PageInv'
  BY <1>3, FetchKeepsPageInv, StreamKeepsPageInv DEF ClientStep
<1>4. QED
  BY <1>1, <1>2, <1>3 DEF PartyNext

LEMMA PageInvariant == PartySpec => [](HubInv /\ PageInv)
<1>1. PartySpec => []HubInv
  BY PartyImplementsHub, HubInvariant, PTL
<1>2. HubInv /\ HubInv' /\ PageInv /\ [PartyNext]_allVars => PageInv'
  BY PageNext
<1>3. QED
  BY <1>1, <1>2, PageInit, PTL DEF PartySpec

(* A guest's page at rest shows the last event of its stream, for any      *)
(* number of pages and reconnections (useListeningParty.ts), unless an     *)
(* event was passed over or the first fetch was answered late.             *)
THEOREM PagesFollow == PartySpec => []GuestAtRestFollows
<1>1. PageInv => GuestAtRestFollows
  BY DEF PageInv, GuestAtRestFollows, Follows
<1>2. QED
  BY <1>1, PageInvariant, PTL

-----------------------------------------------------------------------------
(* Types *)

HostUI ==
  [open : BOOLEAN, player : {"paused", "ticking", "held"}, armed : BOOLEAN, acts : 0..MaxActs]
HostPageType ==
  /\ ui \in HostUI
  /\ puts \in [Hosts -> 0..Idle]
  /\ content \in Seq(0..MaxActs) /\ Len(content) = state
  /\ troubled \in BOOLEAN

\* Whatever changes the room's state appends what the host's page has sent.
LEMMA HostPageStep ==
  ASSUME HubInv, HostPageType, [PartyNext]_allVars
  PROVE  HostPageType'
<1> USE ClientAssumption DEF HostPageType, Idle
<1>1. CASE HostActs \/ HostHolds \/ Tick \/ HostTurnsPage
  <2>1. ui' \in HostUI
    <3>1. CASE HostActs
      <4>1. ui.acts + 1 \in 0..MaxActs
        BY <3>1 DEF HostActs, HostUI
      <4>2. QED
        BY <3>1, <4>1 DEF HostActs, HostUI
    <3>2. CASE HostHolds
      BY <3>2 DEF HostHolds, HostUI
    <3>3. CASE Tick \/ HostTurnsPage
      BY <3>3 DEF Tick, HostTurnsPage, HostUI
    <3>4. QED
      BY <1>1, <3>1, <3>2, <3>3
  <2>2. UNCHANGED <<puts, content, troubled, state>>
    BY <1>1 DEF HostActs, HostHolds, Tick, HostTurnsPage, partyVars
  <2>3. QED
    BY <2>1, <2>2
<1>2. ASSUME NEW h \in Hosts, TimerFires(h) \/ PutFails(h)
      PROVE  HostPageType'
  <2>1. ui' \in HostUI
    BY <1>2 DEF TimerFires, PutFails, HostUI
  <2>2. puts' \in [Hosts -> 0..Idle]
    BY <1>2 DEF TimerFires, PutFails, HostUI
  <2>3. troubled' \in BOOLEAN /\ UNCHANGED <<content, state>>
    BY <1>2 DEF TimerFires, PutFails, partyVars
  <2>4. QED
    BY <2>1, <2>2, <2>3
<1>3. ASSUME NEW h \in Hosts, PutArrives(h)
      PROVE  HostPageType'
  <2>1. puts[h] \in 0..MaxActs
    BY <1>3 DEF PutArrives
  <2>2. content' \in Seq(0..MaxActs) /\ Len(content') = Len(content) + 1
    BY <1>3, <2>1 DEF PutArrives
  <2>3. state' = state + 1
    BY <1>3 DEF PutArrives, WriteState
  <2>4. QED
    BY <1>3, <2>2, <2>3 DEF PutArrives
<1>4. ASSUME UNCHANGED <<ui, puts, content, troubled, state>>
      PROVE  HostPageType'
  BY <1>4
<1>5. ASSUME NEW h \in Hosts, HostStep(h) /\ UNCHANGED pageVars
      PROVE  UNCHANGED <<ui, puts, content, troubled, state>>
  BY <1>5 DEF HostStep, Send, SendPanics, pageVars
<1>6. ASSUME NEW c \in Clients, ClientStep(c)
      PROVE  UNCHANGED <<ui, puts, content, troubled, state>>
  BY <1>6 DEF ClientStep, FetchReads, FetchArrives, FetchFails, Applied, Connect, StateEvent,
     StreamEnds, Subscribe, WriteInitial, Receive, Unsub, HubOnly, partyVars
<1>7. CASE UNCHANGED allVars
  BY <1>4, <1>7 DEF allVars, partyVars, pageVars
<1>8. QED
  BY <1>1, <1>2, <1>3, <1>4, <1>5, <1>6, <1>7 DEF PartyNext, Push

(* The types of the room, the streams and the pages on both sides, for any *)
(* number of each; each state of the room has what it shows, an act of the *)
(* host that some PUT carried.                                             *)
THEOREM TypeCorrect == PartySpec => [](TypeOK /\ PageTypeOK)
<1>1. PartyInit => HostPageType
  <2> SUFFICES ASSUME PartyInit PROVE HostPageType
    OBVIOUS
  <2>1. ui \in HostUI
    BY ClientAssumption DEF PartyInit, HostUI
  <2>2. puts \in [Hosts -> 0..Idle]
    BY ClientAssumption DEF PartyInit, Idle
  <2>3. content = << >> /\ state = 0 /\ troubled \in BOOLEAN
    BY DEF PartyInit, Init
  <2>4. QED
    BY <2>1, <2>2, <2>3 DEF HostPageType
<1>2. HubInv /\ HostPageType /\ [PartyNext]_allVars => HostPageType'
  BY HostPageStep
<1>3. HubInv => TypeOK
  BY DEF HubInv
<1>4. PageInv /\ HostPageType => PageTypeOK
  BY DEF PageInv, PageType, HostPageType, HostUI, PageTypeOK
<1>5. QED
  BY <1>1, <1>2, <1>3, <1>4, PageInvariant, PTL DEF PartySpec

=============================================================================
