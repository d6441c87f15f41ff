-------------------------- MODULE WebSessionProofs --------------------------
(***************************************************************************)
(* Proofs about WebSession, for any number of tabs, calls, refreshes and   *)
(* tokens.  Three invariants carry them: the types, the numbering of the   *)
(* pairs, and what is known of the tokens while no two refreshes of one    *)
(* token have been under way.                                              *)
(***************************************************************************)
EXTENDS WebSession, TLAPS

USE DEF Pairs

-----------------------------------------------------------------------------
(* Which calls carry the token *)

\* A call of Bare is of its part and sends no token.
LEMMA BareCalls ==
  ASSUME NEW names, NEW part, NEW c \in Bare(names, part)
  PROVE  c.part = part /\ c.auth = FALSE
  BY DEF Bare

\* A call of Signed is of its part and sends the token.
LEMMA SignedCalls ==
  ASSUME NEW names, NEW part, NEW c \in Signed(names, part)
  PROVE  c.part = part /\ c.auth = TRUE
  BY DEF Signed

(* No call of the client goes without the token to a part of the API that  *)
(* the server guards.                                                      *)
LEMMA GuardedIsSigned == \A k \in Kinds : k.guarded => k.auth
<1>1. ASSUME NEW c \in Calls, c.part \in Guarded
      PROVE  c.auth
  <2>1. /\ \A names, part : \A b \in Bare(names, part) : b.part = part
        /\ \A names, part : \A b \in Signed(names, part) : b.auth = TRUE
    BY BareCalls, SignedCalls
  <2>2. CASE c \in AccountCalls
    <3>1. c.auth = TRUE \/ c.part \in {"auth", "users", "push key", "tracks"}
      BY <2>1, <2>2, Zenon DEF AccountCalls
    <3>2. QED
      BY <1>1, <3>1 DEF Guarded
  <2>3. CASE c \in CatalogCalls
    <3>1. c.auth = TRUE \/ c.part \in {"tracks", "auth", "search", "charts", "parties"}
      BY <2>1, <2>3, Zenon DEF CatalogCalls
    <3>2. QED
      BY <1>1, <3>1 DEF Guarded
  <2>4. CASE c \in OfflineCalls
    BY <2>1, <2>4, Zenon DEF OfflineCalls
  <2>5. CASE c \in OwnCalls
    <3>1. c.auth = TRUE \/ c.part = "users"
      BY <2>1, <2>5, Zenon DEF OwnCalls
    <3>2. QED
      BY <1>1, <3>1 DEF Guarded
  <2>6. CASE c \in PlaylistCalls
    <3>1. c.auth = TRUE \/ c.part \in {"playlists", "tracks"}
      BY <2>1, <2>6, Zenon DEF PlaylistCalls
    <3>2. QED
      BY <1>1, <3>1 DEF Guarded
  <2>7. CASE c \in UploadCalls
    <3>1. c.auth = TRUE \/ c.part = "stream"
      BY <2>1, <2>7, Zenon DEF UploadCalls
    <3>2. QED
      BY <1>1, <3>1 DEF Guarded
  <2>8. QED
    BY <2>2, <2>3, <2>4, <2>5, <2>6, <2>7, Zenon DEF Calls
<1>2. ASSUME NEW k \in Kinds, k.guarded
      PROVE  k.auth
  <2>1. PICK c \in Calls : k = [guarded |-> c.part \in Guarded, auth |-> c.auth]
    BY DEF Kinds
  <2>2. c.part \in Guarded
    BY <1>2, <2>1, Zenon
  <2>3. QED
    BY <1>1, <2>1, <2>2, Zenon
<1>3. QED
  BY <1>2

-----------------------------------------------------------------------------
(* Types *)

ReqType == [pc : {"idle", "sent", "waiting", "resent"}, for : {"call", "init"},
            guarded : BOOLEAN, token : 0..MaxTokens, on : Refreshes \cup {NoRefresh}]
RefreshType == [pc : {"free", "asked", "checked", "refused", "issued"},
                tab : Tabs \cup {NoTab}, token : 0..MaxTokens, new : 0..MaxTokens]
TabType == [signed : BOOLEAN, leaving : 0..MaxTokens]

\* The initial records have their types.
LEMMA RecordTypes ==
  /\ IdleReq \in ReqType /\ Free \in RefreshType /\ Guest \in TabType
  BY SessionAssumption DEF IdleReq, Free, Guest, ReqType, RefreshType, TabType

(* A pair that is issued leaves the numbers of pairs in their types.       *)
LEMMA IssueTypes ==
  ASSUME TypeOK, NEW n \in 0..MaxTokens, NEW rest \in SUBSET Pairs, Issue(n, rest)
  PROVE  /\ issued' \in 0..MaxTokens /\ login' \in [Pairs -> 0..MaxTokens]
         /\ alive' \subseteq Pairs /\ valid' \subseteq Pairs
         /\ issued + 1 \in Pairs /\ issued' = issued + 1
  BY SessionAssumption DEF TypeOK, Issue

\* A page load keeps the types of the tabs, the refreshes and the calls.
LEMMA LoadTypes ==
  ASSUME TypeOK, NEW t \in Tabs, NEW token \in 0..MaxTokens, LoadPage(t, token)
  PROVE  /\ tab' \in [Tabs -> TabType]
         /\ refresh' \in [Refreshes -> RefreshType]
         /\ req' \in [Tabs -> [Requests -> ReqType]]
         /\ \A u \in Tabs, q \in Requests :
              req'[u][q].pc = "waiting" => req'[u][q].on # NoRefresh
<1>1. tab' \in [Tabs -> TabType]
  BY RecordTypes DEF LoadPage, TypeOK, TabType
<1>2. refresh' \in [Refreshes -> RefreshType]
  <2>1. refresh \in [Refreshes -> RefreshType]
    BY DEF TypeOK, RefreshType
  <2>2. ASSUME NEW x \in RefreshType
        PROVE  [x EXCEPT !.tab = NoTab] \in RefreshType
    BY DEF RefreshType
  <2>3. ASSUME NEW r \in Refreshes
        PROVE  IF refresh[r].tab = t THEN [refresh[r] EXCEPT !.tab = NoTab] \in RefreshType
               ELSE refresh[r] \in RefreshType
    BY <2>1, <2>2
  <2>4. QED
    BY <2>3 DEF LoadPage
<1>3. PICK q \in Requests :
        req' = [req EXCEPT ![t] = [k \in Requests |->
          IF k = q /\ token # 0
          THEN [pc |-> "sent", for |-> "init", guarded |-> TRUE, token |-> token,
                on |-> NoRefresh]
          ELSE IdleReq]]
  BY DEF LoadPage
<1>4. \A k \in Requests : req'[t][k] \in ReqType /\ req'[t][k].pc # "waiting"
  BY <1>3, RecordTypes DEF ReqType, TypeOK, IdleReq
<1>5. \A u \in Tabs \ {t} : req'[u] = req[u]
  BY <1>3 DEF TypeOK
<1>6. req' \in [Tabs -> [Requests -> ReqType]]
  BY <1>3, RecordTypes DEF ReqType, TypeOK
<1>7. QED
  BY <1>1, <1>2, <1>4, <1>5, <1>6, ZenonT(40) DEF TypeOK

\* What TypeOK says, in the terms of the three types.
Typed ==
  /\ stored \in 0..MaxTokens /\ issued \in 0..MaxTokens
  /\ login \in [Pairs -> 0..MaxTokens]
  /\ alive \subseteq Pairs /\ valid \subseteq Pairs
  /\ tab \in [Tabs -> TabType]
  /\ req \in [Tabs -> [Requests -> ReqType]]
  /\ refresh \in [Refreshes -> RefreshType]
  /\ \A t \in Tabs, q \in Requests :
       req[t][q].pc = "waiting" => req[t][q].on # NoRefresh
  /\ excused \in BOOLEAN /\ doubled \in BOOLEAN

\* Typed is TypeOK with the record types named.
LEMMA TypedIsTypeOK == Typed <=> TypeOK
  BY DEF Typed, TypeOK, TabType, ReqType, RefreshType

\* The updates of a call's record stay in its type.
LEMMA ReqUpdates ==
  ASSUME NEW x \in ReqType
  PROVE  /\ \A r \in Refreshes : [x EXCEPT !.pc = "waiting", !.on = r] \in ReqType
         /\ \A n \in 0..MaxTokens :
              [x EXCEPT !.pc = "resent", !.on = NoRefresh, !.token = n] \in ReqType
  BY DEF ReqType

\* The updates of a refresh's record stay in its type.
LEMMA RefreshUpdates ==
  ASSUME NEW x \in RefreshType
  PROVE  /\ [x EXCEPT !.pc = "checked"] \in RefreshType
         /\ [x EXCEPT !.pc = "refused"] \in RefreshType
         /\ \A n \in 0..MaxTokens : [x EXCEPT !.pc = "issued", !.new = n] \in RefreshType
  BY DEF RefreshType

(* A call is given another state: the types of all calls stand.            *)
LEMMA ReqSet ==
  ASSUME Typed, NEW t \in Tabs, NEW q \in Requests, NEW x \in ReqType,
         x.pc = "waiting" => x.on # NoRefresh,
         req' = [req EXCEPT ![t][q] = x]
  PROVE  /\ req' \in [Tabs -> [Requests -> ReqType]]
         /\ \A u \in Tabs, k \in Requests :
              req'[u][k].pc = "waiting" => req'[u][k].on # NoRefresh
         /\ \A u \in Tabs, k \in Requests :
              req'[u][k] = IF u = t /\ k = q THEN x ELSE req[u][k]
<1>1. req[t] \in [Requests -> ReqType]
  BY DEF Typed
<1>2. [req[t] EXCEPT ![q] = x] \in [Requests -> ReqType]
  BY <1>1
<1>3. req' = [req EXCEPT ![t] = [req[t] EXCEPT ![q] = x]]
  BY DEF Typed
<1>4. req' \in [Tabs -> [Requests -> ReqType]]
  BY <1>2, <1>3 DEF Typed
<1>5. \A u \in Tabs, k \in Requests :
        req'[u][k] = IF u = t /\ k = q THEN x ELSE req[u][k]
  BY <1>1, <1>3 DEF Typed
<1>6. QED
  BY <1>4, <1>5 DEF Typed

\* A call that ends leaves every other call as it was.
LEMMA IdleSet ==
  ASSUME Typed, NEW t \in Tabs, NEW q \in Requests,
         req' = [req EXCEPT ![t][q] = IdleReq]
  PROVE  /\ req' \in [Tabs -> [Requests -> ReqType]]
         /\ \A u \in Tabs, k \in Requests :
              req'[u][k].pc = "waiting" => req'[u][k].on # NoRefresh
<1>1. IdleReq \in ReqType /\ IdleReq.pc # "waiting"
  BY RecordTypes DEF IdleReq
<1>2. QED
  BY <1>1, ReqSet

\* The updates of a tab's record stay in its type.
LEMMA TabUpdates ==
  ASSUME NEW x \in TabType
  PROVE  /\ \A b \in BOOLEAN : [x EXCEPT !.signed = b] \in TabType
         /\ \A n \in 0..MaxTokens : [x EXCEPT !.leaving = n] \in TabType
  BY DEF TabType

\* A write of signed leaves the rest of the tab and the other tabs as they were.
LEMMA SignedSet ==
  ASSUME tab \in [Tabs -> TabType], NEW t \in Tabs, NEW b \in BOOLEAN,
         tab' = [tab EXCEPT ![t].signed = b]
  PROVE  /\ tab' \in [Tabs -> TabType]
         /\ \A u \in Tabs : tab'[u].leaving = tab[u].leaving
<1>1. tab[t] \in TabType
  OBVIOUS
<1>2. [tab[t] EXCEPT !.signed = b] \in TabType
  BY <1>1, TabUpdates
<1>3. tab' = [tab EXCEPT ![t] = [tab[t] EXCEPT !.signed = b]]
  OBVIOUS
<1>4. tab'[t].leaving = tab[t].leaving
  BY <1>1, <1>3 DEF TabType
<1>5. QED
  BY <1>2, <1>3, <1>4

\* onUnauthorized keeps the types.
LEMMA UnauthorizedTypes ==
  ASSUME Typed, NEW t \in Tabs, Unauthorized(t)
  PROVE  stored' \in 0..MaxTokens /\ tab' \in [Tabs -> TabType]
<1>1. tab' \in [Tabs -> TabType]
  BY SignedSet DEF Typed, Unauthorized
<1>2. QED
  BY <1>1, SessionAssumption DEF Unauthorized

\* A dropped call keeps the types.
LEMMA DropTypes ==
  ASSUME Typed, NEW t \in Tabs, NEW q \in Requests, Drops(t, q), excused' \in BOOLEAN
  PROVE  Typed'
<1>1. /\ req' \in [Tabs -> [Requests -> ReqType]]
      /\ \A u \in Tabs, k \in Requests :
           req'[u][k].pc = "waiting" => req'[u][k].on # NoRefresh
  BY IdleSet DEF Drops
<1>2. stored' \in 0..MaxTokens /\ tab' \in [Tabs -> TabType]
  <2>1. CASE req[t][q].for = "init"
    <3>1. stored' = 0 /\ tab' = [tab EXCEPT ![t].signed = FALSE]
      BY <2>1 DEF Drops
    <3>2. tab' \in [Tabs -> TabType]
      BY <3>1, UnauthorizedTypes DEF Unauthorized
    <3>3. QED
      BY <3>1, <3>2, SessionAssumption
  <2>2. CASE req[t][q].for # "init"
    BY <2>2 DEF Drops, Typed
  <2>3. QED
    BY <2>1, <2>2
<1>3. QED
  BY <1>1, <1>2 DEF Drops, Typed, tokens

\* A call that starts or joins a refresh keeps the types.
LEMMA JoinTypes ==
  ASSUME Typed, NEW t \in Tabs, NEW q \in Requests, JoinRefresh(t, q)
  PROVE  /\ req' \in [Tabs -> [Requests -> ReqType]]
         /\ \A u \in Tabs, k \in Requests :
              req'[u][k].pc = "waiting" => req'[u][k].on # NoRefresh
         /\ refresh' \in [Refreshes -> RefreshType]
         /\ excused' \in BOOLEAN /\ doubled' \in BOOLEAN
<1>1. PICK r \in Refreshes :
        /\ \/ UNCHANGED <<refresh, doubled, excused>>
           \/ /\ refresh' = [refresh EXCEPT ![r] = [pc |-> "asked", tab |-> t,
                                                    token |-> stored, new |-> 0]]
              /\ excused' \in BOOLEAN /\ doubled' \in BOOLEAN
        /\ req' = [req EXCEPT ![t][q].pc = "waiting", ![t][q].on = r]
  BY DEF JoinRefresh, Typed
<1>2. refresh' \in [Refreshes -> RefreshType] /\ excused' \in BOOLEAN /\ doubled' \in BOOLEAN
  <2>1. [pc |-> "asked", tab |-> t, token |-> stored, new |-> 0] \in RefreshType
    BY SessionAssumption DEF RefreshType, Typed
  <2>2. QED
    BY <1>1, <2>1 DEF Typed
<1>3. req' = [req EXCEPT ![t][q] = [req[t][q] EXCEPT !.pc = "waiting", !.on = r]]
  <2>1. [req[t][q] EXCEPT !.pc = "waiting", !.on = r]
          = [[req[t][q] EXCEPT !.pc = "waiting"] EXCEPT !.on = r]
    OBVIOUS
  <2>2. QED
    BY <1>1, <2>1 DEF Typed
<1>4. /\ [req[t][q] EXCEPT !.pc = "waiting", !.on = r] \in ReqType
      /\ [req[t][q] EXCEPT !.pc = "waiting", !.on = r].on # NoRefresh
  <2>1. req[t][q] \in ReqType
    BY DEF Typed
  <2>2. QED
    BY <2>1, SessionAssumption, ReqUpdates DEF ReqType
<1>5. QED
  BY <1>2, <1>3, <1>4, ReqSet

\* The end of a refresh, with its waiting calls, keeps the types.
LEMMA EndTypes ==
  ASSUME Typed, NEW r \in Refreshes, NEW ok \in BOOLEAN, RefreshEnds(r, ok),
         excused' \in BOOLEAN
  PROVE  Typed'
<1> DEFINE t == refresh[r].tab
<1>1. refresh' \in [Refreshes -> RefreshType]
  BY RecordTypes DEF RefreshEnds, Typed
<1>2. refresh[r] \in RefreshType
  BY DEF Typed
<1>3. CASE t = NoTab
  BY <1>1, <1>3 DEF RefreshEnds, Typed, tokens
<1>4. CASE t # NoTab
  <2>1. t \in Tabs /\ refresh[r].new \in 0..MaxTokens
    BY <1>2, <1>4 DEF RefreshType
  <2> DEFINE After(q) == IF req[t][q].on # r THEN req[t][q]
                        ELSE IF ok THEN [req[t][q] EXCEPT !.pc = "resent", !.on = NoRefresh,
                                                          !.token = refresh[r].new]
                        ELSE IdleReq
  <2>2. req' = [req EXCEPT ![t] = [q \in Requests |-> After(q)]]
    BY <1>4 DEF RefreshEnds
  <2>3. ASSUME NEW q \in Requests
        PROVE  After(q) \in ReqType /\ (After(q).pc = "waiting" => After(q).on # NoRefresh)
    <3>1. req[t][q] \in ReqType
      BY <2>1 DEF Typed
    <3>2. CASE req[t][q].on # r
      BY <3>1, <3>2, <2>1 DEF Typed
    <3>3. CASE req[t][q].on = r /\ ok
      <4>1. [req[t][q] EXCEPT !.pc = "resent", !.on = NoRefresh, !.token = refresh[r].new].pc
              = "resent"
        BY <3>1 DEF ReqType
      <4>2. QED
        BY <3>1, <3>3, <2>1, <4>1, ReqUpdates
    <3>4. CASE req[t][q].on = r /\ ~ok
      BY <3>4, RecordTypes DEF IdleReq
    <3>5. QED
      BY <3>2, <3>3, <3>4
  <2>4. /\ req' \in [Tabs -> [Requests -> ReqType]]
        /\ \A u \in Tabs, q \in Requests : 
             req'[u][q] = IF u = t THEN After(q) ELSE req[u][q]
    <3> HIDE DEF After
    <3>1. [q \in Requests |-> After(q)] \in [Requests -> ReqType]
      BY <2>3
    <3>2. QED
      BY <2>1, <2>2, <3>1 DEF Typed
  <2>5. \A u \in Tabs, q \in Requests : req'[u][q].pc = "waiting" => req'[u][q].on # NoRefresh
    <3> HIDE DEF After
    <3>1. QED
      BY <2>3, <2>4 DEF Typed
  <2>6. stored' \in 0..MaxTokens /\ tab' \in [Tabs -> TabType]
    BY <1>4, <2>1, UnauthorizedTypes DEF RefreshEnds, Typed
  <2>7. QED
    BY <1>1, <2>4, <2>5, <2>6 DEF RefreshEnds, Typed, tokens
<1>5. QED
  BY <1>3, <1>4

\* A sign-in keeps the types.
LEMMA SignInTypes ==
  ASSUME Typed, NEW t \in Tabs, SignIn(t)
  PROVE  Typed'
<1>1. tab' \in [Tabs -> TabType]
  BY SignedSet DEF SignIn, Typed
<1>2. excused' \in BOOLEAN
  BY DEF SignIn, Busy
<1>3. /\ issued' \in 0..MaxTokens /\ login' \in [Pairs -> 0..MaxTokens]
      /\ alive' \subseteq Pairs /\ valid' \subseteq Pairs /\ issued + 1 \in Pairs
  <2>1. 0 \in 0..MaxTokens /\ alive \in SUBSET Pairs /\ TypeOK
    BY SessionAssumption, TypedIsTypeOK DEF Typed
  <2>2. Issue(0, alive)
    BY DEF SignIn
  <2>3. QED
    BY <2>1, <2>2, IssueTypes
<1>4. QED
  BY <1>1, <1>2, <1>3 DEF SignIn, Typed

\* An opened or reloaded tab keeps the types.
LEMMA OpenTypes ==
  ASSUME Typed, NEW t \in Tabs, OpenTab(t)
  PROVE  Typed'
<1>1. excused' \in BOOLEAN
  BY DEF OpenTab
<1>2. QED
  BY <1>1, TypedIsTypeOK, LoadTypes DEF OpenTab, tokens, Typed

\* The callback of an external sign-in keeps the types.
LEMMA CallbackTypes ==
  ASSUME Typed, NEW t \in Tabs, AuthCallback(t)
  PROVE  Typed'
<1>1. excused' \in BOOLEAN
  BY DEF AuthCallback, Busy
<1>2. 0 \in 0..MaxTokens /\ alive \in SUBSET Pairs /\ TypeOK
  BY SessionAssumption, TypedIsTypeOK DEF Typed
<1>3. /\ issued' \in 0..MaxTokens /\ login' \in [Pairs -> 0..MaxTokens]
      /\ alive' \subseteq Pairs /\ valid' \subseteq Pairs /\ issued + 1 \in 0..MaxTokens
  BY <1>2, IssueTypes DEF AuthCallback
<1>4. /\ tab' \in [Tabs -> TabType]
      /\ refresh' \in [Refreshes -> RefreshType]
      /\ req' \in [Tabs -> [Requests -> ReqType]]
      /\ \A u \in Tabs, q \in Requests :
           req'[u][q].pc = "waiting" => req'[u][q].on # NoRefresh
  BY <1>2, <1>3, LoadTypes DEF AuthCallback
<1>5. QED
  BY <1>1, <1>3, <1>4 DEF AuthCallback, Typed

\* The two halves of a logout keep the types.
LEMMA LogoutTypes ==
  ASSUME Typed, NEW t \in Tabs, LogoutStarts(t) \/ LogoutEnds(t)
  PROVE  Typed'
<1>1. CASE LogoutStarts(t)
  <2>1. (IF stored = 0 THEN Guest ELSE [tab[t] EXCEPT !.leaving = stored]) \in TabType
    BY RecordTypes, TabUpdates DEF Typed
  <2>2. tab' \in [Tabs -> TabType]
    BY <1>1, <2>1 DEF LogoutStarts, Typed
  <2>3. QED
    BY <1>1, <2>2 DEF LogoutStarts, Typed, tokens
<1>2. CASE LogoutEnds(t)
  <2>1. tab' \in [Tabs -> TabType] /\ stored' \in 0..MaxTokens
    BY <1>2, SessionAssumption, RecordTypes DEF LogoutEnds, Typed
  <2>2. alive' \subseteq Pairs /\ valid' \subseteq Pairs
    BY <1>2 DEF LogoutEnds, Typed
  <2>3. QED
    BY <1>2, <2>1, <2>2 DEF LogoutEnds, Typed
<1>3. QED
  BY <1>1, <1>2

\* Every step of a call keeps the types.
LEMMA CallTypes ==
  ASSUME Typed, NEW t \in Tabs, NEW q \in Requests,
         Send(t, q) \/ CallStep(t, q) \/ Fails(t, q)
  PROVE  Typed'
<1>1. CASE Send(t, q)
  <2>1. PICK x \in ReqType : x.pc # "waiting" /\ req' = [req EXCEPT ![t][q] = x]
    <3>1. PICK k \in Kinds :
            req' = [req EXCEPT ![t][q] =
              [pc |-> "sent", for |-> "call", guarded |-> TRUE,
               token |-> IF k.auth THEN stored ELSE 0, on |-> NoRefresh]]
      BY <1>1 DEF Send
    <3>2. (IF k.auth THEN stored ELSE 0) \in 0..MaxTokens
      BY SessionAssumption DEF Typed
    <3> DEFINE x == [pc |-> "sent", for |-> "call", guarded |-> TRUE,
                     token |-> IF k.auth THEN stored ELSE 0, on |-> NoRefresh]
    <3>3. x \in ReqType /\ x.pc # "waiting"
      BY <3>2 DEF ReqType
    <3>4. QED
      BY <3>1, <3>3
  <2>2. QED
    BY <1>1, <2>1, ReqSet DEF Send, Typed, tokens
<1>2. CASE Succeeds(t, q)
  <2>1. tab' \in [Tabs -> TabType]
    BY <1>2, SignedSet DEF Succeeds, Typed
  <2>2. /\ req' \in [Tabs -> [Requests -> ReqType]]
        /\ \A u \in Tabs, k \in Requests :
             req'[u][k].pc = "waiting" => req'[u][k].on # NoRefresh
    BY <1>2, IdleSet DEF Succeeds
  <2>3. QED
    BY <1>2, <2>1, <2>2 DEF Succeeds, Typed, tokens
<1>3. CASE Refused(t, q)
  <2>1. CASE stored # 0
    BY <1>3, <2>1, JoinTypes DEF Refused, Typed, tokens
  <2>2. CASE stored = 0
    <3>1. /\ req' \in [Tabs -> [Requests -> ReqType]]
          /\ \A u \in Tabs, k \in Requests :
               req'[u][k].pc = "waiting" => req'[u][k].on # NoRefresh
      BY <1>3, <2>2, IdleSet DEF Refused
    <3>2. stored' \in 0..MaxTokens /\ tab' \in [Tabs -> TabType]
      BY <1>3, <2>2, UnauthorizedTypes DEF Refused
    <3>3. QED
      BY <1>3, <2>2, <3>1, <3>2 DEF Refused, Typed, tokens
  <2>3. QED
    BY <2>1, <2>2
<1>4. CASE RefusedAgain(t, q)
  <2>1. excused' \in BOOLEAN
    BY <1>4 DEF RefusedAgain
  <2>2. QED
    BY <1>4, <2>1, DropTypes DEF RefusedAgain
<1>5. CASE Fails(t, q)
  BY <1>5, DropTypes DEF Fails
<1>6. QED
  BY <1>1, <1>2, <1>3, <1>4, <1>5 DEF CallStep

\* Every step of a refresh keeps the types.
LEMMA RefreshStepTypes ==
  ASSUME Typed, NEW r \in Refreshes, RefreshStep(r) \/ RefreshLost(r)
  PROVE  Typed'
<1>0. refresh[r] \in RefreshType
  BY DEF Typed
<1>1. CASE RefreshChecks(r)
  <2>1. refresh' \in [Refreshes -> RefreshType]
    BY <1>0, <1>1, RefreshUpdates DEF RefreshChecks, Typed
  <2>2. QED
    BY <1>1, <2>1 DEF RefreshChecks, Typed, tokens
<1>2. CASE RefreshIssues(r)
  <2>1. refresh[r].token \in 0..MaxTokens
    BY <1>0 DEF RefreshType
  <2>2. /\ issued' \in 0..MaxTokens /\ login' \in [Pairs -> 0..MaxTokens]
        /\ alive' \subseteq Pairs /\ valid' \subseteq Pairs /\ issued + 1 \in 0..MaxTokens
    <3>1. TypeOK /\ alive \ {refresh[r].token} \in SUBSET Pairs
      BY TypedIsTypeOK DEF Typed
    <3>2. QED
      BY <1>2, <2>1, <3>1, IssueTypes DEF RefreshIssues
  <2>3. refresh' = [refresh EXCEPT ![r] = [refresh[r] EXCEPT !.pc = "issued",
                                                            !.new = issued + 1]]
    BY <1>2 DEF RefreshIssues, Typed
  <2>4. refresh' \in [Refreshes -> RefreshType]
    BY <1>0, <2>2, <2>3, RefreshUpdates DEF Typed
  <2>5. QED
    BY <1>2, <2>2, <2>4 DEF RefreshIssues, Typed
<1>3. CASE RefreshAnswered(r)
  BY <1>3, EndTypes DEF RefreshAnswered, Typed
<1>4. CASE RefreshLost(r)
  BY <1>4, EndTypes DEF RefreshLost
<1>5. QED
  BY <1>1, <1>2, <1>3, <1>4 DEF RefreshStep

\* The types hold initially.
LEMMA InitTyped == Init => Typed
<1> SUFFICES ASSUME Init PROVE Typed
  OBVIOUS
<1>1. IdleReq.pc = "idle" /\ 0 \in 0..MaxTokens
  BY SessionAssumption DEF IdleReq
<1>2. /\ tab \in [Tabs -> TabType]
      /\ req \in [Tabs -> [Requests -> ReqType]]
      /\ refresh \in [Refreshes -> RefreshType]
  BY RecordTypes DEF Init
<1>3. \A t \in Tabs, q \in Requests : req[t][q].pc = "idle"
  BY <1>1 DEF Init
<1>4. QED
  BY <1>1, <1>2, <1>3 DEF Init, Typed

\* Every step keeps the types.
LEMMA NextTyped == Typed /\ [Next]_sessionVars => Typed'
<1> SUFFICES ASSUME Typed, [Next]_sessionVars
             PROVE  Typed'
  OBVIOUS
<1>1. ASSUME NEW n \in Pairs, Expire(n)
      PROVE  Typed'
  BY <1>1 DEF Expire, Typed
<1>2. ASSUME NEW t \in Tabs, LoginPage(t) \/ UserMenu(t) \/ OpenTab(t)
                              \/ AuthCallback(t) \/ LogoutEnds(t)
      PROVE  Typed'
  BY <1>2, SignInTypes, LogoutTypes, OpenTypes, CallbackTypes DEF LoginPage, UserMenu
<1>3. CASE UNCHANGED sessionVars
  BY <1>3 DEF sessionVars, Typed
<1>4. QED
  BY <1>1, <1>2, <1>3, CallTypes, RefreshStepTypes DEF Next

(* Every state of the session is well typed.                               *)
THEOREM TypeCorrect == Spec => []TypeOK
  BY InitTyped, NextTyped, TypedIsTypeOK, PTL DEF Spec

-----------------------------------------------------------------------------
(* Guarded calls carry the token: the token that a call is sent again with *)
(* is one that a refresh issued.                                           *)

Carries(x) == x.pc # "idle" /\ x.guarded => x.token # 0
CarryInv ==
  /\ \A t \in Tabs, q \in Requests : Carries(req[t][q])
  /\ \A r \in Refreshes : refresh[r].pc = "issued" => refresh[r].new # 0

\* An idle call breaks no promise about tokens.
LEMMA IdleCarries == Carries(IdleReq)
  BY DEF Carries, IdleReq

(* The calls after a step that gives one call another state.               *)
LEMMA CarrySet ==
  ASSUME Typed, CarryInv, NEW t \in Tabs, NEW q \in Requests, NEW x \in ReqType,
         Carries(x), req' = [req EXCEPT ![t][q] = x]
  PROVE  \A u \in Tabs, k \in Requests : Carries(req'[u][k])
<1>1. \A u \in Tabs, k \in Requests :
        req'[u][k] = IF u = t /\ k = q THEN x ELSE req[u][k]
  BY DEF Typed
<1>2. QED
  BY <1>1 DEF CarryInv

\* A page load keeps CarryInv.
LEMMA CarryLoad ==
  ASSUME Typed, CarryInv, NEW t \in Tabs, NEW token \in 0..MaxTokens, LoadPage(t, token)
  PROVE  CarryInv'
<1>1. \A r \in Refreshes : refresh'[r].pc = refresh[r].pc /\ refresh'[r].new = refresh[r].new
  <2>1. \A x \in RefreshType : [x EXCEPT !.tab = NoTab].pc = x.pc
                               /\ [x EXCEPT !.tab = NoTab].new = x.new
    BY DEF RefreshType
  <2>2. QED
    BY <2>1 DEF LoadPage, Typed
<1>2. \A u \in Tabs, k \in Requests :
        \/ u # t /\ req'[u][k] = req[u][k]
        \/ req'[u][k] = IdleReq
        \/ token # 0 /\ req'[u][k] = [pc |-> "sent", for |-> "init", guarded |-> TRUE,
                                      token |-> token, on |-> NoRefresh]
  BY DEF LoadPage, Typed
<1>3. token # 0 => Carries([pc |-> "sent", for |-> "init", guarded |-> TRUE,
                            token |-> token, on |-> NoRefresh])
  BY DEF Carries
<1>4. \A u \in Tabs, k \in Requests : Carries(req'[u][k])
  BY <1>2, <1>3, IdleCarries DEF CarryInv
<1>5. QED
  BY <1>1, <1>4 DEF CarryInv, Carries

\* The end of a refresh keeps CarryInv: waiting calls are sent with the new token.
LEMMA CarryEnds ==
  ASSUME Typed, CarryInv, NEW r \in Refreshes, NEW ok \in BOOLEAN, RefreshEnds(r, ok),
         ok => refresh[r].pc = "issued"
  PROVE  CarryInv'
<1> DEFINE t == refresh[r].tab
<1>1. \A k \in Refreshes : refresh'[k].pc = "issued" => refresh'[k].new # 0
  BY DEF RefreshEnds, Typed, CarryInv, Free
<1>2. ASSUME NEW u \in Tabs, NEW q \in Requests
      PROVE  \/ req'[u][q] = req[u][q] \/ req'[u][q] = IdleReq
             \/ ok /\ req'[u][q] = [req[u][q] EXCEPT !.pc = "resent", !.on = NoRefresh,
                                                    !.token = refresh[r].new]
  <2>1. CASE t = NoTab
    BY <2>1 DEF RefreshEnds
  <2>2. CASE t # NoTab
    <3>1. req' = [req EXCEPT ![t] = [k \in Requests |->
               IF req[t][k].on # r THEN req[t][k]
               ELSE IF ok THEN [req[t][k] EXCEPT !.pc = "resent", !.on = NoRefresh,
                                                 !.token = refresh[r].new]
               ELSE IdleReq]]
      BY <2>2 DEF RefreshEnds
    <3>2. QED
      BY <3>1 DEF Typed
  <2>3. QED
    BY <2>1, <2>2
<1>3. \A x \in ReqType : refresh[r].new # 0 =>
        Carries([x EXCEPT !.pc = "resent", !.on = NoRefresh, !.token = refresh[r].new])
  <2>1. \A x \in ReqType :
          [x EXCEPT !.pc = "resent", !.on = NoRefresh, !.token = refresh[r].new].token
            = refresh[r].new
    BY DEF ReqType
  <2>2. QED
    BY <2>1 DEF Carries
<1>4. ok => refresh[r].new # 0
  BY DEF CarryInv
<1>5. ASSUME NEW u \in Tabs, NEW q \in Requests
      PROVE  Carries(req'[u][q])
  <2>1. req[u][q] \in ReqType /\ Carries(req[u][q])
    BY DEF Typed, CarryInv
  <2>2. QED
    BY <1>2, <1>3, <1>4, <2>1, IdleCarries
<1>6. QED
  BY <1>1, <1>5 DEF CarryInv, Carries

\* Every step of a call keeps CarryInv.
LEMMA CarryCalls ==
  ASSUME Typed, CarryInv, NEW t \in Tabs, NEW q \in Requests,
         Send(t, q) \/ CallStep(t, q) \/ Fails(t, q)
  PROVE  CarryInv'
<1>1. \A r \in Refreshes : refresh'[r].pc = "issued" => refresh'[r].new # 0
  <2>1. CASE UNCHANGED refresh
    BY <2>1 DEF CarryInv
  <2>2. CASE Refused(t, q) /\ stored # 0
    <3>1. PICK r \in Refreshes :
            \/ UNCHANGED refresh
            \/ refresh' = [refresh EXCEPT ![r] = [pc |-> "asked", tab |-> t,
                                                 token |-> stored, new |-> 0]]
      BY <2>2 DEF Refused, JoinRefresh
    <3>2. \A k \in Refreshes : refresh'[k] = refresh[k] \/ refresh'[k].pc = "asked"
      BY <3>1 DEF Typed
    <3>3. QED
      BY <3>2 DEF CarryInv
  <2>3. QED
    BY <2>1, <2>2 DEF Send, CallStep, Succeeds, Refused, RefusedAgain, Fails, Drops
<1>2. PICK x \in ReqType : Carries(x) /\ req' = [req EXCEPT ![t][q] = x]
  <2>1. CASE Send(t, q)
    <3>1. PICK k \in Kinds :
            /\ k.guarded
            /\ req' = [req EXCEPT ![t][q] =
                 [pc |-> "sent", for |-> "call", guarded |-> TRUE,
                  token |-> IF k.auth THEN stored ELSE 0, on |-> NoRefresh]]
      BY <2>1 DEF Send
    <3>2. k.auth
      BY <3>1, GuardedIsSigned
    <3> DEFINE x == [pc |-> "sent", for |-> "call", guarded |-> TRUE,
                     token |-> stored, on |-> NoRefresh]
    <3>3. req' = [req EXCEPT ![t][q] = x]
      BY <3>1, <3>2
    <3>4. x \in ReqType /\ Carries(x)
      BY <2>1 DEF Send, ReqType, Carries, Typed
    <3>5. QED
      BY <3>3, <3>4
  <2>2. CASE req' = [req EXCEPT ![t][q] = IdleReq]
    BY <2>2, RecordTypes, IdleCarries
  <2>3. CASE Refused(t, q) /\ stored # 0
    <3>1. PICK r \in Refreshes :
            req' = [req EXCEPT ![t][q].pc = "waiting", ![t][q].on = r]
      BY <2>3 DEF Refused, JoinRefresh
    <3> DEFINE x == [req[t][q] EXCEPT !.pc = "waiting", !.on = r]
    <3>2. req[t][q] \in ReqType
      BY DEF Typed
    <3>3. x \in ReqType /\ x.guarded = req[t][q].guarded /\ x.token = req[t][q].token
      BY <3>2, ReqUpdates DEF ReqType
    <3>4. req[t][q].pc = "sent"
      BY <2>3 DEF Refused
    <3>5. Carries(x)
      BY <3>3, <3>4 DEF Carries, CarryInv
    <3>6. x = [[req[t][q] EXCEPT !.pc = "waiting"] EXCEPT !.on = r]
      OBVIOUS
    <3>7. req' = [req EXCEPT ![t][q] = x]
      BY <3>1, <3>6 DEF Typed
    <3>8. QED
      BY <3>3, <3>5, <3>7
  <2>4. QED
    BY <2>1, <2>2, <2>3 DEF CallStep, Succeeds, Refused, RefusedAgain, Fails, Drops
<1>3. \A u \in Tabs, k \in Requests : Carries(req'[u][k])
  BY <1>2, CarrySet
<1>4. QED
  BY <1>1, <1>3 DEF CarryInv, Carries

(* No call that the server guards is sent without the token, the first time *)
(* or after a refresh.                                                      *)
THEOREM GuardedCarry == Spec => []GuardedCallsCarryToken
<1>1. Init => Typed /\ CarryInv
  <2>1. Init => CarryInv
    BY IdleCarries DEF Init, CarryInv, Free
  <2>2. QED
    BY <2>1, InitTyped
<1>2. Typed /\ CarryInv /\ [Next]_sessionVars => CarryInv'
  <2> SUFFICES ASSUME Typed, CarryInv, [Next]_sessionVars
               PROVE  CarryInv'
    OBVIOUS
  <2>1. CASE UNCHANGED <<req, refresh>>
    BY <2>1 DEF CarryInv, Carries
  <2>2. ASSUME NEW t \in Tabs, OpenTab(t) \/ AuthCallback(t)
        PROVE  CarryInv'
    <3>1. OpenTab(t) => LoadPage(t, stored) /\ stored \in 0..MaxTokens
      BY DEF OpenTab, Typed
    <3>2. AuthCallback(t) => LoadPage(t, issued + 1) /\ issued + 1 \in 0..MaxTokens
      BY SessionAssumption DEF AuthCallback, Issue, Typed
    <3>3. QED
      BY <2>2, <3>1, <3>2, CarryLoad
  <2>3. ASSUME NEW r \in Refreshes, RefreshStep(r) \/ RefreshLost(r)
        PROVE  CarryInv'
    <3>1. CASE RefreshChecks(r)
      BY <3>1 DEF RefreshChecks, CarryInv, Typed, Carries
    <3>2. CASE RefreshIssues(r)
      <4>1. \A k \in Refreshes : refresh'[k].pc = "issued" => refresh'[k].new # 0
        <5>1. \A k \in Refreshes :
                refresh'[k] = IF k = r
                              THEN [refresh[r] EXCEPT !.pc = "issued", !.new = issued + 1]
                              ELSE refresh[k]
          BY <3>2 DEF RefreshIssues, Typed
        <5>2. refresh[r] \in RefreshType /\ issued + 1 # 0
          BY DEF Typed
        <5>3. [refresh[r] EXCEPT !.pc = "issued", !.new = issued + 1].new = issued + 1
          BY <5>2 DEF RefreshType
        <5>4. QED
          BY <5>1, <5>2, <5>3 DEF CarryInv
      <4>2. QED
        BY <3>2, <4>1 DEF RefreshIssues, CarryInv, Carries
    <3>3. CASE RefreshAnswered(r)
      BY <3>3, CarryEnds DEF RefreshAnswered
    <3>4. CASE RefreshLost(r)
      BY <3>4, CarryEnds DEF RefreshLost
    <3>5. QED
      BY <2>3, <3>1, <3>2, <3>3, <3>4 DEF RefreshStep
  <2>4. QED
    BY <2>1, <2>2, <2>3, CarryCalls DEF Next, sessionVars, Expire, LoginPage, SignIn,
       UserMenu, LogoutStarts, LogoutEnds
<1>3. CarryInv => GuardedCallsCarryToken
  BY DEF CarryInv, Carries, GuardedCallsCarryToken
<1>4. QED
  BY <1>1, <1>2, <1>3, NextTyped, PTL DEF Spec

-----------------------------------------------------------------------------
(* The numbers of pairs                                                    *)

Numbers ==
  /\ stored <= issued
  /\ \A n \in alive : n <= issued
  /\ \A n \in 1..issued : login[n] \in 1..n
  /\ \A r \in Refreshes :
       /\ refresh[r].token <= issued /\ refresh[r].new <= issued
       /\ refresh[r].pc # "free" <=> refresh[r].token # 0

\* The refreshes are where they were; their tabs may have left them.
Quiet ==
  \A r \in Refreshes : /\ refresh'[r].pc = refresh[r].pc
                       /\ refresh'[r].token = refresh[r].token
                       /\ refresh'[r].new = refresh[r].new

\* A page load issues, revokes and stores no token.
LEMMA LoadQuiet ==
  ASSUME Typed, NEW t \in Tabs, NEW token, LoadPage(t, token)
  PROVE  Quiet
<1>1. \A x \in RefreshType : /\ [x EXCEPT !.tab = NoTab].pc = x.pc
                              /\ [x EXCEPT !.tab = NoTab].token = x.token
                              /\ [x EXCEPT !.tab = NoTab].new = x.new
  BY DEF RefreshType
<1>2. QED
  BY <1>1 DEF LoadPage, Typed, Quiet

\* What a step may do to the pairs and to the refreshes.
Rests ==
  /\ issued' = issued /\ login' = login /\ alive' \subseteq alive /\ doubled' = doubled
  /\ stored' \in {stored, 0}
  /\ Quiet
SignsIn ==
  /\ Issue(0, alive) /\ stored' = issued + 1 /\ doubled' = doubled
  /\ Quiet
Starts(r) ==
  /\ UNCHANGED <<stored, issued, login, alive>>
  /\ refresh[r].pc = "free" /\ stored # 0
  /\ \E t \in Tabs : refresh' = [refresh EXCEPT ![r] = [pc |-> "asked", tab |-> t,
                                                      token |-> stored, new |-> 0]]
  /\ LET twice == \E k \in Refreshes : refresh[k].token = stored IN
       doubled' = (doubled \/ twice) /\ excused' = (excused \/ twice)
Ends(r) ==
  /\ UNCHANGED <<issued, login, alive, doubled>>
  /\ refresh' = [refresh EXCEPT ![r] = Free]
  /\ stored' \in {stored, 0, refresh[r].new}

(* Each step of the session does one of these.                             *)
LEMMA StepKinds ==
  ASSUME Typed, [Next]_sessionVars
  PROVE  \/ Rests \/ SignsIn
         \/ \E r \in Refreshes :
              Starts(r) \/ RefreshChecks(r) \/ RefreshIssues(r) \/ Ends(r)
<1>1. CASE UNCHANGED <<issued, login, alive, refresh, doubled>> /\ stored' \in {stored, 0}
  BY <1>1 DEF Rests, Quiet
<1>2. ASSUME NEW t \in Tabs, OpenTab(t) \/ LogoutEnds(t)
      PROVE  Rests
  BY <1>2, LoadQuiet DEF OpenTab, LogoutEnds, Rests, Quiet, tokens
<1>3. ASSUME NEW t \in Tabs, SignIn(t) \/ AuthCallback(t)
      PROVE  SignsIn
  BY <1>3, LoadQuiet DEF SignIn, AuthCallback, SignsIn, Quiet
<1>4. ASSUME NEW t \in Tabs, NEW q \in Requests, Refused(t, q)
      PROVE  Rests \/ \E r \in Refreshes : Starts(r)
  <2>1. CASE stored = 0
    BY <1>4, <2>1 DEF Refused, Unauthorized, Rests, Quiet, tokens
  <2>2. CASE stored # 0
    BY <1>4, <2>2 DEF Refused, JoinRefresh, Rests, Quiet, Starts, tokens
  <2>3. QED
    BY <2>1, <2>2
<1>5. ASSUME NEW r \in Refreshes, RefreshAnswered(r) \/ RefreshLost(r)
      PROVE  Ends(r)
  BY <1>5 DEF RefreshAnswered, RefreshLost, RefreshEnds, Unauthorized, Ends, tokens
<1>6. ASSUME NEW t \in Tabs, NEW q \in Requests,
             Send(t, q) \/ Succeeds(t, q) \/ RefusedAgain(t, q) \/ Fails(t, q)
      PROVE  UNCHANGED <<issued, login, alive, refresh, doubled>> /\ stored' \in {stored, 0}
  BY <1>6 DEF Send, Succeeds, RefusedAgain, Fails, Drops, tokens
<1>7. ASSUME NEW t \in Tabs, UserMenu(t)
      PROVE  UNCHANGED <<issued, login, alive, refresh, doubled>> /\ stored' \in {stored, 0}
  BY <1>7 DEF UserMenu, LogoutStarts, tokens
<1>8. ASSUME NEW n \in Pairs, Expire(n)
      PROVE  UNCHANGED <<issued, login, alive, refresh, doubled>> /\ stored' \in {stored, 0}
  BY <1>8 DEF Expire
<1>9. UNCHANGED sessionVars
        => UNCHANGED <<issued, login, alive, refresh, doubled>> /\ stored' \in {stored, 0}
  BY DEF sessionVars
<1>10. QED
  BY <1>1, <1>2, <1>3, <1>4, <1>5, <1>6, <1>7, <1>8, <1>9
     DEF Next, LoginPage, CallStep, RefreshStep

(* A pair that is issued for a sign-in starts a login; any other goes on   *)
(* with the one of the pair it replaces.                                   *)
LEMMA IssueNumbers ==
  ASSUME Typed, Numbers, NEW n \in 0..issued, NEW rest, Issue(n, rest)
  PROVE  /\ issued' = issued + 1 /\ issued \in Nat
         /\ \A m \in 1..issued' : login'[m] \in 1..m
         /\ \A m \in 1..issued : login'[m] = login[m]
         /\ login'[issued + 1] = IF n = 0 THEN issued + 1 ELSE login[n]
<1>1. issued \in Nat /\ issued + 1 \in Pairs
  BY SessionAssumption DEF Typed, Issue
<1>2. \A m \in 1..issued' : login'[m] = IF m # issued + 1 THEN login[m]
                                         ELSE IF n = 0 THEN issued + 1 ELSE login[n]
  BY <1>1, SessionAssumption DEF Typed, Issue
<1>3. \A m \in 1..issued' : login'[m] \in 1..m
  BY <1>1, <1>2 DEF Numbers, Issue
<1>4. QED
  BY <1>1, <1>2, <1>3 DEF Issue

\* What RefreshIssues makes of the refreshes.
LEMMA RefreshIssuesSet ==
  ASSUME Typed, NEW r \in Refreshes, RefreshIssues(r)
  PROVE  /\ \A k \in Refreshes \ {r} : refresh'[k] = refresh[k]
         /\ refresh'[r].pc = "issued" /\ refresh'[r].new = issued + 1
         /\ refresh'[r].token = refresh[r].token
<1>1. \A k \in Refreshes :
        refresh'[k] = IF k = r THEN [refresh[r] EXCEPT !.pc = "issued", !.new = issued + 1]
                      ELSE refresh[k]
  BY DEF RefreshIssues, Typed
<1>2. refresh[r] \in RefreshType
  BY DEF Typed
<1>3. \A x \in RefreshType, n \in Nat :
        /\ [x EXCEPT !.pc = "issued", !.new = n].pc = "issued"
        /\ [x EXCEPT !.pc = "issued", !.new = n].new = n
        /\ [x EXCEPT !.pc = "issued", !.new = n].token = x.token
  BY DEF RefreshType
<1>4. issued + 1 \in Nat
  BY SessionAssumption DEF Typed
<1>5. refresh'[r] = [refresh[r] EXCEPT !.pc = "issued", !.new = issued + 1]
  BY <1>1
<1>6. /\ refresh'[r].pc = "issued" /\ refresh'[r].new = issued + 1
      /\ refresh'[r].token = refresh[r].token
  BY <1>2, <1>3, <1>4, <1>5
<1>7. QED
  BY <1>1, <1>6

\* What RefreshChecks makes of the refreshes.
LEMMA RefreshChecksSet ==
  ASSUME Typed, NEW r \in Refreshes, RefreshChecks(r)
  PROVE  /\ \A k \in Refreshes \ {r} : refresh'[k] = refresh[k]
         /\ refresh'[r].pc = IF refresh[r].token \in alive THEN "checked" ELSE "refused"
         /\ refresh'[r].token = refresh[r].token /\ refresh'[r].new = refresh[r].new
<1>1. \A k \in Refreshes :
        refresh'[k] = IF k = r
                      THEN [refresh[r] EXCEPT !.pc = IF refresh[r].token \in alive
                                                     THEN "checked" ELSE "refused"]
                      ELSE refresh[k]
  BY DEF RefreshChecks, Typed
<1>2. refresh[r] \in RefreshType
  BY DEF Typed
<1>3. QED
  BY <1>1, <1>2 DEF RefreshType

\* Every step keeps Numbers: no token in use is newer than the last one issued.
LEMMA NumbersNext ==
  ASSUME Typed, Numbers, [Next]_sessionVars
  PROVE  Numbers'
<1>0. issued \in Nat /\ stored \in Nat /\ alive \subseteq Nat
  BY SessionAssumption DEF Typed
<1>00. \A r \in Refreshes : refresh[r].token \in Nat /\ refresh[r].new \in Nat
  BY SessionAssumption DEF Typed, RefreshType
<1>1. CASE Rests
  BY <1>0, <1>1 DEF Rests, Quiet, Numbers
<1>2. CASE SignsIn
  <2>1. \A m \in 1..issued' : login'[m] \in 1..m
    BY <1>0, <1>2, IssueNumbers DEF SignsIn
  <2>2. issued' = issued + 1 /\ stored' = issued + 1 /\ alive' = alive \cup {issued + 1} /\ Quiet
    BY <1>2 DEF SignsIn, Issue
  <2>3. \A r \in Refreshes :
          /\ refresh'[r].token <= issued' /\ refresh'[r].new <= issued'
          /\ refresh'[r].pc # "free" <=> refresh'[r].token # 0
    BY <1>0, <1>00, <2>2 DEF Quiet, Numbers
  <2>4. \A m \in alive' : m <= issued'
    BY <1>0, <2>2 DEF Numbers
  <2>5. QED
    BY <1>0, <2>1, <2>2, <2>3, <2>4 DEF Numbers
<1>3. ASSUME NEW r \in Refreshes, Starts(r)
      PROVE  Numbers'
  <2>1. \A k \in Refreshes :
          \/ refresh'[k] = refresh[k]
          \/ /\ refresh'[k].pc = "asked" /\ refresh'[k].token = stored
             /\ refresh'[k].new = 0
    BY <1>3 DEF Starts, Typed
  <2>2. QED
    BY <1>0, <1>3, <2>1 DEF Starts, Numbers
<1>4. ASSUME NEW r \in Refreshes, RefreshChecks(r)
      PROVE  Numbers'
  BY <1>4, RefreshChecksSet DEF RefreshChecks, Numbers, tokens
<1>5. ASSUME NEW r \in Refreshes, RefreshIssues(r)
      PROVE  Numbers'
  <2>1. refresh[r].token \in 0..issued
    BY <1>0, <1>00 DEF Numbers
  <2>2. /\ issued' = issued + 1 /\ stored' = stored
        /\ alive' = (alive \ {refresh[r].token}) \cup {issued + 1}
        /\ \A m \in 1..issued' : login'[m] \in 1..m
    BY <1>5, <2>1, IssueNumbers DEF RefreshIssues, Issue
  <2>3. /\ \A k \in Refreshes \ {r} : refresh'[k] = refresh[k]
        /\ refresh'[r].pc = "issued" /\ refresh'[r].new = issued + 1
        /\ refresh'[r].token = refresh[r].token /\ refresh[r].pc = "checked"
    BY <1>5, RefreshIssuesSet DEF RefreshIssues
  <2>4. \A k \in Refreshes :
          /\ refresh'[k].token <= issued' /\ refresh'[k].new <= issued'
          /\ refresh'[k].pc # "free" <=> refresh'[k].token # 0
    BY <1>0, <1>00, <2>2, <2>3 DEF Numbers
  <2>5. QED
    BY <1>0, <2>2, <2>4 DEF Numbers
<1>6. ASSUME NEW r \in Refreshes, Ends(r)
      PROVE  Numbers'
  <2>1. \A k \in Refreshes :
          refresh'[k] = refresh[k] \/ refresh'[k] = Free
    BY <1>6 DEF Ends, Typed
  <2>2. stored' <= issued'
    BY <1>0, <1>6 DEF Ends, Numbers
  <2>3. QED
    BY <1>0, <1>6, <2>1, <2>2 DEF Ends, Numbers, Free
<1>7. QED
  BY <1>1, <1>2, <1>3, <1>4, <1>5, <1>6, StepKinds

-----------------------------------------------------------------------------
(* One living token                                                        *)

\* Two refreshes under way have different tokens; ...
Apart ==
  \A r, k \in Refreshes :
    refresh[r].pc # "free" /\ refresh[k].token = refresh[r].token => k = r
\* ... a refresh that found its token alive has the only one of its login; ...
CheckedAlone ==
  \A r \in Refreshes, m \in alive :
    refresh[r].pc = "checked" /\ login[m] = login[refresh[r].token]
      => m = refresh[r].token
\* ... and no two such refreshes are of one login.
CheckedApart ==
  \A r, k \in Refreshes :
    /\ refresh[r].pc = "checked" /\ refresh[k].pc = "checked"
    /\ login[refresh[r].token] = login[refresh[k].token]
    => k = r
OneInv == ~doubled => Apart /\ CheckedAlone /\ CheckedApart

\* Every step keeps OneLivingToken with its strengthening.
LEMMA OneNext ==
  ASSUME Typed, Numbers, OneInv, OneLivingToken, [Next]_sessionVars
  PROVE  (OneInv /\ OneLivingToken)'
<1> SUFFICES ASSUME ~doubled'
             PROVE  /\ Apart' /\ CheckedAlone' /\ CheckedApart'
                    /\ \A m, n \in alive' : login'[m] = login'[n] => m = n
  BY DEF OneInv, OneLivingToken
<1>0. /\ issued \in Nat /\ alive \subseteq 1..issued
      /\ \A r \in Refreshes : refresh[r].token \in 0..issued
      /\ \A r \in Refreshes : refresh[r].pc # "free" => refresh[r].token \in 1..issued
  BY SessionAssumption DEF Typed, RefreshType, Numbers
<1>1. ~doubled
  BY StepKinds DEF Rests, SignsIn, Starts, RefreshChecks, RefreshIssues, Ends
<1>2. /\ Apart /\ CheckedAlone /\ CheckedApart
      /\ \A m, n \in alive : login[m] = login[n] => m = n
  BY <1>1 DEF OneInv, OneLivingToken
<1>3. CASE Rests
  BY <1>2, <1>3 DEF Rests, Quiet, Apart, CheckedAlone, CheckedApart
<1>4. CASE SignsIn
  <2>1. /\ alive' = alive \cup {issued + 1} /\ Quiet
        /\ \A m \in 1..issued : login'[m] = login[m] /\ login[m] # issued + 1
        /\ login'[issued + 1] = issued + 1
    <3>1. Issue(0, alive) /\ 0 \in 0..issued /\ Quiet
      BY <1>0, <1>4 DEF SignsIn
    <3>2. /\ \A m \in 1..issued : login'[m] = login[m]
          /\ login'[issued + 1] = issued + 1
      BY <3>1, IssueNumbers
    <3>3. \A m \in 1..issued : login[m] # issued + 1
      BY <1>0 DEF Numbers
    <3>4. alive' = alive \cup {issued + 1}
      BY <3>1 DEF Issue
    <3>5. QED
      BY <3>1, <3>2, <3>3, <3>4
  <2>2. Apart'
    BY <1>2, <2>1 DEF Quiet, Apart
  <2>3. CheckedAlone'
    BY <1>0, <1>2, <2>1 DEF Quiet, CheckedAlone
  <2>4. CheckedApart'
    BY <1>0, <1>2, <2>1 DEF Quiet, CheckedApart
  <2>5. \A m, n \in alive' : login'[m] = login'[n] => m = n
    <3>1. \A m \in alive' : m = issued + 1 \/ (m \in alive /\ m \in 1..issued)
      BY <1>0, <2>1
    <3>2. QED
      BY <1>2, <2>1, <3>1
  <2>6. QED
    BY <2>2, <2>3, <2>4, <2>5
<1>5. ASSUME NEW r \in Refreshes, Starts(r)
      PROVE  /\ Apart' /\ CheckedAlone' /\ CheckedApart'
             /\ \A m, n \in alive' : login'[m] = login'[n] => m = n
  <2>1. /\ \A k \in Refreshes \ {r} : refresh'[k] = refresh[k]
        /\ refresh'[r].pc = "asked" /\ refresh'[r].token = stored
    BY <1>5 DEF Starts, Typed
  <2>2. \A k \in Refreshes : refresh[k].token # stored
    BY <1>5 DEF Starts
  <2>3. Apart'
    BY <1>2, <2>1, <2>2 DEF Apart
  <2>4. QED
    BY <1>2, <1>5, <2>1, <2>3 DEF Starts, CheckedAlone, CheckedApart
<1>6. ASSUME NEW r \in Refreshes, RefreshChecks(r)
      PROVE  /\ Apart' /\ CheckedAlone' /\ CheckedApart'
             /\ \A m, n \in alive' : login'[m] = login'[n] => m = n
  <2>1. /\ \A k \in Refreshes \ {r} : refresh'[k] = refresh[k]
        /\ refresh'[r].pc = IF refresh[r].token \in alive THEN "checked" ELSE "refused"
        /\ refresh'[r].token = refresh[r].token
    BY <1>6, RefreshChecksSet
  <2>2. alive' = alive /\ login' = login /\ refresh[r].pc = "asked"
    BY <1>6 DEF RefreshChecks, tokens
  <2>3. Apart'
    BY <1>2, <2>1, <2>2 DEF Apart
  <2>4. CheckedAlone'
    BY <1>2, <2>1, <2>2 DEF CheckedAlone
  <2>5. CheckedApart'
    BY <1>2, <2>1, <2>2 DEF Apart, CheckedAlone, CheckedApart
  <2>6. QED
    BY <1>2, <2>2, <2>3, <2>4, <2>5
<1>7. ASSUME NEW r \in Refreshes, RefreshIssues(r)
      PROVE  /\ Apart' /\ CheckedAlone' /\ CheckedApart'
             /\ \A m, n \in alive' : login'[m] = login'[n] => m = n
  <2> DEFINE old == refresh[r].token
             new == issued + 1
  <2>1. refresh[r].pc = "checked" /\ old \in 1..issued
    BY <1>0, <1>7 DEF RefreshIssues
  <2>2. /\ alive' = (alive \ {old}) \cup {new}
        /\ \A m \in 1..issued : login'[m] = login[m]
        /\ login'[new] = login[old]
    <3>1. Issue(old, alive \ {old}) /\ old \in 0..issued /\ old # 0
      BY <1>0, <1>7, <2>1 DEF RefreshIssues
    <3>2. /\ \A m \in 1..issued : login'[m] = login[m]
          /\ login'[new] = login[old]
      BY <3>1, IssueNumbers
    <3>3. QED
      BY <3>1, <3>2 DEF Issue
  <2>3. /\ \A k \in Refreshes \ {r} : refresh'[k] = refresh[k]
        /\ refresh'[r].pc = "issued" /\ refresh'[r].token = old
    BY <1>7, RefreshIssuesSet
  <2> HIDE DEF old, new
  <2>4. Apart'
    BY <1>2, <2>1, <2>3 DEF Apart, old
  <2>5. \A m \in alive \ {old} : login[m] # login[old]
    BY <1>2, <2>1 DEF CheckedAlone, old
  <2>6. CheckedAlone'
    <3> SUFFICES ASSUME NEW k \in Refreshes, NEW m \in alive', refresh'[k].pc = "checked",
                        login'[m] = login'[refresh'[k].token]
                 PROVE  m = refresh'[k].token
      BY DEF CheckedAlone
    <3>1. k # r /\ refresh'[k] = refresh[k] /\ refresh[k].token \in 1..issued
      BY <1>0, <2>3
    <3>2. login'[refresh[k].token] = login[refresh[k].token]
      BY <2>2, <3>1
    <3>3. CASE m = new
      BY <1>2, <2>1, <2>2, <3>1, <3>2, <3>3 DEF CheckedApart, old
    <3>4. CASE m # new
      BY <1>0, <1>2, <2>2, <3>1, <3>2, <3>4 DEF CheckedAlone
    <3>5. QED
      BY <3>3, <3>4
  <2>7. CheckedApart'
    BY <1>0, <1>2, <2>2, <2>3 DEF CheckedApart
  <2>8. \A m, n \in alive' : login'[m] = login'[n] => m = n
    <3>1. \A m \in alive' : m = new \/ (m \in alive \ {old} /\ m \in 1..issued)
      BY <1>0, <2>2
    <3>2. QED
      BY <1>2, <2>2, <2>5, <3>1
  <2>9. QED
    BY <2>4, <2>6, <2>7, <2>8
<1>8. ASSUME NEW r \in Refreshes, Ends(r)
      PROVE  /\ Apart' /\ CheckedAlone' /\ CheckedApart'
             /\ \A m, n \in alive' : login'[m] = login'[n] => m = n
  <2>1. /\ \A k \in Refreshes \ {r} : refresh'[k] = refresh[k]
        /\ refresh'[r].pc = "free" /\ refresh'[r].token = 0
    BY <1>8 DEF Ends, Typed, Free
  <2>2. Apart'
    BY <1>0, <1>2, <2>1 DEF Apart
  <2>3. QED
    BY <1>2, <1>8, <2>1, <2>2 DEF Ends, CheckedAlone, CheckedApart
<1>9. QED
  BY <1>3, <1>4, <1>5, <1>6, <1>7, <1>8, StepKinds

\* The numbering and OneLivingToken with its strengthening hold initially.
LEMMA InitOne == Init => Numbers /\ OneInv /\ OneLivingToken
<1> SUFFICES ASSUME Init PROVE Numbers /\ OneInv /\ OneLivingToken
  OBVIOUS
<1>1. \A r \in Refreshes : refresh[r].pc = "free" /\ refresh[r].token = 0 /\ refresh[r].new = 0
  BY DEF Init, Free
<1>2. QED
  BY <1>1 DEF Init, Numbers, OneInv, OneLivingToken, Apart, CheckedAlone, CheckedApart

(* Through any number of sign-ins and refreshes, of any number of tabs, a  *)
(* login has one token that can be refreshed, at most, as long as no two   *)
(* refreshes of one token were under way: service.go revokes the old token *)
(* without asking again whether it still stood.                            *)
THEOREM OneToken == Spec => []OneLivingToken
<1>1. Init => Typed /\ Numbers /\ OneInv /\ OneLivingToken
  BY InitTyped, InitOne
<1>2. Typed /\ Numbers /\ OneInv /\ OneLivingToken /\ [Next]_sessionVars
        => (Typed /\ Numbers /\ OneInv /\ OneLivingToken)'
  BY NextTyped, NumbersNext, OneNext
<1>3. QED
  BY <1>1, <1>2, PTL DEF Spec

-----------------------------------------------------------------------------
(* The tokens leave the browser only with a cause                          *)

\* A pair that a refresh was answered with is nobody's before it is stored.
Fresh ==
  \A r \in Refreshes :
    /\ refresh[r].pc = "issued" <=> refresh[r].new # 0
    /\ refresh[r].new # 0 =>
         /\ refresh[r].new # stored
         /\ \A k \in Refreshes : /\ refresh[r].new # refresh[k].token
                                 /\ refresh[k].new = refresh[r].new => k = r

\* Every step keeps Fresh.
LEMMA FreshNext ==
  ASSUME Typed, Numbers, Fresh, [Next]_sessionVars
  PROVE  Fresh'
<1>0. /\ issued \in Nat /\ stored \in 0..issued
      /\ \A r \in Refreshes : refresh[r].token \in 0..issued /\ refresh[r].new \in 0..issued
  BY SessionAssumption DEF Typed, RefreshType, Numbers
<1>1. CASE Rests
  BY <1>1 DEF Rests, Quiet, Fresh
<1>2. CASE SignsIn
  BY <1>0, <1>2 DEF SignsIn, Quiet, Fresh
<1>3. ASSUME NEW r \in Refreshes, Starts(r)
      PROVE  Fresh'
  <2>1. /\ \A k \in Refreshes \ {r} : refresh'[k] = refresh[k]
        /\ refresh'[r].pc = "asked" /\ refresh'[r].token = stored /\ refresh'[r].new = 0
        /\ stored' = stored
    BY <1>3 DEF Starts, Typed
  <2>2. QED
    BY <2>1 DEF Fresh
<1>4. ASSUME NEW r \in Refreshes, RefreshChecks(r)
      PROVE  Fresh'
  <2>1. refresh[r].pc = "asked" /\ stored' = stored
    BY <1>4 DEF RefreshChecks
  <2>2. \A k \in Refreshes : /\ refresh'[k].token = refresh[k].token
                             /\ refresh'[k].new = refresh[k].new
                             /\ refresh'[k].pc = "issued" <=> refresh[k].pc = "issued"
    BY <1>4, <2>1, RefreshChecksSet
  <2>3. QED
    BY <2>1, <2>2 DEF Fresh
<1>5. ASSUME NEW r \in Refreshes, RefreshIssues(r)
      PROVE  Fresh'
  <2>1. refresh[r].pc = "checked" /\ stored' = stored
    BY <1>5 DEF RefreshIssues
  <2>2. /\ \A k \in Refreshes \ {r} : refresh'[k] = refresh[k]
        /\ refresh'[r].pc = "issued" /\ refresh'[r].new = issued + 1
        /\ refresh'[r].token = refresh[r].token
    BY <1>5, RefreshIssuesSet
  <2>3. QED
    BY <1>0, <2>1, <2>2 DEF Fresh
<1>6. ASSUME NEW r \in Refreshes, Ends(r)
      PROVE  Fresh'
  <2>1. /\ \A k \in Refreshes \ {r} : refresh'[k] = refresh[k]
        /\ refresh'[r].pc = "free" /\ refresh'[r].token = 0 /\ refresh'[r].new = 0
        /\ stored' \in {stored, 0, refresh[r].new}
    BY <1>6 DEF Ends, Typed, Free
  <2>2. QED
    BY <2>1 DEF Fresh
<1>7. QED
  BY <1>1, <1>2, <1>3, <1>4, <1>5, <1>6, StepKinds

\* Unless something excused the loss: nobody logs out, every refresh is a
\* tab's and none is refused, and the tokens are alive or about to be replaced.
SafeInv ==
  ~excused =>
    /\ \A t \in Tabs : tab[t].leaving = 0
    /\ \A r \in Refreshes : refresh[r].pc # "free" => refresh[r].tab # NoTab
    /\ Apart
    /\ \A r \in Refreshes : /\ refresh[r].pc # "refused"
                            /\ refresh[r].pc = "asked" => refresh[r].token \in alive
                            /\ refresh[r].pc = "issued" => refresh[r].new \in alive
    /\ stored # 0 => \/ stored \in alive
                     \/ \E r \in Refreshes : refresh[r].pc = "issued"
                                             /\ refresh[r].token = stored

\* The steps that leave the loss of the tokens without an excuse.
KeepsAll ==
  /\ ~excused /\ UNCHANGED <<stored, alive, refresh>>
  /\ \A t \in Tabs : tab'[t].leaving \in {tab[t].leaving, 0}
Anew ==
  /\ stored' = issued + 1 /\ issued + 1 \in alive'
  /\ \A t \in Tabs : tab'[t].leaving = 0
  /\ \A r \in Refreshes : refresh'[r].pc = "free"
SameTabs == ~excused /\ \A t \in Tabs : tab'[t].leaving = tab[t].leaving

\* An unexcused sign-in finds nothing under way and starts a new session.
LEMMA SignsInAnew ==
  ASSUME Typed, NEW t \in Tabs, SignIn(t) \/ AuthCallback(t), ~excused'
  PROVE  Anew
<1>1. ~Busy
  BY DEF SignIn, AuthCallback
<1>2. /\ \A u \in Tabs : tab[u].leaving = 0
      /\ \A r \in Refreshes : refresh[r].pc = "free"
  BY <1>1 DEF Busy
<1>3. CASE SignIn(t)
  <2>1. \A u \in Tabs : tab'[u].leaving = tab[u].leaving
    BY <1>3, SignedSet DEF SignIn, Typed
  <2>2. QED
    BY <1>2, <1>3, <2>1 DEF SignIn, Issue, Anew
<1>4. CASE AuthCallback(t)
  <2>1. LoadPage(t, issued + 1) /\ Quiet
    BY <1>4, LoadQuiet DEF AuthCallback
  <2>2. \A u \in Tabs : tab'[u].leaving = 0
    BY <1>2, <2>1 DEF LoadPage, Guest, Typed
  <2>3. QED
    BY <1>2, <1>4, <2>1, <2>2 DEF AuthCallback, Issue, Quiet, Anew
<1>5. QED
  BY <1>3, <1>4

\* What a step that needs no excuse can do to the session.
LEMMA UnexcusedSteps ==
  ASSUME Typed, SafeInv, [Next]_sessionVars, ~excused'
  PROVE  \/ KeepsAll \/ Anew
         \/ /\ SameTabs
            /\ \E r \in Refreshes : Starts(r) \/ RefreshChecks(r) \/ RefreshIssues(r)
                                    \/ RefreshAnswered(r)
<1>1. ASSUME UNCHANGED <<stored, alive, refresh, tab>>, ~excused
      PROVE  KeepsAll
  BY <1>1 DEF KeepsAll
<1>2. ASSUME NEW t \in Tabs, OpenTab(t)
      PROVE  KeepsAll
  <2>1. ~excused /\ refresh' = refresh /\ tab' = [tab EXCEPT ![t] = Guest]
    BY <1>2 DEF OpenTab, LoadPage
  <2>2. \A u \in Tabs : tab'[u].leaving \in {tab[u].leaving, 0}
    BY <2>1 DEF Typed, Guest
  <2>3. QED
    BY <1>2, <2>1, <2>2 DEF OpenTab, KeepsAll, tokens
<1>3. ASSUME NEW t \in Tabs, LogoutStarts(t) \/ LogoutEnds(t)
      PROVE  FALSE
  BY <1>3 DEF LogoutStarts, LogoutEnds, SafeInv
<1>4. ASSUME NEW t \in Tabs, NEW q \in Requests, Succeeds(t, q)
      PROVE  KeepsAll
  <2>1. \A u \in Tabs : tab'[u].leaving = tab[u].leaving
    BY <1>4, SignedSet DEF Succeeds, Typed
  <2>2. QED
    BY <1>4, <2>1 DEF Succeeds, KeepsAll, tokens
<1>5. ASSUME NEW t \in Tabs, NEW q \in Requests, Refused(t, q)
      PROVE  KeepsAll \/ (SameTabs /\ \E r \in Refreshes : Starts(r))
  <2>1. CASE stored = 0
    <3>1. \A u \in Tabs : tab'[u].leaving = tab[u].leaving
      BY <1>5, <2>1, SignedSet DEF Refused, Unauthorized, Typed
    <3>2. QED
      BY <1>5, <2>1, <3>1 DEF Refused, Unauthorized, KeepsAll, tokens
  <2>2. CASE stored # 0
    <3>1. tab' = tab /\ UNCHANGED <<stored, tokens>> /\ JoinRefresh(t, q)
      BY <1>5, <2>2 DEF Refused
    <3>2. (UNCHANGED <<refresh, excused>>) \/ \E r \in Refreshes : Starts(r)
      BY <2>2, <3>1 DEF JoinRefresh, Starts, tokens
    <3>3. ~excused
      BY <3>1 DEF JoinRefresh
    <3>4. QED
      BY <3>1, <3>2, <3>3 DEF KeepsAll, SameTabs, tokens
  <2>3. QED
    BY <2>1, <2>2
<1>6. ASSUME NEW t \in Tabs, NEW q \in Requests, RefusedAgain(t, q)
      PROVE  KeepsAll
  BY <1>6, <1>1 DEF RefusedAgain, Drops, tokens
<1>7. ASSUME NEW t \in Tabs, NEW q \in Requests, Fails(t, q)
      PROVE  FALSE
  BY <1>7 DEF Fails
<1>8. ASSUME NEW r \in Refreshes, RefreshChecks(r) \/ RefreshIssues(r)
      PROVE  SameTabs
  BY <1>8 DEF RefreshChecks, RefreshIssues, SameTabs
<1>9. ASSUME NEW r \in Refreshes, RefreshAnswered(r)
      PROVE  SameTabs
  <2>1. refresh[r].pc = "issued" /\ ~excused
    BY <1>9 DEF RefreshAnswered, SafeInv
  <2>2. tab' = tab
    BY <1>9, <2>1 DEF RefreshAnswered, RefreshEnds
  <2>3. QED
    BY <2>1, <2>2 DEF SameTabs
<1>10. ASSUME NEW r \in Refreshes, RefreshLost(r)
       PROVE  FALSE
  BY <1>10 DEF RefreshLost
<1>11. ASSUME NEW t \in Tabs, NEW q \in Requests, Send(t, q)
       PROVE  KeepsAll
  BY <1>11, <1>1 DEF Send, tokens
<1>12. ASSUME NEW n \in Pairs, Expire(n)
       PROVE  KeepsAll
  BY <1>12, <1>1 DEF Expire
<1>13. UNCHANGED sessionVars => KeepsAll
  BY <1>1 DEF sessionVars
<1>14. QED
  BY <1>2, <1>3, <1>4, <1>5, <1>6, <1>7, <1>8, <1>9, <1>10, <1>11, <1>12, <1>13, SignsInAnew
     DEF Next, LoginPage, UserMenu, CallStep, RefreshStep

\* Every step keeps SafeInv, and empties the store only with an excuse.
LEMMA SafeNext ==
  ASSUME Typed, Numbers, Fresh, SafeInv, [Next]_sessionVars
  PROVE  /\ SafeInv'
         /\ stored # 0 /\ stored' = 0 => excused'
<1> SUFFICES ASSUME ~excused'
             PROVE  SafeInv' /\ (stored # 0 => stored' # 0)
  BY DEF SafeInv
<1>0. /\ issued \in Nat /\ stored \in 0..issued /\ alive \subseteq 1..issued
      /\ \A r \in Refreshes : refresh[r].token \in 0..issued /\ refresh[r].new \in 0..issued
      /\ \A r \in Refreshes : refresh[r].pc # "free" <=> refresh[r].token # 0
  BY SessionAssumption DEF Typed, RefreshType, Numbers
<1>1. CASE KeepsAll
  BY <1>1 DEF KeepsAll, SafeInv, Apart
<1>2. CASE Anew
  BY <1>0, <1>2 DEF Anew, SafeInv, Apart
<1>3. ASSUME SameTabs, NEW r \in Refreshes, Starts(r)
      PROVE  SafeInv' /\ (stored # 0 => stored' # 0)
  <2>1. PICK t \in Tabs : refresh' = [refresh EXCEPT ![r] = [pc |-> "asked", tab |-> t,
                                                            token |-> stored, new |-> 0]]
    BY <1>3 DEF Starts
  <2>2. /\ \A k \in Refreshes \ {r} : refresh'[k] = refresh[k]
        /\ refresh'[r].pc = "asked" /\ refresh'[r].token = stored /\ refresh'[r].tab # NoTab
    BY <2>1, SessionAssumption DEF Typed
  <2>3. /\ \A k \in Refreshes : refresh[k].token # stored
        /\ stored # 0 /\ UNCHANGED <<stored, alive>> /\ refresh[r].pc = "free"
    BY <1>3 DEF Starts
  <2>4. stored \in alive
    BY <1>3, <2>3 DEF SafeInv, SameTabs
  <2>5. Apart'
    BY <1>3, <2>2, <2>3 DEF Apart, SafeInv, SameTabs
  <2>6. QED
    BY <1>3, <2>2, <2>3, <2>4, <2>5 DEF SafeInv, SameTabs
<1>4. ASSUME SameTabs, NEW r \in Refreshes, RefreshChecks(r)
      PROVE  SafeInv' /\ (stored # 0 => stored' # 0)
  <2>1. /\ refresh[r].pc = "asked" /\ refresh[r].token \in alive
        /\ UNCHANGED <<stored, alive>>
    BY <1>4 DEF RefreshChecks, SafeInv, SameTabs, tokens
  <2>2. /\ \A k \in Refreshes \ {r} : refresh'[k] = refresh[k]
        /\ refresh'[r].pc = "checked" /\ refresh'[r].token = refresh[r].token
    BY <1>4, <2>1, RefreshChecksSet
  <2>3. refresh'[r].tab = refresh[r].tab
    <3>1. refresh'[r] = [refresh[r] EXCEPT !.pc = IF refresh[r].token \in alive
                                                  THEN "checked" ELSE "refused"]
      BY <1>4 DEF RefreshChecks, Typed
    <3>2. refresh[r] \in RefreshType
      BY DEF Typed
    <3>3. QED
      BY <3>1, <3>2 DEF RefreshType
  <2>4. Apart'
    BY <1>4, <2>1, <2>2 DEF Apart, SafeInv, SameTabs
  <2>5. QED
    BY <1>4, <2>1, <2>2, <2>3, <2>4 DEF SafeInv, SameTabs
<1>5. ASSUME SameTabs, NEW r \in Refreshes, RefreshIssues(r)
      PROVE  SafeInv' /\ (stored # 0 => stored' # 0)
  <2>1. /\ refresh[r].pc = "checked" /\ stored' = stored
        /\ alive' = (alive \ {refresh[r].token}) \cup {issued + 1}
    BY <1>5 DEF RefreshIssues, Issue
  <2>2. /\ \A k \in Refreshes \ {r} : refresh'[k] = refresh[k]
        /\ refresh'[r].pc = "issued" /\ refresh'[r].token = refresh[r].token
        /\ refresh'[r].new = issued + 1
    BY <1>5, RefreshIssuesSet
  <2>3. refresh'[r].tab = refresh[r].tab
    <3>1. refresh'[r] = [refresh[r] EXCEPT !.pc = "issued", !.new = issued + 1]
      BY <1>5 DEF RefreshIssues, Typed
    <3>2. refresh[r] \in RefreshType
      BY DEF Typed
    <3>3. QED
      BY <3>1, <3>2 DEF RefreshType
  <2>4. Apart'
    BY <1>5, <2>1, <2>2 DEF Apart, SafeInv, SameTabs
  <2>5. ASSUME NEW k \in Refreshes
        PROVE  /\ refresh'[k].pc # "refused"
               /\ refresh'[k].pc = "asked" => refresh'[k].token \in alive'
               /\ refresh'[k].pc = "issued" => refresh'[k].new \in alive'
               /\ refresh'[k].pc # "free" => refresh'[k].tab # NoTab
    <3>1. CASE k = r
      BY <1>5, <2>1, <2>2, <2>3, <3>1 DEF SafeInv, SameTabs
    <3>2. CASE k # r
      <4>1. refresh'[k] = refresh[k]
        BY <2>2, <3>2
      <4>2. refresh[k].pc = "asked" => refresh[k].token # refresh[r].token
        BY <1>5, <2>1, <3>2 DEF SafeInv, SameTabs, Apart
      <4>3. refresh[k].pc = "issued" => refresh[k].new # refresh[r].token
        BY DEF Fresh
      <4>4. QED
        BY <1>5, <2>1, <4>1, <4>2, <4>3 DEF SafeInv, SameTabs
    <3>3. QED
      BY <3>1, <3>2
  <2>6. stored # 0 => \/ stored \in alive'
                     \/ \E k \in Refreshes : refresh'[k].pc = "issued"
                                             /\ refresh'[k].token = stored
    <3>1. CASE stored = refresh[r].token
      BY <2>2, <3>1
    <3>2. CASE stored # refresh[r].token
      BY <1>5, <2>1, <2>2, <3>2 DEF SafeInv, SameTabs
    <3>3. QED
      BY <3>1, <3>2
  <2>7. QED
    BY <1>5, <2>1, <2>4, <2>5, <2>6 DEF SafeInv, SameTabs
<1>6. ASSUME SameTabs, NEW r \in Refreshes, RefreshAnswered(r)
      PROVE  SafeInv' /\ (stored # 0 => stored' # 0)
  <2>1. refresh[r].pc = "issued" /\ refresh[r].tab # NoTab /\ refresh[r].new \in alive
    BY <1>6 DEF RefreshAnswered, SafeInv, SameTabs
  <2>2. stored' = refresh[r].new /\ alive' = alive /\ refresh' = [refresh EXCEPT ![r] = Free]
    BY <1>6, <2>1 DEF RefreshAnswered, RefreshEnds, tokens
  <2>3. /\ \A k \in Refreshes \ {r} : refresh'[k] = refresh[k]
        /\ refresh'[r].pc = "free" /\ refresh'[r].token = 0
    BY <2>2 DEF Typed, Free
  <2>4. Apart'
    BY <1>0, <1>6, <2>3 DEF Apart, SafeInv, SameTabs
  <2>5. stored' # 0
    BY <1>0, <2>1, <2>2
  <2>6. QED
    BY <1>6, <2>1, <2>2, <2>3, <2>4, <2>5 DEF SafeInv, SameTabs
<1>7. QED
  BY <1>1, <1>2, <1>3, <1>4, <1>5, <1>6, UnexcusedSteps

\* The invariants of StaysSignedIn hold initially.
LEMMA InitSafe == Init => Fresh /\ SafeInv
<1> SUFFICES ASSUME Init PROVE Fresh /\ SafeInv
  OBVIOUS
<1>1. /\ \A r \in Refreshes : refresh[r].pc = "free" /\ refresh[r].token = 0
                              /\ refresh[r].new = 0
      /\ \A t \in Tabs : tab[t].leaving = 0
  BY DEF Init, Free, Guest
<1>2. QED
  BY <1>1 DEF Init, Fresh, SafeInv, Apart

(* The tokens leave the browser only with an excuse: a logout, a call that *)
(* failed, a page that was left, or two refreshes of one token.            *)
THEOREM StaysIn == Spec => StaysSignedIn
<1>1. Init => Typed /\ Numbers /\ Fresh /\ SafeInv
  BY InitTyped, InitOne, InitSafe
<1>2. Typed /\ Numbers /\ Fresh /\ SafeInv /\ [Next]_sessionVars
        => (Typed /\ Numbers /\ Fresh /\ SafeInv)'
  BY NextTyped, NumbersNext, FreshNext, SafeNext
<1>3. Typed /\ Numbers /\ Fresh /\ SafeInv /\ [Next]_sessionVars
        => [stored # 0 /\ stored' = 0 => excused']_sessionVars
  BY SafeNext
<1>4. QED
  BY <1>1, <1>2, <1>3, PTL DEF Spec, StaysSignedIn

=============================================================================
