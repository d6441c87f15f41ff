----------------------------- MODULE WebSession -----------------------------
(***************************************************************************)
(* The session of a browser (apps/web/src/api/client.ts,                   *)
(* store/authStore.ts) with the tokens of the server                       *)
(* (internal/modules/auth/service.go).  The tabs share the tokens in       *)
(* localStorage; each has its own page, its own calls and at most one      *)
(* refresh of its own under way.  A pair of tokens is a number.            *)
(***************************************************************************)
EXTENDS Naturals, FiniteSets, WebApi

CONSTANTS
  Tabs, NoTab,
  Requests,       \* calls that a tab may have open at once
  MaxOpen,        \* calls that the tabs have open when one is sent (bound)
  Refreshes,      \* refreshes under way at once (bound)
  NoRefresh,
  MaxTokens       \* pairs of tokens issued (bound)

ASSUME SessionAssumption ==
  /\ NoTab \notin Tabs
  /\ NoRefresh \notin Refreshes
  /\ MaxTokens \in Nat /\ MaxOpen \in Nat

VARIABLES
  stored,         \* the pair in localStorage, or 0
  issued,         \* pairs issued so far
  login,          \* login[n]: the sign-in that pair n descends from
  alive,          \* pairs whose refresh token is not revoked
  valid,          \* pairs whose access token is neither expired nor revoked
  tab,            \* tab[t]: its page: signed in, and the pair a logout gives up
  req,            \* req[t][q]: a call
  refresh,        \* refresh[r]: a call of /auth/refresh, client and server
  excused,        \* history: since the last sign-in (when nothing was under way) a
                  \* call failed, a tab left, or two refreshed one token at once
  doubled         \* history: two refreshes of one token were under way

sessionVars == <<stored, issued, login, alive, valid, tab, req, refresh, excused, doubled>>
tokens == <<issued, login, alive, valid>>

Pairs == 1..MaxTokens
IdleReq == [pc |-> "idle", for |-> "call", guarded |-> FALSE, token |-> 0,
            on |-> NoRefresh]
Free == [pc |-> "free", tab |-> NoTab, token |-> 0, new |-> 0]

TypeOK ==
  /\ stored \in 0..MaxTokens /\ issued \in 0..MaxTokens
  /\ login \in [Pairs -> 0..MaxTokens]
  /\ alive \subseteq Pairs /\ valid \subseteq Pairs
  /\ tab \in [Tabs -> [signed : BOOLEAN, leaving : 0..MaxTokens]]
  /\ req \in [Tabs -> [Requests ->
       [pc : {"idle", "sent", "waiting", "resent"}, for : {"call", "init"},
        guarded : BOOLEAN, token : 0..MaxTokens, on : Refreshes \cup {NoRefresh}]]]
  /\ refresh \in [Refreshes -> [pc : {"free", "asked", "checked", "refused", "issued"},
                                tab : Tabs \cup {NoTab}, token : 0..MaxTokens,
                                new : 0..MaxTokens]]
  /\ \A t \in Tabs, q \in Requests :
       req[t][q].pc = "waiting" => req[t][q].on # NoRefresh
  /\ excused \in BOOLEAN /\ doubled \in BOOLEAN

Guest == [signed |-> FALSE, leaving |-> 0]

Init ==
  /\ stored = 0 /\ issued = 0
  /\ login = [n \in Pairs |-> 0]
  /\ alive = {} /\ valid = {}
  /\ tab = [t \in Tabs |-> Guest]
  /\ req = [t \in Tabs |-> [q \in Requests |-> IdleReq]]
  /\ refresh = [r \in Refreshes |-> Free]
  /\ excused = FALSE /\ doubled = FALSE

OpenCalls == {c \in Tabs \X Requests : req[c[1]][c[2]].pc # "idle"}
Busy ==
  \/ OpenCalls # {} \/ \E t \in Tabs : tab[t].leaving # 0
  \/ \E r \in Refreshes : refresh[r].pc # "free"

-----------------------------------------------------------------------------
(* The server's tokens *)

\* issueTokens, for a sign-in or for one that pair n descends from.
Issue(n, rest) ==
  /\ issued < MaxTokens
  /\ issued' = issued + 1
  /\ login' = [login EXCEPT ![issued + 1] = IF n = 0 THEN issued + 1 ELSE login[n]]
  /\ alive' = rest \cup {issued + 1}
  /\ valid' = valid \cup {issued + 1}

\* The access token lives 15 minutes; one that no tab will send is left alone.
Expire(n) ==
  /\ n \in valid
  /\ n = stored \/ \E c \in OpenCalls : req[c[1]][c[2]].token = n
  /\ valid' = valid \ {n}
  /\ UNCHANGED <<stored, issued, login, alive, tab, req, refresh, excused, doubled>>

-----------------------------------------------------------------------------
(* Signing in and out *)

\* login and register: the tokens are stored and the page is signed in.
SignIn(t) ==
  /\ Issue(0, alive)
  /\ stored' = issued + 1
  /\ tab' = [tab EXCEPT ![t].signed = TRUE]
  /\ excused' = Busy
  /\ UNCHANGED <<req, refresh, doubled>>

\* A page is loaded: what it was is gone, but its calls go on at the server.
\* init reads the tokens; without them the page is a guest's.
LoadPage(t, token) ==
  /\ tab' = [tab EXCEPT ![t] = Guest]
  /\ refresh' = [r \in Refreshes |->
       IF refresh[r].tab = t THEN [refresh[r] EXCEPT !.tab = NoTab] ELSE refresh[r]]
  /\ \E q \in Requests :
       req' = [req EXCEPT ![t] = [k \in Requests |->
         IF k = q /\ token # 0
         THEN [pc |-> "sent", for |-> "init", guarded |-> TRUE, token |-> token,
               on |-> NoRefresh]
         ELSE IdleReq]]

\* AuthBootstrap, of a tab that is opened or loaded again.
OpenTab(t) ==
  /\ LoadPage(t, stored)
  /\ excused' = (excused \/ refresh' # refresh \/ tab[t].leaving # 0)
  /\ UNCHANGED <<stored, tokens, doubled>>

\* AuthCallbackPage: the server sends the browser back with a pair of tokens.
AuthCallback(t) ==
  /\ Issue(0, alive)
  /\ stored' = issued + 1
  /\ LoadPage(t, issued + 1)
  /\ excused' = Busy
  /\ UNCHANGED doubled

LogoutStarts(t) ==
  /\ tab[t].leaving = 0
  /\ tab' = [tab EXCEPT ![t] = IF stored = 0 THEN Guest ELSE [@ EXCEPT !.leaving = stored]]
  /\ excused' = TRUE
  /\ UNCHANGED <<stored, tokens, req, refresh, doubled>>

\* The server revokes the pair, or the call fails; then clearTokens.
LogoutEnds(t) ==
  /\ tab[t].leaving # 0
  /\ stored' = 0
  /\ tab' = [tab EXCEPT ![t] = Guest]
  /\ \/ alive' = alive \ {tab[t].leaving} /\ valid' = valid \ {tab[t].leaving}
     \/ UNCHANGED <<alive, valid>>
  /\ UNCHANGED <<issued, login, req, refresh, excused, doubled>>

-----------------------------------------------------------------------------
(* Calls: request *)

\* A page calls what is guarded once it is signed in; calls that are not
\* guarded are never refused for a token and are left out.
Send(t, q) ==
  /\ tab[t].signed /\ stored # 0
  /\ req[t][q].pc = "idle" /\ Cardinality(OpenCalls) < MaxOpen
  /\ \E k \in Kinds :
       /\ k.guarded
       /\ req' = [req EXCEPT ![t][q] =
            [pc |-> "sent", for |-> "call", guarded |-> TRUE,
             token |-> IF k.auth THEN stored ELSE 0, on |-> NoRefresh]]
  /\ UNCHANGED <<stored, tokens, tab, refresh, excused, doubled>>

Answered(t, q) == req[t][q].pc \in {"sent", "resent"}
Accepted(t, q) == req[t][q].guarded => req[t][q].token \in valid

\* init signs the page in.
Succeeds(t, q) ==
  /\ Answered(t, q) /\ Accepted(t, q)
  /\ req' = [req EXCEPT ![t][q] = IdleReq]
  /\ tab' = [tab EXCEPT ![t].signed = @ \/ req[t][q].for = "init"]
  /\ UNCHANGED <<stored, tokens, refresh, excused, doubled>>

\* init's catch clears the tokens, whatever failed.
Drops(t, q) ==
  /\ req' = [req EXCEPT ![t][q] = IdleReq]
  /\ IF req[t][q].for = "init"
     THEN stored' = 0 /\ tab' = [tab EXCEPT ![t].signed = FALSE]
     ELSE UNCHANGED <<stored, tab>>
  /\ UNCHANGED <<tokens, refresh, doubled>>

Fails(t, q) ==
  /\ Answered(t, q)
  /\ excused' = TRUE
  /\ Drops(t, q)

\* onUnauthorized
Unauthorized(t) ==
  /\ stored' = 0
  /\ tab' = [tab EXCEPT ![t].signed = FALSE]

\* Mutant: each 401 starts a refresh of its own.
JoinRefreshAlone(t, q) ==
  \E r \in Refreshes :
    /\ refresh[r].pc = "free"
    /\ refresh' = [refresh EXCEPT ![r] = [pc |-> "asked", tab |-> t, token |-> stored,
                                          new |-> 0]]
    /\ req' = [req EXCEPT ![t][q].pc = "waiting", ![t][q].on = r]
    /\ LET twice == \E k \in Refreshes : refresh[k].token = stored /\ refresh[k].tab # t IN
         doubled' = (doubled \/ twice) /\ excused' = (excused \/ twice)

\* refreshSession: the refresh that the tab has under way, or a new one.
JoinRefresh(t, q) ==
  \E r \in Refreshes :
    /\ IF \E k \in Refreshes : refresh[k].tab = t
       THEN refresh[r].tab = t /\ UNCHANGED <<refresh, doubled, excused>>
       ELSE /\ refresh[r].pc = "free"
            /\ refresh' = [refresh EXCEPT ![r] = [pc |-> "asked", tab |-> t,
                                                  token |-> stored, new |-> 0]]
            /\ LET twice == \E k \in Refreshes : refresh[k].token = stored IN
                 doubled' = (doubled \/ twice) /\ excused' = (excused \/ twice)
    /\ req' = [req EXCEPT ![t][q].pc = "waiting", ![t][q].on = r]

\* A 401: refresh and try once more, or give the session up.
Refused(t, q) ==
  /\ req[t][q].pc = "sent" /\ ~Accepted(t, q)
  /\ IF stored # 0
     THEN JoinRefresh(t, q) /\ UNCHANGED <<stored, tab>>
     ELSE /\ req' = [req EXCEPT ![t][q] = IdleReq]
          /\ Unauthorized(t)
          /\ UNCHANGED <<refresh, excused, doubled>>
  /\ UNCHANGED tokens

\* A second 401 is an error of the call, no more.
RefusedAgain(t, q) ==
  /\ req[t][q].pc = "resent" /\ ~Accepted(t, q)
  /\ excused' = (excused \/ req[t][q].for = "init")
  /\ Drops(t, q)

-----------------------------------------------------------------------------
(* A refresh: Refresh of service.go, and what the tab makes of the answer *)

RefreshChecks(r) ==
  /\ refresh[r].pc = "asked"
  /\ refresh' = [refresh EXCEPT ![r].pc =
       IF refresh[r].token \in alive THEN "checked" ELSE "refused"]
  /\ UNCHANGED <<stored, tokens, tab, req, excused, doubled>>

\* Mutant: the old token is not revoked.
RefreshIssuesBeside(r) ==
  /\ refresh[r].pc = "checked"
  /\ Issue(refresh[r].token, alive)
  /\ refresh' = [refresh EXCEPT ![r].pc = "issued", ![r].new = issued + 1]
  /\ UNCHANGED <<stored, tab, req, excused, doubled>>

\* Whether the token still stood is not asked again.
RefreshIssues(r) ==
  /\ refresh[r].pc = "checked"
  /\ Issue(refresh[r].token, alive \ {refresh[r].token})
  /\ refresh' = [refresh EXCEPT ![r].pc = "issued", ![r].new = issued + 1]
  /\ UNCHANGED <<stored, tab, req, excused, doubled>>

\* All calls that wait go on in one stretch: with the new token, or into
\* onUnauthorized and an error.
RefreshEnds(r, ok) ==
  LET t == refresh[r].tab IN
  /\ refresh' = [refresh EXCEPT ![r] = Free]
  /\ IF t = NoTab
     THEN UNCHANGED <<stored, tab, req>>
     ELSE /\ req' = [req EXCEPT ![t] = [q \in Requests |->
               IF req[t][q].on # r THEN req[t][q]
               ELSE IF ok THEN [req[t][q] EXCEPT !.pc = "resent", !.on = NoRefresh,
                                                 !.token = refresh[r].new]
               ELSE IdleReq]]
          /\ IF ok THEN stored' = refresh[r].new /\ UNCHANGED tab ELSE Unauthorized(t)
  /\ UNCHANGED <<tokens, doubled>>

RefreshAnswered(r) ==
  /\ refresh[r].pc \in {"issued", "refused"}
  /\ RefreshEnds(r, refresh[r].pc = "issued")
  /\ UNCHANGED excused

\* The call or its answer is lost, or the server fails.
RefreshLost(r) ==
  /\ refresh[r].pc # "free"
  /\ excused' = TRUE
  /\ RefreshEnds(r, FALSE)

-----------------------------------------------------------------------------
\* The form is a guest's; a page that is signed in goes on to returnTo.
LoginPage(t) == ~tab[t].signed /\ SignIn(t)

\* "Log out" is in the menu of an account.
UserMenu(t) == tab[t].signed /\ LogoutStarts(t)

RefreshStep(r) == RefreshChecks(r) \/ RefreshIssues(r) \/ RefreshAnswered(r)
CallStep(t, q) == Succeeds(t, q) \/ Refused(t, q) \/ RefusedAgain(t, q)

Next ==
  \/ \E n \in Pairs : Expire(n)
  \/ \E t \in Tabs :
       \/ LoginPage(t) \/ UserMenu(t) \/ OpenTab(t) \/ AuthCallback(t) \/ LogoutEnds(t)
       \/ \E q \in Requests : Send(t, q) \/ CallStep(t, q) \/ Fails(t, q)
  \/ \E r \in Refreshes : RefreshStep(r) \/ RefreshLost(r)

Spec == Init /\ [][Next]_sessionVars

-----------------------------------------------------------------------------
(* Properties *)

(* The tokens leave the browser only after a logout, a failed call, a page *)
(* that was left with a refresh under way, or two refreshes of one token:  *)
(* however many calls of a page are refused together when the access token *)
(* expires, and in whatever order their refusals and the refresh come, the *)
(* session goes on.                                                        *)
StaysSignedIn ==
  [][stored # 0 /\ stored' = 0 => excused']_sessionVars

(* A sign-in has one refresh token that is not revoked, at most, through   *)
(* any number of refreshes, unless two tabs refreshed one token at once.   *)
OneLivingToken ==
  ~doubled => \A m, n \in alive : login[m] = login[n] => m = n

(* A call that the server guards is sent with the token.                   *)
GuardedCallsCarryToken ==
  \A t \in Tabs, q \in Requests :
    req[t][q].pc # "idle" /\ req[t][q].guarded => req[t][q].token # 0
=============================================================================
