----------------------------- MODULE WebLibrary -----------------------------
(***************************************************************************)
(* The liked tracks of a listener in one tab (apps/web/src/store/          *)
(* libraryStore.ts): a guest's in localStorage (lib/localLibrary.ts), an   *)
(* account's at the server, and the import that moves the first to the     *)
(* second at a sign-in (store/authStore.ts); and the tracks kept for       *)
(* playing offline (lib/offlineTracks.ts), which must be liked ones.       *)
(***************************************************************************)
EXTENDS Naturals, FiniteSets

CONSTANTS
  Tracks, NoTrack,
  Lists,           \* playlists of an older client that localStorage may hold
  EmptyLists,      \* those of them without tracks, or that held the likes
  Calls,           \* likes and unlikes under way at once (bound)
  Downloads,       \* downloads under way at once (bound)
  MaxTracks,       \* OFFLINE_MAX_TRACKS, and the server's MaxDownloadsPerUser
  MaxActs,         \* what the listener does (bound)
  MaxTroubles      \* calls that fail and records that expire (bound)

ASSUME LibraryAssumption ==
  /\ NoTrack \notin Tracks /\ EmptyLists \subseteq Lists
  /\ IsFiniteSet(Tracks) /\ IsFiniteSet(Downloads)
  /\ MaxTracks \in Nat \ {0} /\ MaxActs \in Nat /\ MaxTroubles \in Nat

VARIABLES
  page,      \* the tab: signed in, and likedIds and loaded of the store
  browser,   \* localStorage: the tokens, a guest's likes and lists, MIGRATED_KEY
  account,   \* the server: likes (and all it was ever given, for the history),
             \* copies of each list imported, downloads
  visit,     \* init or login while it runs
  call,      \* call[c]: a toggleLiked that awaits the server
  download,  \* download[d]: a downloadTrackForOffline
  held,      \* the records in IndexedDB
  expired,   \* those past expires_at
  acts, troubles,
  lost,      \* history: imports that arrived and whose answer did not
  crossed    \* history: calls overlapped, or one arrived and its answer did not

libraryVars == <<page, browser, account, visit, call, download, held, expired,
                 acts, troubles, lost, crossed>>

NoCall == [at |-> "idle", track |-> NoTrack, like |-> FALSE, next |-> {}]
NoVisit == [at |-> "none", of |-> "login", liked |-> {}, lists |-> {}]
NoDownload == [at |-> "idle", track |-> NoTrack]
EmptyStore == [signed |-> FALSE, liked |-> {}, loaded |-> FALSE]

\* A page that is open: a guest's, or one of an account that left nothing behind
\* in the browser.
Init ==
  /\ page \in [signed : BOOLEAN, liked : {{}, Tracks}, loaded : {TRUE}]
  /\ \E lists \in SUBSET Lists :
       /\ browser = [token |-> page.signed, liked |-> {}, lists |-> lists,
                     migrated |-> FALSE]
       /\ page.signed => lists = {}
  /\ \E liked \in {{}, Tracks} :
       /\ account = [liked |-> liked, given |-> liked, copies |-> [p \in Lists |-> 0],
                     downloads |-> {}]
       /\ page.liked = IF page.signed THEN liked ELSE {}
  /\ visit = NoVisit
  /\ call = [c \in Calls |-> NoCall]
  /\ download = [d \in Downloads |-> NoDownload]
  /\ held = {} /\ expired = {}
  /\ acts = 0 /\ troubles = 0 /\ lost = 0 /\ crossed = FALSE

Acts == acts < MaxActs /\ acts' = acts + 1 /\ UNCHANGED troubles
Trouble == troubles < MaxTroubles /\ troubles' = troubles + 1 /\ UNCHANGED acts
Goes == UNCHANGED <<acts, troubles>>
offline == <<download, held, expired>>
history == <<lost, crossed>>

\* A call to the server is under way.
Waiting == visit.at # "none" \/ \E c \in Calls : call[c].at # "idle"
Crosses(does) == crossed' = (crossed \/ does)

-----------------------------------------------------------------------------
(* Loading the store *)

\* load(false)
GuestStore == [signed |-> FALSE, liked |-> browser.liked, loaded |-> TRUE]

\* hasLegacyLibraryData and buildImportPayload
ToImport == browser.lists \ EmptyLists
HasLegacy == ~browser.migrated /\ (browser.liked # {} \/ browser.lists # {})

\* markLibraryMigrated
Migrated == [browser EXCEPT !.liked = {}, !.lists = {}, !.migrated = TRUE]

\* init of a page that is loaded: what was running in it is gone.
OpenPage ==
  /\ Acts
  /\ call' = [c \in Calls |-> NoCall]
  /\ download' = [d \in Downloads |-> NoDownload]
  /\ IF browser.token
     THEN page' = EmptyStore /\ visit' = [NoVisit EXCEPT !.at = "me", !.of = "init"]
     ELSE page' = GuestStore /\ visit' = NoVisit
  /\ lost' = lost + (IF visit.at = "imported" THEN 1 ELSE 0)
  /\ crossed' = FALSE
  /\ UNCHANGED <<browser, account, held, expired>>

\* login and register (bound: not before an earlier one has ended)
SignIn ==
  /\ ~page.signed /\ visit.at = "none" /\ page.loaded
  /\ Acts
  /\ browser' = [browser EXCEPT !.token = TRUE]
  /\ page' = [page EXCEPT !.signed = TRUE]
  /\ visit' = [NoVisit EXCEPT !.at = "load"]
  /\ Crosses(Waiting)
  /\ UNCHANGED <<account, call, offline, lost>>

MeAnswers ==
  /\ visit.at = "me"
  /\ page' = [page EXCEPT !.signed = TRUE]
  /\ visit' = [visit EXCEPT !.at = "load"]
  /\ Goes /\ UNCHANGED <<browser, account, call, offline, history>>

\* load(true): the server answers with the likes it has now.
LoadArrives ==
  /\ visit.at \in {"load", "reload"} /\ browser.token
  /\ visit' = [visit EXCEPT !.at = IF @ = "load" THEN "loaded" ELSE "reloaded",
                            !.liked = account.liked]
  /\ Goes /\ UNCHANGED <<page, browser, account, call, offline, history>>

\* maybeMigrateLibrary, after load(true)
Migrates ==
  IF ~HasLegacy THEN visit' = NoVisit /\ UNCHANGED browser
  ELSE IF browser.liked = {} /\ ToImport = {}
  THEN visit' = NoVisit /\ browser' = Migrated
  ELSE /\ visit' = [visit EXCEPT !.at = "import", !.liked = browser.liked,
                                 !.lists = ToImport]
       /\ UNCHANGED browser

LoadAnswers ==
  /\ visit.at \in {"loaded", "reloaded"}
  /\ page' = [page EXCEPT !.liked = visit.liked, !.loaded = TRUE]
  /\ IF visit.at = "loaded" THEN Migrates ELSE visit' = NoVisit /\ UNCHANGED browser
  /\ Goes /\ UNCHANGED <<account, call, offline, history>>

\* importLibrary: one transaction.
ImportArrives ==
  /\ visit.at = "import" /\ browser.token
  /\ account' = [account EXCEPT
       !.liked = @ \cup visit.liked, !.given = @ \cup visit.liked,
       !.copies = [p \in Lists |-> @[p] + (IF p \in visit.lists THEN 1 ELSE 0)]]
  /\ visit' = [visit EXCEPT !.at = "imported"]
  /\ Goes /\ UNCHANGED <<page, browser, call, offline, history>>

\* Mutant: the browser is not told that its library is imported.
ImportAnswersUnmarked ==
  /\ visit.at = "imported"
  /\ visit' = [visit EXCEPT !.at = "reload"]
  /\ Goes /\ UNCHANGED <<page, browser, account, call, offline, history>>

ImportAnswers ==
  /\ visit.at = "imported"
  /\ browser' = Migrated
  /\ visit' = [visit EXCEPT !.at = "reload"]
  /\ Goes /\ UNCHANGED <<page, account, call, offline, history>>

\* Mutant: the browser's library is cleared whatever became of the import.
\* The catch of maybeMigrateLibrary keeps it "until next login".
ImportFailsClears ==
  /\ visit.at \in {"import", "imported", "reload", "reloaded"}
  /\ Trouble
  /\ visit' = NoVisit /\ browser' = Migrated
  /\ lost' = lost + (IF visit.at = "imported" THEN 1 ELSE 0)
  /\ Crosses(visit.at # "import")
  /\ UNCHANGED <<page, account, call, offline>>

ImportFails ==
  /\ visit.at \in {"import", "imported", "reload", "reloaded"}
  /\ Trouble
  /\ visit' = NoVisit
  /\ lost' = lost + (IF visit.at = "imported" THEN 1 ELSE 0)
  /\ Crosses(visit.at # "import")
  /\ UNCHANGED <<page, browser, account, call, offline>>

\* What comes before fails: init gives up the tokens, login only rejects.
VisitFails ==
  /\ visit.at \in {"me", "load", "loaded"}
  /\ Trouble
  /\ visit' = NoVisit
  /\ IF visit.of = "init"
     THEN browser' = [browser EXCEPT !.token = FALSE] /\ page' = GuestStore
     ELSE UNCHANGED <<browser, page>>
  /\ Crosses(TRUE)
  /\ UNCHANGED <<account, call, offline, lost>>

\* logout, or onUnauthorized: the store is reset, not loaded again.
Leaves ==
  /\ page' = EmptyStore
  /\ browser' = [browser EXCEPT !.token = FALSE]
  /\ Crosses(Waiting)
  /\ UNCHANGED <<account, visit, call, offline, lost>>

Logout == page.signed /\ Acts /\ Leaves
Refused == Waiting /\ page.signed /\ Trouble /\ Leaves

-----------------------------------------------------------------------------
(* Likes *)

Toggled(t) == IF t \in page.liked THEN page.liked \ {t} ELSE page.liked \cup {t}

\* toggleLiked of a guest: the store's likes overwrite localStorage.
GuestToggles(t) ==
  /\ ~page.signed /\ visit.at # "me"
  /\ Acts
  /\ page' = [page EXCEPT !.liked = Toggled(t)]
  /\ browser' = [browser EXCEPT !.liked = Toggled(t)]
  /\ UNCHANGED <<account, visit, call, offline, history>>

\* toggleLiked of an account: `next' is computed before the await.
ToggleStarts(t) ==
  /\ page.signed
  /\ Acts
  /\ \E c \in Calls :
       /\ call[c].at = "idle"
       /\ call' = [call EXCEPT ![c] =
            [at |-> "sent", track |-> t, like |-> t \notin page.liked,
             next |-> Toggled(t)]]
  /\ Crosses(Waiting)
  /\ UNCHANGED <<page, browser, account, visit, offline, lost>>

ToggleArrives(c) ==
  /\ call[c].at = "sent" /\ browser.token
  /\ account' = [account EXCEPT !.liked =
       IF call[c].like THEN @ \cup {call[c].track} ELSE @ \ {call[c].track},
       !.given = IF call[c].like THEN @ \cup {call[c].track} ELSE @]
  /\ call' = [call EXCEPT ![c].at = "done"]
  /\ Goes /\ UNCHANGED <<page, browser, visit, offline, history>>

\* Mutant: the answer of a like takes the track out of the store.
ToggleAnswersUnliked(c) ==
  /\ call[c].at = "done"
  /\ page' = [page EXCEPT !.liked = @ \ {call[c].track}]
  /\ call' = [call EXCEPT ![c] = NoCall]
  /\ Goes /\ UNCHANGED <<browser, account, visit, offline, history>>

ToggleAnswers(c) ==
  /\ call[c].at = "done"
  /\ page' = [page EXCEPT !.liked = call[c].next]
  /\ call' = [call EXCEPT ![c] = NoCall]
  /\ Goes /\ UNCHANGED <<browser, account, visit, offline, history>>

ToggleFails(c) ==
  /\ call[c].at # "idle"
  /\ Trouble
  /\ call' = [call EXCEPT ![c] = NoCall]
  /\ Crosses(call[c].at = "done")
  /\ UNCHANGED <<page, browser, account, visit, offline, lost>>

-----------------------------------------------------------------------------
(* Tracks kept for playing offline *)

likes == <<page, browser, visit, call, history>>

\* The test of downloadTrackForOffline.
RoomFor(t) == t \in held \/ Cardinality(held) < MaxTracks

\* The button of TrackPage, of a liked track; getOfflinePackage is called.
DownloadStarts(t) ==
  /\ page.signed /\ t \in page.liked /\ RoomFor(t)
  /\ \A d \in Downloads : download[d].track # t
  /\ Acts
  /\ \E d \in Downloads :
       /\ download[d].at = "idle"
       /\ download' = [download EXCEPT ![d] = [at |-> "asked", track |-> t]]
  /\ UNCHANGED <<likes, account, held, expired>>

\* Mutant: one download too many passes.
AllowedOneMore(t) ==
  /\ browser.token /\ t \in account.liked
  /\ t \in account.downloads \/ Cardinality(account.downloads) <= MaxTracks

Allowed(t) ==
  /\ browser.token /\ t \in account.liked
  /\ t \in account.downloads \/ Cardinality(account.downloads) < MaxTracks

\* BuildPackage tests the like and the count ...
PackageAllowed(d) ==
  /\ download[d].at = "asked" /\ Allowed(download[d].track)
  /\ download' = [download EXCEPT ![d].at = "allowed"]
  /\ Goes /\ UNCHANGED <<likes, account, held, expired>>

\* ... and records the download once it has read the segments.
PackageRecorded(d) ==
  /\ download[d].at = "allowed"
  /\ account' = [account EXCEPT !.downloads = @ \cup {download[d].track}]
  /\ download' = [download EXCEPT ![d].at = "package"]
  /\ Goes /\ UNCHANGED <<likes, held, expired>>

\* The audio is fetched, decrypted and put in IndexedDB.
SaveRecord(d) ==
  /\ download[d].at = "package"
  /\ held' = held \cup {download[d].track}
  /\ expired' = expired \ {download[d].track}
  /\ download' = [download EXCEPT ![d] = NoDownload]
  /\ Goes /\ UNCHANGED <<likes, account>>

DownloadRefused(d) ==
  /\ download[d].at = "asked" /\ ~Allowed(download[d].track)
  /\ download' = [download EXCEPT ![d] = NoDownload]
  /\ Goes /\ UNCHANGED <<likes, account, held, expired>>

DownloadFails(d) ==
  /\ download[d].at # "idle"
  /\ Trouble
  /\ download' = [download EXCEPT ![d] = NoDownload]
  /\ UNCHANGED <<likes, account, held, expired>>

\* removeOfflineTrack: the record goes, the server is told if it can be.
Removed(t, told) ==
  /\ held' = held \ {t} /\ expired' = expired \ {t}
  /\ account' = IF told /\ browser.token
                THEN [account EXCEPT !.downloads = @ \ {t}] ELSE account
  /\ UNCHANGED <<likes, download>>

\* useOfflineDownloads shows the server's list when IndexedDB is empty.
Shown == IF held # {} THEN held ELSE account.downloads

RemoveDownload(t, told) ==
  /\ page.signed /\ t \in Shown
  /\ \A d \in Downloads : download[d].track # t
  /\ Acts /\ Removed(t, told)

Expire(t) ==
  /\ t \in held \ expired
  /\ Trouble
  /\ expired' = expired \cup {t}
  /\ UNCHANGED <<likes, account, download, held>>

\* getOfflinePlayback of a record past its time.
PlayExpired(t, told) == t \in held \cap expired /\ Acts /\ Removed(t, told)

-----------------------------------------------------------------------------
VisitNext ==
  \/ OpenPage \/ SignIn \/ MeAnswers \/ LoadArrives \/ LoadAnswers
  \/ ImportArrives \/ ImportAnswers \/ ImportFails \/ VisitFails
  \/ Logout \/ Refused

LikeNext ==
  \/ \E t \in Tracks : GuestToggles(t) \/ ToggleStarts(t)
  \/ \E c \in Calls : ToggleArrives(c) \/ ToggleAnswers(c) \/ ToggleFails(c)

OfflineNext ==
  \/ \E t \in Tracks, told \in BOOLEAN :
       RemoveDownload(t, told) \/ PlayExpired(t, told)
  \/ \E t \in Tracks : DownloadStarts(t) \/ Expire(t)
  \/ \E d \in Downloads :
       \/ PackageAllowed(d) \/ PackageRecorded(d) \/ SaveRecord(d)
       \/ DownloadRefused(d) \/ DownloadFails(d)

Next == VisitNext \/ LikeNext \/ OfflineNext
Spec == Init /\ [][Next]_libraryVars

-----------------------------------------------------------------------------
(* Properties *)

\* While the listener is signed in, the likes and the playlists of the guest
\* leave localStorage only when the account has them, however the import ends
\* and however often it is tried again (maybeMigrateLibrary).
ImportedBeforeCleared ==
  [][page.signed /\ page'.signed =>
       /\ browser.liked \subseteq browser'.liked \cup account.given
       /\ \A p \in browser.lists \ browser'.lists :
            p \in EmptyLists \/ account.copies[p] > 0]_libraryVars

\* A playlist of the guest is imported a second time only after the answer of
\* an earlier import was lost (ImportLibrary inserts its playlists anew).
ImportedOncePerLoss == \A p \in Lists : account.copies[p] <= 1 + lost

\* Once all calls have ended, and none of them overlapped or arrived without
\* its answer, the store shows what the account, or the browser, has.
AtRestStoreIsTrue ==
  ~Waiting /\ ~crossed /\ page.loaded =>
    page.liked = IF page.signed THEN account.liked ELSE browser.liked

\* Each download tests the limit before its first await, so those under way
\* pass it together; no sequence of downloads passes it by more than that.
OfflineWithinLimit ==
  /\ Cardinality(held) <= MaxTracks + Cardinality(Downloads) - 1
  /\ Cardinality(account.downloads) <= MaxTracks + Cardinality(Downloads) - 1

\* A guest's like stays in localStorage until the guest takes it back or the
\* account has it: LibraryPage.tsx tells a guest that likes and playlists are
\* kept on this device.
GuestLibraryKept ==
  [][\A t \in browser.liked \ browser'.liked :
       t \in page.liked \/ t \in account.given]_libraryVars
=============================================================================
