-------------------------- MODULE WebLibraryProofs --------------------------
(***************************************************************************)
(* Proofs about the library of WebLibrary under the whole collection of    *)
(* WebPlaylists, and about its playlists, for any number of tracks, lists, *)
(* calls, downloads, playlists and edits.                                  *)
(***************************************************************************)
EXTENDS WebPlaylists, FiniteSetTheorems, TLAPS

(* What the steps of the playlists may do to the library: nothing, or load *)
(* it again after an import of a list.                                     *)
Besides ==
  /\ UNCHANGED <<page, browser, account, call, offline, lost>>
  /\ \/ UNCHANGED <<visit, crossed>>
     \/ /\ visit.at = "none" /\ visit' = [NoVisit EXCEPT !.at = "reload"]
        /\ Crosses(Waiting)

\* Every step is one of the likes, the import and the downloads, or is beside them.
LEMMA CollectionSteps ==
  ASSUME [CollectionNext]_collectionVars
  PROVE  Next \/ Besides
<1>1. ASSUME LibraryStep
      PROVE  Next
  BY <1>1 DEF LibraryStep, StoreEmptied, StoreReset, StoreListed, StoreLoaded, Next,
       VisitNext
<1>2. ASSUME PlaylistStep
      PROVE  Besides
  <2>1. ASSUME NEW e \in Edits, Imported(e)
        PROVE  Besides
    BY <2>1 DEF Imported, Besides
  <2>2. ASSUME NEW e \in Edits,
               \/ ReadRow(e) \/ WriteItems(e) \/ WriteFields(e) \/ InsertRow(e)
               \/ JoinRow(e) \/ DropRow(e)
        PROVE  Besides
    BY <2>2 DEF ReadRow, WriteItems, WriteFields, InsertRow, JoinRow, DropRow, Besides,
         server, history, offline
  <2>3. ASSUME NEW e \in Edits,
               \/ Answers(e) \/ CreatedFromQueue(e) \/ EditRefused(e) \/ EditFails(e)
        PROVE  Besides
    BY <2>3 DEF Answers, CreatedFromQueue, EditRefused, EditFails, Besides, library,
         history
  <2>4. ASSUME NEW by, NEW kind, NEW l, NEW list, NEW seen,
               Start(by, kind, l, list, seen)
        PROVE  Besides
    BY <2>4 DEF Start, Besides, library, history
  <2>5. ASSUME NEW l \in Ids, OpenPlaylist(l) \/ FriendEdits(l)
        PROVE  Besides
    BY <2>5 DEF OpenPlaylist, FriendEdits, Besides, library, history
  <2>6. ASSUME NEW l \in Ids, PlaylistRows(l) \/ PlaylistHeader(l) \/ JoinPage(l)
        PROVE  Besides
    BY <2>6, <2>4 DEF PlaylistRows, ReorderTracks, RemoveTrack, PlaylistHeader,
         CollabPanel, EditOrDelete, JoinPage
  <2>7. ASSUME NEW t \in Tracks,
               \/ SaveQueueMenu(t) \/ \E l \in Ids : AddToPlaylistMenu(l, t)
        PROVE  Besides
    BY <2>7, <2>4 DEF SaveQueueMenu, AddToPlaylistMenu
  <2>8. ASSUME LibraryPage
        PROVE  Besides
    BY <2>8, <2>4, <2>5 DEF LibraryPage, CreatePlaylist, PlaylistImportPanel,
         ConfirmImport
  <2>9. QED
    BY <1>2, <2>1, <2>2, <2>3, <2>5, <2>6, <2>7, <2>8 DEF PlaylistStep
<1>3. ASSUME UNCHANGED collectionVars
      PROVE  Besides
  BY <1>3 DEF collectionVars, libraryVars, Besides, offline
<1>4. QED
  BY <1>1, <1>2, <1>3 DEF CollectionNext

-----------------------------------------------------------------------------
(* Types *)

CallType == [at : {"idle", "sent", "done"}, track : Tracks \cup {NoTrack},
             like : BOOLEAN, next : SUBSET Tracks]
DownloadType == [at : {"idle", "asked", "allowed", "package"},
                 track : Tracks \cup {NoTrack}]
VisitType == [at : {"none", "me", "load", "loaded", "import", "imported", "reload",
                    "reloaded"},
              of : {"init", "login"}, liked : SUBSET Tracks, lists : SUBSET Lists]

LibraryTypes ==
  /\ page \in [signed : BOOLEAN, liked : SUBSET Tracks, loaded : BOOLEAN]
  /\ browser \in [token : BOOLEAN, liked : SUBSET Tracks, lists : SUBSET Lists,
                  migrated : BOOLEAN]
  /\ account \in [liked : SUBSET Tracks, given : SUBSET Tracks,
                  copies : [Lists -> Nat], downloads : SUBSET Tracks]
  /\ visit \in VisitType
  /\ call \in [Calls -> CallType]
  /\ \A c \in Calls : call[c].at # "idle" => call[c].track \in Tracks
  /\ download \in [Downloads -> DownloadType]
  /\ \A d \in Downloads : download[d].at # "idle" => download[d].track \in Tracks
  /\ held \subseteq Tracks
  /\ lost \in Nat /\ crossed \in BOOLEAN

\* The records of idle calls, downloads and visits have their types.
LEMMA Idle ==
  /\ NoCall \in CallType /\ NoDownload \in DownloadType /\ NoVisit \in VisitType
  /\ EmptyStore \in [signed : BOOLEAN, liked : SUBSET Tracks, loaded : BOOLEAN]
  BY DEF NoCall, NoDownload, NoVisit, EmptyStore, CallType, DownloadType, VisitType

\* The types hold initially.
LEMMA InitTypes == Init => LibraryTypes
<1>1. ASSUME Init
      PROVE  LibraryTypes
  <2>1. page \in [signed : BOOLEAN, liked : SUBSET Tracks, loaded : BOOLEAN]
    BY <1>1 DEF Init
  <2>2. browser \in [token : BOOLEAN, liked : SUBSET Tracks, lists : SUBSET Lists,
                     migrated : BOOLEAN]
    BY <1>1, <2>1 DEF Init
  <2>3. account \in [liked : SUBSET Tracks, given : SUBSET Tracks,
                     copies : [Lists -> Nat], downloads : SUBSET Tracks]
    BY <1>1 DEF Init
  <2>4. call \in [Calls -> CallType] /\ download \in [Downloads -> DownloadType]
    BY <1>1, Idle DEF Init
  <2>5. /\ \A c \in Calls : call[c].at = "idle"
        /\ \A d \in Downloads : download[d].at = "idle"
    BY <1>1 DEF Init, NoCall, NoDownload
  <2>6. QED
    BY <1>1, <2>1, <2>2, <2>3, <2>4, <2>5, Idle DEF Init, LibraryTypes
<1>2. QED
  BY <1>1

\* Every step on the likes, the import and the downloads keeps the types.
LEMMA NextTypes ==
  ASSUME LibraryTypes, Next
  PROVE  LibraryTypes'
<1> USE DEF LibraryTypes
<1>a. Migrated \in [token : BOOLEAN, liked : SUBSET Tracks, lists : SUBSET Lists,
                    migrated : BOOLEAN]
  BY DEF Migrated
<1>b. GuestStore \in [signed : BOOLEAN, liked : SUBSET Tracks, loaded : BOOLEAN]
  BY DEF GuestStore
<1>c. \A t \in Tracks : Toggled(t) \in SUBSET Tracks
  BY DEF Toggled
<1>1. CASE OpenPage
  <2>1. /\ call' = [c \in Calls |-> NoCall]
        /\ download' = [d \in Downloads |-> NoDownload]
        /\ UNCHANGED <<browser, account, held>> /\ crossed' = FALSE
        /\ lost' = lost + (IF visit.at = "imported" THEN 1 ELSE 0)
    BY <1>1 DEF OpenPage
  <2>2. page' \in {EmptyStore, GuestStore}
        /\ visit' \in {NoVisit, [NoVisit EXCEPT !.at = "me", !.of = "init"]}
    BY <1>1 DEF OpenPage
  <2>3. visit' \in VisitType
    <3>1. [NoVisit EXCEPT !.at = "me", !.of = "init"] \in VisitType
      BY Idle DEF VisitType
    <3>2. QED
      BY <2>2, <3>1, Idle
  <2>4. page' \in [signed : BOOLEAN, liked : SUBSET Tracks, loaded : BOOLEAN]
    BY <2>2, <1>b, Idle
  <2>5. /\ call' \in [Calls -> CallType] /\ \A c \in Calls : call'[c].at = "idle"
        /\ download' \in [Downloads -> DownloadType]
        /\ \A d \in Downloads : download'[d].at = "idle"
    BY <2>1, Idle DEF NoCall, NoDownload
  <2>6. lost' \in Nat
    BY <2>1
  <2>7. QED
    BY <2>1, <2>3, <2>4, <2>5, <2>6
<1>2. CASE SignIn \/ MeAnswers \/ LoadArrives
  BY <1>2, Idle, ZenonT(40) DEF SignIn, MeAnswers, LoadArrives, VisitType, NoVisit, Crosses, offline,
    history
<1>3. CASE LoadAnswers
  <2>1. page' \in [signed : BOOLEAN, liked : SUBSET Tracks, loaded : BOOLEAN]
    BY <1>3 DEF LoadAnswers, VisitType
  <2>2. browser' \in {browser, Migrated}
    BY <1>3 DEF LoadAnswers, Migrates
  <2>3. visit' \in {NoVisit, [visit EXCEPT !.at = "import", !.liked = browser.liked,
                                           !.lists = ToImport]}
    BY <1>3 DEF LoadAnswers, Migrates
  <2>4. visit' \in VisitType
    <3>1. [visit EXCEPT !.at = "import", !.liked = browser.liked, !.lists = ToImport]
            \in VisitType
      BY DEF ToImport, VisitType
    <3>2. QED
      BY <2>3, <3>1, Idle
  <2>5. QED
    BY <1>3, <1>a, <2>1, <2>2, <2>4 DEF LoadAnswers, offline, history
<1>4. CASE ImportArrives
  <2>1. [p \in Lists |-> account.copies[p] + (IF p \in visit.lists THEN 1 ELSE 0)]
           \in [Lists -> Nat]
    OBVIOUS
  <2>2. account'.copies
          = [p \in Lists |-> account.copies[p] + (IF p \in visit.lists THEN 1 ELSE 0)]
    BY <1>4 DEF ImportArrives
  <2>3. /\ account' \in [liked : SUBSET Tracks, given : SUBSET Tracks,
                         copies : [Lists -> Nat], downloads : SUBSET Tracks]
        /\ visit' \in VisitType
    BY <1>4, <2>1 DEF ImportArrives, VisitType
  <2>4. QED
    BY <1>4, <2>3 DEF ImportArrives, offline, history
<1>5. CASE ImportAnswers \/ ImportFails \/ VisitFails
  <2>1. visit' \in {NoVisit, [visit EXCEPT !.at = "reload"]}
    BY <1>5 DEF ImportAnswers, ImportFails, VisitFails
  <2>2. visit' \in VisitType
    BY <2>1, Idle DEF VisitType
  <2>3. browser' \in {browser, Migrated, [browser EXCEPT !.token = FALSE]}
    BY <1>5 DEF ImportAnswers, ImportFails, VisitFails
  <2>4. page' \in {page, GuestStore}
    BY <1>5 DEF ImportAnswers, ImportFails, VisitFails
  <2>5. lost' \in Nat /\ crossed' \in BOOLEAN
    <3>1. CASE ImportFails
      <4>1. lost' = lost + (IF visit.at = "imported" THEN 1 ELSE 0)
        BY <3>1 DEF ImportFails
      <4>2. crossed' \in BOOLEAN
        BY <3>1 DEF ImportFails, Crosses
      <4>3. QED
        BY <4>1, <4>2
    <3>2. CASE ImportAnswers \/ VisitFails
      BY <3>2 DEF ImportAnswers, VisitFails, Crosses, history
    <3>3. QED
      BY <1>5, <3>1, <3>2
  <2>6. UNCHANGED <<account, call, download, held>>
    BY <1>5 DEF ImportAnswers, ImportFails, VisitFails, offline
  <2>7. QED
    BY <1>a, <1>b, <2>2, <2>3, <2>4, <2>5, <2>6
<1>6. CASE Logout \/ Refused
  BY <1>6, Idle DEF Logout, Refused, Leaves, Crosses, offline
<1>7. ASSUME NEW t \in Tracks, GuestToggles(t) \/ ToggleStarts(t)
      PROVE  LibraryTypes'
  <2>1. CASE GuestToggles(t)
    BY <1>c, <2>1 DEF GuestToggles, offline, history
  <2>2. CASE ToggleStarts(t)
    <3>1. PICK c \in Calls :
            call' = [call EXCEPT ![c] =
              [at |-> "sent", track |-> t, like |-> t \notin page.liked,
               next |-> Toggled(t)]]
      BY <2>2 DEF ToggleStarts
    <3>2. [at |-> "sent", track |-> t, like |-> t \notin page.liked,
           next |-> Toggled(t)] \in CallType
      BY <1>c DEF CallType
    <3>3. /\ call' \in [Calls -> CallType]
          /\ \A b \in Calls : call'[b].at # "idle" => call'[b].track \in Tracks
      BY <3>1, <3>2
    <3>4. QED
      BY <2>2, <3>3 DEF ToggleStarts, Crosses, offline
  <2>3. QED
    BY <1>7, <2>1, <2>2
<1>8. ASSUME NEW c \in Calls, ToggleArrives(c) \/ ToggleAnswers(c) \/ ToggleFails(c)
      PROVE  LibraryTypes'
  <2>1. call[c] \in CallType /\ (call[c].at # "idle" => call[c].track \in Tracks)
    OBVIOUS
  <2>2. CASE ToggleArrives(c)
    <3>1. account' \in [liked : SUBSET Tracks, given : SUBSET Tracks,
                        copies : [Lists -> Nat], downloads : SUBSET Tracks]
      BY <2>1, <2>2 DEF ToggleArrives, CallType
    <3>2. QED
      BY <2>1, <2>2, <3>1 DEF ToggleArrives, CallType, offline, history
  <2>3. CASE ToggleAnswers(c) \/ ToggleFails(c)
    <3>1. call' = [call EXCEPT ![c] = NoCall] /\ NoCall.at = "idle"
      BY <2>3 DEF ToggleAnswers, ToggleFails, NoCall
    <3>2. /\ call' \in [Calls -> CallType]
          /\ \A b \in Calls : call'[b].at # "idle" => call'[b].track \in Tracks
      BY <3>1, Idle
    <3>3. page' \in [signed : BOOLEAN, liked : SUBSET Tracks, loaded : BOOLEAN]
      BY <2>1, <2>3 DEF ToggleAnswers, ToggleFails, CallType
    <3>4. QED
      BY <2>3, <3>2, <3>3 DEF ToggleAnswers, ToggleFails, Crosses, offline, history
  <2>4. QED
    BY <1>8, <2>2, <2>3
<1>9. ASSUME NEW t \in Tracks, NEW told \in BOOLEAN,
             \/ RemoveDownload(t, told) \/ PlayExpired(t, told)
             \/ DownloadStarts(t) \/ Expire(t)
      PROVE  LibraryTypes'
  BY <1>9 DEF RemoveDownload, PlayExpired, Removed, DownloadStarts, Expire,
    DownloadType, likes, history
<1>10. ASSUME NEW d \in Downloads,
              \/ PackageAllowed(d) \/ PackageRecorded(d) \/ SaveRecord(d)
              \/ DownloadRefused(d) \/ DownloadFails(d)
       PROVE  LibraryTypes'
  <2>1. download[d] \in DownloadType /\ (download[d].at # "idle" => download[d].track \in Tracks)
    OBVIOUS
  <2>2. QED
    BY <1>10, <2>1, Idle DEF PackageAllowed, PackageRecorded, SaveRecord, DownloadRefused,
      DownloadFails, DownloadType, NoDownload, likes, history
<1>11. QED
  BY <1>1, <1>2, <1>3, <1>4, <1>5, <1>6, <1>7, <1>8, <1>9, <1>10
     DEF Next, VisitNext, LikeNext, OfflineNext

(* The types are kept beside the steps of the playlists.                   *)
LEMMA TypesKept ==
  ASSUME LibraryTypes, [CollectionNext]_collectionVars
  PROVE  LibraryTypes'
<1>1. ASSUME Besides
      PROVE  LibraryTypes'
  <2>1. visit' \in VisitType /\ crossed' \in BOOLEAN
    BY <1>1, Idle DEF Besides, LibraryTypes, VisitType, NoVisit, Crosses
  <2>2. QED
    BY <1>1, <2>1 DEF Besides, LibraryTypes, offline
<1>2. QED
  BY <1>1, NextTypes, CollectionSteps

(* The library keeps its types under every step of the collection.         *)
THEOREM TypeCorrect == CollectionSpec => []LibraryTypes
<1>1. CollectionInit => LibraryTypes
  BY InitTypes DEF CollectionInit
<1>2. QED
  BY <1>1, TypesKept, PTL DEF CollectionSpec

(* What becomes of the sign-in when a load is answered.                    *)
LEMMA LoadOutcome ==
  ASSUME LibraryTypes, LoadAnswers
  PROVE  /\ visit.at \in {"loaded", "reloaded"} /\ UNCHANGED <<account, call, offline, history>>
         /\ \/ visit'.at = "none" /\ browser' = browser
            \/ /\ visit'.at = "none" /\ browser' = Migrated
               /\ browser.liked = {} /\ ToImport = {}
            \/ /\ visit'.at = "import" /\ visit'.liked = browser.liked
               /\ visit'.lists = ToImport /\ browser' = browser
<1>1. visit.at \in {"loaded", "reloaded"} /\ UNCHANGED <<account, call, offline, history>>
  BY DEF LoadAnswers
<1>2. \/ visit' = NoVisit /\ browser' = browser
      \/ visit' = NoVisit /\ browser' = Migrated /\ browser.liked = {} /\ ToImport = {}
      \/ /\ visit' = [visit EXCEPT !.at = "import", !.liked = browser.liked,
                                   !.lists = ToImport]
         /\ browser' = browser
  BY DEF LoadAnswers, Migrates
<1>3. LET import == [visit EXCEPT !.at = "import", !.liked = browser.liked,
                                  !.lists = ToImport]
      IN  import.at = "import" /\ import.liked = browser.liked /\ import.lists = ToImport
  BY DEF LibraryTypes, VisitType
<1>4. NoVisit.at = "none"
  BY DEF NoVisit
<1>5. QED
  BY <1>1, <1>2, <1>3, <1>4

(* A page that is opened is a guest's, or asks who it is.                  *)
LEMMA OpenOutcome ==
  ASSUME OpenPage
  PROVE  /\ visit'.at \in {"none", "me"} /\ UNCHANGED <<browser, account, held, expired>>
         /\ lost' = lost + (IF visit.at = "imported" THEN 1 ELSE 0)
<1>1. visit' \in {NoVisit, [NoVisit EXCEPT !.at = "me", !.of = "init"]}
  BY DEF OpenPage
<1>2. NoVisit.at = "none" /\ [NoVisit EXCEPT !.at = "me", !.of = "init"].at = "me"
  BY DEF NoVisit
<1>3. QED
  BY <1>1, <1>2 DEF OpenPage

(* Likes leave the lists of a guest alone, and the account keeps a record  *)
(* of all it was given.                                                    *)
LEMMA LikeOutcome ==
  ASSUME LibraryTypes, LikeNext
  PROVE  /\ UNCHANGED <<visit, lost>> /\ browser'.lists = browser.lists
         /\ page'.signed = page.signed /\ (page.signed => browser' = browser)
         /\ account.given \subseteq account'.given /\ account'.copies = account.copies
<1>1. ASSUME NEW t \in Tracks, GuestToggles(t) \/ ToggleStarts(t)
      PROVE  /\ UNCHANGED <<visit, lost, account>> /\ browser'.lists = browser.lists
             /\ page'.signed = page.signed /\ (page.signed => browser' = browser)
  BY <1>1 DEF GuestToggles, ToggleStarts, history, LibraryTypes
<1>2. ASSUME NEW c \in Calls, ToggleArrives(c)
      PROVE  /\ UNCHANGED <<visit, lost, page, browser>>
             /\ account.given \subseteq account'.given /\ account'.copies = account.copies
  BY <1>2 DEF ToggleArrives, history, LibraryTypes
<1>3. ASSUME NEW c \in Calls, ToggleAnswers(c) \/ ToggleFails(c)
      PROVE  UNCHANGED <<visit, lost, account, browser>> /\ page'.signed = page.signed
  BY <1>3 DEF ToggleAnswers, ToggleFails, history, LibraryTypes
<1>4. QED
  BY <1>1, <1>2, <1>3 DEF LikeNext

-----------------------------------------------------------------------------
(* The import *)

(* A list that is still in localStorage is in the account once more than   *)
(* answers were lost only while an answer is on its way.                   *)
ImportInv ==
  /\ visit.at = "import" => visit.lists \subseteq browser.lists
  /\ \A p \in Lists : account.copies[p] <= 1 + lost
  /\ visit.at # "imported" => \A p \in browser.lists : account.copies[p] <= lost

\* Every step keeps ImportInv.
LEMMA ImportKept ==
  ASSUME LibraryTypes, ImportInv, [CollectionNext]_collectionVars
  PROVE  ImportInv'
<1> USE DEF ImportInv
<1>0. /\ account.copies \in [Lists -> Nat] /\ lost \in Nat
      /\ browser.lists \subseteq Lists
  BY DEF LibraryTypes
<1>1. CASE OpenPage \/ ImportFails
  <2>1. /\ lost' = lost + (IF visit.at = "imported" THEN 1 ELSE 0)
        /\ UNCHANGED <<browser, account>> /\ visit'.at \in {"none", "me"}
    BY <1>1, OpenOutcome DEF ImportFails, NoVisit
  <2>2. QED
    BY <1>0, <2>1
<1>2. CASE SignIn \/ MeAnswers \/ LoadArrives
  <2>1. /\ UNCHANGED <<account, lost>> /\ browser'.lists = browser.lists
        /\ visit.at # "imported" /\ visit'.at \in {"load", "loaded", "reloaded"}
    BY <1>2 DEF SignIn, MeAnswers, LoadArrives, NoVisit, history, LibraryTypes, VisitType
  <2>2. QED
    BY <1>0, <2>1
<1>3. CASE LoadAnswers
  <2>1. visit.at # "imported" /\ visit'.at # "imported" /\ UNCHANGED <<account, lost>>
    BY <1>3, LoadOutcome DEF history
  <2>2. browser'.lists \subseteq browser.lists
    BY <1>3, LoadOutcome DEF Migrated, LibraryTypes
  <2>3. visit'.at = "import" => visit'.lists = ToImport /\ browser' = browser
    BY <1>3, LoadOutcome
  <2>4. QED
    BY <1>0, <2>1, <2>2, <2>3 DEF ToImport
<1>4. CASE ImportArrives
  <2>1. \A p \in Lists : account'.copies[p] =
                           account.copies[p] + (IF p \in visit.lists THEN 1 ELSE 0)
    BY <1>4 DEF ImportArrives, LibraryTypes
  <2>2. \A p \in Lists : account'.copies[p] <= 1 + lost
    BY <1>0, <1>4, <2>1 DEF ImportArrives
  <2>3. QED
    BY <1>4, <2>2 DEF ImportArrives, LibraryTypes, VisitType, history
<1>5. CASE ImportAnswers
  BY <1>5 DEF ImportAnswers, Migrated, LibraryTypes, VisitType, history
<1>6. CASE VisitFails
  BY <1>6 DEF VisitFails, NoVisit, LibraryTypes
<1>7. CASE Logout \/ Refused
  BY <1>7 DEF Logout, Refused, Leaves, LibraryTypes
<1>8. CASE LikeNext
  BY <1>8, LikeOutcome
<1>9. CASE OfflineNext
  <2>1. UNCHANGED <<visit, lost, browser>> /\ account'.copies = account.copies
    BY <1>9 DEF OfflineNext, RemoveDownload, PlayExpired, Removed, DownloadStarts, Expire,
         PackageAllowed, PackageRecorded, SaveRecord, DownloadRefused, DownloadFails,
         likes, history, LibraryTypes
  <2>2. QED
    BY <2>1
<1>10. CASE Besides
  BY <1>10 DEF Besides, NoVisit
<1>11. QED
  BY CollectionSteps, <1>1, <1>2, <1>3, <1>4, <1>5, <1>6, <1>7, <1>8, <1>9, <1>10
     DEF Next, VisitNext

(* A playlist of the guest is in the account twice only if an answer of an *)
(* import was lost.                                                        *)
THEOREM ImportOnce == CollectionSpec => []ImportedOncePerLoss
<1>1. CollectionInit => LibraryTypes /\ ImportInv
  <2>1. Init => ImportInv
    BY DEF Init, ImportInv, NoVisit
  <2>2. QED
    BY <2>1, InitTypes DEF CollectionInit
<1>2. ImportInv => ImportedOncePerLoss
  BY DEF ImportInv, ImportedOncePerLoss
<1>3. QED
  BY <1>1, <1>2, TypesKept, ImportKept, PTL DEF CollectionSpec

(* What localStorage holds of a listener who is signed in is what the      *)
(* import under way was given.                                             *)
ClearInv ==
  page.signed =>
    /\ visit.at = "import" => browser.liked = visit.liked /\ visit.lists = ToImport
    /\ visit.at = "imported" =>
         /\ browser.liked \subseteq account.given
         /\ \A p \in ToImport : account.copies[p] > 0

\* Every step keeps ClearInv.
LEMMA ClearKept ==
  ASSUME LibraryTypes, ClearInv, [CollectionNext]_collectionVars
  PROVE  ClearInv'
<1> USE DEF ClearInv, ToImport
<1>1. CASE OpenPage \/ SignIn \/ MeAnswers \/ LoadArrives \/ ImportAnswers \/ ImportFails
           \/ VisitFails
  <2>1. CASE SignIn \/ ImportFails \/ VisitFails
    <3>1. visit' = NoVisit \/ visit' = [NoVisit EXCEPT !.at = "load"]
      BY <2>1 DEF SignIn, ImportFails, VisitFails
    <3>2. visit'.at \in {"load", "none"}
      BY <3>1 DEF NoVisit
    <3>3. QED
      BY <3>2
  <2>2. CASE MeAnswers \/ LoadArrives \/ ImportAnswers
    <3>1. visit'.at \in {"load", "loaded", "reloaded", "reload"}
      BY <2>2 DEF MeAnswers, LoadArrives, ImportAnswers, LibraryTypes, VisitType
    <3>2. QED
      BY <3>1
  <2>3. CASE OpenPage
    BY <2>3, OpenOutcome
  <2>4. QED
    BY <1>1, <2>1, <2>2, <2>3
<1>2. CASE LoadAnswers
  BY <1>2, LoadOutcome
<1>3. CASE ImportArrives
  <2>1. /\ visit.at = "import" /\ visit'.at = "imported" /\ UNCHANGED <<page, browser>>
        /\ account'.given = account.given \cup visit.liked
        /\ \A p \in Lists : account'.copies[p] =
                              account.copies[p] + (IF p \in visit.lists THEN 1 ELSE 0)
    BY <1>3 DEF ImportArrives, LibraryTypes, VisitType
  <2>2. account.copies \in [Lists -> Nat] /\ browser.lists \subseteq Lists
    BY DEF LibraryTypes
  <2>3. QED
    BY <2>1, <2>2
<1>4. CASE Logout \/ Refused
  BY <1>4 DEF Logout, Refused, Leaves, EmptyStore
<1>5. CASE LikeNext
  BY <1>5, LikeOutcome
<1>6. CASE OfflineNext
  <2>1. /\ UNCHANGED <<visit, page, browser>> /\ account'.copies = account.copies
        /\ account'.given = account.given
    BY <1>6 DEF OfflineNext, RemoveDownload, PlayExpired, Removed, DownloadStarts, Expire,
         PackageAllowed, PackageRecorded, SaveRecord, DownloadRefused, DownloadFails,
         likes, history, LibraryTypes
  <2>2. QED
    BY <2>1
<1>7. CASE Besides
  BY <1>7 DEF Besides, NoVisit
<1>8. QED
  BY CollectionSteps, <1>1, <1>2, <1>3, <1>4, <1>5, <1>6, <1>7 DEF Next, VisitNext

(* No step of a signed-in listener takes out of localStorage what the      *)
(* account does not have.                                                  *)
Clears ==
  page.signed /\ page'.signed =>
    /\ browser.liked \subseteq browser'.liked \cup account.given
    /\ \A p \in browser.lists \ browser'.lists :
         p \in EmptyLists \/ account.copies[p] > 0

\* From ClearInv, the local library is cleared only by the answer of an import.
LEMMA ClearSteps ==
  ASSUME LibraryTypes, ClearInv, [CollectionNext]_collectionVars
  PROVE  Clears
<1> USE DEF Clears
<1>1. CASE /\ browser'.liked = browser.liked /\ browser'.lists = browser.lists
  BY <1>1
<1>2. CASE LoadAnswers
  <2>1. \/ browser' = browser
        \/ browser.liked = {} /\ browser.lists \subseteq EmptyLists
    BY <1>2 DEF LoadAnswers, Migrates, ToImport
  <2>2. QED
    BY <2>1
<1>3. CASE ImportAnswers
  BY <1>3 DEF ImportAnswers, Migrated, ClearInv, ToImport
<1>4. ASSUME NEW t \in Tracks, GuestToggles(t)
      PROVE  Clears
  BY <1>4 DEF GuestToggles
<1>5. ASSUME \/ OpenPage \/ SignIn \/ MeAnswers \/ LoadArrives \/ ImportArrives
             \/ ImportFails \/ VisitFails \/ Logout \/ Refused \/ Besides
      PROVE  Clears
  BY <1>1, <1>5 DEF OpenPage, SignIn, MeAnswers, LoadArrives, ImportArrives, ImportFails,
       VisitFails, Logout, Refused, Leaves, Besides, LibraryTypes
<1>6. ASSUME NEW t \in Tracks, ToggleStarts(t)
      PROVE  Clears
  BY <1>1, <1>6 DEF ToggleStarts
<1>7. ASSUME NEW c \in Calls, ToggleArrives(c) \/ ToggleAnswers(c) \/ ToggleFails(c)
      PROVE  Clears
  BY <1>1, <1>7 DEF ToggleArrives, ToggleAnswers, ToggleFails
<1>8. CASE OfflineNext
  <2>1. browser' = browser
    BY <1>8 DEF OfflineNext, RemoveDownload, PlayExpired, Removed, DownloadStarts, Expire,
         PackageAllowed, PackageRecorded, SaveRecord, DownloadRefused, DownloadFails,
         likes
  <2>2. QED
    BY <1>1, <2>1
<1>9. QED
  BY CollectionSteps, <1>2, <1>3, <1>4, <1>5, <1>6, <1>7, <1>8 DEF Next, VisitNext, LikeNext

(* A guest's library is cleared only once the account has it.              *)
THEOREM ClearedOnceImported == CollectionSpec => ImportedBeforeCleared
<1>1. CollectionInit => LibraryTypes /\ ClearInv
  <2>1. Init => ClearInv
    BY DEF Init, ClearInv, NoVisit
  <2>2. QED
    BY <2>1, InitTypes DEF CollectionInit
<1>2. ASSUME LibraryTypes, ClearInv, [CollectionNext]_collectionVars
      PROVE  [Clears]_libraryVars
  BY <1>2, ClearSteps
<1>3. QED
  BY <1>1, <1>2, TypesKept, ClearKept, PTL
     DEF CollectionSpec, ImportedBeforeCleared, Clears

-----------------------------------------------------------------------------
(* The store at rest *)

Meant(c) == IF call[c].like THEN page.liked \cup {call[c].track}
            ELSE page.liked \ {call[c].track}

(* As long as no two calls to the server overlapped, one at most is under  *)
(* way, of a signed-in page whose store is what it was computed from.      *)
RestInv ==
  ~crossed =>
    /\ \A c, d \in Calls : call[c].at # "idle" /\ call[d].at # "idle" => c = d
    /\ \A c \in Calls : call[c].at # "idle" =>
         visit.at = "none" /\ page.signed /\ call[c].next = Meant(c)
    /\ \A c \in Calls : call[c].at = "done" => account.liked = call[c].next
    /\ visit.at \notin {"none", "me", "reload"} => page.signed
    /\ ~page.signed /\ visit.at # "me" => ~browser.token
    /\ visit.at = "me" => ~page.signed
    /\ visit.at \in {"loaded", "reloaded"} => visit.liked = account.liked
    /\ visit.at = "import" => page.liked = account.liked
    /\ page.signed /\ visit.at = "none" /\ (\A c \in Calls : call[c].at # "done") =>
         page.liked = account.liked
    /\ ~page.signed /\ visit.at = "none" /\ page.loaded => page.liked = browser.liked

\* Every step keeps RestInv.
LEMMA RestKept ==
  ASSUME LibraryTypes, RestInv, [CollectionNext]_collectionVars
  PROVE  RestInv'
<1> SUFFICES ASSUME ~crossed'
             PROVE  RestInv'
  BY DEF RestInv
<1>1. CASE OpenPage
  <2>1. \A c \in Calls : call'[c].at = "idle"
    BY <1>1 DEF OpenPage, NoCall
  <2>2. \/ page' = EmptyStore /\ visit'.at = "me"
        \/ page' = GuestStore /\ visit'.at = "none" /\ ~browser.token
    <3>1. NoVisit.at = "none" /\ [NoVisit EXCEPT !.at = "me", !.of = "init"].at = "me"
      BY DEF NoVisit
    <3>2. \/ /\ page' = EmptyStore
             /\ visit' = [NoVisit EXCEPT !.at = "me", !.of = "init"]
          \/ page' = GuestStore /\ visit' = NoVisit /\ ~browser.token
      BY <1>1 DEF OpenPage
    <3>3. QED
      BY <3>1, <3>2
  <2>3. browser' = browser /\ ~page'.signed
    BY <1>1 DEF OpenPage, EmptyStore, GuestStore
  <2>4. visit'.at = "none" => page'.liked = browser.liked
    BY <2>2 DEF GuestStore
  <2>5. visit'.at \in {"none", "me"}
    BY <2>2
  <2>6. QED
    BY <2>1, <2>2, <2>3, <2>4, <2>5 DEF RestInv
<1>2. CASE SignIn
  <2>1. ~crossed /\ ~Waiting
    BY <1>2 DEF SignIn, Crosses
  <2>2. /\ \A c \in Calls : call'[c].at = "idle"
        /\ page'.signed /\ visit'.at = "load"
    BY <1>2, <2>1 DEF SignIn, Waiting, NoVisit, LibraryTypes
  <2>3. QED
    BY <2>2 DEF RestInv
<1>3. CASE MeAnswers
  <2>1. /\ ~crossed /\ visit.at = "me" /\ visit'.at = "load" /\ page'.signed
        /\ call' = call
    BY <1>3 DEF MeAnswers, history, LibraryTypes, VisitType
  <2>2. \A c \in Calls : call[c].at = "idle"
    BY <2>1 DEF RestInv
  <2>3. QED
    BY <2>1, <2>2 DEF RestInv
<1>4. CASE LoadArrives
  <2>1. /\ ~crossed /\ visit.at \in {"load", "reload"}
        /\ visit'.at \in {"loaded", "reloaded"} /\ visit'.liked = account.liked
        /\ browser.token /\ UNCHANGED <<page, account, call>>
    BY <1>4 DEF LoadArrives, history, LibraryTypes, VisitType
  <2>2. /\ \A c \in Calls : call[c].at = "idle"
        /\ page.signed
    BY <2>1 DEF RestInv
  <2>3. QED
    BY <2>1, <2>2 DEF RestInv
<1>5. CASE LoadAnswers
  <2>1. /\ ~crossed /\ visit.at \in {"loaded", "reloaded"} /\ UNCHANGED <<account, call>>
        /\ visit'.at \in {"none", "import"}
    BY <1>5, LoadOutcome DEF history
  <2>2. /\ \A c \in Calls : call[c].at = "idle"
        /\ page.signed /\ visit.liked = account.liked
    BY <2>1 DEF RestInv
  <2>3. page'.signed /\ page'.liked = account.liked
    BY <1>5, <2>2 DEF LoadAnswers, LibraryTypes
  <2>4. QED
    BY <2>1, <2>2, <2>3 DEF RestInv
<1>6. CASE ImportArrives \/ ImportAnswers
  <2>1. /\ ~crossed /\ visit.at \in {"import", "imported"}
        /\ visit'.at \in {"imported", "reload"} /\ UNCHANGED <<page, call>>
    BY <1>6 DEF ImportArrives, ImportAnswers, history, LibraryTypes, VisitType
  <2>2. /\ \A c \in Calls : call[c].at = "idle"
        /\ page.signed
    BY <2>1 DEF RestInv
  <2>3. QED
    BY <2>1, <2>2 DEF RestInv
<1>7. CASE ImportFails
  <2>1. /\ ~crossed /\ visit.at = "import" /\ visit'.at = "none"
        /\ UNCHANGED <<page, account, call>>
    BY <1>7 DEF ImportFails, Crosses, NoVisit
  <2>2. /\ \A c \in Calls : call[c].at = "idle"
        /\ page.signed /\ page.liked = account.liked
    BY <2>1 DEF RestInv
  <2>3. QED
    BY <2>1, <2>2 DEF RestInv
<1>8. CASE VisitFails
  BY <1>8 DEF VisitFails, Crosses
<1>9. CASE Logout \/ Refused
  <2>1. ~crossed /\ ~Waiting
    BY <1>9 DEF Logout, Refused, Leaves, Crosses
  <2>2. /\ \A c \in Calls : call'[c].at = "idle"
        /\ visit'.at = "none" /\ ~page'.signed /\ ~page'.loaded /\ ~browser'.token
    BY <1>9, <2>1 DEF Logout, Refused, Leaves, Waiting, EmptyStore, LibraryTypes
  <2>3. QED
    BY <2>2 DEF RestInv
<1>10. ASSUME NEW t \in Tracks, GuestToggles(t)
       PROVE  RestInv'
  <2>1. /\ ~crossed /\ ~page.signed /\ ~page'.signed /\ page'.liked = browser'.liked
        /\ visit.at # "me" /\ UNCHANGED <<visit, call>> /\ browser'.token = browser.token
    BY <1>10 DEF GuestToggles, history, LibraryTypes
  <2>2. /\ visit.at \in {"none", "reload"} /\ ~browser.token
        /\ \A c \in Calls : call[c].at = "idle"
    BY <2>1 DEF RestInv
  <2>3. QED
    BY <2>1, <2>2 DEF RestInv
<1>11. ASSUME NEW t \in Tracks, ToggleStarts(t)
       PROVE  RestInv'
  <2>1. /\ ~crossed /\ ~Waiting /\ page.signed /\ UNCHANGED <<page, browser, account, visit>>
    BY <1>11 DEF ToggleStarts, Crosses
  <2>2. visit.at = "none" /\ \A c \in Calls : call[c].at = "idle"
    BY <2>1 DEF Waiting
  <2>3. page.liked = account.liked
    BY <2>1, <2>2 DEF RestInv
  <2>4. PICK c \in Calls :
          call' = [call EXCEPT ![c] = [at |-> "sent", track |-> t,
                     like |-> t \notin page.liked, next |-> Toggled(t)]]
    BY <1>11 DEF ToggleStarts
  <2>5. /\ \A b \in Calls \ {c} : call'[b].at = "idle"
        /\ call'[c].at = "sent" /\ call'[c].next = Meant(c)'
    BY <2>1, <2>2, <2>4 DEF Toggled, Meant, LibraryTypes
  <2>6. QED
    BY <2>1, <2>2, <2>3, <2>5 DEF RestInv
<1>12. ASSUME NEW c \in Calls, ToggleArrives(c)
       PROVE  RestInv'
  <2>1. ~crossed /\ call[c].at = "sent" /\ UNCHANGED <<page, browser, visit>>
    BY <1>12 DEF ToggleArrives, history
  <2>2. /\ visit.at = "none" /\ page.signed /\ call[c].next = Meant(c)
        /\ \A b \in Calls \ {c} : call[b].at = "idle"
    BY <2>1 DEF RestInv
  <2>3. page.liked = account.liked
    BY <2>1, <2>2 DEF RestInv
  <2>4. /\ call'[c].at = "done" /\ call'[c].next = call[c].next
        /\ call'[c].like = call[c].like /\ call'[c].track = call[c].track
        /\ \A b \in Calls \ {c} : call'[b] = call[b]
    BY <1>12 DEF ToggleArrives, LibraryTypes, CallType
  <2>5. account'.liked = Meant(c)
    BY <1>12, <2>3 DEF ToggleArrives, Meant, LibraryTypes
  <2>6. Meant(c)' = Meant(c)
    BY <2>1, <2>4 DEF Meant
  <2>7. QED
    BY <2>1, <2>2, <2>4, <2>5, <2>6 DEF RestInv
<1>13. ASSUME NEW c \in Calls, ToggleAnswers(c)
       PROVE  RestInv'
  <2>1. ~crossed /\ call[c].at = "done" /\ UNCHANGED <<browser, account, visit>>
    BY <1>13 DEF ToggleAnswers, history
  <2>2. /\ visit.at = "none" /\ page.signed /\ account.liked = call[c].next
        /\ \A b \in Calls \ {c} : call[b].at = "idle"
    BY <2>1 DEF RestInv
  <2>3. /\ page'.signed /\ page'.liked = call[c].next
        /\ \A b \in Calls : call'[b].at = "idle"
    BY <1>13, <2>2 DEF ToggleAnswers, NoCall, LibraryTypes
  <2>4. QED
    BY <2>1, <2>2, <2>3 DEF RestInv
<1>14. ASSUME NEW c \in Calls, ToggleFails(c)
       PROVE  RestInv'
  <2>1. ~crossed /\ call[c].at = "sent" /\ UNCHANGED <<page, browser, account, visit>>
    BY <1>14 DEF ToggleFails, Crosses, LibraryTypes, CallType
  <2>2. /\ visit.at = "none" /\ page.signed
        /\ \A b \in Calls \ {c} : call[b].at = "idle"
    BY <2>1 DEF RestInv
  <2>3. page.liked = account.liked
    BY <2>1, <2>2 DEF RestInv
  <2>4. \A b \in Calls : call'[b].at = "idle"
    BY <1>14, <2>2 DEF ToggleFails, NoCall, LibraryTypes
  <2>5. QED
    BY <2>1, <2>2, <2>3, <2>4 DEF RestInv
<1>15. CASE OfflineNext
  <2>1. UNCHANGED <<page, browser, visit, call, crossed>> /\ account'.liked = account.liked
    BY <1>15 DEF OfflineNext, RemoveDownload, PlayExpired, Removed, DownloadStarts, Expire,
         PackageAllowed, PackageRecorded, SaveRecord, DownloadRefused, DownloadFails,
         likes, history, LibraryTypes
  <2>2. QED
    BY <2>1 DEF RestInv, Meant
<1>16. CASE Besides
  <2>1. CASE UNCHANGED <<visit, crossed>>
    BY <1>16, <2>1 DEF Besides, RestInv, Meant
  <2>2. CASE /\ visit.at = "none" /\ visit' = [NoVisit EXCEPT !.at = "reload"]
             /\ Crosses(Waiting)
    <3>1. ~crossed /\ ~Waiting
      BY <2>2 DEF Crosses
    <3>2. visit'.at = "reload" /\ \A c \in Calls : call'[c].at = "idle"
      BY <1>16, <2>2, <3>1 DEF Waiting, NoVisit, Besides
    <3>3. ~page.signed => ~browser.token
      BY <2>2, <3>1 DEF RestInv
    <3>4. QED
      BY <1>16, <3>2, <3>3 DEF Besides, RestInv
  <2>3. QED
    BY <1>16, <2>1, <2>2 DEF Besides
<1>17. QED
  BY CollectionSteps, <1>1, <1>2, <1>3, <1>4, <1>5, <1>6, <1>7, <1>8, <1>9, <1>10, <1>11,
     <1>12, <1>13, <1>14, <1>15, <1>16 DEF Next, VisitNext, LikeNext

(* Once all calls have ended, and none of them overlapped or lost its      *)
(* answer, the store shows what the account, or the browser, has.          *)
THEOREM StoreAtRest == CollectionSpec => []AtRestStoreIsTrue
<1>1. CollectionInit => LibraryTypes /\ RestInv
  <2>1. ASSUME Init
        PROVE  RestInv
    <3>1. /\ \A c \in Calls : call[c].at = "idle"
          /\ visit.at = "none" /\ browser.token = page.signed
      BY <2>1 DEF Init, NoCall, NoVisit
    <3>2. page.liked = IF page.signed THEN account.liked ELSE browser.liked
      BY <2>1 DEF Init
    <3>3. QED
      BY <3>1, <3>2 DEF RestInv
  <2>2. QED
    BY <2>1, InitTypes DEF CollectionInit
<1>2. RestInv => AtRestStoreIsTrue
  BY DEF RestInv, AtRestStoreIsTrue, Waiting
<1>3. QED
  BY <1>1, <1>2, TypesKept, RestKept, PTL DEF CollectionSpec

-----------------------------------------------------------------------------
(* The limit of the downloads *)

(* The downloads under way, those that passed the server's test, and the   *)
(* tracks of some of them.                                                 *)
Asked(g) == {d \in Downloads : g[d].at # "idle"}
Passed(g) == {d \in Downloads : g[d].at = "allowed"}
TracksOf(g, some) == {g[d].track : d \in some}

Limit == MaxTracks + Cardinality(Downloads) - 1

(* The tracks that are there, or that a download which passed the test     *)
(* will add, are as many as the downloads that can pass it together allow. *)
RoomInv ==
  /\ Cardinality(held \cup TracksOf(download, Asked(download))) <= Limit
  /\ Cardinality(account.downloads \cup TracksOf(download, Passed(download))) <= Limit

\* The tracks of some downloads are finite and counted by a natural number.
LEMMA Counts ==
  ASSUME NEW g, NEW some \in SUBSET Downloads
  PROVE  /\ IsFiniteSet(TracksOf(g, some))
         /\ Cardinality(TracksOf(g, some)) \in Nat
         /\ Cardinality(TracksOf(g, some)) <= Cardinality(Downloads)
<1>1. IsFiniteSet(some) /\ Cardinality(some) <= Cardinality(Downloads)
  BY LibraryAssumption, FS_Subset
<1> DEFINE f == [d \in some |-> g[d].track]
<1>2. f \in Surjection(some, TracksOf(g, some))
  BY DEF Surjection, TracksOf
<1>3. IsFiniteSet(TracksOf(g, some)) /\ Cardinality(TracksOf(g, some)) <= Cardinality(some)
  <2> HIDE DEF f
  <2>1. QED
    BY <1>1, <1>2, FS_Surjection
<1>4. /\ Cardinality(some) \in Nat /\ Cardinality(Downloads) \in Nat
      /\ Cardinality(TracksOf(g, some)) \in Nat
  BY <1>1, <1>3, LibraryAssumption, FS_CardinalityType
<1>5. QED
  BY <1>1, <1>3, <1>4

(* A set below the limit stays within the bound with the tracks of any     *)
(* downloads in it.                                                        *)
LEMMA Room ==
  ASSUME NEW S \in SUBSET Tracks, Cardinality(S) < MaxTracks,
         NEW g, NEW some \in SUBSET Downloads
  PROVE  Cardinality(S \cup TracksOf(g, some)) <= Limit
<1>1. IsFiniteSet(S) /\ IsFiniteSet(TracksOf(g, some))
  BY Counts, LibraryAssumption, FS_Subset
<1>2. Cardinality(S \cup TracksOf(g, some))
        <= Cardinality(S) + Cardinality(TracksOf(g, some))
  <2>1. /\ Cardinality(S \cup TracksOf(g, some)) =
             Cardinality(S) + Cardinality(TracksOf(g, some))
               - Cardinality(S \cap TracksOf(g, some))
        /\ IsFiniteSet(S \cap TracksOf(g, some))
    BY <1>1, FS_Union, FS_Intersection
  <2>2. /\ Cardinality(S) \in Nat /\ Cardinality(TracksOf(g, some)) \in Nat
        /\ Cardinality(S \cap TracksOf(g, some)) \in Nat
    BY <1>1, <2>1, FS_CardinalityType
  <2>3. QED
    BY <2>1, <2>2
<1>3. /\ Cardinality(S) \in Nat /\ Cardinality(TracksOf(g, some)) \in Nat
      /\ Cardinality(Downloads) \in Nat
      /\ Cardinality(S \cup TracksOf(g, some)) \in Nat
  BY <1>1, LibraryAssumption, FS_CardinalityType, FS_Union
<1>4. Cardinality(TracksOf(g, some)) <= Cardinality(Downloads)
  BY Counts
<1>5. QED
  BY <1>2, <1>3, <1>4, LibraryAssumption DEF Limit

(* Nothing but tracks goes: the bound is kept.                             *)
LEMMA Fewer ==
  ASSUME NEW S \in SUBSET Tracks, NEW g, NEW some \in SUBSET Downloads,
         Cardinality(S \cup TracksOf(g, some)) <= Limit,
         NEW T, T \subseteq S \cup TracksOf(g, some)
  PROVE  Cardinality(T) <= Limit
<1>1. IsFiniteSet(S \cup TracksOf(g, some))
  BY Counts, LibraryAssumption, FS_Subset, FS_Union
<1>2. IsFiniteSet(T) /\ Cardinality(T) <= Cardinality(S \cup TracksOf(g, some))
  BY <1>1, FS_Subset
<1>3. /\ Cardinality(T) \in Nat /\ Cardinality(S \cup TracksOf(g, some)) \in Nat
      /\ Limit \in Int
  BY <1>1, <1>2, LibraryAssumption, FS_CardinalityType DEF Limit
<1>4. QED
  BY <1>2, <1>3

(* What one step does to what is held, recorded and on its way.            *)
Lessens ==
  /\ \A d \in Downloads : download'[d].at # "idle" =>
       download[d].at # "idle" /\ download'[d].track = download[d].track
  /\ held' \subseteq held \cup TracksOf(download, Asked(download))

Spares ==
  account'.downloads \cup TracksOf(download', Passed(download'))
    \subseteq account.downloads \cup TracksOf(download, Passed(download))

\* Every step keeps RoomInv.
LEMMA RoomKept ==
  ASSUME LibraryTypes, RoomInv, [CollectionNext]_collectionVars
  PROVE  RoomInv'
<1>0. /\ held \in SUBSET Tracks /\ account.downloads \in SUBSET Tracks
      /\ Asked(download) \in SUBSET Downloads /\ Passed(download) \in SUBSET Downloads
      /\ Asked(download') \in SUBSET Downloads /\ Passed(download') \in SUBSET Downloads
  BY DEF LibraryTypes, Asked, Passed
<1>1. ASSUME Lessens
      PROVE  Cardinality(held' \cup TracksOf(download', Asked(download'))) <= Limit
  <2>1. held' \cup TracksOf(download', Asked(download'))
          \subseteq held \cup TracksOf(download, Asked(download))
    BY <1>1 DEF Lessens, TracksOf, Asked
  <2>2. QED
    BY <1>0, <2>1, Fewer DEF RoomInv
<1>2. ASSUME Spares
      PROVE  Cardinality(account'.downloads \cup TracksOf(download', Passed(download')))
               <= Limit
  BY <1>0, <1>2, Fewer DEF RoomInv, Spares
<1>3. CASE UNCHANGED <<held, download>> /\ account'.downloads = account.downloads
  BY <1>3 DEF RoomInv
<1>4. CASE OpenPage
  <2>1. /\ \A d \in Downloads : download'[d].at = "idle"
        /\ UNCHANGED <<held, account>>
    BY <1>4 DEF OpenPage, NoDownload
  <2>2. Lessens /\ Spares
    BY <2>1 DEF Lessens, Spares, TracksOf, Passed
  <2>3. QED
    BY <1>1, <1>2, <2>2 DEF RoomInv
<1>5. ASSUME \/ SignIn \/ MeAnswers \/ LoadArrives \/ LoadAnswers \/ ImportArrives
             \/ ImportAnswers \/ ImportFails \/ VisitFails \/ Logout \/ Refused
             \/ LikeNext \/ Besides
      PROVE  UNCHANGED <<held, download>> /\ account'.downloads = account.downloads
  <2>1. CASE ImportArrives
    BY <2>1 DEF ImportArrives, offline, LibraryTypes
  <2>2. CASE LikeNext
    BY <2>2 DEF LikeNext, GuestToggles, ToggleStarts, ToggleArrives, ToggleAnswers,
         ToggleFails, offline, LibraryTypes
  <2>3. QED
    BY <1>5, <2>1, <2>2 DEF SignIn, MeAnswers, LoadArrives, LoadAnswers, ImportAnswers,
         ImportFails, VisitFails, Logout, Refused, Leaves, Besides, offline
<1>6. ASSUME NEW t \in Tracks, NEW told \in BOOLEAN,
             RemoveDownload(t, told) \/ PlayExpired(t, told)
      PROVE  RoomInv'
  <2>1. /\ held' \subseteq held /\ download' = download
        /\ account'.downloads \subseteq account.downloads
    BY <1>6 DEF RemoveDownload, PlayExpired, Removed, LibraryTypes
  <2>2. Lessens /\ Spares
    BY <2>1 DEF Lessens, Spares
  <2>3. QED
    BY <1>1, <1>2, <2>2 DEF RoomInv
<1>7. ASSUME NEW t \in Tracks, DownloadStarts(t)
      PROVE  RoomInv'
  <2>1. PICK d \in Downloads :
          /\ download[d].at = "idle"
          /\ download' = [download EXCEPT ![d] = [at |-> "asked", track |-> t]]
    BY <1>7 DEF DownloadStarts
  <2>2. UNCHANGED <<held, account>> /\ RoomFor(t)
    BY <1>7 DEF DownloadStarts
  <2>3. /\ download'[d].at = "asked" /\ download'[d].track = t
        /\ \A b \in Downloads \ {d} : download'[b] = download[b]
    BY <2>1 DEF LibraryTypes
  <2>4. Spares
    BY <2>2, <2>3 DEF Spares, TracksOf, Passed
  <2>5. CASE t \in held
    <3>1. held' \cup TracksOf(download', Asked(download'))
            \subseteq held \cup TracksOf(download, Asked(download))
      BY <2>2, <2>3, <2>5 DEF TracksOf, Asked
    <3>2. QED
      BY <1>0, <1>2, <2>4, <3>1, Fewer DEF RoomInv
  <2>6. CASE Cardinality(held) < MaxTracks
    BY <1>0, <1>2, <2>2, <2>4, <2>6, Room DEF RoomInv
  <2>7. QED
    BY <2>2, <2>5, <2>6 DEF RoomFor
<1>8. ASSUME NEW t \in Tracks, Expire(t)
      PROVE  UNCHANGED <<held, download>> /\ account'.downloads = account.downloads
  BY <1>8 DEF Expire
<1>9. ASSUME NEW d \in Downloads, PackageAllowed(d)
      PROVE  RoomInv'
  <2>1. /\ UNCHANGED <<held, account>> /\ download[d].at = "asked"
        /\ Allowed(download[d].track)
    BY <1>9 DEF PackageAllowed
  <2>2. /\ download'[d].at = "allowed" /\ download'[d].track = download[d].track
        /\ \A b \in Downloads \ {d} : download'[b] = download[b]
    BY <1>9 DEF PackageAllowed, LibraryTypes, DownloadType
  <2>3. Lessens
    BY <2>1, <2>2 DEF Lessens
  <2>4. CASE download[d].track \in account.downloads
    <3>1. Spares
      BY <2>1, <2>2, <2>4 DEF Spares, TracksOf, Passed
    <3>2. QED
      BY <1>1, <1>2, <2>3, <3>1 DEF RoomInv
  <2>5. CASE Cardinality(account.downloads) < MaxTracks
    BY <1>0, <1>1, <2>1, <2>3, <2>5, Room DEF RoomInv
  <2>6. QED
    BY <2>1, <2>4, <2>5 DEF Allowed
<1>10. ASSUME NEW d \in Downloads,
              \/ PackageRecorded(d) \/ SaveRecord(d) \/ DownloadRefused(d)
              \/ DownloadFails(d)
       PROVE  RoomInv'
  <2>1. CASE PackageRecorded(d)
    <3>1. /\ download[d].at = "allowed" /\ UNCHANGED held
          /\ account'.downloads = account.downloads \cup {download[d].track}
          /\ download'[d].at = "package" /\ download'[d].track = download[d].track
          /\ \A b \in Downloads \ {d} : download'[b] = download[b]
      BY <2>1 DEF PackageRecorded, LibraryTypes, DownloadType
    <3>2. Lessens /\ Spares
      BY <3>1 DEF Lessens, Spares, TracksOf, Passed
    <3>3. QED
      BY <1>1, <1>2, <3>2 DEF RoomInv
  <2>2. CASE SaveRecord(d) \/ DownloadRefused(d) \/ DownloadFails(d)
    <3>1. /\ download[d].at # "idle" /\ held' \subseteq held \cup {download[d].track}
          /\ UNCHANGED account /\ download'[d].at = "idle"
          /\ \A b \in Downloads \ {d} : download'[b] = download[b]
      BY <2>2 DEF SaveRecord, DownloadRefused, DownloadFails, NoDownload, LibraryTypes
    <3>2. Lessens /\ Spares
      BY <3>1 DEF Lessens, Spares, TracksOf, Passed, Asked
    <3>3. QED
      BY <1>1, <1>2, <3>2 DEF RoomInv
  <2>3. QED
    BY <1>10, <2>1, <2>2
<1>11. QED
  BY CollectionSteps, <1>3, <1>4, <1>5, <1>6, <1>7, <1>8, <1>9, <1>10
     DEF Next, VisitNext, OfflineNext

(* No sequence of downloads passes the limit by more than those that were  *)
(* tested together, in the browser and at the server.                      *)
THEOREM OfflineLimit == CollectionSpec => []OfflineWithinLimit
<1>1. CollectionInit => LibraryTypes /\ RoomInv
  <2>1. ASSUME Init
        PROVE  RoomInv
    <3>1. /\ held = {} /\ account.downloads = {}
          /\ \A d \in Downloads : download[d].at = "idle"
      BY <2>1 DEF Init, NoDownload
    <3>2. /\ TracksOf(download, Asked(download)) = {}
          /\ TracksOf(download, Passed(download)) = {}
      BY <3>1 DEF TracksOf, Asked, Passed
    <3>3. 0 <= Limit
      BY LibraryAssumption, FS_CardinalityType DEF Limit
    <3>4. QED
      BY <3>1, <3>2, <3>3, FS_EmptySet DEF RoomInv
  <2>2. QED
    BY <2>1, InitTypes DEF CollectionInit
<1>2. LibraryTypes /\ RoomInv => OfflineWithinLimit
  <2>1. ASSUME LibraryTypes, RoomInv
        PROVE  Cardinality(held) <= Limit /\ Cardinality(account.downloads) <= Limit
    <3>1. /\ held \in SUBSET Tracks /\ account.downloads \in SUBSET Tracks
          /\ Asked(download) \in SUBSET Downloads
          /\ Passed(download) \in SUBSET Downloads
      BY <2>1 DEF LibraryTypes, Asked, Passed
    <3>2. QED
      BY <2>1, <3>1, Fewer DEF RoomInv
  <2>2. QED
    BY <2>1 DEF OfflineWithinLimit, Limit
<1>3. QED
  BY <1>1, <1>2, TypesKept, RoomKept, PTL DEF CollectionSpec

-----------------------------------------------------------------------------
(* Playlists: the store holds the server's rows at rest                    *)

Kinds == {"create", "create and set", "import", "add", "set", "remove", "join", "share",
          "leave", "delete", "update"}
Changes == {"add", "set", "remove", "update", "share"}
Creates == {"create", "create and set", "import"}

\* Records with the columns of a row and with the fields of a call.
IsRow(r) == r \in [owner : {r.owner}, items : {r.items}, shared : {r.shared}, member : {r.member}]
IsEdit(x) == x \in [at : {x.at}, kind : {x.kind}, by : {x.by}, id : {x.id}, list : {x.list},
                    seen : {x.seen}, row : {x.row}]

\* What is known of a call: its playlist, unless it is about to insert one.
EditShape(x) ==
  /\ IsEdit(x) /\ x.at \in {"idle", "sent", "read", "done"}
  /\ x.at # "idle" =>
       x.kind \in Kinds /\ (x.id \in Ids \/ (x.at = "sent" /\ x.kind \in Creates))
  /\ x.at = "read" => x.kind \in Changes

PlaylistShapes ==
  /\ rows = [l \in Ids |-> rows[l]] /\ \A l \in Ids : IsRow(rows[l])
  /\ shelf = [l \in Ids |-> shelf[l]] /\ listing = [l \in Ids |-> listing[l]]
  /\ edit = [e \in Edits |-> edit[e]] /\ \A e \in Edits : EditShape(edit[e])

\* What the account sees of a row, and a store that shows it.
Seen(l) == IF CanEdit(l) THEN rows[l] ELSE NoRow
InSync == \A l \in Ids : shelf[l] = Seen(l)

\* What an edit that runs alone has done to the row and not yet to the store.
EditInv(e) ==
  LET l == edit[e].id IN
  /\ edit[e].at \in {"sent", "read"} =>
       InSync /\ (edit[e].kind = "leave" => ~Mine(l))
  /\ edit[e].at = "done" /\ edit[e].kind # "import" =>
       /\ \A m \in Ids \ {l} : shelf[m] = Seen(m)
       /\ IF edit[e].kind \in {"delete", "leave"} THEN ~CanEdit(l)
          ELSE CanEdit(l) /\ edit[e].row = rows[l]
       /\ edit[e].kind \in Changes => Entry(l)

\* Unless edits overlapped, one runs at a time and not beside a load; then the
\* store shows the rows, or what is under way brings it there.
ShelfInv ==
  ~overtaken =>
    /\ \A e \in Edits : edit[e].at # "idle" =>
         /\ page.signed /\ visit.at = "none"
         /\ \A f \in Edits \ {e} : edit[f].at = "idle"
    /\ page.signed /\ ~crossed =>
         /\ visit.at \in {"none", "import"} /\ (\A e \in Edits : edit[e].at = "idle") => InSync
         /\ visit.at \in {"loaded", "reloaded"} => \A l \in Ids : listing[l] = Seen(l)
         /\ \A e \in Edits : EditInv(e)

\* The call e moves on, the others stay.
Moves(e) ==
  /\ edit' = [f \in Edits |-> edit'[f]] /\ IsEdit(edit'[e])
  /\ \A f \in Edits \ {e} : edit'[f] = edit[f]

\* A call whose handler has read the row.
LEMMA ReadMoves ==
  ASSUME PlaylistShapes, NEW e \in Edits, ReadRow(e)
  PROVE  /\ Moves(e) /\ edit[e].at = "sent" /\ edit'[e].at = "read"
         /\ edit'[e].kind = edit[e].kind /\ edit'[e].id = edit[e].id
         /\ edit[e].kind \in Changes /\ edit[e].id \in Ids
BY DEF PlaylistShapes, EditShape, IsEdit, ReadRow, Moves, Changes, Creates

\* A handler that writes the row it has read: the access to it stays.
LEMMA WriteMoves ==
  ASSUME PlaylistShapes, NEW e \in Edits, WriteItems(e) \/ WriteFields(e)
  PROVE  LET l == edit[e].id IN
         /\ Moves(e) /\ edit[e].at = "read" /\ edit'[e].at = "done"
         /\ edit'[e].kind = edit[e].kind /\ edit[e].kind \in Changes
         /\ l \in Ids /\ edit'[e].id = l /\ edit'[e].row = rows'[l]
         /\ rows' = [m \in Ids |-> rows'[m]] /\ IsRow(rows'[l])
         /\ rows'[l].owner = rows[l].owner /\ rows'[l].member = rows[l].member
         /\ CanEdit(l) /\ \A m \in Ids \ {l} : rows'[m] = rows[m]
<1> DEFINE l == edit[e].id
<1>1. edit[e].at = "read" /\ edit[e].kind \in Changes /\ l \in Ids /\ CanEdit(l)
  BY DEF PlaylistShapes, EditShape, WriteItems, WriteFields, CanEdit
<1>2. edit' = [edit EXCEPT ![e].at = "done", ![e].row = rows'[l]]
  BY DEF WriteItems, WriteFields
<1>3. PICK f : rows' = [rows EXCEPT ![l].items = f] \/ rows' = [rows EXCEPT ![l].shared = f]
  BY DEF WriteItems, WriteFields
<1>4. Moves(e) /\ edit'[e].at = "done" /\ edit'[e].kind = edit[e].kind /\ edit'[e].id = l
      /\ edit'[e].row = rows'[l]
  BY <1>2 DEF PlaylistShapes, EditShape, IsEdit, Moves
<1>5. rows' = [m \in Ids |-> rows'[m]] /\ IsRow(rows'[l])
      /\ rows'[l].owner = rows[l].owner /\ rows'[l].member = rows[l].member
  BY <1>1, <1>3 DEF PlaylistShapes, IsRow
<1>6. \A m \in Ids \ {l} : rows'[m] = rows[m]
  BY <1>3 DEF PlaylistShapes
<1> QED
  BY <1>1, <1>4, <1>5, <1>6

\* The rows of an account and of nobody have the columns of a row.
LEMMA RowShapes ==
  /\ IsRow(NoRow) /\ NoRow.owner = "none"
  /\ \A items : /\ IsRow(MyRow(items)) /\ MyRow(items).owner = "me"
                /\ IsRow(FriendRow(items))
BY DEF IsRow, NoRow, MyRow, FriendRow

\* A playlist that was created: it is the account's.
LEMMA InsertMoves ==
  ASSUME PlaylistShapes, NEW e \in Edits, InsertRow(e)
  PROVE  LET l == edit'[e].id IN
         /\ Moves(e) /\ edit[e].at = "sent" /\ edit'[e].at = "done"
         /\ edit'[e].kind = edit[e].kind /\ edit[e].kind \in Creates
         /\ l \in Ids /\ edit'[e].row = rows'[l]
         /\ rows' = [m \in Ids |-> rows'[m]] /\ IsRow(rows'[l])
         /\ rows'[l].owner = "me" /\ \A m \in Ids \ {l} : rows'[m] = rows[m]
<1>1. edit[e].at = "sent" /\ edit[e].kind \in Creates
  BY DEF InsertRow, Creates
<1>2. PICK l \in Ids :
        /\ rows' = [rows EXCEPT ![l] =
             MyRow(IF edit[e].kind = "import" THEN edit[e].list ELSE <<>>)]
        /\ edit' = [edit EXCEPT ![e].at = "done", ![e].id = l, ![e].row = rows'[l]]
  BY DEF InsertRow
<1>3. /\ Moves(e) /\ edit'[e].at = "done" /\ edit'[e].kind = edit[e].kind
      /\ edit'[e].id = l /\ edit'[e].row = rows'[l]
  <2>1. /\ edit' = [f \in Edits |-> edit'[f]] /\ \A f \in Edits \ {e} : edit'[f] = edit[f]
        /\ edit'[e] = [edit[e] EXCEPT !.at = "done", !.id = l, !.row = rows'[l]]
    BY <1>2 DEF PlaylistShapes
  <2> DEFINE x == [edit[e] EXCEPT !.at = "done", !.id = l]
  <2>2. IsEdit(x) /\ x.at = "done" /\ x.id = l /\ x.kind = edit[e].kind
    BY DEF PlaylistShapes, EditShape, IsEdit
  <2>3. edit'[e] = [x EXCEPT !.row = rows'[l]]
    BY <2>1
  <2> HIDE DEF x
  <2>4. /\ IsEdit(edit'[e]) /\ edit'[e].at = "done" /\ edit'[e].id = l
        /\ edit'[e].kind = edit[e].kind /\ edit'[e].row = rows'[l]
    BY <2>2, <2>3 DEF IsEdit
  <2> QED
    BY <2>1, <2>4 DEF Moves
<1>4. /\ rows' = [m \in Ids |-> rows'[m]] /\ \A m \in Ids \ {l} : rows'[m] = rows[m]
      /\ rows'[l] = MyRow(IF edit[e].kind = "import" THEN edit[e].list ELSE <<>>)
  BY <1>2 DEF PlaylistShapes
<1>5. IsRow(rows'[l]) /\ rows'[l].owner = "me"
  BY <1>4, RowShapes
<1> QED
  BY <1>1, <1>3, <1>4, <1>5

\* A playlist that was joined: a friend's, with the account as a member.
LEMMA JoinMoves ==
  ASSUME PlaylistShapes, NEW e \in Edits, JoinRow(e)
  PROVE  LET l == edit[e].id IN
         /\ Moves(e) /\ edit[e].at = "sent" /\ edit'[e].at = "done"
         /\ edit[e].kind = "join" /\ edit'[e].kind = "join"
         /\ l \in Ids /\ edit'[e].id = l /\ edit'[e].row = rows'[l]
         /\ rows' = [m \in Ids |-> rows'[m]] /\ IsRow(rows'[l])
         /\ rows'[l].owner = "friend" /\ rows'[l].member = TRUE
         /\ \A m \in Ids \ {l} : rows'[m] = rows[m]
<1> DEFINE l == edit[e].id
<1>1. edit[e].at = "sent" /\ edit[e].kind = "join" /\ l \in Ids /\ rows[l].owner = "friend"
  BY DEF JoinRow, PlaylistShapes, EditShape, Creates
<1>2. rows' = [rows EXCEPT ![l].member = TRUE]
  BY DEF JoinRow
<1>3. edit' = [edit EXCEPT ![e].at = "done", ![e].row = rows'[l]]
  BY DEF JoinRow
<1>4. /\ Moves(e) /\ edit'[e].at = "done" /\ edit'[e].kind = edit[e].kind
      /\ edit'[e].id = l /\ edit'[e].row = rows'[l]
  BY <1>3 DEF PlaylistShapes, EditShape, IsEdit, Moves
<1>5. /\ rows' = [m \in Ids |-> rows'[m]] /\ IsRow(rows'[l])
      /\ rows'[l].owner = "friend" /\ rows'[l].member = TRUE
      /\ \A m \in Ids \ {l} : rows'[m] = rows[m]
  BY <1>1, <1>2 DEF PlaylistShapes, IsRow
<1> QED
  BY <1>1, <1>4, <1>5

\* A playlist that was deleted or left: of one that is not the account's, it sees
\* nothing then.
LEMMA DropMoves ==
  ASSUME PlaylistShapes, NEW e \in Edits, DropRow(e)
  PROVE  LET l == edit[e].id IN
         /\ Moves(e) /\ edit[e].at = "sent" /\ edit'[e].at = "done"
         /\ edit[e].kind \in {"delete", "leave"} /\ edit'[e].kind = edit[e].kind
         /\ l \in Ids /\ edit'[e].id = l
         /\ rows' = [m \in Ids |-> rows'[m]] /\ IsRow(rows'[l])
         /\ (edit[e].kind = "leave" => ~Mine(l)) => ~CanEdit(l)'
         /\ \A m \in Ids \ {l} : rows'[m] = rows[m]
<1> DEFINE l == edit[e].id
<1>1. edit[e].at = "sent" /\ edit[e].kind \in {"delete", "leave"} /\ l \in Ids
  BY DEF DropRow, PlaylistShapes, EditShape, Creates
<1>2. edit' = [edit EXCEPT ![e].at = "done"]
  BY DEF DropRow
<1>3. Moves(e) /\ edit'[e].at = "done" /\ edit'[e].kind = edit[e].kind /\ edit'[e].id = l
  BY <1>2 DEF PlaylistShapes, EditShape, IsEdit, Moves
<1>4. /\ rows' = [m \in Ids |-> rows'[m]] /\ \A m \in Ids \ {l} : rows'[m] = rows[m]
      /\ rows'[l] = IF edit[e].kind = "delete" THEN NoRow
                    ELSE [rows[l] EXCEPT !.member = FALSE]
  BY <1>1 DEF DropRow, PlaylistShapes
<1>5. CASE edit[e].kind = "delete"
  BY <1>1, <1>3, <1>4, <1>5, RowShapes DEF CanEdit, Mine
<1>6. CASE edit[e].kind = "leave"
  <2>1. /\ rows'[l] = [rows[l] EXCEPT !.member = FALSE] /\ IsRow(rows[l])
    BY <1>1, <1>4, <1>6 DEF PlaylistShapes
  <2>2. IsRow(rows'[l]) /\ rows'[l].owner = rows[l].owner /\ rows'[l].member = FALSE
    BY <2>1 DEF IsRow
  <2>3. ~Mine(l) => ~CanEdit(l)'
    BY <1>1, <1>3, <2>2 DEF CanEdit, Mine
  <2> QED
    BY <1>1, <1>3, <1>4, <1>6, <2>2, <2>3
<1> QED
  BY <1>1, <1>5, <1>6

\* A call that ends.
LEMMA EndMoves ==
  ASSUME PlaylistShapes, NEW e \in Edits,
         Answers(e) \/ Imported(e) \/ EditRefused(e) \/ EditFails(e)
  PROVE  Moves(e) /\ edit[e].at # "idle" /\ edit'[e].at = "idle"
<1>1. edit' = [edit EXCEPT ![e] = NoEdit] /\ edit[e].at # "idle"
  BY DEF Answers, Imported, EditRefused, EditFails
<1>2. NoEdit.at = "idle" /\ IsEdit(NoEdit)
  BY DEF NoEdit, IsEdit
<1> QED
  BY <1>1, <1>2 DEF PlaylistShapes, Moves

\* A playlist that SaveQueueMenu has created and goes on to fill.
LEMMA CreatedMoves ==
  ASSUME PlaylistShapes, NEW e \in Edits, CreatedFromQueue(e)
  PROVE  /\ Moves(e) /\ edit[e].at = "done" /\ edit[e].kind = "create and set"
         /\ edit'[e].at = "sent" /\ edit'[e].kind = "set"
         /\ edit[e].id \in Ids /\ edit'[e].id = edit[e].id
BY DEF PlaylistShapes, EditShape, IsEdit, CreatedFromQueue, Moves, Creates

\* What the controls of the pages send.
Sent(by, kind, l, list, seen) ==
  /\ Start(by, kind, l, list, seen)
  /\ kind \in Kinds /\ (l \in Ids \/ kind \in Creates)
  /\ kind = "leave" => l \in Ids /\ shelf[l] # NoRow /\ shelf[l].owner # "me"
PageStarts == \E by, kind, l, list, seen : Sent(by, kind, l, list, seen)

ServerMoves(e) ==
  \/ ReadRow(e) \/ WriteItems(e) \/ WriteFields(e) \/ InsertRow(e) \/ JoinRow(e)
  \/ DropRow(e) \/ Answers(e) \/ CreatedFromQueue(e) \/ Imported(e)
  \/ EditRefused(e) \/ EditFails(e)

\* The steps of the playlists by what they do to the calls.
LEMMA PlaylistSteps ==
  ASSUME PlaylistStep
  PROVE  \/ PageStarts
         \/ \E l \in Ids : OpenPlaylist(l) \/ FriendEdits(l)
         \/ \E e \in Edits : ServerMoves(e)
<1>1. ASSUME NEW by, NEW kind, NEW l, NEW list, NEW seen, Sent(by, kind, l, list, seen)
      PROVE  PageStarts
  BY <1>1 DEF PageStarts
<1>2. ASSUME NEW by, NEW kind, NEW l \in Ids, NEW list, NEW seen,
             Start(by, kind, l, list, seen), kind \in Kinds \ {"leave"}
      PROVE  PageStarts
  BY <1>1, <1>2 DEF Sent
<1>3. ASSUME NEW by, NEW kind, NEW l, NEW list, NEW seen,
             Start(by, kind, l, list, seen), kind \in Creates
      PROVE  PageStarts
  BY <1>1, <1>3 DEF Sent, Kinds, Creates
<1>4. ASSUME NEW l \in Ids, CollabPanel(l), Entry(l)
      PROVE  PageStarts
  <2>1. CASE shelf[l].owner = "me"
    BY <1>2, <1>4, <2>1 DEF CollabPanel, Kinds
  <2>2. CASE shelf[l].owner # "me"
    BY <1>1, <1>4, <2>2 DEF CollabPanel, Sent, Kinds, Entry
  <2> QED
    BY <2>1, <2>2
<1>5. ASSUME NEW l \in Ids, JoinPage(l) \/ PlaylistHeader(l) \/ PlaylistRows(l)
      PROVE  PageStarts
  BY <1>2, <1>4, <1>5 DEF JoinPage, PlaylistHeader, EditOrDelete, PlaylistRows, ReorderTracks,
       RemoveTrack, Kinds
<1>6. ASSUME NEW t \in Tracks, SaveQueueMenu(t) \/ \E l \in Ids : AddToPlaylistMenu(l, t)
      PROVE  PageStarts
  BY <1>2, <1>3, <1>6 DEF SaveQueueMenu, AddToPlaylistMenu, Kinds, Creates
<1>7. ASSUME LibraryPage
      PROVE  PageStarts \/ \E l \in Ids : OpenPlaylist(l)
  BY <1>3, <1>7 DEF LibraryPage, CreatePlaylist, PlaylistImportPanel, ConfirmImport, Creates
<1> QED
  BY <1>5, <1>6, <1>7 DEF PlaylistStep, ServerMoves

\* A call that is sent, by its kind and playlist.
LEMMA StartMoves ==
  ASSUME PlaylistShapes, NEW by, NEW kind, NEW l, NEW list, NEW seen,
         Start(by, kind, l, list, seen)
  PROVE  /\ \E e \in Edits : /\ Moves(e) /\ edit[e].at = "idle"
                             /\ edit'[e].at = "sent" /\ edit'[e].kind = kind /\ edit'[e].id = l
         /\ page.signed /\ UNCHANGED <<page, visit, crossed, rows, shelf, listing>>
         /\ overtaken' = (overtaken \/ visit.at # "none" \/ \E e \in Edits : edit[e].at # "idle")
<1> DEFINE w == [NoEdit EXCEPT !.at = "sent", !.kind = kind]
           x == [w EXCEPT !.by = by, !.id = l]
           y == [x EXCEPT !.list = list, !.seen = seen]
<1>1. IsEdit(w) /\ w.at = "sent" /\ w.kind = kind
  BY DEF IsEdit, NoEdit
<1>2. IsEdit(x) /\ x.at = "sent" /\ x.kind = kind /\ x.id = l
  <2> HIDE DEF w
  <2> QED
    BY <1>1 DEF IsEdit
<1>3. IsEdit(y) /\ y.at = "sent" /\ y.kind = kind /\ y.id = l
  <2> HIDE DEF x
  <2> QED
    BY <1>2 DEF IsEdit
<1>4. PICK e \in Edits : edit[e].at = "idle" /\ edit' = [edit EXCEPT ![e] = y]
  BY DEF Start
<1> HIDE DEF y
<1>5. Moves(e) /\ edit'[e] = y
  BY <1>3, <1>4 DEF PlaylistShapes, Moves
<1>6. /\ page.signed /\ UNCHANGED <<page, visit, crossed, rows, shelf, listing>>
      /\ overtaken' = (overtaken \/ visit.at # "none" \/ \E f \in Edits : edit[f].at # "idle")
  BY DEF Start, library, history
<1> QED
  BY <1>3, <1>4, <1>5, <1>6

\* The store after an answer.
LEMMA ShelvedShape ==
  ASSUME PlaylistShapes, NEW e \in Edits
  PROVE  LET l == edit[e].id IN
         /\ Shelved(e) = [m \in Ids |-> Shelved(e)[m]]
         /\ \A m \in Ids \ {l} : Shelved(e)[m] = shelf[m]
         /\ l \in Ids =>
              /\ edit[e].kind \in {"delete", "leave"} => Shelved(e)[l] = NoRow
              /\ edit[e].kind \in {"create", "create and set", "join"} =>
                   Shelved(e)[l] = edit[e].row
              /\ edit[e].kind \in Changes /\ Entry(l) => Shelved(e)[l] = edit[e].row
<1>1. Shelved(e) \in {shelf, [shelf EXCEPT ![edit[e].id] = NoRow],
                      [shelf EXCEPT ![edit[e].id] = edit[e].row]}
  BY DEF Shelved
<1>2. /\ Shelved(e) = [m \in Ids |-> Shelved(e)[m]]
      /\ \A m \in Ids \ {edit[e].id} : Shelved(e)[m] = shelf[m]
  BY <1>1 DEF PlaylistShapes
<1>3. /\ edit[e].kind \in {"delete", "leave"} =>
           Shelved(e) = [shelf EXCEPT ![edit[e].id] = NoRow]
      /\ edit[e].kind \in {"create", "create and set", "join"}
           \/ (edit[e].kind \in Changes /\ Entry(edit[e].id)) =>
           Shelved(e) = [shelf EXCEPT ![edit[e].id] = edit[e].row]
  BY DEF Shelved, Changes
<1> QED
  BY <1>2, <1>3 DEF PlaylistShapes

\* The shapes are kept.
LEMMA ShapesKept ==
  ASSUME PlaylistShapes, [CollectionNext]_collectionVars
  PROVE  PlaylistShapes'
<1> DEFINE RowsOk == rows' = [l \in Ids |-> rows'[l]] /\ \A l \in Ids : IsRow(rows'[l])
           StoreOk == shelf' = [l \in Ids |-> shelf'[l]] /\ listing' = [l \in Ids |-> listing'[l]]
           EditsOk == edit' = [e \in Edits |-> edit'[e]] /\ \A e \in Edits : EditShape(edit'[e])
<1>1. ASSUME RowsOk, StoreOk, EditsOk
      PROVE  PlaylistShapes'
  BY <1>1 DEF PlaylistShapes, EditShape, IsRow, IsEdit
<1>2. /\ UNCHANGED rows => RowsOk
      /\ UNCHANGED <<shelf, listing>> => StoreOk
      /\ UNCHANGED edit => EditsOk
  BY DEF PlaylistShapes
<1>3. EditShape(NoEdit)
  BY DEF EditShape, IsEdit, NoEdit
<1>4. ASSUME NEW e \in Edits, Moves(e), EditShape(edit'[e])
      PROVE  EditsOk
  BY <1>4 DEF Moves, PlaylistShapes
<1>5. ASSUME NEW l \in Ids, IsRow(rows'[l]), rows' = [m \in Ids |-> rows'[m]],
             \A m \in Ids \ {l} : rows'[m] = rows[m]
      PROVE  RowsOk
  BY <1>5 DEF PlaylistShapes
<1>6. CASE LibraryStep
  <2>1. CASE StoreEmptied
    <3>1. EditsOk
      BY <1>3, <2>1 DEF StoreEmptied, Drop
    <3>2. StoreOk /\ UNCHANGED rows
      BY <2>1 DEF StoreEmptied, Empty, PlaylistShapes
    <3> QED
      BY <1>1, <1>2, <3>1, <3>2
  <2>2. CASE StoreReset \/ StoreListed \/ StoreLoaded
    <3>1. StoreOk
      BY <2>2 DEF StoreReset, StoreListed, StoreLoaded, Empty, PlaylistShapes
    <3>2. UNCHANGED <<rows, edit>>
      BY <2>2 DEF StoreReset, StoreListed, StoreLoaded
    <3> QED
      BY <1>1, <1>2, <3>1, <3>2
  <2>3. CASE UNCHANGED playlistVars
    BY <1>1, <1>2, <2>3 DEF playlistVars
  <2> QED
    BY <1>6, <2>1, <2>2, <2>3 DEF LibraryStep
<1>7. CASE PageStarts
  <2>1. PICK by, kind, l, list, seen : Sent(by, kind, l, list, seen)
    BY <1>7 DEF PageStarts
  <2>2. UNCHANGED <<rows, shelf, listing>>
    BY <2>1, StartMoves DEF Sent
  <2>3. PICK e \in Edits : Moves(e) /\ edit'[e].at = "sent" /\ edit'[e].kind = kind
                           /\ edit'[e].id = l
    BY <2>1, StartMoves DEF Sent
  <2>4. EditShape(edit'[e])
    BY <2>1, <2>3 DEF Sent, EditShape, Moves
  <2> QED
    BY <1>1, <1>2, <1>4, <2>2, <2>3, <2>4
<1>8. ASSUME NEW l \in Ids, OpenPlaylist(l) \/ FriendEdits(l)
      PROVE  PlaylistShapes'
  <2>1. UNCHANGED <<shelf, listing, edit>>
    BY <1>8 DEF OpenPlaylist, FriendEdits
  <2>2. UNCHANGED rows \/ \E items : rows' = [rows EXCEPT ![l].items = items]
    BY <1>8 DEF OpenPlaylist, FriendEdits
  <2>3. RowsOk
    BY <2>2 DEF PlaylistShapes, IsRow
  <2> QED
    BY <1>1, <1>2, <2>1, <2>3
<1>9. ASSUME NEW e \in Edits, ServerMoves(e)
      PROVE  PlaylistShapes'
  <2> USE DEF EditShape
  <2>1. CASE ReadRow(e)
    <3>1. EditShape(edit'[e]) /\ Moves(e)
      BY <2>1, ReadMoves DEF PlaylistShapes, Moves
    <3>2. UNCHANGED <<rows, shelf, listing>>
      BY <2>1 DEF ReadRow, server
    <3> QED
      BY <1>1, <1>2, <1>4, <3>1, <3>2
  <2>2. CASE WriteItems(e) \/ WriteFields(e)
    <3>1. EditShape(edit'[e]) /\ Moves(e)
      BY <2>2, WriteMoves DEF PlaylistShapes, Moves
    <3>2. UNCHANGED <<shelf, listing>>
      BY <2>2 DEF WriteItems, WriteFields, server
    <3> QED
      BY <1>1, <1>2, <1>4, <1>5, <2>2, <3>1, <3>2, WriteMoves
  <2>3. CASE InsertRow(e)
    <3>1. EditShape(edit'[e]) /\ Moves(e)
      BY <2>3, InsertMoves DEF PlaylistShapes, Moves
    <3>2. UNCHANGED <<shelf, listing>>
      BY <2>3 DEF InsertRow, server
    <3> QED
      BY <1>1, <1>2, <1>4, <1>5, <2>3, <3>1, <3>2, InsertMoves
  <2>4. CASE JoinRow(e)
    <3>1. EditShape(edit'[e]) /\ Moves(e)
      BY <2>4, JoinMoves DEF Moves, Kinds
    <3>2. UNCHANGED <<shelf, listing>>
      BY <2>4 DEF JoinRow, server
    <3> QED
      BY <1>1, <1>2, <1>4, <1>5, <2>4, <3>1, <3>2, JoinMoves
  <2>5. CASE DropRow(e)
    <3>1. EditShape(edit'[e]) /\ Moves(e)
      BY <2>5, DropMoves DEF PlaylistShapes, Moves
    <3>2. UNCHANGED <<shelf, listing>>
      BY <2>5 DEF DropRow, server
    <3> QED
      BY <1>1, <1>2, <1>4, <1>5, <2>5, <3>1, <3>2, DropMoves
  <2>6. CASE Answers(e) \/ Imported(e) \/ EditRefused(e) \/ EditFails(e)
    <3>1. EditShape(edit'[e]) /\ Moves(e)
      BY <2>6, EndMoves DEF Moves
    <3>2. UNCHANGED <<rows, listing>> /\ shelf' \in {shelf, Shelved(e)}
      BY <2>6 DEF Answers, Imported, EditRefused, EditFails
    <3>3. StoreOk
      BY <3>2, ShelvedShape DEF PlaylistShapes
    <3> QED
      BY <1>1, <1>2, <1>4, <3>1, <3>2, <3>3
  <2>7. CASE CreatedFromQueue(e)
    <3>1. EditShape(edit'[e]) /\ Moves(e)
      BY <2>7, CreatedMoves DEF Moves, Kinds
    <3>2. UNCHANGED <<rows, listing>> /\ shelf' = Shelved(e)
      BY <2>7 DEF CreatedFromQueue
    <3>3. StoreOk
      BY <3>2, ShelvedShape DEF PlaylistShapes
    <3> QED
      BY <1>1, <1>2, <1>4, <3>1, <3>2, <3>3
  <2> QED
    BY <1>9, <2>1, <2>2, <2>3, <2>4, <2>5, <2>6, <2>7 DEF ServerMoves
<1>10. CASE UNCHANGED collectionVars
  BY <1>1, <1>2, <1>10 DEF collectionVars, playlistVars
<1> QED
  BY <1>6, <1>7, <1>8, <1>9, <1>10, PlaylistSteps DEF CollectionNext

\* Nothing of the playlists changes: their parts of the invariant stay as they are.
LEMMA PlaylistsStay ==
  ASSUME UNCHANGED <<rows, shelf, listing, edit, overtaken>>
  PROVE  /\ InSync' <=> InSync
         /\ (\A l \in Ids : listing[l] = Seen(l))' <=> \A l \in Ids : listing[l] = Seen(l)
         /\ \A e \in Edits : edit'[e] = edit[e] /\ (EditInv(e)' <=> EditInv(e))
<1>1. InSync' <=> InSync
  BY DEF InSync, Seen, CanEdit, Mine
<1>2. (\A l \in Ids : listing[l] = Seen(l))' <=> \A l \in Ids : listing[l] = Seen(l)
  BY DEF Seen, CanEdit, Mine
<1>3. ASSUME NEW e \in Edits
      PROVE  edit'[e] = edit[e] /\ (EditInv(e)' <=> EditInv(e))
  BY <1>1 DEF EditInv, Seen, CanEdit, Mine, Entry
<1> QED
  BY <1>1, <1>2, <1>3

\* A page that is not signed in, or whose edits overlapped, is not spoken of.
LEMMA NotSpokenOf ==
  \/ overtaken'
  \/ ~page'.signed /\ \A e \in Edits : edit'[e].at = "idle"
  => ShelfInv'
BY DEF ShelfInv

\* The steps beside the playlists.
LEMMA BesideKeeps ==
  ASSUME LibraryTypes, ShelfInv, UNCHANGED <<rows, shelf, listing, edit, overtaken>>,
         \/ page'.signed = page.signed /\ visit'.at = visit.at /\ (crossed => crossed')
         \/ /\ visit'.at \in {"load", "imported", "reload"}
            /\ ~page.signed \/ visit.at # "none"
         \/ page'.signed = page.signed /\ visit.at = "import" /\ visit'.at = "none"
            /\ (crossed => crossed')
         \/ crossed' /\ visit.at # "none"
  PROVE  ShelfInv'
<1>1. CASE overtaken
  BY <1>1, NotSpokenOf
<1>2. CASE ~overtaken /\ \A e \in Edits : edit[e].at = "idle"
  <2>1. \A e \in Edits : edit'[e].at = "idle" /\ EditInv(e)'
    BY <1>2 DEF EditInv
  <2> QED
    BY <1>2, <2>1, PlaylistsStay DEF ShelfInv
<1>3. CASE ~overtaken /\ ~\A e \in Edits : edit[e].at = "idle"
  <2>1. page.signed /\ visit.at = "none"
    BY <1>3 DEF ShelfInv
  <2>2. page'.signed = page.signed /\ visit'.at = visit.at /\ (crossed => crossed')
    BY <2>1
  <2> QED
    BY <1>3, <2>2, PlaylistsStay DEF ShelfInv
<1> QED
  BY <1>1, <1>2, <1>3

\* The likes, the import and the sign-in, while the playlists stay as they are.
LEMMA LibraryKeepsShelf ==
  ASSUME LibraryTypes, ShelfInv, UNCHANGED playlistVars,
         \/ SignIn \/ MeAnswers \/ ImportArrives \/ ImportAnswers \/ ImportFails
         \/ (VisitFails /\ visit.of = "login") \/ LikeNext \/ OfflineNext
  PROVE  ShelfInv'
<1>1. UNCHANGED <<rows, shelf, listing, edit, overtaken>>
  BY DEF playlistVars
<1>2. CASE SignIn
  <2>1. ~page.signed /\ visit'.at = "load"
    BY <1>2 DEF SignIn, NoVisit
  <2> QED
    BY <1>1, <2>1, BesideKeeps
<1>3. CASE MeAnswers \/ ImportArrives \/ ImportAnswers
  <2>1. visit'.at \in {"load", "imported", "reload"} /\ visit.at # "none"
    BY <1>3 DEF MeAnswers, ImportArrives, ImportAnswers, LibraryTypes, VisitType
  <2> QED
    BY <1>1, <2>1, BesideKeeps
<1>4. CASE ImportFails
  <2>1. /\ page' = page /\ visit'.at = "none" /\ crossed' = (crossed \/ visit.at # "import")
        /\ visit.at # "none"
    BY <1>4 DEF ImportFails, NoVisit, Crosses
  <2>2. CASE visit.at = "import"
    BY <1>1, <2>1, <2>2, BesideKeeps
  <2>3. CASE visit.at # "import"
    BY <1>1, <2>1, <2>3, BesideKeeps
  <2> QED
    BY <2>2, <2>3
<1>5. CASE VisitFails /\ visit.of = "login"
  <2>1. visit.at # "none" /\ crossed'
    BY <1>5 DEF VisitFails, Crosses
  <2> QED
    BY <1>1, <2>1, BesideKeeps
<1>6. CASE LikeNext
  <2>1. page'.signed = page.signed /\ visit' = visit /\ (crossed => crossed')
    <3>1. ASSUME NEW t \in Tracks, GuestToggles(t) \/ ToggleStarts(t)
          PROVE  page'.signed = page.signed /\ visit' = visit /\ (crossed => crossed')
      BY <3>1 DEF GuestToggles, ToggleStarts, history, Crosses, LibraryTypes
    <3>2. ASSUME NEW c \in Calls, ToggleArrives(c) \/ ToggleAnswers(c) \/ ToggleFails(c)
          PROVE  page'.signed = page.signed /\ visit' = visit /\ (crossed => crossed')
      BY <3>2 DEF ToggleArrives, ToggleAnswers, ToggleFails, history, Crosses, LibraryTypes
    <3> QED
      BY <1>6, <3>1, <3>2 DEF LikeNext
  <2> QED
    BY <1>1, <2>1, BesideKeeps
<1>7. CASE OfflineNext
  <2>1. UNCHANGED <<page, visit, crossed>>
    BY <1>7 DEF OfflineNext, RemoveDownload, PlayExpired, Removed, DownloadStarts, Expire,
         PackageAllowed, PackageRecorded, SaveRecord, DownloadRefused, DownloadFails, likes,
         history
  <2> QED
    BY <1>1, <2>1, BesideKeeps
<1> QED
  BY <1>2, <1>3, <1>4, <1>5, <1>6, <1>7

\* Loads and resets of the store.
LEMMA LoadsKeepShelf ==
  ASSUME LibraryTypes, PlaylistShapes, ShelfInv,
         StoreEmptied \/ StoreReset \/ StoreListed \/ StoreLoaded
  PROVE  ShelfInv'
<1>1. CASE StoreEmptied
  <2>1. \A e \in Edits : edit'[e].at = "idle"
    BY <1>1 DEF StoreEmptied, Drop, NoEdit
  <2>2. ~page'.signed
    <3>1. page' \in {EmptyStore, GuestStore}
      BY <1>1 DEF StoreEmptied, OpenPage, VisitFails
    <3> QED
      BY <3>1 DEF EmptyStore, GuestStore
  <2> QED
    BY <2>1, <2>2, NotSpokenOf
<1>2. CASE StoreReset
  BY <1>2, NotSpokenOf DEF StoreReset
<1>3. CASE (StoreListed \/ StoreLoaded) /\ overtaken
  BY <1>3, NotSpokenOf DEF StoreListed, StoreLoaded
<1>4. CASE StoreListed /\ ~overtaken
  <2>1. /\ UNCHANGED <<rows, edit, overtaken>> /\ visit.at # "none"
        /\ visit'.at \in {"loaded", "reloaded"}
        /\ listing' = [l \in Ids |-> Seen(l)]
    BY <1>4 DEF StoreListed, LoadArrives, LibraryTypes, VisitType, Seen
  <2>2. \A e \in Edits : edit'[e].at = "idle" /\ EditInv(e)'
    BY <1>4, <2>1 DEF ShelfInv, EditInv
  <2>3. (\A l \in Ids : listing[l] = Seen(l))'
    BY <2>1 DEF Seen, CanEdit, Mine
  <2> QED
    BY <2>1, <2>2, <2>3 DEF ShelfInv
<1>5. CASE StoreLoaded /\ ~overtaken
  <2>1. /\ UNCHANGED <<rows, edit, overtaken, crossed>> /\ page'.signed = page.signed
        /\ visit.at \in {"loaded", "reloaded"} /\ shelf' = listing
    BY <1>5 DEF StoreLoaded, LoadAnswers, LibraryTypes, history
  <2>2. visit'.at \in {"none", "import"}
    BY <1>5, LoadOutcome DEF StoreLoaded
  <2>3. \A e \in Edits : edit'[e].at = "idle" /\ EditInv(e)'
    BY <1>5, <2>1 DEF ShelfInv, EditInv
  <2>4. page.signed /\ ~crossed => InSync'
    BY <1>5, <2>1 DEF ShelfInv, InSync, Seen, CanEdit, Mine
  <2> QED
    BY <2>1, <2>2, <2>3, <2>4 DEF ShelfInv
<1> QED
  BY <1>1, <1>2, <1>3, <1>4, <1>5

\* A call that starts alone finds the store in order.
LEMMA StartKeepsShelf ==
  ASSUME PlaylistShapes, ShelfInv, PageStarts
  PROVE  ShelfInv'
<1>1. PICK by, kind, l, list, seen : Sent(by, kind, l, list, seen)
  BY DEF PageStarts
<1>2. PICK e \in Edits : /\ Moves(e) /\ edit[e].at = "idle"
                         /\ edit'[e].at = "sent" /\ edit'[e].kind = kind /\ edit'[e].id = l
  BY <1>1, StartMoves DEF Sent
<1>3. /\ page.signed /\ UNCHANGED <<page, visit, crossed, rows, shelf, listing>>
      /\ overtaken' = (overtaken \/ visit.at # "none" \/ \E f \in Edits : edit[f].at # "idle")
  BY <1>1, StartMoves DEF Sent
<1>4. CASE overtaken'
  BY <1>4, NotSpokenOf
<1>5. CASE ~overtaken'
  <2>1. ~overtaken /\ visit.at = "none" /\ \A f \in Edits : edit[f].at = "idle"
    BY <1>3, <1>5
  <2>2. \A f \in Edits \ {e} : edit'[f].at = "idle"
    BY <1>2, <2>1 DEF Moves
  <2>3. ASSUME ~crossed
        PROVE  EditInv(e)'
    <3>1. InSync
      BY <1>3, <2>1, <2>3 DEF ShelfInv
    <3>2. InSync'
      BY <1>3, <3>1 DEF InSync, Seen, CanEdit, Mine
    <3>3. kind = "leave" => ~Mine(l)'
      BY <1>1, <1>3, <3>1 DEF Sent, InSync, Seen, Mine
    <3> QED
      BY <1>2, <3>2, <3>3 DEF EditInv, Mine
  <2>4. \A f \in Edits \ {e} : EditInv(f)'
    BY <2>2 DEF EditInv
  <2> QED
    BY <1>2, <1>3, <2>1, <2>2, <2>3, <2>4 DEF ShelfInv
<1> QED
  BY <1>4, <1>5

\* An edit that runs alone moves on: what is left to show is that it keeps its part.
LEMMA AloneKeeps ==
  ASSUME PlaylistShapes, ShelfInv, ~overtaken, NEW e \in Edits, edit[e].at # "idle", Moves(e),
         \/ UNCHANGED <<page, visit, crossed>>
         \/ edit'[e].at = "idle" /\ visit'.at = "reload",
         page.signed /\ ~crossed' => EditInv(e)' /\ (edit'[e].at = "idle" /\ visit'.at = "none" => InSync')
  PROVE  ShelfInv'
<1>1. /\ page.signed /\ visit.at = "none"
      /\ \A f \in Edits \ {e} : edit[f].at = "idle" /\ edit'[f].at = "idle"
  BY DEF ShelfInv, Moves
<1>2. \A f \in Edits \ {e} : EditInv(f)'
  BY <1>1 DEF EditInv
<1> QED
  BY <1>1, <1>2 DEF ShelfInv

\* The handlers: of all rows but the one they write, the account sees what it saw.
LEMMA HandlerKeepsShelf ==
  ASSUME PlaylistShapes, ShelfInv, NEW e \in Edits,
         \/ ReadRow(e) \/ WriteItems(e) \/ WriteFields(e) \/ InsertRow(e) \/ JoinRow(e)
         \/ DropRow(e)
  PROVE  ShelfInv'
<1>1. /\ UNCHANGED <<page, visit, crossed, shelf, listing, overtaken>>
  BY DEF ReadRow, WriteItems, WriteFields, InsertRow, JoinRow, DropRow, server, history
<1>2. CASE overtaken
  BY <1>1, <1>2, NotSpokenOf
<1>3. CASE ~overtaken
  <2>1. Moves(e) /\ edit[e].at \in {"sent", "read"} /\ edit'[e].at \in {"read", "done"}
    BY ReadMoves, WriteMoves, InsertMoves, JoinMoves, DropMoves
  <2>2. SUFFICES ASSUME page.signed, ~crossed
                 PROVE  EditInv(e)'
    BY <1>1, <1>3, <2>1, AloneKeeps
  <2>3. InSync /\ (edit[e].kind = "leave" => ~Mine(edit[e].id))
    BY <1>3, <2>1, <2>2 DEF ShelfInv, EditInv
  <2>a. PICK l : l = edit'[e].id
    OBVIOUS
  <2>4. ASSUME \A m \in Ids \ {l} : rows'[m] = rows[m]
        PROVE  \A m \in Ids \ {l} : shelf'[m] = Seen(m)'
    BY <1>1, <2>3, <2>4 DEF InSync, Seen, CanEdit, Mine
  <2>5. CASE ReadRow(e)
    <3>1. edit'[e].at = "read" /\ edit'[e].kind \in Changes
      BY <2>5, ReadMoves
    <3>2. UNCHANGED rows
      BY <2>5 DEF ReadRow
    <3>3. InSync'
      BY <1>1, <2>3, <3>2 DEF InSync, Seen, CanEdit, Mine
    <3> QED
      BY <3>1, <3>3 DEF EditInv, Changes
  <2>6. CASE WriteItems(e) \/ WriteFields(e)
    <3>1. /\ edit'[e].at = "done" /\ edit'[e].kind \in Changes /\ l \in Ids
          /\ edit'[e].row = rows'[l] /\ CanEdit(l)
          /\ rows'[l].owner = rows[l].owner /\ rows'[l].member = rows[l].member
          /\ \A m \in Ids \ {l} : rows'[m] = rows[m]
      BY <2>6, <2>a, WriteMoves
    <3>2. CanEdit(l)'
      BY <3>1 DEF CanEdit, Mine
    <3>3. shelf[l] = rows[l] /\ rows[l] # NoRow
      BY <2>3, <3>1 DEF InSync, Seen, CanEdit, Mine, NoRow
    <3>4. Entry(l)'
      BY <1>1, <3>3 DEF Entry
    <3> QED
      BY <2>4, <2>a, <3>1, <3>2, <3>4 DEF EditInv, Changes
  <2>7. CASE InsertRow(e)
    <3>1. /\ edit'[e].at = "done" /\ edit'[e].kind \in Creates /\ l \in Ids
          /\ edit'[e].row = rows'[l] /\ rows'[l].owner = "me"
          /\ \A m \in Ids \ {l} : rows'[m] = rows[m]
      BY <2>7, <2>a, InsertMoves
    <3>2. CanEdit(l)'
      BY <3>1 DEF CanEdit, Mine
    <3> QED
      BY <2>4, <2>a, <3>1, <3>2 DEF EditInv, Creates, Changes
  <2>8. CASE JoinRow(e)
    <3>1. /\ edit'[e].at = "done" /\ edit'[e].kind = "join" /\ l \in Ids
          /\ edit'[e].row = rows'[l] /\ rows'[l].owner = "friend" /\ rows'[l].member = TRUE
          /\ \A m \in Ids \ {l} : rows'[m] = rows[m]
      BY <2>8, <2>a, JoinMoves
    <3>2. CanEdit(l)'
      BY <3>1 DEF CanEdit, Mine
    <3> QED
      BY <2>4, <2>a, <3>1, <3>2 DEF EditInv, Changes
  <2>9. CASE DropRow(e)
    <3>1. /\ edit'[e].at = "done" /\ edit'[e].kind \in {"delete", "leave"} /\ l \in Ids
          /\ ~CanEdit(edit[e].id)' /\ l = edit[e].id
          /\ \A m \in Ids \ {l} : rows'[m] = rows[m]
      BY <2>3, <2>9, <2>a, DropMoves
    <3>2. ~CanEdit(l)'
      BY <2>a, <3>1 DEF CanEdit, Mine
    <3> QED
      BY <2>4, <2>a, <3>1, <3>2 DEF EditInv, Changes
  <2> QED
    BY <2>5, <2>6, <2>7, <2>8, <2>9
<1> QED
  BY <1>2, <1>3

\* The answers bring the store to the rows; so does the load after an import.
LEMMA AnswerKeepsShelf ==
  ASSUME PlaylistShapes, ShelfInv, NEW e \in Edits,
         Answers(e) \/ CreatedFromQueue(e) \/ Imported(e) \/ EditRefused(e) \/ EditFails(e)
  PROVE  ShelfInv'
<1>1. UNCHANGED rows /\ (overtaken => overtaken')
  <2>1. CASE Answers(e) \/ CreatedFromQueue(e) \/ EditRefused(e)
    <3>1. UNCHANGED <<rows, overtaken>>
      BY <2>1 DEF Answers, CreatedFromQueue, EditRefused
    <3> QED
      BY <3>1
  <2>2. CASE Imported(e) \/ EditFails(e)
    BY <2>2 DEF Imported, EditFails
  <2> QED
    BY <2>1, <2>2
<1>2. CASE overtaken'
  BY <1>2, NotSpokenOf
<1>3. CASE ~overtaken'
  <2>1. ~overtaken
    BY <1>1, <1>3
  <2>2. Moves(e) /\ edit[e].at # "idle" /\ edit'[e].at \in {"idle", "sent"}
    BY EndMoves, CreatedMoves
  <2>3. CASE Imported(e)
    <3>1. edit'[e].at = "idle" /\ visit'.at = "reload"
      BY <2>3, EndMoves DEF Imported, NoVisit
    <3>2. EditInv(e)'
      BY <3>1 DEF EditInv
    <3> QED
      BY <2>1, <2>2, <3>1, <3>2, AloneKeeps
  <2>4. CASE ~Imported(e)
    <3>1. UNCHANGED <<page, visit, crossed>>
      BY <2>4 DEF Answers, CreatedFromQueue, EditRefused, EditFails, library, history
    <3>2. SUFFICES ASSUME page.signed, ~crossed
                   PROVE  EditInv(e)' /\ InSync'
      BY <2>1, <2>2, <3>1, AloneKeeps
    <3>3. EditInv(e)
      BY <2>1, <3>2 DEF ShelfInv
    <3>4. CASE EditRefused(e) \/ EditFails(e)
      <4>1. edit[e].at \in {"sent", "read"} /\ UNCHANGED shelf /\ edit'[e].at = "idle"
        BY <1>3, <3>4, EndMoves DEF EditRefused, EditFails, PlaylistShapes, EditShape
      <4>2. InSync'
        BY <1>1, <3>3, <4>1 DEF EditInv, InSync, Seen, CanEdit, Mine
      <4> QED
        BY <4>1, <4>2 DEF EditInv
    <3>5. CASE Answers(e) \/ CreatedFromQueue(e)
      <4> DEFINE l == edit[e].id
      <4>1. /\ edit[e].at = "done" /\ edit[e].kind # "import" /\ shelf' = Shelved(e)
            /\ edit[e].kind \in Kinds /\ l \in Ids
        BY <3>5 DEF Answers, CreatedFromQueue, PlaylistShapes, EditShape
      <4>2. \A m \in Ids \ {l} : shelf'[m] = Seen(m)
        BY <3>3, <4>1, ShelvedShape DEF EditInv
      <4>3. shelf'[l] = Seen(l)
        <5>1. CASE edit[e].kind \in {"delete", "leave"}
          BY <3>3, <4>1, <5>1, ShelvedShape DEF EditInv, Seen
        <5>2. edit[e].kind \notin {"delete", "leave"} =>
                CanEdit(l) /\ edit[e].row = rows[l] /\ (edit[e].kind \in Changes => Entry(l))
          BY <3>3, <4>1 DEF EditInv
        <5>3. edit[e].kind \in {"delete", "leave", "create", "create and set", "join"} \cup Changes
          BY <4>1 DEF Kinds, Changes
        <5> QED
          BY <4>1, <5>1, <5>2, <5>3, ShelvedShape DEF Seen
      <4>4. InSync'
        BY <1>1, <4>2, <4>3 DEF InSync, Seen, CanEdit, Mine
      <4>5. edit'[e].at = "idle" \/ (edit'[e].at = "sent" /\ edit'[e].kind = "set")
        BY <3>5, EndMoves, CreatedMoves
      <4> QED
        BY <4>4, <4>5 DEF EditInv
    <3> QED
      BY <2>4, <3>4, <3>5
  <2> QED
    BY <2>3, <2>4
<1> QED
  BY <1>2, <1>3

\* Every step keeps the invariant.
LEMMA ShelfKept ==
  ASSUME LibraryTypes, PlaylistShapes, ShelfInv, [CollectionNext]_collectionVars
  PROVE  ShelfInv'
<1>1. CASE LibraryStep
  BY <1>1, LoadsKeepShelf, LibraryKeepsShelf DEF LibraryStep
<1>2. CASE PageStarts
  BY <1>2, StartKeepsShelf
<1>3. ASSUME NEW l \in Ids, OpenPlaylist(l) \/ FriendEdits(l)
      PROVE  ShelfInv'
  <2>1. CASE OpenPlaylist(l)
    <3>1. UNCHANGED <<page, visit, crossed, rows, shelf, listing, edit, overtaken>>
      BY <2>1 DEF OpenPlaylist, library, history
    <3> QED
      BY <3>1, BesideKeeps
  <2>2. CASE FriendEdits(l)
    BY <2>2, NotSpokenOf DEF FriendEdits
  <2> QED
    BY <1>3, <2>1, <2>2
<1>4. ASSUME NEW e \in Edits, ServerMoves(e)
      PROVE  ShelfInv'
  BY <1>4, HandlerKeepsShelf, AnswerKeepsShelf DEF ServerMoves
<1>5. CASE UNCHANGED collectionVars
  <2>1. UNCHANGED <<page, visit, crossed, rows, shelf, listing, edit, overtaken>>
    BY <1>5 DEF collectionVars, libraryVars, playlistVars
  <2> QED
    BY <2>1, BesideKeeps
<1> QED
  BY <1>1, <1>2, <1>3, <1>4, <1>5, PlaylistSteps DEF CollectionNext

\* A page that is open shows the account's rows.
LEMMA ShelfInit == CollectionInit => PlaylistShapes /\ ShelfInv
<1> SUFFICES ASSUME CollectionInit
             PROVE  PlaylistShapes /\ ShelfInv
  OBVIOUS
<1>1. /\ shelf = IF page.signed THEN [l \in Ids |-> IF CanEdit(l) THEN rows[l] ELSE NoRow]
                 ELSE Empty
      /\ listing = Empty /\ edit = [e \in Edits |-> NoEdit]
  BY DEF CollectionInit, PlaylistsInit
<1>2. \A e \in Edits : EditShape(edit[e]) /\ edit[e].at = "idle"
  BY <1>1 DEF EditShape, IsEdit, NoEdit
<1>3. PICK l \in Ids : \E pair \in {p \in Tracks \X Tracks : p[1] # p[2]} :
        rows \in {[Empty EXCEPT ![l] = MyRow(pair)], [Empty EXCEPT ![l] = FriendRow(pair)]}
  BY DEF CollectionInit, PlaylistsInit
<1>4. rows = [m \in Ids |-> rows[m]] /\ \A m \in Ids : IsRow(rows[m])
  BY <1>3, RowShapes DEF Empty
<1>5. PlaylistShapes
  BY <1>1, <1>2, <1>4 DEF PlaylistShapes, Empty
<1>6. page.signed => InSync
  BY <1>1 DEF InSync, Seen
<1>7. visit.at = "none"
  BY DEF CollectionInit, Init, NoVisit
<1> QED
  BY <1>2, <1>5, <1>6, <1>7 DEF ShelfInv, EditInv

\* AtRestShelfIsTrue: once all calls have ended and none overlapped another, lost
\* its answer or met a friend's edit, the store holds the server's rows, for any
\* number of playlists and of calls under way at once.
THEOREM ShelfAtRest == CollectionSpec => []AtRestShelfIsTrue
<1>1. ShelfInv => AtRestShelfIsTrue
  BY DEF ShelfInv, AtRestShelfIsTrue, InSync, Seen
<1> QED
  BY <1>1, ShelfInit, ShapesKept, ShelfKept, TypeCorrect, PTL DEF CollectionSpec
=============================================================================
