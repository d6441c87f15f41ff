---------------------------- MODULE WebPlaylists ----------------------------
(***************************************************************************)
(* The playlists of a signed-in listener: the store of apps/web/src/store/ *)
(* libraryStore.ts, the page of one playlist (pages/PlaylistPage.tsx), the *)
(* menus that write to it, and the server's rows                           *)
(* (internal/modules/library), which a friend edits too.  The sign-ins,    *)
(* loads and resets are those of WebLibrary.                               *)
(***************************************************************************)
EXTENDS WebLibrary, SequencesExt

CONSTANTS
  Ids,           \* playlists that the server can hold (bound)
  Edits,         \* calls under way at once (bound)
  MaxLength      \* tracks of a playlist (bound)

ASSUME PlaylistAssumption == MaxLength \in Nat

VARIABLES
  rows,          \* rows[l]: the server's row
  shelf,         \* shelf[l]: the entry of the store, if any
  listing,       \* what getPlaylists returned to a load under way
  shown,         \* the playlist of PlaylistPage
  edit,          \* edit[e]: a call that changes a playlist
  overtaken      \* history: edits of one row overlapped, or one lost its answer

playlistVars == <<rows, shelf, listing, shown, edit, overtaken>>
collectionVars == <<libraryVars, playlistVars>>

Lines == UNION {[1..n -> Tracks] : n \in 0..MaxLength}
NoRow == [owner |-> "none", items |-> <<>>, shared |-> FALSE, member |-> FALSE]
MyRow(items) == [NoRow EXCEPT !.owner = "me", !.items = items]
FriendRow(items) == [NoRow EXCEPT !.owner = "friend", !.items = items, !.shared = TRUE]
NoEdit == [at |-> "idle", kind |-> "none", by |-> "none", id |-> "none",
           list |-> <<>>, seen |-> <<>>, row |-> NoRow]

Mine(l) == rows[l].owner = "me"
CanEdit(l) == Mine(l) \/ (rows[l].owner = "friend" /\ rows[l].member)
Empty == [l \in Ids |-> NoRow]

PlaylistsInit ==
  /\ \E l \in Ids, pair \in {p \in Tracks \X Tracks : p[1] # p[2]} :
       rows \in {[Empty EXCEPT ![l] = MyRow(pair)], [Empty EXCEPT ![l] = FriendRow(pair)]}
  /\ shelf = IF page.signed THEN [l \in Ids |-> IF CanEdit(l) THEN rows[l] ELSE NoRow]
             ELSE Empty
  /\ listing = Empty
  /\ shown = "none"
  /\ edit = [e \in Edits |-> NoEdit]
  /\ overtaken = FALSE

-----------------------------------------------------------------------------
(* The library's steps, as the playlists see them *)

Drop == [e \in Edits |-> NoEdit]

\* reset, and load(false), leave no playlist of the account in the store.
StoreEmptied ==
  /\ OpenPage \/ (VisitFails /\ visit.of = "init")
  /\ shelf' = Empty /\ shown' = "none" /\ edit' = Drop
  /\ overtaken' = FALSE
  /\ UNCHANGED <<rows, listing>>

StoreReset ==
  /\ Logout \/ Refused
  /\ shelf' = Empty
  /\ overtaken' = TRUE
  /\ UNCHANGED <<rows, listing, shown, edit>>

StoreListed ==
  /\ LoadArrives
  /\ listing' = [l \in Ids |-> IF CanEdit(l) THEN rows[l] ELSE NoRow]
  /\ UNCHANGED <<rows, shelf, shown, edit, overtaken>>

StoreLoaded ==
  /\ LoadAnswers
  /\ shelf' = listing
  /\ UNCHANGED <<rows, listing, shown, edit, overtaken>>

LibraryStep ==
  \/ StoreEmptied \/ StoreReset \/ StoreListed \/ StoreLoaded
  \/ /\ \/ SignIn \/ MeAnswers \/ ImportArrives \/ ImportAnswers \/ ImportFails
        \/ (VisitFails /\ visit.of = "login") \/ LikeNext \/ OfflineNext
     /\ UNCHANGED playlistVars

-----------------------------------------------------------------------------
(* What a control sends *)

library == <<page, browser, account, visit, call, offline, history>>
Entry(l) == shelf[l] # NoRow
BusyOf(by) == \E e \in Edits : edit[e].at # "idle" /\ edit[e].by = by

Start(by, kind, l, list, seen) ==
  /\ page.signed /\ ~BusyOf(by)
  /\ Acts
  /\ \E e \in Edits :
       /\ edit[e].at = "idle"
       /\ edit' = [edit EXCEPT ![e] =
            [NoEdit EXCEPT !.at = "sent", !.kind = kind, !.by = by, !.id = l,
                           !.list = list, !.seen = seen]]
  /\ overtaken' = (overtaken \/ visit.at # "none" \/ \E e \in Edits : edit[e].at # "idle")
  /\ UNCHANGED <<library, rows, shelf, listing, shown>>

\* CreatePlaylistModal and the form of LibraryPage
CreatePlaylist == Start("form", "create", "none", <<>>, <<>>)

\* PlaylistImportPanel: confirmPlaylistImport of the tracks that were matched
ConfirmImport(t) == Start("import", "import", "none", <<t>>, <<>>)

\* AddToPlaylistMenu of a track
AddToPlaylistMenu(l, t) == Entry(l) /\ Start("menu", "add", l, <<t>>, <<>>)

\* SaveQueueMenu: the queue is appended to a playlist, or becomes a new one.
SaveQueueMenu(t) ==
  \/ \E l \in Ids : Entry(l) /\ Start("queue", "add", l, <<t>>, <<>>)
  \/ Start("queue", "create and set", "none", <<t>>, <<>>)

\* PlaylistJoinPage, with the token of a friend's playlist
JoinPage(l) ==
  /\ rows[l].owner = "friend" /\ rows[l].shared
  /\ Start("join", "join", l, <<>>, <<>>)

\* PlaylistCollabPanel: the owner's checkbox, the collaborator's button
CollabPanel(l) ==
  Start("panel", IF shelf[l].owner = "me" THEN "share" ELSE "leave", l, <<>>, <<>>)

\* PlaylistPage shows the entry of the store.
OpenPlaylist(l) ==
  /\ Entry(l) /\ shown # l
  /\ Acts
  /\ shown' = l
  /\ UNCHANGED <<library, rows, shelf, listing, edit, overtaken>>

\* Mutant: the track is put back one place early, over another.
MovedOver(s, i, j) ==
  [k \in 1..Len(s) |-> IF k = j THEN s[i] ELSE s[k]]

\* ids.splice(fromIndex, 1); ids.splice(toIndex, 0, item)
Moved(s, i, j) == InsertAt(RemoveAt(s, i), j, s[i])

\* moveTrack and the drop of a dragged row: the page sends the whole list.
ReorderTracks(l) ==
  LET items == shelf[l].items IN
  \E i, j \in 1..Len(items) :
    i # j /\ Start("page", "set", l, Moved(items, i, j), items)

RemoveTrack(l) ==
  \E t \in ToSet(shelf[l].items) : Start("page", "remove", l, <<t>>, <<>>)

\* saveEdit and handleDelete
EditOrDelete(l) ==
  Start("page", "delete", l, <<>>, <<>>) \/ Start("page", "update", l, <<>>, <<>>)

\* The store holds what the account can edit; Edit and Delete are the owner's.
PlaylistHeader(l) ==
  /\ shown = l /\ Entry(l)
  /\ CollabPanel(l) \/ (shelf[l].owner = "me" /\ EditOrDelete(l))

\* The rows can be dragged, moved by their buttons and taken out.
PlaylistRows(l) == shown = l /\ Entry(l) /\ (ReorderTracks(l) \/ RemoveTrack(l))

\* The panel's button is there once a list was matched, with a track of it.
PlaylistImportPanel == \E t \in Tracks : ConfirmImport(t)

\* A guest sees neither the form nor the panel, and no playlist of the account.
LibraryPage ==
  page.signed /\ (CreatePlaylist \/ PlaylistImportPanel \/ \E l \in Ids : OpenPlaylist(l))

-----------------------------------------------------------------------------
(* The server *)

server == <<page, browser, account, visit, call, offline, history, shelf, listing,
            shown, overtaken>>

\* The first statement of a handler reads the row and the caller's access.
ReadRow(e) ==
  /\ edit[e].at = "sent" /\ browser.token
  /\ edit[e].kind \in {"add", "set", "remove", "update", "share"}
  /\ CanEdit(edit[e].id)
  /\ edit' = [edit EXCEPT ![e].at = "read", ![e].row = rows[edit[e].id]]
  /\ Goes /\ UNCHANGED <<server, rows>>

Without(s, t) == SelectSeq(s, LAMBDA x : x # t)

\* Mutant: what the row held is not kept.
NewItemsAlone(e) ==
  CASE edit[e].kind = "add" -> edit[e].list
    [] edit[e].kind = "set" -> edit[e].list
    [] OTHER -> Without(edit[e].row.items, Head(edit[e].list))

\* AddTracksToPlaylist, SetPlaylistItems, RemoveTrackFromPlaylist
NewItems(e) ==
  LET had == edit[e].row.items IN
  CASE edit[e].kind = "add" ->
         had \o SelectSeq(edit[e].list, LAMBDA x : x \notin ToSet(had))
    [] edit[e].kind = "set" -> edit[e].list
    [] OTHER -> Without(had, Head(edit[e].list))

\* savePlaylistItems: the items are written over whatever the row holds now, if
\* the caller may still edit it; the answer is the row.
WriteItems(e) ==
  /\ edit[e].at = "read" /\ edit[e].kind \in {"add", "set", "remove"}
  /\ CanEdit(edit[e].id) /\ Len(NewItems(e)) <= MaxLength
  /\ rows' = [rows EXCEPT ![edit[e].id].items = NewItems(e)]
  /\ edit' = [edit EXCEPT ![e].at = "done", ![e].row = rows'[edit[e].id]]
  /\ Goes /\ UNCHANGED server

\* UpdatePlaylist and EnableCollaborative write the other columns.
WriteFields(e) ==
  /\ edit[e].at = "read" /\ edit[e].kind \in {"update", "share"}
  /\ Mine(edit[e].id)
  /\ rows' = [rows EXCEPT ![edit[e].id].shared =
       IF edit[e].kind = "share" THEN ~edit[e].row.shared ELSE edit[e].row.shared]
  /\ edit' = [edit EXCEPT ![e].at = "done", ![e].row = rows'[edit[e].id]]
  /\ Goes /\ UNCHANGED server

\* CreatePlaylist, and ConfirmImport of a list.
InsertRow(e) ==
  /\ edit[e].at = "sent" /\ browser.token
  /\ edit[e].kind \in {"create", "create and set", "import"}
  /\ \E l \in Ids :
       /\ rows[l].owner = "none"
       /\ rows' = [rows EXCEPT ![l] =
            MyRow(IF edit[e].kind = "import" THEN edit[e].list ELSE <<>>)]
       /\ edit' = [edit EXCEPT ![e].at = "done", ![e].id = l, ![e].row = rows'[l]]
  /\ Goes /\ UNCHANGED server

\* JoinPlaylistByInvite
JoinRow(e) ==
  /\ edit[e].at = "sent" /\ edit[e].kind = "join" /\ browser.token
  /\ rows[edit[e].id].owner = "friend" /\ rows[edit[e].id].shared
  /\ rows' = [rows EXCEPT ![edit[e].id].member = TRUE]
  /\ edit' = [edit EXCEPT ![e].at = "done", ![e].row = rows'[edit[e].id]]
  /\ Goes /\ UNCHANGED server

\* DeletePlaylist and LeaveCollaboration
DropRow(e) ==
  /\ edit[e].at = "sent" /\ edit[e].kind \in {"delete", "leave"} /\ browser.token
  /\ CanEdit(edit[e].id)
  /\ rows' = [rows EXCEPT ![edit[e].id] =
       IF edit[e].kind = "delete" THEN NoRow ELSE [@ EXCEPT !.member = FALSE]]
  /\ edit' = [edit EXCEPT ![e].at = "done"]
  /\ Goes /\ UNCHANGED server

\* A friend edits the row of a shared playlist, from a page of their own.
FriendEdits(l) ==
  /\ rows[l].shared /\ rows[l].owner # "none"
  /\ Acts
  /\ \E t \in Tracks :
       \/ /\ t \notin ToSet(rows[l].items) /\ Len(rows[l].items) < MaxLength
          /\ rows' = [rows EXCEPT ![l].items = Append(@, t)]
       \/ /\ t \in ToSet(rows[l].items)
          /\ rows' = [rows EXCEPT ![l].items = Without(@, t)]
  /\ overtaken' = TRUE
  /\ UNCHANGED <<library, shelf, listing, shown, edit>>

-----------------------------------------------------------------------------
(* The answers *)

\* createPlaylist appends the playlist, joinPlaylistByInvite appends or replaces it;
\* the edits replace an entry that is there; deletePlaylist and
\* leavePlaylistCollaboration filter it out.
Shelved(e) ==
  LET l == edit[e].id IN
  CASE edit[e].kind \in {"delete", "leave"} -> [shelf EXCEPT ![l] = NoRow]
    [] edit[e].kind \in {"create", "create and set", "join"} ->
         [shelf EXCEPT ![l] = edit[e].row]
    [] edit[e].kind = "import" -> shelf
    [] OTHER -> IF Entry(l) THEN [shelf EXCEPT ![l] = edit[e].row] ELSE shelf

\* Mutant: the entry of a playlist that was left or deleted stays.
AnswersKeepsEntry(e) ==
  /\ edit[e].at = "done" /\ edit[e].kind \notin {"create and set", "import"}
  /\ shelf' = IF edit[e].kind = "delete" THEN shelf ELSE Shelved(e)
  /\ shown' = IF edit[e].kind \in {"delete", "leave"} THEN "none" ELSE shown
  /\ edit' = [edit EXCEPT ![e] = NoEdit]
  /\ Goes /\ UNCHANGED <<library, rows, listing, overtaken>>

Answers(e) ==
  /\ edit[e].at = "done" /\ edit[e].kind \notin {"create and set", "import"}
  /\ shelf' = Shelved(e)
  /\ shown' = IF edit[e].kind \in {"delete", "leave"} THEN "none"
              ELSE IF edit[e].kind = "join" THEN edit[e].id ELSE shown
  /\ edit' = [edit EXCEPT ![e] = NoEdit]
  /\ Goes /\ UNCHANGED <<library, rows, listing, overtaken>>

\* saveAsNew goes on to fill the playlist it has created.
CreatedFromQueue(e) ==
  /\ edit[e].at = "done" /\ edit[e].kind = "create and set"
  /\ shelf' = Shelved(e)
  /\ edit' = [edit EXCEPT ![e].at = "sent", ![e].kind = "set"]
  /\ Goes /\ UNCHANGED <<library, rows, listing, shown, overtaken>>

\* confirmImport loads the library again (bound: not while a load is under way).
Imported(e) ==
  /\ edit[e].at = "done" /\ edit[e].kind = "import"
  /\ visit.at = "none"
  /\ visit' = [NoVisit EXCEPT !.at = "reload"]
  /\ edit' = [edit EXCEPT ![e] = NoEdit]
  /\ overtaken' = (overtaken \/ \E f \in Edits \ {e} : edit[f].at # "idle")
  /\ Crosses(Waiting)
  /\ Goes /\ UNCHANGED <<page, browser, account, call, offline, lost, rows, shelf,
                         listing, shown>>

EditRefused(e) ==
  LET l == edit[e].id IN
  /\ edit[e].at \in {"sent", "read"}
  /\ \/ ~browser.token
     \/ edit[e].kind \in {"add", "set", "remove", "delete", "leave"} /\ ~CanEdit(l)
     \/ edit[e].kind \in {"update", "share"} /\ ~Mine(l)
     \/ edit[e].kind = "join" /\ ~rows[l].shared
  /\ edit' = [edit EXCEPT ![e] = NoEdit]
  /\ Goes /\ UNCHANGED <<library, rows, shelf, listing, shown, overtaken>>

EditFails(e) ==
  /\ edit[e].at # "idle"
  /\ Trouble
  /\ edit' = [edit EXCEPT ![e] = NoEdit]
  /\ overtaken' = (overtaken \/ edit[e].at = "done")
  /\ UNCHANGED <<library, rows, shelf, listing, shown>>

-----------------------------------------------------------------------------
PlaylistStep ==
  \/ LibraryPage
  \/ \E t \in Tracks : SaveQueueMenu(t)
  \/ \E l \in Ids :
       \/ JoinPage(l) \/ PlaylistHeader(l) \/ PlaylistRows(l) \/ FriendEdits(l)
       \/ \E t \in Tracks : AddToPlaylistMenu(l, t)
  \/ \E e \in Edits :
       \/ ReadRow(e) \/ WriteItems(e) \/ WriteFields(e) \/ InsertRow(e) \/ JoinRow(e)
       \/ DropRow(e) \/ Answers(e) \/ CreatedFromQueue(e) \/ Imported(e)
       \/ EditRefused(e) \/ EditFails(e)

CollectionInit == Init /\ PlaylistsInit
CollectionNext == LibraryStep \/ PlaylistStep
CollectionSpec == CollectionInit /\ [][CollectionNext]_collectionVars

-----------------------------------------------------------------------------
(* Properties *)

\* Once every call has ended, and none overlapped another or lost its answer, and
\* no friend has edited since, the store holds the server's rows.
AtRestShelfIsTrue ==
  (/\ page.signed /\ page.loaded /\ visit.at = "none" /\ ~crossed /\ ~overtaken
   /\ \A e \in Edits : edit[e].at = "idle")
  => \A l \in Ids : shelf[l] = IF CanEdit(l) THEN rows[l] ELSE NoRow

\* No edit takes out of a playlist a track that it had read and was not asked to
\* remove; a track that it had not read, a friend's addition, may go with it (the
\* handlers read the items and write them back, and the page sends whole lists).
KeepsWhatItRead ==
  [][\A e \in Edits :
       edit[e].at = "read" /\ edit'[e].at = "done" =>
         LET l == edit[e].id
             read == IF edit[e].kind = "set" THEN edit[e].seen ELSE edit[e].row.items
             asked == IF edit[e].kind = "remove" THEN ToSet(edit[e].list) ELSE {} IN
         (ToSet(rows[l].items) \cap ToSet(read)) \ asked
           \subseteq ToSet(rows'[l].items)]_collectionVars
=============================================================================
