------------------------------- MODULE WebApi -------------------------------
(***************************************************************************)
(* The calls of the web client (apps/web/src/api/client.ts): the part of   *)
(* the API that each goes to, and whether it carries the access token; and *)
(* the parts that the server refuses to a caller without one (the groups   *)
(* under platformauth.Middleware of internal/app/app.go and                *)
(* internal/modules/auth/handler.go).                                      *)
(***************************************************************************)

Bare(names, part) == {[name |-> n, part |-> part, auth |-> FALSE] : n \in names}
Signed(names, part) == {[name |-> n, part |-> part, auth |-> TRUE] : n \in names}

\* Accounts, notifications, reactions and comments.
AccountCalls ==
  Bare({"register", "login"}, "auth")
  \cup Signed({"logout"}, "auth")
  \cup Signed({"me", "updateProfile", "changePassword", "resendVerification"}, "account")
  \cup Bare({"getUserByHandle", "getPublicProfile", "getUserPublicPlaylists",
             "getUserFollowing", "getUserPublicLiked"}, "users")
  \cup Signed({"getNotifications", "markNotificationsRead"}, "notifications")
  \cup Bare({"getPushVapidPublicKey"}, "push key")
  \cup Signed({"subscribePush", "unsubscribePush", "clonePlaylist"}, "me")
  \cup Bare({"getTrackReactions", "getTrackComments"}, "tracks")
  \cup Signed({"setTrackReaction", "clearTrackReaction", "addTrackComment",
               "reportTrack"}, "track feedback")

\* The catalog, the player's state, parties, recommendations.
CatalogCalls ==
  Bare({"getTracks", "recordPlay", "getTrack", "getSimilarTracks",
        "getRecommendNext"}, "tracks")
  \cup Signed({"getPlayerState", "putPlayerState", "getFeed"}, "me")
  \cup Bare({"forgotPassword", "resetPassword", "verifyEmail"}, "auth")
  \cup Bare({"searchArtists"}, "search")
  \cup Bare({"getWeeklyCharts", "getMoodTags", "getTracksByMood"}, "charts")
  \cup Bare({"createListeningParty", "getListeningParty", "updateListeningParty"}, "parties")

OfflineNames == {"getOfflineDownloads", "getOfflinePackage", "removeOfflineTrack"}

\* Mutant: they are sent without the token.
OfflineCallsBare == Bare(OfflineNames, "me")

OfflineCalls == Signed(OfflineNames, "me")

\* The user's own lists, drafts.
OwnCalls ==
  Signed({"getForYou", "getFilterPresets", "createFilterPreset", "deleteFilterPreset",
          "getFollowing", "followUser", "unfollowUser", "getLiked", "getRecent",
          "addRecent", "likeTrack", "unlikeTrack", "getPlaylists"}, "me")
  \cup Signed({"getCreatorAnalytics", "createCreatorDraft", "updateCreatorDraft",
               "presignCreatorDraft", "getCreatorTrackStats", "scheduleTrackPublish",
               "publishTrackNow"}, "creator")
  \cup Bare({"getUser"}, "users")

\* Playlists, imports, uploads.
PlaylistCalls ==
  Signed({"createPlaylist", "updatePlaylist", "deletePlaylist", "addTracksToPlaylist",
          "setPlaylistTracks", "removeTrackFromPlaylist", "getPlaylist",
          "joinPlaylistByInvite", "enablePlaylistCollaboration",
          "leavePlaylistCollaboration", "getPlaylistImportCapabilities",
          "previewPlaylistImport", "confirmPlaylistImport", "importLibrary"}, "me")
  \cup Bare({"getPublicPlaylists", "getPublicPlaylist"}, "playlists")
  \cup Bare({"getTrackLyrics"}, "tracks")
  \cup Signed({"initUpload"}, "creator")

UploadCalls ==
  Signed({"completeUpload", "getUploadStatus", "retryTranscode", "getCreatorTracks",
          "updateCreatorTrackLyrics", "initCoverUpload", "completeCoverUpload"}, "creator")
  \cup Bare({"getPlayback"}, "stream")

Calls ==
  AccountCalls \cup CatalogCalls \cup OfflineCalls \cup OwnCalls \cup PlaylistCalls
  \cup UploadCalls

\* What the server serves only to the bearer of a valid access token.
Guarded == {"account", "notifications", "me", "track feedback", "creator"}

\* All that a session can tell of a call.
Kinds == {[guarded |-> c.part \in Guarded, auth |-> c.auth] : c \in Calls}
=============================================================================
