--------------------------- MODULE MCAdminConsole ---------------------------
(***************************************************************************)
(* An instance of AdminConsole, and with it of UploadStudio, for TLC.      *)
(***************************************************************************)
EXTENDS AdminConsole
=============================================================================
