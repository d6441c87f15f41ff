---------------------------- MODULE TranscodeJobs ----------------------------
(***************************************************************************)
(* The identities PostgreSQL and Redis have in common: an id of a          *)
(* transcode_jobs row is what a TranscodeJob of the queue carries.         *)
(***************************************************************************)
CONSTANTS
  JobIds,      \* transcode_jobs ids
  NoJob        \* no job

ASSUME JobsAssumption == NoJob \notin JobIds
=============================================================================
