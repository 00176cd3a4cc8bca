-------------------------- MODULE MCRecordingJobs --------------------------
(***************************************************************************)
(* The instance of RecordingJobs that TLC checks; see the .cfg file.       *)
(***************************************************************************)
EXTENDS RecordingJobs
=============================================================================
