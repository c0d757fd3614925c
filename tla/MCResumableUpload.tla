-------------------------- MODULE MCResumableUpload --------------------------
(* Model values for TLC. *)
EXTENDS ResumableUpload

CONSTANTS r1, r2

=============================================================================
