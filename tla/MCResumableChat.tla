---------------------------- MODULE MCResumableChat ----------------------------
(* Small instances of ResumableChat for TLC.                                *)
EXTENDS ResumableChat, TLC

=============================================================================
