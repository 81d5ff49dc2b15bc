---------------------------- MODULE MCSessionLog ----------------------------
(* The session log alone, with one crash of one session.                   *)
EXTENDS SessionLog

=============================================================================
