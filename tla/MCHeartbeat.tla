----------------------------- MODULE MCHeartbeat -----------------------------
(* An instance of HeartbeatWake for TLC.                                     *)
EXTENDS HeartbeatWake

=============================================================================
