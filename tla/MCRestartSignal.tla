--------------------------- MODULE MCRestartSignal ---------------------------
(* An instance of RestartSignal for TLC.                                     *)
EXTENDS RestartSignal, TLC

=============================================================================
