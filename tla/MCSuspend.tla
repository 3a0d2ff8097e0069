------------------------------ MODULE MCSuspend ------------------------------
(* An instance of SuspendCoordinator for TLC.                                *)
EXTENDS SuspendCoordinator

=============================================================================
