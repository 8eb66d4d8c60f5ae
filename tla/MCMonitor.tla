------------------------------ MODULE MCMonitor ------------------------------
(***************************************************************************)
(* The monitor with and without file logging at the default level: every   *)
(* outcome of every scope in every cycle, and a cancellation anywhere.     *)
(***************************************************************************)
EXTENDS Monitor

=============================================================================
