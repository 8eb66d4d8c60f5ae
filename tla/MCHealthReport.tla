--------------------------- MODULE MCHealthReport ---------------------------
(***************************************************************************)
(* An interval of three ticks and a retry interval of two on a clock of    *)
(* eight: two reports in sequence with a failed one between them, and room *)
(* to set the clock before, into and past any of the three.                *)
(***************************************************************************)
EXTENDS HealthReport

=============================================================================
