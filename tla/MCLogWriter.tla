---------------------------- MODULE MCLogWriter ----------------------------
(***************************************************************************)
(* Three configurations, between which the operator switches at any start: *)
(* a roomy one, one with fewer and smaller files, and one in which the     *)
(* total leaves no room for the backups that the number of files allows.   *)
(***************************************************************************)
EXTENDS LogWriter

MCLimits == {[size |-> 2, files |-> 3, total |-> 8],
             [size |-> 1, files |-> 1, total |-> 2],
             [size |-> 2, files |-> 2, total |-> 3]}

=============================================================================
