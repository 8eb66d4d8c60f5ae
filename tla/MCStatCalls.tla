----------------------------- MODULE MCStatCalls ----------------------------
(***************************************************************************)
(* Two callers that contend about the statCall of one mount, which may     *)
(* come, go and hang.  Two statCalls are enough: a caller that starts one  *)
(* holds none, and none is registered.                                     *)
(***************************************************************************)
EXTENDS StatCalls

MCPaths == {1}

=============================================================================
