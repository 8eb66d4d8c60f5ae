------------------------------- MODULE Sender -------------------------------
(***************************************************************************)
(* What notification.AlertSender and HealthSender promise the managers     *)
(* that call them: a call ends, with nil only if its message was accepted. *)
(* An error says nothing about the message.  Alerter and HealthReport use  *)
(* this promise when they model a send as one step.                        *)
(***************************************************************************)

VARIABLES
    busy,      \* the call is in progress
    accepted,  \* a recipient's service accepted the call's message
    result     \* of the last call: "none", "nil" or "error"

vars == <<busy, accepted, result>>

Init == busy = FALSE /\ accepted = FALSE /\ result = "none"

Call ==
    /\ ~busy
    /\ busy' = TRUE /\ accepted' = FALSE /\ result' = "none"

Accept ==
    /\ busy
    /\ accepted' = TRUE
    /\ UNCHANGED <<busy, result>>

Return ==
    /\ busy
    /\ busy' = FALSE
    /\ result' \in IF accepted THEN {"nil", "error"} ELSE {"error"}
    /\ UNCHANGED accepted

Next == Call \/ Accept \/ Return

Spec == Init /\ [][Next]_vars

=============================================================================
