--------------------------- MODULE AlertLifecycle ---------------------------
(***************************************************************************)
(* What the alerter promises about one condition key, whatever scope it is *)
(* in and however its messages are grouped: the recipient hears of it only *)
(* when it becomes unhealthy and only when it becomes healthy again, and   *)
(* any disagreement between the recipient and the monitor is marked by a   *)
(* delivery whose outcome was lost, until the next known outcome.          *)
(***************************************************************************)
VARIABLES
    up,           \* a process is running
    active,       \* the monitor counts the alert as reported
    saved,        \* so does the state file
    outstanding,  \* the recipient has the alert and no end of it
    inDoubt       \* the outcome of the last delivery was lost

vars == <<up, active, saved, outstanding, inDoubt>>

Init ==
    /\ up = FALSE
    /\ active = FALSE /\ saved = FALSE
    /\ outstanding = FALSE /\ inDoubt = FALSE

\* The alert is delivered: it was news to the recipient, or could have been.
Raise ==
    /\ up /\ ~active
    /\ outstanding => inDoubt
    /\ active' = TRUE /\ outstanding' = TRUE /\ inDoubt' = FALSE
    /\ UNCHANGED <<up, saved>>

\* The recovery is delivered, or the key is dropped without one.
Clear ==
    /\ up /\ active
    /\ outstanding \/ inDoubt
    /\ active' = FALSE /\ outstanding' = FALSE /\ inDoubt' = FALSE
    /\ UNCHANGED <<up, saved>>

\* A message got through and the monitor was told that it did not.
LoseSight ==
    /\ up
    /\ outstanding' = ~active
    /\ inDoubt' = TRUE
    /\ UNCHANGED <<up, active, saved>>

\* The condition ends before the monitor ever counted it as reported.
EndUnreported ==
    /\ up /\ ~active
    /\ outstanding' = FALSE /\ inDoubt' = FALSE
    /\ UNCHANGED <<up, active, saved>>

Save ==
    /\ up
    /\ saved' = active
    /\ UNCHANGED <<up, active, outstanding, inDoubt>>

\* The next process knows what was saved; what was not is in doubt.
Stop ==
    /\ up
    /\ up' = FALSE
    /\ active' = saved
    /\ inDoubt' = (inDoubt \/ active # saved)
    /\ UNCHANGED <<saved, outstanding>>

Start(readable) ==
    /\ ~up
    /\ up' = TRUE
    /\ active' = (saved /\ readable)
    /\ inDoubt' = (inDoubt \/ (saved /\ ~readable))
    /\ UNCHANGED <<saved, outstanding>>

Next ==
    \/ Raise \/ Clear \/ LoseSight \/ EndUnreported
    \/ Save \/ Stop
    \/ \E readable \in BOOLEAN : Start(readable)

Spec == Init /\ [][Next]_vars

\* The promise itself.
NoSilentDisagreement == ~inDoubt => (active <=> outstanding)

=============================================================================
