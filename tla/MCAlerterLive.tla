--------------------------- MODULE MCAlerterLive ---------------------------
(***************************************************************************)
(* Liveness of the alerter: one account key and one disk key, so that each *)
(* scope's batches also interrupt the other's retries.                     *)
(***************************************************************************)
EXTENDS Alerter

MCKeys == 1..2
MCScopes == {"auth", "disk"}
MCScopeOf == [k \in MCKeys |-> IF k = 1 THEN "auth" ELSE "disk"]

=============================================================================
