----------------------------- MODULE MCAlerter -----------------------------
(***************************************************************************)
(* Two account keys, delivered one message each, and two disk keys,        *)
(* delivered together.                                                     *)
(***************************************************************************)
EXTENDS Alerter

MCKeys == 1..4
MCScopes == {"auth", "disk"}
MCScopeOf == [k \in MCKeys |-> IF k <= 2 THEN "auth" ELSE "disk"]

=============================================================================
