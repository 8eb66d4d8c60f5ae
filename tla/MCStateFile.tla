----------------------------- MODULE MCStateFile -----------------------------
(***************************************************************************)
(* Two goroutines that save and four versions: each can hold a snapshot    *)
(* the other has already overtaken, with a mutation in between.            *)
(***************************************************************************)
EXTENDS StateFile

=============================================================================
