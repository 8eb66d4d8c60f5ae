----------------------------- MODULE AtomicStore -----------------------------
(***************************************************************************)
(* What the state file promises its users: one named document that only    *)
(* ever moves forward to what memory held, and that no crash and no power  *)
(* loss takes behind what a Save had covered when it returned nil.         *)
(*                                                                         *)
(* The contents of memory are numbered: each Put, Delete or SetHealthReport*)
(* makes the next version.                                                 *)
(***************************************************************************)
EXTENDS Naturals

VARIABLES
    up,        \* a process is running
    mem,       \* the version in memory
    file,      \* the version under the file's name
    promised   \* the latest version a Save that returned nil had to cover

vars == <<up, mem, file, promised>>

Init ==
    /\ up = FALSE
    /\ mem = 0 /\ file = 0 /\ promised = 0

Mutate ==
    /\ up
    /\ mem' = mem + 1
    /\ UNCHANGED <<up, file, promised>>

\* The name leads to a newer document.
Replace ==
    /\ up
    /\ file' > file /\ file' <= mem
    /\ UNCHANGED <<up, mem, promised>>

\* A Save returns nil.
Promise ==
    /\ up
    /\ promised' > promised /\ promised' <= file
    /\ UNCHANGED <<up, mem, file>>

\* The process ends; with the machine, what was not promised may be undone.
Die ==
    /\ up
    /\ up' = FALSE /\ mem' = 0
    /\ file' >= promised /\ file' <= file
    /\ UNCHANGED promised

Start ==
    /\ ~up
    /\ up' = TRUE /\ mem' = file
    /\ UNCHANGED <<file, promised>>

Next == Mutate \/ Replace \/ Promise \/ Die \/ Start

Spec == Init /\ [][Next]_vars

=============================================================================
