----------------------------- MODULE LogWriter ------------------------------
(***************************************************************************)
(* The rotating log file of internal/logfile: NewWriter's cleanup, Write   *)
(* with its rotation, and enforceTotal, each system call a step of its     *)
(* own that may fail, and after each of which the process may die.  The    *)
(* mutex of Writer lets one Write in at a time, so there is one sequence   *)
(* of steps.                                                               *)
(*                                                                         *)
(* Bytes are numbered in the order in which they were written, and a file  *)
(* is the set of bytes it holds: files[0] is the active file, files[i]     *)
(* the backup with the number i; no bytes, no file.  Files of the same     *)
(* name pattern that the writer did not create are left out.               *)
(***************************************************************************)
EXTENDS Naturals, FiniteSets

CONSTANTS
    Limits,   \* the limits a start may be configured with
    MaxByte   \* bound of the bytes ever written

\* The largest backup number of any configuration.
Top == CHOOSE n \in {l.files : l \in Limits} : \A l \in Limits : l.files <= n

\* What config.Validate and NewWriter demand.
ASSUME LogWriterAssumption ==
    /\ MaxByte \in Nat
    /\ Limits # {} /\ IsFiniteSet(Limits)
    /\ \A l \in Limits :
          /\ l \in [size : Nat \ {0}, files : Nat \ {0}, total : Nat]
          /\ l.total >= l.size
    /\ Top \in Nat /\ \A l \in Limits : l.files <= Top

VARIABLES
    files,    \* the active file and the backups
    limits,   \* Writer.opts
    pc,       \* "down", "clean", "idle", "write", "drop", "shift", "enforce", "open"
    at,       \* the file that the loop of cleanupExisting or rotate is at
    caller,   \* of enforceTotal and open: "NewWriter", "rotate" or "Write"
    file,     \* Writer.file: "open", "closed" (not nil, of no use) or "nil"
    size,     \* Writer.size
    todo,     \* the bytes that Write still has to write
    \* observers: read by no action's guard
    last,     \* the last byte written
    cut,      \* bytes that a start with smaller limits took away
    ok        \* the last NewWriter or Write returned nil

callVars == <<pc, at, caller, todo>>
vars == <<files, limits, callVars, file, size, last, cut, ok>>

Indices == 0..Top
Bytes == 1..MaxByte
Kept == UNION {files[i] : i \in Indices}
Total == Cardinality(Kept)

\* The first m bytes of a file, by os.Truncate.
Trimmed(f, m) == {b \in f : Cardinality({a \in f : a <= b}) <= m}

\* enforceTotal takes the oldest backup.
Victim_Newest(i) == files[i] # {} /\ \A j \in 1..i - 1 : files[j] = {}
Victim(i) == files[i] # {} /\ \A j \in i + 1..Top : files[j] = {}

\* The room that is left in the active file.
Capacity_Whole(l) == l.size
Capacity(l) == l.size - size

TooMuch_BackupsOnly(l) == Cardinality(Kept \ files[0]) > l.total
TooMuch(l) == Total > l.total

\* What a cleanup leaves of file i.
Cleaned(i) ==
    IF i > limits.files THEN {} ELSE Trimmed(files[i], limits.size)

-----------------------------------------------------------------------------

Init ==
    /\ files = [i \in Indices |-> {}]
    /\ limits \in Limits
    /\ pc = "down" /\ at = 0 /\ caller = "NewWriter" /\ todo = 0
    /\ file = "nil" /\ size = 0
    /\ last = 0 /\ cut = {} /\ ok = FALSE

\* The call in progress returns an error: a later Write starts anew.  NewWriter's
\* error ends the process.
Error ==
    /\ pc' = IF caller = "NewWriter" THEN "down" ELSE "idle"
    /\ todo' = 0 /\ ok' = FALSE
    /\ UNCHANGED <<at, caller>>

\* The loop of Write goes on, or the call returns nil.
Continue_Always == pc' = "write" /\ UNCHANGED ok
Continue ==
    IF todo = 0
    THEN pc' = "idle" /\ ok' = TRUE
    ELSE pc' = "write" /\ UNCHANGED ok

\* NewWriter, up to cleanupExisting's loop over the backups.
Start(l) ==
    /\ pc = "down"
    /\ limits' = l
    /\ pc' = "clean" /\ at' = 1 /\ caller' = "NewWriter" /\ todo' = 0
    /\ UNCHANGED <<files, file, size, last, cut, ok>>

\* It removes the backups beyond the limit and trims the others, then the
\* active file.
Clean ==
    /\ pc = "clean"
    /\ files' = [files EXCEPT ![at] = Cleaned(at)]
    /\ cut' = cut \cup (files[at] \ files'[at])
    /\ at' = IF at = Top THEN 0 ELSE at + 1
    /\ pc' = IF at = 0 THEN "enforce" ELSE "clean"
    /\ UNCHANGED <<limits, caller, file, size, todo, last, ok>>

\* Write of n bytes.  Without a file it returns at once.
Write(n) ==
    /\ pc = "idle" /\ file # "nil"
    /\ last + n <= MaxByte
    /\ pc' = "write" /\ caller' = "Write" /\ todo' = n
    /\ UNCHANGED <<files, limits, at, file, size, last, cut, ok>>

\* The system call of one chunk, which may write n bytes only.
WriteChunk(n) ==
    /\ pc = "write" /\ size < limits.size
    /\ LET chunk == IF todo > Capacity(limits) THEN Capacity(limits) ELSE todo
       IN  /\ n <= chunk
           /\ files' = [files EXCEPT ![0] = @ \cup (last + 1)..(last + n)]
           /\ last' = last + n
           /\ size' = size + n
           /\ IF n = chunk
              THEN /\ pc' = "enforce" /\ todo' = todo - n
                   /\ UNCHANGED <<at, caller, ok>>
              ELSE Error
    /\ UNCHANGED <<limits, file, cut>>

\* rotate, up to Close.  A file whose Close failed stays in Writer.file.
CloseForRotation(good) ==
    /\ pc = "write" /\ size >= limits.size
    /\ good => file = "open"
    /\ file' = IF good THEN "nil" ELSE "closed"
    /\ IF good
       THEN pc' = "drop" /\ caller' = "rotate" /\ UNCHANGED <<at, todo, ok>>
       ELSE Error
    /\ UNCHANGED <<files, limits, size, last, cut>>

\* The oldest backup goes.
DropOldest ==
    /\ pc = "drop"
    /\ files' = [files EXCEPT ![limits.files] = {}]
    /\ pc' = "shift" /\ at' = limits.files - 1
    /\ UNCHANGED <<limits, caller, file, size, todo, last, cut, ok>>

\* From the oldest backup to the active file, file at gets the next number.
Shift ==
    /\ pc = "shift"
    /\ files' = [files EXCEPT ![at + 1] = IF files[at] = {} THEN @ ELSE files[at],
                              ![at] = {}]
    /\ IF at = 0
       THEN pc' = "enforce" /\ UNCHANGED at
       ELSE at' = at - 1 /\ UNCHANGED pc
    /\ UNCHANGED <<limits, caller, file, size, todo, last, cut, ok>>

\* enforceTotal removes one backup after the other.
Remove ==
    /\ pc = "enforce" /\ TooMuch(limits)
    /\ \E i \in 1..Top : Victim(i) /\ files' = [files EXCEPT ![i] = {}]
    /\ UNCHANGED <<limits, callVars, file, size, last, cut, ok>>

\* It is satisfied.
Enforced ==
    /\ pc = "enforce" /\ ~TooMuch(limits)
    /\ IF caller # "Write"
       THEN pc' = "open" /\ UNCHANGED ok
       ELSE Continue
    /\ UNCHANGED <<files, limits, at, caller, file, size, todo, last, cut>>

\* The active file is opened or created.
Open ==
    /\ pc = "open"
    /\ file' = "open" /\ size' = Cardinality(files[0])
    /\ caller' = "Write"
    /\ Continue
    /\ UNCHANGED <<files, limits, at, todo, last, cut>>

\* A system call of the cleanup, the rotation or enforceTotal fails, or what is
\* left when no backup is left is too much.
Fail ==
    /\ pc \in {"clean", "drop", "shift", "enforce", "open"}
    /\ Error
    /\ UNCHANGED <<files, limits, file, size, last, cut>>

\* The process ends, or dies.
Stop ==
    /\ pc # "down"
    /\ pc' = "down" /\ file' = "nil" /\ size' = 0 /\ todo' = 0 /\ ok' = FALSE
    /\ UNCHANGED <<files, limits, at, caller, last, cut>>

Next ==
    \/ \E l \in Limits : Start(l)
    \/ \E n \in Bytes : Write(n)
    \/ \E n \in Bytes \cup {0} : WriteChunk(n)
    \/ \E good \in BOOLEAN : CloseForRotation(good)
    \/ Clean \/ DropOldest \/ Shift \/ Remove \/ Enforced \/ Open \/ Fail \/ Stop

Spec == Init /\ [][Next]_vars

-----------------------------------------------------------------------------

(***************************************************************************)
(* The types; a rotation is in progress exactly while no file is open      *)
(* between two chunks of a Write that is not done.                         *)
(***************************************************************************)
TypeOK ==
    /\ last \in Nat
    /\ files \in [Indices -> SUBSET (1..last)]
    /\ cut \in SUBSET (1..last)
    /\ limits \in Limits
    /\ pc \in {"down", "clean", "idle", "write", "drop", "shift", "enforce", "open"}
    /\ at \in Indices
    /\ caller \in {"NewWriter", "rotate", "Write"}
    /\ file \in {"open", "closed", "nil"}
    /\ size \in 0..last
    /\ todo \in Nat
    /\ ok \in BOOLEAN
    /\ pc = "clean" => caller = "NewWriter"
    /\ pc \in {"drop", "shift"} => file = "nil" /\ todo > 0 /\ caller = "rotate"
    /\ pc = "write" => file # "nil" /\ todo > 0 /\ caller = "Write"
    /\ pc = "enforce" /\ caller = "Write" => file # "nil"

\* NewWriter has got past cleanupExisting.
Managed == pc # "down" /\ caller # "NewWriter"

\* No byte of p is newer than one of q.
Older(p, q) == \A a \in p, b \in q : a < b

(***************************************************************************)
(* No managed file is longer than max_size_mb: a record that does not fit  *)
(* goes on in the next file, also when Write is in between two system      *)
(* calls, and after any of them failed.  A call that returns nil leaves    *)
(* the log within max_total_size_mb.  In between, and after any sequence   *)
(* of failed calls, it exceeds the limit by one file at most: without a    *)
(* successful enforceTotal there is no second rotation.                    *)
(***************************************************************************)
LimitsHold ==
    /\ Managed => \A i \in Indices : Cardinality(files[i]) <= limits.size
    /\ Managed => Total <= limits.total + limits.size
    /\ pc = "idle" /\ ok => Total <= limits.total

(***************************************************************************)
(* What is kept is the end of the log: rotation, the limits and every      *)
(* failure or crash between two renames only ever lose the oldest bytes,   *)
(* except those a start with smaller limits cuts off; and a higher number  *)
(* is an older file.                                                       *)
(***************************************************************************)
NewestSurvive ==
    /\ \A p \in Kept, q \in 1..last : p < q => q \in Kept \cup cut
    /\ \A i, j \in Indices : i < j => Older(files[j], files[i])

=============================================================================
