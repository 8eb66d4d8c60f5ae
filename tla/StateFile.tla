------------------------------ MODULE StateFile ------------------------------
(***************************************************************************)
(* internal/state's File: Save under its two mutexes, the system calls of  *)
(* atomicWrite, and what the file system keeps of them when the process or *)
(* the machine dies between two of them.                                   *)
(*                                                                         *)
(* Memory is a version number (one per Put, Delete or SetHealthReport); a  *)
(* file is the version written to it and whether it was synced.  After a   *)
(* power loss a name may lead to any file it led to since its directory    *)
(* was last synced, and a file that was not synced may be incomplete.      *)
(***************************************************************************)
EXTENDS Naturals

CONSTANTS
    Savers,      \* goroutines that call Save
    NoSaver,     \* saveMu is free
    MaxVersion   \* bound of the version numbers

ASSUME StateFileAssumption ==
    /\ NoSaver \notin Savers
    /\ MaxVersion \in Nat

VARIABLES
    up,         \* a process is running
    mem,        \* the version in memory
    pc,         \* how far each Save is
    required,   \* the version each Save found when it was called
    saveMu,     \* the holder of that mutex
    temp,       \* the temporary file of the Save that holds saveMu
    path,       \* the file under the state file's name
    unsettled,  \* the files a power loss may leave under that name
    promised    \* observer: the latest version required of a Save that returned nil

vars == <<up, mem, pc, required, saveMu, temp, path, unsettled, promised>>
fileVars == <<path, unsettled>>

Files == [version : 0..MaxVersion, synced : BOOLEAN]
NoFile == [version |-> 0, synced |-> TRUE]
Inside == {"locked", "written", "synced", "renamed"}

\* What Save marshals: the contents when it holds saveMu.
Snapshot_BeforeLock(w) == required[w]
Snapshot(w) == mem

\* Sync of the temporary file.
SyncedFile_Skipped(f) == f
SyncedFile(f) == [f EXCEPT !.synced = TRUE]

\* What may be under the name once the directory is synced.
Settled_Skipped(f) == unsettled
Settled(f) == {f}

\* Who holds saveMu after Save has returned.
Released_OnError(w) == w
Released(w) == NoSaver

-----------------------------------------------------------------------------

\* A first start: no state file yet, which is version 0.
Init ==
    /\ up = FALSE /\ mem = 0
    /\ pc = [w \in Savers |-> "idle"]
    /\ required = [w \in Savers |-> 0]
    /\ saveMu = NoSaver
    /\ temp = NoFile
    /\ path = NoFile /\ unsettled = {NoFile}
    /\ promised = 0

\* Put, Delete or SetHealthReport.
Mutate ==
    /\ up /\ mem < MaxVersion
    /\ mem' = mem + 1
    /\ UNCHANGED <<up, pc, required, saveMu, temp, fileVars, promised>>

Call(w) ==
    /\ up /\ pc[w] = "idle"
    /\ pc' = [pc EXCEPT ![w] = "called"]
    /\ required' = [required EXCEPT ![w] = mem]
    /\ UNCHANGED <<up, mem, saveMu, temp, fileVars, promised>>

\* saveMu.Lock, and the copy under the read lock.  The temporary file is new,
\* so what is written to it is known already.
Lock(w) ==
    /\ pc[w] = "called" /\ saveMu = NoSaver
    /\ saveMu' = w
    /\ pc' = [pc EXCEPT ![w] = "locked"]
    /\ temp' = [version |-> Snapshot(w), synced |-> FALSE]
    /\ UNCHANGED <<up, mem, required, fileVars, promised>>

\* MkdirAll, CreateTemp, Chmod and Write.
Write(w) ==
    /\ pc[w] = "locked"
    /\ pc' = [pc EXCEPT ![w] = "written"]
    /\ UNCHANGED <<up, mem, required, saveMu, temp, fileVars, promised>>

\* Sync and Close.
SyncTemp(w) ==
    /\ pc[w] = "written"
    /\ pc' = [pc EXCEPT ![w] = "synced"]
    /\ temp' = SyncedFile(temp)
    /\ UNCHANGED <<up, mem, required, saveMu, fileVars, promised>>

Rename(w) ==
    /\ pc[w] = "synced"
    /\ pc' = [pc EXCEPT ![w] = "renamed"]
    /\ path' = temp
    /\ unsettled' = unsettled \cup {temp}
    /\ UNCHANGED <<up, mem, required, saveMu, temp, promised>>

\* Chmod, and Sync of the directory: Save returns nil.
SyncDirectory(w) ==
    /\ pc[w] = "renamed"
    /\ pc' = [pc EXCEPT ![w] = "idle"]
    /\ saveMu' = Released(w)
    /\ unsettled' = Settled(path)
    /\ promised' = IF required[w] > promised THEN required[w] ELSE promised
    /\ UNCHANGED <<up, mem, required, temp, path>>

\* The next system call of atomicWrite fails: Save returns an error, and the
\* deferred calls remove the temporary file if it still has that name.
Fail(w) ==
    /\ pc[w] \in Inside
    /\ pc' = [pc EXCEPT ![w] = "idle"]
    /\ saveMu' = Released(w)
    /\ UNCHANGED <<up, mem, required, temp, fileVars, promised>>

Die ==
    /\ up
    /\ up' = FALSE /\ mem' = 0
    /\ pc' = [w \in Savers |-> "idle"]
    /\ required' = [w \in Savers |-> 0]
    /\ saveMu' = NoSaver /\ temp' = NoFile
    /\ UNCHANGED promised

\* The process dies, and the kernel keeps what it was given.
Crash == Die /\ UNCHANGED fileVars

\* The machine dies.  What is left is settled; a file that was not synced may
\* be torn, which Open answers with an empty store.
PowerLoss ==
    /\ Die
    /\ \E f \in unsettled :
          path' \in IF f.synced THEN {f} ELSE {[f EXCEPT !.synced = TRUE], NoFile}
    /\ unsettled' = {path'}

Open ==
    /\ ~up
    /\ up' = TRUE /\ mem' = path.version
    /\ UNCHANGED <<pc, required, saveMu, temp, fileVars, promised>>

Save(w) ==
    \/ Call(w) \/ Lock(w) \/ Write(w) \/ SyncTemp(w) \/ Rename(w)
    \/ SyncDirectory(w) \/ Fail(w)

Next ==
    \/ Mutate
    \/ \E w \in Savers : Save(w)
    \/ Crash \/ PowerLoss
    \/ Open

Spec == Init /\ [][Next]_vars

-----------------------------------------------------------------------------
(* Safety *)

TypeOK ==
    /\ up \in BOOLEAN
    /\ mem \in 0..MaxVersion /\ promised \in 0..MaxVersion
    /\ pc \in [Savers -> {"idle", "called"} \cup Inside]
    /\ required \in [Savers -> 0..MaxVersion]
    /\ saveMu \in Savers \cup {NoSaver}
    /\ \A w \in Savers : pc[w] \in Inside <=> saveMu = w
    /\ temp \in Files /\ path \in Files
    /\ unsettled \subseteq Files /\ path \in unsettled

\* Whatever a power loss leaves under the name is one complete document, and
\* no older than what a Save that returned nil had to cover.
SurvivorsKeepPromises ==
    \A f \in unsettled : f.synced /\ f.version >= promised

\* Two Saves at once never put the older of two snapshots over the newer one.
NameMovesForward ==
    [][up' => path'.version >= path.version]_vars

-----------------------------------------------------------------------------
(* Refinement: to its users the file is an AtomicStore. *)

Store == INSTANCE AtomicStore WITH file <- path.version

\* Alerter and HealthReport rely on this when they model a Save as one step.
ImplementsAtomicStore == Store!Spec

=============================================================================
