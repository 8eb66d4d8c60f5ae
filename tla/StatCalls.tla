----------------------------- MODULE StatCalls ------------------------------
(***************************************************************************)
(* The disk measurement of internal/collector: Disks goes through the      *)
(* mounts in order, and each statfs runs in a goroutine of its own that    *)
(* may outlive the wait for it.  A later Disks joins a call that is still  *)
(* in statCalls instead of starting another one.                           *)
(*                                                                         *)
(* The monitor has one Disks at a time; procCollector takes a mutex and    *)
(* compares the completed call with the registered one, so the model has   *)
(* any number of Callers.  A step is what happens between two points at    *)
(* which another goroutine can do something that matters.  A Disks that    *)
(* cannot read mountinfo, or begins with its context cancelled, returns an *)
(* incomplete batch and changes nothing: it has no action.                 *)
(***************************************************************************)
EXTENDS Naturals

CONSTANTS
    Callers,  \* goroutines that call Disks
    Paths,    \* mount points, as ranks in the order Disks sorts by
    CallIds,  \* identities of statCall objects
    NoCall

ASSUME StatCallsAssumption ==
    /\ Paths \subseteq Nat
    /\ NoCall \notin CallIds

VARIABLES
    ctxDone,    \* the signal context is cancelled
    statCalls,  \* procCollector.statCalls
    pathOf,     \* the path of each statCall
    status,     \* of each statCall: "inflight" in statfs, "returned" from it with
                \* done still open, or "done": the channel is closed
    good,       \* statCall.result is one that diskUsage accepts
    pc,         \* "idle", "next", "waiting", "received" or "returned"
    todo,       \* the mounts that collectDisks has still to look at
    call,       \* statFSForMount's local of that name
    disks,      \* DiskBatch.Disks
    errors,     \* DiskBatch.Errors
    complete,   \* DiskBatch.Complete
    \* observers: read by no action's guard
    mounts,     \* the mounts of this batch
    used        \* the statCalls whose result a caller has taken

callVars == <<statCalls, pathOf, status, good>>
batchVars == <<todo, disks, errors, complete, mounts>>
vars == <<ctxDone, callVars, batchVars, pc, call, used>>

\* The mount collectDisks is at.
Path(c) == CHOOSE p \in todo[c] : \A q \in todo[c] : p <= q

\* A statCall that nothing refers to: its memory may be used again.
Garbage(id) ==
    /\ status[id] # "inflight"
    /\ \A p \in Paths : statCalls[p] # id
    /\ \A c \in Callers : pc[c] \in {"waiting", "received"} => call[c] # id

\* statCall joins the call that is registered for the path.
Joins_OnlyOpen(p) == statCalls[p] # NoCall /\ status[statCalls[p]] = "done"
Joins(p) == statCalls[p] # NoCall

\* The goroutine closes done, whatever statfs returned.
AfterStatFS_OnSuccess(ok) == IF ok THEN "done" ELSE "returned"
AfterStatFS(ok) == "done"

\* finishStatCall removes the registration of this very call.
Removes_Never(p, id) == FALSE
Removes_Any(p, id) == TRUE
Removes(p, id) == statCalls[p] = id

\* An unmeasured mount makes the batch incomplete.
StaysComplete_Untouched(c) == TRUE
StaysComplete(c) == FALSE

\* Every wait has a timer.
HasTimer_IfStarted(c) == status[call[c]] = "done"
HasTimer(c) == TRUE

-----------------------------------------------------------------------------

Init ==
    /\ ctxDone = FALSE
    /\ statCalls = [p \in Paths |-> NoCall]
    /\ pathOf \in [CallIds -> Paths]
    /\ \A i, j \in CallIds : pathOf[i] = pathOf[j]
    /\ status = [id \in CallIds |-> "done"]
    /\ good = [id \in CallIds |-> FALSE]
    /\ pc = [c \in Callers |-> "idle"]
    /\ todo = [c \in Callers |-> {}]
    /\ call = [c \in Callers |-> NoCall]
    /\ disks = [c \in Callers |-> {}]
    /\ errors = [c \in Callers |-> {}]
    /\ complete = [c \in Callers |-> FALSE]
    /\ mounts = [c \in Callers |-> {}]
    /\ used = [c \in Callers |-> {}]

\* Disks, up to the loop: m is what ParseMountInfo and normalizeMounts leave.
Disks(c, m) ==
    /\ pc[c] \in {"idle", "returned"} /\ ~ctxDone
    /\ pc' = [pc EXCEPT ![c] = "next"]
    /\ mounts' = [mounts EXCEPT ![c] = m]
    /\ todo' = [todo EXCEPT ![c] = m]
    /\ disks' = [disks EXCEPT ![c] = {}]
    /\ errors' = [errors EXCEPT ![c] = {}]
    /\ complete' = [complete EXCEPT ![c] = TRUE]
    /\ UNCHANGED <<ctxDone, callVars, call, used>>

\* statCall finds a registered call,
Join(c) ==
    /\ pc[c] = "next" /\ todo[c] # {}
    /\ Joins(Path(c))
    /\ pc' = [pc EXCEPT ![c] = "waiting"]
    /\ call' = [call EXCEPT ![c] = statCalls[Path(c)]]
    /\ UNCHANGED <<ctxDone, callVars, batchVars, used>>

\* or registers a new one and starts its goroutine.
Start(c, id) ==
    /\ pc[c] = "next" /\ todo[c] # {}
    /\ ~Joins(Path(c)) /\ Garbage(id)
    /\ pc' = [pc EXCEPT ![c] = "waiting"]
    /\ call' = [call EXCEPT ![c] = id]
    /\ statCalls' = [statCalls EXCEPT ![Path(c)] = id]
    /\ pathOf' = [pathOf EXCEPT ![id] = Path(c)]
    /\ status' = [status EXCEPT ![id] = "inflight"]
    /\ used' = [d \in Callers |-> used[d] \ {id}]
    /\ UNCHANGED <<ctxDone, good, batchVars>>

\* statfs returns; nobody says when.
StatFS(id, ok) ==
    /\ status[id] = "inflight"
    /\ status' = [status EXCEPT ![id] = AfterStatFS(ok)]
    /\ good' = [good EXCEPT ![id] = ok]
    /\ UNCHANGED <<ctxDone, statCalls, pathOf, batchVars, pc, call, used>>

\* The select of statFSForMount takes done.
Receive(c) ==
    /\ pc[c] = "waiting" /\ status[call[c]] = "done"
    /\ pc' = [pc EXCEPT ![c] = "received"]
    /\ UNCHANGED <<ctxDone, callVars, batchVars, call, used>>

\* The mount Disks is at is done with, measured or not; a failure under a cancelled
\* context ends the loop.
Proceed(c, measured) ==
    /\ todo' = [todo EXCEPT ![c] = @ \ {Path(c)}]
    /\ IF measured
       THEN /\ disks' = [disks EXCEPT ![c] = @ \cup {Path(c)}]
            /\ UNCHANGED <<errors, complete>>
       ELSE /\ errors' = [errors EXCEPT ![c] = @ \cup {Path(c)}]
            /\ complete' = [complete EXCEPT ![c] = @ /\ StaysComplete(c)]
            /\ UNCHANGED disks
    /\ pc' = [pc EXCEPT ![c] = IF ~measured /\ ctxDone THEN "returned" ELSE "next"]
    /\ call' = [call EXCEPT ![c] = NoCall]
    /\ UNCHANGED mounts

\* finishStatCall, and the result goes into the batch.
FinishStatCall(c) ==
    /\ pc[c] = "received"
    /\ IF Removes(Path(c), call[c])
       THEN statCalls' = [statCalls EXCEPT ![Path(c)] = NoCall]
       ELSE UNCHANGED statCalls
    /\ used' = [used EXCEPT ![c] = @ \cup {call[c]}]
    /\ Proceed(c, good[call[c]])
    /\ UNCHANGED <<ctxDone, pathOf, status, good>>

\* The select takes the timer, or the cancelled context.  The call stays
\* registered.
GiveUp(c) ==
    /\ pc[c] = "waiting"
    /\ HasTimer(c) \/ ctxDone
    /\ Proceed(c, FALSE)
    /\ UNCHANGED <<ctxDone, callVars, used>>

Return(c) ==
    /\ pc[c] = "next" /\ todo[c] = {}
    /\ pc' = [pc EXCEPT ![c] = "returned"]
    /\ UNCHANGED <<ctxDone, callVars, batchVars, call, used>>

Cancel ==
    /\ ~ctxDone
    /\ ctxDone' = TRUE
    /\ UNCHANGED <<callVars, batchVars, pc, call, used>>

\* The cancelled process has ended, with all its goroutines; a new one starts.
Restart ==
    /\ ctxDone /\ \A c \in Callers : pc[c] \in {"idle", "returned"}
    /\ ctxDone' = FALSE
    /\ statCalls' = [p \in Paths |-> NoCall]
    /\ status' = [id \in CallIds |-> "done"]
    /\ pc' = [c \in Callers |-> "idle"]
    /\ UNCHANGED <<pathOf, good, batchVars, call, used>>

\* One pass of Disks goes on: the steps of its goroutine.
Progress(c) ==
    \/ Join(c) \/ (\E id \in CallIds : Start(c, id))
    \/ Receive(c) \/ FinishStatCall(c) \/ GiveUp(c) \/ Return(c)

Next ==
    \/ \E c \in Callers : (\E m \in SUBSET Paths : Disks(c, m)) \/ Progress(c)
    \/ \E id \in CallIds, ok \in BOOLEAN : StatFS(id, ok)
    \/ Cancel \/ Restart

Spec == Init /\ [][Next]_vars

\* Every step of Disks happens, the timer of a wait at the latest.  A wait for a
\* call that is done, or about to be, does not lose against its ten seconds every
\* time.  Nothing is said about statfs, nor does anybody have to measure.
FairSpec ==
    /\ Spec
    /\ \A c \in Callers :
          /\ WF_vars(Progress(c))
          /\ \A p \in Paths : SF_vars(Receive(c) /\ Path(c) = p)

-----------------------------------------------------------------------------
(* Safety *)

TypeOK ==
    /\ ctxDone \in BOOLEAN
    /\ statCalls \in [Paths -> CallIds \cup {NoCall}]
    /\ pathOf \in [CallIds -> Paths]
    /\ status \in [CallIds -> {"inflight", "returned", "done"}]
    /\ good \in [CallIds -> BOOLEAN]
    /\ pc \in [Callers -> {"idle", "next", "waiting", "received", "returned"}]
    /\ todo \in [Callers -> SUBSET Paths]
    /\ call \in [Callers -> CallIds \cup {NoCall}]
    /\ disks \in [Callers -> SUBSET Paths]
    /\ errors \in [Callers -> SUBSET Paths]
    /\ complete \in [Callers -> BOOLEAN]
    /\ mounts \in [Callers -> SUBSET Paths]
    /\ used \in [Callers -> SUBSET CallIds]
    /\ \A c \in Callers : pc[c] \in {"waiting", "received"} =>
          call[c] \in CallIds /\ todo[c] # {}

\* README "later cycles reuse the same outstanding call instead of creating an
\* unbounded number of goroutines": one path never has two goroutines in statfs,
\* however often it is asked for, and by however many.
OneCallPerPath ==
    \A i, j \in CallIds :
        status[i] = "inflight" /\ status[j] = "inflight" /\ pathOf[i] = pathOf[j]
        => i = j

\* A result that outlived its cycle is taken once: the same caller never gets the
\* result of one statfs for two of its measurements.
NoResultIsUsedTwice ==
    \A c \in Callers : pc[c] = "received" => call[c] \notin used[c]

\* types.go: a failed measurement "must not be interpreted as a healthy result".
\* A complete batch has measured every mount; what an incomplete one lacks is in
\* its errors, unless a cancellation cut it short.
CompleteBatchesMissNothing ==
    \A c \in Callers : pc[c] = "returned" =>
        /\ complete[c] => disks[c] = mounts[c]
        /\ mounts[c] = disks[c] \cup errors[c] \cup todo[c]
        /\ complete[c] <=> errors[c] = {}

-----------------------------------------------------------------------------
(* Liveness *)

\* README: statfs calls are "bounded to 10 seconds per mount": a file system that
\* never answers does not stop a cycle.
EveryCollectionEnds ==
    \A c \in Callers : pc[c] = "next" ~> pc[c] \in {"idle", "returned"}

Asked(p) == \E c \in Callers : pc[c] = "waiting" /\ Path(c) = p
Answered(p) == \E c \in Callers : pc[c] = "received" /\ Path(c) = p
Hangs(p) == \E id \in CallIds : status[id] = "inflight" /\ pathOf[id] = p

\* A mount whose statfs hung is measured again once it answers: while it is asked
\* for and its calls come back, whatever they say, cycles get their results.
HungMountIsMeasuredAgain ==
    \A p \in Paths :
        []<>Asked(p) /\ []<>~Hangs(p) /\ <>[]~ctxDone => []<>Answered(p)

=============================================================================
