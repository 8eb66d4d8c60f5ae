-------------------------- MODULE StatCallsProofs ---------------------------
(***************************************************************************)
(* Proofs about StatCalls for any number of callers, paths and statCalls.  *)
(*                                                                         *)
(* A statfs that runs is always the registered call of its path: that is   *)
(* what keeps a second one from starting, and it lasts because a call is   *)
(* removed only when it is done, and only by the waiters of its own path.  *)
(***************************************************************************)
EXTENDS StatCalls, WellFoundedInduction, TLAPS

RunningIsRegistered ==
    \A id \in CallIds : status[id] = "inflight" => statCalls[pathOf[id]] = id

RegisteredUnderItsPath ==
    \A p \in Paths : statCalls[p] # NoCall => pathOf[statCalls[p]] = p

WaitsForItsMount ==
    \A c \in Callers : pc[c] \in {"waiting", "received"} => pathOf[call[c]] = Path(c)

ReceivedIsDone ==
    \A c \in Callers : pc[c] = "received" => status[call[c]] = "done"

\* What is registered or waited for has not been used by the one who will get it.
Unused ==
    \A c \in Callers :
        /\ \A p \in Paths : statCalls[p] \notin used[c]
        /\ pc[c] \in {"waiting", "received"} => call[c] \notin used[c]

IInv ==
    /\ TypeOK
    /\ RunningIsRegistered
    /\ RegisteredUnderItsPath
    /\ WaitsForItsMount
    /\ ReceivedIsDone
    /\ Unused

-----------------------------------------------------------------------------

\* As long as mounts are left, Disks is at one of them.
LEMMA PathType ==
    ASSUME NEW c \in Callers, todo[c] \in SUBSET Paths, todo[c] # {}
    PROVE  Path(c) \in todo[c]
<1> DEFINE Less == {ss \in Nat \X Nat : ss[1] < ss[2]}
<1>1. IsWellFoundedOn(Less, Nat)
  BY NatLessThanWellFounded DEF OpToRel
<1>2. todo[c] \subseteq Nat
  BY StatCallsAssumption
<1>3. PICK p \in todo[c] : \A q \in todo[c] : ~ (<<q, p>> \in Less)
  <2> HIDE DEF Less
  <2>. QED
    BY <1>1, <1>2, WFMin
<1>4. \A x, y \in Nat : x < y => <<x, y>> \in Less
  OBVIOUS
<1>5. \A q \in todo[c] : p <= q
  <2> HIDE DEF Less
  <2>1. TAKE q \in todo[c]
  <2>2. p \in Nat /\ q \in Nat
    BY <1>2
  <2>3. ~ (q < p)
    BY <1>3, <1>4, <2>2
  <2>. QED
    BY <2>2, <2>3
<1>. QED
  BY <1>3, <1>5 DEF Path

\* The initial state satisfies the inductive invariant.
LEMMA InitIInv == Init => IInv
<1> SUFFICES ASSUME Init PROVE IInv
  OBVIOUS
<1>1. TypeOK
  BY DEF Init, TypeOK
<1>2. RunningIsRegistered /\ RegisteredUnderItsPath
  BY DEF Init, RunningIsRegistered, RegisteredUnderItsPath
<1>3. WaitsForItsMount /\ ReceivedIsDone
  BY DEF Init, WaitsForItsMount, ReceivedIsDone
<1>4. Unused
  BY DEF Init, Unused
<1>. QED
  BY <1>1, <1>2, <1>3, <1>4 DEF IInv

\* Every step keeps it.
LEMMA NextIInv == IInv /\ [Next]_vars => IInv'
<1> SUFFICES ASSUME IInv, [Next]_vars PROVE IInv'
  OBVIOUS
<1> USE StatCallsAssumption DEF IInv, TypeOK, RunningIsRegistered,
        RegisteredUnderItsPath, WaitsForItsMount, ReceivedIsDone, Unused
<1>1. \A c \in Callers : todo'[c] = todo[c] => Path(c)' = Path(c)
  BY DEF Path
<1>2. ASSUME NEW c \in Callers, NEW m \in SUBSET Paths, Disks(c, m)
      PROVE  IInv'
  BY <1>1, <1>2 DEF Disks, callVars
<1>3. ASSUME NEW c \in Callers, Join(c) PROVE IInv'
  <2>1. Path(c) \in Paths
    BY <1>3, PathType DEF Join
  <2>. QED
    BY <1>1, <1>3, <2>1 DEF Join, Joins, callVars, batchVars
<1>4. ASSUME NEW c \in Callers, NEW id \in CallIds, Start(c, id) PROVE IInv'
  <2>1. Path(c) \in Paths
    BY <1>4, PathType DEF Start
  <2>. QED
    BY <1>1, <1>4, <2>1 DEF Start, Joins, Garbage, batchVars
<1>5. ASSUME NEW id \in CallIds, NEW ok \in BOOLEAN, StatFS(id, ok) PROVE IInv'
  BY <1>1, <1>5 DEF StatFS, AfterStatFS, batchVars
<1>6. ASSUME NEW c \in Callers, Receive(c) PROVE IInv'
  BY <1>1, <1>6 DEF Receive, callVars, batchVars
<1>7. ASSUME NEW c \in Callers, NEW measured \in BOOLEAN,
             pc[c] \in {"waiting", "received"}, Proceed(c, measured)
      PROVE  /\ pc' \in [Callers -> {"idle", "next", "waiting", "received", "returned"}]
             /\ todo' \in [Callers -> SUBSET Paths]
             /\ call' \in [Callers -> CallIds \cup {NoCall}]
             /\ disks' \in [Callers -> SUBSET Paths]
             /\ errors' \in [Callers -> SUBSET Paths]
             /\ complete' \in [Callers -> BOOLEAN]
             /\ mounts' \in [Callers -> SUBSET Paths]
             /\ pc'[c] \notin {"waiting", "received"}
             /\ \A d \in Callers \ {c} :
                   /\ pc'[d] = pc[d] /\ call'[d] = call[d] /\ todo'[d] = todo[d]
                   /\ Path(d)' = Path(d)
  <2>1. Path(c) \in Paths
    BY <1>7, PathType
  <2>2. todo' = [todo EXCEPT ![c] = @ \ {Path(c)}]
    BY <1>7 DEF Proceed
  <2>3. \A d \in Callers \ {c} : todo'[d] = todo[d] /\ Path(d)' = Path(d)
    BY <1>1, <2>2
  <2>4. StaysComplete(c) \in BOOLEAN
    BY DEF StaysComplete
  <2>. QED
    BY <1>7, <2>1, <2>2, <2>3, <2>4 DEF Proceed
<1>8. ASSUME NEW c \in Callers, FinishStatCall(c) PROVE IInv'
  <2>1. Path(c) \in Paths /\ call[c] \in CallIds /\ good[call[c]] \in BOOLEAN
    BY <1>8, PathType DEF FinishStatCall
  <2>2. Proceed(c, good[call[c]]) /\ pc[c] = "received"
    BY <1>8 DEF FinishStatCall
  <2>3. statCalls' = [statCalls EXCEPT ![Path(c)] =
                        IF @ = call[c] THEN NoCall ELSE @]
    BY <1>8, <2>1 DEF FinishStatCall, Removes
  <2>4. /\ used' = [used EXCEPT ![c] = @ \cup {call[c]}]
        /\ UNCHANGED <<ctxDone, pathOf, status, good>>
    BY <1>8 DEF FinishStatCall
  <2>5. TypeOK'
    <3>1. /\ statCalls' \in [Paths -> CallIds \cup {NoCall}]
          /\ used' \in [Callers -> SUBSET CallIds]
      BY <2>1, <2>3, <2>4
    <3>2. \A d \in Callers : pc'[d] \in {"waiting", "received"} =>
            call'[d] \in CallIds /\ todo'[d] # {}
      BY <1>7, <2>1, <2>2
    <3>. QED
      BY <1>7, <2>1, <2>2, <2>4, <3>1, <3>2
  <2>6. RunningIsRegistered' /\ RegisteredUnderItsPath'
    BY <2>1, <2>2, <2>3, <2>4
  <2>7. WaitsForItsMount' /\ ReceivedIsDone'
    BY <1>7, <2>1, <2>2, <2>4
  <2>8. \A p \in Paths : statCalls'[p] # call[c]
    BY <2>1, <2>2, <2>3
  <2>9. Unused'
    <3>1. \A p \in Paths : statCalls'[p] \in {statCalls[p], NoCall}
      BY <2>1, <2>3
    <3>2. \A d \in Callers : used'[d] \subseteq used[d] \cup {call[c]}
      BY <2>4
    <3>3. \A d \in Callers : NoCall \notin used'[d]
      BY <2>5
    <3>4. \A d \in Callers, p \in Paths : statCalls'[p] \notin used'[d]
      BY <2>8, <3>1, <3>2, <3>3
    <3>5. \A d \in Callers : pc'[d] \in {"waiting", "received"} =>
            d # c /\ call'[d] = call[d] /\ pc'[d] = pc[d] /\ used'[d] = used[d]
      BY <1>7, <2>1, <2>2, <2>4
    <3>. QED
      BY <3>4, <3>5
  <2>. QED
    BY <2>5, <2>6, <2>7, <2>9
<1>9. ASSUME NEW c \in Callers, GiveUp(c) PROVE IInv'
  <2>1. /\ pc[c] = "waiting" /\ Proceed(c, FALSE)
        /\ UNCHANGED <<ctxDone, callVars, used>>
    BY <1>9 DEF GiveUp
  <2>2. /\ pc'[c] \notin {"waiting", "received"}
        /\ \A d \in Callers \ {c} :
              pc'[d] = pc[d] /\ call'[d] = call[d] /\ Path(d)' = Path(d)
    BY <1>7, <2>1
  <2>3. TypeOK'
    BY <1>7, <2>1 DEF callVars
  <2>4. WaitsForItsMount' /\ ReceivedIsDone' /\ Unused'
    BY <2>1, <2>2 DEF callVars
  <2>. QED
    BY <2>1, <2>3, <2>4 DEF callVars
<1>10. ASSUME NEW c \in Callers, Return(c) PROVE IInv'
  BY <1>1, <1>10 DEF Return, callVars, batchVars
<1>11. ASSUME Cancel PROVE IInv'
  BY <1>1, <1>11 DEF Cancel, callVars, batchVars
<1>12. ASSUME Restart PROVE IInv'
  BY <1>1, <1>12 DEF Restart, batchVars
<1>13. ASSUME UNCHANGED vars PROVE IInv'
  BY <1>1, <1>13 DEF vars, callVars, batchVars
<1>. QED
  BY <1>2, <1>3, <1>4, <1>5, <1>6, <1>8, <1>9, <1>10, <1>11, <1>12, <1>13
  DEF Next, Progress

\* The inductive invariant of the measurement of disks holds always.
THEOREM Inductive == Spec => []IInv
BY InitIInv, NextIInv, PTL DEF Spec

\* statCall (internal/collector/proc.go): of one path at most one statfs runs, for
\* any number of callers and however often they give up and come back.
THEOREM StartsOneCallPerPath == Spec => []OneCallPerPath
<1>1. IInv => OneCallPerPath
  BY DEF IInv, RunningIsRegistered, OneCallPerPath
<1>. QED
  BY <1>1, Inductive, PTL

\* finishStatCall (internal/collector/proc.go): whoever takes a result has not
\* taken it before.
THEOREM TakesAResultOnce == Spec => []NoResultIsUsedTwice
<1>1. IInv => NoResultIsUsedTwice
  BY DEF IInv, Unused, NoResultIsUsedTwice
<1>. QED
  BY <1>1, Inductive, PTL

-----------------------------------------------------------------------------

\* The mounts of a batch are measured, failed or still to come, and a failure is
\* what makes it incomplete.
BatchAddsUp ==
    \A c \in Callers : pc[c] # "idle" =>
        /\ mounts[c] = disks[c] \cup errors[c] \cup todo[c]
        /\ complete[c] <=> errors[c] = {}
        /\ pc[c] = "returned" /\ errors[c] = {} => todo[c] = {}

LEMMA NextBatchAddsUp == IInv /\ BatchAddsUp /\ [Next]_vars => BatchAddsUp'
<1> SUFFICES ASSUME IInv, BatchAddsUp, [Next]_vars PROVE BatchAddsUp'
  OBVIOUS
<1> USE DEF IInv, TypeOK, BatchAddsUp
<1>1. ASSUME NEW c \in Callers, NEW m \in SUBSET Paths, Disks(c, m)
      PROVE  BatchAddsUp'
  BY <1>1 DEF Disks
<1>2. ASSUME NEW c \in Callers, NEW measured \in BOOLEAN,
             pc[c] \in {"waiting", "received"}, Proceed(c, measured)
      PROVE  BatchAddsUp'
  <2>1. Path(c) \in todo[c]
    BY <1>2, PathType
  <2>2. /\ mounts' = mounts /\ pc[c] # "idle"
        /\ todo' = [todo EXCEPT ![c] = @ \ {Path(c)}]
    BY <1>2 DEF Proceed
  <2>3. CASE measured
    <3>1. /\ disks' = [disks EXCEPT ![c] = @ \cup {Path(c)}]
          /\ errors' = errors /\ complete' = complete
          /\ pc' = [pc EXCEPT ![c] = "next"]
      BY <1>2, <2>3 DEF Proceed
    <3>. QED
      BY <2>1, <2>2, <3>1
  <2>4. CASE ~measured
    <3>1. /\ errors' = [errors EXCEPT ![c] = @ \cup {Path(c)}]
          /\ complete' = [complete EXCEPT ![c] = FALSE]
          /\ disks' = disks
      BY <1>2, <2>4 DEF Proceed, StaysComplete
    <3>2. \A d \in Callers \ {c} : pc'[d] = pc[d]
      BY <1>2 DEF Proceed
    <3>3. ASSUME NEW d \in Callers, d # c, pc'[d] # "idle"
          PROVE  /\ mounts'[d] = disks'[d] \cup errors'[d] \cup todo'[d]
                 /\ complete'[d] <=> errors'[d] = {}
                 /\ pc'[d] = "returned" /\ errors'[d] = {} => todo'[d] = {}
      BY <2>2, <3>1, <3>2, <3>3
    <3>4. /\ mounts'[c] = disks'[c] \cup errors'[c] \cup todo'[c]
          /\ ~complete'[c] /\ errors'[c] # {}
      BY <2>1, <2>2, <3>1
    <3>. QED
      BY <3>3, <3>4
  <2>. QED
    BY <2>3, <2>4
<1>3. ASSUME NEW c \in Callers, Progress(c) PROVE BatchAddsUp'
  <2>1. CASE FinishStatCall(c)
    <3>1. good[call[c]] \in BOOLEAN
      BY <2>1 DEF FinishStatCall
    <3>. QED
      BY <1>2, <2>1, <3>1 DEF FinishStatCall
  <2>2. CASE GiveUp(c)
    BY <1>2, <2>2 DEF GiveUp
  <2>. QED
    BY <1>3, <2>1, <2>2 DEF Progress, Join, Start, Receive, Return, batchVars
<1>4. ASSUME NEW id \in CallIds, NEW ok \in BOOLEAN, StatFS(id, ok) PROVE BatchAddsUp'
  BY <1>4 DEF StatFS, batchVars
<1>5. CASE Cancel
  BY <1>5 DEF Cancel, batchVars
<1>6. CASE Restart
  BY <1>6 DEF Restart
<1>7. CASE UNCHANGED vars
  BY <1>7 DEF vars, batchVars
<1>. QED
  BY <1>1, <1>3, <1>4, <1>5, <1>6, <1>7 DEF Next

\* DiskBatch (internal/collector/types.go): a batch that says it is complete has
\* measured every mount, and what another one lacks is among its errors.
THEOREM CompleteMeansAll == Spec => []CompleteBatchesMissNothing
<1>1. Init => BatchAddsUp
  BY DEF Init, BatchAddsUp
<1>2. BatchAddsUp => CompleteBatchesMissNothing
  BY DEF BatchAddsUp, CompleteBatchesMissNothing
<1>. QED
  BY <1>1, <1>2, Inductive, NextBatchAddsUp, PTL DEF Spec

=============================================================================
