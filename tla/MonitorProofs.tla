--------------------------- MODULE MonitorProofs ---------------------------
(***************************************************************************)
(* Proofs about Monitor for every level and every file-log setting: what   *)
(* a cycle does however its steps turn out, and what a cancellation ends.  *)
(*                                                                         *)
(* Progress says what the locals of RunOnce know of the scopes behind it;  *)
(* OneLateCall says where a cycle can still be once a call was late.       *)
(***************************************************************************)
EXTENDS Monitor, TLAPS

\* The scope went wrong: not measured in full, or not reconciled.
WentWrong(s) == measured[s] = "incomplete" \/ s \in failed

\* The scopes that Reconcile was called for, and those that were measured.
Done == IF stage = "check" THEN at ELSE at - 1
Seen == IF stage = "measure" THEN at - 1 ELSE at

Types ==
    /\ TypeOK
    /\ measured \in [Scopes -> {"ok", "unhealthy", "incomplete", "none"}]
    /\ reconciled \in Seq(Scopes)

\* Between two cycles nothing is left of the last one.
Fresh ==
    /\ at = 1 /\ stage = "measure"
    /\ runErrors = FALSE /\ serverErrors = FALSE
    /\ measured = NotMeasured
    /\ reconciled = <<>> /\ failed = {} /\ reported = FALSE

\* What RunOnce knows in the middle of a cycle.
Progress ==
    /\ stage # "measure" => at <= 5
    /\ Len(reconciled) = Done /\ \A i \in 1..Done : reconciled[i] = Order[i]
    /\ \A i \in 1..5 : Order[i] \in failed => i <= Done
    /\ \A i \in 1..5 : measured[Order[i]] # "none" <=> i <= Seen
    /\ runErrors <=> \E i \in 1..5 : WentWrong(Order[i])
    /\ serverErrors <=> \E i \in 1..4 : i < at /\ WentWrong(Order[i])
    /\ reported = FALSE

\* What it has done when it returns without having been cancelled.
Finished ==
    /\ reconciled = Order
    /\ reported <=> \A s \in ServerScopes : measured[s] = "ok" /\ s \notin failed
    /\ returned = "nil" => \A s \in Scopes : ~WentWrong(s)

CycleIsSound ==
    /\ pc \in {"start", "loop"} => Fresh
    /\ pc = "loop" => mode = "daemon"
    /\ pc = "cycle" => Progress
    /\ pc = "returned" => IF returned = "canceled" THEN ctxDone ELSE Finished
    /\ pc = "exited" /\ mode = "once" /\ exitCode = 0 =>
          ~degraded /\ reconciled = Order /\ \A s \in Scopes : ~WentWrong(s)

\* After a late call the cycle is over, or is about to see that it is.
OneLateCall ==
    /\ late <= 1
    /\ late > 0 => ctxDone /\ (pc \in {"start", "cycle"} => pc = "cycle" /\ stage = "check")

IInv == Types /\ CycleIsSound /\ OneLateCall

-----------------------------------------------------------------------------

\* The positions of the scopes.
LEMMA Positions ==
    /\ Len(Order) = 5 /\ Order \in Seq(Scopes)
    /\ \A i \in 1..5 : Order[i] \in Scopes
    /\ \A s \in Scopes : \E i \in 1..5 : s = Order[i]
    /\ \A i, j \in 1..5 : Order[i] = Order[j] => i = j
    /\ \A i \in 1..5 : Order[i] \in ServerScopes <=> i <= 4
    /\ ServerScopes \subseteq Scopes
    /\ \A i \in 1..5 : Order[i] = "health" <=> i = 1
<1>1. /\ Len(Order) = 5
      /\ Order[1] = "health" /\ Order[2] = "memory" /\ Order[3] = "disk"
      /\ Order[4] = "network" /\ Order[5] = "auth"
  BY DEF Order
<1>2. \A i \in 1..5 : i = 1 \/ i = 2 \/ i = 3 \/ i = 4 \/ i = 5
  OBVIOUS
<1>3. Scopes = {"health", "memory", "disk", "network", "auth"}
  <2>1. \A s : s \in Scopes <=> \E i \in 1..5 : s = Order[i]
    BY DEF Scopes
  <2> QED
    BY <1>1, <1>2, <2>1
<1>4. Order \in Seq(Scopes)
  BY <1>3 DEF Order
<1> QED
  BY <1>1, <1>2, <1>3, <1>4 DEF ServerScopes

\* The invariant holds at the start.
LEMMA InitIInv == Init => IInv
<1> SUFFICES ASSUME Init PROVE IInv
  OBVIOUS
<1>1. fileLog \in BOOLEAN /\ level \in DOMAIN Severity
  BY MonitorAssumption DEF Init
<1>2. /\ measured \in [Scopes -> {"ok", "unhealthy", "incomplete", "none"}]
      /\ \A s \in Scopes : measured[s] = "none"
  BY DEF Init, NotMeasured
<1>3. Types
  <2>1. TypeOK
    <3>1. at \in 1..6 /\ failed \subseteq Scopes /\ late \in Nat
      BY DEF Init
    <3>2. mode \in {"once", "daemon"} /\ degraded \in BOOLEAN
      BY DEF Init
    <3>3. /\ pc = "start" /\ ctxDone = FALSE /\ tick = FALSE /\ stage = "measure"
          /\ runErrors = FALSE /\ serverErrors = FALSE /\ reported = FALSE
          /\ returned = "nil" /\ exitCode = 0
      BY DEF Init
    <3> QED
      BY <1>1, <1>2, <3>1, <3>2, <3>3 DEF TypeOK
  <2>2. reconciled \in Seq(Scopes)
    BY DEF Init
  <2> QED
    BY <1>2, <2>1, <2>2 DEF Types
<1>4. CycleIsSound /\ OneLateCall
  BY DEF Init, CycleIsSound, Fresh, OneLateCall
<1> QED
  BY <1>3, <1>4 DEF IInv

\* A new cycle knows nothing yet.
LEMMA FreshIsProgress == ASSUME Types, Fresh PROVE Progress
<1>1. \A i \in 1..5 : measured[Order[i]] = "none"
  BY Positions DEF Fresh, NotMeasured
<1> QED
  BY <1>1 DEF Fresh, Progress, Done, Seen, WentWrong

-----------------------------------------------------------------------------
(* The steps within a cycle *)

\* A panic ends everything but what the cycle has done so far.
LEMMA PanicStep ==
    ASSUME IInv, NEW severity, Panic(severity), late' \in Nat, late' <= 1,
           late' > 0 => ctxDone
    PROVE  IInv'
<1>1. /\ pc' = "panicked" /\ UNCHANGED <<configVars, ctxDone, tick, cycleVars, returned, exitCode>>
  BY DEF Panic
<1>2. Types'
  BY <1>1 DEF IInv, Types, TypeOK, configVars, cycleVars
<1>3. CycleIsSound'
  BY <1>1 DEF CycleIsSound
<1>4. OneLateCall'
  BY <1>1 DEF OneLateCall
<1> QED
  BY <1>2, <1>3, <1>4 DEF IInv

\* A return under a cancelled context.
LEMMA CanceledStep ==
    ASSUME IInv, Return("canceled"), ctxDone, late' \in Nat, late' <= 1,
           UNCHANGED <<configVars, ctxDone, tick, cycleVars, exitCode>>
    PROVE  IInv'
<1>1. pc' = "returned" /\ returned' = "canceled"
  BY DEF Return
<1>2. Types'
  BY <1>1 DEF IInv, Types, TypeOK, configVars, cycleVars
<1>3. CycleIsSound'
  BY <1>1 DEF CycleIsSound
<1>4. OneLateCall'
  BY <1>1 DEF OneLateCall
<1> QED
  BY <1>2, <1>3, <1>4 DEF IInv

\* The first call of a cycle that is late is its last.
LEMMA CallIsFirstLate ==
    ASSUME IInv, pc = "cycle", stage # "check"
    PROVE  late = 0 /\ (ctxDone => late + 1 <= 1)
BY DEF IInv, Types, TypeOK, OneLateCall

\* A check.
LEMMA MeasureStep ==
    ASSUME IInv, NEW outcome \in {"ok", "unhealthy", "incomplete"}, Measure(outcome)
    PROVE  IInv'
<1> DEFINE severity == IF Order[at] = "health" THEN "warn" ELSE "error"
           logs == IF Order[at] = "health" THEN outcome # "ok" ELSE outcome = "incomplete"
<1>1. /\ pc = "cycle" /\ stage = "measure" /\ at <= 5 /\ outcome \in Outcomes(Order[at])
      /\ late' = (IF ctxDone THEN late + 1 ELSE late)
      /\ UNCHANGED <<configVars, ctxDone, tick, exitCode>>
      /\ \/ ctxDone /\ Return("canceled") /\ UNCHANGED cycleVars
         \/ ~ctxDone /\ Panic(severity)
         \/ /\ ~ctxDone
            /\ stage' = "reconcile"
            /\ measured' = [measured EXCEPT ![Order[at]] = outcome]
            /\ runErrors' = (runErrors \/ outcome = "incomplete")
            /\ UNCHANGED <<pc, at, serverErrors, returned, reconciled, failed, reported>>
  BY Positions DEF Measure, GivesUp
<1>2. late' \in Nat /\ late' <= 1 /\ (late' > 0 => ctxDone)
  BY <1>1, CallIsFirstLate
<1>3. CASE ctxDone /\ Return("canceled") /\ UNCHANGED cycleVars
  BY <1>1, <1>2, <1>3, CanceledStep
<1>4. CASE ~ctxDone /\ Panic(severity)
  <2> HIDE DEF severity
  <2> QED
    BY <1>2, <1>4, PanicStep
<1>5. CASE /\ ~ctxDone
           /\ stage' = "reconcile"
           /\ measured' = [measured EXCEPT ![Order[at]] = outcome]
           /\ runErrors' = (runErrors \/ outcome = "incomplete")
           /\ UNCHANGED <<pc, at, serverErrors, returned, reconciled, failed, reported>>
  <2>1. at \in 1..5 /\ Types /\ Progress /\ failed \subseteq Scopes
    BY <1>1 DEF IInv, Types, TypeOK, CycleIsSound
  <2>2. Order[at] \in Scopes
    BY <2>1, Positions
  <2>3. \A i \in 1..5 : measured'[Order[i]] = IF i = at THEN outcome ELSE measured[Order[i]]
    BY <1>5, <2>1, <2>2, Positions DEF Types
  <2>4. Types'
    <3>1. measured' \in [Scopes -> {"ok", "unhealthy", "incomplete", "none"}]
      BY <1>5, <2>1 DEF Types
    <3>2. \A s \in Scopes : measured'[s] \in Outcomes(s) \cup {"none"}
      BY <1>1, <1>5, <2>1 DEF Types, TypeOK
    <3>3. runErrors' \in BOOLEAN
      BY <1>5
    <3> QED
      BY <1>1, <1>2, <1>5, <2>1, <3>1, <3>2, <3>3 DEF Types, TypeOK, configVars
  <2>5. Progress'
    <3>1. Done = at - 1 /\ Done' = at - 1 /\ Seen = at - 1 /\ Seen' = at
      BY <1>1, <1>5 DEF Done, Seen
    <3>2. \A i \in 1..5 : WentWrong(Order[i])' <=>
              WentWrong(Order[i]) \/ (i = at /\ outcome = "incomplete")
      <4> SUFFICES ASSUME NEW i \in 1..5
                   PROVE  measured'[Order[i]] = "incomplete" \/ Order[i] \in failed' <=>
                              \/ measured[Order[i]] = "incomplete" \/ Order[i] \in failed
                              \/ i = at /\ outcome = "incomplete"
        BY DEF WentWrong
      <4>1. CASE i = at
        <5>1. measured[Order[i]] = "none"
          BY <2>1, <3>1, <4>1 DEF Progress
        <5> QED
          BY <1>5, <2>3, <4>1, <5>1
      <4>2. CASE i # at
        BY <1>5, <2>3, <4>2
      <4> QED
        BY <4>1, <4>2
    <3>3. \A i \in 1..5 : measured'[Order[i]] # "none" <=> i <= at
      BY <2>1, <2>3, <3>1 DEF Progress
    <3>4. runErrors' <=> \E i \in 1..5 : WentWrong(Order[i])'
      BY <1>5, <2>1, <3>2 DEF Progress
    <3>5. serverErrors' <=> \E i \in 1..4 : i < at' /\ WentWrong(Order[i])'
      BY <1>5, <2>1, <3>2 DEF Progress
    <3> QED
      BY <1>5, <2>1, <3>1, <3>3, <3>4, <3>5 DEF Progress
  <2>6. CycleIsSound'
    BY <1>1, <1>5, <2>5 DEF CycleIsSound
  <2>7. OneLateCall'
    BY <1>1, <1>2, <1>5 DEF OneLateCall
  <2> QED
    BY <2>4, <2>6, <2>7 DEF IInv
<1> QED
  BY <1>1, <1>3, <1>4, <1>5

\* A Reconcile.
LEMMA ReconcileStep ==
    ASSUME IInv, NEW err \in BOOLEAN, NEW warns \in BOOLEAN, Reconcile(err, warns)
    PROVE  IInv'
<1>1. /\ pc = "cycle" /\ stage = "reconcile"
      /\ late' = (IF ctxDone THEN late + 1 ELSE late)
      /\ UNCHANGED <<configVars, ctxDone, tick, exitCode>>
      /\ \/ Panic("warn")
         \/ /\ stage' = "check"
            /\ runErrors' = (runErrors \/ err)
            /\ reconciled' = Append(reconciled, Order[at])
            /\ failed' = IF err THEN failed \cup {Order[at]} ELSE failed
            /\ UNCHANGED <<pc, at, serverErrors, measured, reported, returned>>
  BY DEF Reconcile
<1>2. late' \in Nat /\ late' <= 1 /\ (late' > 0 => ctxDone)
  BY <1>1, CallIsFirstLate
<1>3. CASE Panic("warn")
  BY <1>2, <1>3, PanicStep
<1>4. CASE /\ stage' = "check"
           /\ runErrors' = (runErrors \/ err)
           /\ reconciled' = Append(reconciled, Order[at])
           /\ failed' = IF err THEN failed \cup {Order[at]} ELSE failed
           /\ UNCHANGED <<pc, at, serverErrors, measured, reported, returned>>
  <2>1. at \in 1..5 /\ Types /\ Progress
    BY <1>1 DEF IInv, Types, TypeOK, CycleIsSound, Progress
  <2>2. Order[at] \in Scopes
    BY <2>1, Positions
  <2>3. Types'
    <3>1. runErrors' \in BOOLEAN /\ failed' \subseteq Scopes /\ reconciled' \in Seq(Scopes)
      BY <1>4, <2>1, <2>2 DEF Types, TypeOK
    <3> QED
      BY <1>1, <1>2, <1>4, <2>1, <3>1 DEF Types, TypeOK, configVars
  <2>4. Progress'
    <3>1. Done = at - 1 /\ Done' = at /\ Seen = at /\ Seen' = at
      BY <1>1, <1>4 DEF Done, Seen
    <3>2. Len(reconciled') = at /\ \A i \in 1..at : reconciled'[i] = Order[i]
      <4>1. /\ reconciled \in Seq(Scopes) /\ Len(reconciled) = at - 1
            /\ \A i \in 1..at - 1 : reconciled[i] = Order[i]
        BY <2>1, <3>1 DEF Types, Progress
      <4> QED
        BY <1>4, <2>1, <2>2, <4>1
    <3>3. \A i \in 1..5 : Order[i] \in failed' <=> Order[i] \in failed \/ (i = at /\ err)
      BY <1>4, <2>1, Positions
    <3>4. \A i \in 1..5 : WentWrong(Order[i])' <=> WentWrong(Order[i]) \/ (i = at /\ err)
      BY <1>4, <3>3 DEF WentWrong
    <3>5. runErrors' <=> \E i \in 1..5 : WentWrong(Order[i])'
      BY <1>4, <2>1, <3>4 DEF Progress
    <3>6. serverErrors' <=> \E i \in 1..4 : i < at' /\ WentWrong(Order[i])'
      BY <1>4, <2>1, <3>4 DEF Progress
    <3>7. \A i \in 1..5 : Order[i] \in failed' => i <= at
      BY <2>1, <3>1, <3>3 DEF Progress
    <3>8. \A i \in 1..5 : measured'[Order[i]] # "none" <=> i <= at
      BY <1>4, <2>1, <3>1 DEF Progress
    <3> QED
      BY <1>4, <2>1, <3>1, <3>2, <3>5, <3>6, <3>7, <3>8 DEF Progress
  <2>5. CycleIsSound'
    BY <1>1, <1>4, <2>4 DEF CycleIsSound
  <2>6. OneLateCall'
    BY <1>1, <1>2, <1>4 DEF OneLateCall
  <2> QED
    BY <2>3, <2>5, <2>6 DEF IInv
<1> QED
  BY <1>1, <1>3, <1>4

\* Going on to the next scope, or giving up.
LEMMA ProceedStep == ASSUME IInv, Proceed PROVE IInv'
<1> DEFINE next == /\ at' = at + 1 /\ stage' = "measure"
                   /\ serverErrors' = (IF at <= 4 THEN runErrors ELSE serverErrors)
                   /\ UNCHANGED <<pc, returned, runErrors, measured, reconciled, failed, reported>>
<1>1. /\ pc = "cycle" /\ stage = "check"
      /\ UNCHANGED <<configVars, ctxDone, tick, exitCode, late>>
      /\ \/ Panic("error")
         \/ ctxDone /\ Return("canceled") /\ UNCHANGED cycleVars
         \/ ~ctxDone /\ next
  BY DEF Proceed, GivesUp, NextScope
<1>2. late' \in Nat /\ late' <= 1 /\ (late' > 0 => ctxDone)
  BY <1>1 DEF IInv, Types, TypeOK, OneLateCall
<1>3. CASE Panic("error")
  BY <1>2, <1>3, PanicStep
<1>4. CASE ctxDone /\ Return("canceled") /\ UNCHANGED cycleVars
  BY <1>1, <1>2, <1>4, CanceledStep
<1>5. CASE ~ctxDone /\ next
  <2>1. at \in 1..5 /\ Types /\ Progress
    BY <1>1 DEF IInv, Types, TypeOK, CycleIsSound, Progress
  <2>2. Types'
    <3>1. at' \in 1..6 /\ serverErrors' \in BOOLEAN
      BY <1>5, <2>1 DEF Types, TypeOK
    <3> QED
      BY <1>1, <1>5, <2>1, <3>1 DEF Types, TypeOK, configVars
  <2>3. Progress'
    <3>1. Done = at /\ Done' = at /\ Seen = at /\ Seen' = at
      BY <1>1, <1>5, <2>1 DEF Done, Seen
    <3>2. \A i \in 1..5 : WentWrong(Order[i])' <=> WentWrong(Order[i])
      BY <1>5 DEF WentWrong
    <3>3. \A i \in 1..5 : WentWrong(Order[i]) => i <= at
      BY <2>1, <3>1 DEF Progress, WentWrong
    <3>4. runErrors' <=> \E i \in 1..5 : WentWrong(Order[i])'
      BY <1>5, <2>1, <3>2 DEF Progress
    <3>5. serverErrors' <=> \E i \in 1..4 : i < at' /\ WentWrong(Order[i])'
      <4>1. CASE at <= 4
        <5>1. serverErrors' <=> \E i \in 1..5 : WentWrong(Order[i])
          BY <1>5, <2>1, <4>1 DEF Progress
        <5> QED
          BY <1>5, <2>1, <3>2, <3>3, <4>1, <5>1
      <4>2. CASE at = 5
        <5>1. serverErrors' <=> \E i \in 1..4 : i < at /\ WentWrong(Order[i])
          BY <1>5, <2>1, <4>2 DEF Progress
        <5> QED
          BY <1>5, <3>2, <4>2, <5>1
      <4> QED
        BY <2>1, <4>1, <4>2
    <3> QED
      BY <1>5, <2>1, <3>1, <3>4, <3>5 DEF Progress
  <2>4. CycleIsSound'
    BY <1>1, <1>5, <2>3 DEF CycleIsSound
  <2>5. OneLateCall'
    BY <1>1, <1>2, <1>5 DEF OneLateCall
  <2> QED
    BY <2>2, <2>4, <2>5 DEF IInv
<1> HIDE DEF next
<1> QED
  BY <1>1, <1>3, <1>4, <1>5

\* The end of a cycle.
LEMMA FinishCycleStep ==
    ASSUME IInv, NEW err \in BOOLEAN, NEW logged, FinishCycle(err, logged)
    PROVE  IInv'
<1>1. /\ pc = "cycle" /\ at > 5
      /\ UNCHANGED <<configVars, ctxDone, tick, exitCode>>
      /\ UNCHANGED <<at, stage, serverErrors, measured, reconciled, failed>> \/ Panic(logged)
  BY Positions DEF FinishCycle, cycleVars
<1>2. at = 6 /\ stage = "measure" /\ Types /\ Progress
  BY <1>1 DEF IInv, Types, TypeOK, CycleIsSound, Progress
<1>3. late' \in Nat /\ late' <= 1 /\ (late' > 0 => ctxDone)
  <2>1. late = 0 /\ (late' = late \/ (ctxDone /\ late' = late + 1))
    BY <1>1, <1>2, CallIsFirstLate DEF FinishCycle
  <2> QED
    BY <2>1
<1>4. Done = 5 /\ Seen = 5
  BY <1>2 DEF Done, Seen
<1>5. reconciled = Order
  <2>1. reconciled \in Seq(Scopes) /\ Len(reconciled) = 5
        /\ \A i \in 1..5 : reconciled[i] = Order[i]
    BY <1>2, <1>4 DEF Types, Progress
  <2> QED
    BY <2>1, Positions
<1>6. Eligible(measured) <=> \A s \in ServerScopes : measured[s] = "ok" /\ s \notin failed
  <2>1. serverErrors <=> \E i \in 1..4 : WentWrong(Order[i])
    BY <1>2 DEF Progress
  <2>2. serverErrors <=> \E s \in ServerScopes : WentWrong(s)
    <3>1. \A s \in ServerScopes : \E i \in 1..4 : s = Order[i]
      BY Positions
    <3>2. \A i \in 1..4 : Order[i] \in ServerScopes
      BY Positions
    <3> QED
      BY <2>1, <3>1, <3>2
  <2> QED
    BY <2>2 DEF Eligible, WentWrong
<1>7. ~runErrors => \A s \in Scopes : ~WentWrong(s)
  BY <1>2, Positions DEF Progress
<1>8. CASE Panic(logged)
  BY <1>3, <1>8, PanicStep
<1>9. ASSUME ~Panic(logged) PROVE IInv'
  <2>1. /\ pc' = "returned" /\ returned' \in {"nil", "error"}
        /\ returned' = "nil" => ~runErrors
    BY <1>9 DEF FinishCycle, Return
  <2>2. runErrors' \in BOOLEAN /\ reported' \in BOOLEAN
    BY <1>2, <1>9 DEF FinishCycle, cycleVars, Types, TypeOK
  <2>3. reported' <=> Eligible(measured)
    BY <1>2, <1>9 DEF FinishCycle, cycleVars, Progress
  <2>4. Types'
    BY <1>1, <1>2, <1>3, <1>9, <2>1, <2>2 DEF Types, TypeOK, configVars
  <2>5. Finished'
    <3>1. reconciled' = Order /\ measured' = measured /\ failed' = failed
      BY <1>1, <1>5, <1>9
    <3>2. returned' = "nil" => \A s \in Scopes : ~WentWrong(s)'
      BY <1>7, <2>1, <3>1 DEF WentWrong
    <3> QED
      BY <1>6, <2>3, <3>1, <3>2 DEF Finished
  <2>6. CycleIsSound' /\ OneLateCall'
    BY <1>1, <1>3, <2>1, <2>5 DEF CycleIsSound, OneLateCall
  <2> QED
    BY <2>4, <2>6 DEF IInv
<1> QED
  BY <1>8, <1>9

-----------------------------------------------------------------------------
(* The steps around a cycle *)

\* The start.
LEMMA StartStep == ASSUME IInv, Start PROVE IInv'
<1>1. /\ pc = "start" /\ UNCHANGED <<configVars, ctxDone, tick, late>>
      /\ \/ Panic("error")
         \/ ctxDone /\ Return("canceled") /\ UNCHANGED <<exitCode, cycleVars>>
         \/ mode # "once" /\ pc' = "loop" /\ UNCHANGED <<exitCode, cycleVars, returned>>
         \/ pc' = "cycle" /\ UNCHANGED <<exitCode, cycleVars, returned>>
  BY DEF Start
<1>2. late = 0 /\ Types /\ Fresh
  BY <1>1 DEF IInv, Types, TypeOK, OneLateCall, CycleIsSound
<1>3. CASE Panic("error")
  BY <1>1, <1>2, <1>3, PanicStep
<1>4. CASE ctxDone /\ Return("canceled") /\ UNCHANGED <<exitCode, cycleVars>>
  BY <1>1, <1>2, <1>4, CanceledStep
<1>5. ASSUME pc' \in {"loop", "cycle"}, pc' = "loop" => mode # "once",
             UNCHANGED <<exitCode, cycleVars, returned>>
      PROVE  IInv'
  <2>1. Types' /\ Fresh' /\ OneLateCall'
    BY <1>1, <1>2, <1>5 DEF Types, TypeOK, Fresh, OneLateCall, configVars, cycleVars
  <2>2. Progress'
    <3>1. Progress
      BY <1>2, FreshIsProgress
    <3> QED
      BY <1>5, <3>1 DEF Progress, Done, Seen, WentWrong, cycleVars
  <2>3. mode' = mode /\ mode \in {"once", "daemon"}
    BY <1>1, <1>2 DEF Types, TypeOK, configVars
  <2>4. CycleIsSound'
    BY <1>5, <2>1, <2>2, <2>3 DEF CycleIsSound
  <2> QED
    BY <2>1, <2>4 DEF IInv
<1> QED
  BY <1>1, <1>3, <1>4, <1>5

\* The next cycle of the daemon.
LEMMA TakeTickStep == ASSUME IInv, TakeTick PROVE IInv'
<1>1. /\ pc = "loop" /\ ~ctxDone /\ tick' = FALSE /\ pc' = "cycle"
      /\ UNCHANGED <<configVars, ctxDone, cycleVars, returned, exitCode, late>>
  BY DEF TakeTick
<1>2. late = 0 /\ Types /\ Fresh
  BY <1>1 DEF IInv, Types, TypeOK, OneLateCall, CycleIsSound
<1>3. Progress
  BY <1>2, FreshIsProgress
<1>4. Types' /\ OneLateCall'
  <2>1. tick' \in BOOLEAN /\ pc' \in {"cycle"}
    BY <1>1
  <2>2. Types'
    BY <1>1, <1>2, <2>1 DEF Types, TypeOK, configVars, cycleVars
  <2>3. OneLateCall'
    BY <1>1, <1>2 DEF OneLateCall
  <2> QED
    BY <2>2, <2>3
<1>5. Progress'
  BY <1>1, <1>3 DEF Progress, Done, Seen, WentWrong, cycleVars
<1>6. CycleIsSound'
  BY <1>1, <1>5 DEF CycleIsSound
<1> QED
  BY <1>4, <1>6 DEF IInv

\* After a cycle of the daemon.
LEMMA DaemonCycleReturnsStep == ASSUME IInv, DaemonCycleReturns PROVE IInv'
<1>1. /\ pc = "returned" /\ mode = "daemon"
      /\ UNCHANGED <<configVars, ctxDone, tick, exitCode, late>>
      /\ \/ Panic("error")
         \/ pc' = "loop" /\ ForgetCycle /\ returned' = "nil"
  BY DEF DaemonCycleReturns, AfterCycle
<1>2. late' \in Nat /\ late' <= 1 /\ (late' > 0 => ctxDone) /\ Types
  BY <1>1 DEF IInv, Types, TypeOK, OneLateCall
<1>3. CASE Panic("error")
  BY <1>2, <1>3, PanicStep
<1>4. CASE pc' = "loop" /\ ForgetCycle /\ returned' = "nil"
  <2>1. Fresh'
    BY <1>4 DEF ForgetCycle, Fresh, NotMeasured
  <2>2. /\ measured' \in [Scopes -> {"ok", "unhealthy", "incomplete", "none"}]
        /\ \A s \in Scopes : measured'[s] = "none"
    BY <1>4 DEF ForgetCycle, NotMeasured
  <2>3. reconciled' \in Seq(Scopes) /\ failed' \subseteq Scopes
    BY <1>4 DEF ForgetCycle
  <2>4. Types'
    <3>1. /\ at' = 1 /\ stage' = "measure" /\ pc' = "loop" /\ returned' = "nil"
          /\ runErrors' \in BOOLEAN /\ serverErrors' \in BOOLEAN /\ reported' \in BOOLEAN
      BY <1>4 DEF ForgetCycle
    <3> QED
      BY <1>1, <1>2, <2>2, <2>3, <3>1 DEF Types, TypeOK, configVars
  <2>5. CycleIsSound' /\ OneLateCall'
    BY <1>1, <1>2, <1>4, <2>1 DEF CycleIsSound, OneLateCall, configVars
  <2> QED
    BY <2>4, <2>5 DEF IInv
<1> QED
  BY <1>1, <1>3, <1>4

\* The end of the daemon.
LEMMA DaemonStopsStep == ASSUME IInv, NEW closeErr \in BOOLEAN, DaemonStops(closeErr) PROVE IInv'
<1>1. /\ pc = "loop" /\ pc' = "exited" /\ exitCode' \in {0, 1}
      /\ UNCHANGED <<configVars, ctxDone, tick, cycleVars, returned, late>>
  BY DEF DaemonStops, Exit
<1>2. Types' /\ OneLateCall'
  BY <1>1 DEF IInv, Types, TypeOK, OneLateCall, configVars, cycleVars
<1>3. CycleIsSound'
  BY <1>1 DEF IInv, CycleIsSound, configVars
<1> QED
  BY <1>2, <1>3 DEF IInv

\* The end of a one-shot run.
LEMMA OneShotEndsStep == ASSUME IInv, NEW closeErr \in BOOLEAN, OneShotEnds(closeErr) PROVE IInv'
<1>1. /\ pc = "returned" /\ mode = "once"
      /\ UNCHANGED <<configVars, ctxDone, tick, cycleVars, returned, late>>
      /\ \/ Panic("error")
         \/ /\ pc' = "exited" /\ exitCode' \in {0, 1}
            /\ exitCode' = 0 => returned = "nil" /\ ~degraded
  BY DEF OneShotEnds, Exit, OneShotCode
<1>2. late' \in Nat /\ late' <= 1 /\ (late' > 0 => ctxDone) /\ Types
  BY <1>1 DEF IInv, Types, TypeOK, OneLateCall
<1>3. CASE Panic("error")
  BY <1>2, <1>3, PanicStep
<1>4. CASE /\ pc' = "exited" /\ exitCode' \in {0, 1}
           /\ exitCode' = 0 => returned = "nil" /\ ~degraded
  <2>1. Types' /\ OneLateCall'
    BY <1>1, <1>2, <1>4 DEF Types, TypeOK, OneLateCall, configVars, cycleVars
  <2>2. exitCode' = 0 => ~degraded /\ Finished
    BY <1>1, <1>4 DEF IInv, CycleIsSound
  <2>3. exitCode' = 0 =>
            ~degraded' /\ reconciled' = Order /\ \A s \in Scopes : ~WentWrong(s)'
    BY <1>1, <1>4, <2>2 DEF Finished, WentWrong, configVars, cycleVars
  <2>4. CycleIsSound'
    BY <1>4, <2>3 DEF CycleIsSound
  <2> QED
    BY <2>1, <2>4 DEF IInv
<1> QED
  BY <1>1, <1>3, <1>4

\* A signal, a tick, or nothing at all.
LEMMA CancelStep == ASSUME IInv, Cancel \/ TickerFires \/ UNCHANGED vars PROVE IInv'
<1>1. /\ UNCHANGED <<configVars, pc, cycleVars, returned, exitCode, late>>
      /\ ctxDone' \in BOOLEAN /\ tick' \in BOOLEAN /\ (ctxDone => ctxDone')
  BY DEF Cancel, TickerFires, IInv, Types, TypeOK, vars
<1>2. Types' /\ OneLateCall'
  BY <1>1 DEF IInv, Types, TypeOK, OneLateCall, configVars, cycleVars
<1>3. /\ Fresh' <=> Fresh
      /\ Progress' <=> Progress
      /\ Finished' <=> Finished
      /\ \A s : WentWrong(s)' <=> WentWrong(s)
  BY <1>1 DEF Fresh, Progress, Finished, Done, Seen, WentWrong, cycleVars
<1>4. CycleIsSound'
  BY <1>1, <1>3 DEF IInv, CycleIsSound, configVars, cycleVars
<1> QED
  BY <1>2, <1>4 DEF IInv

-----------------------------------------------------------------------------

\* Every reachable state satisfies the invariant.
THEOREM Inductive == Spec => []IInv
<1>1. ASSUME IInv, [Next]_vars PROVE IInv'
  <2>1. CASE Cancel \/ TickerFires \/ UNCHANGED vars
    BY <1>1, <2>1, CancelStep
  <2>2. CASE Start
    BY <1>1, <2>2, StartStep
  <2>3. CASE \E outcome \in {"ok", "unhealthy", "incomplete"} : Measure(outcome)
    BY <1>1, <2>3, MeasureStep
  <2>4. CASE \E err, warns \in BOOLEAN : Reconcile(err, warns)
    BY <1>1, <2>4, ReconcileStep
  <2>5. CASE Proceed
    BY <1>1, <2>5, ProceedStep
  <2>6. CASE \E err \in BOOLEAN, logged \in DOMAIN Severity \cup {"nothing"} :
                FinishCycle(err, logged)
    BY <1>1, <2>6, FinishCycleStep
  <2>7. CASE DaemonCycleReturns
    BY <1>1, <2>7, DaemonCycleReturnsStep
  <2>8. CASE TakeTick
    BY <1>1, <2>8, TakeTickStep
  <2>9. CASE \E closeErr \in BOOLEAN : DaemonStops(closeErr) \/ OneShotEnds(closeErr)
    BY <1>1, <2>9, DaemonStopsStep, OneShotEndsStep
  <2> QED
    BY <1>1, <2>1, <2>2, <2>3, <2>4, <2>5, <2>6, <2>7, <2>8, <2>9 DEF Next, Step
<1> QED
  BY <1>1, InitIInv, PTL DEF Spec

\* runner.go: whatever fails in a cycle nobody cancels, it reconciles every scope
\* once and in order, and it asks for a health report exactly when no server scope
\* found or did anything wrong.
THEOREM CyclesAreComplete == Spec => []CycleIsComplete
<1>1. IInv => CycleIsComplete
  BY DEF IInv, CycleIsSound, Finished, CycleIsComplete, Returned
<1> QED
  BY <1>1, Inductive, PTL

\* runner.go: "Outer context cancellation is terminal": at most the one call that
\* is next when the cancellation arrives still happens.
THEOREM CancellationEndsTheCycle == Spec => []CancellationIsTerminal
<1>1. IInv => CancellationIsTerminal
  BY DEF IInv, OneLateCall, CancellationIsTerminal
<1> QED
  BY <1>1, Inductive, PTL

\* README: a one-shot run that exits with 0 read its state, and measured and
\* reconciled every scope.
THEOREM OneShotIsHonest == Spec => []OneShotReportsFailures
<1>1. IInv => OneShotReportsFailures
  BY DEF IInv, CycleIsSound, WentWrong, OneShotReportsFailures
<1> QED
  BY <1>1, Inductive, PTL

=============================================================================
