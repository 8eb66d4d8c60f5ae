--------------------------- MODULE StateFileProofs ---------------------------
(***************************************************************************)
(* Proofs about StateFile for every set of saving goroutines and every     *)
(* bound of the versions: what is left after a power loss is complete and  *)
(* keeps the promises, and the file is an AtomicStore to its users.  At    *)
(* the end, the proofs about the schedule that HealthReport keeps in it.   *)
(*                                                                         *)
(* Missing from the properties themselves is how far the one Save inside   *)
(* saveMu is (SaveInProgress) and that versions are ordered: promised,     *)
(* survivors, named file, snapshot, memory (VersionsAreOrdered).           *)
(***************************************************************************)
EXTENDS StateFile, HealthReport, TLAPS

SaveInProgress ==
    \A w \in Savers :
        /\ pc[w] # "idle" => up /\ required[w] <= mem
        /\ pc[w] \in Inside => required[w] <= temp.version /\ temp.version <= mem
        /\ pc[w] \in {"locked", "written", "synced"} => path.version <= temp.version
        /\ pc[w] \in {"synced", "renamed"} => temp.synced
        /\ pc[w] = "renamed" => path = temp

VersionsAreOrdered ==
    /\ \A f \in unsettled : f.version <= path.version
    /\ up => path.version <= mem
    /\ ~up => mem = 0

IInv == TypeOK /\ SurvivorsKeepPromises /\ SaveInProgress /\ VersionsAreOrdered

-----------------------------------------------------------------------------

\* The initial state satisfies the invariant.
LEMMA InitIInv == Init => IInv
<1> SUFFICES ASSUME Init PROVE IInv
  OBVIOUS
<1> USE StateFileAssumption DEF Init, Inside
<1>1. NoFile \in Files /\ NoFile.version = 0 /\ NoFile.synced
  BY DEF NoFile, Files
<1>2. TypeOK
  <2>1. /\ pc \in [Savers -> {"idle", "called"} \cup Inside]
        /\ required \in [Savers -> 0..MaxVersion]
        /\ \A w \in Savers : pc[w] \in Inside <=> saveMu = w
    OBVIOUS
  <2>2. mem \in 0..MaxVersion /\ promised \in 0..MaxVersion
    OBVIOUS
  <2>3. up \in BOOLEAN
    OBVIOUS
  <2>. QED
    BY <1>1, <2>1, <2>2, <2>3 DEF TypeOK
<1>3. SurvivorsKeepPromises /\ VersionsAreOrdered
  BY <1>1 DEF SurvivorsKeepPromises, VersionsAreOrdered
<1>4. SaveInProgress
  BY DEF SaveInProgress
<1>. QED
  BY <1>2, <1>3, <1>4 DEF IInv

\* Only the Save that holds saveMu is past Lock.
LEMMA OneSaveInside ==
    ASSUME TypeOK, NEW v \in Savers, NEW w \in Savers,
           pc[v] \in Inside, pc[w] \in Inside
    PROVE  v = w
BY DEF TypeOK

\* Every step keeps the types and the mutual exclusion.
LEMMA StepTypeOK ==
    ASSUME IInv, [Next]_vars
    PROVE  TypeOK'
<1> USE StateFileAssumption DEF IInv, TypeOK, Files, Inside
<1>1. CASE Mutate
  BY <1>1 DEF Mutate, fileVars
<1>2. ASSUME NEW w \in Savers, Call(w)
      PROVE  TypeOK'
  BY <1>2 DEF Call, fileVars
<1>3. ASSUME NEW w \in Savers, Lock(w)
      PROVE  TypeOK'
  BY <1>3 DEF Lock, Snapshot, fileVars
<1>4. ASSUME NEW w \in Savers, Write(w)
      PROVE  TypeOK'
  BY <1>4 DEF Write, fileVars
<1>5. ASSUME NEW w \in Savers, SyncTemp(w)
      PROVE  TypeOK'
  BY <1>5 DEF SyncTemp, SyncedFile, fileVars
<1>6. ASSUME NEW w \in Savers, Rename(w)
      PROVE  TypeOK'
  BY <1>6 DEF Rename
<1>7. ASSUME NEW w \in Savers, SyncDirectory(w)
      PROVE  TypeOK'
  BY <1>7 DEF SyncDirectory, Released, Settled
<1>8. ASSUME NEW w \in Savers, Fail(w)
      PROVE  TypeOK'
  BY <1>8 DEF Fail, Released, fileVars
<1>9. ASSUME Die, path' \in Files, unsettled' \subseteq Files, path' \in unsettled'
      PROVE  TypeOK'
  <2>1. NoFile \in Files /\ 0 \in 0..MaxVersion
    BY DEF NoFile
  <2>2. /\ pc' = [w \in Savers |-> "idle"] /\ required' = [w \in Savers |-> 0]
        /\ up' = FALSE /\ mem' = 0 /\ promised' = promised
        /\ saveMu' = NoSaver /\ temp' \in Files
    BY <1>9, <2>1 DEF Die
  <2>3. \A w \in Savers : pc'[w] \in Inside <=> saveMu' = w
    BY <2>2
  <2>4. /\ pc' \in [Savers -> {"idle", "called"} \cup Inside]
        /\ required' \in [Savers -> 0..MaxVersion]
    BY <2>1, <2>2
  <2>. QED
    BY <1>9, <2>1, <2>2, <2>3, <2>4
<1>10. CASE Crash \/ PowerLoss
  <2>1. CASE Crash
    BY <1>9, <2>1 DEF Crash, fileVars
  <2>2. CASE PowerLoss
    <3>1. \A f \in unsettled : f \in Files /\ f.synced
      BY DEF SurvivorsKeepPromises
    <3>2. path' \in unsettled /\ unsettled' = {path'}
      BY <2>2, <3>1 DEF PowerLoss
    <3>. QED
      BY <1>9, <2>2, <3>1, <3>2 DEF PowerLoss
  <2>. QED
    BY <1>10, <2>1, <2>2
<1>11. CASE Open
  BY <1>11 DEF Open, fileVars
<1>12. CASE UNCHANGED vars
  BY <1>12 DEF vars, fileVars
<1>. QED
  BY <1>1, <1>2, <1>3, <1>4, <1>5, <1>6, <1>7, <1>8, <1>10, <1>11, <1>12
     DEF Next, Save

\* Every step keeps the other three conjuncts.
LEMMA StepIInv ==
    ASSUME IInv, [Next]_vars
    PROVE  SurvivorsKeepPromises' /\ SaveInProgress' /\ VersionsAreOrdered'
<1> USE StateFileAssumption DEF IInv
<1> DEFINE Goal == SurvivorsKeepPromises /\ SaveInProgress /\ VersionsAreOrdered
<1> USE DEF SurvivorsKeepPromises, SaveInProgress, VersionsAreOrdered, TypeOK,
            Files, Inside
<1>1. CASE Mutate
  BY <1>1 DEF Mutate, fileVars
<1>2. ASSUME NEW w \in Savers, Call(w)
      PROVE  Goal'
  BY <1>2 DEF Call, fileVars
<1>3. ASSUME NEW w \in Savers, Lock(w)
      PROVE  Goal'
  BY <1>3, OneSaveInside DEF Lock, Snapshot, fileVars
<1>4. ASSUME NEW w \in Savers, Write(w)
      PROVE  Goal'
  BY <1>4 DEF Write, fileVars
<1>5. ASSUME NEW w \in Savers, SyncTemp(w)
      PROVE  Goal'
  BY <1>5, OneSaveInside DEF SyncTemp, SyncedFile, fileVars
<1>6. ASSUME NEW w \in Savers, Rename(w)
      PROVE  Goal'
  BY <1>6, OneSaveInside DEF Rename
<1>7. ASSUME NEW w \in Savers, SyncDirectory(w)
      PROVE  Goal'
  BY <1>7 DEF SyncDirectory, Released, Settled
<1>8. ASSUME NEW w \in Savers, Fail(w)
      PROVE  Goal'
  BY <1>8 DEF Fail, Released, fileVars
<1>9. CASE Crash
  BY <1>9 DEF Crash, Die, NoFile, fileVars
<1>10. CASE PowerLoss
  BY <1>10 DEF PowerLoss, Die, NoFile
<1>11. CASE Open
  BY <1>11 DEF Open, fileVars
<1>12. CASE UNCHANGED vars
  BY <1>12 DEF vars, fileVars
<1>. QED
  BY <1>1, <1>2, <1>3, <1>4, <1>5, <1>6, <1>7, <1>8, <1>9, <1>10, <1>11, <1>12
     DEF Next, Save

\* IInv is an inductive invariant of the specification.
THEOREM Inductive == Spec => []IInv
<1>1. IInv /\ [Next]_vars => IInv'
  BY StepTypeOK, StepIInv DEF IInv
<1>. QED
  BY InitIInv, <1>1, PTL DEF Spec

\* Save's promise: after any crash or power loss the next Open reads one
\* complete document that covers every Save that returned nil.
THEOREM PromisesSurvive == Spec => []SurvivorsKeepPromises
BY Inductive, PTL DEF IInv

\* Two Saves at once never put an older snapshot over a newer one.
THEOREM SavesMoveForward == Spec => NameMovesForward
<1>1. IInv /\ [Next]_vars => [up' => path'.version >= path.version]_vars
  <2> SUFFICES ASSUME IInv, Next, up' PROVE path'.version >= path.version
    OBVIOUS
  <2>1. CASE \E w \in Savers : Rename(w)
    BY <2>1 DEF Rename, IInv, TypeOK, SaveInProgress
  <2>2. CASE path' = path
    BY <2>2 DEF IInv, TypeOK, Files
  <2>3. ~Crash /\ ~PowerLoss
    BY DEF Crash, PowerLoss, Die
  <2>. QED
    BY <2>1, <2>2, <2>3
       DEF Next, Save, Mutate, Call, Lock, Write, SyncTemp, SyncDirectory, Fail,
           Open, fileVars
<1>. QED
  BY Inductive, <1>1, PTL DEF Spec, NameMovesForward

-----------------------------------------------------------------------------

\* Every step is a step of the abstract store or a stutter.
LEMMA StepRefines ==
    ASSUME IInv, IInv', [Next]_vars
    PROVE  [Store!Next]_(Store!vars)
<1> USE StateFileAssumption
    DEF IInv, TypeOK, Files, Inside, SaveInProgress, VersionsAreOrdered,
        SurvivorsKeepPromises, Store!vars
<1>1. CASE Mutate
  BY <1>1 DEF Mutate, fileVars, Store!Next, Store!Mutate
<1>2. ASSUME NEW w \in Savers, Call(w) \/ Lock(w) \/ Write(w) \/ SyncTemp(w) \/ Fail(w)
      PROVE  UNCHANGED Store!vars
  BY <1>2 DEF Call, Lock, Write, SyncTemp, Fail, fileVars
<1>3. ASSUME NEW w \in Savers, Rename(w)
      PROVE  Store!Replace \/ UNCHANGED Store!vars
  BY <1>3 DEF Rename, Store!Replace
<1>4. ASSUME NEW w \in Savers, SyncDirectory(w)
      PROVE  Store!Promise \/ UNCHANGED Store!vars
  BY <1>4 DEF SyncDirectory, Store!Promise
<1>5. CASE Crash
  BY <1>5 DEF Crash, Die, fileVars, Store!Next, Store!Die
<1>6. CASE PowerLoss
  BY <1>6 DEF PowerLoss, Die, Store!Next, Store!Die
<1>7. CASE Open
  BY <1>7 DEF Open, fileVars, Store!Next, Store!Start
<1>8. CASE UNCHANGED vars
  BY <1>8 DEF vars
<1>. QED
  BY <1>1, <1>2, <1>3, <1>4, <1>5, <1>6, <1>7, <1>8 DEF Next, Save, Store!Next

\* The file implements the atomic store its users rely on.
THEOREM ImplementsStore == Spec => ImplementsAtomicStore
<1>1. Init => Store!Init
  BY DEF Init, Store!Init, NoFile
<1>. QED
  BY Inductive, <1>1, StepRefines, PTL DEF Spec, ImplementsAtomicStore, Store!Spec

-----------------------------------------------------------------------------
(* The schedule in the file: proofs about HealthReport for every interval,   *)
(* every retry interval and every way the clock is set.  Its three           *)
(* invariants are inductive only together: that a schedule is accepted needs *)
(* what due established when SendHealth was called, and that it is the       *)
(* history of SendHealth needs SetHealthReport to have accepted it.          *)

ReportIInv == ReportTypeOK /\ ScheduleIsAccepted /\ RemembersDeliveries

\* A report that is due, at whatever time, gives an acceptable schedule.
LEMMA DueIsAcceptable ==
    ASSUME NEW s \in Schedule, NEW t \in Times, t # Zero, NEW err \in BOOLEAN,
           validateHealthReportState(s), due(s, t)
    PROVE  /\ Current(s, t, err) \in Schedule
           /\ validateHealthReportState(Current(s, t, err))
BY HealthReportAssumption
   DEF Schedule, Times, Zero, validateHealthReportState, due, Current

\* The initial state satisfies the invariant.
LEMMA InitReportIInv == ReportInit => ReportIInv
<1> SUFFICES ASSUME ReportInit PROVE ReportIInv
  OBVIOUS
<1> USE HealthReportAssumption DEF ReportInit
<1>1. Zero \in Times /\ NoSchedule \in Schedule
  BY DEF Zero, Times, NoSchedule, Schedule
<1>2. ReportTypeOK
  BY <1>1 DEF ReportTypeOK
<1>3. Known = NoSchedule /\ validateHealthReportState(NoSchedule)
  BY DEF Known, NoSchedule, validateHealthReportState
<1>. QED
  BY <1>2, <1>3 DEF ReportIInv, ScheduleIsAccepted, RemembersDeliveries, NoSchedule

\* Every step keeps it.
LEMMA StepReportIInv ==
    ASSUME ReportIInv, [ReportNext]_reportVars
    PROVE  ReportIInv'
<1> USE HealthReportAssumption DEF ReportIInv
<1> DEFINE clockVars == <<stage, now, sendErr, health, disk, tried, confirmed, lost>>
<1>1. ASSUME clock' \in 1..MaxTime, UNCHANGED clockVars
      PROVE  ReportIInv'
  BY <1>1 DEF ReportTypeOK, ScheduleIsAccepted, RemembersDeliveries, Known,
              validateHealthReportState, Current, Schedule
<1>2. CASE Tick \/ SetClock
  <2>1. clock' \in 1..MaxTime
    BY <1>2 DEF Tick, SetClock, ReportTypeOK
  <2>. QED
    BY <1>1, <1>2, <2>1 DEF Tick, SetClock, processVars, observerVars
<1>3. ASSUME NEW readable \in BOOLEAN, New(readable)
      PROVE  ReportIInv'
  <2>1. health' \in Schedule /\ validateHealthReportState(health')
    BY <1>3 DEF New, Loaded, ReportTypeOK, NoSchedule, Schedule, Times, Zero,
                validateHealthReportState
  <2>. QED
    BY <1>3, <2>1 DEF New, ReportTypeOK, ScheduleIsAccepted, RemembersDeliveries, Known
<1>4. ASSUME NEW err \in BOOLEAN, SendHealth(err)
      PROVE  ReportIInv'
  <2>1. clock \in Times /\ clock # Zero /\ Known = health
    BY <1>4 DEF SendHealth, ReportTypeOK, Times, Zero, Known
  <2>2. validateHealthReportState(Current(health, clock, err))
    BY <1>4, <2>1, DueIsAcceptable DEF SendHealth, ReportTypeOK, ScheduleIsAccepted
  <2>3. Known' = Current(health, clock, err)
    BY <1>4 DEF SendHealth, Known
  <2>4. ScheduleIsAccepted'
    BY <1>4, <2>2, <2>3 DEF SendHealth, ScheduleIsAccepted
  <2>5. RemembersDeliveries'
    BY <1>4, <2>1, <2>3 DEF SendHealth, RemembersDeliveries, Current
  <2>. QED
    BY <1>4, <2>1, <2>4, <2>5 DEF SendHealth, ReportTypeOK
<1>5. ASSUME NEW replaced \in BOOLEAN, Record(replaced)
      PROVE  ReportIInv'
  <2>1. /\ Known = Current(health, now, sendErr)
        /\ validateHealthReportState(Current(health, now, sendErr))
    BY <1>5 DEF Record, Known, ScheduleIsAccepted
  <2>2. health' = Current(health, now, sendErr) /\ disk' \in {health', disk}
    BY <1>5, <2>1 DEF Record, AfterSet
  <2>3. health' \in Schedule
    BY <1>5, <2>2 DEF Record, Current, ReportTypeOK, Schedule
  <2>4. ReportTypeOK'
    <3>1. now' \in Times /\ stage' = "idle" /\ sendErr' = FALSE
      BY <1>5 DEF Record, Times, Zero
    <3>2. UNCHANGED <<clock, tried, confirmed, lost>>
      BY <1>5 DEF Record, observerVars
    <3>3. disk' \in Schedule
      BY <2>2, <2>3 DEF ReportTypeOK
    <3>. QED
      BY <2>3, <3>1, <3>2, <3>3 DEF ReportTypeOK
  <2>5. Known' = health'
    BY <1>5 DEF Record, Known
  <2>. QED
    BY <1>5, <2>1, <2>2, <2>4, <2>5
       DEF Record, ScheduleIsAccepted, RemembersDeliveries, observerVars
<1>6. CASE AlertSave
  <2>1. /\ UNCHANGED <<clock, stage, now, sendErr, health, tried, confirmed, lost>>
        /\ disk' = health
    BY <1>6 DEF AlertSave, processVars, observerVars
  <2>2. Known = health /\ Known' = Known
    BY <1>6, <2>1 DEF AlertSave, Known
  <2>. QED
    BY <2>1, <2>2 DEF ReportTypeOK, ScheduleIsAccepted, RemembersDeliveries
<1>7. CASE Stop
  <2>1. /\ UNCHANGED <<clock, disk, tried, confirmed>>
        /\ stage' = "down" /\ now' = Zero /\ sendErr' = FALSE
        /\ health' = NoSchedule /\ lost' \in BOOLEAN
    BY <1>7 DEF Stop, ReportTypeOK
  <2>2. Zero \in Times /\ NoSchedule \in Schedule
    BY DEF Zero, Times, NoSchedule, Schedule
  <2>3. ReportTypeOK'
    BY <2>1, <2>2 DEF ReportTypeOK
  <2>4. Known' = disk /\ (~lost' => ~lost /\ disk = Known)
    BY <1>7, <2>1 DEF Stop, Known
  <2>. QED
    BY <2>1, <2>3, <2>4 DEF ScheduleIsAccepted, RemembersDeliveries
<1>8. CASE UNCHANGED reportVars
  <2>1. clock' \in 1..MaxTime /\ UNCHANGED clockVars
    BY <1>8 DEF reportVars, processVars, observerVars, ReportTypeOK
  <2>. QED
    BY <1>1, <2>1
<1>. QED
  BY <1>2, <1>3, <1>4, <1>5, <1>6, <1>7, <1>8 DEF ReportNext

\* The three invariants hold in every reachable state.
THEOREM ReportInductive == ReportSpec => []ReportIInv
BY InitReportIInv, StepReportIInv, PTL DEF ReportSpec

\* However the clock is set, the manager never computes a schedule that the
\* store rejects, and never leaves a file behind that Open rejects.
THEOREM SchedulesAreAccepted == ReportSpec => []ScheduleIsAccepted
BY ReportInductive, PTL DEF ReportIInv

\* While no process dies with an unsaved schedule, the schedule is the history
\* of what was sent.
THEOREM DeliveriesAreRemembered == ReportSpec => []RemembersDeliveries
BY ReportInductive, PTL DEF ReportIInv

\* README: later reports follow the interval, restarts included.
THEOREM NoReportTooEarly == ReportSpec => ReportsAreSpaced
<1>1. ReportIInv /\ [ReportNext]_reportVars
      => [stage = "idle" /\ stage' = "sent" /\ ~lost
          => confirmed = Zero \/ clock >= confirmed + Interval]_reportVars
  <2> SUFFICES ASSUME ReportIInv, ReportNext, stage = "idle", stage' = "sent", ~lost
               PROVE  confirmed = Zero \/ clock >= confirmed + Interval
    OBVIOUS
  <2>1. due(health, clock)
    BY DEF ReportNext, Tick, SetClock, New, SendHealth, Record, AlertSave, Stop, processVars
  <2>. QED
    BY <2>1 DEF due, ReportIInv, RemembersDeliveries, Known
<1>. QED
  BY ReportInductive, <1>1, PTL DEF ReportSpec, ReportsAreSpaced

\* README: a failed delivery waits for the retry interval.
THEOREM NoRetryTooEarly == ReportSpec => RetriesAreSpaced
<1>1. ReportIInv /\ [ReportNext]_reportVars
      => [stage = "idle" /\ stage' = "sent" /\ ~lost /\ tried # confirmed
          => clock >= tried + RetryInterval]_reportVars
  <2> SUFFICES ASSUME ReportIInv, ReportNext, stage = "idle", stage' = "sent", ~lost, tried # confirmed
               PROVE  clock >= tried + RetryInterval
    OBVIOUS
  <2>1. due(health, clock)
    BY DEF ReportNext, Tick, SetClock, New, SendHealth, Record, AlertSave, Stop, processVars
  <2>2. health = [attempt |-> tried, sent |-> confirmed]
        /\ validateHealthReportState(health)
    BY DEF ReportIInv, RemembersDeliveries, ScheduleIsAccepted, Known
  <2>. QED
    BY <2>1, <2>2, HealthReportAssumption
       DEF due, validateHealthReportState, ReportIInv, ReportTypeOK, Times, Zero
<1>. QED
  BY ReportInductive, <1>1, PTL DEF ReportSpec, RetriesAreSpaced

=============================================================================
