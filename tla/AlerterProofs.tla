--------------------------- MODULE AlerterProofs ---------------------------
(***************************************************************************)
(* Proofs about Alerter for every set of keys, every assignment of scopes  *)
(* and every choice of send_recovery.                                      *)
(*                                                                         *)
(* None of the safety properties is inductive by itself.  What is missing: *)
(* a queue of a running Reconcile stays apart from what its earlier sends  *)
(* changed (QueuesMatchRecords), which makes the order "send, then Put or  *)
(* Delete" safe; and between two saves the difference between memory and   *)
(* file is announced by dirty or mutated (UnsavedIsMarked).                *)
(***************************************************************************)
EXTENDS Alerter, TLAPS

QueuesMatchRecords ==
    /\ newConditions \cap records = {}
    /\ newConditions \subseteq batch.conditions
    /\ recovered \subseteq records \ batch.conditions
    /\ recovered # {} => batch.complete
    /\ pc # "busy" => newConditions = {} /\ recovered = {} /\ ~mutated

UnsavedIsMarked ==
    /\ pc # "down" /\ ~dirty /\ ~mutated /\ ~degraded => disk = records
    /\ pc = "down" => ~dirty /\ records = {}

IInv ==
    /\ TypeOK
    /\ QueuesMatchRecords
    /\ UnsavedIsMarked
    /\ LedgerAgreesWithRecipient

-----------------------------------------------------------------------------

\* A delivery group is taken from the queue it is the head of.
LEMMA NextGroupIsPartOfTheQueue ==
    ASSUME NEW keys
    PROVE  NextGroup(keys) \subseteq keys
BY DEF NextGroup

\* The initial state satisfies the inductive invariant.
LEMMA InitIInv == Init => IInv
<1> SUFFICES ASSUME Init PROVE IInv
  OBVIOUS
<1>1. batch \in Batches
  BY AlerterAssumption DEF Init, NoBatch, Batches
<1>2. TypeOK
  BY <1>1, AlerterAssumption DEF Init, TypeOK
<1>3. QueuesMatchRecords /\ UnsavedIsMarked /\ LedgerAgreesWithRecipient
  BY DEF Init, QueuesMatchRecords, UnsavedIsMarked, LedgerAgreesWithRecipient,
         Believed
<1>. QED
  BY <1>2, <1>3 DEF IInv

\* Every step keeps the types.
LEMMA StepTypeOK ==
    ASSUME IInv, [Next]_vars
    PROVE  TypeOK'
<1> USE AlerterAssumption DEF IInv, TypeOK
<1>1. ASSUME NEW readable \in BOOLEAN, Open(readable)
      PROVE  TypeOK'
  BY <1>1 DEF Open, Loaded
<1>2. ASSUME NEW s \in Scopes, NEW conditions \in SUBSET Keys,
             NEW complete \in BOOLEAN, Begin(s, conditions, complete)
      PROVE  TypeOK'
  <2>1. batch' \in Batches
    BY <1>2 DEF Begin, Batches
  <2>2. newConditions' \cup recovered' \subseteq {k \in Keys : ScopeOf[k] = batch'.scope}
    BY <1>2 DEF Begin, NotActive, Gone, ByScope
  <2>. QED
    BY <1>2, <2>1, <2>2 DEF Begin
<1>3. ASSUME NEW acked \in BOOLEAN, NEW accepted \in BOOLEAN, SendAlert(acked, accepted)
      PROVE  TypeOK'
  BY <1>3, NextGroupIsPartOfTheQueue DEF SendAlert, Activated, Doubt
<1>4. ASSUME NEW acked \in BOOLEAN, NEW accepted \in BOOLEAN, SendRecovery(acked, accepted)
      PROVE  TypeOK'
  BY <1>4, NextGroupIsPartOfTheQueue DEF SendRecovery, Removed, Doubt
<1>5. ASSUME NEW ok \in BOOLEAN, NEW replaced \in BOOLEAN, Return(ok, replaced)
      PROVE  TypeOK'
  BY <1>5 DEF Return, DirtyAfterSave, NoBatch, Batches
<1>6. CASE HealthReportSave
  BY <1>6 DEF HealthReportSave, processVars
<1>7. CASE Stop
  BY <1>7 DEF Stop, NoBatch, Batches
<1>8. CASE UNCHANGED vars
  BY <1>8 DEF vars, processVars, observerVars
<1>. QED
  BY <1>1, <1>2, <1>3, <1>4, <1>5, <1>6, <1>7, <1>8 DEF Next, Reconcile

\* Every step leaves what is queued apart from what is recorded.
LEMMA StepQueues ==
    ASSUME IInv, [Next]_vars
    PROVE  QueuesMatchRecords'
<1> USE DEF IInv, QueuesMatchRecords
<1>1. ASSUME NEW readable \in BOOLEAN, Open(readable)
      PROVE  QueuesMatchRecords'
  BY <1>1 DEF Open
<1>2. ASSUME NEW s \in Scopes, NEW conditions \in SUBSET Keys,
             NEW complete \in BOOLEAN, Begin(s, conditions, complete)
      PROVE  QueuesMatchRecords'
  <2>1. batch'.conditions = conditions /\ batch'.complete = complete
    BY <1>2 DEF Begin
  <2>2. newConditions' \cap records = {}
    BY <1>2 DEF Begin, NotActive, ByScope
  <2>3. recovered' \subseteq records \ conditions /\ (recovered' # {} => complete)
    BY <1>2 DEF Begin, Gone, ByScope
  <2>. QED
    BY <1>2, <2>1, <2>2, <2>3 DEF Begin, NotActive
<1>3. ASSUME NEW acked \in BOOLEAN, NEW accepted \in BOOLEAN, SendAlert(acked, accepted)
      PROVE  QueuesMatchRecords'
  <2> DEFINE group == NextGroup(newConditions)
  <2>1. /\ group \subseteq newConditions
        /\ newConditions' = newConditions \ group
        /\ records' = records \cup Activated(group, acked)
        /\ Activated(group, acked) \subseteq group
    BY <1>3, NextGroupIsPartOfTheQueue DEF SendAlert, Activated
  <2> HIDE DEF group
  <2>2. newConditions' \cap records' = {}
    BY <2>1
  <2>. QED
    BY <1>3, <2>1, <2>2 DEF SendAlert
<1>4. ASSUME NEW acked \in BOOLEAN, NEW accepted \in BOOLEAN, SendRecovery(acked, accepted)
      PROVE  QueuesMatchRecords'
  <2> DEFINE group == NextGroup(recovered)
  <2>1. /\ group \subseteq recovered
        /\ recovered' = recovered \ group
        /\ records' = records \ Removed(group, acked)
        /\ Removed(group, acked) \subseteq group
    BY <1>4, NextGroupIsPartOfTheQueue DEF SendRecovery, Removed
  <2> HIDE DEF group
  <2>2. recovered' \subseteq records' \ batch.conditions
    BY <2>1
  <2>. QED
    BY <1>4, <2>1, <2>2 DEF SendRecovery
<1>5. ASSUME NEW ok \in BOOLEAN, NEW replaced \in BOOLEAN, Return(ok, replaced)
      PROVE  QueuesMatchRecords'
  BY <1>5 DEF Return
<1>6. CASE HealthReportSave
  BY <1>6 DEF HealthReportSave, processVars
<1>7. CASE Stop
  BY <1>7 DEF Stop
<1>8. CASE UNCHANGED vars
  BY <1>8 DEF vars, processVars
<1>. QED
  BY <1>1, <1>2, <1>3, <1>4, <1>5, <1>6, <1>7, <1>8 DEF Next, Reconcile

\* Every step keeps the difference between memory and file marked.
LEMMA StepUnsaved ==
    ASSUME IInv, [Next]_vars
    PROVE  UnsavedIsMarked'
<1> USE DEF IInv, UnsavedIsMarked
<1>1. ASSUME NEW readable \in BOOLEAN, Open(readable)
      PROVE  UnsavedIsMarked'
  BY <1>1 DEF Open, Loaded
<1>2. ASSUME NEW s \in Scopes, NEW conditions \in SUBSET Keys,
             NEW complete \in BOOLEAN, Begin(s, conditions, complete)
      PROVE  UnsavedIsMarked'
  BY <1>2 DEF Begin
<1>3. ASSUME NEW acked \in BOOLEAN, NEW accepted \in BOOLEAN, SendAlert(acked, accepted)
      PROVE  UnsavedIsMarked'
  BY <1>3 DEF SendAlert, TypeOK
<1>4. ASSUME NEW acked \in BOOLEAN, NEW accepted \in BOOLEAN, SendRecovery(acked, accepted)
      PROVE  UnsavedIsMarked'
  BY <1>4 DEF SendRecovery, TypeOK
<1>5. ASSUME NEW ok \in BOOLEAN, NEW replaced \in BOOLEAN, Return(ok, replaced)
      PROVE  UnsavedIsMarked'
  BY <1>5 DEF Return, DirtyAfterSave, TypeOK
<1>6. CASE HealthReportSave
  BY <1>6 DEF HealthReportSave, processVars
<1>7. CASE Stop
  BY <1>7 DEF Stop
<1>8. CASE UNCHANGED vars
  BY <1>8 DEF vars, processVars, observerVars
<1>. QED
  BY <1>1, <1>2, <1>3, <1>4, <1>5, <1>6, <1>7, <1>8 DEF Next, Reconcile

\* Every step keeps the ledger right for the keys that are not in doubt.
LEMMA StepLedger ==
    ASSUME IInv, [Next]_vars
    PROVE  LedgerAgreesWithRecipient'
<1> USE DEF IInv, LedgerAgreesWithRecipient, Believed
<1>1. ASSUME NEW readable \in BOOLEAN, Open(readable)
      PROVE  LedgerAgreesWithRecipient'
  BY <1>1 DEF Open, Loaded
<1>2. ASSUME NEW s \in Scopes, NEW conditions \in SUBSET Keys,
             NEW complete \in BOOLEAN, Begin(s, conditions, complete)
      PROVE  LedgerAgreesWithRecipient'
  BY <1>2 DEF Begin
<1>3. ASSUME NEW acked \in BOOLEAN, NEW accepted \in BOOLEAN, SendAlert(acked, accepted)
      PROVE  LedgerAgreesWithRecipient'
  BY <1>3 DEF SendAlert, Activated, Doubt
<1>4. ASSUME NEW acked \in BOOLEAN, NEW accepted \in BOOLEAN, SendRecovery(acked, accepted)
      PROVE  LedgerAgreesWithRecipient'
  BY <1>4 DEF SendRecovery, Removed, Doubt
<1>5. ASSUME NEW ok \in BOOLEAN, NEW replaced \in BOOLEAN, Return(ok, replaced)
      PROVE  LedgerAgreesWithRecipient'
  BY <1>5 DEF Return
<1>6. CASE HealthReportSave
  BY <1>6 DEF HealthReportSave, processVars
<1>7. CASE Stop
  BY <1>7 DEF Stop
<1>8. CASE UNCHANGED vars
  BY <1>8 DEF vars, processVars, observerVars
<1>. QED
  BY <1>1, <1>2, <1>3, <1>4, <1>5, <1>6, <1>7, <1>8 DEF Next, Reconcile

-----------------------------------------------------------------------------

\* IInv is an inductive invariant of the specification.
THEOREM Inductive == Spec => []IInv
<1>1. IInv /\ [Next]_vars => IInv'
  BY StepTypeOK, StepQueues, StepUnsaved, StepLedger DEF IInv
<1>. QED
  BY InitIInv, <1>1, PTL DEF Spec

\* The variables keep their types, and a running Reconcile only ever has keys
\* of its own scope to send.
THEOREM TypeCorrect == Spec => []TypeOK
BY Inductive, PTL DEF IInv

\* manager.go: state advances only after the corresponding notification batch
\* succeeds, so the active records are what the recipient was told, except for
\* deliveries whose outcome the process lost.
THEOREM LedgerCorrect == Spec => []LedgerAgreesWithRecipient
BY Inductive, PTL DEF IInv

\* README: the same key is suppressed until it recovers.
THEOREM OnlyNewsIsSent == Spec => []SendsOnlyNews
<1>1. IInv => SendsOnlyNews
  BY DEF IInv, TypeOK, QueuesMatchRecords, LedgerAgreesWithRecipient, Believed,
         SendsOnlyNews
<1>. QED
  BY Inductive, <1>1, PTL

\* manager.go: a failed Save stays dirty, so a clean manager loses nothing when
\* the process ends between two batches.
THEOREM CleanManagerIsDurable == Spec => []CleanIsDurable
<1>1. IInv => CleanIsDurable
  BY DEF IInv, QueuesMatchRecords, UnsavedIsMarked, CleanIsDurable
<1>. QED
  BY Inductive, <1>1, PTL

\* README: an unknown check result never implies recovery.
THEOREM OnlyMeasuredKeysRecover == Spec => RecoversOnlyWhatWasMeasured
<1>1. IInv /\ [Next]_vars => [DropsAreMeasured]_vars
  <2> SUFFICES ASSUME IInv, Next PROVE DropsAreMeasured
    OBVIOUS
  <2> USE DEF DropsAreMeasured
  <2>1. ASSUME NEW readable \in BOOLEAN, Open(readable)
        PROVE  DropsAreMeasured
    BY <2>1 DEF Open, IInv, UnsavedIsMarked, QueuesMatchRecords, TypeOK
  <2>2. ASSUME NEW s \in Scopes, NEW conditions \in SUBSET Keys,
               NEW complete \in BOOLEAN, Begin(s, conditions, complete)
        PROVE  DropsAreMeasured
    BY <2>2 DEF Begin
  <2>3. ASSUME NEW acked \in BOOLEAN, NEW accepted \in BOOLEAN,
               SendAlert(acked, accepted)
        PROVE  DropsAreMeasured
    BY <2>3 DEF SendAlert
  <2>4. ASSUME NEW acked \in BOOLEAN, NEW accepted \in BOOLEAN,
               SendRecovery(acked, accepted)
        PROVE  DropsAreMeasured
    BY <2>4, NextGroupIsPartOfTheQueue
       DEF SendRecovery, Removed, IInv, TypeOK, QueuesMatchRecords
  <2>5. ASSUME NEW ok \in BOOLEAN, NEW replaced \in BOOLEAN, Return(ok, replaced)
        PROVE  DropsAreMeasured
    BY <2>5 DEF Return
  <2>6. CASE HealthReportSave
    BY <2>6 DEF HealthReportSave, processVars
  <2>7. CASE Stop
    BY <2>7 DEF Stop
  <2>. QED
    BY <2>1, <2>2, <2>3, <2>4, <2>5, <2>6, <2>7 DEF Next, Reconcile
<1>. QED
  BY Inductive, <1>1, PTL DEF Spec, RecoversOnlyWhatWasMeasured

-----------------------------------------------------------------------------
(* Refinement of AlertLifecycle, key by key. *)

\* The initial states of one key.
LEMMA LifecycleInit ==
    ASSUME Init, NEW k \in Keys
    PROVE  Lifecycle(k)!Init
BY DEF Init, Lifecycle!Init, Believed

\* Every step is, for one key, a step of its life cycle or a stutter.
LEMMA LifecycleStep ==
    ASSUME IInv, [Next]_vars, NEW k \in Keys
    PROVE  [Lifecycle(k)!Next]_(Lifecycle(k)!vars)
<1> USE DEF IInv, Believed, Lifecycle!vars
<1>1. ASSUME NEW readable \in BOOLEAN, Open(readable)
      PROVE  Lifecycle(k)!Start(readable)
  BY <1>1 DEF Open, Loaded, Lifecycle!Start
<1>2. ASSUME NEW s \in Scopes, NEW conditions \in SUBSET Keys,
             NEW complete \in BOOLEAN, Begin(s, conditions, complete)
      PROVE  Lifecycle(k)!EndUnreported \/ UNCHANGED Lifecycle(k)!vars
  BY <1>2 DEF Begin, Lifecycle!EndUnreported
<1>3. ASSUME NEW acked \in BOOLEAN, NEW accepted \in BOOLEAN, SendAlert(acked, accepted)
      PROVE  \/ Lifecycle(k)!Raise
             \/ Lifecycle(k)!LoseSight
             \/ UNCHANGED Lifecycle(k)!vars
  BY <1>3, NextGroupIsPartOfTheQueue
     DEF SendAlert, Activated, Doubt, QueuesMatchRecords,
         LedgerAgreesWithRecipient, Lifecycle!Raise, Lifecycle!LoseSight
<1>4. ASSUME NEW acked \in BOOLEAN, NEW accepted \in BOOLEAN, SendRecovery(acked, accepted)
      PROVE  \/ Lifecycle(k)!Clear
             \/ Lifecycle(k)!LoseSight
             \/ UNCHANGED Lifecycle(k)!vars
  BY <1>4, NextGroupIsPartOfTheQueue
     DEF SendRecovery, Removed, Doubt, QueuesMatchRecords,
         LedgerAgreesWithRecipient, Lifecycle!Clear, Lifecycle!LoseSight
<1>5. ASSUME NEW ok \in BOOLEAN, NEW replaced \in BOOLEAN, Return(ok, replaced)
      PROVE  Lifecycle(k)!Save \/ UNCHANGED Lifecycle(k)!vars
  BY <1>5 DEF Return, Lifecycle!Save
<1>6. ASSUME HealthReportSave
      PROVE  Lifecycle(k)!Save
  BY <1>6 DEF HealthReportSave, processVars, Lifecycle!Save
<1>7. ASSUME Stop
      PROVE  Lifecycle(k)!Stop
  BY <1>7 DEF Stop, Lifecycle!Stop
<1>8. ASSUME UNCHANGED vars
      PROVE  UNCHANGED Lifecycle(k)!vars
  BY <1>8 DEF vars, processVars, observerVars
<1>. QED
  BY <1>1, <1>2, <1>3, <1>4, <1>5, <1>6, <1>7, <1>8
     DEF Next, Reconcile, Lifecycle!Next

\* For the recipient of any one key's messages the alerter is AlertLifecycle.
THEOREM ImplementsLifecycle == Spec => EachKeyFollowsItsLifecycle
<1>1. Init => \A k \in Keys : Lifecycle(k)!Init
  BY LifecycleInit
<1>2. IInv /\ [Next]_vars
      => [\A k \in Keys : [Lifecycle(k)!Next]_(Lifecycle(k)!vars)]_vars
  BY LifecycleStep
<1>. QED
  BY Inductive, <1>1, <1>2, PTL DEF Spec, EachKeyFollowsItsLifecycle

=============================================================================
