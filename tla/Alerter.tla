------------------------------- MODULE Alerter -------------------------------
(***************************************************************************)
(* The alert manager of internal/alerter and the state file it writes      *)
(* through.  Reconcile takes one batch of rule conditions for one scope,   *)
(* sends what is new, sends (or silently drops) what a complete batch no   *)
(* longer holds, changes the active records only after the corresponding   *)
(* send succeeded, and saves once at the end.                              *)
(*                                                                         *)
(* A step is one SendBatch with the record changes that follow it, or one  *)
(* Save, because those are the points between which the process can die:   *)
(* the mutex of Manager keeps everything else of Reconcile in one piece.   *)
(* A batch that validate or ctx.Err rejects changes nothing, so it is a    *)
(* stuttering step and has no action.                                      *)
(***************************************************************************)
EXTENDS Naturals

CONSTANTS
    Keys,          \* condition keys, as ranks in the order Reconcile sorts by
    Scopes,        \* rule scopes
    AuthScope,     \* the scope whose events are delivered one per message
    ScopeOf,       \* the scope of each key
    RecoveryModes  \* the values alerts.send_recovery may have at a start

ASSUME AlerterAssumption ==
    /\ Keys \subseteq Nat
    /\ AuthScope \in Scopes
    /\ ScopeOf \in [Keys -> Scopes]
    /\ RecoveryModes \subseteq BOOLEAN

VARIABLES
    \* the process
    pc,             \* "down", "idle" or "busy": inside Reconcile
    sendRecovery,   \* Manager.sendRecovery
    records,        \* the keys of File.records
    dirty,          \* Manager.dirty
    batch,          \* Reconcile's argument
    newConditions,  \* keys Reconcile still has to alert
    recovered,      \* keys Reconcile still has to recover
    mutated,        \* Reconcile's local of that name
    \* the state file on disk
    disk,           \* the keys of its "active" list
    \* observers: what has happened, read by no action's guard
    degraded,       \* the last Open failed and no Save has replaced the file
    outstanding,    \* keys whose alert the recipient got, with no end since
    inDoubt         \* keys with a delivery whose outcome the process lost

processVars == <<pc, sendRecovery, records, dirty, batch,
                 newConditions, recovered, mutated>>
observerVars == <<degraded, outstanding, inDoubt>>
vars == <<processVars, disk, observerVars>>

Batches == [scope : Scopes, conditions : SUBSET Keys, complete : BOOLEAN]
NoBatch == [scope |-> AuthScope, conditions |-> {}, complete |-> FALSE]

ByScope(s) == {k \in records : ScopeOf[k] = s}

\* The next message of a delivery: the first key alone in the auth scope,
\* everything that is left in any other scope.
NextGroup(keys) ==
    IF batch.scope = AuthScope
    THEN {k \in keys : \A j \in keys : k <= j}
    ELSE keys

\* Unhealthy and not yet active.
NotActive_Unfiltered(s, conditions) == conditions
NotActive(s, conditions) == conditions \ ByScope(s)

\* Active and no longer unhealthy; nothing can be said from an incomplete batch.
Gone_AllScopes(s, conditions, complete) ==
    IF complete THEN records \ conditions ELSE {}
Gone_IgnoresComplete(s, conditions, complete) == ByScope(s) \ conditions
Gone(s, conditions, complete) ==
    IF complete THEN ByScope(s) \ conditions ELSE {}

\* The records Put after SendBatch, and those deleted after it.
Activated_Anyway(group, acked) == group
Activated_OnError(group, acked) == IF acked THEN {} ELSE group
Activated(group, acked) == IF acked THEN group ELSE {}

Removed_Never(group, delivered) == {}
Removed(group, delivered) == IF delivered THEN group ELSE {}

\* The records a new process starts with.
Loaded_Never(readable) == {}
Loaded(readable) == IF readable THEN disk ELSE {}

\* Manager.dirty after a Save.
DirtyAfterSave_Cleared(ok) == FALSE
DirtyAfterSave(ok) == ~ok

\* Observer: what is in doubt after a message about group.
Doubt(group, acked, accepted) ==
    IF acked THEN inDoubt \ group
    ELSE IF accepted THEN inDoubt \cup group ELSE inDoubt

-----------------------------------------------------------------------------

\* A first start: no state file yet.
Init ==
    /\ pc = "down"
    /\ sendRecovery \in RecoveryModes
    /\ records = {} /\ dirty = FALSE /\ disk = {}
    /\ batch = NoBatch /\ newConditions = {} /\ recovered = {}
    /\ mutated = FALSE
    /\ degraded = FALSE /\ outstanding = {} /\ inDoubt = {}

\* state.Open and NewManager.  An unreadable file leaves an empty, usable
\* store; the recipient may have heard of every key that file held.
Open(readable) ==
    /\ pc = "down"
    /\ pc' = "idle"
    /\ sendRecovery' \in RecoveryModes
    /\ records' = Loaded(readable)
    /\ degraded' = ~readable
    /\ inDoubt' = IF readable THEN inDoubt ELSE inDoubt \cup disk
    /\ UNCHANGED <<dirty, batch, newConditions, recovered, mutated,
                   disk, outstanding>>

\* Reconcile up to the first send.  A complete batch that lacks a key the
\* manager never recorded ends that occurrence for the observer.
Begin(s, conditions, complete) ==
    /\ pc = "idle"
    /\ \A k \in conditions : ScopeOf[k] = s
    /\ pc' = "busy"
    /\ batch' = [scope |-> s, conditions |-> conditions, complete |-> complete]
    /\ newConditions' = NotActive(s, conditions)
    /\ recovered' = Gone(s, conditions, complete)
    /\ LET ended == {k \in Keys : /\ complete
                                  /\ ScopeOf[k] = s
                                  /\ k \notin conditions \cup records}
       IN  /\ outstanding' = outstanding \ ended
           /\ inDoubt' = inDoubt \ ended
    /\ UNCHANGED <<sendRecovery, records, dirty, mutated, disk, degraded>>

\* SendBatch of one alert message, and Put for each of its keys if it returned
\* nil.  The recipient may have accepted a message whose SendBatch returned an
\* error: a QUIT that fails after the accepted DATA, a response that cannot be
\* read.
SendAlert(acked, accepted) ==
    /\ pc = "busy" /\ newConditions # {}
    /\ acked => accepted
    /\ LET group == NextGroup(newConditions)
       IN  /\ newConditions' = newConditions \ group
           /\ records' = records \cup Activated(group, acked)
           /\ mutated' = (mutated \/ Activated(group, acked) # {})
           /\ outstanding' = IF accepted THEN outstanding \cup group ELSE outstanding
           /\ inDoubt' = Doubt(group, acked, accepted)
    /\ UNCHANGED <<pc, sendRecovery, dirty, batch, recovered, disk, degraded>>

\* One recovery group, after all alerts: SendBatch if alerts.send_recovery asks
\* for it, and Delete for each key if that returned nil or was not needed.
SendRecovery(acked, accepted) ==
    /\ pc = "busy" /\ newConditions = {} /\ recovered # {}
    /\ acked => accepted
    /\ ~sendRecovery => acked
    /\ LET group == NextGroup(recovered)
       IN  /\ recovered' = recovered \ group
           /\ records' = records \ Removed(group, acked)
           /\ mutated' = (mutated \/ Removed(group, acked) # {})
           /\ outstanding' = IF accepted THEN outstanding \ group ELSE outstanding
           /\ inDoubt' = Doubt(group, acked, accepted)
    /\ UNCHANGED <<pc, sendRecovery, dirty, batch, newConditions, disk, degraded>>

\* Everything is sent: Reconcile returns, after its one Save if anything is
\* unsaved.  atomicWrite can also fail after its rename, when the new content
\* is already in place (replaced).
Return(ok, replaced) ==
    /\ pc = "busy" /\ newConditions = {} /\ recovered = {}
    /\ ok => replaced
    /\ IF dirty \/ mutated
       THEN /\ dirty' = DirtyAfterSave(ok)
            /\ disk' = IF replaced THEN records ELSE disk
            /\ degraded' = (degraded /\ ~replaced)
       ELSE UNCHANGED <<dirty, disk, degraded>>
    /\ pc' = "idle" /\ batch' = NoBatch /\ mutated' = FALSE
    /\ UNCHANGED <<sendRecovery, records, newConditions, recovered,
                   outstanding, inDoubt>>

\* The health-report manager saves the same store, records included, and
\* knows nothing of Manager.dirty.  A Save of it that leaves the old file in
\* place changes nothing here.
HealthReportSave ==
    /\ pc = "idle"
    /\ disk' = records
    /\ degraded' = FALSE
    /\ UNCHANGED <<processVars, outstanding, inDoubt>>

\* The process ends: killed, crashed, or a one-shot run that is over.  The
\* memory is lost; what it held and the file does not, or the reverse, the
\* next process will get wrong.
Stop ==
    /\ pc # "down"
    /\ pc' = "down"
    /\ records' = {} /\ dirty' = FALSE
    /\ batch' = NoBatch /\ newConditions' = {} /\ recovered' = {}
    /\ mutated' = FALSE
    /\ degraded' = FALSE
    /\ inDoubt' = inDoubt \cup (records \ disk) \cup (disk \ records)
    /\ UNCHANGED <<sendRecovery, disk, outstanding>>

Reconcile ==
    \E a, b \in BOOLEAN : SendAlert(a, b) \/ SendRecovery(a, b) \/ Return(a, b)

Next ==
    \/ \E readable \in BOOLEAN : Open(readable)
    \/ \E s \in Scopes, conditions \in SUBSET Keys, complete \in BOOLEAN :
          Begin(s, conditions, complete)
    \/ Reconcile
    \/ HealthReportSave
    \/ Stop

Spec == Init /\ [][Next]_vars

-----------------------------------------------------------------------------
(* Safety *)

TypeOK ==
    /\ pc \in {"down", "idle", "busy"}
    /\ sendRecovery \in BOOLEAN
    /\ records \subseteq Keys /\ disk \subseteq Keys
    /\ dirty \in BOOLEAN /\ mutated \in BOOLEAN /\ degraded \in BOOLEAN
    /\ batch \in Batches
    /\ newConditions \cup recovered \subseteq {k \in Keys : ScopeOf[k] = batch.scope}
    /\ outstanding \subseteq Keys /\ inDoubt \subseteq Keys

\* What the process takes for reported is what the recipient was told, for
\* every key but those whose last delivery it lost sight of.  A down process
\* is represented by the file the next one will read.
Believed == IF pc = "down" THEN disk ELSE records

LedgerAgreesWithRecipient ==
    \A k \in Keys \ inDoubt : k \in Believed <=> k \in outstanding

\* README "The same key is suppressed until it recovers": a Reconcile has an
\* alert to send only for a key with no alert outstanding, and a recovery
\* only for one with an alert outstanding; lost outcomes are the exception.
SendsOnlyNews ==
    /\ newConditions \cap outstanding \subseteq inDoubt
    /\ recovered \subseteq outstanding \cup inDoubt

\* manager.go's comment on Reconcile: a failed Save stays dirty.  So a clean
\* manager between two batches has lost nothing if the process ends now.
CleanIsDurable ==
    pc = "idle" /\ ~dirty /\ ~degraded => disk = records

\* README "An unknown check result never implies recovery": a record goes
\* only while the process runs on a complete batch of its scope that lacks it.
DropsAreMeasured ==
    \A k \in records \ records' :
        \/ pc' = "down"
        \/ batch.complete /\ batch.scope = ScopeOf[k] /\ k \notin batch.conditions

RecoversOnlyWhatWasMeasured == [][DropsAreMeasured]_vars

-----------------------------------------------------------------------------
(* Refinement: every key goes through the life cycle of AlertLifecycle. *)

Lifecycle(k) == INSTANCE AlertLifecycle WITH
    up <- pc # "down",
    active <- k \in Believed,
    saved <- k \in disk,
    outstanding <- k \in outstanding,
    inDoubt <- k \in inDoubt

\* Grouping, partial failure, the dirty flag and the order of sends and saves
\* add nothing to what the recipient of one key's messages can see.  (This is
\* \A k \in Keys : Lifecycle(k)!Spec with the quantifier moved inside the box,
\* the form TLC can check.)
EachKeyFollowsItsLifecycle ==
    /\ \A k \in Keys : Lifecycle(k)!Init
    /\ [][\A k \in Keys : [Lifecycle(k)!Next]_(Lifecycle(k)!vars)]_vars

-----------------------------------------------------------------------------
(***************************************************************************)
(* Liveness.  systemd starts a dead service again (install.sh writes       *)
(* Restart=on-failure); the runner gives every scope a batch in each cycle *)
(* and a cycle's calls all return (every one has a timeout).  The rest is  *)
(* an assumption on the environment: a message or a write that is tried    *)
(* again and again succeeds at some point.                                 *)
(***************************************************************************)

Fairness ==
    /\ WF_vars(\E readable \in BOOLEAN : Open(readable))
    /\ \A s \in Scopes :
          SF_vars(\E conditions \in SUBSET Keys, complete \in BOOLEAN :
                     Begin(s, conditions, complete))
    /\ WF_vars(Reconcile)
    /\ \A k \in Keys :
          /\ SF_vars(SendAlert(TRUE, TRUE) /\ k \in newConditions \ newConditions')
          /\ SF_vars(SendRecovery(TRUE, TRUE) /\ k \in recovered \ recovered')
    /\ SF_vars(Return(TRUE, TRUE))

FairSpec == Spec /\ Fairness

BatchOf(k) == pc = "busy" /\ batch.scope = ScopeOf[k]

\* README "If an alert send fails, its key is not activated and the next cycle
\* retries": a condition that every batch of its scope holds, complete or not,
\* is reported, whatever else comes and goes, and after every restart.
PersistentConditionIsReported ==
    \A k \in Keys :
        <>[](BatchOf(k) => k \in batch.conditions) => []<>(k \in records)

\* README "if that send fails, the key remains active and the recovery is
\* retried": a condition that stays away ends, provided complete results keep
\* coming.
EndedConditionRecovers ==
    \A k \in Keys :
        /\ <>[](BatchOf(k) => k \notin batch.conditions)
        /\ []<>(BatchOf(k) /\ batch.complete)
        => []<>(k \notin Believed)

\* manager.go's comment on Reconcile: the failed Save is retried by the next
\* batch.  Once the process stays up, a lasting condition is on disk for good.
ReportedConditionIsSaved ==
    \A k \in Keys :
        /\ <>[](BatchOf(k) => k \in batch.conditions)
        /\ <>[](pc # "down")
        => <>[](k \in records \cap disk)

=============================================================================
