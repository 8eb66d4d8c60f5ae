------------------------------- MODULE Monitor -------------------------------
(***************************************************************************)
(* The process of cmd/cpa-monitor as far as internal/app and               *)
(* internal/monitor drive it: Run and its two modes, the daemon loop with  *)
(* its ticker, and RunOnce, which measures and reconciles the five scopes  *)
(* in a fixed order and then may report that the server is healthy.        *)
(*                                                                         *)
(* The signal context can be cancelled between any two steps, so a step is *)
(* what happens between two looks at it.  Alerter and HealthReport model   *)
(* what Reconcile and ReportHealthy do; here they return an error or not.  *)
(***************************************************************************)
EXTENDS Naturals, Sequences

CONSTANTS
    LogFileModes,  \* values of logging.file.enabled
    Levels         \* values of logging.level

Severity == [info |-> 1, warn |-> 2, error |-> 3]

ASSUME MonitorAssumption ==
    /\ LogFileModes \subseteq BOOLEAN
    /\ Levels \subseteq DOMAIN Severity

VARIABLES
    \* configuration and arguments
    fileLog, level, mode,
    degraded,     \* Runtime.InitialError: Open did not read the state file
    \* the process
    pc,           \* "start", "cycle", "returned", "loop", "exited", "panicked"
    ctxDone,      \* the signal context is cancelled
    tick,         \* a tick is in the ticker's channel, which holds one
    at, stage,    \* RunOnce: the scope it is at, and before which of its calls
    runErrors,    \* RunOnce: len(runErrors) > 0
    serverErrors, \* RunOnce: serverRunErrorCount > 0
    measured,     \* RunOnce: the batches of this cycle
    returned,     \* what RunOnce returned: "nil", "error" or "canceled"
    exitCode,
    \* observers
    reconciled,   \* the scopes of this cycle that Reconcile was called for
    failed,       \* those for which it returned an error
    reported,     \* ReportHealthy was called in this cycle
    late          \* calls the cycle made after the context was cancelled

configVars == <<fileLog, level, mode, degraded>>
cycleVars == <<at, stage, runErrors, serverErrors, measured,
               reconciled, failed, reported>>
vars == <<configVars, pc, ctxDone, tick, cycleVars, returned, exitCode, late>>

Order == <<"health", "memory", "disk", "network", "auth">>
Scopes == {Order[i] : i \in 1..5}
ServerScopes == Scopes \ {"auth"}

\* A measured batch: complete and empty, complete with conditions, or incomplete
\* with an error.  A failed health check is a condition, not an error.
Outcomes(s) == {"ok", "unhealthy"} \cup (IF s = "health" THEN {} ELSE {"incomplete"})
NotMeasured == [s \in Scopes |-> "none"]

\* A log record of this severity ends the process: buildRuntime passes its
\* *logfile.Writer to NewLogger as an io.Writer, so without file logging the
\* fan-out holds a nil *Writer, whose Write locks a mutex at address nil.
Panics(severity) == ~fileLog /\ Severity[severity] >= Severity[level]

\* RunOnce gives up after a call, whose result may have been an error.
GivesUp_OnError(err) == ctxDone \/ err
GivesUp_Never(err) == FALSE
GivesUp(err) == ctxDone

NextScope_SkipsOne(i) == i + 2
NextScope(i) == i + 1

\* The condition for a health report.
Eligible_NoErrorAtAll(batches) ==
    ~runErrors /\ \A s \in ServerScopes : batches[s] = "ok"
Eligible(batches) ==
    ~serverErrors /\ \A s \in ServerScopes : batches[s] = "ok"

\* What the daemon does after a cycle.
AfterCycle_EndsOnError(result) == IF result = "error" THEN "exited" ELSE "loop"
AfterCycle(result) == "loop"

MayStop_BetweenTicks == ctxDone /\ ~tick
MayStop == ctxDone

\* The exit code of a one-shot run.
OneShotCode_IgnoresState(result) == IF result = "nil" THEN 0 ELSE 1
OneShotCode(result) == IF result = "nil" /\ ~degraded THEN 0 ELSE 1

-----------------------------------------------------------------------------

Init ==
    /\ fileLog \in LogFileModes /\ level \in Levels
    /\ mode \in {"once", "daemon"} /\ degraded \in BOOLEAN
    /\ pc = "start" /\ ctxDone = FALSE /\ tick = FALSE
    /\ at = 1 /\ stage = "measure"
    /\ runErrors = FALSE /\ serverErrors = FALSE
    /\ measured = NotMeasured
    /\ reconciled = <<>> /\ failed = {} /\ reported = FALSE
    /\ returned = "nil" /\ exitCode = 0 /\ late = 0

\* SIGINT or SIGTERM.
Cancel ==
    /\ ~ctxDone
    /\ ctxDone' = TRUE
    /\ UNCHANGED <<configVars, pc, tick, cycleVars, returned, exitCode, late>>

\* The ticker exists from before the first cycle; a tick that finds the channel
\* full is dropped.
TickerFires ==
    /\ mode = "daemon" /\ pc \in {"cycle", "returned", "loop"}
    /\ ~tick
    /\ tick' = TRUE
    /\ UNCHANGED <<configVars, pc, ctxDone, cycleVars, returned, exitCode, late>>

Panic(severity) ==
    /\ Panics(severity)
    /\ pc' = "panicked"
    /\ UNCHANGED <<configVars, ctxDone, tick, cycleVars, returned, exitCode>>

\* The locals of RunOnce end with it.
ForgetCycle ==
    /\ at' = 1 /\ stage' = "measure"
    /\ runErrors' = FALSE /\ serverErrors' = FALSE
    /\ measured' = NotMeasured
    /\ reconciled' = <<>> /\ failed' = {} /\ reported' = FALSE

Return(result) ==
    /\ pc' = "returned" /\ returned' = result

Exit(code) ==
    /\ pc' = "exited" /\ exitCode' = code

\* Run with a built runtime, up to the first RunOnce.
Start ==
    /\ pc = "start"
    /\ UNCHANGED <<configVars, ctxDone, tick, late>>
    /\ \/ degraded /\ Panic("error")
       \/ /\ ~(degraded /\ Panics("error"))
          /\ UNCHANGED <<exitCode, cycleVars>>
          /\ IF ctxDone
             THEN IF mode = "once"
                  THEN Return("canceled")
                  ELSE pc' = "loop" /\ UNCHANGED returned
             ELSE pc' = "cycle" /\ UNCHANGED returned

\* One check's call, the look at the context after it, and the batch.  The log
\* record of a failed check precedes its Reconcile.
Measure(outcome) ==
    LET s == Order[at]
        severity == IF s = "health" THEN "warn" ELSE "error"
        logs == IF s = "health" THEN outcome # "ok" ELSE outcome = "incomplete"
    IN  /\ pc = "cycle" /\ stage = "measure" /\ at <= Len(Order)
        /\ outcome \in Outcomes(s)
        /\ late' = IF ctxDone THEN late + 1 ELSE late
        /\ UNCHANGED <<configVars, ctxDone, tick, exitCode>>
        /\ \/ GivesUp(outcome # "ok") /\ Return("canceled") /\ UNCHANGED cycleVars
           \/ ~GivesUp(outcome # "ok") /\ logs /\ Panic(severity)
           \/ /\ ~GivesUp(outcome # "ok") /\ ~(logs /\ Panics(severity))
              /\ stage' = "reconcile"
              /\ measured' = [measured EXCEPT ![s] = outcome]
              /\ runErrors' = (runErrors \/ outcome = "incomplete")
              /\ UNCHANGED <<pc, at, serverErrors, returned, reconciled, failed,
                             reported>>

\* Reconcile of the batch.  It returns at once under a cancelled context, and
\* delivery warns of a fallback or a rate limit.
Reconcile(err, warns) ==
    /\ pc = "cycle" /\ stage = "reconcile"
    /\ ctxDone => err /\ ~warns
    /\ late' = IF ctxDone THEN late + 1 ELSE late
    /\ UNCHANGED <<configVars, ctxDone, tick, exitCode>>
    /\ \/ warns /\ Panic("warn")
       \/ /\ ~(warns /\ Panics("warn"))
          /\ stage' = "check"
          /\ runErrors' = (runErrors \/ err)
          /\ reconciled' = Append(reconciled, Order[at])
          /\ failed' = IF err THEN failed \cup {Order[at]} ELSE failed
          /\ UNCHANGED <<pc, at, serverErrors, measured, reported, returned>>

\* The log record of a Reconcile that failed, and the look at the context.
Proceed ==
    LET err == Order[at] \in failed
    IN  /\ pc = "cycle" /\ stage = "check"
        /\ UNCHANGED <<configVars, ctxDone, tick, exitCode, late>>
        /\ \/ err /\ ~ctxDone /\ Panic("error")
           \/ /\ ~(err /\ ~ctxDone /\ Panics("error"))
              /\ IF GivesUp(err)
                 THEN Return("canceled") /\ UNCHANGED cycleVars
                 ELSE /\ at' = NextScope(at) /\ stage' = "measure"
                      /\ serverErrors' = IF at <= 4 THEN runErrors ELSE serverErrors
                      /\ UNCHANGED <<pc, returned, runErrors, measured,
                                     reconciled, failed, reported>>

\* The end of RunOnce.  ReportHealthy logs what it could not find out, that it
\* sent a report, or nothing when none is due; its error is logged here.
FinishCycle(err, logged) ==
    /\ pc = "cycle" /\ at > Len(Order)
    /\ err => logged = "error"
    /\ UNCHANGED <<configVars, ctxDone, tick, exitCode>>
    /\ IF Eligible(measured)
       THEN /\ late' = IF ctxDone THEN late + 1 ELSE late
            /\ \/ logged # "nothing" /\ Panic(logged)
               \/ /\ ~(logged # "nothing" /\ Panics(logged))
                  /\ Return(IF runErrors \/ err THEN "error" ELSE "nil")
                  /\ runErrors' = (runErrors \/ err)
                  /\ reported' = TRUE
                  /\ UNCHANGED <<at, stage, serverErrors, measured, reconciled, failed>>
       ELSE /\ Return(IF runErrors THEN "error" ELSE "nil")
            /\ UNCHANGED <<cycleVars, late>>

\* runCycle after RunOnce: an error that is not the cancellation is logged.
DaemonCycleReturns ==
    /\ pc = "returned" /\ mode = "daemon"
    /\ UNCHANGED <<configVars, ctxDone, tick, exitCode, late>>
    /\ \/ returned = "error" /\ Panic("error")
       \/ /\ ~(returned = "error" /\ Panics("error"))
          /\ pc' = AfterCycle(returned)
          /\ ForgetCycle
          /\ returned' = "nil"

\* The daemon's select, with the second look at the context.
TakeTick ==
    /\ pc = "loop" /\ tick /\ ~ctxDone
    /\ tick' = FALSE
    /\ pc' = "cycle"
    /\ UNCHANGED <<configVars, ctxDone, cycleVars, returned, exitCode, late>>

DaemonStops(closeErr) ==
    /\ pc = "loop" /\ MayStop
    /\ Exit(IF closeErr THEN 1 ELSE 0)
    /\ UNCHANGED <<configVars, ctxDone, tick, cycleVars, returned, late>>

OneShotEnds(closeErr) ==
    /\ pc = "returned" /\ mode = "once"
    /\ UNCHANGED <<configVars, ctxDone, tick, cycleVars, returned, late>>
    /\ \/ OneShotCode(returned) # 0 /\ Panic("error")
       \/ /\ ~(OneShotCode(returned) # 0 /\ Panics("error"))
          /\ Exit(IF closeErr THEN 1 ELSE OneShotCode(returned))

Step ==
    \/ Start
    \/ \E outcome \in {"ok", "unhealthy", "incomplete"} : Measure(outcome)
    \/ \E err, warns \in BOOLEAN : Reconcile(err, warns)
    \/ Proceed
    \/ \E err \in BOOLEAN, logged \in DOMAIN Severity \cup {"nothing"} :
          FinishCycle(err, logged)
    \/ DaemonCycleReturns
    \/ TakeTick
    \/ \E closeErr \in BOOLEAN : DaemonStops(closeErr) \/ OneShotEnds(closeErr)

Next == Cancel \/ TickerFires \/ Step

Spec == Init /\ [][Next]_vars

\* Every call a step makes has a timeout or reads local files, and the timer
\* fires.  Nobody has to cancel.
FairSpec == Spec /\ WF_vars(Step) /\ WF_vars(TickerFires)

-----------------------------------------------------------------------------
(* Safety *)

TypeOK ==
    /\ fileLog \in BOOLEAN /\ level \in DOMAIN Severity
    /\ mode \in {"once", "daemon"} /\ degraded \in BOOLEAN
    /\ pc \in {"start", "cycle", "returned", "loop", "exited", "panicked"}
    /\ ctxDone \in BOOLEAN /\ tick \in BOOLEAN
    /\ at \in 1..6 /\ stage \in {"measure", "reconcile", "check"}
    /\ runErrors \in BOOLEAN /\ serverErrors \in BOOLEAN /\ reported \in BOOLEAN
    /\ \A s \in Scopes : measured[s] \in Outcomes(s) \cup {"none"}
    /\ returned \in {"nil", "error", "canceled"} /\ exitCode \in {0, 1}
    /\ failed \subseteq Scopes
    /\ late \in Nat

\* RunOnce came to its end: nobody cancelled it.
Returned == pc = "returned" /\ ~ctxDone

\* runner.go: "A scope failure is reconciled as incomplete and does not block
\* later scopes": whatever failed, RunOnce reconciles every scope once, in order;
\* and README "Account conditions, account-check failures, and account-alert
\* delivery failures never block this report", while nothing else lets it pass.
CycleIsComplete ==
    Returned =>
        /\ reconciled = Order
        /\ reported <=> \A s \in ServerScopes : measured[s] = "ok" /\ s \notin failed

\* runner.go: "Outer context cancellation is terminal and never becomes a
\* health-down condition": of all the calls of a cycle at most the one that is
\* next when the cancellation arrives still happens, so no check that failed
\* because of it reaches a Reconcile.
CancellationIsTerminal == late <= 1

\* loop.go: "Per-cycle errors are logged and do not terminate the daemon", whatever
\* the configuration, for a daemon that could read its state file and so reached
\* its first cycle.
ErrorsDoNotTerminateTheDaemon ==
    mode = "daemon" /\ ~degraded /\ pc \in {"exited", "panicked"} => ctxDone

\* README: "Collector, Management API, notification delivery, state, or other
\* monitor execution errors produce a non-zero exit" of a one-shot run.
OneShotReportsFailures ==
    mode = "once" /\ pc = "exited" /\ exitCode = 0 =>
        /\ ~degraded
        /\ reconciled = Order
        /\ \A s \in Scopes : measured[s] # "incomplete" /\ s \notin failed

-----------------------------------------------------------------------------
(* Liveness *)

\* A daemon with a log file that nobody cancels starts cycle after cycle,
\* whatever fails.
CyclesKeepComing ==
    []<>(mode = "daemon" /\ fileLog => ctxDone \/ (pc = "cycle" /\ at = 1))

\* A cancelled process ends.
CancellationEndsTheProcess == ctxDone ~> pc \in {"exited", "panicked"}

=============================================================================
