---------------------------- MODULE HealthReport ----------------------------
(***************************************************************************)
(* The health-report manager of internal/healthreport: when a healthy      *)
(* cycle may send a report, and what of that survives in the state file it *)
(* shares with the alerter.                                                *)
(*                                                                         *)
(* All its times are wall-clock times (now().UTC() drops Go's monotonic    *)
(* reading), so the clock may be set back or forward between any two       *)
(* steps.  A step ends where the process can die: after SendHealth, and    *)
(* after SetHealthReport with its Save.  No name is one of StateFile's, so *)
(* that a module can extend both.                                          *)
(***************************************************************************)
EXTENDS Naturals

CONSTANTS
    Interval,       \* health_report.interval
    RetryInterval,  \* health_report.retry_interval
    MaxTime         \* bound of the wall clock

ASSUME HealthReportAssumption ==
    /\ Interval \in Nat \ {0}
    /\ RetryInterval \in Nat \ {0}
    /\ MaxTime \in Nat \ {0}

VARIABLES
    clock,      \* the wall clock
    stage,      \* "down", "idle" or "sent": inside ReportHealthy, after SendHealth
    now,        \* ReportHealthy's local of that name
    sendErr,    \* ReportHealthy's local, whether it is not nil
    health,     \* File.health
    disk,       \* health_report in the state file
    \* observers: read by no action's guard
    tried,      \* when SendHealth was last called
    confirmed,  \* when SendHealth last returned nil
    lost        \* the process lost what it knew of those two, and no
                \* SendHealth has returned nil since

processVars == <<stage, now, sendErr, health>>
observerVars == <<tried, confirmed, lost>>
reportVars == <<clock, processVars, disk, observerVars>>

\* The zero time.Time.
Zero == 0
Times == 0..MaxTime
Schedule == [attempt : Times, sent : Times]
NoSchedule == [attempt |-> Zero, sent |-> Zero]

\* What both SetHealthReport and Open demand of a schedule.
validateHealthReportState(s) ==
    /\ s.sent # Zero => s.attempt # Zero
    /\ s.attempt # Zero => s.attempt >= s.sent

due_AlsoBefore(s, t) ==
    s.sent = Zero \/ t < s.sent \/ t >= s.sent + Interval
due_OnlyRetry(s, t) == s.attempt = Zero \/ t >= s.attempt + RetryInterval
due_OnlyInterval(s, t) == s.sent = Zero \/ t >= s.sent + Interval
due(s, t) ==
    IF s.sent = Zero
    THEN s.attempt = Zero \/ t >= s.attempt + RetryInterval
    ELSE /\ t >= s.sent + Interval
         /\ s.attempt > s.sent => t >= s.attempt + RetryInterval

\* The schedule ReportHealthy sets after SendHealth.
Current_NextAttempt(s, t, err) ==
    [attempt |-> t + RetryInterval, sent |-> IF err THEN s.sent ELSE t]
Current_AttemptOnly(s, t, err) == [s EXCEPT !.attempt = t]
Current(s, t, err) == [attempt |-> t, sent |-> IF err THEN s.sent ELSE t]

\* What SetHealthReport leaves in memory.
AfterSet(old, new) == IF validateHealthReportState(new) THEN new ELSE old

\* The schedule a new process starts with.
Loaded(readable) ==
    IF readable /\ validateHealthReportState(disk) THEN disk ELSE NoSchedule

-----------------------------------------------------------------------------

\* A first start: no state file yet.
ReportInit ==
    /\ clock \in 1..MaxTime
    /\ stage = "down"
    /\ now = Zero /\ sendErr = FALSE
    /\ health = NoSchedule /\ disk = NoSchedule
    /\ tried = Zero /\ confirmed = Zero /\ lost = FALSE

\* Time passes, or someone sets the clock.
Tick ==
    /\ clock < MaxTime
    /\ clock' = clock + 1
    /\ UNCHANGED <<processVars, disk, observerVars>>

SetClock ==
    /\ clock' \in 1..MaxTime
    /\ UNCHANGED <<processVars, disk, observerVars>>

\* state.Open, New.
New(readable) ==
    /\ stage = "down"
    /\ stage' = "idle"
    /\ health' = Loaded(readable)
    /\ lost' = (lost \/ health' # disk)
    /\ UNCHANGED <<clock, now, sendErr, disk, tried, confirmed>>

\* ReportHealthy of a healthy cycle up to SendHealth's return.  The quota and
\* version queries before it only fill in the report.
SendHealth(err) ==
    /\ stage = "idle"
    /\ due(health, clock)
    /\ stage' = "sent"
    /\ now' = clock /\ sendErr' = err
    /\ tried' = clock
    /\ confirmed' = IF err THEN confirmed ELSE clock
    /\ lost' = (lost /\ err)
    /\ UNCHANGED <<clock, health, disk>>

\* The rest of ReportHealthy.  A schedule SetHealthReport rejects is not saved.
\* A Save can fail after its rename, when the new content is already in place
\* (replaced).
Record(replaced) ==
    /\ stage = "sent"
    /\ stage' = "idle"
    /\ LET current == Current(health, now, sendErr)
       IN  /\ health' = AfterSet(health, current)
           /\ disk' = IF validateHealthReportState(current) /\ replaced
                      THEN health' ELSE disk
    /\ now' = Zero /\ sendErr' = FALSE
    /\ UNCHANGED <<clock, observerVars>>

\* The alerter saves the same store.
AlertSave ==
    /\ stage = "idle"
    /\ disk' = health
    /\ UNCHANGED <<clock, processVars, observerVars>>

\* What the process knows, or the next one will: the schedule in memory and
\* what ReportHealthy is about to put there, or the file.
Known ==
    CASE stage = "down" -> disk
      [] stage = "idle" -> health
      [] stage = "sent" -> Current(health, now, sendErr)

Stop ==
    /\ stage # "down"
    /\ stage' = "down"
    /\ now' = Zero /\ sendErr' = FALSE
    /\ health' = NoSchedule
    /\ lost' = (lost \/ disk # Known)
    /\ UNCHANGED <<clock, disk, tried, confirmed>>

ReportNext ==
    \/ Tick \/ SetClock
    \/ \E readable \in BOOLEAN : New(readable)
    \/ \E err \in BOOLEAN : SendHealth(err)
    \/ \E replaced \in BOOLEAN : Record(replaced)
    \/ AlertSave
    \/ Stop

ReportSpec == ReportInit /\ [][ReportNext]_reportVars

-----------------------------------------------------------------------------
(* Safety *)

ReportTypeOK ==
    /\ clock \in 1..MaxTime
    /\ stage \in {"down", "idle", "sent"}
    /\ sendErr \in BOOLEAN
    /\ now \in Times /\ (stage = "sent" => now # Zero)
    /\ health \in Schedule /\ disk \in Schedule
    /\ tried \in Times /\ confirmed \in Times /\ lost \in BOOLEAN

\* However the clock is set, ReportHealthy only ever computes a schedule that
\* SetHealthReport accepts, and saves one that the next Open accepts.  Open
\* answers an invalid one with an empty store, alert records included.
ScheduleIsAccepted ==
    /\ validateHealthReportState(Known)
    /\ validateHealthReportState(disk)

\* The schedule due works from is the history of SendHealth, unless a process
\* died, or started from an unreadable file, since its last success.
RemembersDeliveries ==
    ~lost => Known = [attempt |-> tried, sent |-> confirmed]

\* README "Later reports follow interval ... restarting the service does not
\* send a duplicate message": within the interval of a confirmed report no
\* other one is sent, unless a process lost it.
ReportsAreSpaced ==
    [][stage = "idle" /\ stage' = "sent" /\ ~lost
       => confirmed = Zero \/ clock >= confirmed + Interval]_reportVars

\* README "a failed delivery waits for retry_interval before retrying".
RetriesAreSpaced ==
    [][stage = "idle" /\ stage' = "sent" /\ ~lost /\ tried # confirmed
       => clock >= tried + RetryInterval]_reportVars

=============================================================================
