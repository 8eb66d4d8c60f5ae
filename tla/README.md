# cpa-monitor in TLA+

This directory holds a formal model of cpa-monitor, the Go daemon that watches a
CLIProxyAPI server and its host and tells an operator about it by mail and
DingTalk. The models are written from the code under `src/`; where a comment,
the README or the design document promises something, the promise is a property
and the code decides whether it holds.

- `*.tla` without prefix: one module per component, with its properties.
- `MC*.tla`, `MC*.cfg`: instances for TLC.
- `*Proofs.tla`: theorems for every value of the constants, checked by TLAPS.
- `PROJECT.json`: which definition stands for which lines, which run checks what,
  the hazards, the theorems and the findings.

To check one instance, `tlc -config MCAlerter.cfg MCAlerter`; to check the proofs
of a module, `tlapm AlerterProofs.tla`.

## The system

One process, started by systemd as a daemon or by a timer for one cycle. A cycle
measures five scopes one after the other, turns each measurement into a batch of
conditions, hands the batch to the alert manager, and, if the server is healthy,
lets the health-report manager send its scheduled report. Both managers share one
state file; both send through transports that may share one DingTalk client.

| component | source | state | operations | calls |
|---|---|---|---|---|
| app | `cmd/cpa-monitor`, `internal/app` | mode, exit code, signal context | `Run`, `buildRuntime` | everything, once |
| monitor | `internal/monitor` | the cycle in progress, the ticker | `RunOnce`, `RunDaemon`, `RunSingle` | collector, CLIProxyAPI client, rules, both managers |
| rules | `internal/rule` | none | `Health`, `Memory`, `Disks`, `TCP`, `Auth` | |
| alerter | `internal/alerter` | `dirty`; the records in the store | `NewManager`, `Reconcile` | router, state file |
| health report | `internal/healthreport` | the schedule in the store | `New`, `ReportHealthy` | a transport, state file, CLIProxyAPI client |
| state file | `internal/state` | records, schedule, two mutexes; the file | `Open`, `ByScope`, `Put`, `Delete`, `SetHealthReport`, `Save` | the file system |
| router | `internal/notification` | its two channels | `SendBatch` | transports |
| DingTalk client | `internal/dingtalk` | `blockedUntil` | `SendBatch`, `SendHealth` | HTTP |
| mailer | `internal/mailer` | none between sends | `SendBatch`, `SendHealth` | SMTP |
| log file | `internal/logfile` | the active file, the backups | `NewWriter`, `Write`, `Close` | the file system |
| collector | `internal/collector` | `statfs` calls in flight | `Memory`, `Disks`, `TCP` | `/proc`, `statfs` |
| CLIProxyAPI client | `internal/cliproxy` | none | `New`, `Health`, `AuthFiles`, `CodexQuota`, `VersionStatus` | HTTP |
| message rendering | `internal/*/message.go` | none | `validateHealthReport`, rendering | |
| configuration | `internal/config` | none | `LoadWithEnv`, `Validate` | |
| installer | `install.sh`, `bootstrap.sh` | directories, files, units; what is recorded of them | `install_assets`, `activate_mode`, `on_error` | systemd, `--check-config` |
| service tools | `scripts/` | none | diagnose, validate and start | systemd |

What is hard here, and hard to test:

- **Two ledgers that must agree.** What the recipient was told, the records in
  memory and the records on disk change at three different moments. Between them
  a process may die, a send may fail after it arrived, and a `Save` may fail or
  may return an error after the rename. *Correct* means: no condition is told twice,
  forgotten or ended without a measurement, except where an outcome was lost.
- **One file, two users.** A health report's `Save` persists alert records whose own
  `Save` failed, and an invalid schedule makes `Open` drop the alert records.
  *Correct* means: the schedule on disk is always acceptable, a promised save
  survives a power loss, and of two saves at once the older never wins.
- **A wall clock that can be set.** Schedule times lose their monotonic reading.
  *Correct* means: reports and retries are spaced as configured on the clock as it
  reads, and no setting of it produces a schedule the store rejects.
- **Cancellation anywhere.** A failed call may mean an outage or a shutdown.
  *Correct* means: a shutdown is never reconciled as an outage, and ends the process.
- **Errors that must not spread.** A failed scope must not stop later ones; account
  errors must not block the health report, server errors must.
- **A shared, silenced channel.** One rate-limit answer silences the robot for ten
  minutes. *Correct* means: the pause is kept and ends, and the fallback carries on.
- **Calls that cannot be cancelled.** A `statfs` may hang for ever, in a goroutine that
  outlives the cycle. *Correct* means: the cycle ends, at most one such goroutine per
  mount exists, and what it finally says is used once and frees the mount.
- **Rotation step by step.** A chain of renames may stop at any of them. *Correct*
  means: the limits hold and only the oldest bytes are lost.
- **Data of others.** Account indexes may be missing, shared or padded, counters negative,
  versions odd, durations beyond any clock. *Correct* means: an alert names one object,
  a recovery was measured, nothing unhealthy is silent, and no answer keeps an
  operator from being told.
- **A setting judged twice.** `Validate` and the constructors check the same settings in
  different words. *Correct* means: what `--check-config` accepts can be started.
- **An installation that fails half-way.** A dozen `systemctl` commands, a timer and a
  daemon that act by themselves. *Correct* means: after a failure everything is
  as before, after a success exactly the selected mode runs what was installed.

## The modules

Composition is by promise. `Alerter` and `HealthReport` take a `Save` and a send
each for one step; `StateFile` is shown to implement `AtomicStore`, and `Delivery`
to implement `Sender`, which say what such a step may do. `Monitor` takes
`Reconcile` and `ReportHealthy` for steps that return an error or not. `Cycle` makes
the same calls in the same order without cancellation, and computes from their data the
outcomes that `Monitor` leaves open; it has no ledger of what was lost, which
`Alerter` has. `Installer` decides by `Startup` whether a daemon accepts its
configuration and whether it can be built.

    Monitor  --- Reconcile -->  Alerter       ==> AlertLifecycle (one per key)
       |                          |    \
       |                          |     send --> Delivery  ==> Sender (one per caller)
       |                         Save   /
       |                          v    /
       |                        StateFile ==> AtomicStore
       |                          ^
       +--- ReportHealthy -->  HealthReport
       +--- log records -->    LogWriter
       +--- Disks -->          StatCalls

    Cycle  ---> Reports ---> Rules                 (operators on data)
       \------> Versions
    Installer ---> Startup                         (operators on a configuration)

(`==>`: implements, checked as a property and proved.)

### Alerter, AlertLifecycle

`internal/alerter/manager.go` with the records of `internal/state/file.go`. A step
is one `SendBatch` with the `Put`s or `Delete`s that follow it, or one `Save`: between
these the process can die, and `Manager`'s mutex keeps the rest together.
`Begin` is `Reconcile` up to its first send, `SendAlert` and `SendRecovery` a
message of the first and second loop, `Return` the end with its `Save`;
`HealthReportSave` is the other manager's `Save`, which writes these records too;
`Stop` is the death of the process in any state, `Open` its next start, from a
readable file or not. Keys are numbers in the order `Reconcile` sorts by; in the
auth scope a message has one key, elsewhere all of them (`NextGroup`).

`outstanding` is what the recipient believes and `inDoubt` the keys for which
the process cannot know: a send returned an error although it arrived, the process
died before the record was saved, or it started with an unreadable file.
`AlertLifecycle` is the life of one key: raised, ended, lost from sight. It
is what the manager promises the recipient, and every key is shown to follow it.

### StateFile, AtomicStore

`File.Save` with `saveMu` and `mu`, and each system call of `atomicWrite`. A file is the
version written and whether it was synced; `unsettled` holds the files a power
loss may leave under the name, which is how rename and fsync behave on a journaling
file system. A `Crash` of the process loses nothing of the files; `PowerLoss` picks
any unsettled file, torn if it was not synced. `AtomicStore` has a memory, a file,
and a promise, and one step per save.

### HealthReport

`due`, `ReportHealthy` and `SetHealthReport` on a wall clock that `SetClock` may put
anywhere. Its process is at a `stage` and starts with `New`, its specification is
`ReportSpec`: names of its own, because `StateFileProofs` extends both users of the file. `tried` and `confirmed` observe what really happened; `lost` says that a
process ended, or an unreadable file started one, with that history unsaved.

### Monitor

`Run`, both modes, the daemon loop and its one-place ticker channel, and `RunOnce` with
its five scopes: measure, look at the context, reconcile, look again. `late` counts
the calls made after the cancellation. `Panic` is what `buildRuntime` and
`NewLogger` do together when file logging is off; see the findings.

### Cycle, Rules, Reports, Versions

The data of a cycle. `Rules` has the five rules as operators from the facts of a scope
to its batch, with the decoding of an auth-files response before them; `Reports`
has the accounts of a snapshot, the conversion of a Codex quota, `addQuota` and what
`validateHealthReport` of either transport refuses; `Versions` has
`compareReleaseVersions` and, beside it, the order of Semantic Versioning. `Cycle` drives
them: `Measure` is a check with its rule, `Reconcile` renders and sends each group, any
of which may be lost, `BeginReport` to `SendHealth` are `ReportHealthy` when a report
is due, one account's quota per step. `eligible` is the condition for a report as it
stands, `refused` observes which messages could not be rendered.

Texts are names of the aspect that matters: `" a"` is an index with a space before it,
`"no index"` any JSON that is none, `"#"` the position an account without any other label
is called by. A condition keeps of its texts only the current
value. Integers wrap at `MaxInt`; the conversion of a duration that does not fit gives
what amd64 or arm64 give. Percentages are integers; NaN, which the collector never
returns, is not among them. Recoveries are always sent here; `Alerter` has the switch.
`UnhealthyObjects`, `Named` and `SawEverything` say what the facts mean without using
the rules: the properties compare the two.

### Startup, Installer

`Startup` is `LoadWithEnv` after its decoding, `Validate` with all it calls, each
constructor's demands, and `buildRuntime`; a text is the set of the kinds of its
characters, and sizes wrap as int64 does. `Installer` is `install.sh` from
the moment from which it can be rolled back: `PrepareDirectory`, `RecordTarget` and
`ReplaceFile` for every directory and file, `Activate` for the next `systemctl` command,
`Abort` for `on_error`, then `RollbackFile`, `RollbackDirectory`, `RestoreUnit`, each of which
may fail and is then noted (`incomplete`); `Kill` is a second signal. `Systemctl` says what a
command does to a host that goes on meanwhile: `DaemonDies`, `DaemonRestarts`,
`TimerFires`, `OnceEnds`. `runs` is what the daemon was started from, `loaded` the unit file
that systemd has read. A daemon that cannot be built is assumed to end within the second that
`wait_for_stable_active` waits, and its restart to come later (`RestartSec=5s`).
`config` is consulted before the first step and then dropped; `verdict` is what
remains of it.

### Delivery, Sender

A message on its way out, for any number of goroutines: `Router.SendBatch` with
the look at the context between primary and fallback, `Client.send` with its look
at `blockedUntil`, and the SMTP session with its answer to the data and its answer
to QUIT. The cooldown is kept as the time left, because the client compares
monotonic readings; `pauses` observes the pauses DingTalk has asked for, each counted
from the start of its request as the code's `now` is. `Sender` is the promise of one
call: nil only if the message was accepted; an error says nothing.

### LogWriter

`NewWriter` with `cleanupExisting`, `Write`, `rotate` and `enforceTotal`, each system
call a step that may fail and after which the process may die. Bytes are numbered
as written and a file is the set of its bytes, so that "what is kept is the end of
the log" is a statement about sets. `file` distinguishes a nil file, which ends every
later `Write` at once, from a dead one whose `Close` failed.

### StatCalls

`Disks` of `internal/collector/proc.go`, mount by mount: `Join` and `Start` are the two
ends of `statCall`, `StatFS` the goroutine, `Receive` and `GiveUp` the `select` of
`statFSForMount`, `FinishStatCall` the removal, which compares the call it holds with
the registered one. The program measures once at a time; the code is written for
any number of callers, and so is the model. `used` observes whose result was taken.
A joined result may be as old as the hang was long: the code has nothing to tell it by,
and nothing promises more than that it is taken once.

## What is checked

| run | question | bounds, and why they are enough |
|---|---|---|
| `alerter` | does the recipient's ledger agree with the manager's, and does every key follow its life cycle | two account keys (one message each) and two disk keys (one message): the least with which one of several messages fails in both forms of grouping, and with which two scopes interfere. Both values of `send_recovery`, switched between starts |
| `alerter_live` | are lasting conditions reported and saved, ended ones recovered | one key in each of two scopes: the properties speak of single keys, and the other scope's batches come between retries |
| `state_file` | concurrent saves, failures, crashes, power losses | two savers, four versions: each can hold a snapshot the other has overtaken, with a mutation in between, and one more save after a crash |
| `health_report` | spacing and validity under clock changes, restarts, failed saves | interval 3, retry 2, clock of 8: two reports with a failed one between them, and room to set the clock before, into and beyond |
| `monitor` | what a cycle does for every combination of outcomes, and when the process ends | nothing is bounded but the scopes, of which the code has five; both modes, with and without file logging, at level info |
| `monitor_default_log` | does the daemon survive a bad cycle without file logging | the same, only without file logging |
| `delivery` | second copies, cooldown, promise, use of every channel | two callers, so that two answers can overlap; pause 3, calls of up to 1, so that a second answer falls into the first pause; DingTalk as primary, as fallback and alone |
| `delivery_reports` | does an alert's fate block a health report | one caller: the program's own way of sending |
| `log_writer` | limits and losses | files of 1 or 2 bytes, 1 to 3 backups, 8 bytes: every file of the largest configuration is filled once and rotated out; three configurations between which any start may switch, one of which is limited by the total and not by the number |
| `stat_calls` | one call per mount, no result twice, complete batches; do cycles end, does a hung mount come back | two callers and one mount, the only place at which callers meet, which comes and goes between measurements; two calls are enough, as a caller that starts one holds none and none is registered |
| `cycle` | are alerts and recoveries what was measured, is nothing silent, what can make a report or a mail impossible, is the update advice right | thresholds 90, 85, 3 and 2 with facts on both sides of each; up to three accounts, so that two may share an index and a third be healthy, nameless or undecodable; int64 up to 7, uint64 up to 200 and durations up to 1000 hours, with values beyond each; one mount with a control character in its name; two versions out of twelve prereleases, or a release against every oddity |
| `install` | what does an accepted configuration promise, what does a failure leave, what runs after a success | one good configuration with one or two settings changed to every kind of wrong value; int64 up to 127 and a megabyte of 32, so that 4 megabytes overflow; two directories and three files, binary, unit and configuration, so that a step can fail before, between and after; every earlier installation and mode |

`install` does not check for deadlock, since the script ends, nor does `monitor`, since the
process does. Types are not among the runs: where a theorem needs them, they are proved.

Counters are bounded by `MaxVersion`, `MaxTime` and `MaxByte` in the guards of the
actions that increase them; `late` needs none, since a cycle has finitely many calls.

Each property of a passing run has a mutant in `PROJECT.json`: a definition
changed as a plausible bug would change it (`Gone_IgnoresComplete`: an incomplete
batch recovers what it does not hold), under which TLC finds the property violated.

### Fairness

- *Alerter*: a dead service is started again (`install.sh` writes
  `Restart=on-failure`); every scope gets a batch in every cycle (`Monitor` checks
  it) and a `Reconcile` that has begun goes on, since each call in it has a timeout.
  The rest is an assumption on the environment, and strong fairness says it: a
  message or a write that is tried again and again succeeds at some point. Nothing
  is assumed of *when* it fails. Without it no retry could be shown to matter.
- *Monitor*: the process takes its steps (every call has a timeout) and the ticker
  fires. Nothing makes a check succeed, and nobody has to cancel.
- *Delivery*: calls end within their timeout and time passes. No channel is
  assumed ever to succeed: what is shown is that each is tried again.
- *StatCalls*: `Disks` goes on, by the timer of a wait at the latest; and a wait whose
  call is done does not lose against its ten seconds every time (the `select` finds
  the channel of a joined, finished call closed at once). `statfs` owes nothing:
  the property assumes of a mount that its call comes back, and says what then follows.

## What is proved

For every set of keys and scopes, any number of savers, callers, mounts and versions,
all intervals and pauses, all limits. Each proof has an inductive invariant `IInv`.

- **AlerterProofs.** The ledger alone is not inductive: a step in the middle of a
  `Reconcile` changes records for keys queued long before. `QueuesMatchRecords` says
  that what is still queued is exactly what the records say has not been done, which
  holds because the code sends first and then does `Put` or `Delete`.
  `UnsavedIsMarked` says that records that differ from the file are announced by
  `dirty` or by the running call's `mutated`. With them follow
  `LedgerAgreesWithRecipient`, `SendsOnlyNews`, `CleanIsDurable`,
  `RecoversOnlyWhatWasMeasured`, and that every key implements `AlertLifecycle`.
- **StateFileProofs.** `SaveInProgress` ties the temporary file to the stage of the one
  `Save` that holds `saveMu`; `VersionsAreOrdered` says that name, temporary file and
  memory only ever get newer. With them follow `SurvivorsKeepPromises`,
  `NameMovesForward` and the refinement of `AtomicStore`.
  For `HealthReport`, in the same module, the validity of both schedules, and the
  agreement of the known one with the history, are inductive together with the types. A
  clock set back cannot produce a bad schedule because `due` refuses any time before the
  last success. With them follow `ScheduleIsAccepted`, `RemembersDeliveries`,
  `ReportsAreSpaced` and `RetriesAreSpaced`.
- **DeliveryProofs.** `PausesAreCovered`: the cooldown lasts at least as long as what is
  left of every pause, which is why the later end must win when answers come out of
  order. `OneChannelAtATime`: what is known of a message follows the call, so that
  a fallback starts only after a primary that lost its answer or never delivered. With
  them follow `CooldownIsKept`, `SecondCopyIsALostAnswer`, and `Sender` for each caller.
- **LogWriterProofs.** `NoStrays`: past the cleanup no backup has a number beyond
  `max_files`, so what `rotate` drops is the oldest. `ShiftIntoGap`: a rename never
  meets a file. With them the kept bytes are the end of the log, in the order of the
  backups' numbers. `Fits` gives the limits: what exceeds the total is in the active
  file, since `rotate` comes only after a successful `enforceTotal`. Sizes are
  cardinalities of disjoint sets, and that a trimmed file has the right size
  is shown by an injection.
- **StatCallsProofs.** `RunningIsRegistered`: a `statfs` that runs is the registered call of
  its path. It lasts because only a waiter of that path removes it, and only when
  its own call is the registered one and done (`WaitsForItsMount`, `ReceivedIsDone`). `Unused`
  says that what is registered or waited for is new to whoever gets it. A second
  invariant, `BatchAddsUp`, gives the completeness of batches.
- **CycleProofs.** Each rule is shown to be right for anything a check can return
  (`IsRight`): its conditions are unhealthy objects, one to a key, and a complete batch
  misses none. For `Disks` this needs that of several entries of a mount one is the highest,
  for `Auth` that what is neither nameless nor a duplicate is the only account of its
  index. The invariant then ties the batch to the facts, `eligible` to the absence of server
  alerts (`HealthySoFar`) and the report to the host's numbers (`ReportShowsHost`).
  With it follow `NothingUnhealthyIsSilent`, `ReportAgreesWithAlerts`,
  `RecoveriesAreMeasured` and `AlertsNameOneObject`.
  `RefusalsAreKnown` needs every limit of a report: `ReportFits` says that an account
  fits as soon as it is in the report unless a counter of it is negative, and that no quota
  is known of the accounts still to come, so that `addQuota` can only replace one that
  fits by one that fits. `RefusalsExplained` says that a group which was not rendered
  is one alert that is not sent, so it stays.
  `UpdateAdviceFollowsSemVer` is a fact about `compareReleaseVersions` (`VersionsInOrder`):
  the code compares the values of the three numbers and the standard their texts, which
  agree because a number without leading zeros is determined by its value (`ValueIsUnique`).
  What is computed digit by digit or account by account, `Values` and
  `enabledAccountUsages`, is a recursive function; that it exists is `RecursionExists`,
  and what it computes follows from the first index at which it would not.
- **MonitorProofs.** `Progress` says what the locals of `RunOnce` know of the scopes behind
  it: `runErrors` is that one of them went wrong, `serverErrors` that one of the first four
  did. `OneLateCall` says that after a late call the cycle is over or is about to look at the
  context. With them follow `CycleIsComplete`, `CancellationIsTerminal` and
  `OneShotReportsFailures`, for every level and file-log setting.
- **InstallerProofs.** The promises are not inductive: what they say of the end has to be
  said of every position. `ActivationSoFar` and `RestorationSoFar` say what the commands of
  `activate_mode` and `restore_unit_state` before the present one have achieved, and hold
  although a daemon may die and restart and the timer fire at any moment: the other mode is
  stopped before the one-shot service is, so nothing starts that again, and then it cannot
  have the lock when the daemon wants it. `RollbackSoFar` says that only what is recorded
  was changed and is restored down to the present position, and `BeforeOK` that the two
  units were not both in use before, without which `restore_unit_state` would put that back.
  With them follow `FailureChangesNothing` and `SelectedModeAlone`, for any lists of files
  and directories. `AcceptedConfigurationStarts` needs no invariant but `config`'s type: it
  follows, for any configuration and any environment, from `Validate` demand by demand, and
  from the limit of a size, which keeps its conversion to bytes from overflowing.

Assumptions are the `ASSUME`s of the modules, each what `config.Validate`, a
constructor or a type demands; TLC evaluates them in every run. Of `Cycle` they say
that percentages are between 0 and 100, as the collector computes them, and that an entry's
status and index are among the aspects that the rules tell apart, that a version is a
text cut at its dots, hyphen and plus sign, and that the mailer's own key `batch` has no
control character in it; of `Installer` that
`install.sh` lists no file or directory twice, at least one directory, and the
binary, the unit and the configuration.

Every invariant and every action property of the passing runs is proved, and so are the
refinements. Only model-checked is liveness, which with its fairness and `ENABLED` is out
of this prover's reach: `PersistentConditionIsReported`, `EndedConditionRecovers`,
`ReportedConditionIsSaved`, `CyclesKeepComing`, `CancellationEndsTheProcess`,
`NoChannelIsAbandoned`, `EveryCollectionEnds` and `HungMountIsMeasuredAgain`.

## Findings

1. **The daemon dies of its first log record when file logging is off, the default.**
   `runtime.go:63` passes a nil `*logfile.Writer` as an `io.Writer`; `logger.go:19`
   compares with nil and does not see it; the first emitted record calls
   `Write` on nil and panics. `loop.go:33` promises that errors "do not terminate the
   daemon". Run `monitor_default_log` shows the shortest way: a failed health check,
   its warning, the end. The alert is never sent, and the restarted process repeats it.
2. **An alert can block a health report.** The README says that account-alert
   delivery failures never do. The cooldown of `client.go:121` belongs to the one
   client that alerts and reports share, and the auth scope is reconciled right before
   the report. Run `delivery_reports` shows an alert answered with 410100 and a due
   report refused without a request.
3. **One message per account.** README:239 says that a cycle makes at most ten robot
   calls. `conditionDeliveryGroups` makes one per account (`manager.go:171`), so the limit of
   20 a minute, and with it finding 2, is within reach of one outage.

4. **A mount with a tab or a line break in its name is never mailed about alone.** The
   alerter makes the object safe for a mail header, but not the key, and `message.go:504`
   of the mailer refuses a mail whose key has a control character. The alert fails in every
   cycle until another disk alert makes a summary of it. `RefusalsAreKnown` of run `cycle`
   names the case.
5. **One account can block every health report.** A negative counter in auth-files, or
   recent requests whose sum overflows, makes `ValidateAccountUsage`
   reject the whole report, for both transports, although accounts "never block" it.
   `RefusalsAreKnown` names the case.
6. **`--check-config` accepts what cannot start.** A management key with a tab or a NUL, a base
   URL with a bare question mark at its end, SMTP credentials with a line break or NUL:
   `Validate`, which "checks all invariants", asks for none of it, the constructors do.
   `AcceptedConfigurationStarts` of run `install` names the three; in timer mode the
   installer reports success for each.
7. **A symlink ends the installer without a rollback.** `safe_managed_directory` calls `die`,
   which exits without `on_error`, when earlier directories are already changed (action
   `Die` of `Installer`).
8. **"see monitor logs".** A shortened DingTalk message refers to logs that hold none of the
   omitted items, except for the health scope.

What holds but may surprise: an end of the process between a send and its `Save`
repeats the message (`inDoubt`), and an unreadable state file is replaced by the next
`Save`, together with the alert records it held; the README says as much of alerts,
though not of health reports. A rotation that failed silences the file log until
the next start. A daemon that waits for its restart when an installation begins is, to
`install.sh`, not running, and a rollback leaves it stopped.

## What is not modelled

- *Texts.* Rendering of mails and Markdown, signing, redaction, parsing of `/proc`,
  the shape of JSON and YAML and the syntax of durations: pure functions with table tests;
  no property depends on them. What makes a transport refuse a report is in `Reports`.
  `ValidateBatch` rejects nothing that the alerter builds.
- *ID tokens.* An account ID is given or is not; from where is left open.
- *Flags and `--test-notification`*, which sends one message and ends.
- *Files the log writer did not create* but that match its pattern.
- *Around the installer's transaction:* arguments, prompts, preflight checks and staging
  change nothing that a rollback would have to restore; the administrator's
  backup copies are never read again; a host without systemd skips all of activation.
  `bootstrap.sh` downloads, compares a checksum and calls `install.sh`.
- *Service tools*: linear diagnostic scripts without state.

## Plan

Written in this order, the most important behaviour first; the first nine are done.

1. `Alerter`, `AlertLifecycle`, their proofs: the reason for the program.
2. `StateFile`, `AtomicStore`; `HealthReport`: what they rest on and what shares it.
3. `Monitor`: the cycle and the process.
4. `Delivery`, `Sender`: what a send means.
5. `LogWriter`.
6. `StatCalls`: the disk measurement and the calls that outlive it.
7. `Rules`, `Reports` and `Cycle`: from what the checks return to alerts and reports.
8. `Versions`: the order of releases against Semantic Versioning's. Identifiers with leading
   zeros are no versions of the standard, and nothing is claimed of them.
9. `Startup` and `Installer`: what an accepted configuration promises, and what a failed
   installation leaves.
10. Proofs: `Monitor`, the size limits of `LogWriter`, what `Rules` promises,
    `Installer` with `Startup`, the refusals of reports and the order of versions are done.
