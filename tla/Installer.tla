----------------------------- MODULE Installer -----------------------------
(***************************************************************************)
(* install.sh from the moment at which it can be rolled back to its end,   *)
(* on a host with systemd: directories, files, units, and on_error for     *)
(* every command that fails and every signal.                              *)
(*                                                                         *)
(* A step is one command.  One that fails without an effect is Abort       *)
(* before it, one that fails after its effect is Abort after it.  systemd  *)
(* goes on by itself meanwhile: a daemon dies and is started again, the    *)
(* timer starts its one-shot service.                                      *)
(*                                                                         *)
(* A file is its version, "none", "old" or "new", and whether it has the   *)
(* mode and owner it had before.                                           *)
(***************************************************************************)
EXTENDS Startup, SequencesExt

CONSTANTS
    Configurations,  \* what the new configuration file and its secrets may be
    Directories,     \* managed directories, in the order of prepare_directories
    Files            \* managed files, in the order of install_assets

ASSUME InstallerAssumption ==
    /\ Configurations \subseteq [file : Config, env : [Secrets -> Seq(Texts)]]
    /\ Directories \in Seq(STRING) \ {<<>>} /\ Files \in Seq(STRING)
    /\ IsInjective(Directories) /\ IsInjective(Files)
    /\ {"binary", "unit", "config"} \subseteq ToSet(Files)

Units == {"service", "timer"}

VARIABLES
    config,       \* the new configuration and its variables, <<>> when looked at
    verdict,      \* of the new one: does --check-config accept it, does it build
    mode,         \* --mode: the unit that is to run
    noStart,      \* --no-start
    stage,        \* the version of each file to be installed
    linked,       \* the directories that turn out to be symlinks, one at most
    pc,           \* "stage", "install", "activate", "done", "died", or on_error's
                  \* "files", "directories", "units", "exit", "killed"
    at,           \* the position in the list of the present pc
    recorded,     \* TX_TARGETS: the files that are recorded
    prepared,     \* DIR_PATHS
    before,       \* what was found: files, directories, units
    incomplete,   \* rollback_failed
    files,        \* version and mode of each file
    directories,  \* of each: "none", "before" or "managed" mode and owner
    loaded,       \* the version of the unit files that systemd has read
    enabled,      \* the units that are enabled
    active,       \* of each unit: "off", "on" or "waiting" for its restart
    runs,         \* the versions that the daemon was started from
    once          \* cpa-monitor-once.service runs, and has the lock

hostVars == <<files, directories, loaded, enabled, active, runs, once>>
optionVars == <<mode, noStart, stage, linked, before>>
vars == <<config, verdict, optionVars, pc, at, recorded, prepared, incomplete, hostVars>>

Other(unit) == IF unit = "service" THEN "timer" ELSE "service"
Version(f) == files[f].version
Installed == [f \in ToSet(Files) |-> Version(f)]

\* Of the previous installation's configuration nothing is asked: it is good.
Accepted == Version("config") = "old" \/ (Version("config") = "new" /\ verdict.accepted)
Builds == Version("config") = "old" \/ (Version("config") = "new" /\ verdict.builds)

-----------------------------------------------------------------------------
(* The commands that on_error and activate_mode give systemctl *)

\* disable --now is two commands.
Commands(startVerb) ==
    IF noStart THEN <<<<"reload", "systemd">>>>
    ELSE <<<<"reload", "systemd">>, <<"check", "config">>,
           <<"disable", Other(mode)>>, <<"stop", Other(mode)>>, <<"stop", "once">>,
           <<"enable", mode>>, <<startVerb, mode>>,
           <<"active", mode>>, <<"stable", mode>>>>

activate_mode_Starts == Commands("start")
activate_mode == Commands("restart")

If(condition, command) == IF condition THEN <<command>> ELSE <<>>

Stopping == <<<<"disable", "service">>, <<"stop", "service">>,
              <<"disable", "timer">>, <<"stop", "timer">>, <<"stop", "once">>>>
Starting ==
    If("service" \in before.enabled, <<"enable", "service">>)
    \o If("timer" \in before.enabled, <<"enable", "timer">>)
    \o If(before.active["service"] = "on", <<"start", "service">>)
    \o If(before.active["timer"] = "on", <<"start", "timer">>)

restore_unit_state_ReloadsLast == Stopping \o Starting \o <<<<"reload", "systemd">>>>
restore_unit_state == Stopping \o <<<<"reload", "systemd">>>> \o Starting

-----------------------------------------------------------------------------
(* What systemd does *)

\* A daemon starts if ExecStartPre accepts its configuration, and goes away at
\* once if somebody else has the lock: exit status 75 is not restarted.
StartDaemon ==
    /\ loaded # "none" /\ Accepted
    /\ active' = [active EXCEPT !["service"] = IF once THEN "off" ELSE "on"]
    /\ runs' = [Installed EXCEPT !["unit"] = loaded]
    /\ UNCHANGED <<loaded, enabled, once>>

StartTimer ==
    /\ loaded # "none"
    /\ active' = [active EXCEPT !["timer"] = "on"]
    /\ UNCHANGED <<loaded, enabled, runs, once>>

Start(unit) == IF unit = "service" THEN StartDaemon ELSE StartTimer

\* The effect of a command that succeeds.  "stable" is the second is-active, after
\* a second: a daemon that cannot be built is gone by then, and its restart takes
\* RestartSec=5s.
Systemctl(command, unit) ==
    /\ CASE command = "reload" ->
              loaded' = Version("unit") /\ UNCHANGED <<enabled, active, runs, once>>
         [] command = "check" ->
              Accepted /\ UNCHANGED <<loaded, enabled, active, runs, once>>
         [] command = "disable" ->
              enabled' = enabled \ {unit} /\ UNCHANGED <<loaded, active, runs, once>>
         [] command = "enable" ->
              /\ Version("unit") # "none"
              /\ enabled' = enabled \cup {unit} /\ UNCHANGED <<loaded, active, runs, once>>
         [] command = "stop" /\ unit = "once" ->
              once' = FALSE /\ UNCHANGED <<loaded, enabled, active, runs>>
         [] command = "stop" /\ unit # "once" ->
              active' = [active EXCEPT ![unit] = "off"] /\ UNCHANGED <<loaded, enabled, runs, once>>
         [] command = "start" /\ active[unit] = "on" ->
              UNCHANGED <<loaded, enabled, active, runs, once>>
         [] command = "start" /\ active[unit] # "on" -> Start(unit)
         [] command = "restart" -> Start(unit)
         [] command = "active" ->
              active[unit] = "on" /\ UNCHANGED <<loaded, enabled, active, runs, once>>
         [] command = "stable" ->
              /\ active[unit] = "on" /\ (unit = "service" => Builds)
              /\ UNCHANGED <<loaded, enabled, active, runs, once>>
    /\ UNCHANGED <<files, directories>>

-----------------------------------------------------------------------------

None == [version |-> "none", mode |-> "before"]
Off == [u \in Units |-> "off"]

\* Nothing is installed, or a version that runs in either mode, or that was
\* installed without starting it; its daemon may be waiting for its restart.
Init ==
    /\ config \in Configurations /\ verdict = [accepted |-> FALSE, builds |-> FALSE]
    /\ mode \in Units /\ noStart \in BOOLEAN
    /\ linked \in {{}} \cup {{d} : d \in Range(Tail(Directories))}
    /\ pc = "stage" /\ at = 1 /\ recorded = {} /\ prepared = {} /\ incomplete = FALSE
    /\ \/ /\ files = [f \in ToSet(Files) |-> None]
          /\ directories = [d \in ToSet(Directories) |-> "none"]
          /\ loaded = "none" /\ enabled = {} /\ active = Off
       \/ /\ files = [f \in ToSet(Files) |-> [version |-> "old", mode |-> "before"]]
          /\ directories = [d \in ToSet(Directories) |-> "before"]
          /\ loaded = "old"
          /\ \/ enabled = {} /\ active = Off
             \/ enabled = {"timer"} /\ active = [Off EXCEPT !["timer"] = "on"]
             \/ \E s \in {"on", "waiting"} :
                   enabled = {"service"} /\ active = [Off EXCEPT !["service"] = s]
    /\ stage \in [ToSet(Files) -> {"old", "new"}]
    /\ \A f \in ToSet(Files) \ {"config"} : stage[f] = "new"
    /\ stage["config"] = "old" => files["config"].version = "old"
    /\ runs = Installed /\ once = FALSE
    /\ before = [files |-> files, directories |-> directories, enabled |-> enabled,
                 active |-> active]

\* The new files are staged, the configuration a copy of one that nobody has checked
\* yet: one that the script generates itself has passed --check-config.
Configuration == Loaded(config.file, config.env)

Stage ==
    /\ pc = "stage"
    /\ verdict' = [accepted |-> Validate(Configuration), builds |-> buildRuntime(Configuration)]
    /\ config' = <<>> /\ pc' = "install"
    /\ UNCHANGED <<optionVars, at, recorded, prepared, incomplete, hostVars>>

\* safe_managed_directory: a symlink ends the script without on_error.
PrepareDirectory ==
    /\ pc = "install" /\ at <= Len(Directories)
    /\ LET d == Directories[at]
       IN  /\ d \notin linked
           /\ \/ /\ d \notin prepared
                 /\ prepared' = prepared \cup {d}
                 /\ UNCHANGED <<at, directories>>
              \/ /\ d \in prepared
                 /\ directories' = [directories EXCEPT ![d] = "managed"]
                 /\ at' = at + 1
                 /\ UNCHANGED prepared
    /\ UNCHANGED <<config, verdict, optionVars, pc, recorded, incomplete, files, loaded,
                   enabled, active, runs, once>>

Die ==
    /\ pc = "install" /\ at <= Len(Directories) /\ Directories[at] \in linked
    /\ pc' = "died"
    /\ UNCHANGED <<config, verdict, optionVars, at, recorded, prepared, incomplete, hostVars>>

CurrentFile == Files[at - Len(Directories)]

\* replace_file, first the copy of what is there,
RecordTarget ==
    /\ pc = "install" /\ at \in (Len(Directories) + 1)..(Len(Directories) + Len(Files))
    /\ CurrentFile \notin recorded
    /\ recorded' = recorded \cup {CurrentFile}
    /\ UNCHANGED <<config, verdict, optionVars, pc, at, prepared, incomplete, hostVars>>

\* then the rename, or of an equal file the change of its mode.
ReplaceFile ==
    /\ pc = "install" /\ at \in (Len(Directories) + 1)..(Len(Directories) + Len(Files))
    /\ CurrentFile \in recorded
    /\ files' = [files EXCEPT ![CurrentFile] =
                    [version |-> stage[CurrentFile], mode |-> "managed"]]
    /\ IF at = Len(Directories) + Len(Files)
       THEN pc' = "activate" /\ at' = 1
       ELSE at' = at + 1 /\ UNCHANGED pc
    /\ UNCHANGED <<config, verdict, optionVars, recorded, prepared, incomplete, directories,
                   loaded, enabled, active, runs, once>>

\* The next command of activate_mode.  After the last one the installation is
\* committed and no trap is set any more.
Activate ==
    /\ pc = "activate"
    /\ Systemctl(activate_mode[at][1], activate_mode[at][2])
    /\ IF at = Len(activate_mode) THEN pc' = "done" ELSE UNCHANGED pc
    /\ at' = at + 1
    /\ UNCHANGED <<config, verdict, optionVars, recorded, prepared, incomplete>>

\* on_error: a command failed, or a signal came.
Abort ==
    /\ pc \in {"install", "activate"}
    /\ pc' = "files" /\ at' = Len(Files)
    /\ UNCHANGED <<config, verdict, optionVars, recorded, prepared, incomplete, hostVars>>

\* rollback_files, last file first; one that cannot be restored is left alone.
RollbackFile ==
    /\ pc = "files"
    /\ LET f == Files[at]
       IN  \/ f \notin recorded /\ UNCHANGED <<files, incomplete>>
           \/ f \in recorded /\ incomplete' = TRUE /\ UNCHANGED files
           \/ /\ f \in recorded
              /\ files' = [files EXCEPT ![f] = before.files[f]]
              /\ UNCHANGED incomplete
    /\ IF at = 1 THEN pc' = "directories" /\ at' = Len(Directories)
       ELSE at' = at - 1 /\ UNCHANGED pc
    /\ UNCHANGED <<config, verdict, optionVars, recorded, prepared, directories, loaded,
                   enabled, active, runs, once>>

\* rollback_directories: a new directory stays.
Restorable(d) == d \in prepared /\ before.directories[d] # "none"

RollbackDirectory ==
    /\ pc = "directories"
    /\ LET d == Directories[at]
       IN  \/ ~Restorable(d) /\ UNCHANGED <<directories, incomplete>>
           \/ Restorable(d) /\ incomplete' = TRUE /\ UNCHANGED directories
           \/ /\ Restorable(d)
              /\ directories' = [directories EXCEPT ![d] = before.directories[d]]
              /\ UNCHANGED incomplete
    /\ IF at = 1 THEN pc' = "units" /\ at' = 1
       ELSE at' = at - 1 /\ UNCHANGED pc
    /\ UNCHANGED <<config, verdict, optionVars, recorded, prepared, files, loaded, enabled,
                   active, runs, once>>

\* restore_unit_state: a command that fails is noted, and the next one follows.
RestoreUnit ==
    /\ pc = "units"
    /\ \/ /\ Systemctl(restore_unit_state[at][1], restore_unit_state[at][2])
          /\ UNCHANGED incomplete
       \/ incomplete' = TRUE /\ UNCHANGED hostVars
    /\ IF at = Len(restore_unit_state) THEN pc' = "exit" ELSE UNCHANGED pc
    /\ at' = at + 1
    /\ UNCHANGED <<config, verdict, optionVars, recorded, prepared>>

\* on_error has cleared the traps: a second signal ends the script, and its EXIT
\* trap removes the copies.
Kill ==
    /\ pc \in {"files", "directories", "units"}
    /\ pc' = "killed"
    /\ UNCHANGED <<config, verdict, optionVars, at, recorded, prepared, incomplete, hostVars>>

-----------------------------------------------------------------------------
(* systemd by itself, while the script runs *)

Running == pc \in {"install", "activate", "files", "directories", "units"}

DaemonDies ==
    /\ Running /\ active["service"] = "on"
    /\ active' = [active EXCEPT !["service"] = "waiting"]
    /\ UNCHANGED <<config, verdict, optionVars, pc, at, recorded, prepared, incomplete,
                   files, directories, loaded, enabled, runs, once>>

\* Restart=on-failure.  One whose configuration is refused goes on waiting.
DaemonRestarts ==
    /\ Running /\ active["service"] = "waiting"
    /\ StartDaemon
    /\ UNCHANGED <<config, verdict, optionVars, pc, at, recorded, prepared, incomplete,
                   files, directories>>

\* The timer starts a cycle, which needs the lock.
TimerFires ==
    /\ Running /\ active["timer"] = "on" /\ active["service"] # "on" /\ ~once
    /\ loaded # "none" /\ Accepted
    /\ once' = TRUE
    /\ UNCHANGED <<config, verdict, optionVars, pc, at, recorded, prepared, incomplete,
                   files, directories, loaded, enabled, active, runs>>

OnceEnds ==
    /\ Running /\ once
    /\ once' = FALSE
    /\ UNCHANGED <<config, verdict, optionVars, pc, at, recorded, prepared, incomplete,
                   files, directories, loaded, enabled, active, runs>>

Next ==
    \/ Stage \/ PrepareDirectory \/ Die \/ RecordTarget \/ ReplaceFile \/ Activate
    \/ Abort \/ RollbackFile \/ RollbackDirectory \/ RestoreUnit \/ Kill
    \/ DaemonDies \/ DaemonRestarts \/ TimerFires \/ OnceEnds

Spec == Init /\ [][Next]_vars

-----------------------------------------------------------------------------
(* Properties *)

\* config.go: "Validate checks all invariants".  An accepted configuration can be
\* started, and an enabled report goes to its own channel; but three of the
\* constructors' demands are not asked for.
AcceptedConfigurationStarts ==
    pc = "stage" /\ Validate(Configuration) =>
        /\ \/ buildRuntime(Configuration)
           \/ MisjudgedKey(Configuration) \/ MisjudgedURL(Configuration)
           \/ MisjudgedCredentials(Configuration)
        /\ Configuration.reportEnabled =>
              HealthSender(Configuration, buildTransports(Configuration)) =
                  HealthReportChannel(Configuration)

\* After "restoring previous files and service state", and without the warning that
\* this was incomplete, every file, the mode of every directory that was there and
\* both units are as they were found, and a daemon that was running runs again,
\* from what it was started from before.  One that was waiting for its restart is
\* not running to the script, and stays stopped.
FailureChangesNothing ==
    pc = "exit" /\ ~incomplete =>
        /\ files = before.files /\ loaded = Version("unit")
        /\ \A d \in ToSet(Directories) :
              before.directories[d] # "none" => directories[d] = before.directories[d]
        /\ enabled = before.enabled /\ active["timer"] = before.active["timer"]
        /\ active["service"] = "off" <=> before.active["service"] # "on"
        /\ active["service"] # "off" => runs = Installed

\* README: the installer "stops and disables the conflicting mode before enabling
\* the selected one".  Both are never enabled nor active at once, unless a rollback
\* was incomplete; and a successful installation leaves the selected one enabled
\* and active, with a daemon that was started from what is installed, or with
\* --no-start whatever was enabled before.
SelectedModeAlone ==
    /\ incomplete \/ (enabled # Units /\ \E u \in Units : active[u] = "off")
    /\ pc = "done" => files = [f \in ToSet(Files) |-> [version |-> stage[f], mode |-> "managed"]]
    /\ pc = "done" /\ ~noStart =>
          /\ enabled = {mode} /\ active[mode] = "on" /\ Accepted
          /\ mode = "service" => runs = Installed /\ Builds /\ ~once
    /\ pc = "done" /\ noStart => enabled = before.enabled

=============================================================================
