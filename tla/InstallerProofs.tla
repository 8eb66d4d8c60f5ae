--------------------------- MODULE InstallerProofs ---------------------------
(***************************************************************************)
(* Proofs about Installer for every set of configurations, every list of   *)
(* directories and every list of files: a configuration that is accepted   *)
(* can be started, a failure that could be undone leaves nothing behind,   *)
(* and the two modes are never both in use.                                *)
(*                                                                         *)
(* Neither promise is inductive: at a position of a list of commands it    *)
(* has to be said what the commands before it have achieved and systemd    *)
(* has left alone since (ActivationSoFar, RestorationSoFar), for the files *)
(* what is installed and what is rolled back (Rollback), and from Init     *)
(* that the two units were not both in use before (BeforeOK).              *)
(***************************************************************************)
EXTENDS Installer, SequenceTheorems, TLAPS

Versions == {"none", "old", "new"}
FileStates == [version : Versions, mode : {"before", "managed"}]
UnitStates == [Units -> {"off", "on", "waiting"}]

\* Nothing, or one of the two modes, is in use.
BeforeOK ==
    /\ before.files \in [ToSet(Files) -> FileStates]
    /\ before.directories \in [ToSet(Directories) -> {"none", "before", "managed"}]
    /\ before.active \in UnitStates
    /\ \/ before.enabled = {} /\ before.active["service"] = "off"
          /\ before.active["timer"] = "off"
       \/ before.enabled = {"timer"} /\ before.active["service"] = "off"
          /\ before.active["timer"] = "on"
       \/ before.enabled = {"service"} /\ before.active["service"] \in {"on", "waiting"}
          /\ before.active["timer"] = "off"

Forward == {"stage", "install", "activate", "done", "died"}
Rollback == {"files", "directories", "units", "exit", "killed"}

HostOK ==
    /\ files \in [ToSet(Files) -> FileStates]
    /\ directories \in [ToSet(Directories) -> {"none", "before", "managed"}]
    /\ loaded \in Versions /\ enabled \subseteq Units /\ active \in UnitStates
    /\ once \in BOOLEAN

PositionOK ==
    /\ pc \in Forward \cup Rollback
    /\ at \in Nat
    /\ pc = "stage" => at = 1
    /\ pc = "install" => at \in 1..(Len(Directories) + Len(Files))
    /\ pc = "activate" => at \in 1..Len(activate_mode)
    /\ pc = "done" => at = Len(activate_mode) + 1
    /\ pc = "files" => at \in 1..Len(Files)
    /\ pc = "directories" => at \in 1..Len(Directories)
    /\ pc = "units" => at \in 1..Len(restore_unit_state)
    /\ pc = "exit" => at = Len(restore_unit_state) + 1

TypeOK ==
    /\ HostOK /\ PositionOK
    /\ mode \in Units /\ noStart \in BOOLEAN /\ incomplete \in BOOLEAN
    /\ stage \in [ToSet(Files) -> {"old", "new"}]
    /\ recorded \subseteq ToSet(Files) /\ prepared \subseteq ToSet(Directories)

\* What is to be installed is, up to the position.
New(f) == [version |-> stage[f], mode |-> "managed"]
InstallationSoFar ==
    /\ pc = "install" => \A i \in DOMAIN Files : at > Len(Directories) + i => files[Files[i]] = New(Files[i])
    /\ pc \in {"activate", "done"} => \A i \in DOMAIN Files : files[Files[i]] = New(Files[i])

\* Only what can be restored was changed, and is restored down to the position.
RollbackSoFar ==
    /\ pc \in Forward => ~incomplete
    /\ \A f \in ToSet(Files) \ recorded : files[f] = before.files[f]
    /\ \A d \in ToSet(Directories) \ prepared : directories[d] = before.directories[d]
    /\ pc = "files" /\ ~incomplete =>
          \A i \in DOMAIN Files : i > at => files[Files[i]] = before.files[Files[i]]
    /\ pc \in {"directories", "units", "exit"} /\ ~incomplete =>
          \A f \in ToSet(Files) : files[f] = before.files[f]
    /\ pc = "directories" /\ ~incomplete =>
          \A i \in DOMAIN Directories :
              i > at /\ before.directories[Directories[i]] # "none" =>
                  directories[Directories[i]] = before.directories[Directories[i]]
    /\ pc \in {"units", "exit"} /\ ~incomplete =>
          \A d \in ToSet(Directories) :
              before.directories[d] # "none" => directories[d] = before.directories[d]

\* Whatever the commands of activate_mode before this one were for is so.
Achieved ==
    /\ at <= 3 => enabled = before.enabled
    /\ at > 1 => loaded = Version("unit")
    /\ at > 2 => Accepted
    /\ at > 3 => Other(mode) \notin enabled
    /\ at > 4 => active[Other(mode)] = "off"
    /\ at > 5 /\ mode = "service" => ~once
    /\ at > 6 => mode \in enabled
    /\ at > 7 /\ mode = "service" => runs = Installed

ActivationSoFar ==
    /\ pc \in {"stage", "install"} => enabled = before.enabled
    /\ pc \in {"activate", "done"} => Achieved
    /\ pc = "done" /\ ~noStart => active[mode] = "on" /\ (mode = "service" => Builds)

\* The same of restore_unit_state, as long as every command succeeds.
Restored ==
    /\ at \in 2..7 => "service" \notin enabled
    /\ at > 2 /\ (at <= 8 \/ before.active["service"] # "on") => active["service"] = "off"
    /\ at \in 4..7 => "timer" \notin enabled
    /\ at > 4 /\ (at <= 8 \/ before.active["timer"] # "on") => active["timer"] = "off"
    /\ at > 5 /\ (at <= 8 \/ before.active["timer"] # "on") => ~once
    /\ at > 6 => loaded = Version("unit")
    /\ at > 7 => enabled = before.enabled
    /\ at > 8 /\ before.active["timer"] = "on" => active["timer"] = "on"
    /\ at > 8 /\ before.active["service"] = "on" => active["service"] # "off" /\ runs = Installed

RestorationSoFar == pc \in {"units", "exit"} /\ ~incomplete => Restored

OneMode == incomplete \/ (enabled # Units /\ \E u \in Units : active[u] = "off")

IInv ==
    /\ BeforeOK /\ TypeOK
    /\ InstallationSoFar /\ RollbackSoFar /\ ActivationSoFar /\ RestorationSoFar /\ OneMode

-----------------------------------------------------------------------------
(* An accepted configuration starts *)

\* What is less than the modulus is its own remainder.
LEMMA SmallRemainder ==
    ASSUME NEW a \in Nat, NEW b \in Nat, a < b
    PROVE  a % b = a
OBVIOUS

\* A size in megabytes that Validate accepts is not changed by the conversion
\* to bytes.
LEMMA SizesDoNotWrap ==
    ASSUME NEW n \in 1..MaxMegabytes
    PROVE  Wrap(n * Megabyte) = n * Megabyte
<1>1. /\ MaxInt64 \in Nat /\ Megabyte \in Nat /\ Megabyte > 0 /\ n \in Nat
      /\ MaxInt64 \div Megabyte \in Nat
      /\ n <= MaxInt64 \div Megabyte
  BY StartupAssumption DEF MaxMegabytes
<1>2. Megabyte * (MaxInt64 \div Megabyte) <= MaxInt64
  BY <1>1
<1>3. n * Megabyte <= Megabyte * (MaxInt64 \div Megabyte)
  BY <1>1
<1>4. n * Megabyte \in Nat /\ n * Megabyte <= MaxInt64
  BY <1>1, <1>2, <1>3
<1>5. ASSUME NEW m \in Nat, m <= MaxInt64
      PROVE  Wrap(m) = m
  <2>1. (m + MaxInt64 + 1) % (2 * (MaxInt64 + 1)) = m + MaxInt64 + 1
    <3>1. m + MaxInt64 + 1 \in Nat /\ 2 * (MaxInt64 + 1) \in Nat
          /\ m + MaxInt64 + 1 < 2 * (MaxInt64 + 1)
      BY <1>1, <1>5
    <3>. QED
      BY <3>1, SmallRemainder
  <2>. QED
    BY <1>1, <1>5, <2>1 DEF Wrap
<1>. QED
  BY <1>4, <1>5

\* Validate's demands include those of every constructor, but for three.
LEMMA ValidateSuffices ==
    ASSUME NEW c, c.maxFiles \in Int, Validate(c)
    PROVE  buildRuntime(c) \/ MisjudgedKey(c) \/ MisjudgedURL(c) \/ MisjudgedCredentials(c)
<1> SUFFICES ASSUME ~MisjudgedKey(c), ~MisjudgedURL(c), ~MisjudgedCredentials(c)
             PROVE  buildRuntime(c)
  OBVIOUS
<1>1. c.fileEnabled => NewWriter(c)
  <2> SUFFICES ASSUME c.fileEnabled PROVE NewWriter(c)
    OBVIOUS
  <2>1. /\ ~Blank(c.logPath) /\ c.maxFiles > 0
        /\ c.maxSizeMB \in 1..MaxMegabytes /\ c.maxTotalSizeMB \in c.maxSizeMB..MaxMegabytes
    BY DEF Validate, validateLogging
  <2>2. MaxMegabytes \in Int /\ Megabyte \in Nat /\ Megabyte > 0
    BY StartupAssumption DEF MaxMegabytes
  <2>3. c.maxTotalSizeMB \in 1..MaxMegabytes /\ c.maxSizeMB <= c.maxTotalSizeMB
    BY <2>1, <2>2
  <2>4. c.maxSizeMB * Megabyte > 0 /\ c.maxTotalSizeMB * Megabyte >= c.maxSizeMB * Megabyte
    BY <2>1, <2>2, <2>3
  <2>. QED
    BY <2>1, <2>3, <2>4, SizesDoNotWrap DEF NewWriter
<1>2. ASSUME UsesChannel(c, "smtp") PROVE NewMailer(c)
  <2>1. validateSMTP(c)
    BY <1>2 DEF Validate
  <2>2. \A s \in {"username", "password"} : c.secrets[s] \cap {"break", "nul"} = {}
    BY <1>2 DEF MisjudgedCredentials
  <2>. QED
    BY <2>1, <2>2 DEF validateSMTP, NewMailer
<1>3. ASSUME UsesChannel(c, "dingtalk") PROVE NewDingTalk(c)
  <2>1. validateDingTalk(c)
    BY <1>3 DEF Validate
  <2>2. ASSUME NEW text, ~containsUnsafeValue(text)
        PROVE  "break" \notin text
    BY <2>2 DEF containsUnsafeValue
  <2>. QED
    BY <2>1, <2>2 DEF validateDingTalk, NewDingTalk
<1>4. ASSUME NEW channel \in buildTransports(c)
      PROVE  buildChannel(c, channel)
  BY <1>2, <1>3 DEF buildTransports, buildChannel, Channels
<1>5. buildAlertRouter(c, buildTransports(c))
  BY DEF buildAlertRouter, buildTransports, Validate, UsesChannel
<1>6. NewClient(c.baseURL, c.secrets.management_key, c.timeout)
  <2>1. /\ parseBaseURL(c.baseURL) /\ c.timeout > 0 /\ ~Blank(c.secrets.management_key)
        /\ c.baseURL.scheme = "http" => isLoopbackHost(c.baseURL.host)
        /\ "break" \notin c.secrets.management_key
    BY DEF Validate
  <2>2. c.secrets.management_key \cap {"tab", "break", "nul"} = {}
    BY <2>1 DEF MisjudgedKey
  <2>3. c.baseURL.query = ""
    BY <2>1 DEF parseBaseURL, MisjudgedURL
  <2>. QED
    BY <2>1, <2>2, <2>3 DEF parseBaseURL, NewClient
<1>7. NewRunner(c)
  <2>1. /\ parseBaseURL(c.baseURL) /\ (c.servicePort = 0 \/ c.servicePort \in Ports)
        /\ validPercent(c.memoryPercent) /\ validPercent(c.diskPercent)
        /\ c.totalTCP > 0 /\ c.serviceTCP > 0
    BY DEF Validate
  <2>2. c.baseURL.port # <<>> => c.baseURL.port[1] \in Ports
    BY <2>1 DEF parseBaseURL, ValidPort
  <2>3. ServicePort(c) \in Ports
    <3>1. 80 \in Ports /\ 443 \in Ports
      BY DEF Ports
    <3>. QED
      BY <2>1, <2>2, <3>1 DEF ServicePort
  <2>. QED
    BY <2>1, <2>3 DEF NewRunner
<1>. QED
  BY <1>1, <1>4, <1>5, <1>6, <1>7 DEF buildRuntime, Validate

\* The report's channel is one whose sender is built.
LEMMA ReportHasItsSender ==
    ASSUME NEW c, Validate(c), c.reportEnabled
    PROVE  HealthSender(c, buildTransports(c)) = HealthReportChannel(c)
BY DEF HealthSender, buildTransports, UsesChannel, HealthReportChannel, Validate

\* Reading the environment does not change the number of files.
LEMMA LoadedMaxFiles ==
    ASSUME NEW f \in Config, NEW env
    PROVE  Loaded(f, env).maxFiles \in Int
BY DEF Loaded, Config

\* Config.Validate "checks all invariants": nothing that it accepts fails to
\* start, three demands of the constructors apart, whatever was configured.
THEOREM NothingAcceptedFailsToStart == Spec => []AcceptedConfigurationStarts
<1> DEFINE Inv == pc = "stage" => config \in Configurations
<1>1. Init => Inv
  BY DEF Init
<1>2. Inv /\ [Next]_vars => Inv'
  BY DEF Next, Stage, PrepareDirectory, Die, RecordTarget, ReplaceFile, Activate, Abort,
         RollbackFile, RollbackDirectory, RestoreUnit, Kill, DaemonDies, DaemonRestarts,
         TimerFires, OnceEnds, vars, optionVars, hostVars
<1>3. Inv => AcceptedConfigurationStarts
  <2> SUFFICES ASSUME config \in Configurations, Validate(Configuration)
               PROVE  /\ \/ buildRuntime(Configuration) \/ MisjudgedKey(Configuration)
                         \/ MisjudgedURL(Configuration) \/ MisjudgedCredentials(Configuration)
                      /\ Configuration.reportEnabled =>
                            HealthSender(Configuration, buildTransports(Configuration)) =
                                HealthReportChannel(Configuration)
    BY DEF AcceptedConfigurationStarts
  <2>1. config.file \in Config
    BY InstallerAssumption
  <2>. QED
    BY <2>1, LoadedMaxFiles, ValidateSuffices, ReportHasItsSender DEF Configuration
<1>. QED
  BY <1>1, <1>2, <1>3, PTL DEF Spec
-----------------------------------------------------------------------------
(* The lists of commands, and what a command does *)

\* The files and directories are in their lists.
LEMMA Lists ==
    /\ Len(Directories) \in Nat /\ Len(Directories) > 0 /\ Len(Files) \in Nat /\ Len(Files) > 0
    /\ DOMAIN Files = 1..Len(Files) /\ DOMAIN Directories = 1..Len(Directories)
    /\ \A i \in 1..Len(Files) : Files[i] \in ToSet(Files)
    /\ \A i \in 1..Len(Directories) : Directories[i] \in ToSet(Directories)
    /\ \A f \in ToSet(Files) : \E i \in 1..Len(Files) : f = Files[i]
    /\ \A d \in ToSet(Directories) : \E i \in 1..Len(Directories) : d = Directories[i]
    /\ \A i, j \in 1..Len(Files) : Files[i] = Files[j] => i = j
    /\ "unit" \in ToSet(Files) /\ "config" \in ToSet(Files)
<1>1. /\ Len(Directories) \in Nat /\ Len(Files) \in Nat
      /\ DOMAIN Files = 1..Len(Files) /\ DOMAIN Directories = 1..Len(Directories)
      /\ Len(Directories) > 0
  BY InstallerAssumption
<1>2. /\ \A i \in 1..Len(Files) : Files[i] \in ToSet(Files)
      /\ \A i \in 1..Len(Directories) : Directories[i] \in ToSet(Directories)
      /\ \A f \in ToSet(Files) : \E i \in 1..Len(Files) : f = Files[i]
      /\ \A d \in ToSet(Directories) : \E i \in 1..Len(Directories) : d = Directories[i]
  BY <1>1 DEF ToSet
<1>3. "unit" \in ToSet(Files) /\ "config" \in ToSet(Files)
  BY InstallerAssumption
<1>4. Len(Files) > 0
  BY <1>1, <1>2, <1>3
<1>5. \A i, j \in 1..Len(Files) : Files[i] = Files[j] => i = j
  BY <1>1, InstallerAssumption DEF IsInjective
<1>. QED
  BY <1>1, <1>2, <1>3, <1>4, <1>5

\* The commands of activate_mode.
LEMMA ActivationCommands ==
    ASSUME noStart \in BOOLEAN
    PROVE  /\ noStart => Len(activate_mode) = 1 /\ activate_mode[1] = <<"reload", "systemd">>
           /\ ~noStart =>
                 /\ Len(activate_mode) = 9
                 /\ activate_mode[1] = <<"reload", "systemd">> /\ activate_mode[2] = <<"check", "config">>
                 /\ activate_mode[3] = <<"disable", Other(mode)>>
                 /\ activate_mode[4] = <<"stop", Other(mode)>>
                 /\ activate_mode[5] = <<"stop", "once">>
                 /\ activate_mode[6] = <<"enable", mode>>
                 /\ activate_mode[7] = <<"restart", mode>>
                 /\ activate_mode[8] = <<"active", mode>>
                 /\ activate_mode[9] = <<"stable", mode>>
BY DEF activate_mode, Commands

\* What is where in a concatenation.
LEMMA ConcatAt ==
    ASSUME NEW S, NEW s \in Seq(S), NEW t \in Seq(S)
    PROVE  /\ s \o t \in Seq(S) /\ Len(s \o t) = Len(s) + Len(t)
           /\ \A i \in 1..Len(s) : (s \o t)[i] = s[i]
           /\ \A i \in 1..Len(t) : (s \o t)[Len(s) + i] = t[i]
OBVIOUS

Command ==
    {"reload", "check", "disable", "stop", "enable", "start", "restart", "active", "stable"}
        \X (Units \cup {"once", "systemd", "config"})

\* What is to be started again is one unit at most.
LEMMA StartingCases ==
    ASSUME BeforeOK
    PROVE  \/ /\ Starting = <<>>
              /\ before.enabled = {} /\ before.active["service"] # "on"
              /\ before.active["timer"] # "on"
           \/ \E u \in Units :
                 /\ Starting = <<<<"enable", u>>>>
                 /\ before.enabled = {u} /\ before.active["service"] # "on"
                 /\ before.active["timer"] # "on"
           \/ \E u \in Units :
                 /\ Starting = <<<<"enable", u>>, <<"start", u>>>>
                 /\ before.enabled = {u} /\ before.active[u] = "on"
                 /\ before.active[Other(u)] = "off"
<1>1. ASSUME NEW c \in Command
      PROVE  <<c>> \in Seq(Command) /\ <<>> \o <<c>> = <<c>> /\ <<c>> \o <<>> = <<c>>
  BY ConcatEmptySeq
<1>2. <<>> \o <<>> = <<>>
  BY EmptySeq, ConcatEmptySeq
<1>3. ASSUME NEW c \in Command, NEW d \in Command
      PROVE  <<c>> \o <<d>> = <<c, d>> /\ <<c, d>> \o <<>> = <<c, d>>
  <2>1. <<c>> \in Seq(Command) /\ <<d>> \in Seq(Command) /\ <<c, d>> \in Seq(Command)
    OBVIOUS
  <2>2. <<c>> \o <<d>> \in Seq(Command) /\ Len(<<c>> \o <<d>>) = 2
        /\ (<<c>> \o <<d>>)[1] = c /\ (<<c>> \o <<d>>)[2] = d
    BY <2>1, ConcatProperties
  <2>3. <<c>> \o <<d>> = <<c, d>>
    <3>1. Len(<<c, d>>) = 2 /\ <<c, d>>[1] = c /\ <<c, d>>[2] = d
      OBVIOUS
    <3>2. \A i \in 1..2 : (<<c>> \o <<d>>)[i] = <<c, d>>[i]
      BY <2>2, <3>1
    <3>. HIDE <2>1
    <3>. QED
      BY <2>1, <2>2, <3>1, <3>2, SeqEqual
  <2>. QED
    BY <2>1, <2>3, ConcatEmptySeq
<1>4. \A u \in Units : <<"enable", u>> \in Command /\ <<"start", u>> \in Command
  BY DEF Units, Command
<1> DEFINE es == If("service" \in before.enabled, <<"enable", "service">>)
           et == If("timer" \in before.enabled, <<"enable", "timer">>)
           ss == If(before.active["service"] = "on", <<"start", "service">>)
           st == If(before.active["timer"] = "on", <<"start", "timer">>)
<1>5. Starting = ((es \o et) \o ss) \o st
  BY DEF Starting
<1>6. CASE before.enabled = {} /\ before.active["service"] = "off"
           /\ before.active["timer"] = "off"
  <2>1. es = <<>> /\ et = <<>> /\ ss = <<>> /\ st = <<>>
    BY <1>6 DEF If
  <2>. HIDE DEF es, et, ss, st
  <2>2. Starting = <<>>
    BY <1>2, <1>5, <2>1
  <2>. QED
    BY <1>6, <2>2
<1>7. CASE before.enabled = {"timer"} /\ before.active["service"] = "off"
           /\ before.active["timer"] = "on"
  <2>1. es = <<>> /\ et = <<<<"enable", "timer">>>> /\ ss = <<>>
        /\ st = <<<<"start", "timer">>>>
    BY <1>7 DEF If
  <2>. HIDE DEF es, et, ss, st
  <2>2. Starting = <<<<"enable", "timer">>, <<"start", "timer">>>>
    BY <1>1, <1>3, <1>4, <1>5, <2>1 DEF Units
  <2>. QED
    BY <1>7, <2>2 DEF Units, Other
<1>8. CASE before.enabled = {"service"} /\ before.active["service"] = "on"
           /\ before.active["timer"] = "off"
  <2>1. es = <<<<"enable", "service">>>> /\ et = <<>> /\ st = <<>>
        /\ ss = <<<<"start", "service">>>>
    BY <1>8 DEF If
  <2>. HIDE DEF es, et, ss, st
  <2>2. Starting = <<<<"enable", "service">>, <<"start", "service">>>>
    BY <1>1, <1>3, <1>4, <1>5, <2>1 DEF Units
  <2>. QED
    BY <1>8, <2>2 DEF Units, Other
<1>9. CASE before.enabled = {"service"} /\ before.active["service"] = "waiting"
           /\ before.active["timer"] = "off"
  <2>1. es = <<<<"enable", "service">>>> /\ et = <<>> /\ st = <<>> /\ ss = <<>>
    BY <1>9 DEF If
  <2>. HIDE DEF es, et, ss, st
  <2>2. Starting = <<<<"enable", "service">>>>
    BY <1>1, <1>4, <1>5, <2>1 DEF Units
  <2>. QED
    BY <1>9, <2>2 DEF Units
<1>. QED
  BY <1>6, <1>7, <1>8, <1>9 DEF BeforeOK

StopAll == Stopping \o <<<<"reload", "systemd">>>>

\* The commands of restore_unit_state: at most one unit is enabled again, and
\* then started.
LEMMA RestorationCommands ==
    ASSUME BeforeOK
    PROVE  /\ restore_unit_state[1] = <<"disable", "service">>
           /\ restore_unit_state[2] = <<"stop", "service">>
           /\ restore_unit_state[3] = <<"disable", "timer">>
           /\ restore_unit_state[4] = <<"stop", "timer">>
           /\ restore_unit_state[5] = <<"stop", "once">>
           /\ restore_unit_state[6] = <<"reload", "systemd">>
           /\ \/ /\ Len(restore_unit_state) = 6
                 /\ before.enabled = {} /\ before.active["service"] # "on"
                 /\ before.active["timer"] # "on"
              \/ \E u \in Units :
                    /\ Len(restore_unit_state) = 7
                    /\ restore_unit_state[7] = <<"enable", u>>
                    /\ before.enabled = {u} /\ before.active["service"] # "on"
                    /\ before.active["timer"] # "on"
              \/ \E u \in Units :
                    /\ Len(restore_unit_state) = 8
                    /\ restore_unit_state[7] = <<"enable", u>>
                    /\ restore_unit_state[8] = <<"start", u>>
                    /\ before.enabled = {u} /\ before.active[u] = "on"
                    /\ before.active[Other(u)] = "off"
<1>1. /\ StopAll \in Seq(Command) /\ Len(StopAll) = 6
      /\ StopAll[1] = <<"disable", "service">> /\ StopAll[2] = <<"stop", "service">>
      /\ StopAll[3] = <<"disable", "timer">> /\ StopAll[4] = <<"stop", "timer">>
      /\ StopAll[5] = <<"stop", "once">> /\ StopAll[6] = <<"reload", "systemd">>
  <2>1. Stopping \in Seq(Command) /\ <<<<"reload", "systemd">>>> \in Seq(Command)
    BY DEF Stopping, Command, Units
  <2>2. /\ Len(Stopping) = 5 /\ Len(<<<<"reload", "systemd">>>>) = 1
        /\ Stopping[1] = <<"disable", "service">> /\ Stopping[2] = <<"stop", "service">>
        /\ Stopping[3] = <<"disable", "timer">> /\ Stopping[4] = <<"stop", "timer">>
        /\ Stopping[5] = <<"stop", "once">>
    BY DEF Stopping
  <2>. DEFINE reload == <<<<"reload", "systemd">>>>
  <2>3. reload \in Seq(Command) /\ Len(reload) = 1 /\ reload[1] = <<"reload", "systemd">>
    BY <2>1
  <2>4. StopAll = Stopping \o reload
    BY DEF StopAll
  <2>. HIDE DEF reload
  <2>5. /\ StopAll \in Seq(Command) /\ Len(StopAll) = 6
        /\ \A i \in 1..Len(Stopping) : StopAll[i] = Stopping[i]
        /\ \A i \in 1..Len(reload) : StopAll[Len(Stopping) + i] = reload[i]
    <3>1. /\ StopAll \in Seq(Command) /\ Len(StopAll) = Len(Stopping) + Len(reload)
          /\ \A i \in 1..Len(Stopping) : StopAll[i] = Stopping[i]
          /\ \A i \in 1..Len(reload) : StopAll[Len(Stopping) + i] = reload[i]
      <4>1. Stopping \in Seq(Command)
        BY <2>1
      <4>2. reload \in Seq(Command)
        BY <2>3
      <4>. QED
        BY <4>1, <4>2, <2>4, ConcatAt
    <3>. QED
      BY <2>2, <2>3, <3>1
  <2>6. /\ StopAll[1] = Stopping[1] /\ StopAll[2] = Stopping[2] /\ StopAll[3] = Stopping[3]
        /\ StopAll[4] = Stopping[4] /\ StopAll[5] = Stopping[5] /\ StopAll[6] = reload[1]
    BY <2>2, <2>3, <2>5
  <2>. QED
    BY <2>2, <2>3, <2>5, <2>6
<1>2. Starting \in Seq(Command)
  <2>1. \A u \in Units : <<"enable", u>> \in Command /\ <<"start", u>> \in Command
    BY DEF Units, Command
  <2>2. ASSUME NEW u \in Units
        PROVE  /\ <<<<"enable", u>>>> \in Seq(Command)
               /\ <<<<"enable", u>>, <<"start", u>>>> \in Seq(Command)
    BY <2>1
  <2>3. <<>> \in Seq(Command)
    OBVIOUS
  <2>. QED
    BY <2>2, <2>3, StartingCases
<1>3. /\ Len(restore_unit_state) = 6 + Len(Starting)
      /\ \A i \in 1..6 : restore_unit_state[i] = StopAll[i]
      /\ \A i \in 1..Len(Starting) : restore_unit_state[6 + i] = Starting[i]
  BY <1>1, <1>2, ConcatAt DEF restore_unit_state, StopAll
<1>4. /\ restore_unit_state[1] = StopAll[1] /\ restore_unit_state[2] = StopAll[2]
      /\ restore_unit_state[3] = StopAll[3] /\ restore_unit_state[4] = StopAll[4]
      /\ restore_unit_state[5] = StopAll[5] /\ restore_unit_state[6] = StopAll[6]
  BY <1>3
<1>5. Starting = <<>> => Len(restore_unit_state) = 6
  BY <1>3
<1>6. \A u \in Units : Starting = <<<<"enable", u>>>> =>
          /\ Len(restore_unit_state) = 7
          /\ restore_unit_state[7] = <<"enable", u>>
  BY <1>3
<1>7. \A u \in Units : Starting = <<<<"enable", u>>, <<"start", u>>>> =>
          /\ Len(restore_unit_state) = 8
          /\ restore_unit_state[7] = <<"enable", u>> /\ restore_unit_state[8] = <<"start", u>>
  BY <1>3
<1>. QED
  BY <1>1, <1>4, <1>5, <1>6, <1>7, StartingCases

-----------------------------------------------------------------------------
(* The initial states, and the types *)

\* The initial states satisfy the invariant.
LEMMA InitIInv == Init => IInv
<1> SUFFICES ASSUME Init PROVE IInv
  OBVIOUS
<1>1. /\ pc = "stage" /\ at = 1 /\ recorded = {} /\ prepared = {} /\ incomplete = FALSE
      /\ once = FALSE /\ noStart \in BOOLEAN /\ mode \in Units
      /\ before = [files |-> files, directories |-> directories, enabled |-> enabled,
                   active |-> active]
  BY DEF Init
<1>2. stage \in [ToSet(Files) -> {"old", "new"}]
  BY DEF Init
<1>3. /\ files \in [ToSet(Files) -> FileStates]
      /\ directories \in [ToSet(Directories) -> {"none", "before", "managed"}]
      /\ loaded \in Versions
  BY DEF Init, FileStates, Versions, None
<1>4. /\ enabled \subseteq Units /\ active \in UnitStates
      /\ \/ enabled = {} /\ active["service"] = "off" /\ active["timer"] = "off"
         \/ enabled = {"timer"} /\ active["service"] = "off" /\ active["timer"] = "on"
         \/ /\ enabled = {"service"} /\ active["service"] \in {"on", "waiting"}
            /\ active["timer"] = "off"
  BY DEF Init, Off, Units, UnitStates
<1>5. BeforeOK
  BY <1>1, <1>3, <1>4 DEF BeforeOK
<1>6. TypeOK
  BY <1>1, <1>2, <1>3, <1>4 DEF TypeOK, HostOK, PositionOK, Forward
<1>7. InstallationSoFar /\ RollbackSoFar
  BY <1>1 DEF InstallationSoFar, RollbackSoFar
<1>8. ActivationSoFar /\ RestorationSoFar
  BY <1>1 DEF ActivationSoFar, RestorationSoFar
<1>9. OneMode
  BY <1>4 DEF OneMode, Units
<1>. QED
  BY <1>5, <1>6, <1>7, <1>8, <1>9 DEF IInv

\* The lists stay the same lists.
LEMMA ListsAreFixed ==
    /\ UNCHANGED <<mode, noStart>> => UNCHANGED activate_mode
    /\ UNCHANGED before => UNCHANGED restore_unit_state
<1>1. ASSUME mode' = mode, noStart' = noStart PROVE activate_mode' = activate_mode
  BY <1>1 DEF activate_mode, Commands, Other
<1>2. ASSUME before' = before PROVE restore_unit_state' = restore_unit_state
  <2>1. Starting' = Starting
    BY <1>2 DEF Starting
  <2>. QED
    BY <2>1 DEF restore_unit_state, Stopping
<1>. QED
  BY <1>1, <1>2

\* What every step leaves alone.
LEMMA OptionsAreFixed ==
    [Next]_vars => UNCHANGED <<mode, noStart, stage, before>>
BY DEF Next, Stage, PrepareDirectory, Die, RecordTarget, ReplaceFile, Activate, Abort,
       RollbackFile, RollbackDirectory, RestoreUnit, Kill, DaemonDies, DaemonRestarts,
       TimerFires, OnceEnds, vars, optionVars

\* A command that succeeds, one by one.
LEMMA CommandEffects ==
    ASSUME NEW c, NEW u, Systemctl(c, u)
    PROVE  /\ UNCHANGED <<files, directories>>
           /\ c = "reload" => loaded' = Version("unit") /\ UNCHANGED <<enabled, active, runs, once>>
           /\ c = "check" => Accepted /\ UNCHANGED <<loaded, enabled, active, runs, once>>
           /\ c = "disable" =>
                 enabled' = enabled \ {u} /\ UNCHANGED <<loaded, active, runs, once>>
           /\ c = "enable" =>
                 enabled' = enabled \cup {u} /\ UNCHANGED <<loaded, active, runs, once>>
           /\ c = "stop" /\ u = "once" =>
                 once' = FALSE /\ UNCHANGED <<loaded, enabled, active, runs>>
           /\ c = "stop" /\ u # "once" =>
                 /\ active' = [active EXCEPT ![u] = "off"]
                 /\ UNCHANGED <<loaded, enabled, runs, once>>
           /\ c = "start" =>
                 \/ active[u] = "on" /\ UNCHANGED <<loaded, enabled, active, runs, once>>
                 \/ active[u] # "on" /\ Start(u)
           /\ c = "restart" => Start(u)
           /\ c = "active" =>
                 active[u] = "on" /\ UNCHANGED <<loaded, enabled, active, runs, once>>
           /\ c = "stable" =>
                 /\ active[u] = "on" /\ (u = "service" => Builds)
                 /\ UNCHANGED <<loaded, enabled, active, runs, once>>
<1> DEFINE unchanged == UNCHANGED <<loaded, enabled, active, runs, once>>
<1>1. UNCHANGED <<files, directories>>
  BY DEF Systemctl
<1>2. CASE c \in {"reload", "check", "disable", "enable"}
  BY <1>2 DEF Systemctl
<1>3. CASE c \in {"stop", "start"}
  BY <1>3 DEF Systemctl
<1>4. CASE c \in {"restart", "active", "stable"}
  BY <1>4 DEF Systemctl
<1>. QED
  BY <1>1, <1>2, <1>3, <1>4

\* What a command may be given.
WellFormed(c, u) ==
    /\ c \in {"reload", "check", "disable", "enable", "stop", "start", "restart", "active",
              "stable"}
    /\ c \in {"disable", "enable", "start", "restart", "active", "stable"} => u \in Units
    /\ c = "stop" => u \in Units \cup {"once"}

LEMMA ActivationWellFormed ==
    ASSUME TypeOK, pc = "activate"
    PROVE  WellFormed(activate_mode[at][1], activate_mode[at][2])
<1>1. noStart \in BOOLEAN /\ mode \in Units /\ Other(mode) \in Units /\ at \in Nat
      /\ at \in 1..Len(activate_mode)
  BY DEF TypeOK, PositionOK, Units, Other
<1>2. CASE noStart
  <2>1. Len(activate_mode) = 1 /\ activate_mode[1] = <<"reload", "systemd">>
    BY <1>1, <1>2, ActivationCommands
  <2>2. at = 1
    BY <1>1, <2>1
  <2>. QED
    BY <2>1, <2>2 DEF WellFormed
<1>3. CASE ~noStart
  <2>1. Len(activate_mode) = 9
    BY <1>1, <1>3, ActivationCommands
  <2>2. at \in {1, 2, 3, 4, 5, 6, 7, 8, 9}
    BY <1>1, <2>1
  <2>. QED
    BY <1>1, <1>3, <2>2, ActivationCommands DEF WellFormed
<1>. QED
  BY <1>1, <1>2, <1>3

LEMMA RestorationWellFormed ==
    ASSUME BeforeOK, TypeOK, pc = "units"
    PROVE  WellFormed(restore_unit_state[at][1], restore_unit_state[at][2])
<1>1. at \in Nat /\ at \in 1..Len(restore_unit_state)
  BY DEF TypeOK, PositionOK
<1>2. at \in {1, 2, 3, 4, 5, 6} => WellFormed(restore_unit_state[at][1], restore_unit_state[at][2])
  BY RestorationCommands DEF WellFormed, Units
<1>3. CASE Len(restore_unit_state) = 6
  BY <1>1, <1>2, <1>3
<1>4. CASE Len(restore_unit_state) = 7
  <2>1. at \in {1, 2, 3, 4, 5, 6} \/ at = 7
    BY <1>1, <1>4
  <2>2. \E u \in Units : restore_unit_state[7] = <<"enable", u>>
    BY <1>4, RestorationCommands
  <2>. QED
    BY <1>2, <2>1, <2>2 DEF WellFormed
<1>5. CASE Len(restore_unit_state) = 8
  <2>1. at \in {1, 2, 3, 4, 5, 6} \/ at = 7 \/ at = 8
    BY <1>1, <1>5
  <2>2. \E u \in Units : /\ restore_unit_state[7] = <<"enable", u>>
                         /\ restore_unit_state[8] = <<"start", u>>
    BY <1>5, RestorationCommands
  <2>. QED
    BY <1>2, <2>1, <2>2 DEF WellFormed
<1>. QED
  BY <1>3, <1>4, <1>5, RestorationCommands

\* What a unit is started from.
LEMMA StartEffects ==
    ASSUME HostOK, NEW u \in Units, Start(u)
    PROVE  /\ active' \in UnitStates /\ active'[Other(u)] = active[Other(u)]
           /\ UNCHANGED <<loaded, enabled, once>>
           /\ u = "timer" => active'["timer"] = "on" /\ runs' = runs
           /\ u = "service" =>
                 /\ active'["service"] = IF once THEN "off" ELSE "on"
                 /\ runs' = [Installed EXCEPT !["unit"] = loaded]
<1>1. active \in UnitStates
  BY DEF HostOK
<1>2. CASE u = "service"
  <2>1. StartDaemon
    BY <1>2 DEF Start
  <2>. QED
    BY <1>1, <1>2, <2>1 DEF StartDaemon, UnitStates, Units, Other
<1>3. CASE u = "timer"
  <2>1. StartTimer
    BY <1>3 DEF Start
  <2>. QED
    BY <1>1, <1>3, <2>1 DEF StartTimer, UnitStates, Units, Other
<1>. QED
  BY <1>2, <1>3 DEF Units

\* When systemd has read the unit that is installed, a daemon runs from what is.
LEMMA RunsFromInstalled ==
    ASSUME HostOK, loaded = Version("unit")
    PROVE  [Installed EXCEPT !["unit"] = loaded] = Installed
BY Lists DEF Installed, Version

\* A command keeps the types.
LEMMA CommandTypes ==
    ASSUME HostOK, NEW c, NEW u, WellFormed(c, u), Systemctl(c, u)
    PROVE  HostOK'
<1>1. UNCHANGED <<files, directories>>
  BY CommandEffects
<1>2. loaded' \in Versions
  <2>1. Version("unit") \in Versions
    BY Lists DEF HostOK, Version, FileStates
  <2>. QED
    BY <2>1, CommandEffects, StartEffects DEF HostOK, WellFormed
<1>3. enabled' \subseteq Units
  <2>1. enabled \subseteq Units /\ (c \in {"enable", "start", "restart"} => u \in Units)
    BY DEF HostOK, WellFormed
  <2>2. CASE c = "enable"
    <3>1. enabled' = enabled \cup {u}
      BY <2>2, CommandEffects
    <3>. QED
      BY <2>1, <2>2, <3>1
  <2>3. CASE c = "disable"
    <3>1. enabled' = enabled \ {u}
      BY <2>3, CommandEffects
    <3>. QED
      BY <2>1, <3>1
  <2>4. CASE c \notin {"enable", "disable"}
    <3>1. enabled' = enabled
      <4>1. CASE c = "start"
        BY <2>1, <4>1, CommandEffects, StartEffects
      <4>2. CASE c = "restart"
        BY <2>1, <4>2, CommandEffects, StartEffects
      <4>3. CASE c \in {"reload", "check"}
        BY <4>3, CommandEffects
      <4>4. CASE c \in {"stop", "active", "stable"}
        BY <4>4, CommandEffects
      <4>. QED
        BY <2>4, <4>1, <4>2, <4>3, <4>4 DEF WellFormed
    <3>. QED
      BY <2>1, <3>1
  <2>. QED
    BY <2>2, <2>3, <2>4
<1>4. active' \in UnitStates
  <2>1. c = "stop" /\ u # "once" => active' \in UnitStates
    BY CommandEffects DEF HostOK, WellFormed, UnitStates
  <2>. QED
    BY <2>1, CommandEffects, StartEffects DEF HostOK, WellFormed
<1>5. once' \in BOOLEAN
  BY CommandEffects, StartEffects DEF HostOK, WellFormed
<1>. QED
  BY <1>1, <1>2, <1>3, <1>4, <1>5 DEF HostOK

\* The types are an invariant of every step.
LEMMA StepTypeOK ==
    ASSUME BeforeOK, TypeOK, [Next]_vars
    PROVE  TypeOK'
<1>1. UNCHANGED <<mode, noStart, stage, before, activate_mode, restore_unit_state>>
  BY OptionsAreFixed, ListsAreFixed
<1>2. /\ Len(activate_mode) \in Nat /\ Len(activate_mode) > 0
      /\ Len(restore_unit_state) \in Nat /\ Len(restore_unit_state) > 0
  BY ActivationCommands, RestorationCommands DEF TypeOK
<1>3. /\ mode' \in Units /\ noStart' \in BOOLEAN
      /\ stage' \in [ToSet(Files) -> {"old", "new"}]
  BY <1>1 DEF TypeOK
<1> DEFINE Transaction ==
        /\ incomplete' \in BOOLEAN
        /\ recorded' \subseteq ToSet(Files) /\ prepared' \subseteq ToSet(Directories)
<1>4. Transaction /\ HostOK' /\ PositionOK' => TypeOK'
  BY <1>3 DEF TypeOK
<1>5. UNCHANGED hostVars => HostOK'
  BY DEF TypeOK, HostOK, hostVars
<1>6. UNCHANGED <<incomplete, recorded, prepared>> => Transaction
  BY DEF TypeOK
<1>7. UNCHANGED <<pc, at>> => PositionOK'
  BY <1>1 DEF TypeOK, PositionOK
<1>8. CASE Stage
  <2>1. PositionOK'
    BY <1>8, Lists DEF Stage, TypeOK, PositionOK, Forward
  <2>. QED
    BY <1>4, <1>5, <1>6, <1>8, <2>1 DEF Stage
<1>9. CASE PrepareDirectory
  <2>1. at \in 1..Len(Directories) /\ at \in Nat /\ Directories[at] \in ToSet(Directories)
    BY <1>9, Lists DEF PrepareDirectory, TypeOK, PositionOK
  <2>2. PositionOK'
    <3>1. pc' = "install" /\ at' \in {at, at + 1}
      BY <1>9 DEF PrepareDirectory
    <3>2. at' \in 1..(Len(Directories) + Len(Files)) /\ at' \in Nat
      BY <2>1, <3>1, Lists
    <3>. QED
      BY <3>1, <3>2 DEF PositionOK, Forward
  <2>3. directories' \in [ToSet(Directories) -> {"none", "before", "managed"}]
    BY <1>9, <2>1 DEF PrepareDirectory, TypeOK, HostOK
  <2>4. HostOK'
    BY <1>9, <2>3 DEF PrepareDirectory, TypeOK, HostOK
  <2>5. Transaction
    BY <1>9, <2>1 DEF PrepareDirectory, TypeOK
  <2>. QED
    BY <1>4, <2>2, <2>4, <2>5
<1>10. CASE Die
  <2>1. PositionOK'
    BY <1>10 DEF Die, TypeOK, PositionOK, Forward
  <2>. QED
    BY <1>4, <1>5, <1>6, <1>10, <2>1 DEF Die
<1>11. CASE RecordTarget
  <2>1. CurrentFile \in ToSet(Files)
    BY <1>11, Lists DEF RecordTarget, TypeOK, PositionOK, CurrentFile
  <2>2. Transaction
    BY <1>11, <2>1 DEF RecordTarget, TypeOK
  <2>. QED
    BY <1>4, <1>5, <1>7, <1>11, <2>2 DEF RecordTarget
<1>12. CASE ReplaceFile
  <2>1. CurrentFile \in ToSet(Files) /\ at \in Nat
        /\ at \in (Len(Directories) + 1)..(Len(Directories) + Len(Files))
    BY <1>12, Lists DEF ReplaceFile, TypeOK, PositionOK, CurrentFile
  <2>2. PositionOK'
    <3>1. CASE at = Len(Directories) + Len(Files)
      BY <1>1, <1>2, <1>12, <3>1 DEF ReplaceFile, PositionOK, Forward
    <3>2. CASE at # Len(Directories) + Len(Files)
      <4>1. pc' = "install" /\ at' = at + 1
        BY <1>12, <3>2 DEF ReplaceFile
      <4>2. at' \in 1..(Len(Directories) + Len(Files)) /\ at' \in Nat
        BY <2>1, <3>2, <4>1, Lists
      <4>. QED
        BY <4>1, <4>2 DEF PositionOK, Forward
    <3>. QED
      BY <3>1, <3>2
  <2>3. New(CurrentFile) \in FileStates
    BY <2>1 DEF New, FileStates, Versions, TypeOK
  <2>4. HostOK'
    BY <1>12, <2>1, <2>3 DEF ReplaceFile, TypeOK, HostOK, New
  <2>. QED
    BY <1>4, <1>6, <1>12, <2>2, <2>4 DEF ReplaceFile
<1>13. CASE Activate
  <2>1. HostOK'
    BY <1>13, ActivationWellFormed, CommandTypes DEF Activate, TypeOK
  <2>2. PositionOK'
    BY <1>1, <1>2, <1>13 DEF Activate, TypeOK, PositionOK, Forward
  <2>. QED
    BY <1>4, <1>6, <1>13, <2>1, <2>2 DEF Activate
<1>14. CASE Abort
  <2>1. PositionOK'
    BY <1>14, Lists DEF Abort, PositionOK, Rollback
  <2>. QED
    BY <1>4, <1>5, <1>6, <1>14, <2>1 DEF Abort
<1>15. CASE RollbackFile
  <2>1. at \in 1..Len(Files) /\ at \in Nat /\ Files[at] \in ToSet(Files)
    BY <1>15, Lists DEF RollbackFile, TypeOK, PositionOK
  <2>2. PositionOK'
    BY <1>15, <2>1, Lists DEF RollbackFile, PositionOK, Rollback
  <2>3. files' \in [ToSet(Files) -> FileStates] /\ incomplete' \in BOOLEAN
    BY <1>15, <2>1 DEF RollbackFile, TypeOK, HostOK, BeforeOK
  <2>4. HostOK'
    BY <1>15, <2>3 DEF RollbackFile, TypeOK, HostOK
  <2>5. Transaction
    BY <1>15, <2>3 DEF RollbackFile, TypeOK
  <2>. QED
    BY <1>4, <2>2, <2>4, <2>5
<1>16. CASE RollbackDirectory
  <2>1. at \in 1..Len(Directories) /\ at \in Nat /\ Directories[at] \in ToSet(Directories)
    BY <1>16, Lists DEF RollbackDirectory, TypeOK, PositionOK
  <2>2. PositionOK'
    BY <1>1, <1>2, <1>16, <2>1 DEF RollbackDirectory, PositionOK, Rollback
  <2>3. /\ directories' \in [ToSet(Directories) -> {"none", "before", "managed"}]
        /\ incomplete' \in BOOLEAN
    BY <1>16, <2>1 DEF RollbackDirectory, TypeOK, HostOK, BeforeOK
  <2>4. HostOK'
    BY <1>16, <2>3 DEF RollbackDirectory, TypeOK, HostOK
  <2>5. Transaction
    BY <1>16, <2>3 DEF RollbackDirectory, TypeOK
  <2>. QED
    BY <1>4, <2>2, <2>4, <2>5
<1>17. CASE RestoreUnit
  <2>1. HostOK'
    <3>1. CASE UNCHANGED hostVars
      BY <1>5, <3>1
    <3>2. CASE Systemctl(restore_unit_state[at][1], restore_unit_state[at][2])
      BY <1>17, <3>2, RestorationWellFormed, CommandTypes DEF RestoreUnit, TypeOK
    <3>. QED
      BY <1>17, <3>1, <3>2 DEF RestoreUnit
  <2>2. PositionOK'
    BY <1>1, <1>2, <1>17 DEF RestoreUnit, TypeOK, PositionOK, Rollback
  <2>3. Transaction
    BY <1>17 DEF RestoreUnit, TypeOK
  <2>. QED
    BY <1>4, <2>1, <2>2, <2>3
<1>18. CASE Kill
  <2>1. PositionOK'
    BY <1>18 DEF Kill, TypeOK, PositionOK, Rollback
  <2>. QED
    BY <1>4, <1>5, <1>6, <1>18, <2>1 DEF Kill
<1>19. CASE DaemonDies
  <2>1. HostOK'
    BY <1>19 DEF DaemonDies, TypeOK, HostOK, UnitStates
  <2>. QED
    BY <1>4, <1>6, <1>7, <1>19, <2>1 DEF DaemonDies
<1>20. CASE DaemonRestarts
  <2>1. active' \in UnitStates /\ UNCHANGED <<loaded, enabled, once>>
    BY <1>20 DEF DaemonRestarts, StartDaemon, TypeOK, HostOK, UnitStates
  <2>2. HostOK'
    BY <1>20, <2>1 DEF DaemonRestarts, TypeOK, HostOK
  <2>. QED
    BY <1>4, <1>6, <1>7, <1>20, <2>2 DEF DaemonRestarts
<1>21. CASE TimerFires \/ OnceEnds
  <2>1. HostOK'
    BY <1>21 DEF TimerFires, OnceEnds, TypeOK, HostOK
  <2>. QED
    BY <1>4, <1>6, <1>7, <1>21, <2>1 DEF TimerFires, OnceEnds
<1>22. CASE UNCHANGED vars
  BY <1>4, <1>5, <1>6, <1>7, <1>22 DEF vars, hostVars
<1>. QED
  BY <1>8, <1>9, <1>10, <1>11, <1>12, <1>13, <1>14, <1>15, <1>16, <1>17, <1>18, <1>19,
     <1>20, <1>21, <1>22 DEF Next

-----------------------------------------------------------------------------
(* The steps of the script and of systemd *)

\* Where a step leads to.
LEMMA Phases ==
    ASSUME TypeOK
    PROVE  /\ Stage => pc = "stage" /\ pc' = "install" /\ at = 1 /\ at' = at /\ UNCHANGED hostVars
           /\ PrepareDirectory \/ RecordTarget => pc = "install" /\ pc' = "install"
           /\ Die => pc' = "died" /\ UNCHANGED hostVars
           /\ ReplaceFile => pc = "install" /\ pc' \in {"install", "activate"} /\ (pc' = "activate" => at' = 1)
           /\ Activate => pc = "activate" /\ pc' \in {"activate", "done"} /\ at' = at + 1
           /\ Abort => pc' = "files" /\ UNCHANGED hostVars
           /\ RollbackFile => pc = "files" /\ pc' \in {"files", "directories"}
           /\ RollbackDirectory =>
                 pc = "directories" /\ pc' \in {"directories", "units"} /\ (pc' = "units" => at' = 1)
           /\ RestoreUnit => pc = "units" /\ pc' \in {"units", "exit"} /\ at' = at + 1
           /\ Kill => pc' = "killed" /\ UNCHANGED hostVars
BY DEF TypeOK, PositionOK, Stage, PrepareDirectory, RecordTarget, Die, ReplaceFile, Activate,
       Abort, RollbackFile, RollbackDirectory, RestoreUnit, Kill

SystemdStep == DaemonDies \/ DaemonRestarts \/ TimerFires \/ OnceEnds

\* What systemd does by itself: nothing is switched on or off, but by a lock that
\* is held, and a daemon runs from what systemd has read.
LEMMA SystemdEffects ==
    ASSUME TypeOK, SystemdStep
    PROVE  /\ UNCHANGED <<verdict, pc, at, recorded, prepared, incomplete, files, directories,
                          loaded, enabled>>
           /\ pc \notin {"done", "exit"}
           /\ active["service"] = "off" => active'["service"] = "off"
           /\ active["service"] # "off" /\ ~once => active'["service"] # "off"
           /\ active'["timer"] = active["timer"]
           /\ runs' = runs \/ runs' = [Installed EXCEPT !["unit"] = loaded]
           /\ once' => once \/ active["timer"] = "on"
<1>1. active \in UnitStates
  BY DEF TypeOK, HostOK
<1>2. CASE DaemonDies
  BY <1>1, <1>2 DEF DaemonDies, Running, UnitStates, Units
<1>3. CASE DaemonRestarts
  BY <1>1, <1>3 DEF DaemonRestarts, StartDaemon, Running, UnitStates, Units
<1>4. CASE TimerFires
  BY <1>4 DEF TimerFires, Running
<1>5. CASE OnceEnds
  BY <1>5 DEF OnceEnds, Running
<1>. QED
  BY <1>2, <1>3, <1>4, <1>5 DEF SystemdStep

\* What the script does outside the two lists of commands.
ScriptStep ==
    \/ Stage \/ PrepareDirectory \/ Die \/ RecordTarget \/ ReplaceFile \/ Abort
    \/ RollbackFile \/ RollbackDirectory \/ Kill

LEMMA ScriptEffects ==
    ASSUME ScriptStep
    PROVE  UNCHANGED <<loaded, enabled, active, runs, once>>
BY DEF ScriptStep, Stage, PrepareDirectory, Die, RecordTarget, ReplaceFile, Abort, RollbackFile,
       RollbackDirectory, Kill, hostVars

LEMMA StepCases ==
    ASSUME [Next]_vars
    PROVE  ScriptStep \/ Activate \/ RestoreUnit \/ SystemdStep \/ UNCHANGED vars
BY DEF Next, ScriptStep, SystemdStep

\* No command changes a file or a directory.
LEMMA CommandsKeepFiles ==
    ASSUME Activate \/ RestoreUnit
    PROVE  UNCHANGED <<files, directories, verdict, recorded, prepared>>
BY CommandEffects DEF Activate, RestoreUnit, hostVars

-----------------------------------------------------------------------------
(* Files and directories *)

\* What is installed stays installed until a rollback.
LEMMA StepInstallation ==
    ASSUME IInv, [Next]_vars
    PROVE  InstallationSoFar'
<1>1. TypeOK /\ InstallationSoFar /\ UNCHANGED stage
  BY OptionsAreFixed DEF IInv
<1>2. at \in Nat /\ Len(Directories) \in Nat /\ DOMAIN Files = 1..Len(Files)
      /\ Len(Files) \in Nat
  BY <1>1, Lists DEF TypeOK, PositionOK
<1>3. ASSUME UNCHANGED <<files, pc, at>> PROVE InstallationSoFar'
  BY <1>1, <1>3 DEF InstallationSoFar, New
<1>4. ASSUME pc' \in Rollback \cup {"died"} PROVE InstallationSoFar'
  BY <1>4 DEF InstallationSoFar, Rollback
<1>5. CASE Stage
  BY <1>1, <1>2, <1>5, Phases DEF InstallationSoFar
<1>6. CASE PrepareDirectory
  <2>1. pc' = "install" /\ at' \in Nat /\ at' <= Len(Directories) + 1
    BY <1>2, <1>6 DEF PrepareDirectory
  <2>2. \A i \in DOMAIN Files : ~(at' > Len(Directories) + i)
    BY <1>2, <2>1
  <2>. QED
    BY <2>1, <2>2 DEF InstallationSoFar
<1>7. CASE RecordTarget
  BY <1>3, <1>7 DEF RecordTarget, hostVars
<1>8. CASE ReplaceFile
  <2>. DEFINE last == at - Len(Directories)
  <2>1. /\ pc = "install" /\ last \in 1..Len(Files) /\ CurrentFile = Files[last]
        /\ files' = [files EXCEPT ![CurrentFile] = New(CurrentFile)]
    BY <1>2, <1>8 DEF ReplaceFile, CurrentFile, New
  <2>2. files \in [ToSet(Files) -> FileStates]
    BY <1>1 DEF TypeOK, HostOK
  <2>3. \A f \in ToSet(Files) : New(f)' = New(f)
    BY <1>1 DEF New
  <2>4. ASSUME NEW i \in 1..Len(Files), i <= last
        PROVE  files'[Files[i]] = New(Files[i])'
    <3>1. Files[i] \in ToSet(Files)
      BY Lists
    <3>2. CASE i = last
      BY <2>1, <2>2, <2>3, <3>1, <3>2
    <3>3. CASE i < last
      <4>1. Files[i] # CurrentFile
        BY <2>1, <3>3, Lists
      <4>2. files[Files[i]] = New(Files[i])
        BY <1>1, <1>2, <2>1, <3>3 DEF InstallationSoFar
      <4>. QED
        BY <2>1, <2>2, <2>3, <3>1, <4>1, <4>2
    <3>. QED
      BY <1>2, <2>4, <3>2, <3>3
  <2>5. CASE at = Len(Directories) + Len(Files)
    <3>1. pc' = "activate"
      BY <1>8, <2>5 DEF ReplaceFile
    <3>2. \A i \in DOMAIN Files : i <= last
      BY <1>2, <2>5
    <3>. QED
      BY <1>2, <2>4, <3>1, <3>2 DEF InstallationSoFar
  <2>6. CASE at # Len(Directories) + Len(Files)
    <3>1. pc' = "install" /\ at' = at + 1
      BY <1>8, <2>1, <2>6 DEF ReplaceFile
    <3>2. \A i \in DOMAIN Files : at' > Len(Directories) + i => i <= last
      BY <1>2, <3>1
    <3>. QED
      BY <1>2, <2>4, <3>1, <3>2 DEF InstallationSoFar
  <2>. QED
    BY <2>5, <2>6
<1>9. CASE Activate
  <2>1. pc = "activate" /\ pc' \in {"activate", "done"} /\ UNCHANGED files
    BY <1>1, <1>9, Phases, CommandsKeepFiles
  <2>. QED
    BY <1>1, <2>1 DEF InstallationSoFar, New
<1>10. CASE Die \/ Abort \/ RollbackFile \/ RollbackDirectory \/ RestoreUnit \/ Kill
  BY <1>1, <1>4, <1>10, Phases DEF Rollback
<1>11. CASE SystemdStep
  BY <1>1, <1>3, <1>11, SystemdEffects
<1>12. CASE UNCHANGED vars
  BY <1>3, <1>12 DEF vars, hostVars
<1>. QED
  BY <1>5, <1>6, <1>7, <1>8, <1>9, <1>10, <1>11, <1>12, StepCases DEF ScriptStep

\* Only what can be restored was changed, and it is restored from the last file
\* to the first directory.
LEMMA StepRollback ==
    ASSUME IInv, [Next]_vars
    PROVE  RollbackSoFar'
<1>1. BeforeOK /\ TypeOK /\ RollbackSoFar /\ UNCHANGED before
  BY OptionsAreFixed DEF IInv
<1>2. /\ at \in Nat /\ pc \in Forward \cup Rollback /\ incomplete \in BOOLEAN
      /\ files \in [ToSet(Files) -> FileStates]
      /\ directories \in [ToSet(Directories) -> {"none", "before", "managed"}]
      /\ recorded \subseteq ToSet(Files) /\ prepared \subseteq ToSet(Directories)
      /\ pc = "files" => at \in 1..Len(Files)
      /\ pc = "directories" => at \in 1..Len(Directories)
  BY <1>1 DEF TypeOK, HostOK, PositionOK
<1> DEFINE Recorded == \A f \in ToSet(Files) \ recorded : files[f] = before.files[f]
           Prepared == \A d \in ToSet(Directories) \ prepared :
                           directories[d] = before.directories[d]
<1>3. Recorded /\ Prepared
  BY <1>1 DEF RollbackSoFar
<1>4. ASSUME UNCHANGED <<files, recorded>> PROVE Recorded'
  BY <1>1, <1>3, <1>4
<1>5. ASSUME UNCHANGED <<directories, prepared>> PROVE Prepared'
  BY <1>1, <1>3, <1>5
<1>6. ASSUME Recorded', Prepared', pc \in Forward, pc' \in Forward, UNCHANGED incomplete
      PROVE  RollbackSoFar'
  BY <1>1, <1>6 DEF RollbackSoFar, Forward, Rollback
<1>7. ASSUME Recorded', Prepared', pc' = "killed"
      PROVE  RollbackSoFar'
  BY <1>7 DEF RollbackSoFar, Forward
<1>8. CASE PrepareDirectory
  <2>1. pc = "install" /\ pc' = "install" /\ UNCHANGED <<files, recorded, incomplete>>
    BY <1>8 DEF PrepareDirectory
  <2>2. Prepared'
    BY <1>1, <1>2, <1>3, <1>8 DEF PrepareDirectory
  <2>. QED
    BY <1>4, <1>6, <2>1, <2>2 DEF Forward
<1>9. CASE RecordTarget
  <2>1. /\ pc = "install" /\ pc' = "install" /\ UNCHANGED <<directories, prepared, incomplete>>
        /\ UNCHANGED files /\ recorded \subseteq recorded'
    BY <1>9 DEF RecordTarget, hostVars
  <2>2. Recorded'
    BY <1>1, <1>3, <2>1
  <2>. QED
    BY <1>5, <1>6, <2>1, <2>2 DEF Forward
<1>10. CASE ReplaceFile
  <2>1. /\ pc = "install" /\ pc' \in {"install", "activate"}
        /\ UNCHANGED <<directories, prepared, incomplete, recorded>>
        /\ CurrentFile \in recorded /\ files' = [files EXCEPT ![CurrentFile] = New(CurrentFile)]
    BY <1>10 DEF ReplaceFile, New
  <2>2. Recorded'
    BY <1>1, <1>2, <1>3, <2>1
  <2>. QED
    BY <1>5, <1>6, <2>1, <2>2 DEF Forward
<1>11. CASE Stage \/ Die \/ Activate
  <2>1. UNCHANGED <<files, directories, recorded, prepared, incomplete>>
    BY <1>11, CommandsKeepFiles DEF Stage, Die, Activate, hostVars
  <2>2. pc \in {"stage", "install", "activate"}
        /\ pc' \in {"install", "died", "activate", "done"}
    BY <1>11 DEF Stage, Die, Activate
  <2>. QED
    BY <1>4, <1>5, <1>6, <2>1, <2>2 DEF Forward
<1>12. CASE Abort
  <2>1. /\ pc' = "files" /\ at' = Len(Files)
        /\ UNCHANGED <<files, directories, recorded, prepared, incomplete>>
    BY <1>12 DEF Abort, hostVars
  <2>2. \A i \in DOMAIN Files : ~(i > at')
    BY <2>1, Lists
  <2>. QED
    BY <1>4, <1>5, <2>1, <2>2 DEF RollbackSoFar, Forward
<1>13. CASE RollbackFile
  <2>. DEFINE f == Files[at]
  <2>1. /\ pc = "files" /\ at \in 1..Len(Files) /\ f \in ToSet(Files)
        /\ UNCHANGED <<directories, recorded, prepared>>
    BY <1>2, <1>13, Lists DEF RollbackFile
  <2>2. \/ UNCHANGED files
        \/ files' = [files EXCEPT ![f] = before.files[f]]
    BY <1>13 DEF RollbackFile
  <2>3. Recorded'
    BY <1>1, <1>2, <1>3, <2>1, <2>2
  <2>4. ~incomplete' => ~incomplete /\ files'[f] = before.files[f]
    BY <1>2, <1>3, <1>13, <2>1 DEF RollbackFile
  <2>5. ASSUME ~incomplete', NEW i \in 1..Len(Files), i >= at
        PROVE  files'[Files[i]] = before'.files[Files[i]]
    <3>1. Files[i] \in ToSet(Files)
      BY Lists
    <3>2. CASE i = at
      BY <1>1, <2>4, <2>5, <3>2
    <3>3. CASE i > at
      <4>1. files[Files[i]] = before.files[Files[i]]
        BY <1>1, <2>1, <2>4, <2>5, <3>3, Lists DEF RollbackSoFar
      <4>. QED
        BY <1>1, <1>2, <2>1, <2>2, <3>1, <4>1
    <3>. QED
      BY <1>2, <2>5, <3>2, <3>3
  <2>6. CASE at = 1
    <3>1. pc' = "directories" /\ at' = Len(Directories)
      BY <1>13, <2>6 DEF RollbackFile
    <3>2. ~incomplete' => \A g \in ToSet(Files) : files'[g] = before'.files[g]
      BY <2>5, <2>6, Lists
    <3>3. \A i \in DOMAIN Directories : ~(i > at')
      BY <3>1, Lists
    <3>. QED
      BY <1>5, <2>1, <2>3, <3>1, <3>2, <3>3 DEF RollbackSoFar, Forward
  <2>7. CASE at # 1
    <3>1. pc' = "files" /\ at' = at - 1
      BY <1>13, <2>1, <2>7 DEF RollbackFile
    <3>2. \A i \in 1..Len(Files) : i > at' => i >= at
      BY <1>2, <3>1, Lists
    <3>. QED
      BY <1>5, <2>1, <2>3, <2>5, <3>1, <3>2, Lists DEF RollbackSoFar, Forward
  <2>. QED
    BY <2>6, <2>7
<1>14. CASE RollbackDirectory
  <2>. DEFINE d == Directories[at]
  <2>1. /\ pc = "directories" /\ at \in 1..Len(Directories) /\ d \in ToSet(Directories)
        /\ UNCHANGED <<files, recorded, prepared>>
    BY <1>2, <1>14, Lists DEF RollbackDirectory
  <2>2. \/ UNCHANGED directories
        \/ directories' = [directories EXCEPT ![d] = before.directories[d]]
    BY <1>14 DEF RollbackDirectory
  <2>3. Prepared'
    BY <1>1, <1>2, <1>3, <2>1, <2>2
  <2>4. ~incomplete' =>
            ~incomplete /\ (before.directories[d] # "none" => directories'[d] = before.directories[d])
    BY <1>2, <1>3, <1>14, <2>1 DEF RollbackDirectory, Restorable
  <2>5. ASSUME ~incomplete', NEW i \in 1..Len(Directories), i >= at,
               before.directories[Directories[i]] # "none"
        PROVE  directories'[Directories[i]] = before'.directories[Directories[i]]
    <3>1. Directories[i] \in ToSet(Directories)
      BY Lists
    <3>2. CASE i = at
      BY <1>1, <2>4, <2>5, <3>2
    <3>3. CASE i > at
      <4>1. directories[Directories[i]] = before.directories[Directories[i]]
        BY <1>1, <2>1, <2>4, <2>5, <3>3, Lists DEF RollbackSoFar
      <4>. QED
        BY <1>1, <1>2, <2>1, <2>2, <3>1, <4>1
    <3>. QED
      BY <1>2, <2>5, <3>2, <3>3
  <2>6. ~incomplete' => \A g \in ToSet(Files) : files'[g] = before'.files[g]
    BY <1>1, <2>1, <2>4 DEF RollbackSoFar
  <2>7. CASE at = 1
    <3>1. pc' = "units"
      BY <1>14, <2>7 DEF RollbackDirectory
    <3>2. ~incomplete' => \A e \in ToSet(Directories) :
              before'.directories[e] # "none" => directories'[e] = before'.directories[e]
      BY <1>1, <2>5, <2>7, Lists
    <3>. QED
      BY <1>4, <2>1, <2>3, <2>6, <3>1, <3>2 DEF RollbackSoFar, Forward
  <2>8. CASE at # 1
    <3>1. pc' = "directories" /\ at' = at - 1
      BY <1>14, <2>1, <2>8 DEF RollbackDirectory
    <3>2. \A i \in 1..Len(Directories) : i > at' => i >= at
      BY <1>2, <3>1, Lists
    <3>. QED
      BY <1>1, <1>4, <2>1, <2>3, <2>5, <2>6, <3>1, <3>2, Lists DEF RollbackSoFar, Forward
  <2>. QED
    BY <2>7, <2>8
<1>15. CASE RestoreUnit
  <2>1. pc = "units" /\ pc' \in {"units", "exit"}
    BY <1>1, <1>15, Phases
  <2>2. UNCHANGED <<files, directories, recorded, prepared>>
    BY <1>15, CommandsKeepFiles
  <2>3. ~incomplete' => ~incomplete
    BY <1>15 DEF RestoreUnit
  <2>. QED
    BY <1>1, <1>4, <1>5, <2>1, <2>2, <2>3 DEF RollbackSoFar, Forward
<1>16. CASE Kill
  <2>1. pc' = "killed" /\ UNCHANGED <<files, directories, recorded, prepared>>
    BY <1>16 DEF Kill, hostVars
  <2>. QED
    BY <1>4, <1>5, <1>7, <2>1
<1>17. CASE UNCHANGED <<pc, at, recorded, prepared, incomplete, files, directories>>
  BY <1>1, <1>17 DEF RollbackSoFar
<1>18. CASE SystemdStep \/ UNCHANGED vars
  BY <1>1, <1>17, <1>18, SystemdEffects DEF vars, hostVars
<1>. QED
  BY <1>8, <1>9, <1>10, <1>11, <1>12, <1>13, <1>14, <1>15, <1>16, <1>18, StepCases
     DEF ScriptStep

-----------------------------------------------------------------------------
(* The commands of activate_mode *)

\* Where a unit is started from the unit that is installed.
LEMMA StartsInstalled ==
    ASSUME HostOK, loaded = Version("unit"), UNCHANGED files,
           runs' = [Installed EXCEPT !["unit"] = loaded]
    PROVE  runs' = Installed'
<1>1. Installed' = Installed
  BY DEF Installed, Version
<1>. QED
  BY <1>1, RunsFromInstalled

\* activate_mode with --no-start is one command.
LEMMA NoStart ==
    ASSUME IInv, Activate, noStart
    PROVE  /\ at = 1 /\ at' = 2 /\ pc' = "done"
           /\ Systemctl("reload", "systemd")
<1>1. /\ pc = "activate" /\ at \in 1..Len(activate_mode) /\ at \in Nat /\ noStart \in BOOLEAN
  BY DEF IInv, TypeOK, PositionOK, Activate
<1>2. Len(activate_mode) = 1 /\ activate_mode[1] = <<"reload", "systemd">>
  BY <1>1, ActivationCommands
<1>3. at = 1
  BY <1>1, <1>2
<1>. QED
  BY <1>2, <1>3 DEF Activate

\* Otherwise it is nine.
LEMMA Starts ==
    ASSUME IInv, Activate, ~noStart
    PROVE  /\ at \in {1, 2, 3, 4, 5, 6, 7, 8, 9} /\ at' = at + 1
           /\ pc = "activate" /\ pc' = IF at = 9 THEN "done" ELSE "activate"
           /\ at = 1 => Systemctl("reload", "systemd")
           /\ at = 2 => Systemctl("check", "config")
           /\ at = 3 => Systemctl("disable", Other(mode))
           /\ at = 4 => Systemctl("stop", Other(mode))
           /\ at = 5 => Systemctl("stop", "once")
           /\ at = 6 => Systemctl("enable", mode)
           /\ at = 7 => Systemctl("restart", mode)
           /\ at = 8 => Systemctl("active", mode)
           /\ at = 9 => Systemctl("stable", mode)
<1>1. /\ pc = "activate" /\ at \in 1..Len(activate_mode) /\ at \in Nat /\ noStart \in BOOLEAN
  BY DEF IInv, TypeOK, PositionOK, Activate
<1>2. Len(activate_mode) = 9
  BY <1>1, ActivationCommands
<1>3. at \in {1, 2, 3, 4, 5, 6, 7, 8, 9}
  BY <1>1, <1>2
<1>4. /\ at' = at + 1 /\ pc' = IF at = 9 THEN "done" ELSE "activate"
      /\ Systemctl(activate_mode[at][1], activate_mode[at][2])
  BY <1>1, <1>2 DEF Activate
<1>5. /\ activate_mode[1] = <<"reload", "systemd">> /\ activate_mode[2] = <<"check", "config">>
      /\ activate_mode[3] = <<"disable", Other(mode)>>
      /\ activate_mode[4] = <<"stop", Other(mode)>>
      /\ activate_mode[5] = <<"stop", "once">>
      /\ activate_mode[6] = <<"enable", mode>>
      /\ activate_mode[7] = <<"restart", mode>>
      /\ activate_mode[8] = <<"active", mode>>
      /\ activate_mode[9] = <<"stable", mode>>
  BY <1>1, ActivationCommands
<1>6. /\ at = 1 => Systemctl("reload", "systemd")
      /\ at = 2 => Systemctl("check", "config")
      /\ at = 3 => Systemctl("disable", Other(mode))
      /\ at = 4 => Systemctl("stop", Other(mode))
      /\ at = 5 => Systemctl("stop", "once")
  BY <1>4, <1>5
<1>7. /\ at = 6 => Systemctl("enable", mode)
      /\ at = 7 => Systemctl("restart", mode)
      /\ at = 8 => Systemctl("active", mode)
      /\ at = 9 => Systemctl("stable", mode)
  BY <1>4, <1>5
<1>. QED
  BY <1>1, <1>3, <1>4, <1>6, <1>7

\* Every command of activate_mode achieves what it is for, and systemd undoes
\* none of it.
LEMMA StepActivation ==
    ASSUME IInv, [Next]_vars
    PROVE  ActivationSoFar'
<1>1. TypeOK /\ HostOK /\ ActivationSoFar
  BY DEF IInv, TypeOK
<1>2. /\ UNCHANGED <<mode, noStart, before>> /\ noStart \in BOOLEAN
      /\ at \in Nat /\ mode \in Units /\ active \in UnitStates /\ enabled \subseteq Units
  BY OptionsAreFixed DEF IInv, TypeOK, HostOK, PositionOK
<1>3. Other(mode) \in Units /\ Other(mode) # mode /\ mode # "once" /\ Other(mode) # "once"
      /\ UNCHANGED Other(mode)
  BY <1>2 DEF Units, Other
<1>4. ASSUME pc' \in Rollback \cup {"died"} PROVE ActivationSoFar'
  BY <1>4 DEF ActivationSoFar, Rollback
<1>5. CASE Stage \/ PrepareDirectory \/ RecordTarget \/ ReplaceFile
  <2>1. /\ pc \in {"stage", "install"} /\ enabled' = enabled
        /\ pc' = "install" \/ (pc' = "activate" /\ at' = 1)
    BY <1>1, <1>5, Phases, ScriptEffects DEF ScriptStep
  <2>. QED
    BY <1>1, <1>2, <2>1 DEF ActivationSoFar, Achieved
<1>6. CASE Activate
  <2>1. UNCHANGED <<files, directories, verdict>> /\ UNCHANGED Version("unit")
        /\ UNCHANGED Accepted /\ UNCHANGED Builds /\ UNCHANGED Installed
    BY <1>6, CommandsKeepFiles DEF Version, Accepted, Builds, Installed
  <2>2. CASE noStart
    <3>1. at' = 2 /\ pc = "activate" /\ at = 1 /\ loaded' = Version("unit") /\ enabled' = enabled
      BY <1>1, <1>6, <2>2, NoStart, CommandEffects, Phases
    <3>. QED
      BY <1>1, <1>2, <2>1, <2>2, <3>1 DEF ActivationSoFar, Achieved
  <2>3. CASE ~noStart
    <3>1. /\ at \in {1, 2, 3, 4, 5, 6, 7, 8, 9} /\ at' = at + 1
          /\ pc = "activate" /\ pc' = IF at = 9 THEN "done" ELSE "activate"
      BY <1>6, <2>3, Starts
    <3>2. /\ at <= 3 => enabled = before.enabled
          /\ at > 1 => loaded = Version("unit")
          /\ at > 2 => Accepted
          /\ at > 3 => Other(mode) \notin enabled
          /\ at > 4 => active[Other(mode)] = "off"
          /\ at > 5 /\ mode = "service" => ~once
          /\ at > 6 => mode \in enabled
          /\ at > 7 /\ mode = "service" => runs = Installed
      BY <1>1, <3>1 DEF ActivationSoFar, Achieved
    <3>3. CASE at = 1
      <4>1. Systemctl("reload", "systemd")
        BY <1>6, <2>3, <3>3, Starts
      <4>2. at' = 2 /\ pc' = "activate"
        BY <3>1, <3>3
      <4>3. at' = 2 /\ pc' = "activate" /\ loaded' = Version("unit") /\ enabled' = enabled
        BY <4>2, <4>1, CommandEffects
      <4>4. Achieved'
        BY <1>2, <2>1, <3>2, <3>3, <4>3 DEF Achieved
      <4>. QED
        BY <4>3, <4>4, <3>1, <3>3 DEF ActivationSoFar
    <3>4. CASE at = 2
      <4>1. Systemctl("check", "config")
        BY <1>6, <2>3, <3>4, Starts
      <4>2. at' = 3 /\ pc' = "activate"
        BY <3>1, <3>4
      <4>3. /\ at' = 3 /\ pc' = "activate" /\ Accepted
            /\ UNCHANGED <<loaded, enabled, active, runs, once>>
        BY <4>2, <4>1, CommandEffects
      <4>4. Achieved'
        BY <1>2, <2>1, <3>2, <3>4, <4>3 DEF Achieved
      <4>. QED
        BY <4>3, <4>4, <3>1, <3>4 DEF ActivationSoFar
    <3>5. CASE at = 3
      <4>1. Systemctl("disable", Other(mode))
        BY <1>6, <2>3, <3>5, Starts
      <4>2. at' = 4 /\ pc' = "activate"
        BY <3>1, <3>5
      <4>3. /\ at' = 4 /\ pc' = "activate" /\ enabled' = enabled \ {Other(mode)}
            /\ UNCHANGED <<loaded, active, runs, once>>
        BY <4>2, <4>1, CommandEffects
      <4>4. Achieved'
        BY <1>2, <1>3, <2>1, <3>2, <3>5, <4>3 DEF Achieved
      <4>. QED
        BY <4>3, <4>4, <3>1, <3>5 DEF ActivationSoFar
    <3>6. CASE at = 4
      <4>1. Systemctl("stop", Other(mode))
        BY <1>6, <2>3, <3>6, Starts
      <4>2. at' = 5 /\ pc' = "activate"
        BY <3>1, <3>6
      <4>3. /\ at' = 5 /\ pc' = "activate" /\ active' = [active EXCEPT ![Other(mode)] = "off"]
            /\ UNCHANGED <<loaded, enabled, runs, once>>
        BY <1>3, <4>2, <4>1, CommandEffects
      <4>4. active'[Other(mode)] = "off"
        BY <1>2, <1>3, <4>3 DEF UnitStates
      <4>5. Achieved'
        BY <1>2, <1>3, <2>1, <3>2, <3>6, <4>3, <4>4 DEF Achieved
      <4>. QED
        BY <4>3, <4>5, <3>1, <3>6 DEF ActivationSoFar
    <3>7. CASE at = 5
      <4>1. Systemctl("stop", "once")
        BY <1>6, <2>3, <3>7, Starts
      <4>2. at' = 6 /\ pc' = "activate"
        BY <3>1, <3>7
      <4>3. /\ at' = 6 /\ pc' = "activate" /\ ~once'
            /\ UNCHANGED <<loaded, enabled, runs, active>>
        BY <4>2, <4>1, CommandEffects
      <4>4. Achieved'
        BY <1>2, <1>3, <2>1, <3>2, <3>7, <4>3 DEF Achieved
      <4>. QED
        BY <4>3, <4>4, <3>1, <3>7 DEF ActivationSoFar
    <3>8. CASE at = 6
      <4>1. Systemctl("enable", mode)
        BY <1>6, <2>3, <3>8, Starts
      <4>2. at' = 7 /\ pc' = "activate"
        BY <3>1, <3>8
      <4>3. /\ at' = 7 /\ pc' = "activate" /\ enabled' = enabled \cup {mode}
            /\ UNCHANGED <<loaded, active, runs, once>>
        BY <4>2, <4>1, CommandEffects
      <4>4. Achieved'
        BY <1>2, <1>3, <2>1, <3>2, <3>8, <4>3 DEF Achieved
      <4>. QED
        BY <4>3, <4>4, <3>1, <3>8 DEF ActivationSoFar
    <3>9. CASE at = 7
      <4>1. Systemctl("restart", mode)
        BY <1>6, <2>3, <3>9, Starts
      <4>2. at' = 8 /\ pc' = "activate"
        BY <3>1, <3>9
      <4>3. Start(mode) /\ at' = 8 /\ pc' = "activate"
        BY <4>2, <4>1, CommandEffects
      <4>4. /\ UNCHANGED <<loaded, enabled, once>> /\ active'[Other(mode)] = active[Other(mode)]
            /\ mode = "service" => runs' = Installed'
        BY <1>1, <1>2, <2>1, <3>2, <3>9, <4>3, StartEffects, StartsInstalled
      <4>5. Achieved'
        BY <1>2, <1>3, <2>1, <3>2, <3>9, <4>3, <4>4 DEF Achieved
      <4>. QED
        BY <4>3, <4>5, <3>1, <3>9 DEF ActivationSoFar
    <3>10. CASE at = 8
      <4>1. Systemctl("active", mode)
        BY <1>6, <2>3, <3>10, Starts
      <4>2. at' = 9 /\ pc' = "activate"
        BY <3>1, <3>10
      <4>3. /\ at' = 9 /\ pc' = "activate"
            /\ UNCHANGED <<loaded, enabled, active, runs, once>>
        BY <4>2, <4>1, CommandEffects
      <4>4. Achieved'
        BY <1>2, <1>3, <2>1, <3>2, <3>10, <4>3 DEF Achieved
      <4>. QED
        BY <4>3, <4>4, <3>1, <3>10 DEF ActivationSoFar
    <3>11. CASE at = 9
      <4>1. Systemctl("stable", mode)
        BY <1>6, <2>3, <3>11, Starts
      <4>2. at' = 10 /\ pc' = "done"
        BY <3>1, <3>11
      <4>3. /\ at' = 10 /\ pc' = "done" /\ active[mode] = "on" /\ (mode = "service" => Builds)
            /\ UNCHANGED <<loaded, enabled, active, runs, once>>
        BY <4>2, <4>1, CommandEffects
      <4>4. Achieved'
        BY <1>2, <1>3, <2>1, <3>2, <3>11, <4>3 DEF Achieved
      <4>5. UNCHANGED <<active, mode, noStart>> /\ UNCHANGED Builds
        BY <1>2, <2>1, <4>3
      <4>. QED
        BY <4>3, <4>4, <4>5 DEF ActivationSoFar
    <3>. QED
      BY <3>1, <3>3, <3>4, <3>5, <3>6, <3>7, <3>8, <3>9, <3>10, <3>11
  <2>. QED
    BY <2>2, <2>3
<1>7. CASE Die \/ Abort \/ RollbackFile \/ RollbackDirectory \/ RestoreUnit \/ Kill
  BY <1>1, <1>4, <1>7, Phases DEF Rollback
<1>8. CASE SystemdStep
  <2>1. /\ UNCHANGED <<verdict, pc, at, files, loaded, enabled>> /\ pc # "done"
        /\ active["service"] = "off" => active'["service"] = "off"
        /\ active'["timer"] = active["timer"]
        /\ runs' = runs \/ runs' = [Installed EXCEPT !["unit"] = loaded]
        /\ once' => once \/ active["timer"] = "on"
    BY <1>1, <1>8, SystemdEffects
  <2>2. UNCHANGED Version("unit") /\ UNCHANGED Accepted /\ UNCHANGED Installed
    BY <2>1 DEF Version, Accepted, Installed
  <2>3. CASE pc # "activate"
    BY <1>1, <1>2, <2>1, <2>3 DEF ActivationSoFar
  <2>4. CASE pc = "activate"
    <3>1. /\ at <= 3 => enabled = before.enabled
          /\ at > 1 => loaded = Version("unit")
          /\ at > 2 => Accepted
          /\ at > 3 => Other(mode) \notin enabled
          /\ at > 4 => active[Other(mode)] = "off"
          /\ at > 5 /\ mode = "service" => ~once
          /\ at > 6 => mode \in enabled
          /\ at > 7 /\ mode = "service" => runs = Installed
      BY <1>1, <2>4 DEF ActivationSoFar, Achieved
    <3>2. at > 4 => active'[Other(mode)] = "off"
      BY <1>3, <2>1, <3>1 DEF Units
    <3>3. at > 5 /\ mode = "service" => ~once'
      BY <1>2, <2>1, <3>1 DEF Other
    <3>4. at > 7 /\ mode = "service" => runs' = Installed'
      <4>1. at > 7 => at > 1
        BY <1>2
      <4>. QED
        BY <1>1, <1>2, <2>1, <2>2, <3>1, <4>1, StartsInstalled
    <3>5. Achieved'
      BY <1>2, <1>3, <2>1, <2>2, <3>1, <3>2, <3>3, <3>4 DEF Achieved
    <3>. QED
      BY <2>1, <2>4, <3>5 DEF ActivationSoFar
  <2>. QED
    BY <2>3, <2>4
<1>9. CASE UNCHANGED vars
  BY <1>1, <1>2, <1>3, <1>9 DEF ActivationSoFar, Achieved, vars, hostVars, Version, Accepted,
                               Builds, Installed
<1>. QED
  BY <1>5, <1>6, <1>7, <1>8, <1>9, StepCases DEF ScriptStep

-----------------------------------------------------------------------------
(* The commands of restore_unit_state *)

\* A command of restore_unit_state that succeeds is one of eight.
LEMMA Restores ==
    ASSUME IInv, RestoreUnit, ~incomplete'
    PROVE  /\ at \in {1, 2, 3, 4, 5, 6, 7, 8} /\ at' = at + 1 /\ pc = "units" /\ ~incomplete
           /\ at = 1 => Systemctl("disable", "service")
           /\ at = 2 => Systemctl("stop", "service")
           /\ at = 3 => Systemctl("disable", "timer")
           /\ at = 4 => Systemctl("stop", "timer")
           /\ at = 5 => Systemctl("stop", "once")
           /\ at = 6 => Systemctl("reload", "systemd")
           /\ at = 7 => \E u \in Units : Systemctl("enable", u) /\ before.enabled = {u}
           /\ at = 8 => \E u \in Units : /\ Systemctl("start", u) /\ before.active[u] = "on"
                                         /\ before.active[Other(u)] = "off"
<1>1. /\ BeforeOK /\ pc = "units" /\ at \in 1..Len(restore_unit_state) /\ at \in Nat
      /\ at' = at + 1 /\ ~incomplete
      /\ Systemctl(restore_unit_state[at][1], restore_unit_state[at][2])
  BY DEF IInv, TypeOK, PositionOK, RestoreUnit
<1>2. /\ at = 1 => Systemctl("disable", "service")
      /\ at = 2 => Systemctl("stop", "service")
      /\ at = 3 => Systemctl("disable", "timer")
      /\ at = 4 => Systemctl("stop", "timer")
      /\ at = 5 => Systemctl("stop", "once")
      /\ at = 6 => Systemctl("reload", "systemd")
  BY <1>1, RestorationCommands
<1>3. Len(restore_unit_state) \in {6, 7, 8}
  BY <1>1, RestorationCommands
<1>4. at \in {1, 2, 3, 4, 5, 6, 7, 8}
  BY <1>1, <1>3
<1>5. at = 7 => \E u \in Units : Systemctl("enable", u) /\ before.enabled = {u}
  <2> SUFFICES ASSUME at = 7
               PROVE  \E u \in Units : Systemctl("enable", u) /\ before.enabled = {u}
    OBVIOUS
  <2>1. Len(restore_unit_state) # 6
    BY <1>1
  <2>2. PICK u \in Units : restore_unit_state[7] = <<"enable", u>> /\ before.enabled = {u}
    BY <1>1, <2>1, RestorationCommands
  <2>3. Systemctl("enable", u)
    BY <1>1, <2>2
  <2>. QED
    BY <2>2, <2>3
<1>6. at = 8 => \E u \in Units : /\ Systemctl("start", u) /\ before.active[u] = "on"
                                 /\ before.active[Other(u)] = "off"
  <2> SUFFICES ASSUME at = 8
               PROVE  \E u \in Units : /\ Systemctl("start", u) /\ before.active[u] = "on"
                                       /\ before.active[Other(u)] = "off"
    OBVIOUS
  <2>1. Len(restore_unit_state) # 6 /\ Len(restore_unit_state) # 7
    BY <1>1
  <2>2. PICK u \in Units : /\ restore_unit_state[8] = <<"start", u>> /\ before.active[u] = "on"
                           /\ before.active[Other(u)] = "off"
    BY <1>1, <2>1, RestorationCommands
  <2>3. Systemctl("start", u)
    BY <1>1, <2>2
  <2>. QED
    BY <2>2, <2>3
<1>. QED
  BY <1>1, <1>2, <1>4, <1>5, <1>6

\* As long as every command succeeds, they restore the two units in turn, and
\* systemd undoes none of it.
LEMMA StepRestoration ==
    ASSUME IInv, [Next]_vars
    PROVE  RestorationSoFar'
<1>1. BeforeOK /\ TypeOK /\ HostOK /\ RestorationSoFar
  BY DEF IInv, TypeOK
<1>2. /\ UNCHANGED before /\ at \in Nat /\ active \in UnitStates /\ enabled \subseteq Units
  BY <1>1, OptionsAreFixed DEF TypeOK, HostOK, PositionOK
<1>3. /\ before.enabled \in {{}, {"timer"}, {"service"}}
      /\ before.active["service"] # "on" \/ before.active["timer"] # "on"
  BY <1>1 DEF BeforeOK
<1>4. ASSUME pc' \notin {"units", "exit"} PROVE RestorationSoFar'
  BY <1>4 DEF RestorationSoFar
<1>5. CASE Stage \/ PrepareDirectory \/ Die \/ RecordTarget \/ ReplaceFile \/ Activate \/ Abort
           \/ RollbackFile \/ Kill
  BY <1>1, <1>4, <1>5, Phases
<1>6. CASE RollbackDirectory
  <2>1. pc' = "directories" \/ at' = 1
    BY <1>1, <1>6, Phases
  <2>2. at' = 1 => Restored'
    BY DEF Restored
  <2>. QED
    BY <1>4, <2>1, <2>2 DEF RestorationSoFar
<1>7. CASE RestoreUnit
  <2> SUFFICES ASSUME ~incomplete' PROVE Restored'
    BY DEF RestorationSoFar
  <2>1. /\ at \in {1, 2, 3, 4, 5, 6, 7, 8} /\ at' = at + 1 /\ pc = "units" /\ ~incomplete
    BY <1>7, Restores
  <2>2. UNCHANGED <<files, directories>> /\ UNCHANGED Version("unit") /\ UNCHANGED Installed
    BY <1>7, CommandsKeepFiles DEF Version, Installed
  <2>3. Restored
    BY <1>1, <2>1 DEF RestorationSoFar
  <2>4. CASE at = 1
    <3>1. Systemctl("disable", "service")
      BY <1>7, <2>4, Restores
    <3>2. at' = 2
      BY <2>1, <2>4
    <3>3. enabled' = enabled \ {"service"}
      BY <3>1, CommandEffects
    <3>. QED
      BY <1>2, <3>3, <3>2 DEF Restored
  <2>5. CASE at = 2
    <3>1. Systemctl("stop", "service")
      BY <1>7, <2>5, Restores
    <3>2. at' = 3
      BY <2>1, <2>5
    <3>3. /\ active' = [active EXCEPT !["service"] = "off"] /\ UNCHANGED enabled
      BY <3>1, CommandEffects
    <3>4. active'["service"] = "off"
      BY <1>2, <3>3 DEF UnitStates, Units
    <3>5. "service" \notin enabled
      BY <2>3, <2>5 DEF Restored
    <3>. QED
      BY <1>2, <3>3, <3>4, <3>5, <3>2 DEF Restored
  <2>6. CASE at = 3
    <3>1. Systemctl("disable", "timer")
      BY <1>7, <2>6, Restores
    <3>2. at' = 4
      BY <2>1, <2>6
    <3>3. enabled' = enabled \ {"timer"} /\ UNCHANGED active
      BY <3>1, CommandEffects
    <3>4. "service" \notin enabled /\ active["service"] = "off"
      BY <2>3, <2>6 DEF Restored
    <3>. QED
      BY <1>2, <3>3, <3>4, <3>2 DEF Restored
  <2>7. CASE at = 4
    <3>1. Systemctl("stop", "timer")
      BY <1>7, <2>7, Restores
    <3>2. at' = 5
      BY <2>1, <2>7
    <3>3. /\ active' = [active EXCEPT !["timer"] = "off"] /\ UNCHANGED enabled
      BY <3>1, CommandEffects
    <3>4. active'["timer"] = "off" /\ active'["service"] = active["service"]
      BY <1>2, <3>3 DEF UnitStates, Units
    <3>5. "service" \notin enabled /\ "timer" \notin enabled /\ active["service"] = "off"
      BY <2>3, <2>7 DEF Restored
    <3>. QED
      BY <1>2, <3>3, <3>4, <3>5, <3>2 DEF Restored
  <2>8. CASE at = 5
    <3>1. Systemctl("stop", "once")
      BY <1>7, <2>8, Restores
    <3>2. at' = 6
      BY <2>1, <2>8
    <3>3. ~once' /\ UNCHANGED <<enabled, active>>
      BY <3>1, CommandEffects
    <3>4. /\ "service" \notin enabled /\ "timer" \notin enabled
          /\ active["service"] = "off" /\ active["timer"] = "off"
      BY <2>3, <2>8 DEF Restored
    <3>. QED
      BY <1>2, <3>3, <3>4, <3>2 DEF Restored
  <2>9. CASE at = 6
    <3>1. Systemctl("reload", "systemd")
      BY <1>7, <2>9, Restores
    <3>2. at' = 7
      BY <2>1, <2>9
    <3>3. /\ loaded' = Version("unit") /\ UNCHANGED <<enabled, active, runs, once>>
      BY <3>1, CommandEffects
    <3>4. /\ "service" \notin enabled /\ "timer" \notin enabled /\ ~once
          /\ active["service"] = "off" /\ active["timer"] = "off"
      BY <2>3, <2>9 DEF Restored
    <3>. QED
      BY <1>2, <2>2, <3>3, <3>4, <3>2 DEF Restored
  <2>10. CASE at = 7
    <3>1. PICK u \in Units : Systemctl("enable", u) /\ before.enabled = {u}
      BY <1>7, <2>10, Restores
    <3>2. at' = 8
      BY <2>1, <2>10
    <3>3. /\ enabled' = enabled \cup {u} /\ UNCHANGED <<loaded, active, runs, once>>
      BY <3>1, CommandEffects
    <3>4. /\ "service" \notin enabled /\ "timer" \notin enabled /\ ~once
          /\ active["service"] = "off" /\ active["timer"] = "off" /\ loaded = Version("unit")
      BY <2>3, <2>10 DEF Restored
    <3>5. enabled' = before'.enabled
      BY <1>2, <3>1, <3>3, <3>4 DEF Units
    <3>. QED
      BY <1>2, <2>2, <3>3, <3>4, <3>5, <3>2 DEF Restored
  <2>11. CASE at = 8
    <3>1. PICK u \in Units : /\ Systemctl("start", u) /\ before.active[u] = "on"
                             /\ before.active[Other(u)] = "off"
      BY <1>7, <2>11, Restores
    <3>2. /\ enabled = before.enabled /\ ~once /\ loaded = Version("unit")
          /\ active["service"] = "off" /\ active["timer"] = "off"
      BY <2>3, <2>11 DEF Restored
    <3>3. at' = 9
      BY <2>1, <2>11
    <3>4. Start(u)
      BY <3>1, <3>2, CommandEffects DEF Units
    <3>5. /\ UNCHANGED <<loaded, enabled, once>> /\ active'[Other(u)] = active[Other(u)]
          /\ active'[u] = "on" /\ (u = "service" => runs' = Installed')
      BY <1>1, <2>2, <3>2, <3>4, StartEffects, StartsInstalled DEF Units
    <3>6. CASE u = "service"
      BY <1>2, <2>2, <3>1, <3>2, <3>4, <3>5, <3>6, <3>3 DEF Restored, Other
    <3>7. CASE u = "timer"
      BY <1>2, <2>2, <3>1, <3>2, <3>4, <3>5, <3>7, <3>3 DEF Restored, Other
    <3>. QED
      BY <3>6, <3>7 DEF Units
  <2>. QED
    BY <2>1, <2>4, <2>5, <2>6, <2>7, <2>8, <2>9, <2>10, <2>11
<1>8. CASE SystemdStep
  <2>1. /\ UNCHANGED <<pc, at, incomplete, files, loaded, enabled>>
        /\ active["service"] = "off" => active'["service"] = "off"
        /\ active["service"] # "off" /\ ~once => active'["service"] # "off"
        /\ active'["timer"] = active["timer"]
        /\ runs' = runs \/ runs' = [Installed EXCEPT !["unit"] = loaded]
        /\ once' => once \/ active["timer"] = "on"
    BY <1>1, <1>8, SystemdEffects
  <2>2. UNCHANGED Version("unit") /\ UNCHANGED Installed
    BY <2>1 DEF Version, Installed
  <2>3. ASSUME Restored PROVE Restored'
    <3>1. at > 4 /\ (at <= 8 \/ before.active["timer"] # "on") => active["timer"] = "off"
      BY <2>3 DEF Restored
    <3>2. at > 5 /\ (at <= 8 \/ before.active["timer"] # "on") => ~once'
      BY <1>2, <2>1, <2>3 DEF Restored
    <3>3. at > 8 /\ before.active["service"] = "on" =>
              active'["service"] # "off" /\ runs' = Installed'
      <4> SUFFICES ASSUME at > 8, before.active["service"] = "on"
                   PROVE  active'["service"] # "off" /\ runs' = Installed'
        OBVIOUS
      <4>1. at > 5 /\ at > 6
        BY <1>2
      <4>2. ~once /\ loaded = Version("unit") /\ active["service"] # "off" /\ runs = Installed
        BY <1>3, <2>3, <4>1 DEF Restored
      <4>. QED
        BY <1>1, <2>1, <2>2, <4>2, StartsInstalled
    <3>4. /\ at \in 2..7 => "service" \notin enabled
          /\ at > 2 /\ (at <= 8 \/ before.active["service"] # "on") => active'["service"] = "off"
          /\ at \in 4..7 => "timer" \notin enabled
          /\ at > 6 => loaded = Version("unit")
          /\ at > 7 => enabled = before.enabled
          /\ at > 8 /\ before.active["timer"] = "on" => active["timer"] = "on"
      BY <2>1, <2>3 DEF Restored
    <3>. QED
      BY <1>2, <2>1, <2>2, <3>1, <3>2, <3>3, <3>4 DEF Restored
  <2>. QED
    BY <1>1, <2>1, <2>3 DEF RestorationSoFar
<1>9. CASE UNCHANGED vars
  BY <1>1, <1>2, <1>9 DEF RestorationSoFar, Restored, vars, hostVars, Version, Installed
<1>. QED
  BY <1>5, <1>6, <1>7, <1>8, <1>9, StepCases DEF ScriptStep

-----------------------------------------------------------------------------
(* The invariant, and what follows from it *)

\* No step leaves both units enabled or both active.
LEMMA StepOneMode ==
    ASSUME IInv, [Next]_vars, ActivationSoFar', RestorationSoFar'
    PROVE  OneMode'
<1>1. /\ BeforeOK /\ TypeOK /\ HostOK /\ ActivationSoFar /\ OneMode
  BY DEF IInv, TypeOK
<1>2. /\ UNCHANGED <<mode, noStart, before>> /\ at \in Nat /\ mode \in Units
      /\ active \in UnitStates /\ enabled \subseteq Units
  BY <1>1, OptionsAreFixed DEF TypeOK, HostOK, PositionOK
<1>3. before.enabled # Units
  BY <1>1 DEF BeforeOK, Units
<1>4. ASSUME UNCHANGED incomplete, enabled' \subseteq enabled,
             \A u \in Units : active[u] = "off" => active'[u] = "off"
      PROVE  OneMode'
  BY <1>1, <1>2, <1>4 DEF OneMode
<1>5. Other(mode) \in Units /\ UNCHANGED Other(mode) /\ Other(mode) # "once"
  BY <1>2 DEF Units, Other
<1>6. CASE ScriptStep
  <2>1. UNCHANGED <<enabled, active>>
    BY <1>6, ScriptEffects
  <2>2. ASSUME RollbackFile \/ RollbackDirectory
        PROVE  incomplete' = incomplete \/ incomplete'
    BY <2>2 DEF RollbackFile, RollbackDirectory
  <2>3. ASSUME ~(RollbackFile \/ RollbackDirectory)
        PROVE  incomplete' = incomplete
    BY <1>6, <2>3 DEF ScriptStep, Stage, PrepareDirectory, Die, RecordTarget, ReplaceFile, Abort,
                      Kill
  <2>. QED
    BY <1>4, <2>1, <2>2, <2>3 DEF OneMode
<1>7. CASE Activate
  <2>1. UNCHANGED incomplete
    BY <1>7 DEF Activate
  <2>2. CASE noStart
    <3>1. Systemctl("reload", "systemd")
      BY <1>7, <2>2, NoStart
    <3>2. UNCHANGED <<enabled, active>>
      BY <3>1, CommandEffects
    <3>. QED
      BY <1>4, <2>1, <3>2
  <2>3. CASE ~noStart
    <3>1. /\ at \in {1, 2, 3, 4, 5, 6, 7, 8, 9} /\ at' = at + 1 /\ pc' \in {"activate", "done"}
      BY <1>7, <2>3, Starts
    <3>2. ASSUME NEW c \in {"reload", "check", "active", "stable"}, NEW u, Systemctl(c, u)
          PROVE  OneMode'
      <4>1. UNCHANGED <<enabled, active>>
        BY <3>2, CommandEffects
      <4>. QED
        BY <1>4, <2>1, <4>1
    <3>3. CASE at \in {1, 2, 8, 9}
      BY <1>7, <2>3, <3>2, <3>3, Starts
    <3>4. CASE at = 3
      <4>1. Systemctl("disable", Other(mode))
        BY <1>7, <2>3, <3>4, Starts
      <4>2. enabled' = enabled \ {Other(mode)} /\ UNCHANGED active
        BY <4>1, CommandEffects
      <4>. QED
        BY <1>4, <2>1, <4>2
    <3>5. CASE at = 4
      <4>1. Systemctl("stop", Other(mode))
        BY <1>7, <2>3, <3>5, Starts
      <4>2. active' = [active EXCEPT ![Other(mode)] = "off"] /\ UNCHANGED enabled
        BY <1>5, <4>1, CommandEffects
      <4>3. \A u \in Units : active[u] = "off" => active'[u] = "off"
        BY <1>2, <4>2 DEF UnitStates
      <4>. QED
        BY <1>4, <2>1, <4>2, <4>3
    <3>6. CASE at = 5
      <4>1. Systemctl("stop", "once")
        BY <1>7, <2>3, <3>6, Starts
      <4>2. UNCHANGED <<enabled, active>>
        BY <4>1, CommandEffects
      <4>. QED
        BY <1>4, <2>1, <4>2
    <3>7. CASE at \in {6, 7}
      <4>1. at' > 3 /\ at' > 4
        BY <3>1, <3>7
      <4>2. Achieved'
        BY <3>1 DEF ActivationSoFar
      <4>3. Other(mode)' \notin enabled' /\ active'[Other(mode)'] = "off"
        BY <4>1, <4>2 DEF Achieved
      <4>. QED
        BY <1>5, <4>3 DEF OneMode
    <3>. QED
      BY <3>1, <3>3, <3>4, <3>5, <3>6, <3>7
  <2>. QED
    BY <2>2, <2>3
<1>8. CASE RestoreUnit
  <2> SUFFICES ASSUME ~incomplete' PROVE OneMode'
    BY DEF OneMode
  <2>1. /\ at \in {1, 2, 3, 4, 5, 6, 7, 8} /\ at' = at + 1 /\ ~incomplete
    BY <1>8, Restores
  <2>2. Restored'
    BY <1>1, <1>8, Phases DEF RestorationSoFar
  <2>3. \/ enabled' \subseteq enabled
        \/ enabled' = before'.enabled
    <3>1. CASE at \in {7, 8}
      <4>1. at' > 7
        BY <2>1, <3>1
      <4>. QED
        BY <2>2, <4>1 DEF Restored
    <3>2. CASE at \in {1, 3}
      <4>1. \E u : Systemctl("disable", u)
        BY <1>8, <3>2, Restores
      <4>. QED
        BY <4>1, CommandEffects
    <3>3. CASE at \in {2, 4, 5, 6}
      <4>1. Systemctl("reload", "systemd") \/ (\E u : Systemctl("stop", u))
        BY <1>8, <3>3, Restores
      <4>. QED
        BY <4>1, CommandEffects
    <3>. QED
      BY <2>1, <3>1, <3>2, <3>3
  <2>4. enabled' # Units
    BY <1>1, <1>2, <1>3, <2>1, <2>3 DEF OneMode
  <2>5. \E u \in Units : active'[u] = "off"
    <3>1. CASE at \in {4, 5, 6, 7}
      <4>1. at' > 4 /\ at' <= 8
        BY <2>1, <3>1
      <4>. QED
        BY <2>2, <4>1 DEF Restored, Units
    <3>2. CASE at \in {2, 3}
      <4>1. at' > 2 /\ at' <= 8
        BY <2>1, <3>2
      <4>. QED
        BY <2>2, <4>1 DEF Restored, Units
    <3>3. CASE at = 1
      <4>1. Systemctl("disable", "service")
        BY <1>8, <3>3, Restores
      <4>2. UNCHANGED active
        BY <4>1, CommandEffects
      <4>. QED
        BY <1>1, <2>1, <4>2 DEF OneMode
    <3>4. CASE at = 8
      <4>1. at' > 2 /\ at' > 4
        BY <2>1, <3>4
      <4>2. before.active["service"] # "on" \/ before.active["timer"] # "on"
        BY <1>1 DEF BeforeOK
      <4>. QED
        BY <1>2, <2>2, <4>1, <4>2 DEF Restored, Units
    <3>. QED
      BY <2>1, <3>1, <3>2, <3>3, <3>4
  <2>. QED
    BY <2>4, <2>5 DEF OneMode
<1>9. CASE SystemdStep
  <2>1. /\ UNCHANGED <<incomplete, enabled>>
        /\ active["service"] = "off" => active'["service"] = "off"
        /\ active'["timer"] = active["timer"]
    BY <1>1, <1>9, SystemdEffects
  <2>. QED
    BY <1>4, <2>1 DEF Units
<1>10. CASE UNCHANGED vars
  BY <1>4, <1>10 DEF vars, hostVars
<1>. QED
  BY <1>6, <1>7, <1>8, <1>9, <1>10, StepCases

\* No step breaks the invariant.
LEMMA StepIInv == IInv /\ [Next]_vars => IInv'
<1> SUFFICES ASSUME IInv, [Next]_vars PROVE IInv'
  OBVIOUS
<1>1. BeforeOK /\ TypeOK
  BY DEF IInv
<1>2. BeforeOK'
  BY <1>1, OptionsAreFixed DEF BeforeOK
<1>. QED
  BY <1>1, <1>2, StepTypeOK, StepInstallation, StepRollback, StepActivation, StepRestoration,
     StepOneMode DEF IInv

\* IInv holds in every state of every installation.
THEOREM Inductive == Spec => []IInv
BY InitIInv, StepIInv, PTL DEF Spec

\* A rollback that reports no failure leaves the files, the directories and both
\* units as the installer found them, whatever was to be installed, wherever it
\* failed and whatever systemd did meanwhile.
THEOREM RollbackRestores == Spec => []FailureChangesNothing
<1>1. ASSUME IInv PROVE FailureChangesNothing
  <2> SUFFICES ASSUME pc = "exit", ~incomplete
               PROVE  /\ files = before.files /\ loaded = Version("unit")
                      /\ \A d \in ToSet(Directories) :
                            before.directories[d] # "none" =>
                                directories[d] = before.directories[d]
                      /\ enabled = before.enabled /\ active["timer"] = before.active["timer"]
                      /\ active["service"] = "off" <=> before.active["service"] # "on"
                      /\ active["service"] # "off" => runs = Installed
    BY DEF FailureChangesNothing
  <2>1. /\ BeforeOK /\ TypeOK /\ HostOK /\ RollbackSoFar /\ Restored
    BY <1>1 DEF IInv, TypeOK, RestorationSoFar
  <2>2. /\ files \in [ToSet(Files) -> FileStates] /\ enabled \subseteq Units
        /\ before.files \in [ToSet(Files) -> FileStates] /\ at = Len(restore_unit_state) + 1
    BY <2>1 DEF BeforeOK, TypeOK, HostOK, PositionOK
  <2>3. files = before.files
    <3>1. \A f \in ToSet(Files) : files[f] = before.files[f]
      BY <2>1 DEF RollbackSoFar
    <3>. QED
      BY <2>2, <3>1
  <2>4. \A d \in ToSet(Directories) :
            before.directories[d] # "none" => directories[d] = before.directories[d]
    BY <2>1 DEF RollbackSoFar
  <2>5. CASE Len(restore_unit_state) = 6
    <3>1. at = 7 /\ before.enabled = {} /\ before.active["service"] # "on"
          /\ before.active["timer"] # "on"
      BY <2>1, <2>2, <2>5, RestorationCommands
    <3>2. /\ "service" \notin enabled /\ "timer" \notin enabled /\ loaded = Version("unit")
          /\ active["service"] = "off" /\ active["timer"] = "off"
      BY <2>1, <3>1 DEF Restored
    <3>3. enabled = before.enabled /\ before.active["timer"] = "off"
      BY <2>1, <2>2, <3>1, <3>2 DEF BeforeOK, Units
    <3>. QED
      BY <2>3, <2>4, <3>1, <3>2, <3>3
  <2>6. CASE Len(restore_unit_state) = 7
    <3>1. at = 8 /\ before.active["service"] # "on" /\ before.active["timer"] # "on"
      BY <2>1, <2>2, <2>6, RestorationCommands
    <3>2. /\ enabled = before.enabled /\ loaded = Version("unit")
          /\ active["service"] = "off" /\ active["timer"] = "off"
      BY <2>1, <3>1 DEF Restored
    <3>3. before.active["timer"] = "off"
      BY <2>1, <3>1 DEF BeforeOK
    <3>. QED
      BY <2>3, <2>4, <3>1, <3>2, <3>3
  <2>7. CASE Len(restore_unit_state) = 8
    <3>1. at = 9
      BY <2>2, <2>7
    <3>2. /\ enabled = before.enabled /\ loaded = Version("unit")
          /\ before.active["service"] # "on" => active["service"] = "off"
          /\ before.active["timer"] # "on" => active["timer"] = "off"
          /\ before.active["timer"] = "on" => active["timer"] = "on"
          /\ before.active["service"] = "on" => active["service"] # "off" /\ runs = Installed
      BY <2>1, <3>1 DEF Restored
    <3>3. before.active["timer"] \in {"on", "off"}
      BY <2>1 DEF BeforeOK
    <3>. QED
      BY <2>3, <2>4, <3>2, <3>3
  <2>. QED
    BY <2>1, <2>5, <2>6, <2>7, RestorationCommands
<1>. QED
  BY <1>1, Inductive, PTL

\* Both units are never enabled nor active at once unless a rollback was
\* incomplete, and a successful installation leaves the selected one enabled and
\* active, with a daemon that runs from what was installed.
THEOREM SelectedModeOnly == Spec => []SelectedModeAlone
<1>1. ASSUME IInv PROVE SelectedModeAlone
  <2>1. /\ BeforeOK /\ TypeOK /\ HostOK /\ InstallationSoFar /\ ActivationSoFar /\ OneMode
        /\ mode \in Units /\ noStart \in BOOLEAN
    BY <1>1 DEF IInv, TypeOK
  <2>2. pc = "done" => files = [f \in ToSet(Files) |-> [version |-> stage[f], mode |-> "managed"]]
    <3> SUFFICES ASSUME pc = "done"
                 PROVE  files = [f \in ToSet(Files) |-> New(f)]
      BY DEF New
    <3>1. \A f \in ToSet(Files) : files[f] = New(f)
      BY <2>1, Lists DEF InstallationSoFar
    <3>2. files \in [ToSet(Files) -> FileStates]
      BY <2>1 DEF HostOK
    <3>. QED
      BY <3>1, <3>2
  <2>3. ASSUME pc = "done", ~noStart
        PROVE  /\ enabled = {mode} /\ active[mode] = "on" /\ Accepted
               /\ mode = "service" => runs = Installed /\ Builds /\ ~once
    <3>1. Len(activate_mode) = 9
      BY <2>1, <2>3, ActivationCommands
    <3>2. at = 10
      BY <2>1, <2>3, <3>1 DEF TypeOK, PositionOK
    <3>3. /\ Accepted /\ Other(mode) \notin enabled /\ mode \in enabled
          /\ mode = "service" => runs = Installed /\ ~once
      BY <2>1, <2>3, <3>2 DEF ActivationSoFar, Achieved
    <3>4. active[mode] = "on" /\ (mode = "service" => Builds)
      BY <2>1, <2>3 DEF ActivationSoFar
    <3>5. enabled = {mode}
      BY <2>1, <3>3 DEF HostOK, Units, Other
    <3>. QED
      BY <3>3, <3>4, <3>5
  <2>4. ASSUME pc = "done", noStart PROVE enabled = before.enabled
    <3>1. Len(activate_mode) = 1
      BY <2>1, <2>4, ActivationCommands
    <3>2. at = 2
      BY <2>1, <2>4, <3>1 DEF TypeOK, PositionOK
    <3>. QED
      BY <2>1, <2>4, <3>2 DEF ActivationSoFar, Achieved
  <2>. QED
    BY <2>1, <2>2, <2>3, <2>4 DEF SelectedModeAlone, OneMode
<1>. QED
  BY <1>1, Inductive, PTL

=============================================================================
