------------------------------ MODULE Startup ------------------------------
(***************************************************************************)
(* From a configuration file to the built runtime: internal/config, the    *)
(* constructors of the components and buildRuntime.  Pure operators.       *)
(*                                                                         *)
(* Two packages check every setting, first Validate and then the           *)
(* constructor that is given it; --check-config only runs the first.       *)
(*                                                                         *)
(* A text is the set of the kinds of characters in it: "word" for those    *)
(* that can be seen, "space", "tab", "break", "nul", and "outer" for white *)
(* space at an end.                                                        *)
(***************************************************************************)
EXTENDS Integers, Sequences, FiniteSets

CONSTANTS
    MaxInt64,   \* the largest int64
    Megabyte    \* bytes in a megabyte

ASSUME StartupAssumption == MaxInt64 \in Nat /\ Megabyte \in 1..MaxInt64

Channels == {"smtp", "dingtalk"}
Secrets == {"management_key", "username", "password", "webhook_token", "signing_secret"}

Blank(text) == text \subseteq {"space", "tab", "break", "outer"}
Trimmed(text) == text \ {"outer"}

\* Config: integers as they are, durations by their sign, a percentage is a whole
\* number.  A port in the URL is a sequence of none or one.
Texts == SUBSET {"word", "space", "tab", "break", "nul", "outer"}
Config ==
    [interval : Int, timeout : Int, memoryPercent : Int, diskPercent : Int,
     totalTCP : Int, serviceTCP : Int, servicePort : Int,
     baseURL : [outerSpace : BOOLEAN, scheme : STRING, host : STRING, user : BOOLEAN,
                query : STRING, fragment : STRING, port : Seq(Int)],
     secrets : [Secrets -> Texts], stateFile : Texts,
     primary : STRING, fallback : STRING, reportEnabled : BOOLEAN, reportChannel : STRING,
     reportInterval : Int, reportRetry : Int,
     smtpTimeout : Int, smtpLanguage : STRING, host : STRING, port : Int,
     from : STRING, to : SUBSET STRING, starttls : BOOLEAN, tls : BOOLEAN,
     dingtalkTimeout : Int, dingtalkLanguage : STRING, maxItems : Int, atAll : BOOLEAN,
     mentions : SUBSET Texts, level : STRING, fileEnabled : BOOLEAN, logPath : Texts,
     maxSizeMB : Int, maxFiles : Int, maxTotalSizeMB : Int]

normalizeChannel(name) == IF name = " SMTP " THEN "smtp" ELSE name
normalizeLanguage(name) ==
    CASE name = " ZH-CN" -> "zh-CN"
      [] name = "EN"     -> "en"
      [] OTHER           -> name

-----------------------------------------------------------------------------
(* Loading *)

\* A secret whose variable is named and set has the variable's value, the empty
\* one included.  env gives each secret the values of its variable, none or one.
applyEnvironment(secrets, env) ==
    [s \in Secrets |-> IF env[s] = <<>> THEN secrets[s] ELSE env[s][1]]

Loaded(file, env) ==
    [file EXCEPT
        !.secrets = applyEnvironment(@, env),
        !.primary = normalizeChannel(@),
        !.fallback = normalizeChannel(@),
        !.reportChannel = normalizeChannel(@),
        !.smtpLanguage = normalizeLanguage(@),
        !.dingtalkLanguage = normalizeLanguage(@),
        !.mentions = {Trimmed(t) : t \in {u \in @ : ~Blank(u)}}]

HealthReportChannel(c) == IF c.reportChannel # "" THEN c.reportChannel ELSE c.primary

UsesChannel_AlertsOnly(c, channel) == channel \in {c.primary, c.fallback}
UsesChannel(c, channel) ==
    \/ channel \in {c.primary, c.fallback}
    \/ c.reportEnabled /\ HealthReportChannel(c) = channel

-----------------------------------------------------------------------------
(* Config.Validate *)

validPercent(p) == p \in 1..100
validLanguage(name) == name \in {"zh-CN", "en"}
isLoopbackHost(host) == host \in {"localhost", "localhost.", "127.0.0.1"}
validSMTPHost(host) == host \in {"name", "name.", "address"}

\* What mail.ParseAddress makes of a mailbox, line breaks apart.
validMailbox(mailbox) == mailbox = "user@host"

Ports == 1..65535
ValidPort(ports) == ports # <<>> => ports[1] \in Ports

\* url.port is <<>>, a number, or <<-1>> for a colon with nothing after it.
parseBaseURL(url) ==
    /\ ~url.outerSpace
    /\ url.scheme \in {"http", "https"}
    /\ url.host # "" /\ ~url.user
    /\ url.query \in {"", "?"} /\ url.fragment = ""
    /\ ValidPort(url.port)

ServicePort(c) ==
    CASE c.servicePort # 0 -> c.servicePort
      [] c.servicePort = 0 /\ c.baseURL.port # <<>> -> c.baseURL.port[1]
      [] OTHER -> IF c.baseURL.scheme = "http" THEN 80 ELSE 443

containsUnsafeValue(text) == text \ {"word"} # {}

validateSMTP(c) ==
    /\ c.smtpTimeout > 0 /\ validLanguage(c.smtpLanguage)
    /\ validSMTPHost(c.host) /\ c.port \in Ports
    /\ validMailbox(c.from)
    /\ c.to # {} /\ \A t \in c.to : validMailbox(t)
    /\ c.secrets.username = {} <=> c.secrets.password = {}
    /\ c.starttls # c.tls

validateDingTalk(c) ==
    /\ c.dingtalkTimeout > 0 /\ validLanguage(c.dingtalkLanguage)
    /\ c.maxItems \in 1..50
    /\ c.atAll => c.mentions = {}
    /\ \A s \in {"webhook_token", "signing_secret"} :
          ~Blank(c.secrets[s]) /\ ~containsUnsafeValue(c.secrets[s])
    /\ \A t \in c.mentions : ~containsUnsafeValue(t)

MaxMegabytes_Positive == MaxInt64
MaxMegabytes == MaxInt64 \div Megabyte

validateLogging(c) ==
    /\ c.level \in {"debug", "info", "warn", "error"}
    /\ c.fileEnabled =>
          /\ ~Blank(c.logPath)
          /\ c.maxSizeMB \in 1..MaxMegabytes
          /\ c.maxFiles > 0
          /\ c.maxTotalSizeMB \in c.maxSizeMB..MaxMegabytes

Validate(c) ==
    /\ c.interval > 0 /\ c.timeout > 0
    /\ validPercent(c.memoryPercent) /\ validPercent(c.diskPercent)
    /\ c.totalTCP > 0 /\ c.serviceTCP > 0
    /\ parseBaseURL(c.baseURL)
    /\ c.baseURL.scheme = "http" => isLoopbackHost(c.baseURL.host)
    /\ c.servicePort = 0 \/ c.servicePort \in Ports
    /\ ~Blank(c.secrets.management_key) /\ "break" \notin c.secrets.management_key
    /\ ~Blank(c.stateFile)
    /\ c.primary \in Channels
    /\ c.fallback \in Channels \cup {""} /\ c.fallback # c.primary
    /\ c.reportChannel \in Channels \cup {""}
    /\ c.reportInterval > 0 /\ c.reportRetry > 0
    /\ UsesChannel(c, "smtp") => validateSMTP(c)
    /\ UsesChannel(c, "dingtalk") => validateDingTalk(c)
    /\ validateLogging(c)

-----------------------------------------------------------------------------
(* The constructors, with the conditions under which they return no error *)

\* cliproxy.New.
NewClient(url, key, timeout) ==
    /\ ~Blank(key) /\ key \cap {"tab", "break", "nul"} = {}
    /\ timeout > 0
    /\ url.host # "" /\ url.scheme \in {"http", "https"}
    /\ url.scheme = "http" => isLoopbackHost(url.host)
    /\ ~url.user /\ url.query = "" /\ url.fragment = ""

\* mailer.New.
NewMailer(c) ==
    /\ validSMTPHost(c.host) /\ c.port \in Ports
    /\ validMailbox(c.from) /\ c.to # {} /\ \A t \in c.to : validMailbox(t)
    /\ c.secrets.username = {} <=> c.secrets.password = {}
    /\ \A s \in {"username", "password"} : c.secrets[s] \cap {"break", "nul"} = {}
    /\ c.starttls # c.tls
    /\ c.smtpTimeout > 0 /\ validLanguage(c.smtpLanguage)

\* dingtalk.New.
NewDingTalk(c) ==
    /\ \A s \in {"webhook_token", "signing_secret"} :
          ~Blank(c.secrets[s]) /\ "break" \notin c.secrets[s]
    /\ validLanguage(c.dingtalkLanguage)
    /\ c.dingtalkTimeout > 0 /\ c.maxItems \in 1..50
    /\ c.atAll => c.mentions = {}

\* logfile.NewWriter, whose sizes were multiplied as int64 values.
Wrap(n) == ((n + MaxInt64 + 1) % (2 * (MaxInt64 + 1))) - (MaxInt64 + 1)
NewWriter(c) ==
    LET size == Wrap(c.maxSizeMB * Megabyte)
        total == Wrap(c.maxTotalSizeMB * Megabyte)
    IN  ~Blank(c.logPath) /\ size > 0 /\ c.maxFiles >= 0 /\ total >= size

\* monitor.NewRunner.
NewRunner(c) ==
    /\ ServicePort(c) \in Ports
    /\ validPercent(c.memoryPercent) /\ validPercent(c.diskPercent)
    /\ c.totalTCP > 0 /\ c.serviceTCP > 0

\* The channels that buildTransports builds a sender for.
buildTransports(c) == {channel \in Channels : UsesChannel(c, channel)}

buildChannel(c, channel) == IF channel = "smtp" THEN NewMailer(c) ELSE NewDingTalk(c)

\* The primary's sender must be there, and the fallback's if one is named.
buildAlertRouter(c, transports) ==
    /\ c.primary \in transports
    /\ c.fallback # "" => c.fallback \in transports /\ c.fallback # c.primary

\* A report whose channel has no sender is given the primary's.
HealthSender(c, transports) ==
    IF HealthReportChannel(c) \in transports THEN HealthReportChannel(c) ELSE c.primary

\* Does buildRuntime return a runtime, the file system apart?
buildRuntime(c) ==
    /\ Validate(c)
    /\ c.fileEnabled => NewWriter(c)
    /\ \A channel \in buildTransports(c) : buildChannel(c, channel)
    /\ buildAlertRouter(c, buildTransports(c))
    /\ NewClient(c.baseURL, c.secrets.management_key, c.timeout)
    /\ c.reportInterval > 0 /\ c.reportRetry > 0
    /\ NewRunner(c)

-----------------------------------------------------------------------------
(* What the constructors want and Validate does not ask for *)

MisjudgedKey(c) == c.secrets.management_key \cap {"tab", "nul"} # {}
MisjudgedURL(c) == c.baseURL.query = "?"
MisjudgedCredentials(c) ==
    /\ UsesChannel(c, "smtp")
    /\ \E s \in {"username", "password"} : c.secrets[s] \cap {"break", "nul"} # {}

=============================================================================
