------------------------------ MODULE Reports ------------------------------
(***************************************************************************)
(* The content of a health report: the accounts RunOnce puts into its      *)
(* snapshot, the Codex quota and the version ReportHealthy adds, and what  *)
(* either transport accepts.  Pure operators.                              *)
(*                                                                         *)
(* A JSON value that may be given under two spellings is the sequence of   *)
(* those that are set, in the order in which the code looks at them.       *)
(* Durations are in hours.                                                 *)
(***************************************************************************)
EXTENDS Rules

CONSTANTS
    MaxInt,     \* the largest int64
    MaxHours    \* the hours in the longest time.Duration

ASSUME ReportsAssumption == MaxInt \in Nat /\ MaxHours \in Nat

\* The sum of int64 values, as it wraps.
Wrapped(n) == ((n + MaxInt + 1) % (2 * (MaxInt + 1))) - (MaxInt + 1)

First(values, default) == IF values = <<>> THEN default ELSE values[1]

-----------------------------------------------------------------------------
(* The snapshot *)

\* Every account has a label: "#" stands for the last resort, its position.
accountLabel(file) ==
    LET email == TrimSpace(file.email)
        index == TrimSpace(file.auth_index)
    IN  IF email # "" THEN email ELSE IF index # "" THEN index ELSE "#"

accountProvider(file) == IF file.provider # "" THEN file.provider ELSE file.type

\* recent_requests: the buckets' sums of successes and of failures.
AccountUsage(file) ==
    [label          |-> accountLabel(file),
     provider       |-> accountProvider(file),
     auth_index     |-> file.auth_index,
     account_id     |-> file.account_id,
     success        |-> file.success,
     failed         |-> file.failed,
     recentSuccess  |-> Wrapped(file.recentSuccess),
     recentFailed   |-> Wrapped(file.recentFailed),
     quotaSupported |-> FALSE,
     quotaAvailable |-> FALSE,
     windows        |-> <<>>]

enabledAccountUsages(files) ==
    LET usages[n \in 0..Len(files)] ==
            IF n = 0 THEN <<>>
            ELSE IF files[n].disabled THEN usages[n - 1]
            ELSE Append(usages[n - 1], AccountUsage(files[n]))
    IN  usages[Len(files)]

batchesHealthy(batches) ==
    \A b \in batches : b.complete /\ b.conditions = {} /\ b.errors = 0

-----------------------------------------------------------------------------
(* The quota of a Codex account *)

\* A conversion of a duration that does not fit: amd64 gives the smallest int64,
\* arm64 the largest.
secondsDuration(hours) == IF hours <= MaxHours THEN {hours} ELSE {-MaxHours - 1, MaxHours}

quotaWindowKind(length, fallback) ==
    CASE length = 5 -> "five_hour"
      [] length = 7 * 24 -> "weekly"
      [] length \in (28 * 24)..(31 * 24) -> "monthly"
      [] OTHER -> fallback

Negative(values) == values # <<>> /\ values[1] < 0

ValidWindow(wire) ==
    /\ wire.used # <<>> => wire.used[1] \in 0..100
    /\ ~Negative(wire.length) /\ ~Negative(wire.resetAfter) /\ ~Negative(wire.resetAt)

\* The windows that a valid one may be converted to.  An account at its limit
\* whose usage is not given has used all of it.
convertCodexWindow(wire, fallback, limitReached) ==
    {[kind       |-> IF wire.length = <<>> THEN fallback ELSE quotaWindowKind(length, fallback),
      used       |-> IF wire.used # <<>> THEN <<wire.used[1]>>
                     ELSE IF limitReached THEN <<100>> ELSE <<>>,
      resetAfter |-> resetAfter] :
        length \in secondsDuration(First(wire.length, 0)),
        resetAfter \in secondsDuration(First(wire.resetAfter, 0))}

\* The results of CodexQuota for an answer of the api-call endpoint.
parseCodexQuota(answer) ==
    LET limitReached == First(answer.limitReached, FALSE) \/ ~First(answer.allowed, TRUE)
        converted(wires, fallback) ==
            IF wires = <<>> THEN {<<>>}
            ELSE {<<w>> : w \in convertCodexWindow(wires[1], fallback, limitReached)}
        valid == /\ answer.readable /\ answer.rateLimit
                 /\ answer.primary \o answer.secondary # <<>>
                 /\ answer.primary # <<>> => ValidWindow(answer.primary[1])
                 /\ answer.secondary # <<>> => ValidWindow(answer.secondary[1])
    IN  IF ~valid THEN {[err |-> TRUE, windows |-> <<>>]}
        ELSE {[err |-> FALSE, windows |-> p \o s] :
                p \in converted(answer.primary, "primary"),
                s \in converted(answer.secondary, "secondary")}

\* CodexQuota asks nothing for an account without an index or with an account ID
\* that cannot stand in a header.
CodexQuota(usage, answer) ==
    IF TrimSpace(usage.auth_index) = "" \/ usage.account_id = "control"
    THEN {[err |-> TRUE, windows |-> <<>>]}
    ELSE parseCodexQuota(answer)

ValidateAccountUsage(usage) ==
    /\ TrimSpace(usage.label) # ""
    /\ \A n \in {usage.success, usage.failed, usage.recentSuccess, usage.recentFailed} : n >= 0
    /\ usage.quotaAvailable => usage.quotaSupported
    /\ usage.quotaAvailable <=> usage.windows # <<>>
    /\ \A i \in DOMAIN usage.windows :
          /\ usage.windows[i].resetAfter >= 0
          /\ usage.windows[i].used # <<>> => usage.windows[i].used[1] \in 0..100

IsCodex(usage) == usage.provider \in {"codex", "Codex"}

\* What addQuota makes of an account.  Quota data that would make the report
\* invalid is left out.
addQuota_Unchecked(usage, quota) ==
    IF ~IsCodex(usage) THEN usage
    ELSE IF quota.err THEN [usage EXCEPT !.quotaSupported = TRUE]
    ELSE [usage EXCEPT !.quotaSupported = TRUE, !.quotaAvailable = TRUE,
                       !.windows = quota.windows]
addQuota(usage, quota) ==
    LET supported == [usage EXCEPT !.quotaSupported = IsCodex(usage)]
        candidate == [supported EXCEPT !.quotaAvailable = TRUE, !.windows = quota.windows]
    IN  IF IsCodex(usage) /\ ~quota.err /\ ValidateAccountUsage(candidate)
        THEN candidate ELSE supported

-----------------------------------------------------------------------------
(* What a transport accepts *)

NoVersion == [available |-> FALSE, comparable |-> FALSE, update |-> FALSE,
              current |-> <<>>, latest |-> <<>>]

ValidateVersionInfo(version) ==
    IF version.available
    THEN /\ version.current # <<>> /\ version.latest # <<>>
         /\ version.update => version.comparable
    ELSE version = NoVersion

ValidAccounts(report) ==
    /\ report.enabledAccountCount \in 0..report.accountCount
    /\ report.accountUsageAvailable =>
          report.enabledAccountCount = Len(report.accountUsages)
    /\ ~report.accountUsageAvailable =>
          report.accountCount = 0 /\ report.accountUsages = <<>>
    /\ \A i \in DOMAIN report.accountUsages : ValidateAccountUsage(report.accountUsages[i])

\* Both validateHealthReport functions; DingTalk's does not look at the host's
\* numbers.
ValidForDingTalk(report) == ValidAccounts(report) /\ ValidateVersionInfo(report.version)

ValidForMail(report) ==
    /\ ValidForDingTalk(report)
    /\ report.memory \in 0..100 /\ report.highestDisk \in 0..100
    /\ report.diskMountCount >= 0 /\ report.totalTCP >= 0 /\ report.serviceTCP >= 0

=============================================================================
