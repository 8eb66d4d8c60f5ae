------------------------------- MODULE Cycle -------------------------------
(***************************************************************************)
(* One monitor cycle after the other, at the level of its data: what the   *)
(* checks measured, the batches the rules make of it, the alerts that      *)
(* follow, and the health report with its accounts and its version.        *)
(* Monitor has the order of the same calls and what cancels them, with the *)
(* outcomes left open that are computed here; Alerter has everything that  *)
(* happens to one Reconcile.                                               *)
(***************************************************************************)
EXTENDS Reports, Versions

CONSTANTS
    MemoryPercent, DiskPercent, TotalTCP, ServiceTCP,  \* thresholds
    MemoryFacts, DiskFacts, TCPFacts,  \* what the checks may measure
    AuthResponses,    \* what auth-files may answer
    QuotaAnswers,     \* what api-call may answer
    VersionAnswers,   \* what latest-version may answer
    ControlObjects    \* objects whose name has a control character in it

\* What a check can know of a mount; diskUsage returns part of a whole.
Mounts == [mountPoint : STRING, usedPercent : 0..100]

\* One entry of an auth-files response; recentSuccess and recentFailed are sums
\* over its buckets before they wrap.
Entries ==
    [auth_index : Indexes, email : STRING, provider : STRING, type : STRING,
     account_id : STRING, disabled : BOOLEAN, unavailable : BOOLEAN,
     status : {"", " ", "active", "error"}, status_message : STRING,
     success : Int, failed : Int, recentSuccess : Int, recentFailed : Int]

ASSUME CycleAssumption ==
    /\ MemoryPercent \in 1..100 /\ DiskPercent \in 1..100
    /\ TotalTCP \in Nat \ {0} /\ ServiceTCP \in Nat \ {0}
    /\ MemoryFacts \subseteq 0..100
    /\ DiskFacts \subseteq [err : BOOLEAN, complete : BOOLEAN, errors : Nat, disks : Seq(Mounts)]
    /\ TCPFacts \subseteq [total : Nat, service : Nat]
    /\ AuthResponses \subseteq [readable : BOOLEAN, files : Seq(Entries)]
    /\ VersionAnswers \subseteq [readable : BOOLEAN, current : Seq(ReleaseVersions),
                                 latest : Seq(ReleaseVersions)]
    /\ "batch" \notin ControlObjects

VARIABLES
    channel,    \* "smtp" or "dingtalk": where messages go
    at,         \* the scopes measured so far, or a step of the report after them
    stage,      \* "reconcile" between a measurement and the end of its Reconcile
    facts,      \* what the last check returned
    batch,      \* what the rules made of it
    active,     \* the keys of the alerter's records
    runErrors,  \* RunOnce: len(runErrors) > 0
    eligible,   \* no server error so far and every server batch healthy
    host,       \* the host's numbers for the snapshot, while it is eligible
    accounts,   \* the position of the account whose quota is next
    report,     \* the report in the making, <<>> before and after
    refused     \* observer: the groups that the last Reconcile could not render

vars == <<channel, at, stage, facts, batch, active, runErrors, eligible, host,
          accounts, report, refused>>

Order == <<"health", "memory", "disk", "network", "auth">>
Scope == Order[at]
InScope(scope) == {k \in active : k[1] = scope}

NoBatch == CompleteBatch({})
NoFacts == [err |-> FALSE]
NoHost == [memory |-> 0, highestDisk |-> 0, diskMountCount |-> 0,
           totalTCP |-> 0, serviceTCP |-> 0]

-----------------------------------------------------------------------------
(* The batches and the numbers of the snapshot *)

\* What a check may return: facts or an error; Disks both at once.
Facts(scope) ==
    CASE scope = "health"  -> [err : BOOLEAN]
      [] scope = "memory"  -> {[err |-> FALSE, used |-> p] : p \in MemoryFacts}
                              \cup {[err |-> TRUE]}
      [] scope = "disk"    -> DiskFacts
      [] scope = "network" -> {[err |-> FALSE, total |-> u.total, service |-> u.service] :
                                  u \in TCPFacts} \cup {[err |-> TRUE]}
      [] scope = "auth"    -> AuthResponses

\* A collector error makes the scope incomplete whatever the batch says.
DiskInput(f) ==
    [disks    |-> f.disks,
     complete |-> f.complete /\ ~f.err,
     errors   |-> IF f.err /\ f.errors = 0 THEN 1 ELSE f.errors]

BatchOf(scope, f) ==
    CASE scope = "health" -> Health(f.err)
      [] scope = "disk"   -> Disks(DiskInput(f), DiskPercent)
      [] scope = "auth" /\ AuthFiles(f).err  -> IncompleteBatch(1)
      [] scope = "auth" /\ ~AuthFiles(f).err -> Auth(AuthFiles(f).files)
      [] scope \in {"memory", "network"} /\ f.err -> IncompleteBatch(1)
      [] scope = "memory" /\ ~f.err  -> Memory(f.used, MemoryPercent)
      [] scope = "network" /\ ~f.err -> TCP(f, TotalTCP, ServiceTCP)

Highest(disks) ==
    IF disks = <<>> THEN 0
    ELSE LET used == {disks[i].usedPercent : i \in DOMAIN disks}
         IN  Max(used \cup {0})

HostWith(scope, f) ==
    CASE scope = "memory" /\ ~f.err  -> [host EXCEPT !.memory = f.used]
      [] scope = "disk" -> [host EXCEPT !.highestDisk = Highest(f.disks),
                                        !.diskMountCount = Len(f.disks)]
      [] scope = "network" /\ ~f.err -> [host EXCEPT !.totalTCP = f.total,
                                                     !.serviceTCP = f.service]
      [] OTHER -> host

-----------------------------------------------------------------------------
(* Messages *)

\* One message per account; one for the whole scope otherwise.
DeliveryGroups(scope, keys) ==
    IF scope = "auth" THEN {{k} : k \in keys}
    ELSE IF keys = {} THEN {} ELSE {keys}

\* The keys that the mailer puts into one mail: several events become a summary
\* with a key of its own.
MailKeys_OfEvents(scope, group) == group
MailKeys(scope, group) ==
    IF \E k \in group : group = {k} THEN group ELSE {<<scope, "batch">>}

\* headerSafe makes every object safe for a mail header, but the mailer wants
\* the same of the key.  DingTalk shows no key in a header.
Renders(scope, group) ==
    channel = "smtp" => \A k \in MailKeys(scope, group) : k[2] \notin ControlObjects

New(b) == Keys(b) \ active
Gone(scope, b) == IF b.complete THEN InScope(scope) \ Keys(b) ELSE {}

\* A server alert or recovery that did not get through is a server error.
StaysEligible_UnlessAlertFails(failed) ==
    eligible /\ (Scope = "auth" \/ failed \cap DeliveryGroups(Scope, New(batch)) = {})
StaysEligible(failed) == eligible /\ (Scope = "auth" \/ failed = {})

-----------------------------------------------------------------------------

Init ==
    /\ channel \in {"smtp", "dingtalk"}
    /\ at = 0 /\ stage = "done" /\ facts = NoFacts /\ batch = NoBatch
    /\ active = {} /\ refused = {}
    /\ runErrors = FALSE /\ eligible = TRUE /\ host = NoHost
    /\ accounts = 0 /\ report = <<>>

\* A check, and the rule for what it returned.
Measure ==
    /\ at \in 0..4 /\ stage = "done"
    /\ \E f \in Facts(Order[at + 1]) :
          LET scope == Order[at + 1]
              b == BatchOf(scope, f)
          IN  /\ facts' = f /\ batch' = b
              /\ runErrors' = (runErrors \/ (scope # "health" /\ b.errors > 0))
              /\ eligible' = (eligible /\ (scope = "auth" \/ batchesHealthy({b})))
              /\ host' = IF eligible' THEN HostWith(scope, f) ELSE NoHost
    /\ at' = at + 1 /\ stage' = "reconcile" /\ refused' = {}
    /\ UNCHANGED <<channel, active, accounts, report>>

\* Reconcile of the batch: each group is rendered and sent, and may be lost.
Reconcile ==
    /\ stage = "reconcile"
    /\ LET alerts == DeliveryGroups(Scope, New(batch))
           recoveries == DeliveryGroups(Scope, Gone(Scope, batch))
           rendered == {g \in alerts \cup recoveries : Renders(Scope, g)}
       IN  \E sent \in SUBSET rendered :
             LET failed == (alerts \cup recoveries) \ sent
             IN  /\ active' = (active \cup UNION (sent \cap alerts))
                                 \ UNION (sent \cap recoveries)
                 /\ refused' = (alerts \cup recoveries) \ rendered
                 /\ runErrors' = (runErrors \/ failed # {})
                 /\ eligible' = StaysEligible(failed)
    /\ host' = IF eligible' THEN host ELSE NoHost
    /\ stage' = "done"
    /\ UNCHANGED <<channel, at, facts, batch, accounts, report>>

EndCycle ==
    /\ at' = 0 /\ facts' = NoFacts /\ batch' = NoBatch /\ refused' = {}
    /\ runErrors' = FALSE /\ eligible' = TRUE /\ host' = NoHost
    /\ accounts' = 0 /\ report' = <<>>
    /\ UNCHANGED <<channel, stage, active>>

NoReport ==
    /\ at = 5 /\ stage = "done"
    /\ EndCycle

\* ReportHealthy finds a report due: the snapshot becomes a report.
BeginReport ==
    /\ at = 5 /\ stage = "done" /\ eligible
    /\ LET answer == AuthFiles(facts)
           usages == enabledAccountUsages(answer.files)
       IN  report' = [memory |-> host.memory, highestDisk |-> host.highestDisk,
                      diskMountCount |-> host.diskMountCount,
                      totalTCP |-> host.totalTCP, serviceTCP |-> host.serviceTCP,
                      accountUsageAvailable |-> ~answer.err,
                      accountCount |-> Len(answer.files),
                      enabledAccountCount |-> Len(usages),
                      accountUsages |-> usages,
                      version |-> NoVersion]
    /\ at' = 6 /\ accounts' = 1
    /\ facts' = NoFacts /\ batch' = NoBatch /\ refused' = {}
    /\ UNCHANGED <<channel, stage, active, runErrors, eligible, host>>

\* addQuota of the next account.
AddQuota ==
    /\ at = 6 /\ accounts <= Len(report.accountUsages)
    /\ LET usage == report.accountUsages[accounts]
       IN  \/ ~IsCodex(usage) /\ UNCHANGED report
           \/ /\ IsCodex(usage)
              /\ \E answer \in QuotaAnswers : \E quota \in CodexQuota(usage, answer) :
                    report' = [report EXCEPT !.accountUsages[accounts] = addQuota(@, quota)]
    /\ accounts' = accounts + 1
    /\ UNCHANGED <<channel, at, stage, facts, batch, active, runErrors, eligible, host, refused>>

\* VersionStatus: the answer's two versions, each usable or <<>>.
VersionStatus(answer) ==
    IF ~answer.readable \/ answer.current = <<>> \/ answer.latest = <<>> THEN NoVersion
    ELSE LET compared == compareReleaseVersions(answer.current[1], answer.latest[1])
         IN  [available |-> TRUE, comparable |-> compared.comparable,
              update |-> compared.comparable /\ compared.order < 0,
              current |-> answer.current, latest |-> answer.latest]

\* A version that would make the report invalid is left out.
AddVersion ==
    /\ at = 6 /\ accounts > Len(report.accountUsages)
    /\ \E answer \in VersionAnswers :
          LET version == VersionStatus(answer)
          IN  report' = [report EXCEPT !.version =
                            IF ValidateVersionInfo(version) THEN version ELSE NoVersion]
    /\ at' = 7
    /\ UNCHANGED <<channel, stage, facts, batch, active, runErrors, eligible, host,
                   accounts, refused>>

\* SendHealth and the end of the cycle.
SendHealth ==
    /\ at = 7
    /\ EndCycle

Next == Measure \/ Reconcile \/ NoReport \/ BeginReport \/ AddQuota \/ AddVersion \/ SendHealth

Spec == Init /\ [][Next]_vars

-----------------------------------------------------------------------------
(* What the facts say, read without the rules *)

Unhealthy(file) ==
    \/ file.unavailable
    \/ ~file.disabled /\ (file.status_message = "quota" \/ file.status = "error")

\* The objects that were measured to be unhealthy.
UnhealthyObjects(scope, f) ==
    CASE scope = "health"  -> IF f.err THEN {""} ELSE {}
      [] scope = "memory"  -> IF ~f.err /\ f.used >= MemoryPercent THEN {""} ELSE {}
      [] scope = "disk"    -> {f.disks[i].mountPoint :
                                 i \in {j \in DOMAIN f.disks : f.disks[j].usedPercent >= DiskPercent}}
      [] scope = "network" -> IF f.err THEN {}
                              ELSE {o \in {"total_tcp", "service_port"} :
                                      IF o = "total_tcp" THEN f.total >= TotalTCP
                                      ELSE f.service >= ServiceTCP}
      [] scope = "auth"    -> {TrimSpace(AuthIndex(f.files[i].auth_index)) :
                                 i \in {j \in DOMAIN f.files : Unhealthy(f.files[j])}}

\* The accounts of a response with this index.
Named(f, index) ==
    {i \in DOMAIN f.files : TrimSpace(AuthIndex(f.files[i].auth_index)) = index}

\* The check has seen everything its scope consists of.
SawEverything(scope, f) ==
    CASE scope = "health" -> TRUE
      [] scope \in {"memory", "network"} -> ~f.err
      [] scope = "disk" -> ~f.err /\ f.errors = 0
      [] scope = "auth" -> f.readable

-----------------------------------------------------------------------------
(* Properties *)

\* rule.go: "preventing colliding alert keys and false recoveries".  A key is
\* recovered only after a check that saw everything and found its object, if it
\* is still there, healthy: for an account, without an unhealthy entry that has
\* no index and could be it, and without a second entry that has its index.
RecoveriesAreMeasured ==
    [][\A k \in active \ active' :
          /\ SawEverything(k[1], facts)
          /\ k[2] \notin UnhealthyObjects(k[1], facts)
          /\ k[1] = "auth" => /\ "" \notin UnhealthyObjects("auth", facts)
                              /\ Cardinality(Named(facts, k[2])) <= 1]_vars

\* A key is raised only for one object that was measured to be unhealthy: never
\* for two accounts that share an index.
AlertsNameOneObject ==
    [][\A k \in active' \ active :
          /\ k[2] \in UnhealthyObjects(k[1], facts)
          /\ k[1] = "auth" => Cardinality(Named(facts, k[2])) = 1]_vars

\* Whatever was measured to be unhealthy is an active alert when its scope is
\* done, or the cycle reports an error.
NothingUnhealthyIsSilent ==
    stage = "done" /\ at \in 1..5 =>
        \A object \in UnhealthyObjects(Scope, facts) :
            runErrors \/ (<<Scope, object>> \in active /\ <<Scope, object>> # <<"auth", "">>)

\* README: a report "is eligible after the four server scopes [...] finish
\* successfully with no server condition".  While a report that says so is made
\* no alert of these scopes is open, a recovery that could not be sent included,
\* and none of its numbers reaches a threshold.
ReportAgreesWithAlerts ==
    report # <<>> =>
        /\ active \subseteq InScope("auth")
        /\ report.memory < MemoryPercent /\ report.highestDisk < DiskPercent
        /\ report.totalTCP < TotalTCP /\ report.serviceTCP < ServiceTCP

\* No message is refused because of what a server said in it, with two
\* exceptions: the mailer refuses a message about one object with a control
\* character in its name, and both transports refuse a report with a negative
\* counter in it.
RefusalsAreKnown ==
    /\ \A group \in refused :
          channel = "smtp" /\ \E k \in active \cup Keys(batch) :
              group = {k} /\ k[2] \in ControlObjects
    /\ at = 7 =>
          \/ ValidForMail(report) /\ ValidForDingTalk(report)
          \/ \E i \in DOMAIN report.accountUsages :
                LET u == report.accountUsages[i]
                IN  \E n \in {u.success, u.failed, u.recentSuccess, u.recentFailed} : n < 0

\* An update is announced exactly if the running version precedes the latest one
\* in the order of Semantic Versioning.  The standard tells the cases of letters
\* apart, the code does not; of texts that are no versions nothing is claimed.
UpdateAdviceFollowsSemVer ==
    at = 7 /\ report.version.available =>
        LET current == report.version.current[1]
            latest == report.version.latest[1]
        IN  IsSemVer(current) /\ IsSemVer(latest) /\ ~EqualFold(current, latest) =>
                /\ report.version.comparable
                /\ report.version.update <=> Precedes(current, latest)

=============================================================================
