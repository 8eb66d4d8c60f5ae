------------------------------ MODULE MCCycle ------------------------------
(* Small sets of facts and answers for Cycle; the numbers are chosen around *)
(* the thresholds and limits of the cfg.                                    *)
EXTENDS Cycle

MCMemoryFacts == {MemoryPercent - 1, MemoryPercent}

Mount(name, percent) == [mountPoint |-> name, usedPercent |-> percent]
Low == DiskPercent - 1
High == DiskPercent + 1

\* Two mounts, one with a tab in its name, measured together, one of them twice,
\* or one of them not at all.
MCDiskFacts ==
    {[err |-> FALSE, complete |-> TRUE, errors |-> 0, disks |-> <<Mount("/", p), Mount("/tab", q)>>] :
        p \in {Low, DiskPercent}, q \in {0, High}}
    \cup {[err |-> FALSE, complete |-> TRUE, errors |-> 0, disks |-> <<Mount("/", High), Mount("/", Low)>>],
          [err |-> FALSE, complete |-> TRUE, errors |-> 0, disks |-> <<>>]}
    \cup {[err |-> TRUE, complete |-> FALSE, errors |-> 1, disks |-> <<Mount("/", p)>>] : p \in {Low, High}}
    \cup {[err |-> TRUE, complete |-> FALSE, errors |-> 0, disks |-> <<>>]}

MCTCPFacts == [total : {TotalTCP - 1, TotalTCP}, service : {ServiceTCP - 1, ServiceTCP}]

-----------------------------------------------------------------------------

\* A healthy account of another provider, and the ways in which others differ.
Plain == [auth_index |-> "a", email |-> "", provider |-> "", type |-> "other", account_id |-> "",
          disabled |-> FALSE, unavailable |-> FALSE, status |-> "active", status_message |-> "",
          success |-> 0, failed |-> 0, recentSuccess |-> 0, recentFailed |-> 0]
Indexed(index) == [Plain EXCEPT !.auth_index = index]

Conditions == {Plain, [Plain EXCEPT !.status = "error"], [Plain EXCEPT !.status_message = "quota"],
               [Plain EXCEPT !.disabled = TRUE, !.status = "error"],
               [Plain EXCEPT !.disabled = TRUE, !.unavailable = TRUE],
               [Plain EXCEPT !.unavailable = TRUE, !.status = " "]}
Files == {[c EXCEPT !.auth_index = i] : c \in Conditions, i \in {"absent", "a"}}
Others == {Indexed("b"), [Indexed(" a") EXCEPT !.status = "error"], Indexed(" "),
           [Indexed("-0") EXCEPT !.status = "error"], Indexed("no index")}
Codex == {[Plain EXCEPT !.provider = "Codex", !.email = "mail"],
          [Indexed(" ") EXCEPT !.type = "codex", !.email = " "],
          [Indexed("b") EXCEPT !.type = "codex", !.account_id = "control"]}
Counted == {[Plain EXCEPT !.success = -1], [Plain EXCEPT !.recentFailed = MaxInt + 1]}

Response(files) == [readable |-> TRUE, files |-> files]

MCAuthResponses ==
    {[readable |-> FALSE, files |-> <<>>], Response(<<>>)}
    \cup {Response(<<e>>) : e \in Files \cup Others \cup Codex \cup Counted}
    \cup {Response(<<d, e>>) : d \in Files, e \in Files \cup Others}
    \cup {Response(<<d, e>>) : d \in Codex \cup Counted, e \in Codex}
    \cup {Response(<<d, Plain, e>>) : d \in {[Indexed(" a") EXCEPT !.status = "error"], Indexed("-0")},
                                      e \in Others}

-----------------------------------------------------------------------------

Window(used, length, resetAfter, resetAt) ==
    [used |-> used, length |-> length, resetAfter |-> resetAfter, resetAt |-> resetAt]
Quota(limitReached, allowed, primary, secondary) ==
    [readable |-> TRUE, rateLimit |-> TRUE, limitReached |-> limitReached, allowed |-> allowed,
     primary |-> primary, secondary |-> secondary]
Weekly == Window(<<75, 10>>, <<168>>, <<1>>, <<9>>)

MCQuotaAnswers ==
    {[Quota(<<>>, <<>>, <<>>, <<>>) EXCEPT !.readable = FALSE],
     [Quota(<<>>, <<>>, <<Weekly>>, <<>>) EXCEPT !.rateLimit = FALSE],
     Quota(<<>>, <<>>, <<>>, <<>>),
     Quota(<<>>, <<TRUE>>, <<Window(<<0>>, <<5>>, <<>>, <<>>)>>, <<Weekly>>),
     Quota(<<FALSE>>, <<FALSE>>, <<Window(<<>>, <<5>>, <<>>, <<>>)>>, <<Window(<<>>, <<720>>, <<>>, <<>>)>>),
     Quota(<<>>, <<>>, <<Window(<<101>>, <<5>>, <<>>, <<>>)>>, <<>>),
     Quota(<<>>, <<>>, <<Weekly>>, <<Window(<<50>>, <<168>>, <<-1>>, <<>>)>>),
     Quota(<<>>, <<>>, <<Window(<<50>>, <<MaxHours + 1>>, <<>>, <<>>)>>, <<>>),
     Quota(<<>>, <<>>, <<>>, <<Window(<<>>, <<>>, <<MaxHours + 1>>, <<>>)>>)}

-----------------------------------------------------------------------------

\* Identifiers as character codes: 0 1 2 9 10, rc, RC, a number above
\* MaxUint, 01.
Zero == <<48>> One == <<49>> Two == <<50>> Nine == <<57>> Ten == <<49, 48>>
rc == <<114, 99>> RC == <<82, 67>> Huge == <<57, 57, 57>> ZeroOne == <<48, 49>>

Version(core, pre) == [lead |-> "", core |-> core, dash |-> pre # <<>>, pre |-> pre, build |-> <<>>]

Cores == {<<One, Zero, Nine>>, <<One, Zero, Ten>>, <<One, One, Zero>>}
Prereleases == {<<>>, <<One>>, <<Nine>>, <<Ten>>, <<rc>>, <<RC>>, <<rc, One>>, <<rc, Ten>>, <<rc, Nine>>,
                <<rc, Huge>>, <<rc, ZeroOne>>, <<<<>>>>}
Oddities == {Version(<<One, Zero>>, <<>>), Version(<<ZeroOne, Zero, Zero>>, <<>>),
             Version(<<Huge, Zero, Zero>>, <<>>), Version(<<One, <<>>, Zero>>, <<>>),
             [Version(<<One, Zero, Nine>>, <<>>) EXCEPT !.lead = "V"],
             [Version(<<One, Zero, Nine>>, <<>>) EXCEPT !.lead = "v", !.build = <<Two>>]}
Releases == {Version(core, <<>>) : core \in Cores} \cup Oddities
Candidates == {Version(<<One, Zero, Nine>>, pre) : pre \in Prereleases}
Base == Version(<<One, Zero, Nine>>, <<>>)

MCVersionAnswers ==
    {[readable |-> FALSE, current |-> <<>>, latest |-> <<>>],
     [readable |-> TRUE, current |-> <<>>, latest |-> <<Base>>]}
    \cup {[readable |-> TRUE, current |-> <<v>>, latest |-> <<w>>] : v, w \in Candidates}
    \cup {[readable |-> TRUE, current |-> <<v>>, latest |-> <<Base>>] : v \in Releases}
    \cup {[readable |-> TRUE, current |-> <<Base>>, latest |-> <<v>>] : v \in Releases}

=============================================================================
