---------------------------- MODULE MCInstaller ----------------------------
(***************************************************************************)
(* A configuration that is good in every respect, with one or two of its   *)
(* settings changed, and an installation of three files in two             *)
(* directories.  The order of the files is the script's.                   *)
(***************************************************************************)
EXTENDS Installer

MCDirectories == <<"etc", "state">>
MCFiles == <<"binary", "unit", "config">>

Word == {"word"}
URL == [outerSpace |-> FALSE, scheme |-> "https", host |-> "remote", user |-> FALSE,
        query |-> "", fragment |-> "", port |-> <<>>]

Good ==
    [interval |-> 60, timeout |-> 10, memoryPercent |-> 80, diskPercent |-> 80,
     totalTCP |-> 3000, serviceTCP |-> 800, baseURL |-> URL, servicePort |-> 0,
     secrets |-> [s \in Secrets |-> Word], stateFile |-> Word,
     primary |-> "smtp", fallback |-> "", reportEnabled |-> TRUE, reportChannel |-> "dingtalk",
     reportInterval |-> 24, reportRetry |-> 1,
     smtpTimeout |-> 10, smtpLanguage |-> "zh-CN", host |-> "name", port |-> 587,
     from |-> "user@host", to |-> {"user@host"}, starttls |-> TRUE, tls |-> FALSE,
     dingtalkTimeout |-> 10, dingtalkLanguage |-> "en", maxItems |-> 10, atAll |-> FALSE,
     mentions |-> {}, level |-> "info", fileEnabled |-> TRUE, logPath |-> Word,
     maxSizeMB |-> 2, maxFiles |-> 5, maxTotalSizeMB |-> 3]

\* Which channels are used, and how they are named.
Routes ==
    {[Good EXCEPT !.primary = p, !.fallback = f, !.reportEnabled = e, !.reportChannel = r] :
        p \in {"smtp", " SMTP ", "dingtalk", "pager"}, f \in {"", "smtp", "dingtalk"},
        e \in BOOLEAN, r \in {"", "smtp", "dingtalk"}}

BadChannels(c) ==
    {c, [c EXCEPT !.host = ":"], [c EXCEPT !.dingtalkTimeout = 0]}

Numbers ==
    {[Good EXCEPT !.interval = 0], [Good EXCEPT !.timeout = -1], [Good EXCEPT !.memoryPercent = 0],
     [Good EXCEPT !.diskPercent = 101], [Good EXCEPT !.totalTCP = 0], [Good EXCEPT !.serviceTCP = 0],
     [Good EXCEPT !.servicePort = 65536], [Good EXCEPT !.servicePort = 8317],
     [Good EXCEPT !.reportInterval = 0], [Good EXCEPT !.reportRetry = 0],
     [Good EXCEPT !.smtpTimeout = 0], [Good EXCEPT !.port = 0], [Good EXCEPT !.maxItems = 51],
     [Good EXCEPT !.level = "trace"], [Good EXCEPT !.stateFile = {"space"}]}

Sizes == {[Good EXCEPT !.maxSizeMB = m, !.maxTotalSizeMB = t, !.maxFiles = n, !.fileEnabled = e] :
             m, t \in {-1, 0, 2, 3, 4, 40}, n \in {0, 5}, e \in BOOLEAN}

URLs == {[Good EXCEPT !.baseURL = u] :
            u \in {[URL EXCEPT !.scheme = s, !.host = h, !.query = q] :
                      s \in {"http", "https", "ftp"}, h \in {"remote", "localhost.", ""},
                      q \in {"", "?", "given"}}
                  \cup {[URL EXCEPT !.port = p] : p \in {<<-1>>, <<0>>, <<8317>>, <<65536>>}}
                  \cup {[URL EXCEPT !.user = TRUE], [URL EXCEPT !.fragment = "given"],
                        [URL EXCEPT !.outerSpace = TRUE]}}

MCTexts == {{}, Word} \cup {t \cup {k} : t \in {{}, Word}, k \in {"space", "tab", "break", "nul", "outer"}}

Others ==
    {[Good EXCEPT !.smtpLanguage = l, !.dingtalkLanguage = l] : l \in {" ZH-CN", "EN", "fr"}}
    \cup {[Good EXCEPT !.from = m] : m \in {"", "nobody", "user@host\r"}}
    \cup {[Good EXCEPT !.to = t] : t \in {{}, {"user@host", "nobody"}}}
    \cup {[Good EXCEPT !.starttls = s, !.tls = t] : s, t \in BOOLEAN}
    \cup {[Good EXCEPT !.atAll = a, !.mentions = {m}] : a \in BOOLEAN, m \in MCTexts}

\* Every secret from the file and from its variable.
NoVariables == [s \in Secrets |-> <<>>]

MCConfigurations ==
    {[file |-> c, env |-> NoVariables] :
        c \in UNION {BadChannels(r) : r \in Routes} \cup Numbers \cup Sizes \cup URLs \cup Others
              \cup {[Good EXCEPT !.secrets[s] = t] : s \in Secrets, t \in MCTexts}}
    \cup {[file |-> Good, env |-> [NoVariables EXCEPT ![s] = <<t>>]] : s \in Secrets, t \in MCTexts}
    \cup {[file |-> [Good EXCEPT !.secrets.username = {}, !.secrets.password = {}],
           env |-> [NoVariables EXCEPT !.username = u]] : u \in {<<>>, <<{}>>, <<Word>>}}

=============================================================================
