-------------------------------- MODULE Rules --------------------------------
(***************************************************************************)
(* internal/rule, and what internal/cliproxy makes of an auth-files        *)
(* response before the rules see it: pure operators from the facts of one  *)
(* scope to its batch.                                                     *)
(*                                                                         *)
(* A key is <<kind, object>>.  The code builds its conditions in a map and *)
(* sorts them by key, so they are a set here; Current stands for what the  *)
(* message shows of the measurement.  A text of which only one aspect      *)
(* matters is a name of that aspect, such as " a" for an index with a      *)
(* space before it.                                                        *)
(***************************************************************************)
EXTENDS Integers, Sequences, FiniteSets

TrimSpace(text) ==
    CASE text = " a" -> "a"
      [] text = " "  -> ""
      [] OTHER       -> text

Condition(kind, object, current) == [key |-> <<kind, object>>, current |-> current]

Keys(batch) == {c.key : c \in batch.conditions}

IncompleteBatch(errors) == [complete |-> FALSE, conditions |-> {}, errors |-> errors]

CompleteBatch(conditions) == [complete |-> TRUE, conditions |-> conditions, errors |-> 0]

-----------------------------------------------------------------------------
(* The server's scopes *)

Health(failed) ==
    CompleteBatch(IF failed THEN {Condition("health", "", "down")} ELSE {})

Memory(usedPercent, threshold) ==
    CompleteBatch(IF usedPercent >= threshold
                  THEN {Condition("memory", "", usedPercent)} ELSE {})

\* input.disks is a sequence of mounts with their usage, input.errors the number
\* of mounts without one.  Of several entries for a mount the highest counts.
Disks(input, threshold) ==
    LET full == {i \in DOMAIN input.disks : input.disks[i].usedPercent >= threshold}
        highest == {i \in full : \A j \in full :
                        input.disks[j].mountPoint = input.disks[i].mountPoint =>
                            input.disks[j].usedPercent <= input.disks[i].usedPercent}
    IN  [complete   |-> input.complete /\ input.errors = 0,
         conditions |-> {Condition("disk", input.disks[i].mountPoint,
                                   input.disks[i].usedPercent) : i \in highest},
         errors     |-> input.errors]

TCP(usage, totalThreshold, serviceThreshold) ==
    CompleteBatch(
        (IF usage.total >= totalThreshold
         THEN {Condition("network", "total_tcp", usage.total)} ELSE {})
        \cup
        (IF usage.service >= serviceThreshold
         THEN {Condition("network", "service_port", usage.service)} ELSE {}))

-----------------------------------------------------------------------------
(* Accounts *)

\* One entry of a response.  JSON null, a fraction, an object or the like is no
\* index, and fails the whole response.
Indexes == {"absent", "a", " a", " ", "b", "-0", "no index"}

AuthIndex(raw) ==
    CASE raw = "absent" -> ""
      [] raw = "-0"     -> "0"
      [] OTHER          -> raw

Decodable(entries) ==
    \A i \in DOMAIN entries : entries[i].auth_index # "no index"

\* AuthFiles: the decoded entries of a response that is a 200 of acceptable size
\* with an array of files in it, or an error.
AuthFiles(response) ==
    IF response.readable /\ Decodable(response.files)
    THEN [err   |-> FALSE,
          files |-> [i \in DOMAIN response.files |->
                        [response.files[i] EXCEPT !.auth_index = AuthIndex(@)]]]
    ELSE [err |-> TRUE, files |-> <<>>]

authReasons_NotDisabled(file) ==
    IF file.disabled THEN {}
    ELSE (IF file.unavailable THEN {"unavailable"} ELSE {})
         \cup (IF file.status_message = "quota" THEN {"quota-like"} ELSE {})
         \cup (IF TrimSpace(file.status) \notin {"", "active"} THEN {"non-active"} ELSE {})

\* A disabled account is only reported when it is unavailable as well.
authReasons(file) ==
    (IF file.unavailable THEN {"unavailable"} ELSE {})
    \cup
    (IF ~file.disabled /\ file.status_message = "quota" THEN {"quota-like"} ELSE {})
    \cup
    (IF ~file.disabled /\ TrimSpace(file.status) \notin {"", "active"}
     THEN {"non-active"} ELSE {})

Duplicates_Untrimmed(files) ==
    {i \in DOMAIN files : TrimSpace(files[i].auth_index) # "" /\
        \E j \in DOMAIN files \ {i} : files[j].auth_index = files[i].auth_index}
Duplicates(files) ==
    {i \in DOMAIN files : TrimSpace(files[i].auth_index) # "" /\
        \E j \in DOMAIN files \ {i} :
            TrimSpace(files[j].auth_index) = TrimSpace(files[i].auth_index)}

Nameless(files) ==
    {i \in DOMAIN files :
        TrimSpace(files[i].auth_index) = "" /\ authReasons(files[i]) # {}}

Auth_SkipsDuplicates(files) ==
    LET invalid == Duplicates(files) \cup Nameless(files)
        unhealthy == {i \in DOMAIN files : authReasons(files[i]) # {}}
    IN  [complete   |-> Nameless(files) = {},
         conditions |-> {Condition("auth", TrimSpace(files[i].auth_index),
                                   authReasons(files[i])) : i \in unhealthy \ invalid},
         errors     |-> Cardinality(invalid)]

\* Both kinds of entries make the batch incomplete and none of them becomes a
\* condition; a healthy entry without an index is left out silently.
Auth(files) ==
    LET invalid == Duplicates(files) \cup Nameless(files)
        unhealthy == {i \in DOMAIN files : authReasons(files[i]) # {}}
    IN  [complete   |-> invalid = {},
         conditions |-> {Condition("auth", TrimSpace(files[i].auth_index),
                                   authReasons(files[i])) : i \in unhealthy \ invalid},
         errors     |-> Cardinality(invalid)]

=============================================================================
