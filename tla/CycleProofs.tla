---------------------------- MODULE CycleProofs ----------------------------
(***************************************************************************)
(* What Cycle's alerts say of the measurements, for every measurement the  *)
(* checks can return, all thresholds and every transport.                  *)
(***************************************************************************)
EXTENDS Cycle, FiniteSetTheorems, WellFoundedInduction, TLAPS

ServerScopes == {"health", "memory", "disk", "network"}
Scopes == ServerScopes \cup {"auth"}

-----------------------------------------------------------------------------
(* Numbers *)

\* The order of the natural numbers is well-founded.
LEMMA LessIsWellFounded == IsWellFoundedOn({p \in Nat \X Nat : p[1] < p[2]}, Nat)
BY NatLessThanWellFounded DEF OpToRel

\* A set of natural numbers that is not empty has a smallest one.
LEMMA HasMinimum ==
    ASSUME NEW T, T \subseteq Nat, T # {}
    PROVE  \E n \in T : \A m \in T : n <= m
<1> DEFINE R == {p \in Nat \X Nat : p[1] < p[2]}
<1>1. PICK n \in T : \A m \in T : <<m, n>> \notin R
  <2> HIDE DEF R
  <2>1. IsWellFoundedOn(R, Nat)
    BY LessIsWellFounded DEF R
  <2> QED
    BY <2>1, WFMin
<1>2. \A m \in T : n <= m
  <2> SUFFICES ASSUME NEW m \in T, m < n PROVE FALSE
    OBVIOUS
  <2>1. <<m, n>> \in R
    OBVIOUS
  <2> QED
    BY <1>1, <2>1
<1> QED
  BY <1>2

\* A bounded set of numbers that is not empty has a largest one.
LEMMA HasMaximum ==
    ASSUME NEW S, S \subseteq Int, S # {}, NEW b \in Int, \A x \in S : x <= b
    PROVE  \E x \in S : \A y \in S : y <= x
<1> DEFINE T == {n \in Nat : b - n \in S}
<1>1. T \subseteq Nat /\ T # {}
  <2>1. PICK x \in S : TRUE
    OBVIOUS
  <2>2. b - x \in Nat /\ b - (b - x) = x
    BY <2>1
  <2> QED
    BY <2>1, <2>2
<1>2. PICK m \in T : \A n \in T : m <= n
  <2> HIDE DEF T
  <2> QED
    BY <1>1, HasMinimum
<1>3. \A y \in S : y <= b - m
  <2> SUFFICES ASSUME NEW y \in S, y > b - m PROVE FALSE
    OBVIOUS
  <2>1. b - y \in T
    <3>1. b - y \in Nat /\ b - (b - y) = y
      OBVIOUS
    <3> QED
      BY <3>1
  <2>2. ~(m <= b - y)
    BY <1>1
  <2> QED
    BY <1>2, <2>1, <2>2
<1> QED
  BY <1>3

\* g goes from the first value to the N-th, step by step.
Follows(g, first, step, N) == g[0] = first /\ \A n \in 1..N : g[n] = step[<<n, g[n - 1]>>]

\* What is defined step by step exists.
LEMMA RecursionExists ==
    ASSUME NEW S, NEW first \in S, NEW step \in [Nat \X S -> S], NEW N \in Nat
    PROVE  \E g \in [0..N -> S] : Follows(g, first, step, N)
<1> DEFINE Defined(n) == \E g \in [0..n -> S] :
                             g[0] = first /\ \A m \in 1..n : g[m] = step[<<m, g[m - 1]>>]
           T == {n \in Nat : ~Defined(n)}
<1>1. Defined(0)
  <2> DEFINE g == [m \in 0..0 |-> first]
  <2>1. g \in [0..0 -> S] /\ g[0] = first /\ \A m \in 1..0 : g[m] = step[<<m, g[m - 1]>>]
    OBVIOUS
  <2> QED
    BY <2>1
<1>2. ASSUME NEW n \in Nat, Defined(n)
      PROVE  Defined(n + 1)
  <2>1. PICK g \in [0..n -> S] : g[0] = first /\ \A m \in 1..n : g[m] = step[<<m, g[m - 1]>>]
    BY <1>2
  <2> DEFINE h == [m \in 0..(n + 1) |-> IF m = n + 1 THEN step[<<n + 1, g[n]>>] ELSE g[m]]
  <2>2. step[<<n + 1, g[n]>>] \in S
    <3>1. g[n] \in S /\ <<n + 1, g[n]>> \in Nat \X S
      OBVIOUS
    <3> QED
      BY <3>1
  <2>3. h \in [0..(n + 1) -> S]
    BY <2>2
  <2>4. h[0] = first
    BY <2>1
  <2>5. ASSUME NEW m \in 1..(n + 1)
        PROVE  h[m] = step[<<m, h[m - 1]>>]
    <3>1. CASE m = n + 1
      <4>1. m - 1 = n /\ n \in 0..(n + 1) /\ n # n + 1
        BY <3>1
      <4> QED
        BY <3>1, <4>1
    <3>2. CASE m # n + 1
      <4>1. m \in 1..n /\ m - 1 \in 0..(n + 1) /\ m - 1 # n + 1 /\ m \in 0..(n + 1)
        BY <3>2
      <4> QED
        BY <2>1, <3>2, <4>1
    <3> QED
      BY <3>1, <3>2
  <2> QED
    BY <2>3, <2>4, <2>5
<1> HIDE DEF Defined
<1>3. T = {}
  <2> SUFFICES ASSUME T # {} PROVE FALSE
    OBVIOUS
  <2>1. PICK n \in T : \A m \in T : n <= m
    BY HasMinimum
  <2>2. n # 0
    BY <1>1
  <2>3. n - 1 \in Nat /\ n - 1 \notin T
    BY <2>1, <2>2
  <2>4. Defined(n - 1)
    BY <2>3
  <2>5. Defined((n - 1) + 1)
    BY <1>2, <2>3, <2>4
  <2> QED
    BY <2>1, <2>5
<1> QED
  BY <1>3 DEF Defined, Follows

-----------------------------------------------------------------------------
(* The rules *)

\* What a batch says is what was measured: each key is an object that is
\* unhealthy, for an account the only one with its index; a complete batch has
\* seen everything and knows its accounts apart; and without errors nothing that
\* is unhealthy lacks its key.
IsRight(scope, f, b) ==
    /\ b.errors \in Nat
    /\ \A k \in Keys(b) : \E o \in UnhealthyObjects(scope, f) :
          /\ k = <<scope, o>>
          /\ scope = "auth" => o # "" /\ Cardinality(Named(f, o)) = 1
    /\ b.complete =>
          /\ SawEverything(scope, f)
          /\ b.errors = 0
          /\ scope = "auth" =>
                /\ "" \notin UnhealthyObjects(scope, f)
                /\ \A o : o # "" => Cardinality(Named(f, o)) <= 1
    /\ b.errors = 0 =>
          \A o \in UnhealthyObjects(scope, f) :
              <<scope, o>> \in Keys(b) /\ (scope = "auth" => o # "")

\* The key of a condition.
LEMMA KeyOfCondition ==
    \A kind, object, current : Condition(kind, object, current).key = <<kind, object>>
BY DEF Condition

\* A batch without conditions has no key, one with one condition its key.
LEMMA KeysOfBatch ==
    ASSUME NEW b, NEW kind, NEW object, NEW current
    PROVE  /\ b.conditions = {} => Keys(b) = {}
           /\ b.conditions = {Condition(kind, object, current)} => Keys(b) = {<<kind, object>>}
<1> DEFINE c == Condition(kind, object, current)
<1>1. c.key = <<kind, object>>
  BY KeyOfCondition
<1> HIDE DEF c
<1>2. b.conditions = {c} => Keys(b) = {c.key}
  BY DEF Keys
<1> QED
  BY <1>1, <1>2 DEF Keys, c

\* The batch of a check that failed claims nothing and counts an error.
LEMMA IncompleteIsRight ==
    ASSUME NEW scope, NEW f
    PROVE  IsRight(scope, f, IncompleteBatch(1))
<1> DEFINE b == IncompleteBatch(1)
<1>1. b.complete = FALSE /\ b.conditions = {} /\ b.errors = 1
  BY DEF IncompleteBatch
<1>2. Keys(b) = {}
  BY <1>1 DEF Keys
<1> HIDE DEF b
<1>3. IsRight(scope, f, b)
  BY <1>1, <1>2 DEF IsRight
<1> QED
  BY <1>3 DEF b

\* A batch with exactly the unhealthy objects of a server scope is right, if it is
\* complete only after a check that saw everything.
LEMMA ExactIsRight ==
    ASSUME NEW scope \in ServerScopes, NEW f, NEW b,
           b.errors \in Nat,
           b.complete => SawEverything(scope, f) /\ b.errors = 0,
           Keys(b) = {<<scope, o>> : o \in UnhealthyObjects(scope, f)}
    PROVE  IsRight(scope, f, b)
<1>1. scope # "auth"
  BY DEF ServerScopes
<1>2. \A k \in Keys(b) : \E o \in UnhealthyObjects(scope, f) :
         k = <<scope, o>> /\ (scope = "auth" => o # "" /\ Cardinality(Named(f, o)) = 1)
  BY <1>1
<1>3. b.complete =>
         /\ SawEverything(scope, f)
         /\ b.errors = 0
         /\ scope = "auth" =>
               /\ "" \notin UnhealthyObjects(scope, f)
               /\ \A o : o # "" => Cardinality(Named(f, o)) <= 1
  BY <1>1
<1>4. \A o \in UnhealthyObjects(scope, f) : <<scope, o>> \in Keys(b) /\ (scope = "auth" => o # "")
  BY <1>1
<1> QED
  BY <1>2, <1>3, <1>4 DEF IsRight

\* The batch of a health check is right and counts no error.
LEMMA HealthIsRight ==
    ASSUME NEW f
    PROVE  IsRight("health", f, BatchOf("health", f)) /\ BatchOf("health", f).errors = 0
<1> DEFINE conditions == IF f.err THEN {Condition("health", "", "down")} ELSE {}
           b == CompleteBatch(conditions)
<1>1. BatchOf("health", f) = b
  BY DEF BatchOf, Health
<1>2. b.conditions = conditions /\ b.complete = TRUE /\ b.errors = 0
  BY DEF CompleteBatch
<1>3. UnhealthyObjects("health", f) = (IF f.err THEN {""} ELSE {})
  BY DEF UnhealthyObjects
<1>4. SawEverything("health", f)
  BY DEF SawEverything
<1>5. Keys(b) = {<<"health", o>> : o \in UnhealthyObjects("health", f)}
  <2> HIDE DEF b
  <2>1. CASE f.err
    <3>1. Keys(b) = {<<"health", "">>}
      BY <1>2, <2>1, KeysOfBatch
    <3>2. UnhealthyObjects("health", f) = {""}
      BY <1>3, <2>1
    <3> QED
      BY <3>1, <3>2
  <2>2. CASE ~f.err
    <3>1. Keys(b) = {}
      BY <1>2, <2>2, KeysOfBatch
    <3> QED
      BY <2>2, <1>3, <3>1
  <2> QED
    BY <2>1, <2>2
<1>6. IsRight("health", f, b)
  <2> HIDE DEF b, conditions
  <2>1. b.errors \in Nat /\ (b.complete => SawEverything("health", f) /\ b.errors = 0)
    BY <1>2, <1>4
  <2> QED
    BY <1>5, <2>1, ExactIsRight DEF ServerScopes
<1> QED
  BY <1>1, <1>2, <1>6

\* The batch of a memory check is right.
LEMMA MemoryIsRight ==
    ASSUME NEW f
    PROVE  IsRight("memory", f, BatchOf("memory", f))
<1>1. CASE f.err
  <2>1. BatchOf("memory", f) = IncompleteBatch(1)
    BY <1>1 DEF BatchOf
  <2> QED
    BY <2>1, IncompleteIsRight
<1>2. CASE ~f.err
  <2> DEFINE conditions == IF f.used >= MemoryPercent
                           THEN {Condition("memory", "", f.used)} ELSE {}
             b == CompleteBatch(conditions)
  <2>1. BatchOf("memory", f) = b
    BY <1>2 DEF BatchOf, Memory
  <2>2. b.conditions = conditions /\ b.complete = TRUE /\ b.errors = 0
    BY DEF CompleteBatch
  <2>3. UnhealthyObjects("memory", f) = IF f.used >= MemoryPercent THEN {""} ELSE {}
    BY <1>2 DEF UnhealthyObjects
  <2>4. SawEverything("memory", f)
    BY <1>2 DEF SawEverything
  <2>5. Keys(b) = {<<"memory", o>> : o \in UnhealthyObjects("memory", f)}
    <3> HIDE DEF b
    <3>1. CASE f.used >= MemoryPercent
      <4>1. Keys(b) = {<<"memory", "">>}
        BY <2>2, <3>1, KeysOfBatch
      <4>2. UnhealthyObjects("memory", f) = {""}
        BY <2>3, <3>1
      <4> QED
        BY <4>1, <4>2
    <3>2. CASE ~(f.used >= MemoryPercent)
      <4>1. Keys(b) = {}
        BY <2>2, <3>2, KeysOfBatch
      <4> QED
        BY <3>2, <2>3, <4>1
    <3> QED
      BY <3>1, <3>2
  <2>6. IsRight("memory", f, b)
    <3> HIDE DEF b, conditions
    <3>1. b.errors \in Nat /\ (b.complete => SawEverything("memory", f) /\ b.errors = 0)
      BY <2>2, <2>4
    <3> QED
      BY <2>5, <3>1, ExactIsRight DEF ServerScopes
  <2> QED
    BY <2>1, <2>6
<1> QED
  BY <1>1, <1>2

\* The batch of a network check is right.
LEMMA TCPIsRight ==
    ASSUME NEW f
    PROVE  IsRight("network", f, BatchOf("network", f))
<1>1. CASE f.err
  <2>1. BatchOf("network", f) = IncompleteBatch(1)
    BY <1>1 DEF BatchOf
  <2> QED
    BY <2>1, IncompleteIsRight
<1>2. CASE ~f.err
  <2> DEFINE total == Condition("network", "total_tcp", f.total)
             service == Condition("network", "service_port", f.service)
             conditions == (IF f.total >= TotalTCP THEN {total} ELSE {})
                           \cup (IF f.service >= ServiceTCP THEN {service} ELSE {})
             b == CompleteBatch(conditions)
  <2>1. BatchOf("network", f) = b
    BY <1>2 DEF BatchOf, TCP
  <2>2. b.conditions = conditions /\ b.complete = TRUE /\ b.errors = 0
    BY DEF CompleteBatch
  <2>3. total.key = <<"network", "total_tcp">> /\ service.key = <<"network", "service_port">>
    BY KeyOfCondition
  <2>4. UnhealthyObjects("network", f) =
            {o \in {"total_tcp", "service_port"} :
                IF o = "total_tcp" THEN f.total >= TotalTCP ELSE f.service >= ServiceTCP}
    BY <1>2 DEF UnhealthyObjects
  <2>5. SawEverything("network", f)
    BY <1>2 DEF SawEverything
  <2>6. Keys(b) = {<<"network", o>> : o \in UnhealthyObjects("network", f)}
    <3> HIDE DEF b, total, service
    <3>1. \A k : k \in Keys(b) <=>
              \/ f.total >= TotalTCP /\ k = <<"network", "total_tcp">>
              \/ f.service >= ServiceTCP /\ k = <<"network", "service_port">>
      BY <2>2, <2>3 DEF Keys
    <3>2. \A o : o \in UnhealthyObjects("network", f) <=>
              \/ f.total >= TotalTCP /\ o = "total_tcp"
              \/ f.service >= ServiceTCP /\ o = "service_port"
      BY <2>4
    <3> QED
      BY <3>1, <3>2
  <2>7. IsRight("network", f, b)
    <3> HIDE DEF b, conditions
    <3>1. b.errors \in Nat /\ (b.complete => SawEverything("network", f) /\ b.errors = 0)
      BY <2>2, <2>5
    <3> QED
      BY <2>6, <3>1, ExactIsRight DEF ServerScopes
  <2> QED
    BY <2>1, <2>7
<1> QED
  BY <1>1, <1>2

\* What a disk check returns has its type.
LEMMA DiskFactsType ==
    ASSUME NEW f \in Facts("disk")
    PROVE  f \in [err : BOOLEAN, complete : BOOLEAN, errors : Nat, disks : Seq(Mounts)]
<1>1. f \in DiskFacts
  BY DEF Facts
<1> QED
  BY <1>1, CycleAssumption

\* The batch of a disk check is right: of several entries for a mount one has
\* the highest usage.
LEMMA DisksIsRight ==
    ASSUME NEW f \in Facts("disk")
    PROVE  IsRight("disk", f, BatchOf("disk", f))
<1> DEFINE d == f.disks
           full == {i \in DOMAIN d : d[i].usedPercent >= DiskPercent}
           highest == {i \in full : \A j \in full :
                          d[j].mountPoint = d[i].mountPoint => d[j].usedPercent <= d[i].usedPercent}
           b == BatchOf("disk", f)
           errors == IF f.err /\ f.errors = 0 THEN 1 ELSE f.errors
<1>1. /\ f.err \in BOOLEAN /\ f.complete \in BOOLEAN /\ f.errors \in Nat
      /\ \A i \in DOMAIN d : d[i] \in Mounts
  BY DiskFactsType
<1>2. /\ b.complete = (f.complete /\ ~f.err /\ errors = 0)
      /\ b.errors = errors
      /\ b.conditions = {Condition("disk", d[i].mountPoint, d[i].usedPercent) : i \in highest}
  BY DEF BatchOf, Disks, DiskInput
<1>3. Keys(b) = {<<"disk", d[i].mountPoint>> : i \in highest}
  <2> DEFINE c(i) == Condition("disk", d[i].mountPoint, d[i].usedPercent)
  <2>1. \A i : c(i).key = <<"disk", d[i].mountPoint>>
    BY KeyOfCondition
  <2>2. b.conditions = {c(i) : i \in highest}
    BY <1>2
  <2> HIDE DEF b, highest, c
  <2> QED
    BY <2>1, <2>2, ZenonT(30) DEF Keys
<1>4. UnhealthyObjects("disk", f) = {d[i].mountPoint : i \in full}
  BY DEF UnhealthyObjects
<1>5. ASSUME NEW i \in full
      PROVE  \E h \in highest : d[h].mountPoint = d[i].mountPoint
  <2> DEFINE same == {j \in full : d[j].mountPoint = d[i].mountPoint}
             used == {d[j].usedPercent : j \in same}
  <2>1. used \subseteq Int /\ used # {} /\ \A x \in used : x <= 100
    BY <1>1 DEF Mounts
  <2>2. PICK x \in used : \A y \in used : y <= x
    <3> HIDE DEF used
    <3> QED
      BY <2>1, HasMaximum, 100 \in Int
  <2>3. PICK h \in same : d[h].usedPercent = x
    OBVIOUS
  <2>4. h \in highest
    BY <2>2, <2>3
  <2> QED
    BY <2>3, <2>4
<1>6. SawEverything("disk", f) <=> ~f.err /\ f.errors = 0
  BY DEF SawEverything
<1> HIDE DEF b, full
<1>7. Keys(b) = {<<"disk", o>> : o \in UnhealthyObjects("disk", f)}
  BY <1>3, <1>4, <1>5
<1>8. IsRight("disk", f, b)
  <2>1. errors \in Nat /\ (~f.err /\ errors = 0 => f.errors = 0)
    BY <1>1
  <2> HIDE DEF errors
  <2>2. b.errors \in Nat /\ (b.complete => SawEverything("disk", f) /\ b.errors = 0)
    BY <1>2, <1>6, <2>1
  <2> QED
    BY <1>7, <2>2, ExactIsRight DEF ServerScopes
<1> QED
  BY <1>8 DEF b

\* What an accounts check returns has its type.
LEMMA AuthFactsType ==
    ASSUME NEW f \in Facts("auth")
    PROVE  f \in [readable : BOOLEAN, files : Seq(Entries)]
<1>1. f \in AuthResponses
  BY DEF Facts
<1> QED
  BY <1>1, CycleAssumption

\* The rules find a reason to alert exactly for the accounts that are unhealthy.
LEMMA ReasonsAreRight ==
    ASSUME NEW e \in Entries, NEW i
    PROVE  authReasons([e EXCEPT !.auth_index = i]) # {} <=> Unhealthy(e)
<1> DEFINE file == [e EXCEPT !.auth_index = i]
<1>1. /\ file.unavailable = e.unavailable /\ file.disabled = e.disabled
      /\ file.status_message = e.status_message /\ file.status = e.status
  BY DEF Entries
<1>2. e.status \in {"", " ", "active", "error"}
  BY DEF Entries
<1>3. TrimSpace(e.status) \notin {"", "active"} <=> e.status = "error"
  BY <1>2 DEF TrimSpace
<1> HIDE DEF file
<1>4. authReasons(file) # {} <=> Unhealthy(e)
  BY <1>1, <1>3 DEF authReasons, Unhealthy
<1> QED
  BY <1>4 DEF file

\* The batch of an accounts check is right: what is left of the unhealthy
\* accounts are those with an index no other account has.
LEMMA AuthIsRight ==
    ASSUME NEW f \in Facts("auth")
    PROVE  IsRight("auth", f, BatchOf("auth", f))
<1>1. CASE ~(f.readable /\ Decodable(f.files))
  <2>1. AuthFiles(f).err = TRUE
    BY <1>1 DEF AuthFiles
  <2>2. BatchOf("auth", f) = IncompleteBatch(1)
    BY <2>1 DEF BatchOf
  <2> QED
    BY <2>2, IncompleteIsRight
<1>2. CASE f.readable /\ Decodable(f.files)
  <2> DEFINE files == [i \in DOMAIN f.files |->
                          [f.files[i] EXCEPT !.auth_index = AuthIndex(@)]]
             index(i) == TrimSpace(AuthIndex(f.files[i].auth_index))
             unhealthy == {i \in DOMAIN files : authReasons(files[i]) # {}}
             invalid == Duplicates(files) \cup Nameless(files)
             c(i) == Condition("auth", index(i), authReasons(files[i]))
             b == Auth(files)
  <2>1. BatchOf("auth", f) = b
    <3>1. AuthFiles(f) = [err |-> FALSE, files |-> files]
      BY <1>2 DEF AuthFiles
    <3>2. AuthFiles(f).err = FALSE /\ AuthFiles(f).files = files
      BY <3>1
    <3> HIDE DEF files
    <3> QED
      BY <3>2 DEF BatchOf
  <2>2. f.files \in Seq(Entries) /\ DOMAIN files = DOMAIN f.files
    BY AuthFactsType
  <2>3. \A i \in DOMAIN files :
           /\ f.files[i] \in Entries
           /\ TrimSpace(files[i].auth_index) = index(i)
           /\ authReasons(files[i]) # {} <=> Unhealthy(f.files[i])
    <3> SUFFICES ASSUME NEW i \in DOMAIN files
                 PROVE  /\ f.files[i] \in Entries
                        /\ TrimSpace(files[i].auth_index) = index(i)
                        /\ authReasons(files[i]) # {} <=> Unhealthy(f.files[i])
      OBVIOUS
    <3>1. f.files[i] \in Entries
      BY <2>2
    <3>2. files[i] = [f.files[i] EXCEPT !.auth_index = AuthIndex(f.files[i].auth_index)]
      OBVIOUS
    <3>3. files[i].auth_index = AuthIndex(f.files[i].auth_index)
      BY <3>1, <3>2 DEF Entries
    <3> QED
      BY <3>1, <3>2, <3>3, ReasonsAreRight
  <2>4. UnhealthyObjects("auth", f) = {index(i) : i \in unhealthy}
    BY <2>2, <2>3 DEF UnhealthyObjects
  <2>5. \A o : Named(f, o) = {i \in DOMAIN files : index(i) = o}
    BY <2>2 DEF Named
  <2>6. /\ b.complete = (invalid = {}) /\ b.errors = Cardinality(invalid)
        /\ b.conditions = {c(i) : i \in unhealthy \ invalid}
    BY <2>3 DEF Auth
  <2>7. \A i \in DOMAIN files :
           /\ i \in Nameless(files) <=> index(i) = "" /\ i \in unhealthy
           /\ i \in Duplicates(files) <=>
                 index(i) # "" /\ \E j \in DOMAIN files \ {i} : index(j) = index(i)
    BY <2>3, ZenonT(30) DEF Nameless, Duplicates
  <2>8. IsFiniteSet(DOMAIN files) /\ invalid \subseteq DOMAIN files
    <3>1. invalid \subseteq DOMAIN files
      BY DEF Nameless, Duplicates
    <3>2. PICK n \in Nat : DOMAIN files = 1..n
      BY <2>2
    <3> QED
      BY <3>1, <3>2, FS_Interval
  <2>9. IsFiniteSet(invalid) /\ b.errors \in Nat /\ (b.errors = 0 => invalid = {})
    <3> HIDE DEF invalid, b, files
    <3>1. IsFiniteSet(invalid)
      BY <2>8, FS_Subset
    <3>2. Cardinality(invalid) \in Nat /\ (Cardinality(invalid) = 0 => invalid = {})
      BY <3>1, FS_CardinalityType, FS_EmptySet
    <3> QED
      BY <2>6, <3>1, <3>2
  <2>10. Keys(b) = {<<"auth", index(i)>> : i \in unhealthy \ invalid}
    <3>1. \A i : c(i).key = <<"auth", index(i)>>
      BY KeyOfCondition
    <3> HIDE DEF c, b, unhealthy, invalid, index
    <3> QED
      BY <2>6, <3>1 DEF Keys
  <2> HIDE DEF files, index, c, b
  <2>11. ASSUME NEW i \in DOMAIN files, index(i) # "", i \notin Duplicates(files)
         PROVE  Named(f, index(i)) = {i}
    <3>1. Named(f, index(i)) = {j \in DOMAIN files : index(j) = index(i)}
      BY <2>5
    <3>2. \A j \in DOMAIN files : index(j) = index(i) => j = i
      BY <2>7, <2>11
    <3> QED
      BY <3>1, <3>2
  <2>12. \A k \in Keys(b) : \E o \in UnhealthyObjects("auth", f) :
            k = <<"auth", o>> /\ o # "" /\ Cardinality(Named(f, o)) = 1
    <3> SUFFICES ASSUME NEW i \in unhealthy \ invalid
                 PROVE  /\ index(i) \in UnhealthyObjects("auth", f)
                        /\ index(i) # "" /\ Cardinality(Named(f, index(i))) = 1
      BY <2>10
    <3>1. index(i) # ""
      BY <2>7
    <3> QED
      BY <2>4, <2>11, <3>1, FS_Singleton
  <2>13. ASSUME b.complete
         PROVE  /\ SawEverything("auth", f)
                /\ b.errors = 0
                /\ "" \notin UnhealthyObjects("auth", f)
                /\ \A o : o # "" => Cardinality(Named(f, o)) <= 1
    <3>1. invalid = {} /\ b.errors = 0
      BY <2>6, <2>13, FS_EmptySet
    <3>2. SawEverything("auth", f)
      BY <1>2 DEF SawEverything
    <3>3. "" \notin UnhealthyObjects("auth", f)
      BY <2>4, <2>7, <3>1
    <3>4. ASSUME NEW o, o # ""
          PROVE  Cardinality(Named(f, o)) <= 1
      <4>1. CASE Named(f, o) = {}
        BY <4>1, FS_EmptySet
      <4>2. CASE \E i \in Named(f, o) : TRUE
        <5>1. PICK i \in DOMAIN files : index(i) = o
          BY <2>5, <4>2
        <5>2. Named(f, o) = {i}
          BY <2>11, <3>1, <3>4, <5>1
        <5>3. Cardinality({i}) = 1
          BY FS_Singleton
        <5> QED
          BY <5>2, <5>3
      <4> QED
        BY <4>1, <4>2
    <3> QED
      BY <3>1, <3>2, <3>3, <3>4
  <2>14. b.errors = 0 =>
            \A o \in UnhealthyObjects("auth", f) : <<"auth", o>> \in Keys(b) /\ o # ""
    BY <2>4, <2>7, <2>9, <2>10
  <2>15. IsRight("auth", f, b)
    BY <2>9, <2>12, <2>13, <2>14 DEF IsRight
  <2> QED
    BY <2>1, <2>15
<1> QED
  BY <1>1, <1>2

\* The batches of all scopes are right.
LEMMA RulesAreRight ==
    ASSUME NEW i \in 1..5, NEW f \in Facts(Order[i])
    PROVE  IsRight(Order[i], f, BatchOf(Order[i], f))
<1>1. \/ i = 1 /\ Order[i] = "health"
      \/ i = 2 /\ Order[i] = "memory"
      \/ i = 3 /\ Order[i] = "disk"
      \/ i = 4 /\ Order[i] = "network"
      \/ i = 5 /\ Order[i] = "auth"
  BY DEF Order
<1> QED
  BY <1>1, HealthIsRight, MemoryIsRight, DisksIsRight, TCPIsRight, AuthIsRight

-----------------------------------------------------------------------------
(* The host's numbers *)

\* The thresholds are positive numbers.
LEMMA Thresholds ==
    /\ MemoryPercent \in Nat /\ MemoryPercent > 0
    /\ DiskPercent \in Nat /\ DiskPercent > 0
    /\ TotalTCP \in Nat /\ TotalTCP > 0
    /\ ServiceTCP \in Nat /\ ServiceTCP > 0
BY CycleAssumption

Percentages == {p \in Nat : p <= 100}

\* Hosts whose numbers are all below their thresholds.
HealthyHosts ==
    {h \in [memory : Percentages, highestDisk : Percentages, diskMountCount : Nat,
            totalTCP : Nat, serviceTCP : Nat] :
        /\ h.memory < MemoryPercent /\ h.highestDisk < DiskPercent
        /\ h.totalTCP < TotalTCP /\ h.serviceTCP < ServiceTCP}

\* No number is as high as its threshold while nothing is known.
LEMMA NoHostIsHealthy == NoHost \in HealthyHosts
BY Thresholds DEF NoHost, HealthyHosts, Percentages

\* What a memory or network check returns are numbers.
LEMMA NumbersType ==
    /\ \A f \in Facts("memory") : ~f.err => f.used \in Percentages
    /\ \A f \in Facts("network") : ~f.err => f.total \in Nat /\ f.service \in Nat
<1>1. ASSUME NEW f \in Facts("memory"), ~f.err
      PROVE  f.used \in Percentages
  <2>1. f \in {[err |-> FALSE, used |-> p] : p \in MemoryFacts} \cup {[err |-> TRUE]}
    BY <1>1 DEF Facts
  <2>2. PICK p \in MemoryFacts : f = [err |-> FALSE, used |-> p]
    BY <1>1, <2>1
  <2> QED
    BY <2>2, CycleAssumption DEF Percentages
<1>2. ASSUME NEW f \in Facts("network"), ~f.err
      PROVE  f.total \in Nat /\ f.service \in Nat
  <2>1. f \in {[err |-> FALSE, total |-> u.total, service |-> u.service] : u \in TCPFacts}
              \cup {[err |-> TRUE]}
    BY <1>2 DEF Facts
  <2>2. PICK u \in TCPFacts : f = [err |-> FALSE, total |-> u.total, service |-> u.service]
    BY <1>2, <2>1
  <2>3. u \in [total : Nat, service : Nat]
    BY CycleAssumption
  <2> QED
    BY <2>2, <2>3
<1> QED
  BY <1>1, <1>2

\* The usage of a mount is a percentage.
LEMMA MountUsage ==
    ASSUME NEW m \in Mounts
    PROVE  m.usedPercent \in Percentages
BY DEF Mounts, Percentages

\* The highest usage of mounts that are all below the threshold is below it.
LEMMA HighestIsBelow ==
    ASSUME NEW disks \in Seq(Mounts),
           \A i \in DOMAIN disks : disks[i].usedPercent < DiskPercent
    PROVE  Highest(disks) \in Percentages /\ Highest(disks) < DiskPercent
<1>1. CASE disks = <<>>
  BY <1>1, Thresholds DEF Highest, Percentages
<1>2. CASE disks # <<>>
  <2> DEFINE used == {disks[i].usedPercent : i \in DOMAIN disks} \cup {0}
  <2>1. used \subseteq Percentages /\ used # {} /\ \A x \in used : x < DiskPercent
    <3>1. \A i \in DOMAIN disks : disks[i] \in Mounts
      OBVIOUS
    <3>2. \A i \in DOMAIN disks :
             disks[i].usedPercent \in Percentages /\ disks[i].usedPercent < DiskPercent
      BY <3>1, MountUsage
    <3>3. ASSUME NEW x \in used
          PROVE  x \in Percentages /\ x < DiskPercent
      <4>1. CASE x = 0
        BY <4>1, Thresholds DEF Percentages
      <4>2. CASE x # 0
        <5>1. PICK i \in DOMAIN disks : x = disks[i].usedPercent
          BY <4>2
        <5> QED
          BY <3>2, <5>1
      <4> QED
        BY <4>1, <4>2
    <3>4. 0 \in used
      OBVIOUS
    <3> HIDE DEF used
    <3> QED
      BY <3>3, <3>4
  <2>2. Highest(disks) = Max(used)
    BY <1>2 DEF Highest
  <2> HIDE DEF used
  <2>3. \E x \in used : \A y \in used : y <= x
    <3>1. used \subseteq Int /\ \A x \in used : x <= 100
      BY <2>1 DEF Percentages
    <3> QED
      BY <2>1, <3>1, HasMaximum, 100 \in Int
  <2>4. Max(used) \in used
    BY <2>3 DEF Max
  <2> QED
    BY <2>1, <2>2, <2>4
<1> QED
  BY <1>1, <1>2

\* A check with a healthy batch leaves the host healthy.
LEMMA HostStaysHealthy ==
    ASSUME host \in HealthyHosts, NEW i \in 1..5, NEW f \in Facts(Order[i]),
           Order[i] # "auth" => batchesHealthy({BatchOf(Order[i], f)})
    PROVE  HostWith(Order[i], f) \in HealthyHosts
<1> DEFINE b == BatchOf(Order[i], f)
<1>1. \/ i = 1 /\ Order[i] = "health"
      \/ i = 2 /\ Order[i] = "memory"
      \/ i = 3 /\ Order[i] = "disk"
      \/ i = 4 /\ Order[i] = "network"
      \/ i = 5 /\ Order[i] = "auth"
  BY DEF Order
<1>2. IsRight(Order[i], f, b)
  BY RulesAreRight
<1>3. Order[i] # "auth" => UnhealthyObjects(Order[i], f) = {}
  <2>1. Order[i] # "auth" => b.conditions = {} /\ b.errors = 0
    BY DEF batchesHealthy
  <2>2. b.conditions = {} => Keys(b) = {}
    BY DEF Keys
  <2> HIDE DEF b
  <2> QED
    BY <1>2, <2>1, <2>2 DEF IsRight
<1> HIDE DEF b
<1>4. CASE Order[i] \in {"health", "auth"}
  <2>1. HostWith(Order[i], f) = host
    BY <1>4 DEF HostWith
  <2> QED
    BY <2>1
<1>5. CASE Order[i] = "memory"
  <2>1. CASE f.err
    <3>1. HostWith(Order[i], f) = host
      BY <1>5, <2>1 DEF HostWith
    <3> QED
      BY <3>1
  <2>2. CASE ~f.err
    <3>1. f.used \in Percentages
      BY <1>5, <2>2, NumbersType
    <3>2. ~(f.used >= MemoryPercent)
      BY <1>3, <1>5, <2>2 DEF UnhealthyObjects
    <3>3. HostWith(Order[i], f) = [host EXCEPT !.memory = f.used]
      BY <1>5, <2>2 DEF HostWith
    <3> QED
      BY <3>1, <3>2, <3>3, Thresholds DEF HealthyHosts, Percentages
  <2> QED
    BY <2>1, <2>2
<1>6. CASE Order[i] = "disk"
  <2>1. f.disks \in Seq(Mounts)
    BY <1>6, DiskFactsType
  <2>2. \A j \in DOMAIN f.disks : ~(f.disks[j].usedPercent >= DiskPercent)
    BY <1>3, <1>6 DEF UnhealthyObjects
  <2>3. \A j \in DOMAIN f.disks : f.disks[j].usedPercent < DiskPercent
    <3>1. \A j \in DOMAIN f.disks : f.disks[j] \in Mounts
      BY <2>1
    <3>2. \A j \in DOMAIN f.disks : f.disks[j].usedPercent \in Int
      BY <3>1 DEF Mounts
    <3> QED
      BY <2>2, <3>2, Thresholds
  <2>4. Highest(f.disks) \in Percentages /\ Highest(f.disks) < DiskPercent /\ Len(f.disks) \in Nat
    BY <2>1, <2>3, HighestIsBelow
  <2>5. HostWith(Order[i], f) = [host EXCEPT !.highestDisk = Highest(f.disks),
                                             !.diskMountCount = Len(f.disks)]
    BY <1>6 DEF HostWith
  <2> QED
    BY <2>4, <2>5 DEF HealthyHosts
<1>7. CASE Order[i] = "network"
  <2>1. CASE f.err
    <3>1. HostWith(Order[i], f) = host
      BY <1>7, <2>1 DEF HostWith
    <3> QED
      BY <3>1
  <2>2. CASE ~f.err
    <3>1. f.total \in Nat /\ f.service \in Nat
      BY <1>7, <2>2, NumbersType
    <3>2. ~(f.total >= TotalTCP) /\ ~(f.service >= ServiceTCP)
      <4>1. {o \in {"total_tcp", "service_port"} :
                IF o = "total_tcp" THEN f.total >= TotalTCP ELSE f.service >= ServiceTCP} = {}
        BY <1>3, <1>7, <2>2 DEF UnhealthyObjects
      <4> QED
        BY <4>1
    <3>3. HostWith(Order[i], f) = [host EXCEPT !.totalTCP = f.total, !.serviceTCP = f.service]
      BY <1>7, <2>2 DEF HostWith
    <3>4. f.total < TotalTCP /\ f.service < ServiceTCP
      BY <3>1, <3>2, Thresholds
    <3> QED
      BY <3>1, <3>3, <3>4 DEF HealthyHosts
  <2> QED
    BY <2>1, <2>2
<1> QED
  BY <1>1, <1>4, <1>5, <1>6, <1>7

-----------------------------------------------------------------------------
(* Reconcile *)

\* The groups of messages carry exactly the keys they were made of.
LEMMA GroupsCover ==
    ASSUME NEW scope, NEW keys
    PROVE  UNION DeliveryGroups(scope, keys) = keys
<1>1. UNION {{k} : k \in keys} = keys
  BY Zenon
<1>2. UNION {keys} = keys
  OBVIOUS
<1> QED
  BY <1>1, <1>2 DEF DeliveryGroups

\* What one Reconcile does: only keys of a complete scope that the batch does not
\* have are recovered, only keys of the batch are raised, one that is not raised
\* is an error, and a server scope that stays eligible with nothing in its batch
\* has nothing left that is active.
LEMMA ReconcileStep ==
    ASSUME Reconcile
    PROVE  /\ \A k \in active \ active' : batch.complete /\ k[1] = Scope /\ k \notin Keys(batch)
           /\ \A k \in active' \ active : k \in Keys(batch)
           /\ \A k \in Keys(batch) : k \in active' \/ runErrors'
           /\ runErrors => runErrors'
           /\ eligible' => eligible
           /\ eligible' /\ Scope # "auth" /\ Keys(batch) = {} /\ batch.complete =>
                  \A k \in active' : k[1] # Scope
<1> DEFINE alerts == DeliveryGroups(Scope, New(batch))
           recoveries == DeliveryGroups(Scope, Gone(Scope, batch))
           rendered == {g \in alerts \cup recoveries : Renders(Scope, g)}
<1>1. PICK sent \in SUBSET rendered :
          LET failed == (alerts \cup recoveries) \ sent
          IN  /\ active' = (active \cup UNION (sent \cap alerts)) \ UNION (sent \cap recoveries)
              /\ refused' = (alerts \cup recoveries) \ rendered
              /\ runErrors' = (runErrors \/ failed # {})
              /\ eligible' = StaysEligible(failed)
  BY DEF Reconcile
<1> DEFINE failed == (alerts \cup recoveries) \ sent
           raised == UNION (sent \cap alerts)
           recovered == UNION (sent \cap recoveries)
<1>2. active' = (active \cup raised) \ recovered
  BY <1>1
<1>3. (runErrors' <=> runErrors \/ failed # {})
      /\ (eligible' <=> eligible /\ (Scope = "auth" \/ failed = {}))
  BY <1>1 DEF StaysEligible
<1>4. UNION alerts = New(batch) /\ UNION recoveries = Gone(Scope, batch)
  BY GroupsCover
<1> HIDE DEF alerts, recoveries, failed, rendered
<1>5. raised \subseteq New(batch) /\ recovered \subseteq Gone(Scope, batch)
  BY <1>4
<1>6. failed = {} => raised = New(batch) /\ recovered = Gone(Scope, batch)
  <2>1. ASSUME failed = {}
        PROVE  sent \cap alerts = alerts /\ sent \cap recoveries = recoveries
    BY <2>1 DEF failed
  <2> QED
    BY <2>1, <1>4
<1> HIDE DEF raised, recovered
<1>7. \A k \in Gone(Scope, batch) : batch.complete /\ k \in active /\ k[1] = Scope /\ k \notin Keys(batch)
  BY DEF Gone, InScope
<1>8. \A k : k \in New(batch) <=> k \in Keys(batch) /\ k \notin active
  BY DEF New
<1>9. \A k \in active \ active' : batch.complete /\ k[1] = Scope /\ k \notin Keys(batch)
  BY <1>2, <1>5, <1>7
<1>10. \A k \in active' \ active : k \in Keys(batch)
  BY <1>2, <1>5, <1>8
<1>11. \A k \in Keys(batch) : k \in active' \/ runErrors'
  BY <1>2, <1>3, <1>5, <1>6, <1>7, <1>8
<1>12. ASSUME eligible', Scope # "auth", Keys(batch) = {}, batch.complete, NEW k \in active'
       PROVE  k[1] # Scope
  <2>1. failed = {} /\ raised = {} /\ recovered = Gone(Scope, batch)
    BY <1>3, <1>6, <1>8, <1>12
  <2>2. k \in active /\ k \notin Gone(Scope, batch)
    BY <1>2, <1>12, <2>1
  <2> QED
    BY <1>12, <2>2 DEF Gone, InScope
<1> QED
  BY <1>3, <1>9, <1>10, <1>11, <1>12

-----------------------------------------------------------------------------
(* Numbers in versions *)

\* The value of a decimal number, digit by digit.
LEMMA ValuesOfDigits ==
    ASSUME NEW id \in Seq(Nat)
    PROVE  /\ Values(id) \in [0..Len(id) -> Int] /\ Values(id)[0] = 0
           /\ \A n \in 1..Len(id) : Values(id)[n] = 10 * Values(id)[n - 1] + id[n] - 48
<1> DEFINE N == Len(id)
           Next1(p) == 10 * p[2] + (IF p[1] \in 1..N THEN id[p[1]] ELSE 0) - 48
           step == [p \in Nat \X Int |-> Next1(p)]
           Eq(f) == f = [n \in 0..N |-> IF n = 0 THEN 0 ELSE 10 * f[n - 1] + id[n] - 48]
<1>1. step \in [Nat \X Int -> Int]
  <2>1. ASSUME NEW p \in Nat \X Int PROVE Next1(p) \in Int
    <3>1. p[1] \in 1..N => id[p[1]] \in Int
      OBVIOUS
    <3> QED
      BY <3>1
  <2> QED
    BY <2>1
<1>2. N \in Nat /\ 0 \in Int
  OBVIOUS
<1>3. PICK g \in [0..N -> Int] : g[0] = 0 /\ \A n \in 1..N : g[n] = step[<<n, g[n - 1]>>]
  <2> HIDE DEF step, N
  <2>1. PICK g \in [0..N -> Int] : Follows(g, 0, step, N)
    BY <1>1, <1>2, RecursionExists
  <2> QED
    BY <2>1 DEF Follows
<1>4. \A n \in 1..N : g[n] = 10 * g[n - 1] + id[n] - 48
  <2> SUFFICES ASSUME NEW n \in 1..N PROVE g[n] = 10 * g[n - 1] + id[n] - 48
    OBVIOUS
  <2>1. n - 1 \in 0..N /\ n \in Nat /\ g[n - 1] \in Int
    OBVIOUS
  <2>2. <<n, g[n - 1]>> \in Nat \X Int
    BY <2>1
  <2>3. step[<<n, g[n - 1]>>] = Next1(<<n, g[n - 1]>>)
    BY <2>2
  <2> QED
    BY <1>3, <2>3
<1>5. Eq(g)
  <2> DEFINE h == [n \in 0..N |-> IF n = 0 THEN 0 ELSE 10 * g[n - 1] + id[n] - 48]
  <2>1. \A n \in 0..N : g[n] = h[n]
    <3> SUFFICES ASSUME NEW n \in 0..N PROVE g[n] = h[n]
      OBVIOUS
    <3>1. n = 0 \/ n \in 1..N
      OBVIOUS
    <3> QED
      BY <1>3, <1>4, <3>1
  <2>2. g = [n \in 0..N |-> g[n]] /\ h = [n \in 0..N |-> h[n]]
    BY <1>3
  <2> QED
    BY <2>1, <2>2
<1>6. Values(id) = CHOOSE f : Eq(f)
  BY DEF Values
<1>7. Eq(Values(id))
  <2> HIDE DEF Eq
  <2> QED
    BY <1>5, <1>6
<1>8. Values(id) = g
  <2>1. \A n \in 0..N : Values(id)[n] = g[n]
    <3> DEFINE T == {n \in 0..N : Values(id)[n] # g[n]}
    <3> SUFFICES ASSUME T # {} PROVE FALSE
      OBVIOUS
    <3>7. T \subseteq Nat
      OBVIOUS
    <3>1. PICK n \in T : \A m \in T : n <= m
      <4> HIDE DEF T
      <4> QED
        BY <3>7, HasMinimum
    <3>2. n # 0
      BY <1>3, <1>7, <3>1
    <3>3. n - 1 \in 0..N /\ n \in 1..N /\ n - 1 \notin T
      BY <3>1, <3>2
    <3>4. Values(id)[n - 1] = g[n - 1]
      BY <3>3
    <3>5. Values(id)[n] = 10 * Values(id)[n - 1] + id[n] - 48
      BY <1>7, <3>2, <3>3
    <3> QED
      BY <1>4, <3>1, <3>3, <3>4, <3>5
  <2>2. Values(id) = [n \in 0..N |-> Values(id)[n]]
    BY <1>7
  <2>3. g = [n \in 0..N |-> g[n]]
    BY <1>3
  <2> QED
    BY <2>1, <2>2, <2>3
<1> QED
  BY <1>3, <1>4, <1>8

\* The characters of a number are digits.
LEMMA CharactersOfNumber ==
    ASSUME NEW id \in Seq(Nat), IsNumber(id)
    PROVE  \A i \in 1..Len(id) : id[i] \in 48..57
<1>1. \A i \in 1..Len(id) : id[i] \in Digits
  BY DEF IsNumber
<1> QED
  BY <1>1 DEF Digits

\* A number that is positive stays so with one more digit.
LEMMA NextDigit ==
    \A p \in Int : \A d \in 48..57 : p >= 1 => 10 * p + d - 48 >= 1
OBVIOUS

\* Digits are determined by the value: 10 * p + c with a digit c.
LEMMA LastDigit ==
    ASSUME NEW p \in Int, NEW q \in Int, NEW c \in 48..57, NEW d \in 48..57,
           10 * p + c - 48 = 10 * q + d - 48
    PROVE  p = q /\ c = d
OBVIOUS

\* A number without a leading zero is at least 1 after each of its digits.
LEMMA NumberIsPositive ==
    ASSUME NEW id \in Seq(Nat), IsNumber(id), id[1] # 48
    PROVE  \A n \in 1..Len(id) : Values(id)[n] >= 1
<1> DEFINE v == Values(id)
           T == {n \in 1..Len(id) : ~(v[n] >= 1)}
<1>1. /\ v \in [0..Len(id) -> Int] /\ v[0] = 0
      /\ \A n \in 1..Len(id) : v[n] = 10 * v[n - 1] + id[n] - 48
  BY ValuesOfDigits
<1>2. \A n \in 1..Len(id) : id[n] \in 48..57
  BY CharactersOfNumber
<1> SUFFICES ASSUME T # {} PROVE FALSE
  OBVIOUS
<1> HIDE DEF v
<1>3. PICK n \in T : \A m \in T : n <= m
  <2>1. T \subseteq Nat
    OBVIOUS
  <2> HIDE DEF T
  <2> QED
    BY <2>1, HasMinimum
<1>4. n \in 1..Len(id) /\ v[n] = 10 * v[n - 1] + id[n] - 48 /\ id[n] \in 48..57 /\ ~(v[n] >= 1)
  BY <1>1, <1>2, <1>3
<1>5. CASE n = 1
  <2>1. v[1] = id[1] - 48 /\ id[1] \in 48..57 /\ ~(v[1] >= 1)
    BY <1>1, <1>4, <1>5
  <2> QED
    BY SMTT(30), <2>1
<1>6. CASE n # 1
  <2>1. n - 1 \in 1..Len(id) /\ n - 1 \notin T
    BY <1>3, <1>4, <1>6
  <2>2. v[n - 1] >= 1
    BY <2>1
  <2>3. n - 1 \in 0..Len(id)
    BY <2>1
  <2>4. v[n - 1] \in Int
    BY <1>1, <2>3
  <2> HIDE DEF T
  <2> QED
    BY <1>4, <2>2, <2>4, NextDigit
<1> QED
  BY <1>5, <1>6

\* Two numbers with the same value have the same digits, read from the end.
LEMMA DigitsFromTheEnd ==
    ASSUME NEW a \in Seq(Nat), NEW b \in Seq(Nat), IsNumber(a), IsNumber(b),
           Len(a) <= Len(b), Value(a) = Value(b)
    PROVE  /\ \A k \in 0..Len(a) : Values(a)[Len(a) - k] = Values(b)[Len(b) - k]
           /\ \A k \in 0..(Len(a) - 1) : a[Len(a) - k] = b[Len(b) - k]
<1> DEFINE v == Values(a)
           w == Values(b)
           m == Len(a)
           n == Len(b)
           T == {k \in 0..m : v[m - k] # w[n - k]}
<1>1. /\ v \in [0..m -> Int] /\ \A i \in 1..m : v[i] = 10 * v[i - 1] + a[i] - 48
      /\ w \in [0..n -> Int] /\ \A i \in 1..n : w[i] = 10 * w[i - 1] + b[i] - 48
  BY ValuesOfDigits
<1>2. (\A i \in 1..m : a[i] \in 48..57) /\ (\A i \in 1..n : b[i] \in 48..57)
  BY CharactersOfNumber
<1>3. v[m] = w[n]
  BY DEF Value
<1>4. m \in Nat /\ n \in Nat /\ m <= n
  OBVIOUS
<1> HIDE DEF v, w, m, n
<1>5. ASSUME NEW k \in 0..(m - 1), v[m - k] = w[n - k]
      PROVE  v[m - (k + 1)] = w[n - (k + 1)] /\ a[m - k] = b[n - k]
  <2>1. m - k \in 1..m /\ n - k \in 1..n /\ m - k - 1 \in 0..m /\ n - k - 1 \in 0..n
    BY <1>4
  <2>2. /\ v[m - k] = 10 * v[m - k - 1] + a[m - k] - 48
        /\ w[n - k] = 10 * w[n - k - 1] + b[n - k] - 48
    <3> DEFINE i == m - k
               j == n - k
    <3>1. i \in 1..m /\ j \in 1..n
      BY <2>1
    <3> HIDE DEF i, j
    <3>2. v[i] = 10 * v[i - 1] + a[i] - 48 /\ w[j] = 10 * w[j - 1] + b[j] - 48
      BY <1>1, <3>1
    <3> QED
      BY <3>2 DEF i, j
  <2>3. /\ v[m - k - 1] \in Int /\ w[n - k - 1] \in Int
        /\ a[m - k] \in 48..57 /\ b[n - k] \in 48..57
    BY <1>1, <1>2, <2>1
  <2>4. v[m - k - 1] = w[n - k - 1] /\ a[m - k] = b[n - k]
    <3> DEFINE p == v[m - k - 1]
               q == w[n - k - 1]
               c == a[m - k]
               d == b[n - k]
    <3>1. p \in Int /\ q \in Int /\ c \in 48..57 /\ d \in 48..57 /\ 10 * p + c - 48 = 10 * q + d - 48
      BY <1>5, <2>2, <2>3
    <3> HIDE DEF p, q, c, d
    <3>2. p = q /\ c = d
      BY <3>1, LastDigit
    <3> QED
      BY <3>2 DEF p, q, c, d
  <2>5. m - (k + 1) = m - k - 1 /\ n - (k + 1) = n - k - 1
    BY <1>4
  <2> QED
    BY <2>4, <2>5
<1>6. T = {}
  <2> SUFFICES ASSUME T # {} PROVE FALSE
    OBVIOUS
  <2>1. PICK k \in T : \A j \in T : k <= j
    <3>1. T \subseteq Nat
      BY <1>4
    <3> HIDE DEF T
    <3> QED
      BY <3>1, HasMinimum
  <2>2. k # 0
    <3>1. k = 0 => m - k = m /\ n - k = n
      BY <1>4
    <3> QED
      BY <1>3, <2>1, <3>1
  <2>3. k - 1 \in 0..(m - 1) /\ k - 1 \notin T /\ k - 1 + 1 = k
    <3>1. k \in 0..m
      OBVIOUS
    <3>2. k - 1 \in 0..(m - 1) /\ k - 1 + 1 = k /\ ~(k <= k - 1)
      BY <1>4, <2>2, <3>1
    <3> HIDE DEF T
    <3> QED
      BY <2>1, <3>2
  <2>4. v[m - (k - 1)] = w[n - (k - 1)]
    <3> DEFINE j == k - 1
    <3>1. j \in 0..m /\ j \notin T
      BY <1>4, <2>3
    <3> HIDE DEF j
    <3>2. v[m - j] = w[n - j]
      BY <3>1
    <3> QED
      BY <3>2 DEF j
  <2>5. v[m - (k - 1 + 1)] = w[n - (k - 1 + 1)]
    BY <1>5, <2>3, <2>4
  <2> QED
    BY <2>1, <2>3, <2>5
<1>7. \A k \in 0..(m - 1) : a[m - k] = b[n - k]
  <2> SUFFICES ASSUME NEW k \in 0..(m - 1) PROVE a[m - k] = b[n - k]
    OBVIOUS
  <2>1. v[m - k] = w[n - k]
    <3>1. k \in 0..m
      BY <1>4
    <3> QED
      BY <1>6, <3>1
  <2> QED
    BY <1>5, <2>1
<1> QED
  BY <1>6, <1>7 DEF v, w, m, n

\* A shorter number has not the value of a longer one, and the same value has the
\* same text.
LEMMA ValueIsUnique ==
    ASSUME NEW a \in Seq(Nat), NEW b \in Seq(Nat), ValidNumber(a), ValidNumber(b),
           Value(a) = Value(b)
    PROVE  a = b
<1>1. ASSUME NEW c \in Seq(Nat), NEW d \in Seq(Nat), ValidNumber(c), ValidNumber(d),
             Value(c) = Value(d), Len(c) <= Len(d)
      PROVE  c = d
  <2>1. IsNumber(c) /\ IsNumber(d) /\ Len(c) >= 1 /\ (Len(d) > 1 => d[1] # 48)
    BY <1>1 DEF ValidNumber
  <2>2. /\ \A k \in 0..Len(c) : Values(c)[Len(c) - k] = Values(d)[Len(d) - k]
        /\ \A k \in 0..(Len(c) - 1) : c[Len(c) - k] = d[Len(d) - k]
    BY <1>1, <2>1, DigitsFromTheEnd
  <2>3. Len(c) = Len(d)
    <3> SUFFICES ASSUME Len(c) < Len(d) PROVE FALSE
      BY <1>1
    <3>1. Values(c)[0] = 0
      BY ValuesOfDigits
    <3>2. Len(c) \in 0..Len(c) /\ Len(c) - Len(c) = 0
      OBVIOUS
    <3>3. Values(d)[Len(d) - Len(c)] = 0
      BY <2>2, <3>1, <3>2
    <3>4. Len(d) - Len(c) \in 1..Len(d) /\ d[1] # 48
      BY <2>1
    <3>5. Values(d)[Len(d) - Len(c)] >= 1
      BY <2>1, <3>4, NumberIsPositive
    <3> QED
      BY <3>3, <3>5
  <2>4. \A i \in 1..Len(c) : c[i] = d[i]
    <3> SUFFICES ASSUME NEW i \in 1..Len(c) PROVE c[i] = d[i]
      OBVIOUS
    <3>1. Len(c) - i \in 0..(Len(c) - 1) /\ Len(c) - (Len(c) - i) = i /\ Len(d) - (Len(c) - i) = i
      BY <2>3
    <3> QED
      BY <2>2, <3>1
  <2>5. c = [i \in 1..Len(c) |-> c[i]] /\ d = [i \in 1..Len(d) |-> d[i]]
    OBVIOUS
  <2> QED
    BY <2>3, <2>4, <2>5
<1>2. Len(a) <= Len(b) \/ Len(b) <= Len(a)
  OBVIOUS
<1> QED
  BY <1>1, <1>2

-----------------------------------------------------------------------------
(* The order of identifiers and of their sequences *)

\* An identifier of a prerelease as the standard has it.
ValidIdentifier(id) ==
    id # <<>> /\ (IsNumber(id) => ValidNumber(id) /\ Value(id) <= MaxUint)

\* A value is an integer.
LEMMA ValueIsInt == ASSUME NEW id \in Seq(Nat) PROVE Value(id) \in Int
<1>1. Values(id) \in [0..Len(id) -> Int]
  BY ValuesOfDigits
<1>2. Len(id) \in 0..Len(id)
  OBVIOUS
<1> QED
  BY <1>1, <1>2 DEF Value

\* No text is less than itself.
LEMMA TextIsNotLess == ASSUME NEW a \in Seq(Nat) PROVE ~TextLess(a, a)
BY DEF TextLess

\* No identifier is less than itself.
LEMMA IdentifierIsNotLess == ASSUME NEW a \in Seq(Nat) PROVE ~IdentifierLess(a, a)
<1>1. ~(Value(a) < Value(a))
  BY ValueIsInt
<1> QED
  BY <1>1, TextIsNotLess DEF IdentifierLess

\* The standard's numbers are what the code takes for one.
LEMMA NumbersParse ==
    ASSUME NEW id, ValidIdentifier(id)
    PROVE  ParsesAsUint(id) <=> IsNumber(id)
BY DEF ValidIdentifier, ValidNumber, ParsesAsUint, IsNumber

\* comparePart orders two different identifiers as the standard does.
LEMMA PartsInOrder ==
    ASSUME NEW a \in Seq(Nat), NEW b \in Seq(Nat), ValidIdentifier(a), ValidIdentifier(b)
    PROVE  comparePart(a, b) < 0 <=> IdentifierLess(a, b)
<1>1. (ParsesAsUint(a) <=> IsNumber(a)) /\ (ParsesAsUint(b) <=> IsNumber(b))
  BY NumbersParse
<1>2. CASE IsNumber(a) /\ IsNumber(b)
  BY <1>1, <1>2 DEF comparePart, IdentifierLess
<1>3. CASE IsNumber(a) /\ ~IsNumber(b)
  BY <1>1, <1>3 DEF comparePart, IdentifierLess
<1>4. CASE ~IsNumber(a) /\ IsNumber(b)
  BY <1>1, <1>4 DEF comparePart, IdentifierLess
<1>5. CASE ~IsNumber(a) /\ ~IsNumber(b)
  BY <1>1, <1>5 DEF comparePart, IdentifierLess
<1> QED
  BY <1>2, <1>3, <1>4, <1>5

\* The first difference decides.
LEMMA FirstDifference ==
    ASSUME NEW a \in Seq(Seq(Nat)), NEW b \in Seq(Seq(Nat)),
           NEW i \in DOMAIN a \cap DOMAIN b, a[i] # b[i], \A j \in 1..(i - 1) : a[j] = b[j]
    PROVE  SequenceLess(a, b) <=> IdentifierLess(a[i], b[i])
<1>1. ASSUME NEW k \in DOMAIN a \cap DOMAIN b, IdentifierLess(a[k], b[k]),
             \A j \in 1..(k - 1) : a[j] = b[j]
      PROVE  k = i
  <2>1. CASE k < i
    <3>1. k \in 1..(i - 1) /\ b[k] \in Seq(Nat)
      BY <2>1
    <3>2. a[k] = b[k]
      BY <3>1
    <3> QED
      BY <1>1, <3>1, <3>2, IdentifierIsNotLess
  <2>2. CASE i < k
    <3>1. i \in 1..(k - 1)
      BY <2>2
    <3> QED
      BY <1>1, <3>1
  <2>3. k \in Nat /\ i \in Nat
    OBVIOUS
  <2> QED
    BY <2>1, <2>2, <2>3
<1>2. ~(Len(a) < Len(b) /\ a = SubSeq(b, 1, Len(a)))
  <2> SUFFICES ASSUME Len(a) < Len(b), a = SubSeq(b, 1, Len(a)) PROVE FALSE
    OBVIOUS
  <2>1. SubSeq(b, 1, Len(a))[i] = b[i]
    OBVIOUS
  <2> QED
    BY <2>1
<1> QED
  BY <1>1, <1>2 DEF SequenceLess

\* Without a difference the shorter sequence is less.
LEMMA NoDifference ==
    ASSUME NEW a \in Seq(Seq(Nat)), NEW b \in Seq(Seq(Nat)),
           \A i \in DOMAIN a \cap DOMAIN b : a[i] = b[i]
    PROVE  SequenceLess(a, b) <=> Len(a) < Len(b)
<1>1. ASSUME NEW i \in DOMAIN a \cap DOMAIN b PROVE ~IdentifierLess(a[i], b[i])
  <2>1. a[i] = b[i] /\ b[i] \in Seq(Nat)
    OBVIOUS
  <2> QED
    BY <2>1, IdentifierIsNotLess
<1>2. Len(a) < Len(b) => a = SubSeq(b, 1, Len(a))
  <2> SUFFICES ASSUME Len(a) < Len(b) PROVE a = SubSeq(b, 1, Len(a))
    OBVIOUS
  <2> DEFINE s == SubSeq(b, 1, Len(a))
  <2>1. s \in Seq(Seq(Nat)) /\ Len(s) = Len(a) /\ \A i \in 1..Len(a) : s[i] = b[i]
    OBVIOUS
  <2>2. a = [i \in 1..Len(a) |-> a[i]] /\ s = [i \in 1..Len(s) |-> s[i]]
    BY <2>1
  <2>3. \A i \in 1..Len(a) : a[i] = b[i]
    OBVIOUS
  <2> HIDE DEF s
  <2>4. a = s
    BY <2>1, <2>2, <2>3
  <2> QED
    BY <2>4 DEF s
<1> QED
  BY <1>1, <1>2 DEF SequenceLess

\* The index that a comparison looks at first.
LEMMA FirstOfDifferent ==
    ASSUME NEW T, T \subseteq Nat, T # {}
    PROVE  Min(T) \in T /\ \A i \in T : Min(T) <= i
BY HasMinimum DEF Min

\* comparePrerelease orders the identifiers of two prereleases as the standard does.
LEMMA PrereleasesInOrder ==
    ASSUME NEW a \in Seq(Seq(Nat)), NEW b \in Seq(Seq(Nat)),
           \A i \in DOMAIN a : ValidIdentifier(a[i]), \A i \in DOMAIN b : ValidIdentifier(b[i])
    PROVE  comparePrerelease(a, b) < 0 <=> SequenceLess(a, b)
<1> DEFINE different == {i \in DOMAIN a \cap DOMAIN b : a[i] # b[i]}
<1>1. CASE different = {}
  <2>1. comparePrerelease(a, b) = compareLength(Len(a), Len(b))
    BY <1>1 DEF comparePrerelease
  <2>2. compareLength(Len(a), Len(b)) < 0 <=> Len(a) < Len(b)
    BY DEF compareLength
  <2>3. \A i \in DOMAIN a \cap DOMAIN b : a[i] = b[i]
    BY <1>1
  <2>4. SequenceLess(a, b) <=> Len(a) < Len(b)
    BY <2>3, NoDifference
  <2> QED
    BY <2>1, <2>2, <2>4
<1>2. CASE different # {}
  <2> DEFINE i == Min(different)
  <2>1. comparePrerelease(a, b) = comparePart(a[i], b[i])
    BY <1>2 DEF comparePrerelease
  <2>2. different \subseteq Nat
    OBVIOUS
  <2>3. i \in different /\ \A j \in different : i <= j
    <3> HIDE DEF different
    <3> QED
      BY <1>2, <2>2, FirstOfDifferent
  <2> HIDE DEF i
  <2>4. i \in DOMAIN a \cap DOMAIN b /\ a[i] # b[i]
    BY <2>3
  <2>5. \A j \in 1..(i - 1) : a[j] = b[j]
    <3> SUFFICES ASSUME NEW j \in 1..(i - 1) PROVE a[j] = b[j]
      OBVIOUS
    <3>1. j \in DOMAIN a \cap DOMAIN b /\ ~(i <= j)
      BY <2>4, SMTT(30)
    <3> QED
      BY <2>3, <3>1
  <2>6. SequenceLess(a, b) <=> IdentifierLess(a[i], b[i])
    BY <2>4, <2>5, FirstDifference
  <2>7. a[i] \in Seq(Nat) /\ b[i] \in Seq(Nat) /\ ValidIdentifier(a[i]) /\ ValidIdentifier(b[i])
    BY <2>4
  <2>8. comparePart(a[i], b[i]) < 0 <=> IdentifierLess(a[i], b[i])
    BY <2>7, PartsInOrder
  <2> QED
    BY <2>1, <2>6, <2>8
<1> QED
  BY <1>1, <1>2

-----------------------------------------------------------------------------
(* The order of versions *)

\* What the standard demands of a version, part by part.
LEMMA SemVerParts ==
    ASSUME NEW v \in ReleaseVersions, IsSemVer(v)
    PROVE  /\ v.core \in Seq(Seq(Nat)) /\ Len(v.core) = 3
           /\ \A i \in 1..3 : v.core[i] \in Seq(Nat) /\ ValidNumber(v.core[i]) /\ Value(v.core[i]) <= MaxUint
           /\ v.pre \in Seq(Seq(Nat)) /\ \A i \in DOMAIN v.pre : ValidIdentifier(v.pre[i])
           /\ v.dash \in BOOLEAN /\ (v.dash <=> v.pre # <<>>)
<1>1. /\ v.core \in Seq(Seq(Nat)) /\ v.pre \in Seq(Seq(Nat)) /\ v.dash \in BOOLEAN
      /\ v.dash <=> v.pre # <<>>
  BY DEF ReleaseVersions
<1>2. Len(v.core) = 3 /\ \A i \in 1..3 : ValidNumber(v.core[i]) /\ Value(v.core[i]) <= MaxUint
  BY DEF IsSemVer
<1>3. \A i \in 1..3 : v.core[i] \in Seq(Nat)
  BY <1>1, <1>2
<1>4. \A i \in DOMAIN v.pre : ValidIdentifier(v.pre[i])
  BY DEF IsSemVer, ValidIdentifier
<1> QED
  BY <1>1, <1>2, <1>3, <1>4

\* parseSemanticVersion accepts every version of the standard whose numbers fit.
LEMMA SemVersParse ==
    ASSUME NEW v \in ReleaseVersions, IsSemVer(v)
    PROVE  Parses(v)
<1>1. /\ Len(v.core) = 3
      /\ \A i \in 1..3 : ValidNumber(v.core[i]) /\ Value(v.core[i]) <= MaxUint
      /\ \A i \in DOMAIN v.pre : v.pre[i] # <<>>
  BY DEF IsSemVer
<1>2. \A i \in 1..3 : ValidPart(v.core[i])
  BY <1>1 DEF ValidPart, ValidNumber, ParsesAsUint, IsNumber
<1>3. v.pre # <<<<>>>>
  <2>1. v.pre = <<<<>>>> => 1 \in DOMAIN v.pre /\ v.pre[1] = <<>>
    OBVIOUS
  <2> QED
    BY <1>1, <2>1
<1> QED
  BY <1>1, <1>2, <1>3 DEF Parses

\* compareCore orders the three numbers as the standard does and takes only equal
\* ones for equal.
LEMMA CoresInOrder ==
    ASSUME NEW a \in ReleaseVersions, NEW b \in ReleaseVersions, IsSemVer(a), IsSemVer(b)
    PROVE  /\ compareCore(a, b) < 0 <=> SequenceLess(a.core, b.core)
           /\ compareCore(a, b) = 0 <=> a.core = b.core
<1> DEFINE c == a.core
           d == b.core
           different == {i \in 1..3 : Value(c[i]) # Value(d[i])}
<1>1. /\ c \in Seq(Seq(Nat)) /\ d \in Seq(Seq(Nat)) /\ Len(c) = 3 /\ Len(d) = 3
      /\ \A i \in 1..3 : c[i] \in Seq(Nat) /\ d[i] \in Seq(Nat) /\ ValidNumber(c[i]) /\ ValidNumber(d[i])
  BY SemVerParts
<1>2. \A i \in 1..3 : i \notin different => c[i] = d[i]
  <2> SUFFICES ASSUME NEW i \in 1..3, Value(c[i]) = Value(d[i]) PROVE c[i] = d[i]
    OBVIOUS
  <2> HIDE DEF c, d
  <2> QED
    BY <1>1, ValueIsUnique
<1>3. CASE different = {}
  <2>1. compareCore(a, b) = 0
    BY <1>3 DEF compareCore
  <2> HIDE DEF c, d, different
  <2>2. \A i \in DOMAIN c \cap DOMAIN d : c[i] = d[i]
    BY <1>1, <1>2, <1>3
  <2>3. SequenceLess(c, d) <=> Len(c) < Len(d)
    BY <1>1, <2>2, NoDifference
  <2>4. c = d
    <3>1. c = [i \in 1..3 |-> c[i]] /\ d = [i \in 1..3 |-> d[i]]
      BY <1>1
    <3> QED
      BY <1>2, <1>3, <3>1
  <2>5. ~(Len(c) < Len(d))
    BY <1>1
  <2> QED
    BY <2>1, <2>3, <2>4, <2>5 DEF c, d
<1>4. CASE different # {}
  <2> DEFINE i == Min(different)
             x == Value(c[i])
             y == Value(d[i])
  <2>1. compareCore(a, b) = compareLength(x, y)
    BY <1>4 DEF compareCore
  <2>2. different \subseteq Nat
    OBVIOUS
  <2>3. i \in different /\ \A j \in different : i <= j
    <3> HIDE DEF different
    <3> QED
      BY <1>4, <2>2, FirstOfDifferent
  <2> HIDE DEF i, c, d
  <2>4. i \in 1..3 /\ x # y
    BY <2>3
  <2>5. \A j \in 1..(i - 1) : c[j] = d[j]
    <3> SUFFICES ASSUME NEW j \in 1..(i - 1) PROVE c[j] = d[j]
      OBVIOUS
    <3>1. j \in 1..3 /\ ~(i <= j)
      BY <2>4
    <3>2. j \notin different
      BY <2>3, <3>1
    <3> QED
      BY <1>2, <3>1, <3>2
  <2>6. c[i] # d[i] /\ i \in DOMAIN c \cap DOMAIN d
    BY <1>1, <2>4
  <2>7. SequenceLess(c, d) <=> IdentifierLess(c[i], d[i])
    BY <1>1, <2>5, <2>6, FirstDifference
  <2>8. IsNumber(c[i]) /\ IsNumber(d[i]) /\ x \in Int /\ y \in Int
    BY <1>1, <2>4, ValueIsInt DEF ValidNumber
  <2>9. IdentifierLess(c[i], d[i]) <=> x < y
    BY <2>8 DEF IdentifierLess
  <2> HIDE DEF x, y
  <2>10. (compareLength(x, y) < 0 <=> x < y) /\ compareLength(x, y) # 0
    BY <2>4, <2>8 DEF compareLength
  <2>11. c # d
    BY <2>6
  <2> QED
    BY <2>1, <2>7, <2>9, <2>10, <2>11 DEF c, d
<1> QED
  BY <1>3, <1>4

\* compareReleaseVersions orders two versions of the standard as it demands,
\* unless they are the same but for their case.
LEMMA VersionsInOrder ==
    ASSUME NEW a \in ReleaseVersions, NEW b \in ReleaseVersions, IsSemVer(a), IsSemVer(b),
           ~EqualFold(a, b)
    PROVE  /\ compareReleaseVersions(a, b).comparable
           /\ compareReleaseVersions(a, b).order < 0 <=> Precedes(a, b)
<1> DEFINE order ==
              CASE compareCore(a, b) # 0 -> compareCore(a, b)
                [] compareCore(a, b) = 0 /\ a.pre = b.pre -> 0
                [] compareCore(a, b) = 0 /\ a.pre # b.pre /\ ~a.dash -> 1
                [] compareCore(a, b) = 0 /\ a.pre # b.pre /\ a.dash /\ ~b.dash -> -1
                [] OTHER -> comparePrerelease(a.pre, b.pre)
           core == SequenceLess(a.core, b.core)
           pre == SequenceLess(a.pre, b.pre)
<1>1. compareReleaseVersions(a, b) = [comparable |-> TRUE, order |-> order]
  BY SemVersParse DEF compareReleaseVersions
<1>2. (compareCore(a, b) < 0 <=> core) /\ (compareCore(a, b) = 0 <=> a.core = b.core)
  BY CoresInOrder
<1>3. Precedes(a, b) <=>
          \/ core
          \/ a.core = b.core /\ a.dash /\ (~b.dash \/ pre)
  BY DEF Precedes
<1>4. /\ a.pre \in Seq(Seq(Nat)) /\ b.pre \in Seq(Seq(Nat))
      /\ \A i \in DOMAIN a.pre : ValidIdentifier(a.pre[i])
      /\ \A i \in DOMAIN b.pre : ValidIdentifier(b.pre[i])
      /\ a.dash \in BOOLEAN /\ b.dash \in BOOLEAN
      /\ (a.dash <=> a.pre # <<>>) /\ (b.dash <=> b.pre # <<>>)
  BY SemVerParts
<1>5. comparePrerelease(a.pre, b.pre) < 0 <=> pre
  BY <1>4, PrereleasesInOrder
<1>6. a.pre = b.pre => ~pre
  <2> SUFFICES ASSUME a.pre = b.pre PROVE ~pre
    OBVIOUS
  <2>1. pre <=> Len(a.pre) < Len(b.pre)
    BY <1>4, NoDifference
  <2> QED
    BY <1>4, <2>1
<1>7. order < 0 <=> Precedes(a, b)
  <2> HIDE DEF core, pre
  <2>1. CASE compareCore(a, b) # 0
    BY <1>2, <1>3, <2>1
  <2>2. CASE compareCore(a, b) = 0 /\ a.pre = b.pre
    BY <1>2, <1>3, <1>4, <1>6, <2>2
  <2>3. CASE compareCore(a, b) = 0 /\ a.pre # b.pre /\ ~a.dash
    BY <1>2, <1>3, <2>3
  <2>4. CASE compareCore(a, b) = 0 /\ a.pre # b.pre /\ a.dash /\ ~b.dash
    BY <1>2, <1>3, <2>4
  <2>5. CASE compareCore(a, b) = 0 /\ a.pre # b.pre /\ a.dash /\ b.dash
    <3>1. order = comparePrerelease(a.pre, b.pre)
      BY <2>5
    <3>2. Precedes(a, b) <=> pre
      BY <1>2, <1>3, <2>5
    <3> QED
      BY <1>5, <3>1, <3>2
  <2> QED
    BY <2>1, <2>2, <2>3, <2>4, <2>5
<1> QED
  BY <1>1, <1>7

-----------------------------------------------------------------------------
(* The accounts of a report *)

\* The snapshot has an account for some of the files, each once.
LEMMA UsagesOfFiles ==
    ASSUME NEW files, NEW N \in Nat, N = Len(files)
    PROVE  LET U == {AccountUsage(files[i]) : i \in 1..N}
               usages == enabledAccountUsages(files)
           IN  usages \in Seq(U) /\ Len(usages) <= N
<1> DEFINE U == {AccountUsage(files[i]) : i \in 1..N}
           Step(n, s) == IF files[n].disabled THEN s ELSE Append(s, AccountUsage(files[n]))
           step == [p \in Nat \X Seq(U) |-> IF p[1] \in 1..N THEN Step(p[1], p[2]) ELSE p[2]]
           Eq(f) == f = [n \in 0..N |-> IF n = 0 THEN <<>>
                                        ELSE IF files[n].disabled THEN f[n - 1]
                                        ELSE Append(f[n - 1], AccountUsage(files[n]))]
<1>1. ASSUME NEW n \in 1..N, NEW s \in Seq(U)
      PROVE  Step(n, s) \in Seq(U) /\ Len(Step(n, s)) <= Len(s) + 1
  <2>1. AccountUsage(files[n]) \in U
    OBVIOUS
  <2> HIDE DEF U
  <2> QED
    BY <2>1
<1>2. step \in [Nat \X Seq(U) -> Seq(U)]
  <2> HIDE DEF U, Step
  <2> QED
    BY <1>1
<1>3. <<>> \in Seq(U)
  OBVIOUS
<1>4. PICK g \in [0..N -> Seq(U)] : g[0] = <<>> /\ \A n \in 1..N : g[n] = step[<<n, g[n - 1]>>]
  <2> HIDE DEF step, U
  <2>1. PICK g \in [0..N -> Seq(U)] : Follows(g, <<>>, step, N)
    BY <1>2, <1>3, RecursionExists
  <2> QED
    BY <2>1 DEF Follows
<1>5. Eq(g)
  <2> DEFINE h == [n \in 0..N |-> IF n = 0 THEN <<>> ELSE Step(n, g[n - 1])]
  <2>1. \A n \in 0..N : g[n] = h[n]
    <3> SUFFICES ASSUME NEW n \in 0..N PROVE g[n] = h[n]
      OBVIOUS
    <3>1. CASE n = 0
      BY <1>4, <3>1
    <3>2. CASE n # 0
      <4>1. n \in 1..N /\ n \in Nat /\ n - 1 \in 0..N
        BY <3>2
      <4>2. g[n - 1] \in Seq(U)
        BY <4>1
      <4>3. g[n] = step[<<n, g[n - 1]>>]
        BY <1>4, <4>1
      <4> HIDE DEF U, Step
      <4>4. step[<<n, g[n - 1]>>] = Step(n, g[n - 1])
        BY <4>1, <4>2
      <4> QED
        BY <3>2, <4>3, <4>4
    <3> QED
      BY <3>1, <3>2
  <2>2. g = [n \in 0..N |-> g[n]] /\ h = [n \in 0..N |-> h[n]]
    BY <1>4
  <2>3. g = h
    <3> HIDE DEF h
    <3> QED
      BY <2>1, <2>2
  <2> QED
    BY <2>3
<1> DEFINE f == CHOOSE f : Eq(f)
<1>6. Eq(f)
  <2> HIDE DEF Eq
  <2> QED
    BY <1>5
<1>7. enabledAccountUsages(files) = f[N]
  BY DEF enabledAccountUsages
<1> HIDE DEF f
<1>8. f[0] = <<>> /\ \A n \in 1..N : f[n] = Step(n, f[n - 1])
  <2>1. f = [n \in 0..N |-> IF n = 0 THEN <<>> ELSE Step(n, f[n - 1])]
    BY <1>6
  <2> HIDE DEF Step, Eq
  <2>2. f[0] = <<>>
    <3>1. 0 \in 0..N
      OBVIOUS
    <3> QED
      BY <2>1, <3>1
  <2>3. ASSUME NEW n \in 1..N PROVE f[n] = Step(n, f[n - 1])
    <3>1. n \in 0..N /\ n # 0
      OBVIOUS
    <3> QED
      BY <2>1, <3>1
  <2> QED
    BY <2>2, <2>3
<1> HIDE DEF Eq, Step, U, step
<1>9. \A n \in 0..N : f[n] \in Seq(U) /\ Len(f[n]) <= n
  <2> DEFINE T == {n \in 0..N : ~(f[n] \in Seq(U) /\ Len(f[n]) <= n)}
  <2> SUFFICES ASSUME T # {} PROVE FALSE
    OBVIOUS
  <2>1. PICK n \in T : \A m \in T : n <= m
    <3>1. T \subseteq Nat
      OBVIOUS
    <3> HIDE DEF T
    <3> QED
      BY <3>1, HasMinimum
  <2>2. n # 0
    <3>1. f[0] \in Seq(U) /\ Len(f[0]) <= 0
      BY <1>8
    <3> QED
      BY <2>1, <3>1
  <2>3. n \in 1..N /\ n - 1 \in 0..N /\ ~(n <= n - 1)
    BY <2>2
  <2>4. n - 1 \notin T
    <3> HIDE DEF T
    <3> QED
      BY <2>1, <2>3
  <2>5. f[n - 1] \in Seq(U) /\ Len(f[n - 1]) <= n - 1
    BY <2>3, <2>4
  <2>6. Step(n, f[n - 1]) \in Seq(U) /\ Len(Step(n, f[n - 1])) <= Len(f[n - 1]) + 1
    BY <1>1, <2>3, <2>5
  <2>7. Len(Step(n, f[n - 1])) <= n
    <3>1. Len(Step(n, f[n - 1])) \in Nat /\ Len(f[n - 1]) \in Nat
      BY <2>5, <2>6
    <3> QED
      BY <2>3, <2>5, <2>6, <3>1
  <2>8. f[n] = Step(n, f[n - 1])
    BY <1>8, <2>3
  <2> QED
    BY <2>1, <2>6, <2>7, <2>8
<1>10. f[N] \in Seq(U) /\ Len(f[N]) <= N
  BY <1>9
<1> QED
  BY <1>7, <1>10 DEF U

\* What every account of a report has: it is fit for the report unless one of its
\* counters is negative.
UsageFields ==
    {"label", "success", "failed", "recentSuccess", "recentFailed", "quotaSupported",
     "quotaAvailable", "windows"}

Miscounted(usage) ==
    \E n \in {usage.success, usage.failed, usage.recentSuccess, usage.recentFailed} : n < 0

UsageFits(usage) ==
    UsageFields \subseteq DOMAIN usage /\ (ValidateAccountUsage(usage) \/ Miscounted(usage))

\* No quota is known of it.
NoQuotaYet(usage) == usage.quotaAvailable = FALSE /\ usage.windows = <<>>

\* Every account has a label that is not blank.
LEMMA LabelIsNotBlank == \A file : TrimSpace(accountLabel(file)) # ""
<1>1. \A text : TrimSpace(text) # "" => TrimSpace(TrimSpace(text)) # ""
  BY Zenon DEF TrimSpace
<1>2. TrimSpace("#") # ""
  BY Zenon DEF TrimSpace
<1> QED
  BY <1>1, <1>2, Zenon DEF accountLabel

\* A sum that wraps is an integer.
LEMMA WrappedIsInt == \A n \in Int : Wrapped(n) \in Int
<1> SUFFICES ASSUME NEW n \in Int PROVE Wrapped(n) \in Int
  OBVIOUS
<1> DEFINE m == 2 * (MaxInt + 1)
           k == n + MaxInt + 1
<1>1. m \in Int /\ m > 0 /\ k \in Int
  BY ReportsAssumption
<1> HIDE DEF m, k
<1>2. k % m \in Int
  BY <1>1
<1> QED
  BY <1>2, ReportsAssumption DEF Wrapped, m, k

\* A new account fits, and no quota is known of it.
LEMMA NewUsageFits ==
    ASSUME NEW file, file.success \in Int, file.failed \in Int,
           file.recentSuccess \in Int, file.recentFailed \in Int
    PROVE  UsageFits(AccountUsage(file)) /\ NoQuotaYet(AccountUsage(file))
<1> DEFINE u == AccountUsage(file)
           counts == {u.success, u.failed, u.recentSuccess, u.recentFailed}
<1>1. /\ u.label = accountLabel(file) /\ u.success = file.success /\ u.failed = file.failed
      /\ u.recentSuccess = Wrapped(file.recentSuccess) /\ u.recentFailed = Wrapped(file.recentFailed)
      /\ u.quotaSupported = FALSE /\ u.quotaAvailable = FALSE /\ u.windows = <<>>
  BY DEF AccountUsage
<1>2. UsageFields \subseteq DOMAIN u
  BY DEF AccountUsage, UsageFields
<1> HIDE DEF u
<1>3. counts \subseteq Int
  BY <1>1, WrappedIsInt
<1>4. (\A n \in counts : n >= 0) \/ Miscounted(u)
  BY <1>3 DEF Miscounted
<1>5. TrimSpace(u.label) # ""
  BY <1>1, LabelIsNotBlank
<1>6. ASSUME \A n \in counts : n >= 0
      PROVE  ValidateAccountUsage(u)
  <2>1. DOMAIN u.windows = {}
    BY <1>1
  <2> QED
    BY <1>1, <1>5, <1>6, <2>1, Zenon DEF ValidateAccountUsage
<1>7. UsageFits(u) /\ NoQuotaYet(u)
  BY <1>1, <1>2, <1>4, <1>6 DEF UsageFits, NoQuotaYet
<1> QED
  BY <1>7 DEF u

\* addQuota leaves an account fit of which no quota was known.
LEMMA QuotaFits ==
    ASSUME NEW usage, UsageFits(usage), NoQuotaYet(usage), NEW quota
    PROVE  UsageFits(addQuota(usage, quota))
<1> DEFINE supported == [usage EXCEPT !.quotaSupported = IsCodex(usage)]
           candidate == [supported EXCEPT !.quotaAvailable = TRUE, !.windows = quota.windows]
<1>1. UsageFields \subseteq DOMAIN usage
  BY DEF UsageFits
<1>2. /\ supported.label = usage.label /\ supported.windows = usage.windows
      /\ supported.success = usage.success /\ supported.failed = usage.failed
      /\ supported.recentSuccess = usage.recentSuccess
      /\ supported.recentFailed = usage.recentFailed
      /\ supported.quotaAvailable = usage.quotaAvailable
      /\ DOMAIN supported = DOMAIN usage /\ DOMAIN candidate = DOMAIN usage
  BY <1>1 DEF UsageFields
<1> HIDE DEF supported, candidate
<1>3. UsageFits(supported)
  <2>1. Miscounted(usage) => Miscounted(supported)
    BY <1>2 DEF Miscounted
  <2>2. ValidateAccountUsage(usage) => ValidateAccountUsage(supported)
    BY <1>2, Zenon DEF ValidateAccountUsage, NoQuotaYet
  <2> QED
    BY <1>1, <1>2, <2>1, <2>2 DEF UsageFits
<1>4. ValidateAccountUsage(candidate) => UsageFits(candidate)
  BY <1>1, <1>2 DEF UsageFits
<1>5. addQuota(usage, quota) =
          IF IsCodex(usage) /\ ~quota.err /\ ValidateAccountUsage(candidate)
          THEN candidate ELSE supported
  BY DEF addQuota, supported, candidate
<1> QED
  BY <1>3, <1>4, <1>5

-----------------------------------------------------------------------------
(* The invariant *)

PositionsFit ==
    /\ at \in 0..7 /\ stage \in {"done", "reconcile"}
    /\ stage = "reconcile" => at \in 1..5

FactsAreCurrent == at \in 1..5 => facts \in Facts(Scope) /\ batch = BatchOf(Scope, facts)

\* The health scope counts none of its errors.
ErrorsAreRecorded == at \in 1..5 /\ batch.errors # 0 => runErrors

\* A key is the name of an object in its scope; an account without a name has none.
KeysAreKnown ==
    \A k \in active : \E scope \in Scopes : \E object : k = <<scope, object>> /\ k # <<"auth", "">>

\* While the cycle is eligible the server scopes behind it have no active key and
\* the batch of a server scope is healthy.
HealthySoFar ==
    eligible =>
        /\ at \in 1..4 => batchesHealthy({batch})
        /\ \A i \in 1..4 : i < at \/ (i = at /\ stage = "done") => \A k \in active : k[1] # Order[i]

ReportFields ==
    {"memory", "highestDisk", "diskMountCount", "totalTCP", "serviceTCP",
     "accountUsageAvailable", "accountCount", "enabledAccountCount", "accountUsages", "version"}

\* A report is made after an eligible cycle and shows the host of that cycle.
ReportShowsHost ==
    IF at \in 6..7
    THEN /\ eligible /\ stage = "done"
         /\ ReportFields \subseteq DOMAIN report
         /\ report.memory = host.memory /\ report.highestDisk = host.highestDisk
         /\ report.diskMountCount = host.diskMountCount
         /\ report.totalTCP = host.totalTCP /\ report.serviceTCP = host.serviceTCP
    ELSE report = <<>>

\* The accounts of a report agree with its counts, and each of them fits.
AccountsFit(r) ==
    /\ r.accountCount \in Nat /\ r.enabledAccountCount \in 0..r.accountCount
    /\ r.accountUsageAvailable => r.enabledAccountCount = Len(r.accountUsages)
    /\ ~r.accountUsageAvailable => r.accountCount = 0 /\ r.accountUsages = <<>>
    /\ \E U : r.accountUsages \in Seq(U)
    /\ \A i \in DOMAIN r.accountUsages : UsageFits(r.accountUsages[i])

\* Whatever a report is given fits: no quota is known of the accounts that are
\* still to come, and its version is one that was answered.
ReportFits ==
    at \in 6..7 =>
        /\ AccountsFit(report)
        /\ accounts \in Nat \ {0}
        /\ at = 6 => \A i \in DOMAIN report.accountUsages :
                        i >= accounts => NoQuotaYet(report.accountUsages[i])
        /\ ValidateVersionInfo(report.version)
        /\ at = 7 /\ report.version.available =>
              \E answer \in VersionAnswers : report.version = VersionStatus(answer)

\* A group that was not rendered is one object with a control character in its
\* name, and its alert is still to be raised or to recover.
RefusalsExplained ==
    \A group \in refused :
        channel = "smtp" /\ \E k \in active \cup Keys(batch) :
            group = {k} /\ k[2] \in ControlObjects

Inv ==
    /\ PositionsFit
    /\ FactsAreCurrent
    /\ ErrorsAreRecorded
    /\ KeysAreKnown
    /\ host \in HealthyHosts
    /\ HealthySoFar
    /\ ReportShowsHost
    /\ ReportFits
    /\ RefusalsExplained
    /\ NothingUnhealthyIsSilent

\* The current batch is right.
LEMMA BatchIsRight ==
    ASSUME PositionsFit, FactsAreCurrent, at \in 1..5
    PROVE  IsRight(Scope, facts, batch)
BY RulesAreRight DEF FactsAreCurrent, Scope

\* The invariant holds at the start.
LEMMA InvInit == Init => Inv
<1> SUFFICES ASSUME Init PROVE Inv
  OBVIOUS
<1> USE DEF Init
<1>1. PositionsFit /\ FactsAreCurrent /\ ErrorsAreRecorded /\ KeysAreKnown
  BY DEF PositionsFit, FactsAreCurrent, ErrorsAreRecorded, KeysAreKnown
<1>2. host \in HealthyHosts
  BY NoHostIsHealthy
<1>3. HealthySoFar /\ ReportShowsHost /\ NothingUnhealthyIsSilent
  BY DEF HealthySoFar, ReportShowsHost, NothingUnhealthyIsSilent
<1>4. ReportFits /\ RefusalsExplained
  BY DEF ReportFits, RefusalsExplained
<1> QED
  BY <1>1, <1>2, <1>3, <1>4 DEF Inv

\* A measurement preserves the invariant.
LEMMA InvMeasure == Inv /\ Measure => Inv'
<1> SUFFICES ASSUME Inv, Measure PROVE Inv'
  OBVIOUS
<1> DEFINE i == at + 1
           scope == Order[i]
           b(f) == BatchOf(scope, f)
<1>1. /\ at \in 0..4 /\ stage = "done" /\ at' = i /\ stage' = "reconcile"
      /\ active' = active /\ report' = report
  BY DEF Measure
<1>2. PICK f \in Facts(scope) :
         /\ facts' = f /\ batch' = b(f)
         /\ runErrors' = (runErrors \/ (scope # "health" /\ b(f).errors > 0))
         /\ eligible' = (eligible /\ (scope = "auth" \/ batchesHealthy({b(f)})))
         /\ host' = IF eligible' THEN HostWith(scope, f) ELSE NoHost
  BY DEF Measure
<1>3. i \in 1..5 /\ i = at + 1
  BY <1>1
<1>4. /\ PositionsFit /\ KeysAreKnown /\ host \in HealthyHosts /\ HealthySoFar /\ ReportShowsHost
  BY DEF Inv
<1> HIDE DEF i
<1>5. PositionsFit'
  BY <1>1, <1>3 DEF PositionsFit
<1>6. FactsAreCurrent'
  BY <1>1, <1>2 DEF FactsAreCurrent, Scope
<1>7. IsRight(scope, f, b(f))
  BY <1>2, <1>3, RulesAreRight
<1>8. ErrorsAreRecorded'
  <2>1. scope = "health" => b(f).errors = 0
    BY HealthIsRight
  <2>2. b(f).errors \in Nat
    BY <1>7 DEF IsRight
  <2>3. scope # "health" /\ b(f).errors > 0 => runErrors'
    BY <1>2
  <2>4. batch' = b(f)
    BY <1>2
  <2> HIDE DEF scope, b
  <2>5. b(f).errors # 0 => runErrors'
    BY <2>1, <2>2, <2>3
  <2> QED
    BY <2>4, <2>5 DEF ErrorsAreRecorded
<1>9. KeysAreKnown'
  BY <1>1, <1>4 DEF KeysAreKnown
<1>10. (eligible' <=> eligible /\ (scope = "auth" \/ batchesHealthy({b(f)})))
  BY <1>2
<1>11. (host \in HealthyHosts)'
  <2>1. CASE eligible'
    <3>1. HostWith(scope, f) \in HealthyHosts
      BY <1>2, <1>3, <1>4, <1>10, <2>1, HostStaysHealthy
    <3> QED
      BY <1>2, <2>1, <3>1
  <2>2. CASE ~eligible'
    BY <1>2, <2>2, NoHostIsHealthy
  <2> QED
    BY <2>1, <2>2
<1>12. HealthySoFar'
  <2> SUFFICES ASSUME eligible'
               PROVE  /\ i \in 1..4 => batchesHealthy({b(f)})
                      /\ \A j \in 1..4 : j < i => \A k \in active : k[1] # Order[j]
    BY <1>1, <1>2 DEF HealthySoFar
  <2>1. i \in 1..4 => scope # "auth"
    BY DEF Order
  <2>2. \A j \in 1..4 : j < i => \A k \in active : k[1] # Order[j]
    BY <1>1, <1>3, <1>4, <1>10 DEF HealthySoFar
  <2> QED
    BY <1>10, <2>1, <2>2
<1>13. ReportShowsHost'
  BY <1>1, <1>3, <1>4 DEF ReportShowsHost
<1>14. NothingUnhealthyIsSilent'
  BY <1>1 DEF NothingUnhealthyIsSilent
<1>15. ReportFits'
  <2>1. ~(at' \in 6..7)
    BY <1>1, <1>3
  <2> QED
    BY <2>1 DEF ReportFits
<1>16. RefusalsExplained'
  <2>1. refused' = {}
    BY DEF Measure
  <2> QED
    BY <2>1 DEF RefusalsExplained
<1> QED
  BY <1>5, <1>6, <1>8, <1>9, <1>11, <1>12, <1>13, <1>14, <1>15, <1>16 DEF Inv

\* Two groups of messages have no key in common.
LEMMA GroupsAreDisjoint ==
    ASSUME NEW scope, NEW keys, NEW g \in DeliveryGroups(scope, keys),
           NEW h \in DeliveryGroups(scope, keys), NEW k \in g, k \in h
    PROVE  g = h
BY DEF DeliveryGroups

\* What a Reconcile leaves unrendered is explained by its batch or its alerts.
LEMMA ReconcileRefusals == Reconcile => RefusalsExplained'
<1> SUFFICES ASSUME Reconcile PROVE RefusalsExplained'
  OBVIOUS
<1> DEFINE alerts == DeliveryGroups(Scope, New(batch))
           recoveries == DeliveryGroups(Scope, Gone(Scope, batch))
           rendered == {g \in alerts \cup recoveries : Renders(Scope, g)}
<1>1. PICK sent \in SUBSET rendered :
          /\ active' = (active \cup UNION (sent \cap alerts)) \ UNION (sent \cap recoveries)
          /\ refused' = (alerts \cup recoveries) \ rendered
  BY DEF Reconcile
<1>2. channel' = channel /\ batch' = batch
  BY DEF Reconcile
<1>3. UNION alerts = New(batch) /\ UNION recoveries = Gone(Scope, batch)
  BY GroupsCover
<1>4. ASSUME NEW group \in refused'
      PROVE  channel = "smtp" /\ \E k \in group : group = {k} /\ k[2] \in ControlObjects
  <2>1. ~Renders(Scope, group)
    BY <1>1
  <2>2. channel = "smtp" /\ \E k \in MailKeys(Scope, group) : k[2] \in ControlObjects
    BY <2>1 DEF Renders
  <2>3. PICK k \in MailKeys(Scope, group) : k[2] \in ControlObjects
    BY <2>2
  <2>4. CASE \E j \in group : group = {j}
    <3>1. k \in group
      BY <2>3, <2>4 DEF MailKeys
    <3>2. group = {k}
      BY <2>4, <3>1
    <3> QED
      BY <2>2, <2>3, <3>1, <3>2
  <2>5. CASE ~\E j \in group : group = {j}
    <3>1. k = <<Scope, "batch">>
      BY <2>3, <2>5 DEF MailKeys
    <3>2. k[2] = "batch"
      BY <3>1
    <3> QED
      BY <2>3, <3>2, CycleAssumption
  <2> QED
    BY <2>4, <2>5
<1>5. ASSUME NEW group \in refused', NEW k \in group
      PROVE  k \in active' \cup Keys(batch)
  <2>1. CASE group \in alerts
    <3>1. k \in New(batch)
      BY <1>3, <2>1
    <3> QED
      BY <3>1 DEF New
  <2>2. CASE group \in recoveries
    <3>1. k \in active
      <4>1. k \in Gone(Scope, batch)
        BY <1>3, <2>2
      <4> QED
        BY <4>1 DEF Gone, InScope
    <3>2. \A g \in sent \cap recoveries : k \notin g
      <4> SUFFICES ASSUME NEW g \in sent \cap recoveries, k \in g PROVE FALSE
        OBVIOUS
      <4>1. g = group
        BY <2>2, GroupsAreDisjoint
      <4> QED
        BY <1>1, <4>1
    <3> HIDE DEF alerts, recoveries, rendered
    <3>3. k \in active'
      BY <1>1, <3>1, <3>2
    <3> QED
      BY <3>3
  <2>3. group \in alerts \cup recoveries
    BY <1>1
  <2> QED
    BY <2>1, <2>2, <2>3
<1> HIDE DEF alerts, recoveries, rendered
<1> QED
  BY <1>2, <1>4, <1>5 DEF RefusalsExplained, Keys

\* A Reconcile preserves the invariant.
LEMMA InvReconcile == Inv /\ Reconcile => Inv'
<1> SUFFICES ASSUME Inv, Reconcile PROVE Inv'
  OBVIOUS
<1>1. /\ stage = "reconcile" /\ stage' = "done" /\ at' = at /\ facts' = facts /\ batch' = batch
      /\ report' = report /\ host' = IF eligible' THEN host ELSE NoHost
  BY DEF Reconcile
<1>2. /\ PositionsFit /\ FactsAreCurrent /\ ErrorsAreRecorded /\ KeysAreKnown
      /\ host \in HealthyHosts /\ HealthySoFar /\ ReportShowsHost
  BY DEF Inv
<1>3. at \in 1..5 /\ Scope' = Scope
  BY <1>1, <1>2 DEF PositionsFit, Scope
<1>4. IsRight(Scope, facts, batch)
  BY <1>2, <1>3, BatchIsRight
<1>5. /\ \A k \in active \ active' : batch.complete /\ k[1] = Scope /\ k \notin Keys(batch)
      /\ \A k \in active' \ active : k \in Keys(batch)
      /\ \A k \in Keys(batch) : k \in active' \/ runErrors'
      /\ runErrors => runErrors'
      /\ eligible' => eligible
      /\ eligible' /\ Scope # "auth" /\ Keys(batch) = {} /\ batch.complete =>
             \A k \in active' : k[1] # Scope
  BY ReconcileStep
<1>6. PositionsFit'
  BY <1>1, <1>2 DEF PositionsFit
<1>7. FactsAreCurrent'
  BY <1>1, <1>2, <1>3 DEF FactsAreCurrent
<1>8. ErrorsAreRecorded'
  BY <1>1, <1>2, <1>5 DEF ErrorsAreRecorded
<1>9. Scope \in Scopes
  BY <1>3 DEF Scope, Order, Scopes, ServerScopes
<1>10. \A k \in Keys(batch) : \E object : k = <<Scope, object>> /\ k # <<"auth", "">>
  <2> SUFFICES ASSUME NEW k \in Keys(batch)
               PROVE  \E object : k = <<Scope, object>> /\ k # <<"auth", "">>
    OBVIOUS
  <2>1. PICK o : k = <<Scope, o>> /\ (Scope = "auth" => o # "")
    BY <1>4 DEF IsRight
  <2> QED
    BY <2>1
<1>11. KeysAreKnown'
  <2> SUFFICES ASSUME NEW k \in active'
               PROVE  \E scope \in Scopes : \E object : k = <<scope, object>> /\ k # <<"auth", "">>
    BY DEF KeysAreKnown
  <2>1. CASE k \in active
    BY <1>2, <2>1 DEF KeysAreKnown
  <2>2. CASE k \notin active
    BY <1>5, <1>9, <1>10, <2>2
  <2> QED
    BY <2>1, <2>2
<1>12. (host \in HealthyHosts)'
  BY <1>1, <1>2, NoHostIsHealthy
<1>13. HealthySoFar'
  <2> SUFFICES ASSUME eligible'
               PROVE  /\ at \in 1..4 => batchesHealthy({batch})
                      /\ \A i \in 1..4 : i <= at => \A k \in active' : k[1] # Order[i]
    BY <1>1, <1>3 DEF HealthySoFar
  <2>1. eligible
    BY <1>5
  <2>2. at \in 1..4 => batchesHealthy({batch})
    BY <1>2, <2>1 DEF HealthySoFar
  <2>3. at \in 1..4 => Scope # "auth"
    BY DEF Scope, Order
  <2>4. ASSUME NEW i \in 1..4, i <= at, NEW k \in active', k[1] = Order[i]
        PROVE  FALSE
    <3>1. CASE i = at
      <4>1. batch.complete /\ batch.conditions = {}
        BY <2>2, <2>4, <3>1 DEF batchesHealthy
      <4>2. Keys(batch) = {}
        BY <4>1 DEF Keys
      <4> QED
        BY <1>5, <2>3, <2>4, <3>1, <4>1, <4>2 DEF Scope
    <3>2. CASE i < at
      <4>1. k \notin active
        BY <1>2, <2>1, <2>4, <3>2 DEF HealthySoFar
      <4>2. PICK object : k = <<Scope, object>>
        BY <1>5, <1>10, <2>4, <4>1
      <4>3. Scope = Order[i]
        BY <2>4, <4>2
      <4> QED
        BY <1>3, <2>4, <3>2, <4>3 DEF Scope, Order
    <3> QED
      BY <1>3, <2>4, <3>1, <3>2
  <2> QED
    BY <2>2, <2>4
<1>14. ReportShowsHost'
  BY <1>1, <1>2, <1>3 DEF ReportShowsHost
<1>15. NothingUnhealthyIsSilent'
  <2> SUFFICES ASSUME NEW object \in UnhealthyObjects(Scope, facts), ~runErrors'
               PROVE  <<Scope, object>> \in active' /\ <<Scope, object>> # <<"auth", "">>
    BY <1>1, <1>3 DEF NothingUnhealthyIsSilent
  <2>1. batch.errors = 0
    BY <1>2, <1>3, <1>5 DEF ErrorsAreRecorded
  <2>2. <<Scope, object>> \in Keys(batch) /\ (Scope = "auth" => object # "")
    BY <1>4, <2>1 DEF IsRight
  <2> QED
    BY <1>5, <2>2
<1>16. ReportFits'
  <2>1. ~(at' \in 6..7)
    BY <1>1, <1>3
  <2> QED
    BY <2>1 DEF ReportFits
<1>17. RefusalsExplained'
  BY ReconcileRefusals
<1> QED
  BY <1>6, <1>7, <1>8, <1>11, <1>12, <1>13, <1>14, <1>15, <1>16, <1>17 DEF Inv

\* The end of a cycle preserves the invariant.
LEMMA InvEndCycle == Inv /\ EndCycle /\ stage = "done" => Inv'
<1> SUFFICES ASSUME Inv, EndCycle, stage = "done" PROVE Inv'
  OBVIOUS
<1>1. /\ at' = 0 /\ stage' = "done" /\ active' = active /\ host' = NoHost /\ report' = <<>>
  BY DEF EndCycle
<1>2. KeysAreKnown'
  BY <1>1 DEF Inv, KeysAreKnown
<1>3. (host \in HealthyHosts)'
  BY <1>1, NoHostIsHealthy
<1>4. PositionsFit' /\ ReportShowsHost'
  BY <1>1 DEF PositionsFit, ReportShowsHost
<1>5. FactsAreCurrent' /\ ErrorsAreRecorded'
  BY <1>1 DEF FactsAreCurrent, ErrorsAreRecorded
<1>6. HealthySoFar' /\ NothingUnhealthyIsSilent'
  BY <1>1 DEF HealthySoFar, NothingUnhealthyIsSilent
<1>7. ReportFits' /\ RefusalsExplained'
  <2>1. at' = 0 /\ refused' = {}
    BY DEF EndCycle
  <2> QED
    BY <2>1 DEF ReportFits, RefusalsExplained
<1> QED
  BY <1>2, <1>3, <1>4, <1>5, <1>6, <1>7 DEF Inv

\* A new report fits: it has the accounts of the last check.
LEMMA BeginReportFits == Inv /\ BeginReport => ReportFits'
<1> SUFFICES ASSUME Inv, BeginReport PROVE ReportFits'
  OBVIOUS
<1> DEFINE files == AuthFiles(facts).files
           err == AuthFiles(facts).err
           usages == enabledAccountUsages(files)
<1>1. /\ at' = 6 /\ accounts' = 1
      /\ report'.accountUsageAvailable = ~err /\ report'.accountCount = Len(files)
      /\ report'.enabledAccountCount = Len(usages) /\ report'.accountUsages = usages
      /\ report'.version = NoVersion
  BY DEF BeginReport
<1>2. facts \in [readable : BOOLEAN, files : Seq(Entries)]
  <2>1. at = 5 /\ Order[5] = "auth"
    BY DEF BeginReport, Order
  <2>2. facts \in Facts("auth")
    BY <2>1 DEF Inv, FactsAreCurrent, Scope
  <2> QED
    BY <2>2, AuthFactsType
<1>3. /\ Len(files) \in Nat /\ (err => files = <<>>)
      /\ \A i \in 1..Len(files) :
            /\ files[i].success \in Int /\ files[i].failed \in Int
            /\ files[i].recentSuccess \in Int /\ files[i].recentFailed \in Int
  <2>1. CASE facts.readable /\ Decodable(facts.files)
    <3> DEFINE decoded == [i \in DOMAIN facts.files |->
                              [facts.files[i] EXCEPT !.auth_index = AuthIndex(@)]]
    <3>1. err = FALSE /\ files = decoded
      BY <2>1 DEF AuthFiles
    <3>2. \A i \in DOMAIN facts.files : facts.files[i] \in Entries
      BY <1>2
    <3>3. decoded \in Seq({decoded[i] : i \in DOMAIN facts.files}) /\ Len(decoded) = Len(facts.files)
      BY <1>2
    <3>4. ASSUME NEW i \in 1..Len(facts.files)
          PROVE  /\ decoded[i].success \in Int /\ decoded[i].failed \in Int
                 /\ decoded[i].recentSuccess \in Int /\ decoded[i].recentFailed \in Int
      <4>1. decoded[i] = [facts.files[i] EXCEPT !.auth_index = AuthIndex(facts.files[i].auth_index)]
        BY <1>2
      <4>2. facts.files[i] \in Entries
        BY <1>2, <3>2
      <4> HIDE DEF decoded
      <4> QED
        BY <4>1, <4>2 DEF Entries
    <3> HIDE DEF decoded, files, err
    <3> QED
      BY <1>2, <3>1, <3>3, <3>4
  <2>2. CASE ~(facts.readable /\ Decodable(facts.files))
    <3>1. err = TRUE /\ files = <<>>
      BY <2>2 DEF AuthFiles
    <3> QED
      BY <3>1
  <2> QED
    BY <2>1, <2>2
<1> HIDE DEF files, err
<1> DEFINE U == {AccountUsage(files[i]) : i \in 1..Len(files)}
<1>4. usages \in Seq(U) /\ Len(usages) <= Len(files)
  BY <1>3, UsagesOfFiles
<1>5. \A u \in U : UsageFits(u) /\ NoQuotaYet(u)
  BY <1>3, NewUsageFits
<1> HIDE DEF usages, U
<1>6. \A i \in DOMAIN usages : UsageFits(usages[i]) /\ NoQuotaYet(usages[i])
  <2> SUFFICES ASSUME NEW i \in DOMAIN usages PROVE usages[i] \in U
    BY <1>5
  <2> QED
    BY <1>4
<1>7. AccountsFit(report')
  <2>1. err => Len(files) = 0 /\ usages = <<>>
    BY <1>3, <1>4
  <2>2. Len(usages) \in 0..Len(files)
    BY <1>3, <1>4
  <2> QED
    BY <1>1, <1>3, <1>4, <1>6, <2>1, <2>2 DEF AccountsFit
<1>8. ValidateVersionInfo(report'.version) /\ ~report'.version.available
  BY <1>1 DEF ValidateVersionInfo, NoVersion
<1> QED
  BY <1>1, <1>6, <1>7, <1>8 DEF ReportFits

\* A quota leaves the report fit.
LEMMA AddQuotaFits == Inv /\ AddQuota => ReportFits'
<1> SUFFICES ASSUME Inv, AddQuota PROVE ReportFits'
  OBVIOUS
<1> DEFINE usages == report.accountUsages
<1>1. /\ at = 6 /\ at' = 6 /\ accounts <= Len(usages) /\ accounts' = accounts + 1
  BY DEF AddQuota
<1>2. /\ AccountsFit(report) /\ accounts \in Nat \ {0}
      /\ \A i \in DOMAIN usages : i >= accounts => NoQuotaYet(usages[i])
      /\ ValidateVersionInfo(report.version)
      /\ ReportFields \subseteq DOMAIN report
  BY <1>1 DEF Inv, ReportFits, ReportShowsHost
<1>3. CASE report' = report
  <2>1. \A i \in DOMAIN usages : i >= accounts' => NoQuotaYet(usages[i])
    <3>1. PICK U : usages \in Seq(U)
      BY <1>2 DEF AccountsFit
    <3>2. \A i \in DOMAIN usages : i >= accounts + 1 => i >= accounts
      BY <1>2, <3>1
    <3> HIDE DEF usages
    <3> QED
      BY <1>1, <1>2, <3>2
  <2>2. accounts' \in Nat \ {0}
    BY <1>1, <1>2
  <2> QED
    BY <1>1, <1>2, <1>3, <2>1, <2>2 DEF ReportFits
<1>4. CASE \E quota : report' = [report EXCEPT !.accountUsages[accounts] = addQuota(@, quota)]
  <2>1. PICK quota : report' = [report EXCEPT !.accountUsages[accounts] = addQuota(@, quota)]
    BY <1>4
  <2> DEFINE u == addQuota(usages[accounts], quota)
             changed == [usages EXCEPT ![accounts] = u]
  <2>2. /\ report'.accountUsages = changed /\ report'.version = report.version
        /\ report'.accountCount = report.accountCount
        /\ report'.enabledAccountCount = report.enabledAccountCount
        /\ report'.accountUsageAvailable = report.accountUsageAvailable
    <3> HIDE DEF u
    <3>1. report' = [report EXCEPT !.accountUsages = changed]
      BY <2>1 DEF u
    <3> QED
      BY <1>2, <3>1 DEF ReportFields
  <2>3. PICK U : usages \in Seq(U)
    BY <1>2 DEF AccountsFit
  <2>4. accounts \in DOMAIN usages
    BY <1>1, <1>2, <2>3
  <2>5. UsageFits(u)
    <3>1. UsageFits(usages[accounts]) /\ NoQuotaYet(usages[accounts])
      <4>1. accounts >= accounts
        BY <1>2
      <4> HIDE DEF usages
      <4>2. \A i \in DOMAIN usages : UsageFits(usages[i])
        BY <1>2 DEF AccountsFit, usages
      <4> QED
        BY <1>2, <2>4, <4>1, <4>2
    <3> QED
      BY <3>1, QuotaFits
  <2> HIDE DEF u, usages
  <2>6. /\ changed \in Seq(U \cup {u}) /\ Len(changed) = Len(usages) /\ DOMAIN changed = DOMAIN usages
        /\ \A i \in DOMAIN usages : i # accounts => changed[i] = usages[i]
        /\ changed[accounts] = u
    BY <2>3, <2>4
  <2> HIDE DEF changed
  <2>7. \A i \in DOMAIN changed : UsageFits(changed[i])
    BY <1>2, <2>5, <2>6 DEF AccountsFit, usages
  <2>8. \A i \in DOMAIN changed : i >= accounts' => NoQuotaYet(changed[i])
    <3>1. \A i \in DOMAIN usages : i >= accounts + 1 => i >= accounts /\ i # accounts
      BY <1>2, <2>3
    <3> QED
      BY <1>1, <1>2, <2>6, <3>1 DEF usages
  <2>9. AccountsFit(report')
    <3>1. usages # <<>>
      BY <2>4
    <3>2. report.accountUsageAvailable
      BY <1>2, <3>1 DEF AccountsFit, usages
    <3> QED
      BY <1>2, <2>2, <2>6, <2>7, <3>2 DEF AccountsFit, usages
  <2>10. accounts' \in Nat \ {0}
    BY <1>1, <1>2
  <2> QED
    BY <1>1, <1>2, <2>2, <2>8, <2>9, <2>10 DEF ReportFits
<1> QED
  BY <1>3, <1>4 DEF AddQuota

\* A version leaves the report fit, and is one that was answered.
LEMMA AddVersionFits == Inv /\ AddVersion => ReportFits'
<1> SUFFICES ASSUME Inv, AddVersion PROVE ReportFits'
  OBVIOUS
<1>1. at = 6 /\ at' = 7 /\ accounts' = accounts
  BY DEF AddVersion
<1>2. AccountsFit(report) /\ accounts \in Nat \ {0} /\ ReportFields \subseteq DOMAIN report
  BY <1>1 DEF Inv, ReportFits, ReportShowsHost
<1>3. PICK answer \in VersionAnswers :
         report' = [report EXCEPT !.version =
                       IF ValidateVersionInfo(VersionStatus(answer))
                       THEN VersionStatus(answer) ELSE NoVersion]
  BY DEF AddVersion
<1> DEFINE version == IF ValidateVersionInfo(VersionStatus(answer))
                      THEN VersionStatus(answer) ELSE NoVersion
<1>4. ValidateVersionInfo(version) /\ (version.available => version = VersionStatus(answer))
  <2>1. ValidateVersionInfo(NoVersion) /\ ~NoVersion.available
    BY DEF ValidateVersionInfo, NoVersion
  <2> QED
    BY <2>1
<1>5. report' = [report EXCEPT !.version = version]
  BY <1>3
<1> HIDE DEF version
<1>6. /\ report'.version = version /\ report'.accountUsages = report.accountUsages
      /\ report'.accountCount = report.accountCount
      /\ report'.enabledAccountCount = report.enabledAccountCount
      /\ report'.accountUsageAvailable = report.accountUsageAvailable
  BY <1>2, <1>5 DEF ReportFields
<1>7. AccountsFit(report')
  BY <1>2, <1>6 DEF AccountsFit
<1> QED
  BY <1>1, <1>2, <1>4, <1>6, <1>7 DEF ReportFits

\* The steps of the report preserve the invariant.
LEMMA InvReport == Inv /\ (BeginReport \/ AddQuota \/ AddVersion) => Inv'
<1> SUFFICES ASSUME Inv, BeginReport \/ AddQuota \/ AddVersion PROVE Inv'
  OBVIOUS
<1>1. /\ PositionsFit /\ KeysAreKnown /\ host \in HealthyHosts /\ HealthySoFar /\ ReportShowsHost
  BY DEF Inv
<1>2. /\ at' \in 6..7 /\ stage = "done" /\ stage' = stage /\ active' = active /\ host' = host
      /\ eligible' = eligible /\ eligible
      /\ at \in 5..7
  <2>1. CASE BeginReport
    BY <2>1 DEF BeginReport
  <2>2. CASE AddQuota
    BY <1>1, <2>2 DEF AddQuota, ReportShowsHost
  <2>3. CASE AddVersion
    BY <1>1, <2>3 DEF AddVersion, ReportShowsHost
  <2> QED
    BY <2>1, <2>2, <2>3
<1>3. ReportShowsHost'
  <2> SUFFICES /\ ReportFields \subseteq DOMAIN report'
               /\ report'.diskMountCount = host.diskMountCount
               /\ report'.memory = host.memory /\ report'.highestDisk = host.highestDisk
               /\ report'.totalTCP = host.totalTCP /\ report'.serviceTCP = host.serviceTCP
    BY <1>2 DEF ReportShowsHost
  <2>1. CASE BeginReport
    BY <2>1 DEF BeginReport, ReportFields
  <2>2. CASE AddQuota
    <3>1. at = 6
      BY <2>2 DEF AddQuota
    <3>2. CASE report' = report
      BY <1>1, <3>1, <3>2 DEF ReportShowsHost
    <3>3. CASE \E usages : report' = [report EXCEPT !.accountUsages = usages]
      <4>1. PICK usages : report' = [report EXCEPT !.accountUsages = usages]
        BY <3>3
      <4> QED
        BY <1>1, <3>1, <4>1 DEF ReportShowsHost, ReportFields
    <3> QED
      BY <2>2, <3>2, <3>3 DEF AddQuota
  <2>3. CASE AddVersion
    <3>1. at = 6
      BY <2>3 DEF AddVersion
    <3>2. PICK version : report' = [report EXCEPT !.version = version]
      BY <2>3 DEF AddVersion
    <3> QED
      BY <1>1, <3>1, <3>2 DEF ReportShowsHost, ReportFields
  <2> QED
    BY <2>1, <2>2, <2>3
<1>4. HealthySoFar'
  BY <1>1, <1>2 DEF HealthySoFar
<1>5. KeysAreKnown'
  BY <1>1, <1>2 DEF KeysAreKnown
<1>6. PositionsFit' /\ FactsAreCurrent' /\ ErrorsAreRecorded' /\ NothingUnhealthyIsSilent'
  <2>1. ~(at' \in 1..5) /\ stage' = "done"
    BY <1>2
  <2>2. PositionsFit'
    BY <1>2, <2>1 DEF PositionsFit
  <2> QED
    BY <2>1, <2>2 DEF FactsAreCurrent, ErrorsAreRecorded, NothingUnhealthyIsSilent
<1>7. (host \in HealthyHosts)'
  BY <1>1, <1>2
<1>8. ReportFits'
  BY BeginReportFits, AddQuotaFits, AddVersionFits
<1>9. RefusalsExplained'
  <2>1. CASE BeginReport
    <3>1. refused' = {}
      BY <2>1 DEF BeginReport
    <3> QED
      BY <3>1 DEF RefusalsExplained
  <2>2. CASE AddQuota \/ AddVersion
    <3>1. UNCHANGED <<refused, channel, active, batch>>
      BY <2>2 DEF AddQuota, AddVersion
    <3> QED
      BY <3>1 DEF Inv, RefusalsExplained
  <2> QED
    BY <2>1, <2>2
<1> QED
  BY <1>3, <1>4, <1>5, <1>6, <1>7, <1>8, <1>9 DEF Inv

\* A step that changes nothing preserves the invariant.
LEMMA InvStutter == Inv /\ UNCHANGED vars => Inv'
<1> SUFFICES ASSUME Inv, UNCHANGED vars PROVE Inv'
  OBVIOUS
<1> USE DEF Inv, vars
<1>1. PositionsFit' /\ KeysAreKnown' /\ (host \in HealthyHosts)' /\ ReportShowsHost'
  BY DEF PositionsFit, KeysAreKnown, ReportShowsHost
<1>2. FactsAreCurrent' /\ ErrorsAreRecorded'
  BY DEF FactsAreCurrent, ErrorsAreRecorded, Scope
<1>3. HealthySoFar'
  BY DEF HealthySoFar
<1>4. NothingUnhealthyIsSilent'
  BY DEF NothingUnhealthyIsSilent, Scope
<1>5. ReportFits' /\ RefusalsExplained'
  BY DEF ReportFits, RefusalsExplained
<1> QED
  BY <1>1, <1>2, <1>3, <1>4, <1>5

\* Every step preserves the invariant.
LEMMA InvNext == Inv /\ [Next]_vars => Inv'
<1> SUFFICES ASSUME Inv, [Next]_vars PROVE Inv'
  OBVIOUS
<1>1. CASE Measure
  BY <1>1, InvMeasure
<1>2. CASE Reconcile
  BY <1>2, InvReconcile
<1>3. CASE NoReport
  BY <1>3, InvEndCycle DEF NoReport
<1>4. CASE BeginReport \/ AddQuota \/ AddVersion
  BY <1>4, InvReport
<1>5. CASE SendHealth
  <2>1. stage = "done"
    BY <1>5 DEF SendHealth, Inv, ReportShowsHost
  <2> QED
    BY <1>5, <2>1, InvEndCycle DEF SendHealth
<1>6. CASE UNCHANGED vars
  BY <1>6, InvStutter
<1> QED
  BY <1>1, <1>2, <1>3, <1>4, <1>5, <1>6 DEF Next

\* The invariant holds in every reachable state.
LEMMA InvAlways == Spec => []Inv
BY InvInit, InvNext, PTL DEF Spec

-----------------------------------------------------------------------------
(* The theorems *)

\* Whatever was measured to be unhealthy is an active alert when its scope is
\* done, or the cycle reports an error.
THEOREM UnhealthyIsNeverSilent == Spec => []NothingUnhealthyIsSilent
<1>1. Inv => NothingUnhealthyIsSilent
  BY DEF Inv
<1> QED
  BY <1>1, InvAlways, PTL

\* While a report that says all is well is made, no alert of a server scope is
\* open and no number of the report reaches its threshold.
THEOREM ReportIsConsistent == Spec => []ReportAgreesWithAlerts
<1>1. Inv => ReportAgreesWithAlerts
  <2> SUFFICES ASSUME Inv, report # <<>>
               PROVE  /\ active \subseteq InScope("auth")
                      /\ report.memory < MemoryPercent /\ report.highestDisk < DiskPercent
                      /\ report.totalTCP < TotalTCP /\ report.serviceTCP < ServiceTCP
    BY DEF ReportAgreesWithAlerts
  <2>1. at \in 6..7 /\ eligible /\ stage = "done"
        /\ report.memory = host.memory /\ report.highestDisk = host.highestDisk
        /\ report.totalTCP = host.totalTCP /\ report.serviceTCP = host.serviceTCP
    BY DEF Inv, ReportShowsHost
  <2>2. host \in HealthyHosts
    BY DEF Inv
  <2>3. ASSUME NEW k \in active
        PROVE  k[1] = "auth"
    <3>1. PICK scope \in Scopes : \E object : k = <<scope, object>>
      BY DEF Inv, KeysAreKnown
    <3>2. \A i \in 1..4 : k[1] # Order[i]
      BY <2>1 DEF Inv, HealthySoFar
    <3> QED
      BY <3>1, <3>2 DEF Scopes, ServerScopes, Order
  <2> QED
    BY <2>1, <2>2, <2>3 DEF HealthyHosts, InScope
<1> QED
  BY <1>1, InvAlways, PTL

\* What a step of Reconcile raises and recovers, in terms of the facts.
LEMMA ActiveSteps ==
    ASSUME Inv, [Next]_vars, active' # active
    PROVE  /\ Reconcile /\ at \in 1..5
           /\ IsRight(Scope, facts, batch)
<1>1. Reconcile
  BY DEF Next, Measure, NoReport, BeginReport, AddQuota, AddVersion, SendHealth, EndCycle, vars
<1>2. at \in 1..5
  BY <1>1 DEF Inv, PositionsFit, Reconcile
<1> QED
  BY <1>1, <1>2, BatchIsRight DEF Inv

\* An alert recovers only after a check that saw everything in its scope and
\* found its object, if it is there, healthy and not to be mistaken for another.
THEOREM RecoveriesAreHonest == Spec => RecoveriesAreMeasured
<1> DEFINE Measured ==
       \A k \in active \ active' :
          /\ SawEverything(k[1], facts)
          /\ k[2] \notin UnhealthyObjects(k[1], facts)
          /\ k[1] = "auth" => /\ "" \notin UnhealthyObjects("auth", facts)
                              /\ Cardinality(Named(facts, k[2])) <= 1
<1>1. Inv /\ [Next]_vars => [Measured]_vars
  <2> SUFFICES ASSUME Inv, [Next]_vars, NEW k \in active \ active'
               PROVE  /\ SawEverything(k[1], facts)
                      /\ k[2] \notin UnhealthyObjects(k[1], facts)
                      /\ k[1] = "auth" => /\ "" \notin UnhealthyObjects("auth", facts)
                                          /\ Cardinality(Named(facts, k[2])) <= 1
    OBVIOUS
  <2>1. Reconcile /\ IsRight(Scope, facts, batch)
    BY ActiveSteps
  <2>2. batch.complete /\ k[1] = Scope /\ k \notin Keys(batch)
    BY <2>1, ReconcileStep
  <2>3. \E scope \in Scopes : \E object : k = <<scope, object>> /\ k # <<"auth", "">>
    BY DEF Inv, KeysAreKnown
  <2>4. k = <<Scope, k[2]>> /\ (Scope = "auth" => k[2] # "")
    <3>1. PICK scope \in Scopes : \E object : k = <<scope, object>> /\ k # <<"auth", "">>
      BY <2>3
    <3>2. PICK object : k = <<scope, object>> /\ k # <<"auth", "">>
      BY <3>1
    <3>3. k[1] = scope /\ k[2] = object /\ scope = Scope
      BY <2>2, <3>2
    <3>4. k = <<Scope, k[2]>>
      BY <3>2, <3>3
    <3>5. Scope = "auth" => k[2] # ""
      BY <3>2, <3>4
    <3> QED
      BY <3>4, <3>5
  <2>5. /\ SawEverything(Scope, facts) /\ batch.errors = 0
        /\ Scope = "auth" => /\ "" \notin UnhealthyObjects(Scope, facts)
                             /\ \A o : o # "" => Cardinality(Named(facts, o)) <= 1
    BY <2>1, <2>2 DEF IsRight
  <2>6. k[2] \notin UnhealthyObjects(Scope, facts)
    BY <2>1, <2>2, <2>4, <2>5 DEF IsRight
  <2> QED
    BY <2>2, <2>4, <2>5, <2>6
<1>2. Spec => [][Measured]_vars
  BY <1>1, InvAlways, PTL DEF Spec
<1> QED
  BY <1>2 DEF RecoveriesAreMeasured

\* An alert names one object that was measured to be unhealthy.
THEOREM AlertsAreHonest == Spec => AlertsNameOneObject
<1> DEFINE Named1 ==
       \A k \in active' \ active :
          /\ k[2] \in UnhealthyObjects(k[1], facts)
          /\ k[1] = "auth" => Cardinality(Named(facts, k[2])) = 1
<1>1. Inv /\ [Next]_vars => [Named1]_vars
  <2> SUFFICES ASSUME Inv, [Next]_vars, NEW k \in active' \ active
               PROVE  /\ k[2] \in UnhealthyObjects(k[1], facts)
                      /\ k[1] = "auth" => Cardinality(Named(facts, k[2])) = 1
    OBVIOUS
  <2>1. Reconcile /\ IsRight(Scope, facts, batch)
    BY ActiveSteps
  <2>2. k \in Keys(batch)
    BY <2>1, ReconcileStep
  <2>3. PICK o \in UnhealthyObjects(Scope, facts) :
           k = <<Scope, o>> /\ (Scope = "auth" => o # "" /\ Cardinality(Named(facts, o)) = 1)
    BY <2>1, <2>2 DEF IsRight
  <2> QED
    BY <2>3
<1>2. Spec => [][Named1]_vars
  BY <1>1, InvAlways, PTL DEF Spec
<1> QED
  BY <1>2 DEF AlertsNameOneObject

\* Nothing a server said is refused, but for objects with a control character in
\* their name and for negative counters.
THEOREM RefusalsAreExpected == Spec => []RefusalsAreKnown
<1>1. Inv => RefusalsAreKnown
  <2> SUFFICES ASSUME Inv, at = 7
               PROVE  \/ ValidForMail(report) /\ ValidForDingTalk(report)
                      \/ \E i \in DOMAIN report.accountUsages : Miscounted(report.accountUsages[i])
    BY DEF Inv, RefusalsExplained, RefusalsAreKnown, Miscounted
  <2>1. AccountsFit(report) /\ ValidateVersionInfo(report.version)
    BY DEF Inv, ReportFits
  <2>2. /\ report.memory = host.memory /\ report.highestDisk = host.highestDisk
        /\ report.diskMountCount = host.diskMountCount
        /\ report.totalTCP = host.totalTCP /\ report.serviceTCP = host.serviceTCP
        /\ host \in HealthyHosts
    BY DEF Inv, ReportShowsHost
  <2>3. /\ report.memory \in 0..100 /\ report.highestDisk \in 0..100
        /\ report.diskMountCount >= 0 /\ report.totalTCP >= 0 /\ report.serviceTCP >= 0
    BY <2>2 DEF HealthyHosts, Percentages
  <2>4. ASSUME \A i \in DOMAIN report.accountUsages : ~Miscounted(report.accountUsages[i])
        PROVE  ValidAccounts(report)
    <3>1. \A i \in DOMAIN report.accountUsages : ValidateAccountUsage(report.accountUsages[i])
      BY <2>1, <2>4 DEF AccountsFit, UsageFits
    <3> QED
      BY <2>1, <3>1 DEF AccountsFit, ValidAccounts
  <2> QED
    BY <2>1, <2>3, <2>4 DEF ValidForMail, ValidForDingTalk
<1> QED
  BY <1>1, InvAlways, PTL

\* An update is announced exactly if the standard says that there is one.
THEOREM UpdateAdviceIsRight == Spec => []UpdateAdviceFollowsSemVer
<1>1. Inv => UpdateAdviceFollowsSemVer
  <2> DEFINE current == report.version.current[1]
             latest == report.version.latest[1]
  <2> SUFFICES ASSUME Inv, at = 7, report.version.available,
                      IsSemVer(current), IsSemVer(latest), ~EqualFold(current, latest)
               PROVE  /\ report.version.comparable
                      /\ report.version.update <=> Precedes(current, latest)
    BY DEF UpdateAdviceFollowsSemVer
  <2>1. PICK answer \in VersionAnswers : report.version = VersionStatus(answer)
    BY DEF Inv, ReportFits
  <2>2. answer.readable /\ answer.current # <<>> /\ answer.latest # <<>>
    BY <2>1 DEF VersionStatus, NoVersion
  <2> DEFINE compared == compareReleaseVersions(answer.current[1], answer.latest[1])
  <2>3. /\ report.version.comparable = compared.comparable
        /\ report.version.update = (compared.comparable /\ compared.order < 0)
        /\ current = answer.current[1] /\ latest = answer.latest[1]
    BY <2>1, <2>2 DEF VersionStatus
  <2>4. current \in ReleaseVersions /\ latest \in ReleaseVersions
    <3>1. answer.current \in Seq(ReleaseVersions) /\ answer.latest \in Seq(ReleaseVersions)
      BY CycleAssumption
    <3> QED
      BY <2>2, <2>3, <3>1
  <2>5. compared = compareReleaseVersions(current, latest)
    BY <2>3
  <2> HIDE DEF current, latest, compared
  <2>6. compared.comparable /\ (compared.order < 0 <=> Precedes(current, latest))
    BY <2>4, <2>5, VersionsInOrder
  <2> QED
    BY <2>3, <2>6
<1> QED
  BY <1>1, InvAlways, PTL

=============================================================================
