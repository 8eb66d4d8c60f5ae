-------------------------- MODULE LogWriterProofs ---------------------------
(***************************************************************************)
(* Proofs about LogWriter for every set of limits and every number of      *)
(* bytes: what is kept is the end of the log, and within its limits.       *)
(*                                                                         *)
(* Two facts make it inductive.  Past the cleanup no backup has a number   *)
(* beyond max_files (NoStrays), so that the backup rotate drops is the     *)
(* oldest; and a rename of rotate never meets a file (ShiftIntoGap), so    *)
(* that it loses nothing.  A second invariant, Fits, bounds the files and  *)
(* their total: what exceeds the total is in the active file.              *)
(***************************************************************************)
EXTENDS LogWriter, FiniteSetTheorems, TLAPS

NoStrays ==
    /\ pc \notin {"down", "clean"} =>
          \A i \in Indices : i > limits.files => files[i] = {}
    /\ pc = "clean" =>
          \A i \in Indices : i > limits.files /\ (i < at \/ at = 0) => files[i] = {}

ShiftIntoGap ==
    pc = "shift" => at < limits.files /\ files[at + 1] = {}

IInv == TypeOK /\ NoStrays /\ ShiftIntoGap /\ NewestSurvive

-----------------------------------------------------------------------------

\* The bounds are natural numbers.
LEMMA BoundsType == Bytes \subseteq Nat \ {0} /\ Top \in Nat
BY LogWriterAssumption DEF Bytes

\* The limits are within the range of the files.
LEMMA LimitsType ==
    ASSUME NEW l \in Limits
    PROVE  l.size \in Nat \ {0} /\ l.files \in 1..Top /\ l.total \in Nat
BY LogWriterAssumption

\* A file that is part of the log so far has a size.
LEMMA FileSize ==
    ASSUME NEW n \in Nat, NEW f \in SUBSET (1..n)
    PROVE  Cardinality(f) \in 0..n
<1>1. IsFiniteSet(1..n) /\ Cardinality(1..n) = n
  BY FS_Interval
<1>2. IsFiniteSet(f) /\ Cardinality(f) <= n
  BY <1>1, FS_Subset
<1>3. Cardinality(f) \in Nat
  BY <1>2, FS_CardinalityType
<1>. QED
  BY <1>2, <1>3

\* Taking away the oldest file, or the oldest part of what is kept, keeps an end of
\* the log, and the order of the rest.
LEMMA DropOldestKeepsNewest ==
    ASSUME TypeOK, NewestSurvive, NEW i \in Indices,
           \A j \in Indices : j > i => files[j] = {},
           files' = [files EXCEPT ![i] = {}], UNCHANGED <<last, cut>>
    PROVE  NewestSurvive'
<1> USE BoundsType DEF TypeOK, Indices
<1>1. \A j \in Indices : files'[j] = IF j = i THEN {} ELSE files[j]
  OBVIOUS
<1>2. \A j, k \in Indices : j < k => Older(files'[k], files'[j])
  BY <1>1 DEF NewestSurvive, Older
<1>3. ASSUME NEW p \in Kept', NEW q \in 1..last', p < q
      PROVE  q \in Kept' \cup cut'
  <2>1. PICK j \in Indices : p \in files'[j]
    BY DEF Kept
  <2>2. j < i /\ p \in files[j]
    BY <1>1, <2>1
  <2>3. q \in Kept \cup cut
    BY <1>3, <2>2 DEF Kept, NewestSurvive
  <2>4. q \notin files[i]
    BY <1>3, <2>2 DEF NewestSurvive, Older
  <2>. QED
    BY <1>1, <2>3, <2>4 DEF Kept
<1>. QED
  BY <1>2, <1>3 DEF NewestSurvive

\* The initial state satisfies the inductive invariant.
LEMMA InitIInv == Init => IInv
<1> SUFFICES ASSUME Init PROVE IInv
  OBVIOUS
<1> USE BoundsType DEF Init, Indices
<1>1. TypeOK
  <2>1. files \in [Indices -> SUBSET (1..last)] /\ cut \in SUBSET (1..last)
    OBVIOUS
  <2>2. at \in Indices /\ last \in Nat /\ size \in 0..last /\ todo \in Nat
    OBVIOUS
  <2>3. ok \in BOOLEAN
    BY DEF Init
  <2>. QED
    BY <2>1, <2>2, <2>3 DEF TypeOK
<1>2. NoStrays /\ ShiftIntoGap
  BY DEF NoStrays, ShiftIntoGap
<1>3. NewestSurvive
  BY DEF NewestSurvive, Older, Kept
<1>. QED
  BY <1>1, <1>2, <1>3 DEF IInv

\* Steps that leave the files alone keep the end of the log, and all else if they
\* keep these facts about the control.
LEMMA QuietStep ==
    ASSUME IInv, UNCHANGED <<files, last, cut>>,
           limits' \in Limits,
           pc' \in {"down", "clean", "idle", "write", "drop", "enforce", "open"},
           at' \in Indices, caller' \in {"NewWriter", "rotate", "Write"},
           file' \in {"open", "closed", "nil"}, size' \in 0..last,
           todo' \in Nat, ok' \in BOOLEAN,
           pc' = "drop" => file' = "nil" /\ todo' > 0 /\ caller' = "rotate",
           pc' = "write" => file' # "nil" /\ todo' > 0 /\ caller' = "Write",
           pc' = "enforce" /\ caller' = "Write" => file' # "nil",
           pc' = "clean" => at' = 1 /\ caller' = "NewWriter",
           pc' \notin {"down", "clean"} =>
               pc \notin {"down", "clean"} /\ limits' = limits
    PROVE  IInv'
<1> USE BoundsType DEF IInv
<1>1. TypeOK'
  BY DEF TypeOK
<1>3. NoStrays'
  BY LimitsType DEF NoStrays, Indices
<1>4. ShiftIntoGap'
  BY DEF ShiftIntoGap
<1>5. NewestSurvive'
  BY DEF NewestSurvive, Older, Kept
<1>. QED
  BY <1>1, <1>3, <1>4, <1>5

\* Where a Write goes on, there is something left to write.
LEMMA Continues ==
    ASSUME Continue, ok \in BOOLEAN, todo \in Nat
    PROVE  /\ pc' \in {"idle", "write"} /\ (pc' = "write" => todo > 0)
           /\ ok' \in BOOLEAN
<1>1. CASE todo = 0
  BY <1>1 DEF Continue
<1>2. CASE todo # 0
  BY <1>2 DEF Continue
<1>. QED
  BY <1>1, <1>2

\* The actions that do so.
LEMMA QuietActions ==
    ASSUME IInv,
           \/ \E l \in Limits : Start(l)
           \/ \E n \in Bytes : Write(n)
           \/ \E good \in BOOLEAN : CloseForRotation(good)
           \/ Enforced \/ Open \/ Fail \/ Stop \/ UNCHANGED vars
    PROVE  IInv'
<1> USE BoundsType, QuietStep
<1>0. /\ TypeOK
      /\ size \in Nat /\ todo \in Nat /\ last \in Nat
      /\ 0 \in Indices /\ Top # 0
  BY LimitsType DEF IInv, TypeOK, Indices
<1>1. ASSUME NEW l \in Limits, Start(l) PROVE IInv'
  <2>1. 1 \in Indices
    BY LimitsType DEF Indices
  <2>. QED
    BY <1>0, <1>1, <2>1 DEF Start, TypeOK
<1>2. ASSUME NEW n \in Bytes, Write(n) PROVE IInv'
  BY <1>0, <1>2 DEF Write, TypeOK, Bytes
<1>3. ASSUME NEW good \in BOOLEAN, CloseForRotation(good) PROVE IInv'
  <2>1. /\ pc = "write" /\ todo > 0 /\ caller = "Write"
        /\ UNCHANGED <<files, last, cut, limits, size, at>>
    BY <1>0, <1>3 DEF CloseForRotation, Error, TypeOK
  <2>2. CASE good
    BY <1>0, <1>3, <2>1, <2>2 DEF CloseForRotation, TypeOK
  <2>3. CASE ~good
    <3>1. /\ pc' = "idle" /\ file' = "closed" /\ todo' = 0 /\ ok' = FALSE
          /\ UNCHANGED caller
      BY <1>3, <2>1, <2>3 DEF CloseForRotation, Error
    <3>2. ok' \in BOOLEAN
      BY <3>1
    <3>. QED
      BY <1>0, <2>1, <3>1, <3>2 DEF TypeOK
  <2>. QED
    BY <2>2, <2>3
<1>4. CASE Enforced
  <2>1. /\ pc = "enforce" /\ size' \in 0..last
        /\ UNCHANGED <<files, last, cut, limits, at, caller, file, todo>>
    BY <1>0, <1>4 DEF Enforced, TypeOK
  <2>2. CASE caller # "Write"
    BY <1>0, <1>4, <2>1, <2>2 DEF Enforced, TypeOK
  <2>3. CASE caller = "Write"
    <3>1. Continue
      BY <1>4, <2>3 DEF Enforced
    <3>. QED
      BY <1>0, <2>1, <2>3, <3>1, Continues DEF TypeOK
  <2>. QED
    BY <2>2, <2>3
<1>5. CASE Open
  <2>1. size' \in 0..last
    <3>1. files[0] \in SUBSET (1..last)
      BY <1>0 DEF TypeOK
    <3>. QED
      BY <1>0, <1>5, <3>1, FileSize DEF Open
  <2>2. /\ pc = "open" /\ file' = "open" /\ caller' = "Write"
        /\ UNCHANGED <<files, last, cut, limits, at, todo>>
    BY <1>5 DEF Open
  <2>3. pc' \in {"idle", "write"} /\ (pc' = "write" => todo > 0) /\ ok' \in BOOLEAN
    BY <1>0, <1>5, Continues DEF Open, TypeOK
  <2>. QED
    BY <1>0, <2>1, <2>2, <2>3 DEF TypeOK
<1>6. CASE Fail
  <2>1. /\ pc' \in {"down", "idle"} /\ todo' = 0 /\ ok' = FALSE
        /\ pc' = "idle" => pc \notin {"down", "clean"}
        /\ UNCHANGED <<files, limits, at, caller, file, size, last, cut>>
    BY <1>0, <1>6 DEF Fail, Error, TypeOK
  <2>. QED
    BY <1>0, <2>1 DEF TypeOK
<1>7. CASE Stop
  <2>1. /\ pc' = "down" /\ file' = "nil" /\ size' = 0 /\ todo' = 0 /\ ok' = FALSE
        /\ ok' \in BOOLEAN
        /\ UNCHANGED <<files, limits, at, caller, last, cut>>
    BY <1>7 DEF Stop
  <2>. QED
    BY <1>0, <2>1 DEF TypeOK
<1>8. CASE UNCHANGED vars
  BY <1>8 DEF vars, callVars, IInv, TypeOK, NoStrays, ShiftIntoGap,
              NewestSurvive, Older, Kept
<1>. QED
  BY <1>1, <1>2, <1>3, <1>4, <1>5, <1>6, <1>7, <1>8

\* The cleanup of a start: what it takes away is in cut.
LEMMA CleanStep == ASSUME IInv, Clean PROVE IInv'
<1> USE BoundsType DEF IInv, Clean, Indices
<1>1. /\ Cleaned(at) \subseteq files[at]
      /\ at > limits.files => Cleaned(at) = {}
  BY DEF Cleaned, Trimmed
<1>2. \A i \in Indices : files'[i] = IF i = at THEN Cleaned(at) ELSE files[i]
  BY DEF TypeOK
<1>3. TypeOK'
  <2>1. files' \in [Indices -> SUBSET (1..last)] /\ cut' \in SUBSET (1..last)
    BY <1>1 DEF TypeOK
  <2>. QED
    BY <2>1 DEF TypeOK
<1>5. NoStrays' /\ ShiftIntoGap'
  BY <1>1, <1>2, LimitsType DEF NoStrays, ShiftIntoGap, TypeOK
<1>6. Kept' \cup cut' = Kept \cup cut /\ Kept' \subseteq Kept
  BY <1>1, <1>2 DEF Kept, TypeOK
<1>7. NewestSurvive'
  <2>1. \A i \in Indices : files'[i] \subseteq files[i]
    BY <1>1, <1>2
  <2>2. \A i, j \in Indices : i < j => Older(files'[j], files'[i])
    BY <2>1 DEF NewestSurvive, Older
  <2>. QED
    BY <1>6, <2>2 DEF NewestSurvive
<1>. QED
  BY <1>3, <1>5, <1>7

\* A chunk goes to the end of the newest file.
LEMMA WriteStep ==
    ASSUME IInv, NEW n \in Bytes \cup {0}, WriteChunk(n) PROVE IInv'
<1> USE BoundsType DEF IInv, WriteChunk, Indices
<1> DEFINE new == (last + 1)..(last + n)
<1>1. /\ n \in Nat /\ n <= todo
      /\ last' = last + n /\ size' = size + n
      /\ UNCHANGED <<limits, at, caller, file, cut>>
  BY LimitsType DEF TypeOK, Capacity, Error
<1>2. /\ pc' \in {"enforce", "idle", "down"} /\ todo' \in Nat /\ ok' \in BOOLEAN
      /\ pc = "write" /\ file # "nil"
  <2>1. \/ pc' = "enforce" /\ todo' = todo - n /\ ok' = ok
        \/ pc' \in {"idle", "down"} /\ todo' = 0 /\ ok' = FALSE
    BY DEF Error
  <2>2. todo' \in Nat
    BY <1>1, <2>1 DEF TypeOK
  <2>3. ok' \in BOOLEAN
    BY <2>1 DEF TypeOK
  <2>. QED
    BY <2>1, <2>2, <2>3 DEF TypeOK
<1>3. \A i \in Indices : files'[i] = IF i = 0 THEN files[0] \cup new ELSE files[i]
  BY DEF TypeOK
<1>a. last \in Nat /\ last' \in Nat /\ last <= last'
  BY <1>1 DEF TypeOK
<1>4. TypeOK'
  <2>1. files' \in [Indices -> SUBSET (1..last')]
    BY <1>1, <1>a DEF TypeOK
  <2>2. size' \in 0..last'
    BY <1>1 DEF TypeOK
  <2>3. cut' \in SUBSET (1..last')
    BY <1>1, <1>a DEF TypeOK
  <2>. QED
    BY <1>1, <1>2, <1>a, <2>1, <2>2, <2>3 DEF TypeOK
<1>6. NoStrays' /\ ShiftIntoGap'
  BY <1>1, <1>2, <1>3, LimitsType DEF NoStrays, ShiftIntoGap, TypeOK
<1>7. NewestSurvive'
  <2>1. Kept' = Kept \cup new
    BY <1>3 DEF Kept
  <2>2. Kept \subseteq 1..last
    BY DEF Kept, TypeOK
  <2>3. \A i, j \in Indices : i < j => Older(files'[j], files'[i])
    BY <1>1, <1>3 DEF NewestSurvive, Older, TypeOK
  <2>4. ASSUME NEW p \in Kept', NEW q \in 1..last', p < q
        PROVE  q \in Kept' \cup cut'
    <3>1. CASE q \in new
      BY <2>1, <3>1
    <3>2. CASE q \notin new
      BY <1>1, <2>1, <2>2, <2>4, <3>2 DEF NewestSurvive, TypeOK
    <3>. QED
      BY <3>1, <3>2
  <2>. QED
    BY <2>3, <2>4 DEF NewestSurvive
<1>. QED
  BY <1>4, <1>6, <1>7

\* The first step of a rotation drops the oldest backup there can be.
LEMMA DropStep == ASSUME IInv, DropOldest PROVE IInv'
<1> USE BoundsType, LimitsType DEF IInv, DropOldest
<1>1. limits.files \in Indices /\ \A j \in Indices : j > limits.files => files[j] = {}
  BY DEF TypeOK, NoStrays, Indices
<1>2. \A j \in Indices : files'[j] = IF j = limits.files THEN {} ELSE files[j]
  BY <1>1 DEF TypeOK
<1>3. TypeOK'
  BY DEF TypeOK, Indices
<1>4. NoStrays' /\ ShiftIntoGap'
  BY <1>1, <1>2 DEF NoStrays, ShiftIntoGap, TypeOK, Indices
<1>5. NewestSurvive'
  BY <1>1, DropOldestKeepsNewest
<1>. QED
  BY <1>3, <1>4, <1>5

\* A file that moves into a gap above it keeps the order of the files.
LEMMA MoveUpKeepsOrder ==
    ASSUME NEW top \in Nat, NEW a \in Nat, a + 1 <= top, NEW f, NEW g,
           \A i, j \in 0..top : i < j => Older(f[j], f[i]),
           g[a + 1] = f[a], g[a] = {},
           \A k \in 0..top : k # a /\ k # a + 1 => g[k] = f[k],
           NEW i \in 0..top, NEW j \in 0..top, i < j
    PROVE  Older(g[j], g[i])
<1>1. CASE i = a \/ j = a
  BY <1>1 DEF Older
<1>2. CASE i = a + 1
  <2>1. g[j] = f[j] /\ g[i] = f[a] /\ a \in 0..top /\ a < j
    BY <1>2
  <2>. QED
    BY <2>1
<1>3. CASE j = a + 1 /\ i # a
  <2>1. g[i] = f[i] /\ g[j] = f[a] /\ a \in 0..top /\ i < a
    BY <1>3
  <2>. QED
    BY <2>1
<1>4. CASE i \notin {a, a + 1} /\ j \notin {a, a + 1}
  <2>1. g[i] = f[i] /\ g[j] = f[j]
    BY <1>4
  <2>. QED
    BY <2>1
<1>. QED
  BY <1>1, <1>2, <1>3, <1>4

\* A rename moves a file into the gap above it.
LEMMA ShiftStep == ASSUME IInv, Shift PROVE IInv'
<1> USE BoundsType, LimitsType DEF IInv, Shift
<1>1. at \in Indices /\ at + 1 \in Indices /\ at < limits.files /\ files[at + 1] = {}
  BY DEF TypeOK, ShiftIntoGap, Indices
<1>2. \A j \in Indices : files'[j] = IF j = at + 1 THEN files[at]
                                     ELSE IF j = at THEN {} ELSE files[j]
  BY <1>1 DEF TypeOK, Indices
<1>3. TypeOK'
  <2>1. files' \in [Indices -> SUBSET (1..last)]
    BY <1>1 DEF TypeOK
  <2>. QED
    BY <2>1 DEF TypeOK, Indices
<1>4. NoStrays'
  <2>1. \A i \in Indices : i > limits.files => files[i] = {}
    BY DEF NoStrays
  <2>2. limits.files \in Nat /\ limits' = limits /\ pc' # "clean" /\ at \in Nat
    BY <1>1 DEF TypeOK, Indices
  <2>3. \A i \in Indices : i > limits.files => files'[i] = {}
    BY <1>1, <1>2, <2>1, <2>2 DEF Indices
  <2>. QED
    BY <2>2, <2>3 DEF NoStrays
<1>7. ShiftIntoGap'
  BY <1>1, <1>2 DEF ShiftIntoGap, TypeOK, Indices
<1>5. Kept' = Kept
  BY <1>1, <1>2 DEF Kept, Indices, TypeOK
<1>6. /\ files'[at + 1] = files[at] /\ files'[at] = {}
      /\ \A k \in Indices : k # at /\ k # at + 1 => files'[k] = files[k]
  BY <1>1, <1>2 DEF Indices
<1>8. \A i, j \in Indices : i < j => Older(files'[j], files'[i])
  <2>1. Top \in Nat /\ at \in Nat /\ at + 1 <= Top /\ Indices = 0..Top
    BY <1>1 DEF Indices
  <2>2. \A i, j \in Indices : i < j => Older(files[j], files[i])
    BY DEF NewestSurvive
  <2>3. ASSUME NEW i \in Indices, NEW j \in Indices, i < j
        PROVE  Older(files'[j], files'[i])
    <3> HIDE DEF IInv, Shift
    <3>. QED
      BY <1>6, <2>1, <2>2, <2>3, MoveUpKeepsOrder
  <2>. QED
    BY <2>3
<1>. QED
  BY <1>3, <1>4, <1>5, <1>7, <1>8 DEF NewestSurvive

\* enforceTotal removes the oldest backup there is.
LEMMA RemoveStep == ASSUME IInv, Remove PROVE IInv'
<1> USE BoundsType DEF IInv, Remove, callVars
<1>1. PICK i \in 1..Top : Victim(i) /\ files' = [files EXCEPT ![i] = {}]
  OBVIOUS
<1>2. i \in Indices /\ \A j \in Indices : j > i => files[j] = {}
  BY <1>1 DEF Victim, Indices
<1>3. \A j \in Indices : files'[j] = IF j = i THEN {} ELSE files[j]
  BY <1>1, <1>2 DEF TypeOK
<1>4. TypeOK'
  BY <1>1 DEF TypeOK
<1>5. NoStrays' /\ ShiftIntoGap'
  BY <1>3 DEF NoStrays, ShiftIntoGap
<1>6. NewestSurvive'
  BY <1>1, <1>2, DropOldestKeepsNewest
<1>. QED
  BY <1>4, <1>5, <1>6

\* The inductive invariant: types, the numbering of bytes, no file beyond max_files,
\* no rename over a file, and the end of the log kept in order.
THEOREM Inductive == Spec => []IInv
<1>1. ASSUME IInv, [Next]_vars PROVE IInv'
  BY <1>1, QuietActions, CleanStep, WriteStep, DropStep, ShiftStep, RemoveStep DEF Next
<1>. QED
  BY <1>1, InitIInv, PTL DEF Spec

\* For every set of limits, what is kept of the log is its end, in the order of the
\* files' numbers, whatever fails and whenever the process ends.
THEOREM EndOfLogIsKept == Spec => []NewestSurvive
<1>1. IInv => NewestSurvive
  BY DEF IInv
<1>. QED
  BY <1>1, Inductive, PTL

\* Type correctness of LogWriter.
THEOREM TypeCorrect == Spec => []TypeOK
<1>1. IInv => TypeOK
  BY DEF IInv
<1>. QED
  BY <1>1, Inductive, PTL

-----------------------------------------------------------------------------
(* The limits *)

\* Each file that a start has been through, and later each file, is short enough.
SizesFit ==
    /\ pc \notin {"down", "clean"} => \A i \in Indices : Cardinality(files[i]) <= limits.size
    /\ pc = "clean" =>
          \A i \in Indices : (at = 0 /\ i # 0) \/ i \in 1..at - 1 =>
              Cardinality(files[i]) <= limits.size

\* While there is a file, size covers it, and what the log has beyond its total
\* was written to it.
SizeCovers ==
    /\ pc = "down" \/ caller = "NewWriter" => file = "nil"
    /\ pc \notin {"down", "clean"} /\ file # "nil" =>
          /\ Cardinality(files[0]) <= size /\ size <= limits.size
          /\ Total <= limits.total + size

TotalFits ==
    /\ Managed => Total <= limits.total + limits.size
    /\ pc = "open" => Total <= limits.total
    /\ pc = "idle" /\ ok => Total <= limits.total

Fits == SizesFit /\ SizeCovers /\ TotalFits

\* os.Truncate leaves no more bytes than it was asked to: the first ones number
\* themselves.
LEMMA TrimmedSize ==
    ASSUME NEW n \in Nat, NEW f \in SUBSET (1..n), NEW m \in Nat
    PROVE  Cardinality(Trimmed(f, m)) <= m
<1> DEFINE T == Trimmed(f, m)
           upTo(b) == {a \in f : a <= b}
           rank == [b \in T |-> Cardinality(upTo(b))]
<1>1. \A b \in T : IsFiniteSet(upTo(b)) /\ Cardinality(upTo(b)) \in Nat /\ Cardinality(upTo(b)) <= m
  <2> TAKE b \in T
  <2>1. upTo(b) \in SUBSET (1..n)
    OBVIOUS
  <2>2. IsFiniteSet(1..n)
    BY FS_Interval
  <2>3. IsFiniteSet(upTo(b))
    BY <2>1, <2>2, FS_Subset
  <2>4. Cardinality(upTo(b)) <= m
    BY DEF Trimmed
  <2> QED
    BY <2>3, <2>4, FS_CardinalityType
<1>2. \A b \in T : Cardinality(upTo(b)) # 0
  <2> TAKE b \in T
  <2>1. b \in upTo(b)
    BY DEF Trimmed
  <2> QED
    BY <1>1, <2>1, FS_EmptySet
<1>3. ASSUME NEW b \in T, NEW c \in T, b < c
      PROVE  Cardinality(upTo(b)) # Cardinality(upTo(c))
  <2>1. b \in f /\ c \in f /\ b \in Nat /\ c \in Nat /\ \A a \in f : a \in Nat
    BY DEF Trimmed
  <2>2. upTo(b) \in SUBSET upTo(c) /\ c \in upTo(c) /\ c \notin upTo(b)
    <3>1. \A a \in f : a <= b => a <= c
      BY <1>3, <2>1
    <3>2. c <= c /\ ~(c <= b)
      BY <1>3, <2>1
    <3> QED
      BY <2>1, <3>1, <3>2
  <2>3. IsFiniteSet(upTo(c))
    BY <1>1
  <2> HIDE DEF upTo
  <2>4. Cardinality(upTo(c)) = Cardinality(upTo(b)) => upTo(c) = upTo(b)
    BY <2>2, <2>3, FS_Subset
  <2> QED
    BY <2>2, <2>4
<1>4. rank \in Injection(T, 1..m)
  <2>1. rank \in [T -> 1..m]
    <3> SUFFICES ASSUME NEW b \in T PROVE Cardinality(upTo(b)) \in 1..m
      OBVIOUS
    <3> HIDE DEF T, upTo
    <3> QED
      BY <1>1, <1>2
  <2>2. ASSUME NEW b \in T, NEW c \in T, rank[b] = rank[c] PROVE b = c
    <3>1. b \in Nat /\ c \in Nat
      BY DEF Trimmed
    <3>2. rank[b] = Cardinality(upTo(b)) /\ rank[c] = Cardinality(upTo(c))
      OBVIOUS
    <3> HIDE DEF T, upTo, rank
    <3> QED
      <4>1. b < c \/ c < b \/ b = c
        BY <3>1
      <4>2. ~(b < c)
        BY <1>3, <2>2, <3>2
      <4>3. ~(c < b)
        BY <1>3, <2>2, <3>2
      <4> QED
        BY <4>1, <4>2, <4>3
  <2> HIDE DEF rank, T
  <2> QED
    BY <2>1, <2>2 DEF Injection, IsInjective
<1> HIDE DEF rank, T
<1>5. IsFiniteSet(1..m) /\ Cardinality(1..m) = m
  BY FS_Interval
<1>6. Cardinality(T) <= m
  BY <1>4, <1>5, FS_Injection
<1> QED
  BY <1>6 DEF T

\* The log and each of its files have a size.
LEMMA SizesType ==
    ASSUME TypeOK
    PROVE  /\ \A i \in Indices : IsFiniteSet(files[i]) /\ Cardinality(files[i]) \in Nat
           /\ Kept \in SUBSET (1..last) /\ IsFiniteSet(Kept) /\ Total \in Nat
<1>1. last \in Nat /\ IsFiniteSet(1..last)
  BY FS_Interval DEF TypeOK
<1>2. \A i \in Indices : files[i] \in SUBSET (1..last)
  BY DEF TypeOK
<1>3. Kept \in SUBSET (1..last)
  BY <1>2 DEF Kept
<1> QED
  BY <1>1, <1>2, <1>3, FS_Subset, FS_CardinalityType DEF Total

\* What leaves of the log no more than there was makes it no longer.
LEMMA ShorterLog ==
    ASSUME TypeOK, Kept' \subseteq Kept
    PROVE  Total' \in Nat /\ Total' <= Total
<1>1. IsFiniteSet(Kept) /\ Kept' \in SUBSET Kept
  BY SizesType
<1>2. Cardinality(Kept') <= Cardinality(Kept) /\ IsFiniteSet(Kept')
  BY <1>1, FS_Subset
<1> QED
  BY <1>2, FS_CardinalityType DEF Total

\* The limits are kept at the start.
LEMMA InitFits == Init => Fits
BY DEF Init, Fits, SizesFit, SizeCovers, TotalFits, Managed

\* Steps that leave the files alone.
LEMMA QuietFits ==
    ASSUME IInv, Fits,
           \/ \E l \in Limits : Start(l)
           \/ \E n \in Bytes : Write(n)
           \/ \E good \in BOOLEAN : CloseForRotation(good)
           \/ Enforced \/ Open \/ Fail \/ Stop \/ UNCHANGED vars
    PROVE  Fits'
<1> USE DEF IInv
<1>1. /\ TypeOK /\ Total \in Nat /\ limits.size \in Nat /\ limits.total \in Nat
      /\ size \in Nat /\ \A i \in Indices : Cardinality(files[i]) \in Nat
      /\ 0 \in Indices
  <2>1. TypeOK /\ limits \in Limits /\ last \in Nat
    BY DEF TypeOK
  <2> QED
    BY <2>1, SizesType, LimitsType, BoundsType DEF TypeOK, Indices
<1>2. SizesFit /\ SizeCovers /\ TotalFits
  BY DEF Fits
<1>3. files' = files => Total' = Total
  BY DEF Total, Kept
<1>4. ASSUME NEW l \in Limits, Start(l) PROVE Fits'
  <2>1. /\ pc = "down" /\ pc' = "clean" /\ at' = 1 /\ caller' = "NewWriter"
        /\ files' = files /\ file' = file
    BY <1>4 DEF Start
  <2> QED
    BY <1>2, <2>1 DEF Fits, SizesFit, SizeCovers, TotalFits, Managed
<1>5. ASSUME NEW n \in Bytes, Write(n) PROVE Fits'
  <2>1. /\ pc = "idle" /\ file # "nil" /\ pc' = "write" /\ caller' = "Write"
        /\ files' = files /\ file' = file /\ size' = size /\ limits' = limits
    BY <1>5 DEF Write
  <2>2. Total <= limits.total + limits.size
    BY <1>1, <1>2, <2>1 DEF SizeCovers
  <2> QED
    BY <1>2, <1>3, <2>1, <2>2 DEF Fits, SizesFit, SizeCovers, TotalFits
<1>6. ASSUME NEW good \in BOOLEAN, CloseForRotation(good) PROVE Fits'
  <2>1. /\ pc = "write" /\ files' = files /\ size' = size /\ limits' = limits
        /\ caller = "Write" /\ caller' # "NewWriter" /\ file # "nil"
    BY <1>1, <1>6 DEF CloseForRotation, Error, TypeOK
  <2>2. \/ pc' = "drop" /\ file' = "nil"
        \/ pc' = "idle" /\ ok' = FALSE /\ file' = "closed"
    BY <1>6, <2>1 DEF CloseForRotation, Error
  <2> QED
    BY <1>2, <1>3, <2>1, <2>2 DEF Fits, SizesFit, SizeCovers, TotalFits, Managed
<1>7. CASE Enforced
  <2>1. /\ pc = "enforce" /\ files' = files /\ size' = size /\ limits' = limits
        /\ caller' = caller /\ file' = file /\ Total <= limits.total
    BY <1>1, <1>7 DEF Enforced, TooMuch
  <2>2. /\ pc' \in {"open", "write", "idle"}
        /\ caller = "NewWriter" => pc' = "open"
    BY <1>7 DEF Enforced, Continue
  <2> QED
    BY <1>1, <1>2, <1>3, <2>1, <2>2 DEF Fits, SizesFit, SizeCovers, TotalFits, Managed
<1>8. CASE Open
  <2>1. /\ pc = "open" /\ files' = files /\ size' = Cardinality(files[0]) /\ limits' = limits
        /\ caller' = "Write" /\ file' = "open" /\ pc' \in {"write", "idle"}
    BY <1>8 DEF Open, Continue
  <2>2. Total <= limits.total /\ Cardinality(files[0]) <= limits.size
    BY <1>1, <1>2, <2>1 DEF TotalFits, SizesFit
  <2>3. Total <= limits.total + size' /\ Total <= limits.total + limits.size
    BY <1>1, <2>1, <2>2
  <2>4. SizesFit' /\ TotalFits'
    BY <1>2, <1>3, <2>1, <2>2, <2>3 DEF SizesFit, TotalFits
  <2>5. SizeCovers'
    BY <1>1, <1>3, <2>1, <2>2, <2>3 DEF SizeCovers
  <2> QED
    BY <2>4, <2>5 DEF Fits
<1>9. CASE Fail
  <2>1. /\ pc \in {"clean", "drop", "shift", "enforce", "open"}
        /\ files' = files /\ size' = size /\ limits' = limits
        /\ caller' = caller /\ file' = file /\ ok' = FALSE
        /\ pc' = IF caller = "NewWriter" THEN "down" ELSE "idle"
    BY <1>9 DEF Fail, Error
  <2>2. pc = "clean" => caller = "NewWriter"
    BY <1>1 DEF TypeOK
  <2> QED
    BY <1>2, <1>3, <2>1, <2>2 DEF Fits, SizesFit, SizeCovers, TotalFits, Managed
<1>10. CASE Stop
  BY <1>10 DEF Stop, Fits, SizesFit, SizeCovers, TotalFits, Managed
<1>11. CASE UNCHANGED vars
  <2>1. /\ files' = files /\ limits' = limits /\ pc' = pc /\ at' = at /\ caller' = caller
        /\ file' = file /\ size' = size /\ ok' = ok
    BY <1>11 DEF vars, callVars
  <2> QED
    BY <1>2, <1>3, <2>1 DEF Fits, SizesFit, SizeCovers, TotalFits, Managed
<1> QED
  BY <1>4, <1>5, <1>6, <1>7, <1>8, <1>9, <1>10, <1>11

\* Steps that only take bytes away, or move files, under the same limits.
LEMMA ShrinkFits ==
    ASSUME IInv, Fits, DropOldest \/ Shift \/ Remove
    PROVE  Fits'
<1> USE DEF IInv
<1>1. /\ TypeOK /\ Total \in Nat /\ limits.size \in Nat /\ limits.total \in Nat /\ size \in Nat
      /\ \A i \in Indices : Cardinality(files[i]) \in Nat
      /\ 0 \in Indices /\ Top \in Nat
  <2>1. TypeOK /\ limits \in Limits /\ last \in Nat
    BY DEF TypeOK
  <2> QED
    BY <2>1, SizesType, LimitsType, BoundsType DEF TypeOK, Indices
<1>2. SizesFit /\ SizeCovers /\ TotalFits
  BY DEF Fits
<1>3. /\ pc \in {"drop", "shift", "enforce"} /\ pc' \in {"shift", "enforce"}
      /\ limits' = limits /\ caller' = caller /\ file' = file /\ size' = size
      /\ pc # "enforce" => file = "nil"
  BY <1>1 DEF DropOldest, Shift, Remove, callVars, TypeOK
<1>4. /\ \A i \in Indices : files'[i] = {} \/ \E j \in Indices : files'[i] = files[j]
      /\ pc = "enforce" => files'[0] = files[0]
  <2>1. CASE DropOldest
    <3>1. \A i \in Indices : files'[i] = {} \/ files'[i] = files[i]
      BY <1>1, <2>1 DEF DropOldest, TypeOK
    <3> QED
      BY <2>1, <3>1 DEF DropOldest
  <2>2. CASE Shift
    <3>1. at \in Indices
      BY <1>1 DEF TypeOK
    <3>2. \A i \in Indices : files'[i] = {} \/ files'[i] = files[i] \/ files'[i] = files[at]
      BY <1>1, <2>2 DEF Shift, TypeOK
    <3> QED
      BY <2>2, <3>1, <3>2 DEF Shift
  <2>3. CASE Remove
    <3>1. PICK i \in 1..Top : files' = [files EXCEPT ![i] = {}]
      BY <2>3 DEF Remove
    <3>2. i # 0
      OBVIOUS
    <3>3. files'[0] = files[0] /\ \A j \in Indices : files'[j] = {} \/ files'[j] = files[j]
      BY <1>1, <3>1, <3>2 DEF TypeOK
    <3> QED
      BY <3>3
  <2> QED
    BY <2>1, <2>2, <2>3
<1>5. Total' \in Nat /\ Total' <= Total
  <2>1. Kept' \subseteq Kept
    BY <1>4 DEF Kept
  <2> QED
    BY <1>1, <2>1, ShorterLog
<1>6. SizesFit'
  <2> SUFFICES ASSUME NEW i \in Indices PROVE Cardinality(files'[i]) <= limits.size
    BY <1>3 DEF SizesFit
  <2>1. CASE files'[i] = {}
    BY <1>1, <2>1, FS_EmptySet
  <2>2. CASE \E j \in Indices : files'[i] = files[j]
    BY <1>2, <1>3, <2>2 DEF SizesFit
  <2> QED
    BY <1>4, <2>1, <2>2
<1>7. SizeCovers'
  BY <1>1, <1>2, <1>3, <1>4, <1>5 DEF SizeCovers
<1>8. TotalFits'
  BY <1>1, <1>2, <1>3, <1>5 DEF TotalFits, Managed
<1> QED
  BY <1>6, <1>7, <1>8 DEF Fits

\* A step of the cleanup.
LEMMA CleanFits ==
    ASSUME IInv, Fits, Clean
    PROVE  Fits'
<1>1. TypeOK /\ Fits /\ limits \in Limits /\ last \in Nat /\ at \in Indices
  BY DEF IInv, TypeOK
<1>2. /\ pc = "clean" /\ files' = [files EXCEPT ![at] = Cleaned(at)] /\ limits' = limits
      /\ at' = (IF at = Top THEN 0 ELSE at + 1)
      /\ pc' = (IF at = 0 THEN "enforce" ELSE "clean")
      /\ caller' = caller /\ file' = file
  BY DEF Clean
<1>3. caller = "NewWriter" /\ file = "nil"
  BY <1>1, <1>2 DEF TypeOK, Fits, SizeCovers
<1>4. Cardinality(Cleaned(at)) <= limits.size
  <2>1. files[at] \in SUBSET (1..last) /\ limits.size \in Nat
    BY <1>1, LimitsType DEF TypeOK
  <2> QED
    <3>1. Cardinality(Trimmed(files[at], limits.size)) <= limits.size
      BY <1>1, <2>1, TrimmedSize
    <3>2. Cardinality({}) <= limits.size
      BY <2>1, FS_EmptySet
    <3> QED
      BY <3>1, <3>2 DEF Cleaned
<1>5. \A i \in Indices : files'[i] = IF i = at THEN Cleaned(at) ELSE files[i]
  BY <1>1, <1>2 DEF TypeOK
<1>6. SizesFit'
  <2>1. Top \in Nat /\ at \in 0..Top
    BY <1>1, BoundsType DEF Indices
  <2>2. \A i \in Indices : (at = 0 /\ i # 0) \/ i \in 1..at - 1 => Cardinality(files[i]) <= limits.size
    BY <1>1, <1>2 DEF Fits, SizesFit
  <2>3. \A i \in Indices : i = at \/ (at = 0 /\ i # 0) \/ i \in 1..at - 1 =>
            Cardinality(files'[i]) <= limits.size
    BY <1>4, <1>5, <2>2
  <2>4. CASE at = 0
    <3>1. \A i \in Indices : Cardinality(files'[i]) <= limits.size
      BY <2>3, <2>4
    <3> QED
      BY <1>2, <2>4, <3>1 DEF SizesFit
  <2>5. CASE at # 0
    <3>1. pc' = "clean"
      BY <1>2, <2>5
    <3>2. \A i \in Indices : (at' = 0 /\ i # 0) \/ i \in 1..at' - 1 => i \in 1..at
      BY <1>2, <2>1, <2>5 DEF Indices
    <3>3. \A i \in 1..at : i \in Indices /\ (i = at \/ i \in 1..at - 1)
      BY <2>1 DEF Indices
    <3> QED
      BY <1>2, <2>3, <3>1, <3>2, <3>3 DEF SizesFit
  <2> QED
    BY <2>4, <2>5
<1>7. SizeCovers' /\ TotalFits'
  BY <1>2, <1>3 DEF SizeCovers, TotalFits, Managed
<1> QED
  BY <1>6, <1>7 DEF Fits

\* A chunk never exceeds the room in the file.
LEMMA WriteFits ==
    ASSUME IInv, Fits, NEW n \in Bytes \cup {0}, WriteChunk(n)
    PROVE  Fits'
<1> DEFINE new == (last + 1)..(last + n)
<1>1. /\ TypeOK /\ Total \in Nat /\ limits.size \in Nat /\ limits.total \in Nat
      /\ size \in Nat /\ last \in Nat /\ todo \in Nat /\ n \in Nat
      /\ \A i \in Indices : IsFiniteSet(files[i]) /\ Cardinality(files[i]) \in Nat
      /\ IsFiniteSet(Kept) /\ Kept \in SUBSET (1..last) /\ files[0] \in SUBSET (1..last)
      /\ 0 \in Indices
  <2>1. TypeOK /\ limits \in Limits /\ last \in Nat
    BY DEF IInv, TypeOK
  <2>2. 0 \in Indices
    BY BoundsType DEF Indices
  <2>3. files[0] \in SUBSET (1..last) /\ size \in Nat /\ todo \in Nat
    BY <2>1, <2>2 DEF TypeOK
  <2> QED
    BY <2>1, <2>2, <2>3, SizesType, LimitsType, BoundsType
<1>2. SizesFit /\ SizeCovers /\ TotalFits
  BY DEF Fits
<1>3. /\ pc = "write" /\ file # "nil" /\ caller = "Write" /\ file' = file
      /\ size' = size + n /\ limits' = limits
      /\ files' = [files EXCEPT ![0] = files[0] \cup new]
      /\ caller' = caller
      /\ pc' = "enforce" \/ (pc' = "idle" /\ ok' = FALSE)
      /\ n <= limits.size - size
  <2>1. pc = "write" /\ file # "nil" /\ caller = "Write"
    BY <1>1 DEF WriteChunk, TypeOK
  <2>2. n <= limits.size - size
    BY <1>1 DEF WriteChunk, Capacity
  <2> QED
    BY <2>1, <2>2 DEF WriteChunk, Error
<1>4. IsFiniteSet(new) /\ Cardinality(new) = n
  <2>1. last + 1 \in Int /\ last + n \in Int
    BY <1>1
  <2>2. /\ IsFiniteSet(new)
        /\ Cardinality(new) = IF last + 1 > last + n THEN 0 ELSE (last + n) - (last + 1) + 1
    BY <2>1, FS_Interval
  <2> HIDE DEF new
  <2> QED
    BY <1>1, <2>2
<1>5. \A S : IsFiniteSet(S) /\ S \subseteq 1..last => Cardinality(S \cup new) = Cardinality(S) + n
  <2> SUFFICES ASSUME NEW S, IsFiniteSet(S), S \subseteq 1..last
               PROVE  Cardinality(S \cup new) = Cardinality(S) + n
    OBVIOUS
  <2>1. S \cap new = {}
    BY <1>1
  <2> HIDE DEF new
  <2>2. Cardinality(S \cup new) = Cardinality(S) + Cardinality(new) - Cardinality(S \cap new)
    BY <1>4, FS_Union
  <2>3. Cardinality(S) \in Nat /\ Cardinality(S \cap new) = 0
    BY <2>1, FS_EmptySet, FS_CardinalityType
  <2> QED
    BY <1>1, <1>4, <2>2, <2>3
<1> HIDE DEF new
<1>6. \A i \in Indices : files'[i] = IF i = 0 THEN files[0] \cup new ELSE files[i]
  BY <1>1, <1>3 DEF TypeOK
<1>7. Cardinality(files'[0]) = Cardinality(files[0]) + n
  BY <1>1, <1>5, <1>6
<1>8. Total' = Total + n
  <2>1. Kept' = Kept \cup new
    BY <1>1, <1>6 DEF Kept
  <2> QED
    BY <1>1, <1>5, <2>1 DEF Total
<1>9. /\ Cardinality(files[0]) <= size /\ size <= limits.size
      /\ Total <= limits.total + size
  BY <1>2, <1>3 DEF SizeCovers
<1>10. /\ Cardinality(files'[0]) <= size' /\ size' <= limits.size
       /\ Total' <= limits.total + size' /\ Total' <= limits.total + limits.size
  BY <1>1, <1>3, <1>7, <1>8, <1>9
<1>11. SizesFit'
  <2>1. \A i \in Indices : i # 0 => Cardinality(files'[i]) <= limits.size
    BY <1>2, <1>3, <1>6 DEF SizesFit
  <2>2. Cardinality(files'[0]) <= limits.size
    BY <1>1, <1>3, <1>7, <1>10
  <2> QED
    BY <1>3, <2>1, <2>2 DEF SizesFit
<1>12. SizeCovers' /\ TotalFits'
  BY <1>3, <1>10 DEF SizeCovers, TotalFits, Managed
<1> QED
  BY <1>11, <1>12 DEF Fits

\* For every set of limits no managed file exceeds max_size_mb, a call that returns
\* nil leaves the log within max_total_size_mb, and no sequence of failures takes
\* it further than one file beyond.
THEOREM LimitsAreKept == Spec => []LimitsHold
<1>1. ASSUME IInv, Fits, [Next]_vars PROVE Fits'
  BY <1>1, QuietFits, ShrinkFits, CleanFits, WriteFits DEF Next
<1>2. IInv /\ Fits => LimitsHold
  BY DEF IInv, TypeOK, Fits, SizesFit, TotalFits, LimitsHold, Managed
<1>3. Spec => []Fits
  BY <1>1, InitFits, Inductive, PTL DEF Spec
<1> QED
  BY <1>2, <1>3, Inductive, PTL

=============================================================================
