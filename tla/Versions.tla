------------------------------ MODULE Versions ------------------------------
(***************************************************************************)
(* internal/cliproxy/version.go: whether the running CLIProxyAPI is older  *)
(* than its latest release.  An identifier is a sequence of character      *)
(* codes; a version is what parseSemanticVersion cuts it into.             *)
(***************************************************************************)
EXTENDS Integers, Sequences, FiniteSetsExt, SequencesExt

CONSTANT MaxUint  \* the largest uint64

ASSUME VersionsAssumption == MaxUint \in Nat

Digits == 48..57
Uppercase == 65..90

\* [lead |-> "", "v" or "V", core |-> the parts between dots,
\*  dash |-> is there a prerelease, pre |-> its parts, build |-> <<>> or a part]
ReleaseVersions ==
    {v \in [lead : STRING, core : Seq(Seq(Nat)), dash : BOOLEAN, pre : Seq(Seq(Nat)),
            build : Seq(Seq(Nat))] :
        v.dash <=> v.pre # <<>>}

\* strconv.ParseUint, digit by digit: the value of a decimal number that fits.
Values(id) ==
    LET value[n \in 0..Len(id)] == IF n = 0 THEN 0 ELSE 10 * value[n - 1] + id[n] - 48
    IN  value
Value(id) == Values(id)[Len(id)]
ParsesAsUint(id) ==
    /\ id # <<>> /\ \A i \in DOMAIN id : id[i] \in Digits
    /\ Value(id) <= MaxUint

\* The order of Go's strings.
TextLess(a, b) ==
    \/ \E i \in DOMAIN a \cap DOMAIN b :
          /\ a[i] < b[i]
          /\ \A j \in 1..(i - 1) : a[j] = b[j]
    \/ Len(a) < Len(b) /\ a = SubSeq(b, 1, Len(a))

Folded(id) == [i \in DOMAIN id |-> IF id[i] \in Uppercase THEN id[i] + 32 ELSE id[i]]
FoldedAll(ids) == [i \in DOMAIN ids |-> Folded(ids[i])]

\* strings.EqualFold of the two texts without a lowercase v before them.
EqualFold(a, b) ==
    /\ (a.lead = "V") = (b.lead = "V")
    /\ FoldedAll(a.core) = FoldedAll(b.core)
    /\ a.dash = b.dash /\ FoldedAll(a.pre) = FoldedAll(b.pre)
    /\ FoldedAll(a.build) = FoldedAll(b.build)

ValidPart(id) == ParsesAsUint(id) /\ (Len(id) > 1 => id[1] # 48)

Parses(v) ==
    /\ Len(v.core) = 3 /\ \A i \in 1..3 : ValidPart(v.core[i])
    /\ v.dash => v.pre # <<<<>>>>

comparePart_AsText(a, b) == IF TextLess(a, b) THEN -1 ELSE 1
comparePart(a, b) ==
    CASE ParsesAsUint(a) /\ ParsesAsUint(b) -> IF Value(a) < Value(b) THEN -1 ELSE 1
      [] ParsesAsUint(a) /\ ~ParsesAsUint(b) -> -1
      [] ~ParsesAsUint(a) /\ ParsesAsUint(b) -> 1
      [] OTHER -> IF TextLess(a, b) THEN -1 ELSE 1

compareLength(m, n) == IF m < n THEN -1 ELSE IF m > n THEN 1 ELSE 0

comparePrerelease(left, right) ==
    LET different == {i \in DOMAIN left \cap DOMAIN right : left[i] # right[i]}
    IN  IF different = {}
        THEN compareLength(Len(left), Len(right))
        ELSE LET i == Min(different) IN comparePart(left[i], right[i])

compareCore(a, b) ==
    LET different == {i \in 1..3 : Value(a.core[i]) # Value(b.core[i])}
    IN  IF different = {} THEN 0
        ELSE LET i == Min(different)
             IN  compareLength(Value(a.core[i]), Value(b.core[i]))

compareReleaseVersions(a, b) ==
    IF EqualFold(a, b) THEN [order |-> 0, comparable |-> TRUE]
    ELSE IF ~Parses(a) \/ ~Parses(b) THEN [order |-> 0, comparable |-> FALSE]
    ELSE [comparable |-> TRUE,
          order |->
            CASE compareCore(a, b) # 0 -> compareCore(a, b)
              [] compareCore(a, b) = 0 /\ a.pre = b.pre -> 0
              [] compareCore(a, b) = 0 /\ a.pre # b.pre /\ ~a.dash -> 1
              [] compareCore(a, b) = 0 /\ a.pre # b.pre /\ a.dash /\ ~b.dash -> -1
              [] OTHER -> comparePrerelease(a.pre, b.pre)]

-----------------------------------------------------------------------------
(* Semantic Versioning 2.0.0, which the code does not mention but follows. *)

IdentifierChars == Digits \cup Uppercase \cup 97..122 \cup {45}
IsNumber(id) == \A i \in DOMAIN id : id[i] \in Digits
ValidNumber(id) == id # <<>> /\ IsNumber(id) /\ (Len(id) > 1 => id[1] # 48)

\* A version of the standard whose numbers fit, with at most a letter v before it.
IsSemVer(v) ==
    /\ Len(v.core) = 3 /\ \A i \in 1..3 : ValidNumber(v.core[i]) /\ Value(v.core[i]) <= MaxUint
    /\ \A i \in DOMAIN v.pre :
          /\ v.pre[i] # <<>> /\ \A j \in DOMAIN v.pre[i] : v.pre[i][j] \in IdentifierChars
          /\ IsNumber(v.pre[i]) => ValidNumber(v.pre[i]) /\ Value(v.pre[i]) <= MaxUint

\* A number is less than any text.  Numbers compare by value, texts as texts.
IdentifierLess(a, b) ==
    \/ IsNumber(a) /\ ~IsNumber(b)
    \/ IsNumber(a) /\ IsNumber(b) /\ Value(a) < Value(b)
    \/ ~IsNumber(a) /\ ~IsNumber(b) /\ TextLess(a, b)

\* The first difference decides; without one the shorter sequence is less.
SequenceLess(a, b) ==
    \/ \E i \in DOMAIN a \cap DOMAIN b :
          IdentifierLess(a[i], b[i]) /\ \A j \in 1..(i - 1) : a[j] = b[j]
    \/ Len(a) < Len(b) /\ a = SubSeq(b, 1, Len(a))

\* A prerelease precedes its release.
Precedes(a, b) ==
    \/ SequenceLess(a.core, b.core)
    \/ /\ a.core = b.core
       /\ \/ a.dash /\ ~b.dash
          \/ a.dash /\ b.dash /\ SequenceLess(a.pre, b.pre)

=============================================================================
