------------------------------ MODULE GoUtilities ------------------------------
(***************************************************************************)
(* The helpers on names and maps.  A name is a sequence of characters, of  *)
(* which Letters stands for the lower-case letters; a fixed prefix or      *)
(* suffix such as "secret" is one character.                               *)
(***************************************************************************)
EXTENDS Integers, Sequences, SequencesExt, FiniteSetsExt

CONSTANTS
    Letters,                \* the lower-case letters that occur
    DNS1123LabelMaxLength   \* how long a DNS label may be

ASSUME LabelLengthAssumption == DNS1123LabelMaxLength \in Nat \ {0}

Digits == {"0", "1", "2", "3", "4", "5", "6", "7", "8", "9"}
DigitValue == [d \in Digits |->
    CASE d = "0" -> 0 [] d = "1" -> 1 [] d = "2" -> 2 [] d = "3" -> 3 [] d = "4" -> 4
      [] d = "5" -> 5 [] d = "6" -> 6 [] d = "7" -> 7 [] d = "8" -> 8 [] d = "9" -> 9]

\* The characters that may stand in a DNS label.
Allowed == Letters \cup Digits \cup {"-"}

-----------------------------------------------------------------------------
(* Volume names.                                                           *)

ToLower(name) == [i \in DOMAIN name |-> IF name[i] = "A" THEN "a" ELSE name[i]]

\* Every run of characters that are not allowed becomes one dash.
ReplaceInvalid(name) ==
    LET replaced[n \in 0 .. Len(name)] ==
            IF n = 0 THEN <<>>
            ELSE IF name[n] \in Allowed THEN Append(replaced[n - 1], name[n])
            ELSE IF n > 1 /\ name[n - 1] \notin Allowed THEN replaced[n - 1]
            ELSE Append(replaced[n - 1], "-")
    IN replaced[Len(name)]

Truncate(name) == SubSeq(name, 1, Min({Len(name), DNS1123LabelMaxLength}))

TrimDashes(name) ==
    LET kept == {i \in DOMAIN name : name[i] # "-"}
    IN IF kept = {} THEN <<>> ELSE SubSeq(name, Min(kept), Max(kept))

\* Faulty variant: the dashes are trimmed before the name is cut.
SanitizeTrimFirst(name) == Truncate(TrimDashes(ReplaceInvalid(ToLower(name))))

SanitizeVolumeName(name) == TrimDashes(Truncate(ReplaceInvalid(ToLower(name))))

\* What the API server takes for a DNS label.
IsDNSLabel(name) ==
    /\ Len(name) \in 1 .. DNS1123LabelMaxLength
    /\ ToSet(name) \subseteq Allowed
    /\ name[1] # "-" /\ name[Len(name)] # "-"

-----------------------------------------------------------------------------
(* The order of pods.                                                      *)

\* Where the digits at the end of a name begin.
NumberStart(name) ==
    Max({0} \cup {i \in DOMAIN name : name[i] \notin Digits}) + 1

HasNumber(name) == NumberStart(name) <= Len(name)

Number(name) ==
    LET value[n \in 0 .. Len(name)] ==
            IF n < NumberStart(name) THEN 0 ELSE 10 * value[n - 1] + DigitValue[name[n]]
    IN value[Len(name)]

\* Faulty variant: the first digit decides, as it does when names are compared.
PrecedesAsText(p, q) ==
    HasNumber(p) /\ HasNumber(q) /\ DigitValue[p[NumberStart(p)]] < DigitValue[q[NumberStart(q)]]

\* A name without a number precedes none and is preceded by none.
Precedes(p, q) == HasNumber(p) /\ HasNumber(q) /\ Number(p) < Number(q)

\* A stable insertion: an element moves left past those it precedes, up to the
\* first that it does not precede.
Insert(sorted, name) ==
    InsertAt(sorted, Max({0} \cup {i \in DOMAIN sorted : ~Precedes(name, sorted[i])}) + 1, name)

SortPodListByName(podList) ==
    LET sorted[n \in 0 .. Len(podList)] ==
            IF n = 0 THEN <<>> ELSE Insert(sorted[n - 1], podList[n])
    IN sorted[Len(podList)]

\* The pods come in the order of their numbers.
InOrder(podList) == IsSorted(podList, LAMBDA p, q : Number(p) <= Number(q))

-----------------------------------------------------------------------------
(* Maps.                                                                   *)

MapMerge(first, secondOverwriting) ==
    [k \in DOMAIN first \cup DOMAIN secondOverwriting |->
        IF k \in DOMAIN secondOverwriting THEN secondOverwriting[k] ELSE first[k]]
================================================================================
