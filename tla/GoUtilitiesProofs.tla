-------------------------- MODULE GoUtilitiesProofs --------------------------
(***************************************************************************)
(* What the helpers on names compute, for names and lists of any length.   *)
(* Induction is by sets: a set of naturals that has zero, and with every   *)
(* number the next, has them all.                                          *)
(***************************************************************************)
EXTENDS GoUtilities, WellFoundedInduction, TLAPS

-----------------------------------------------------------------------------
(* Naturals, and recursive functions on them.                              *)

\* A set of naturals has a least element.
LEMMA LeastElement ==
    ASSUME NEW S \in SUBSET Nat, S # {}
    PROVE  \E m \in S : \A x \in S : m <= x
<1> DEFINE R == OpToRel(<, Nat)
<1>1. IsWellFoundedOn(R, Nat)
  BY NatLessThanWellFounded
<1>2. \A x, y \in Nat : <<x, y>> \in R <=> x < y
  BY DEF OpToRel
<1> HIDE DEF R
<1>3. PICK m \in S : \A y \in S : ~(<<y, m>> \in R)
  BY <1>1, WFMin
<1>4. \A y \in S : m \in Nat /\ y \in Nat /\ ~(y < m)
  BY <1>2, <1>3
<1>5. \A y \in S : m <= y
  BY <1>4
<1> QED
  BY <1>5

\* Min is what it says, and so is Max for a set with a bound.
LEMMA MinIsLeast ==
    ASSUME NEW S \in SUBSET Nat, S # {}
    PROVE  Min(S) \in S /\ \A x \in S : Min(S) <= x
BY LeastElement DEF Min

LEMMA MaxIsGreatest ==
    ASSUME NEW S \in SUBSET Nat, S # {}, NEW n \in Nat, \A x \in S : x <= n
    PROVE  Max(S) \in S /\ \A x \in S : x <= Max(S)
<1> DEFINE T == {n - x : x \in S}
<1>0. \A x \in S : x \in Nat /\ n - x \in Nat
  OBVIOUS
<1>1. T \in SUBSET Nat /\ T # {}
  BY <1>0
<1>2. PICK m \in T : \A x \in T : m <= x
  BY <1>1, LeastElement
<1>3. PICK y \in S : m = n - y
  BY <1>2
<1>4. \A x \in S : y >= x
  <2> SUFFICES ASSUME NEW x \in S PROVE y >= x
    OBVIOUS
  <2>1. n - x \in T /\ x \in Nat /\ y \in Nat
    BY <1>0
  <2> QED
    BY <1>2, <1>3, <2>1
<1>5. \E z \in S : \A x \in S : z >= x
  BY <1>4
<1>6. Max(S) \in S /\ \A x \in S : Max(S) >= x
  BY <1>5 DEF Max
<1> QED
  BY <1>0, <1>6

\* A set with zero, and with every number below n the next, has all up to n.
LEMMA Induction ==
    ASSUME NEW n \in Nat, NEW S, 0 \in S, \A i \in 1 .. n : i - 1 \in S => i \in S
    PROVE  \A i \in 0 .. n : i \in S
<1> DEFINE Missing == (0 .. n) \ S
<1> SUFFICES ASSUME Missing # {} PROVE FALSE
  OBVIOUS
<1>1. Missing \in SUBSET Nat
  OBVIOUS
<1>2. PICK m \in Missing : \A x \in Missing : m <= x
  <2> HIDE DEF Missing
  <2> QED BY <1>1, LeastElement
<1>3. m \in 1 .. n /\ m \notin S
  BY <1>2
<1>4. m - 1 \in 0 .. n /\ m - 1 \notin Missing
  BY <1>2, <1>3
<1> QED
  BY <1>3, <1>4

\* A recursive definition on 0 .. n has a solution.
Solves(g, first, n, step) ==
    g[0] = first /\ \A i \in 1 .. n : g[i] = step[<<g[i - 1], i>>]

LEMMA Recursion ==
    ASSUME NEW S, NEW first \in S, NEW n \in Nat, NEW step \in [S \X (1 .. n) -> S]
    PROVE  \E g \in [0 .. n -> S] : Solves(g, first, n, step)
<1> DEFINE Good(m, g) == g[0] = first /\ \A i \in 1 .. m : g[i] = step[<<g[i - 1], i>>]
           Solved == {m \in 0 .. n : \E g \in [0 .. m -> S] : Good(m, g)}
<1>1. 0 \in Solved
  <2> DEFINE h == [i \in 0 .. 0 |-> first]
  <2>1. h \in [0 .. 0 -> S] /\ Good(0, h)
    OBVIOUS
  <2> HIDE DEF h
  <2>2. \E g \in [0 .. 0 -> S] : Good(0, g)
    BY <2>1
  <2> QED
    BY <2>2
<1>2. ASSUME NEW m \in 1 .. n, m - 1 \in Solved
      PROVE  m \in Solved
  <2>1. PICK g \in [0 .. m - 1 -> S] : Good(m - 1, g)
    BY <1>2
  <2>2. g[m - 1] \in S
    OBVIOUS
  <2> DEFINE h == [i \in 0 .. m |-> IF i = m THEN step[<<g[m - 1], m>>] ELSE g[i]]
  <2>3. h \in [0 .. m -> S]
    BY <2>2
  <2>4. h[0] = first /\ h[m] = step[<<g[m - 1], m>>] /\ \A i \in 0 .. m - 1 : h[i] = g[i]
    BY <2>1
  <2> HIDE DEF h
  <2>5. ASSUME NEW i \in 1 .. m PROVE h[i] = step[<<h[i - 1], i>>]
    <3>1. i - 1 \in 0 .. m - 1 /\ h[i - 1] = g[i - 1]
      BY <2>4
    <3>2. CASE i = m
      BY <2>4, <3>1, <3>2
    <3>3. CASE i # m
      <4>1. i \in 1 .. m - 1 /\ i \in 0 .. m - 1
        BY <3>3
      <4> QED
        BY <2>1, <2>4, <3>1, <4>1
    <3> QED
      BY <3>2, <3>3
  <2>6. Good(m, h)
    BY <2>4, <2>5
  <2> QED
    BY <2>3, <2>6
<1> HIDE DEF Solved
<1>3. n \in Solved
  BY <1>1, <1>2, Induction
<1> QED
  BY <1>3 DEF Solved, Solves

-----------------------------------------------------------------------------
(* The order of pods.                                                      *)

\* From where the number begins a name has only digits.
LEMMA NumberStartIs ==
    ASSUME NEW A, NEW name \in Seq(A)
    PROVE  /\ NumberStart(name) \in 1 .. Len(name) + 1
           /\ \A i \in NumberStart(name) .. Len(name) : name[i] \in Digits
<1> DEFINE S == {0} \cup {i \in DOMAIN name : name[i] \notin Digits}
<1>1. S \in SUBSET Nat /\ S # {} /\ (\A x \in S : x <= Len(name)) /\ Len(name) \in Nat
  OBVIOUS
<1>2. NumberStart(name) = Max(S) + 1
  BY DEF NumberStart
<1>3. Max(S) \in S /\ \A x \in S : x <= Max(S)
  <2> HIDE DEF S
  <2> QED BY <1>1, MaxIsGreatest
<1>4. Max(S) \in 0 .. Len(name)
  BY <1>1, <1>3
<1>5. ASSUME NEW i \in Max(S) + 1 .. Len(name) PROVE name[i] \in Digits
  <2> DEFINE k == Max(S)
  <2>1. k \in 0 .. Len(name) /\ \A x \in S : x <= k
    BY <1>3, <1>4
  <2> HIDE DEF k
  <2>2. i \in k + 1 .. Len(name)
    BY <1>5 DEF k
  <2>3. i \in 1 .. Len(name) /\ ~(i <= k)
    BY <2>1, <2>2
  <2> QED
    BY <2>1, <2>3
<1> HIDE DEF S
<1> QED
  BY <1>2, <1>4, <1>5

\* The number at the end of a name is a natural number.
LEMMA NumberIsNat ==
    ASSUME NEW A, NEW name \in Seq(A)
    PROVE  Number(name) \in Nat
<1> DEFINE n == Len(name)
           k == NumberStart(name)
           Def(g) == g = [i \in 0 .. n |-> IF i < k THEN 0
                                           ELSE 10 * g[i - 1] + DigitValue[name[i]]]
           f == CHOOSE g : Def(g)
           step == [x \in Nat \X (1 .. n) |-> IF x[2] < k THEN 0
                                              ELSE 10 * x[1] + DigitValue[name[x[2]]]]
<1>1. Number(name) = f[n]
  BY DEF Number
<1>2. n \in Nat /\ k \in 1 .. n + 1
  BY NumberStartIs
<1>3. ASSUME NEW i \in 1 .. n, ~(i < k) PROVE DigitValue[name[i]] \in Nat
  <2>1. name[i] \in Digits
    BY <1>2, <1>3, NumberStartIs
  <2> QED
    BY <2>1 DEF DigitValue, Digits
<1> HIDE DEF n, k
<1>4. \E g : Def(g)
  <2>1. ASSUME NEW v \in Nat, NEW i \in 1 .. n
        PROVE  (IF i < k THEN 0 ELSE 10 * v + DigitValue[name[i]]) \in Nat
    BY <1>3
  <2>2. step \in [Nat \X (1 .. n) -> Nat]
    BY <2>1
  <2>3. PICK g \in [0 .. n -> Nat] : Solves(g, 0, n, step)
    <3> HIDE DEF step
    <3> QED
      BY <1>2, <2>2, Recursion
  <2>4. ASSUME NEW i \in 0 .. n
        PROVE  g[i] = IF i < k THEN 0 ELSE 10 * g[i - 1] + DigitValue[name[i]]
    <3>1. CASE i = 0
      BY <1>2, <2>3, <3>1 DEF Solves
    <3>2. CASE i # 0
      <4>1. <<g[i - 1], i>> \in Nat \X (1 .. n)
        BY <1>2, <3>2
      <4> QED
        BY <1>2, <2>3, <3>2, <4>1 DEF Solves
    <3> QED
      BY <3>1, <3>2
  <2>5. Def(g)
    BY <2>4
  <2> QED
    BY <2>5
<1>5. Def(f)
  BY <1>4
<1>6. \A i \in 0 .. n : f[i] = IF i < k THEN 0 ELSE 10 * f[i - 1] + DigitValue[name[i]]
  <2> HIDE DEF f
  <2> QED BY <1>5
<1> HIDE DEF f
<1> DEFINE S == {i \in 0 .. n : f[i] \in Nat}
<1>7. 0 \in S
  <2>1. 0 \in 0 .. n /\ 0 < k
    BY <1>2
  <2> QED
    BY <1>6, <2>1
<1>8. ASSUME NEW i \in 1 .. n, i - 1 \in S PROVE i \in S
  BY <1>2, <1>3, <1>6, <1>8
<1>9. n \in S
  <2> HIDE DEF S
  <2>1. \A i \in 0 .. n : i \in S
    BY <1>2, <1>7, <1>8, Induction
  <2> QED
    BY <1>2, <2>1
<1> QED
  BY <1>1, <1>9 DEF S

\* What the sort asks of the names: each has a number.
Numbered(N) == \A p \in N : HasNumber(p) /\ Number(p) \in Nat

\* Where the insertion puts a name.
LEMMA InsertedAt ==
    ASSUME NEW N, NEW sorted \in Seq(N), NEW name \in N
    PROVE  \E k \in 0 .. Len(sorted) :
              /\ k > 0 => ~Precedes(name, sorted[k])
              /\ \A i \in k + 1 .. Len(sorted) : Precedes(name, sorted[i])
              /\ Insert(sorted, name) = InsertAt(sorted, k + 1, name)
<1> DEFINE S == {0} \cup {i \in DOMAIN sorted : ~Precedes(name, sorted[i])}
           k == Max(S)
<1>1. S \in SUBSET Nat /\ S # {} /\ (\A x \in S : x <= Len(sorted)) /\ Len(sorted) \in Nat
  OBVIOUS
<1>2. Insert(sorted, name) = InsertAt(sorted, k + 1, name)
  BY DEF Insert
<1>3. k \in S /\ \A x \in S : x <= k
  <2> HIDE DEF S
  <2> QED BY <1>1, MaxIsGreatest
<1> HIDE DEF k
<1>4. k \in 0 .. Len(sorted)
  BY <1>1, <1>3
<1>5. ASSUME NEW i \in k + 1 .. Len(sorted) PROVE Precedes(name, sorted[i])
  <2>1. i \in 1 .. Len(sorted) /\ ~(i <= k)
    BY <1>4
  <2> QED
    BY <1>3, <2>1
<1>6. k > 0 => ~Precedes(name, sorted[k])
  BY <1>3
<1> QED
  BY <1>2, <1>4, <1>5, <1>6

\* An element put into a sequence after the k-th: those up to it stay and the others
\* move.
Inserted(r, s, k, e) ==
    /\ Len(r) = Len(s) + 1
    /\ \A i \in 1 .. Len(s) + 1 :
          r[i] = IF i <= k THEN s[i] ELSE IF i = k + 1 THEN e ELSE s[i - 1]

LEMMA InsertAtIs ==
    ASSUME NEW N, NEW s \in Seq(N), NEW e \in N, NEW k \in 0 .. Len(s)
    PROVE  /\ InsertAt(s, k + 1, e) \in Seq(N)
           /\ Inserted(InsertAt(s, k + 1, e), s, k, e)
<1> DEFINE a == SubSeq(s, 1, k)
           c == SubSeq(s, k + 1, Len(s))
<1>0. k \in Nat /\ (k + 1) - 1 = k
  OBVIOUS
<1>1. /\ a \in Seq(N) /\ Len(a) = k
      /\ \A i \in 1 .. k : a[i] = s[i]
  OBVIOUS
<1>2. /\ c \in Seq(N) /\ Len(c) = Len(s) - k
      /\ \A i \in 1 .. Len(s) - k : c[i] = s[i + k]
  OBVIOUS
<1>3. InsertAt(s, k + 1, e) = a \o <<e>> \o c
  <2> HIDE DEF c
  <2>1. SubSeq(s, 1, (k + 1) - 1) = a
    BY <1>0
  <2> HIDE DEF a
  <2> QED
    BY <2>1, Zenon DEF InsertAt, c
<1> HIDE DEF a, c
<1> DEFINE b == a \o <<e>>
<1>4. /\ b \in Seq(N) /\ Len(b) = k + 1
      /\ \A i \in 1 .. k + 1 : b[i] = IF i <= k THEN s[i] ELSE e
  BY <1>1
<1> HIDE DEF b
<1>5. /\ b \o c \in Seq(N) /\ Len(b \o c) = Len(s) + 1
      /\ \A i \in 1 .. Len(s) + 1 : (b \o c)[i] = IF i <= k + 1 THEN b[i] ELSE c[i - (k + 1)]
  <2>0. b \in Seq(N) /\ c \in Seq(N)
    BY <1>2, <1>4
  <2>1. Len(b \o c) = Len(b) + Len(c) /\ b \o c \in Seq(N)
    BY <2>0
  <2>2. Len(b \o c) = Len(s) + 1
    BY <1>2, <1>4, <2>1
  <2>3. ASSUME NEW i \in 1 .. Len(s) + 1
        PROVE  (b \o c)[i] = IF i <= Len(b) THEN b[i] ELSE c[i - Len(b)]
    BY <1>2, <1>4, <2>2
  <2> QED
    BY <1>4, <2>1, <2>2, <2>3
<1>6. ASSUME NEW i \in 1 .. Len(s) + 1
      PROVE  (b \o c)[i] = IF i <= k THEN s[i] ELSE IF i = k + 1 THEN e ELSE s[i - 1]
  <2>1. CASE i <= k + 1
    BY <1>4, <1>5, <2>1
  <2>2. CASE ~(i <= k + 1)
    <3>1. i - (k + 1) \in 1 .. Len(s) - k /\ (i - (k + 1)) + k = i - 1
      BY <2>2
    <3>2. c[i - (k + 1)] = s[i - 1]
      BY <1>2, <3>1
    <3> QED
      BY <1>5, <2>2, <3>2
  <2> QED
    BY <2>1, <2>2
<1> DEFINE r == InsertAt(s, k + 1, e)
<1>7. r = b \o c
  BY <1>3 DEF b
<1> HIDE DEF r
<1>8. r \in Seq(N) /\ Inserted(r, s, k, e)
  BY <1>5, <1>6, <1>7 DEF Inserted
<1> QED
  BY <1>8 DEF r

\* A name goes into an ordered list so that it stays ordered, and no other is lost.
LEMMA InsertKeepsOrder ==
    ASSUME NEW N, Numbered(N), NEW sorted \in Seq(N), NEW name \in N, InOrder(sorted)
    PROVE  /\ Insert(sorted, name) \in Seq(N)
           /\ Len(Insert(sorted, name)) = Len(sorted) + 1
           /\ ToSet(Insert(sorted, name)) = ToSet(sorted) \cup {name}
           /\ InOrder(Insert(sorted, name))
<1> DEFINE n == Len(sorted)
           r == Insert(sorted, name)
<1>1. PICK k \in 0 .. n :
              /\ k > 0 => ~Precedes(name, sorted[k])
              /\ \A i \in k + 1 .. n : Precedes(name, sorted[i])
              /\ r = InsertAt(sorted, k + 1, name)
  BY InsertedAt
<1> HIDE DEF r
<1>2. /\ r \in Seq(N) /\ Len(r) = n + 1
      /\ \A i \in 1 .. n + 1 :
            r[i] = IF i <= k THEN sorted[i] ELSE IF i = k + 1 THEN name ELSE sorted[i - 1]
  <2> HIDE DEF n
  <2>1. k \in 0 .. Len(sorted) /\ n = Len(sorted)
    BY DEF n
  <2>2. r \in Seq(N) /\ Inserted(r, sorted, k, name)
    BY <1>1, <2>1, InsertAtIs
  <2> QED
    BY <2>1, <2>2 DEF Inserted
<1>3. n \in Nat /\ (\A i \in 1 .. n : sorted[i] \in N)
  OBVIOUS
<1> HIDE DEF n
<1>4. ToSet(r) = ToSet(sorted) \cup {name}
  <2>1. DOMAIN r = 1 .. n + 1 /\ DOMAIN sorted = 1 .. n
    BY <1>2, <1>3 DEF n
  <2>2. ASSUME NEW i \in 1 .. n + 1
        PROVE  r[i] = name \/ \E j \in 1 .. n : r[i] = sorted[j]
    <3>1. CASE i <= k
      BY <1>2, <1>3, <3>1
    <3>2. CASE i = k + 1
      BY <1>2, <3>2
    <3>3. CASE i > k + 1
      BY <1>2, <1>3, <3>3
    <3> QED
      BY <3>1, <3>2, <3>3
  <2>3. ASSUME NEW j \in 1 .. n PROVE \E i \in 1 .. n + 1 : r[i] = sorted[j]
    <3>1. CASE j <= k
      BY <1>2, <1>3, <3>1
    <3>2. CASE ~(j <= k)
      <4>1. j + 1 \in 1 .. n + 1 /\ ~(j + 1 <= k) /\ j + 1 # k + 1 /\ (j + 1) - 1 = j
        BY <1>3, <3>2
      <4>2. r[j + 1] = sorted[j]
        BY <1>2, <4>1
      <4> QED
        BY <4>1, <4>2
    <3> QED
      BY <3>1, <3>2
  <2>4. k + 1 \in 1 .. n + 1 /\ r[k + 1] = name
    BY <1>2, <1>3
  <2>5. \A x : x \in ToSet(r) <=> \E i \in 1 .. n + 1 : x = r[i]
    BY <2>1 DEF ToSet
  <2>6. \A x : x \in ToSet(sorted) <=> \E j \in 1 .. n : x = sorted[j]
    BY <2>1 DEF ToSet
  <2>7. ASSUME NEW x \in ToSet(r) PROVE x \in ToSet(sorted) \cup {name}
    BY <2>2, <2>5, <2>6
  <2>8. ASSUME NEW x \in ToSet(sorted) \cup {name} PROVE x \in ToSet(r)
    <3>1. CASE x = name
      BY <2>4, <2>5, <3>1
    <3>2. CASE x \in ToSet(sorted)
      <4>1. PICK j \in 1 .. n : x = sorted[j]
        BY <2>6, <3>2
      <4>2. PICK i \in 1 .. n + 1 : r[i] = sorted[j]
        BY <2>3
      <4> QED
        BY <2>5, <4>1, <4>2
    <3> QED
      BY <3>1, <3>2
  <2> QED
    BY <2>7, <2>8
<1>5. ASSUME NEW i \in 1 .. n, NEW j \in 1 .. n, i <= j
      PROVE  Number(sorted[i]) <= Number(sorted[j])
  <2>1. CASE i = j
    BY <1>3, <2>1 DEF Numbered
  <2>2. CASE i # j
    <3>1. i < j
      BY <1>5, <2>2
    <3> QED
      BY <3>1 DEF InOrder, IsSorted, n
  <2> QED
    BY <2>1, <2>2
<1>6. ASSUME NEW i \in 1 .. n, i <= k PROVE Number(sorted[i]) <= Number(name)
  <2>1. k \in 1 .. n /\ ~(Number(name) < Number(sorted[k]))
    BY <1>1, <1>3, <1>6 DEF Precedes, Numbered
  <2>2. Number(sorted[i]) <= Number(sorted[k])
    BY <1>5, <1>6, <2>1
  <2>3. Number(sorted[i]) \in Nat /\ Number(sorted[k]) \in Nat /\ Number(name) \in Nat
    BY <1>3, <2>1 DEF Numbered
  <2> QED
    BY <2>1, <2>2, <2>3
<1>7. ASSUME NEW j \in 1 .. n, k < j PROVE Number(name) <= Number(sorted[j])
  <2>1. Number(name) < Number(sorted[j])
    BY <1>1, <1>3, <1>7 DEF Precedes
  <2>2. Number(sorted[j]) \in Nat /\ Number(name) \in Nat
    BY <1>3 DEF Numbered
  <2> QED
    BY <2>1, <2>2
<1>8. ASSUME NEW i \in 1 .. n + 1, NEW j \in 1 .. n + 1, i < j
      PROVE  Number(r[i]) <= Number(r[j])
  <2>1. CASE j <= k
    BY <1>2, <1>3, <1>5, <1>8, <2>1
  <2>2. CASE j = k + 1
    <3>1. r[j] = name /\ r[i] = sorted[i] /\ i \in 1 .. n /\ i <= k
      BY <1>2, <1>3, <1>8, <2>2
    <3> QED
      BY <1>6, <3>1
  <2>3. CASE j > k + 1 /\ i <= k
    <3>1. r[j] = sorted[j - 1] /\ r[i] = sorted[i] /\ i \in 1 .. n /\ j - 1 \in 1 .. n /\ i <= j - 1
      BY <1>2, <1>3, <1>8, <2>3
    <3> QED
      BY <1>5, <3>1
  <2>4. CASE j > k + 1 /\ i = k + 1
    <3>1. r[j] = sorted[j - 1] /\ r[i] = name /\ j - 1 \in 1 .. n /\ k < j - 1
      BY <1>2, <1>3, <1>8, <2>4
    <3> QED
      BY <1>7, <3>1
  <2>5. CASE j > k + 1 /\ i > k + 1
    <3>1. /\ r[j] = sorted[j - 1] /\ r[i] = sorted[i - 1]
          /\ i - 1 \in 1 .. n /\ j - 1 \in 1 .. n /\ i - 1 <= j - 1
      BY <1>2, <1>3, <1>8, <2>5
    <3> QED
      BY <1>5, <3>1
  <2> QED
    BY <2>1, <2>2, <2>3, <2>4, <2>5
<1>9. InOrder(r)
  BY <1>2, <1>8 DEF InOrder, IsSorted
<1> QED
  BY <1>2, <1>4, <1>9 DEF r, n

\* The sorted list is as long as the list it was given, has the same pods, and has them
\* in the order of their numbers, for a list of any length (SortPodListByName): the last
\* pods of the list are those a StatefulSet removes first.
THEOREM SortPutsInOrder ==
    ASSUME NEW N, Numbered(N), NEW podList \in Seq(N)
    PROVE  /\ SortPodListByName(podList) \in Seq(N)
           /\ Len(SortPodListByName(podList)) = Len(podList)
           /\ ToSet(SortPodListByName(podList)) = ToSet(podList)
           /\ InOrder(SortPodListByName(podList))
<1> DEFINE n == Len(podList)
           Lists == {s \in Seq(N) : InOrder(s)}
           Def(g) == g = [i \in 0 .. n |-> IF i = 0 THEN <<>> ELSE Insert(g[i - 1], podList[i])]
           f == CHOOSE g : Def(g)
           step == [x \in Lists \X (1 .. n) |-> Insert(x[1], podList[x[2]])]
           Before(i) == {podList[j] : j \in 1 .. i}
<1>1. SortPodListByName(podList) = f[n]
  BY DEF SortPodListByName
<1>2. n \in Nat /\ \A i \in 1 .. n : podList[i] \in N
  OBVIOUS
<1>3. Before(n) = ToSet(podList)
  BY DEF ToSet
<1> HIDE DEF n
<1>4. <<>> \in Lists /\ ToSet(<<>>) = {} /\ Len(<<>>) = 0
  BY DEF InOrder, IsSorted, ToSet
<1>5. ASSUME NEW s \in Lists, NEW i \in 1 .. n
      PROVE  /\ Insert(s, podList[i]) \in Lists
             /\ Len(Insert(s, podList[i])) = Len(s) + 1
             /\ ToSet(Insert(s, podList[i])) = ToSet(s) \cup {podList[i]}
  <2>1. s \in Seq(N) /\ InOrder(s) /\ podList[i] \in N
    BY <1>2
  <2>2. PICK e \in N : e = podList[i]
    BY <2>1
  <2>3. /\ Insert(s, e) \in Seq(N) /\ InOrder(Insert(s, e))
        /\ Len(Insert(s, e)) = Len(s) + 1
        /\ ToSet(Insert(s, e)) = ToSet(s) \cup {e}
    <3> HIDE DEF Lists
    <3> QED BY <2>1, InsertKeepsOrder
  <2> QED
    BY <2>2, <2>3
<1> HIDE DEF Lists
<1>6. \E g : Def(g)
  <2>1. step \in [Lists \X (1 .. n) -> Lists]
    BY <1>5
  <2>2. PICK g \in [0 .. n -> Lists] : Solves(g, <<>>, n, step)
    <3> HIDE DEF step
    <3> QED
      BY <1>2, <1>4, <2>1, Recursion
  <2>3. ASSUME NEW i \in 0 .. n
        PROVE  g[i] = IF i = 0 THEN <<>> ELSE Insert(g[i - 1], podList[i])
    <3>1. CASE i = 0
      BY <2>2, <3>1 DEF Solves
    <3>2. CASE i # 0
      <4>1. <<g[i - 1], i>> \in Lists \X (1 .. n)
        BY <1>2, <3>2
      <4> QED
        BY <1>2, <2>2, <3>2, <4>1 DEF Solves
    <3> QED
      BY <3>1, <3>2
  <2>4. Def(g)
    BY <2>3
  <2> QED
    BY <2>4
<1>7. Def(f)
  BY <1>6
<1>8. \A i \in 0 .. n : f[i] = IF i = 0 THEN <<>> ELSE Insert(f[i - 1], podList[i])
  <2> HIDE DEF f
  <2> QED BY <1>7
<1> HIDE DEF f
<1> DEFINE S == {i \in 0 .. n : f[i] \in Lists /\ Len(f[i]) = i /\ ToSet(f[i]) = Before(i)}
<1>9. 0 \in S
  <2>1. f[0] = <<>> /\ 0 \in 0 .. n
    BY <1>2, <1>8
  <2>2. Before(0) = {}
    OBVIOUS
  <2> QED
    BY <1>4, <2>1, <2>2
<1>10. ASSUME NEW i \in 1 .. n, i - 1 \in S PROVE i \in S
  <2>1. f[i] = Insert(f[i - 1], podList[i]) /\ i \in 0 .. n
    BY <1>2, <1>8
  <2>2. f[i - 1] \in Lists /\ Len(f[i - 1]) = i - 1 /\ ToSet(f[i - 1]) = Before(i - 1)
    BY <1>10
  <2>3. f[i] \in Lists /\ Len(f[i]) = (i - 1) + 1 /\ ToSet(f[i]) = Before(i - 1) \cup {podList[i]}
    BY <1>5, <2>1, <2>2
  <2>4. Before(i) = Before(i - 1) \cup {podList[i]}
    <3>1. 1 .. i = (1 .. i - 1) \cup {i}
      BY <1>2
    <3> QED
      BY <3>1
  <2>5. (i - 1) + 1 = i
    BY <1>2
  <2> QED
    BY <2>1, <2>3, <2>4, <2>5
<1>11. n \in S
  <2> HIDE DEF S
  <2>1. \A i \in 0 .. n : i \in S
    BY <1>2, <1>9, <1>10, Induction
  <2> QED
    BY <1>2, <2>1
<1>12. f[n] \in Lists /\ Len(f[n]) = n /\ ToSet(f[n]) = ToSet(podList)
  BY <1>3, <1>11
<1> QED
  BY <1>1, <1>12 DEF Lists, n

-----------------------------------------------------------------------------
(* Volume names.                                                           *)

\* Only characters of a label are left, and a first one that is allowed stays first.
LEMMA ReplacedIs ==
    ASSUME NEW A, NEW name \in Seq(A)
    PROVE  /\ ReplaceInvalid(name) \in Seq(Allowed)
           /\ Len(name) > 0 /\ name[1] \in Allowed
                 => Len(ReplaceInvalid(name)) > 0 /\ ReplaceInvalid(name)[1] = name[1]
<1> DEFINE n == Len(name)
           T == Seq(Allowed)
           Next(s, i) == IF name[i] \in Allowed THEN Append(s, name[i])
                         ELSE IF i > 1 /\ name[i - 1] \notin Allowed THEN s
                         ELSE Append(s, "-")
           Def(g) == g = [i \in 0 .. n |-> IF i = 0 THEN <<>> ELSE Next(g[i - 1], i)]
           f == CHOOSE g : Def(g)
           step == [x \in T \X (1 .. n) |-> Next(x[1], x[2])]
           Begins(s) == Len(s) > 0 /\ s[1] = name[1]
<1>1. ReplaceInvalid(name) = f[n]
  BY DEF ReplaceInvalid
<1>2. n \in Nat
  OBVIOUS
<1> HIDE DEF n
<1>3. <<>> \in T /\ "-" \in Allowed
  BY DEF Allowed
<1>4. ASSUME NEW s \in T, NEW i \in 1 .. n
      PROVE  /\ Next(s, i) \in T
             /\ Begins(s) => Begins(Next(s, i))
  <2>1. ASSUME NEW c \in Allowed
        PROVE  Append(s, c) \in T /\ (Begins(s) => Begins(Append(s, c)))
    OBVIOUS
  <2>2. CASE name[i] \in Allowed
    BY <2>1, <2>2
  <2>3. CASE name[i] \notin Allowed
    BY <1>3, <2>1, <2>3
  <2> QED
    BY <2>2, <2>3
<1>5. ASSUME n > 0, name[1] \in Allowed PROVE Begins(Next(<<>>, 1))
  BY <1>5
<1> HIDE DEF T, Next, Begins
<1>6. \E g : Def(g)
  <2>1. step \in [T \X (1 .. n) -> T]
    BY <1>4
  <2>2. PICK g \in [0 .. n -> T] : Solves(g, <<>>, n, step)
    <3> HIDE DEF step
    <3> QED
      BY <1>2, <1>3, <2>1, Recursion
  <2>3. ASSUME NEW i \in 0 .. n
        PROVE  g[i] = IF i = 0 THEN <<>> ELSE Next(g[i - 1], i)
    <3>1. CASE i = 0
      BY <2>2, <3>1 DEF Solves
    <3>2. CASE i # 0
      <4>1. <<g[i - 1], i>> \in T \X (1 .. n)
        BY <1>2, <3>2
      <4> QED
        BY <1>2, <2>2, <3>2, <4>1 DEF Solves
    <3> QED
      BY <3>1, <3>2
  <2>4. Def(g)
    BY <2>3
  <2> QED
    BY <2>4
<1>7. Def(f)
  BY <1>6
<1>8. \A i \in 0 .. n : f[i] = IF i = 0 THEN <<>> ELSE Next(f[i - 1], i)
  <2> HIDE DEF f
  <2> QED BY <1>7
<1> HIDE DEF f
<1> DEFINE S == {i \in 0 .. n : f[i] \in T /\ (i > 0 /\ name[1] \in Allowed => Begins(f[i]))}
<1>9. 0 \in S
  <2>1. f[0] = <<>> /\ 0 \in 0 .. n
    BY <1>2, <1>8
  <2> QED
    BY <1>3, <2>1
<1>10. ASSUME NEW i \in 1 .. n, i - 1 \in S PROVE i \in S
  <2>1. f[i] = Next(f[i - 1], i) /\ f[i - 1] \in T /\ i \in 0 .. n
    BY <1>2, <1>8, <1>10
  <2>2. f[i] \in T
    BY <1>4, <2>1
  <2>3. ASSUME name[1] \in Allowed PROVE Begins(f[i])
    <3>1. CASE i = 1
      <4>1. f[0] = <<>> /\ n > 0
        BY <1>2, <1>8, <3>1
      <4> QED
        BY <1>5, <2>1, <2>3, <3>1, <4>1
    <3>2. CASE i # 1
      <4>1. i - 1 > 0
        BY <1>2, <3>2
      <4>2. Begins(f[i - 1])
        BY <1>10, <2>3, <4>1
      <4> QED
        BY <1>4, <2>1, <4>2
    <3> QED
      BY <3>1, <3>2
  <2> QED
    BY <2>1, <2>2, <2>3
<1>11. n \in S
  <2> HIDE DEF S
  <2>1. \A i \in 0 .. n : i \in S
    BY <1>2, <1>9, <1>10, Induction
  <2> QED
    BY <1>2, <2>1
<1> QED
  BY <1>1, <1>11 DEF T, Begins, n

\* A beginning of the name that is short enough is left, a first character stays.
LEMMA TruncatedIs ==
    ASSUME NEW A, NEW name \in Seq(A)
    PROVE  /\ Truncate(name) \in Seq(A)
           /\ Len(Truncate(name)) \in 0 .. DNS1123LabelMaxLength
           /\ Len(name) > 0 => Len(Truncate(name)) > 0 /\ Truncate(name)[1] = name[1]
<1> DEFINE k == Min({Len(name), DNS1123LabelMaxLength})
<1>1. Len(name) \in Nat /\ DNS1123LabelMaxLength \in Nat /\ DNS1123LabelMaxLength > 0
  BY LabelLengthAssumption
<1>2. k \in {Len(name), DNS1123LabelMaxLength} /\ k <= Len(name) /\ k <= DNS1123LabelMaxLength
  BY <1>1, MinIsLeast
<1>3. Truncate(name) = SubSeq(name, 1, k)
  BY DEF Truncate
<1> HIDE DEF k
<1>4. k \in 0 .. Len(name) /\ k \in 0 .. DNS1123LabelMaxLength /\ (Len(name) > 0 => k > 0)
  BY <1>1, <1>2
<1>5. /\ SubSeq(name, 1, k) \in Seq(A) /\ Len(SubSeq(name, 1, k)) = k
      /\ k > 0 => SubSeq(name, 1, k)[1] = name[1]
  BY <1>4
<1> QED
  BY <1>3, <1>4, <1>5

\* What is left begins and ends with something else than a dash, and is not longer.
LEMMA TrimmedIs ==
    ASSUME NEW A, NEW name \in Seq(A)
    PROVE  /\ TrimDashes(name) \in Seq(A)
           /\ Len(TrimDashes(name)) \in 0 .. Len(name)
           /\ TrimDashes(name) # <<>>
                 => TrimDashes(name)[1] # "-" /\ TrimDashes(name)[Len(TrimDashes(name))] # "-"
           /\ Len(name) > 0 /\ name[1] # "-"
                 => Len(TrimDashes(name)) > 0 /\ TrimDashes(name)[1] = name[1]
<1> DEFINE kept == {i \in DOMAIN name : name[i] # "-"}
<1>1. CASE kept = {}
  <2>1. TrimDashes(name) = <<>>
    BY <1>1 DEF TrimDashes
  <2> QED
    BY <1>1, <2>1
<1>2. CASE kept # {}
  <2> DEFINE i == Min(kept)
             j == Max(kept)
  <2>1. kept \in SUBSET Nat /\ (\A x \in kept : x <= Len(name)) /\ Len(name) \in Nat
    OBVIOUS
  <2>2. /\ i \in kept /\ \A x \in kept : i <= x
        /\ j \in kept /\ \A x \in kept : x <= j
    <3> HIDE DEF kept
    <3> QED BY <1>2, <2>1, MinIsLeast, MaxIsGreatest
  <2>3. TrimDashes(name) = SubSeq(name, i, j)
    BY <1>2 DEF TrimDashes
  <2> HIDE DEF i, j
  <2>4. i \in 1 .. Len(name) /\ j \in 1 .. Len(name) /\ i <= j /\ name[i] # "-" /\ name[j] # "-"
    BY <2>2
  <2>5. Len(name) > 0 /\ name[1] # "-" => i = 1
    BY <2>2
  <2> HIDE DEF kept
  <2> DEFINE s == SubSeq(name, i, j)
  <2>6. s \in Seq(A) /\ Len(s) = (j - i) + 1 /\ s[1] = name[i] /\ s[(j - i) + 1] = name[j]
    BY <2>4
  <2> HIDE DEF s
  <2>7. Len(s) \in 1 .. Len(name)
    BY <2>4, <2>6
  <2>8. s[1] # "-" /\ s[Len(s)] # "-" /\ (Len(name) > 0 /\ name[1] # "-" => s[1] = name[1])
    BY <2>4, <2>5, <2>6
  <2> QED
    BY <2>3, <2>6, <2>7, <2>8 DEF s
<1> QED
  BY <1>1, <1>2

\* Whatever name a secret or a config map has, what is left of the volume name is
\* empty or a name the API server takes, and one that begins with a letter begins with
\* that letter still (SanitizeVolumeName, where the name is cut before it is trimmed).
THEOREM SanitizedIsLabel ==
    ASSUME NEW A, NEW name \in Seq(A)
    PROVE  /\ SanitizeVolumeName(name) # <<>> => IsDNSLabel(SanitizeVolumeName(name))
           /\ Len(name) > 0 /\ name[1] \in Letters \ {"A", "-"} =>
                 /\ SanitizeVolumeName(name) # <<>>
                 /\ SanitizeVolumeName(name)[1] = name[1]
<1> DEFINE a == ToLower(name)
           b == ReplaceInvalid(a)
           c == Truncate(b)
           d == TrimDashes(c)
<1>1. SanitizeVolumeName(name) = d
  BY DEF SanitizeVolumeName
<1>2. /\ a \in Seq(A \cup {"a"}) /\ Len(a) = Len(name)
      /\ Len(name) > 0 /\ name[1] # "A" => a[1] = name[1]
  BY DEF ToLower
<1> HIDE DEF a
<1>3. /\ b \in Seq(Allowed)
      /\ Len(a) > 0 /\ a[1] \in Allowed => Len(b) > 0 /\ b[1] = a[1]
  BY <1>2, ReplacedIs
<1> HIDE DEF b
<1>4. /\ c \in Seq(Allowed) /\ Len(c) \in 0 .. DNS1123LabelMaxLength
      /\ Len(b) > 0 => Len(c) > 0 /\ c[1] = b[1]
  BY <1>3, TruncatedIs
<1> HIDE DEF c
<1>5. /\ d \in Seq(Allowed) /\ Len(d) \in 0 .. Len(c)
      /\ d # <<>> => d[1] # "-" /\ d[Len(d)] # "-"
      /\ Len(c) > 0 /\ c[1] # "-" => Len(d) > 0 /\ d[1] = c[1]
  BY <1>4, TrimmedIs
<1> HIDE DEF d
<1>6. ASSUME d # <<>> PROVE IsDNSLabel(d)
  <2>1. Len(d) \in 1 .. DNS1123LabelMaxLength
    BY <1>4, <1>5, <1>6, LabelLengthAssumption
  <2>2. ToSet(d) \subseteq Allowed
    BY <1>5 DEF ToSet
  <2> QED
    BY <1>5, <1>6, <2>1, <2>2 DEF IsDNSLabel
<1>7. ASSUME Len(name) > 0, name[1] \in Letters \ {"A", "-"} PROVE d # <<>> /\ d[1] = name[1]
  <2>1. a[1] \in Allowed /\ a[1] = name[1] /\ Len(a) > 0
    BY <1>2, <1>7 DEF Allowed
  <2>2. Len(c) > 0 /\ c[1] = name[1]
    BY <1>3, <1>4, <2>1
  <2> QED
    BY <1>5, <1>7, <2>2
<1> QED
  BY <1>1, <1>6, <1>7
=============================================================================
