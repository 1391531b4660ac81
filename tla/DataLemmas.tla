----------------------------- MODULE DataLemmas -----------------------------
(****************************************************************************)
(* What the proofs of several components need of numbers, sequences and     *)
(* sets.  Induction over data is done here without an operator as a         *)
(* parameter: a set of natural numbers that is not empty has a least        *)
(* element, so what fails somewhere fails first somewhere.                  *)
(****************************************************************************)
EXTENDS Integers, SequencesExt, SequenceTheorems, FiniteSetTheorems,
        WellFoundedInduction, TLAPS

(* A set of natural numbers that is not empty has a least element.          *)
LEMMA LeastNat ==
  ASSUME NEW T, T \subseteq Nat, T # {}
  PROVE  \E x \in T : \A y \in T : x <= y
<1> DEFINE R == OpToRel(<, Nat)
<1>1. IsWellFoundedOn(R, Nat) BY NatLessThanWellFounded
<1> HIDE DEF R
<1>2. PICK x \in T : \A y \in T : ~ (<<y, x>> \in R) BY <1>1, WFMin
<1>3. \A a, b \in Nat : b < a => <<b, a>> \in R BY DEF R, OpToRel
<1>4. \A y \in T : ~ (y < x) BY <1>2, <1>3, Zenon
<1> QED BY <1>4

(* Induction up to a number.                                                *)
LEMMA CountUp ==
  ASSUME NEW n \in Nat, NEW Good, 0 \in Good,
         \A k \in 1 .. n : k - 1 \in Good => k \in Good
  PROVE  n \in Good
<1> DEFINE Bad == {k \in 0 .. n : k \notin Good}
<1>1. Bad = {}
  <2> SUFFICES ASSUME Bad # {} PROVE FALSE OBVIOUS
  <2>1. Bad \subseteq Nat OBVIOUS
  <2>2. PICK k \in Bad : \A m \in Bad : k <= m
    <3> HIDE DEF Bad
    <3> QED BY <2>1, LeastNat
  <2>3. k \in 1 .. n /\ k - 1 \in 0 .. n /\ ~(k <= k - 1) BY <2>2
  <2>4. k - 1 \in Good BY <2>2, <2>3
  <2> QED BY <2>2, <2>3, <2>4
<1>2. n \in 0 .. n OBVIOUS
<1> QED BY <1>1, <1>2

(* Flattening stays within a set of sequences that concatenation closes.    *)
LEMMA FlattenClosed ==
  ASSUME NEW Good, NEW seqs \in Seq(Good), <<>> \in Good,
         \A a, b \in Good : a \o b \in Good
  PROVE  FlattenSeq(seqs) \in Good
<1> DEFINE n == Len(seqs)
           Upto(k, g) == g = [i \in 1 .. k |-> IF i = 1 THEN seqs[i] ELSE g[i - 1] \o seqs[i]]
           Bad == {k \in 1 .. n : ~ \E g \in [1 .. k -> Good] : Upto(k, g)}
<1>1. n \in Nat /\ \A i \in 1 .. n : seqs[i] \in Good OBVIOUS
<1>2. CASE n = 0
  <2>1. seqs = <<>> BY <1>2
  <2>2. FlattenSeq(seqs) = seqs BY <1>2 DEF FlattenSeq
  <2> QED BY <2>1, <2>2
<1>3. CASE n # 0
  <2>1. Bad = {}
    <3> SUFFICES ASSUME Bad # {} PROVE FALSE OBVIOUS
    <3>1. PICK k \in Bad : \A m \in Bad : k <= m
      <4>1. Bad \subseteq Nat
        <5> HIDE DEF Upto, n
        <5> QED BY <1>1
      <4> HIDE DEF Bad
      <4> QED BY <4>1, LeastNat
    <3>2. CASE k = 1
      <4> DEFINE g == [i \in 1 .. 1 |-> seqs[i]]
      <4>1. g \in [1 .. 1 -> Good] BY <1>1, <1>3
      <4>2. Upto(1, g) OBVIOUS
      <4> QED BY <3>2, <4>1, <4>2
    <3>3. CASE k # 1
      <4>5. k \in 1 .. n BY <3>1
      <4>1. k - 1 \in 1 .. n /\ k - 1 \notin Bad
        <5>1. k - 1 \in 1 .. n /\ ~(k <= k - 1)
          <6> HIDE DEF n, Bad
          <6> QED BY <1>1, <3>3, <4>5
        <5> HIDE DEF Bad
        <5> QED BY <3>1, <5>1
      <4>2. PICK g \in [1 .. k - 1 -> Good] : Upto(k - 1, g) BY <4>1
      <4> DEFINE h == [i \in 1 .. k |-> IF i = k THEN g[k - 1] \o seqs[k] ELSE g[i]]
      <4>3. h \in [1 .. k -> Good]
        <5>1. g[k - 1] \in Good /\ seqs[k] \in Good BY <1>1, <4>1
        <5>2. g[k - 1] \o seqs[k] \in Good BY <5>1
        <5>3. \A i \in 1 .. k : i # k => g[i] \in Good BY <4>1
        <5> HIDE DEF Bad, Upto
        <5> QED BY <5>2, <5>3
      <4>4. Upto(k, h)
        <5>1. \A i \in 1 .. k - 1 : g[i] = IF i = 1 THEN seqs[i] ELSE g[i - 1] \o seqs[i]
          BY <4>2
        <5>5. \A i \in 1 .. k - 1 : i \in 1 .. k /\ i # k BY <1>1, <4>5
        <5>2. \A i \in 1 .. k - 1 : h[i] = g[i] BY <5>5, Zenon
        <5>3. h[k] = g[k - 1] \o seqs[k] /\ k - 1 \in 1 .. k - 1
          <6>1. k \in 1 .. k /\ k - 1 \in 1 .. k - 1
            <7> HIDE DEF n
            <7> QED BY <1>1, <4>5, <4>1
          <6> QED BY <6>1, Zenon
        <5>4. \A i \in 1 .. k : h[i] = IF i = 1 THEN seqs[i] ELSE h[i - 1] \o seqs[i]
          <6> SUFFICES ASSUME NEW i \in 1 .. k
                       PROVE  h[i] = IF i = 1 THEN seqs[i] ELSE h[i - 1] \o seqs[i]
            OBVIOUS
          <6>1. CASE i = k
            <7> HIDE DEF h
            <7> QED BY <3>3, <5>2, <5>3, <6>1
          <6>2. CASE i # k
            <7>1. i \in 1 .. k - 1 /\ (i # 1 => i - 1 \in 1 .. k - 1) BY <6>2
            <7> HIDE DEF h
            <7> QED BY <5>1, <5>2, <7>1
          <6> QED BY <6>1, <6>2
        <5> QED BY <5>4
      <4> QED BY <4>3, <4>4
    <3> QED BY <3>2, <3>3
  <2>2. n \in 1 .. n BY <1>1, <1>3
  <2>3. PICK g \in [1 .. n -> Good] : Upto(n, g) BY <2>1, <2>2
  <2> DEFINE f == CHOOSE f : Upto(n, f)
  <2>4. Upto(n, f) BY <2>3
  <2>5. FlattenSeq(seqs) = f[n] BY <1>3 DEF FlattenSeq
  <2> DEFINE Wrong == {k \in 1 .. n : f[k] \notin Good}
  <2>6. Wrong = {}
    <3> SUFFICES ASSUME Wrong # {} PROVE FALSE OBVIOUS
    <3>1. PICK k \in Wrong : \A m \in Wrong : k <= m
      <4>1. Wrong \subseteq Nat
        <5> HIDE DEF f, n
        <5> QED BY <1>1
      <4> HIDE DEF Wrong
      <4> QED BY <4>1, LeastNat
    <3> HIDE DEF f
    <3>2. f[k] = IF k = 1 THEN seqs[k] ELSE f[k - 1] \o seqs[k] BY <2>4
    <3>3. CASE k = 1 BY <1>1, <3>2, <3>3
    <3>4. CASE k # 1
      <4>1. k - 1 \in 1 .. n /\ k - 1 \notin Wrong BY <3>1, <3>4
      <4>2. f[k - 1] \in Good /\ seqs[k] \in Good BY <1>1, <4>1
      <4>3. f[k - 1] \o seqs[k] \in Good BY <4>2
      <4> QED BY <3>2, <3>4, <4>3
    <3> QED BY <3>3, <3>4
  <2> QED BY <2>2, <2>5, <2>6
<1> QED BY <1>2, <1>3

(* What a concatenation holds, position by position.                        *)
LEMMA Concatenated ==
  ASSUME NEW S, NEW a \in Seq(S), NEW b \in Seq(S)
  PROVE  /\ a \o b \in Seq(S) /\ Len(a) \in Nat /\ Len(b) \in Nat
         /\ Len(a \o b) = Len(a) + Len(b) /\ DOMAIN (a \o b) = 1 .. Len(a) + Len(b)
         /\ DOMAIN a = 1 .. Len(a) /\ DOMAIN b = 1 .. Len(b)
         /\ \A p \in 1 .. Len(a) + Len(b) :
              (a \o b)[p] = IF p <= Len(a) THEN a[p] ELSE b[p - Len(a)]
OBVIOUS

(* What an appended element changes.                                        *)
LEMMA Appended ==
  ASSUME NEW S, NEW s \in Seq(S), NEW e \in S
  PROVE  /\ Append(s, e) \in Seq(S) /\ Len(s) \in Nat /\ Len(Append(s, e)) = Len(s) + 1
         /\ DOMAIN s = 1 .. Len(s) /\ DOMAIN Append(s, e) = 1 .. Len(s) + 1
         /\ Append(s, e)[Len(s) + 1] = e
         /\ \A j \in 1 .. Len(s) : Append(s, e)[j] = s[j]
OBVIOUS

(* What is counted up to k grows by one at most up to k + 1.                *)
LEMMA CountedUpTo ==
  ASSUME NEW S, S \subseteq Nat, NEW k \in Nat, NEW A, NEW B,
         \A p : p \in A <=> p \in S /\ p <= k,
         \A p : p \in B <=> p \in S /\ p <= k + 1
  PROVE  /\ IsFiniteSet(A) /\ Cardinality(A) \in Nat
         /\ k + 1 \in S => Cardinality(B) = Cardinality(A) + 1
         /\ k + 1 \notin S => B = A
<1>1. IsFiniteSet(A)
  <2>1. A \in SUBSET Nat /\ \A s \in A : s <= k OBVIOUS
  <2> QED BY <2>1, FS_BoundedSetOfNaturals
<1>2. Cardinality(A) \in Nat BY <1>1, FS_CardinalityType
<1>3. ASSUME k + 1 \in S PROVE Cardinality(B) = Cardinality(A) + 1
  <2>1. B = A \cup {k + 1}
    <3>1. \A p \in S : p <= k + 1 <=> p <= k \/ p = k + 1 OBVIOUS
    <3> QED BY <1>3, <3>1
  <2>2. k + 1 \notin A OBVIOUS
  <2> QED BY <1>1, <2>1, <2>2, FS_AddElement
<1>4. ASSUME k + 1 \notin S PROVE B = A
  <2>1. \A p \in S : p <= k + 1 <=> p <= k BY <1>4
  <2> QED BY <2>1
<1> QED BY <1>1, <1>2, <1>3, <1>4

(* Sums.  `sums` is the recursive function behind the fold of a sequence of *)
(* length top: the sum of the elements at the positions in a set.           *)
Sums(sums, top, counts) ==
  sums = [s \in SUBSET (1 .. top) |->
           IF s = {} THEN 0 ELSE sums[s \ {Max(s)}] + counts[Max(s)]]

LEMMA TopIsMax ==
  ASSUME NEW k \in Nat, NEW s \in SUBSET (1 .. k), k \in s
  PROVE  Max(s) = k
<1>1. \A y \in s : k >= y /\ y \in Nat OBVIOUS
<1>2. \A x \in s : (\A y \in s : x >= y) => x = k BY <1>1
<1>3. \E x : x \in s /\ \A y \in s : x >= y BY <1>1
<1> DEFINE m == CHOOSE x \in s : \A y \in s : x >= y
<1>4. m \in s /\ \A y \in s : m >= y BY <1>3, Zenon
<1> QED BY <1>2, <1>4 DEF Max

LEMMA FirstSums ==
  ASSUME NEW top \in Nat, NEW counts, NEW sums, Sums(sums, top, counts)
  PROVE  /\ sums[1 .. 0] = 0
         /\ \A j \in 1 .. top : sums[1 .. j] = sums[1 .. j - 1] + counts[j]
<1>1. \A s \in SUBSET (1 .. top) :
        sums[s] = IF s = {} THEN 0 ELSE sums[s \ {Max(s)}] + counts[Max(s)]
  BY Zenon DEF Sums
<1>2. 1 .. 0 = {} /\ {} \in SUBSET (1 .. top) OBVIOUS
<1>3. ASSUME NEW j \in 1 .. top PROVE sums[1 .. j] = sums[1 .. j - 1] + counts[j]
  <2>1. 1 .. j \in SUBSET (1 .. top) /\ 1 .. j # {} /\ j \in 1 .. j /\ j \in Nat BY <1>3
  <2>2. Max(1 .. j) = j BY <2>1, TopIsMax
  <2>3. (1 .. j) \ {j} = 1 .. j - 1 BY <2>1
  <2> QED BY <1>1, <2>1, <2>2, <2>3, Zenon
<1> QED BY <1>1, <1>2, <1>3

LEMMA SumsExist ==
  ASSUME NEW top \in Nat, NEW counts
  PROVE  \E sums : Sums(sums, top, counts)
<1> DEFINE Bad == {k \in 0 .. top : ~ \E sums : Sums(sums, k, counts)}
<1> SUFFICES ASSUME Bad # {} PROVE FALSE OBVIOUS
<1>1. PICK k \in Bad : \A m \in Bad : k <= m
  <2>1. Bad \subseteq Nat OBVIOUS
  <2> HIDE DEF Bad
  <2> QED BY <2>1, LeastNat
<1>2. k \in 0 .. top BY <1>1
<1>3. CASE k = 0
  <2> DEFINE h == [s \in SUBSET (1 .. 0) |-> 0]
  <2>1. \A s \in SUBSET (1 .. 0) : s = {} OBVIOUS
  <2>2. Sums(h, 0, counts) BY <2>1 DEF Sums
  <2> QED BY <1>1, <1>3, <2>2
<1>4. CASE k # 0
  <2>1. k - 1 \in 0 .. top /\ ~(k <= k - 1) BY <1>2, <1>4
  <2>2. PICK g : Sums(g, k - 1, counts) BY <1>1, <2>1
  <2> DEFINE h == [s \in SUBSET (1 .. k) |->
                    IF k \in s THEN g[s \ {k}] + counts[k] ELSE g[s]]
  <2>3. \A s \in SUBSET (1 .. k) : s \ {k} \in SUBSET (1 .. k - 1) BY <1>2
  <2>4. \A s \in SUBSET (1 .. k - 1) :
          g[s] = IF s = {} THEN 0 ELSE g[s \ {Max(s)}] + counts[Max(s)]
    BY <2>2, Zenon DEF Sums
  <2>5. ASSUME NEW s \in SUBSET (1 .. k)
        PROVE  h[s] = IF s = {} THEN 0 ELSE h[s \ {Max(s)}] + counts[Max(s)]
    <3>1. CASE k \in s
      <4>1. Max(s) = k BY <1>2, <3>1, TopIsMax
      <4>2. h[s] = g[s \ {k}] + counts[k] /\ s # {} BY <3>1
      <4>3. s \ {k} \in SUBSET (1 .. k) /\ k \notin s \ {k} OBVIOUS
      <4>4. h[s \ {k}] = g[s \ {k}] BY <4>3, Zenon
      <4> HIDE DEF h
      <4> QED BY <4>1, <4>2, <4>4
    <3>2. CASE k \notin s
      <4>1. h[s] = g[s] /\ s \in SUBSET (1 .. k - 1)
        <5>1. s \ {k} = s BY <3>2
        <5> QED BY <3>2, <2>3, <5>1
      <4>2. s \ {Max(s)} \in SUBSET (1 .. k) /\ k \notin s \ {Max(s)} BY <3>2
      <4>3. h[s \ {Max(s)}] = g[s \ {Max(s)}] BY <4>2, Zenon
      <4> HIDE DEF h
      <4> QED BY <2>4, <4>1, <4>3
    <3> QED BY <3>1, <3>2
  <2>6. Sums(h, k, counts)
    <3> DEFINE e == [s \in SUBSET (1 .. k) |->
                      IF s = {} THEN 0 ELSE h[s \ {Max(s)}] + counts[Max(s)]]
    <3>1. \A s \in SUBSET (1 .. k) : h[s] = e[s] BY <2>5, Zenon
    <3>2. h = e BY <3>1, Zenon
    <3> HIDE DEF h
    <3> QED BY <3>2, Zenon DEF Sums
  <2> HIDE DEF h
  <2> QED BY <1>1, <2>6, Zenon
<1> QED BY <1>3, <1>4

(* Two sums over the same numbers agree as far as the numbers do.           *)
LEMMA SumsAgree ==
  ASSUME NEW m \in Nat, NEW n \in Nat, m <= n, NEW a, NEW b, NEW g, NEW h,
         \A i \in 1 .. m : a[i] = b[i] /\ a[i] \in Nat,
         Sums(g, m, a), Sums(h, n, b)
  PROVE  \A j \in 0 .. m : g[1 .. j] = h[1 .. j] /\ g[1 .. j] \in Nat
<1> DEFINE Good(j) == g[1 .. j] = h[1 .. j] /\ g[1 .. j] \in Nat
           Bad == {j \in 0 .. m : ~Good(j)}
<1> SUFFICES ASSUME Bad # {} PROVE FALSE OBVIOUS
<1>1. g[1 .. 0] = 0 /\ \A j \in 1 .. m : g[1 .. j] = g[1 .. j - 1] + a[j]
  BY FirstSums
<1>2. h[1 .. 0] = 0 /\ \A j \in 1 .. m : h[1 .. j] = h[1 .. j - 1] + b[j]
  <2>1. h[1 .. 0] = 0 /\ \A j \in 1 .. n : h[1 .. j] = h[1 .. j - 1] + b[j]
    BY FirstSums
  <2>2. \A j \in 1 .. m : j \in 1 .. n OBVIOUS
  <2> QED BY <2>1, <2>2
<1>3. PICK j \in Bad : \A i \in Bad : j <= i
  <2>1. Bad \subseteq Nat OBVIOUS
  <2> HIDE DEF Bad
  <2> QED BY <2>1, LeastNat
<1>4. j \in 0 .. m /\ ~Good(j) BY <1>3
<1>5. j # 0 BY <1>1, <1>2, <1>4
<1>6. j \in 1 .. m /\ j - 1 \in 0 .. m /\ ~(j <= j - 1) BY <1>4, <1>5
<1>7. Good(j - 1) BY <1>3, <1>6
<1>8. g[1 .. j] = g[1 .. j - 1] + a[j] /\ h[1 .. j] = h[1 .. j - 1] + b[j]
  BY <1>1, <1>2, <1>6
<1>9. a[j] = b[j] /\ a[j] \in Nat BY <1>6
<1>10. g[1 .. j - 1] = h[1 .. j - 1] /\ g[1 .. j - 1] \in Nat BY <1>7
<1> HIDE DEF Bad
<1>11. g[1 .. j] = h[1 .. j] BY <1>8, <1>9, <1>10, Zenon
<1>12. \A x, y \in Nat : x + y \in Nat OBVIOUS
<1>13. g[1 .. j] \in Nat BY <1>8, <1>9, <1>10, <1>12, Zenon
<1> QED BY <1>4, <1>11, <1>13

LEMMA SumIsNat ==
  ASSUME NEW counts \in Seq(Nat), NEW sums, Sums(sums, Len(counts), counts)
  PROVE  sums[1 .. Len(counts)] \in Nat
<1> DEFINE n == Len(counts)
<1>1. n \in Nat /\ \A i \in 1 .. n : counts[i] \in Nat OBVIOUS
<1>2. Sums(sums, n, counts) OBVIOUS
<1> HIDE DEF n
<1>3. \A j \in 0 .. n : sums[1 .. j] \in Nat
  <2>1. \A i \in 1 .. n : counts[i] = counts[i] /\ counts[i] \in Nat BY <1>1
  <2>2. n <= n BY <1>1
  <2> QED BY <1>1, <1>2, <2>1, <2>2, SumsAgree, Zenon
<1>4. n \in 0 .. n BY <1>1
<1>5. sums[1 .. n] \in Nat BY <1>3, <1>4
<1> QED BY <1>5 DEF n

(* The sum of a sequence of natural numbers is one.                         *)
LEMMA FoldedSum ==
  ASSUME NEW counts \in Seq(Nat)
  PROVE  FoldLeft(+, 0, counts) \in Nat
<1> DEFINE sums == CHOOSE sums : Sums(sums, Len(counts), counts)
<1>1. DOMAIN counts = 1 .. Len(counts) /\ Len(counts) \in Nat OBVIOUS
<1>2. FoldLeft(+, 0, counts) = sums[1 .. Len(counts)]
  BY <1>1, Zenon DEF FoldLeft, MapThenFoldSet, Sums
<1>3. Sums(sums, Len(counts), counts)
  <2>1. \E x : Sums(x, Len(counts), counts) BY <1>1, SumsExist
  <2> QED BY <2>1, Zenon
<1> HIDE DEF sums
<1>4. sums[1 .. Len(counts)] \in Nat BY <1>3, SumIsNat
<1> QED BY <1>2, <1>4

(* Of finite sets there is one with no other of them below it.              *)
LEMMA LeastSet ==
  ASSUME NEW T, T # {}, \A s \in T : IsFiniteSet(s)
  PROVE  \E s \in T : \A r \in T : r \subseteq s => r = s
<1> DEFINE Sizes == {Cardinality(s) : s \in T}
<1>1. Sizes \subseteq Nat /\ Sizes # {} BY FS_CardinalityType
<1>2. PICK n \in Sizes : \A m \in Sizes : n <= m
  <2> HIDE DEF Sizes
  <2> QED BY <1>1, LeastNat
<1>3. PICK s \in T : n = Cardinality(s) BY <1>2
<1>4. ASSUME NEW r \in T, r \subseteq s PROVE r = s
  <2>1. Cardinality(r) <= Cardinality(s) /\ (Cardinality(s) = Cardinality(r) => s = r)
    BY <1>4, FS_Subset
  <2>2. Cardinality(s) <= Cardinality(r) BY <1>2, <1>3
  <2>3. Cardinality(s) \in Nat /\ Cardinality(r) \in Nat BY FS_CardinalityType
  <2> QED BY <2>1, <2>2, <2>3
<1> QED BY <1>4

(* The recursive function behind MapThenSumSet: the sum of the values of the *)
(* elements of a set, which are taken in the order of CHOOSE.               *)
Some(s) == CHOOSE x \in s : TRUE
SetSums(sums, S, values) ==
  sums = [s \in SUBSET S |-> IF s = {} THEN 0
                             ELSE values[Some(s)] + sums[s \ {Some(s)}]]

LEMMA SetSumsEmpty ==
  ASSUME NEW S, NEW values, NEW sums, SetSums(sums, S, values)
  PROVE  sums[{}] = 0
<1>1. \A s \in SUBSET S :
        sums[s] = IF s = {} THEN 0 ELSE values[Some(s)] + sums[s \ {Some(s)}]
  BY Zenon DEF SetSums
<1>2. {} \in SUBSET S OBVIOUS
<1> QED BY <1>1, <1>2, Zenon

LEMMA SetSumsStep ==
  ASSUME NEW S, NEW values, NEW sums, SetSums(sums, S, values), NEW s \in SUBSET S, s # {}
  PROVE  /\ Some(s) \in s /\ s \ {Some(s)} \in SUBSET S
         /\ sums[s] = values[Some(s)] + sums[s \ {Some(s)}]
<1>1. sums[s] = IF s = {} THEN 0 ELSE values[Some(s)] + sums[s \ {Some(s)}]
  BY Zenon DEF SetSums
<1>2. Some(s) \in s /\ s \ {Some(s)} \in SUBSET S
  <2>1. \E x \in s : TRUE OBVIOUS
  <2>2. Some(s) \in s BY <2>1, Zenon DEF Some
  <2> QED BY <2>2
<1> QED BY <1>1, <1>2, Zenon

(* Sums over the subsets of two sets agree on what both have.               *)
LEMMA SetSumsAgree ==
  ASSUME NEW S, IsFiniteSet(S), NEW T, NEW values,
         NEW g, SetSums(g, S, values), NEW h, SetSums(h, T, values),
         NEW common \in SUBSET (S \cap T)
  PROVE  g[common] = h[common]
<1> DEFINE Bad == {s \in SUBSET (S \cap T) : g[s] # h[s]}
<1> SUFFICES ASSUME Bad # {} PROVE FALSE BY Zenon
<1>1. PICK s \in Bad : \A r \in Bad : r \subseteq s => r = s
  <2>1. \A s \in Bad : IsFiniteSet(s) BY FS_Subset
  <2> HIDE DEF Bad
  <2> QED BY <2>1, LeastSet
<1>2. s \in SUBSET S /\ s \in SUBSET T /\ g[s] # h[s] BY <1>1
<1>3. s # {}
  <2>1. g[{}] = 0 BY SetSumsEmpty
  <2>2. h[{}] = 0 BY SetSumsEmpty
  <2> QED BY <1>2, <2>1, <2>2
<1> DEFINE x == Some(s)
<1>4. /\ x \in s /\ g[s] = values[x] + g[s \ {x}]
      /\ h[s] = values[x] + h[s \ {x}]
  <2>1. x \in s /\ g[s] = values[x] + g[s \ {x}] BY <1>2, <1>3, SetSumsStep
  <2>2. x \in s /\ s \ {x} \in SUBSET T /\ h[s] = values[x] + h[s \ {x}]
    BY <1>2, <1>3, SetSumsStep
  <2> QED BY <2>1, <2>2
<1> HIDE DEF x
<1>5. s \ {x} \notin Bad
  <2>1. s \ {x} \subseteq s /\ s \ {x} # s BY <1>4
  <2> HIDE DEF Bad
  <2> QED BY <1>1, <2>1, Zenon
<1>6. s \ {x} \in SUBSET (S \cap T) BY <1>2
<1>7. g[s \ {x}] = h[s \ {x}] BY <1>5, <1>6
<1> QED BY <1>2, <1>4, <1>7, Zenon

LEMMA SetSumsExist ==
  ASSUME NEW S, IsFiniteSet(S), NEW values
  PROVE  \E sums : SetSums(sums, S, values)
<1> DEFINE Bad == {s \in SUBSET S : ~ \E g : SetSums(g, s, values)}
<1>1. ASSUME Bad # {} PROVE FALSE
  <2>1. PICK s \in Bad : \A r \in Bad : r \subseteq s => r = s
    <3>1. \A s \in Bad : IsFiniteSet(s) BY FS_Subset
    <3> HIDE DEF Bad
    <3> QED BY <1>1, <3>1, LeastSet
  <2> DEFINE G(r) == CHOOSE g : SetSums(g, r, values)
             h == [r \in SUBSET s |-> IF r = {} THEN 0
                     ELSE values[Some(r)] + G(r \ {Some(r)})[r \ {Some(r)}]]
  <2>2. ASSUME NEW r \in SUBSET s, r # s PROVE SetSums(G(r), r, values) /\ IsFiniteSet(r)
    <3>1. r \notin Bad
      <4> HIDE DEF Bad
      <4> QED BY <2>1, <2>2
    <3>2. r \in SUBSET S BY <2>1
    <3>3. \E g : SetSums(g, r, values) BY <3>1, <3>2, Zenon
    <3>4. SetSums(G(r), r, values) BY <3>3, Zenon
    <3>5. IsFiniteSet(r) BY <3>2, FS_Subset
    <3> QED BY <3>4, <3>5
  <2> HIDE DEF Bad, G
  <2>3. ASSUME NEW r \in SUBSET s, r # s PROVE h[r] = G(r)[r]
    <3>1. SetSums(G(r), r, values) /\ IsFiniteSet(r) BY <2>2, <2>3
    <3>2. CASE r = {}
      <4>3. G(r)[{}] = 0 BY <3>1, SetSumsEmpty
      <4> QED BY <3>2, <4>3
    <3>3. CASE r # {}
      <4> DEFINE x == Some(r)
                 t == r \ {x}
      <4>1. x \in r /\ t \in SUBSET r /\ G(r)[r] = values[x] + G(r)[t]
        <5>1. r \in SUBSET r OBVIOUS
        <5> QED BY <3>1, <3>3, <5>1, SetSumsStep
      <4>2. h[r] = values[x] + G(t)[t] BY <3>3, Zenon
      <4> HIDE DEF x
      <4>3. t \in SUBSET s /\ t # s BY <4>1
      <4>4. SetSums(G(t), t, values) BY <2>2, <4>3
      <4>5. t \in SUBSET (r \cap t) BY <4>1
      <4> HIDE DEF t, h
      <4>6. G(r)[t] = G(t)[t] BY <3>1, <4>4, <4>5, SetSumsAgree
      <4> QED BY <4>1, <4>2, <4>6, Zenon
    <3> QED BY <3>2, <3>3
  <2>4. ASSUME NEW r \in SUBSET s
        PROVE  h[r] = IF r = {} THEN 0 ELSE values[Some(r)] + h[r \ {Some(r)}]
    <3>1. CASE r = {} BY <3>1, Zenon
    <3>2. CASE r # {}
      <4> DEFINE x == Some(r)
                 t == r \ {x}
      <4>1. h[r] = values[x] + G(t)[t] BY <3>2, Zenon
      <4>2. x \in r
        <5>1. \E y \in r : TRUE BY <3>2
        <5> QED BY <5>1, Zenon DEF Some
      <4> HIDE DEF x, h
      <4>3. t \in SUBSET s /\ t # s BY <4>2
      <4> HIDE DEF t
      <4>4. h[t] = G(t)[t] BY <2>3, <4>3, Zenon
      <4>5. h[r] = values[x] + h[t] BY <4>1, <4>4, Zenon
      <4> QED BY <3>2, <4>5, Zenon DEF x, t
    <3> QED BY <3>1, <3>2
  <2>5. SetSums(h, s, values)
    <3> DEFINE e == [r \in SUBSET s |-> IF r = {} THEN 0
                                        ELSE values[Some(r)] + h[r \ {Some(r)}]]
    <3>1. \A r \in SUBSET s : h[r] = e[r]
      <4>1. \A r \in SUBSET s :
              e[r] = IF r = {} THEN 0 ELSE values[Some(r)] + h[r \ {Some(r)}]
        BY Zenon
      <4> HIDE DEF h, e
      <4> QED BY <2>4, <4>1, Zenon
    <3>2. h = e BY <3>1, Zenon
    <3> HIDE DEF h
    <3> QED BY <3>2, Zenon DEF SetSums
  <2> HIDE DEF h
  <2> QED BY <2>1, <2>5, Zenon DEF Bad
<1>2. S \in SUBSET S OBVIOUS
<1> QED BY <1>1, <1>2, Zenon

(* Any element may be taken first.                                          *)
IntegersOn(S, values) == \A x \in S : values[x] \in Int
SumsWell(sums, S, values) ==
  sums[S] \in Int /\ \A x \in S : sums[S] = values[x] + sums[S \ {x}]

LEMMA SetSumsAny ==
  ASSUME NEW S, IsFiniteSet(S), NEW values, IntegersOn(S, values),
         NEW sums, SetSums(sums, S, values)
  PROVE  SumsWell(sums, S, values)
<1> DEFINE Good(s) == sums[s] \in Int /\ \A x \in s : sums[s] = values[x] + sums[s \ {x}]
           Bad == {s \in SUBSET S : ~Good(s)}
<1>0. S \in SUBSET S /\ \A x \in S : values[x] \in Int BY DEF IntegersOn
<1> SUFFICES ASSUME Bad # {} PROVE FALSE BY <1>0, Zenon DEF SumsWell
<1>1. PICK s \in Bad : \A r \in Bad : r \subseteq s => r = s
  <2>1. \A s \in Bad : IsFiniteSet(s) BY FS_Subset
  <2> HIDE DEF Bad
  <2> QED BY <2>1, LeastSet
<1>2. s \in SUBSET S /\ ~Good(s) BY <1>1
<1>3. \A x \in s : s \ {x} \in SUBSET S /\ Good(s \ {x})
  <2> TAKE x \in s
  <2>1. s \ {x} \in SUBSET S /\ s \ {x} \subseteq s /\ s \ {x} # s BY <1>2
  <2>2. s \ {x} \notin Bad
    <3> HIDE DEF Bad
    <3> QED BY <1>1, <2>1, Zenon
  <2> QED BY <2>1, <2>2, Zenon
<1> HIDE DEF Bad
<1>4. s # {}
  <2>1. sums[{}] = 0 BY SetSumsEmpty
  <2>2. s = {} => Good(s) BY <2>1
  <2> QED BY <1>2, <2>2
<1> DEFINE y == Some(s)
<1>5. y \in s /\ sums[s] = values[y] + sums[s \ {y}]
  <2>1. s \in SUBSET S BY <1>2
  <2> HIDE DEF Good
  <2> QED BY <1>4, <2>1, SetSumsStep
<1> HIDE DEF y
<1>6. sums[s \ {y}] \in Int /\ values[y] \in Int BY <1>0, <1>2, <1>3, <1>5
<1>7. sums[s] \in Int
  <2> HIDE DEF Good
  <2> QED BY <1>5, <1>6
<1>8. ASSUME NEW x \in s PROVE sums[s] = values[x] + sums[s \ {x}]
  <2>1. CASE x = y BY <1>5, <2>1
  <2>2. CASE x # y
    <3> DEFINE rest == s \ {x, y}
    <3>1. (s \ {y}) \ {x} = rest /\ (s \ {x}) \ {y} = rest
          /\ x \in s \ {y} /\ y \in s \ {x} BY <1>5, <2>2
    <3>2. sums[s \ {y}] = values[x] + sums[rest] BY <1>3, <1>5, <3>1, Zenon
    <3>3. sums[s \ {x}] = values[y] + sums[rest] BY <1>3, <1>5, <3>1, Zenon
    <3>4. rest \in SUBSET S /\ values[x] \in Int BY <1>0, <1>2
    <3>5. sums[rest] \in Int
      <4>1. sums[s \ {x}] \in Int /\ Good(s \ {y}) BY <1>3, <1>5
      <4>2. rest \in SUBSET (s \ {y}) OBVIOUS
      <4>3. Good(rest)
        <5>1. rest \notin Bad
          <6>1. rest \subseteq s /\ rest # s BY <1>5
          <6> QED BY <1>1, <6>1, Zenon
        <5> QED BY <3>4, <5>1, Zenon DEF Bad
      <4> QED BY <4>3
    <3> HIDE DEF rest, Good
    <3>6. \A a, b, c \in Int : a + (b + c) = b + (a + c) OBVIOUS
    <3>7. sums[s] = values[y] + (values[x] + sums[rest]) BY <1>5, <3>2, Zenon
    <3>8. values[x] + sums[s \ {x}] = values[x] + (values[y] + sums[rest]) BY <3>3, Zenon
    <3>9. values[y] + (values[x] + sums[rest]) = values[x] + (values[y] + sums[rest])
      BY <1>6, <3>4, <3>5, <3>6, Zenon
    <3> QED BY <3>7, <3>8, <3>9, Zenon
  <2> QED BY <2>1, <2>2
<1> QED BY <1>2, <1>7, <1>8

(* What one element more adds to a sum.                                     *)
LEMMA SetSumGrows ==
  ASSUME NEW S, IsFiniteSet(S), NEW x, x \notin S, NEW values,
         IntegersOn(S \cup {x}, values),
         NEW g, SetSums(g, S, values), NEW h, SetSums(h, S \cup {x}, values)
  PROVE  g[S] \in Int /\ h[S \cup {x}] = g[S] + values[x]
<1>1. PICK T : T = S \cup {x} OBVIOUS
<1>2. /\ IsFiniteSet(T) /\ x \in T /\ T \ {x} = S /\ S \in SUBSET (S \cap T)
      /\ SetSums(h, T, values)
  BY <1>1, FS_AddElement
<1>3. IntegersOn(T, values) BY <1>1
<1>4. values[x] \in Int BY <1>2, <1>3 DEF IntegersOn
<1>5. h[T] = values[x] + h[T \ {x}]
  <2>1. SumsWell(h, T, values) BY <1>2, <1>3, SetSumsAny
  <2> QED BY <1>2, <2>1, Zenon DEF SumsWell
<1>6. g[S] = h[S] BY <1>2, SetSumsAgree
<1>7. g[S] \in Int
  <2>1. IntegersOn(S, values) BY DEF IntegersOn
  <2>2. SumsWell(g, S, values) BY <2>1, SetSumsAny
  <2> QED BY <2>2 DEF SumsWell
<1>8. h[T] = values[x] + g[S] BY <1>2, <1>5, <1>6, Zenon
<1>9. h[T] = g[S] + values[x] BY <1>4, <1>7, <1>8
<1> QED BY <1>1, <1>7, <1>9, Zenon
=============================================================================
