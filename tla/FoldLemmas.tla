----------------------------- MODULE FoldLemmas -----------------------------
(***************************************************************************)
(* Facts about natural numbers and folds that the proofs of the components *)
(* share.  Induction takes a set of numbers where the library takes an     *)
(* operator, and a fold's step is a function, so that both can be          *)
(* instantiated.                                                           *)
(***************************************************************************)
EXTENDS Integers, Sequences, SequencesExt, SequenceTheorems, WellFoundedInduction, TLAPS

\* Induction over a set of numbers.
LEMMA SetInduction ==
  ASSUME NEW P \in SUBSET Nat, 0 \in P, \A n \in P : n + 1 \in P
  PROVE  P = Nat
<1> SUFFICES ASSUME Nat \ P # {} PROVE FALSE
  OBVIOUS
<1>1. PICK m \in Nat \ P : \A n \in Nat \ P : <<n, m>> \notin OpToRel(<, Nat)
  BY NatLessThanWellFounded, WFMin
<1>2. m - 1 \in Nat /\ m - 1 < m
  OBVIOUS
<1>3. m - 1 \in P
  BY <1>1, <1>2 DEF OpToRel
<1>4. (m - 1) + 1 \in P
  BY <1>3
<1> QED BY <1>4

\* A bounded, nonempty set of numbers has a greatest element.
LEMMA MaxIsGreatest ==
  ASSUME NEW L \in SUBSET Nat, L # {}, NEW d \in Nat, \A i \in L : i <= d
  PROVE  /\ Max(L) \in L
         /\ \A i \in L : i <= Max(L)
<1> DEFINE D == {d - i : i \in L}
<1>1. D \in SUBSET Nat /\ D # {}
  <2>1. \A i \in L : d - i \in Nat
    OBVIOUS
  <2> QED BY <2>1
<1>2. PICK m \in D : \A n \in D : <<n, m>> \notin OpToRel(<, Nat)
  BY <1>1, NatLessThanWellFounded, WFMin
<1>3. PICK i \in L : m = d - i
  OBVIOUS
<1>4. ASSUME NEW j \in L PROVE i >= j
  <2>1. d - j \in D /\ d - j \in Nat /\ m \in Nat
    BY <1>1
  <2>2. ~(d - j < m)
    BY <1>2, <2>1 DEF OpToRel
  <2> QED BY <1>3, <2>1, <2>2
<1>5. /\ Max(L) \in L
      /\ \A j \in L : Max(L) >= j
  BY <1>4 DEF Max
<1> QED BY <1>5

\* A nonempty set of indices holds its greatest one.
LEMMA MaxIsMember ==
  ASSUME NEW n \in Nat, NEW s \in SUBSET (1 .. n), s # {}
  PROVE  Max(s) \in s
BY MaxIsGreatest

\* g folds the elements of seq at every set of indices below n, the last first.
FoldsBelow(base, step, seq, n, g) ==
  g = [s \in SUBSET (1 .. n) |->
         IF s = {} THEN base ELSE step[<<g[s \ {Max(s)}], seq[Max(s)]>>]]

IsFold(base, step, seq, g) ==
  \A s \in SUBSET DOMAIN seq :
    g[s] = IF s = {} THEN base ELSE step[<<g[s \ {Max(s)}], seq[Max(s)]>>]

\* The recursive function a fold is defined by exists.
LEMMA FoldExists ==
  ASSUME NEW A, NEW S, NEW base \in A, NEW step \in [A \X S -> A], NEW seq \in Seq(S)
  PROVE  \E g \in [SUBSET DOMAIN seq -> A] : IsFold(base, step, seq, g)
<1> DEFINE Folds(n, g) ==
             g \in [SUBSET (1 .. n) -> A] /\ FoldsBelow(base, step, seq, n, g)
           P == {n \in Nat : n <= Len(seq) => \E g : Folds(n, g)}
<1> HIDE DEF Folds
<1>1. 0 \in P
  <2> DEFINE g == [s \in SUBSET (1 .. 0) |-> base]
  <2>1. 1 .. 0 = {}
    OBVIOUS
  <2>2. \A s \in SUBSET (1 .. 0) : s = {}
    BY <2>1
  <2>3. g \in [SUBSET (1 .. 0) -> A]
    OBVIOUS
  <2>4. Folds(0, g)
    BY <2>2, <2>3 DEF Folds, FoldsBelow
  <2> QED BY <2>4
<1>2. ASSUME NEW n \in P PROVE n + 1 \in P
  <2> SUFFICES ASSUME n + 1 <= Len(seq) PROVE \E g : Folds(n + 1, g)
    OBVIOUS
  <2>1. n \in Nat /\ n <= Len(seq)
    OBVIOUS
  <2> PICK g : Folds(n, g)
    BY <2>1
  <2> HIDE DEF P
  <2> DEFINE h == [s \in SUBSET (1 .. n + 1) |->
                     IF n + 1 \in s THEN step[<<g[s \ {n + 1}], seq[n + 1]>>] ELSE g[s]]
  <2>2. seq[n + 1] \in S
    BY <2>1
  <2>3. \A s \in SUBSET (1 .. n + 1) : s \ {n + 1} \in SUBSET (1 .. n)
    BY <2>1
  <2>4. \A s \in SUBSET (1 .. n + 1) : n + 1 \notin s => s \in SUBSET (1 .. n)
    BY <2>1
  <2>5. /\ g \in [SUBSET (1 .. n) -> A]
        /\ \A s \in SUBSET (1 .. n) :
             g[s] = IF s = {} THEN base ELSE step[<<g[s \ {Max(s)}], seq[Max(s)]>>]
    BY DEF Folds, FoldsBelow
  <2>6. h \in [SUBSET (1 .. n + 1) -> A]
    <3> SUFFICES ASSUME NEW s \in SUBSET (1 .. n + 1)
                 PROVE  (IF n + 1 \in s THEN step[<<g[s \ {n + 1}], seq[n + 1]>>] ELSE g[s]) \in A
      OBVIOUS
    <3>1. CASE n + 1 \in s
      <4>1. g[s \ {n + 1}] \in A
        BY <2>3, <2>5
      <4> QED BY <2>2, <3>1, <4>1
    <3>2. CASE n + 1 \notin s
      BY <2>4, <2>5, <3>2
    <3> QED BY <3>1, <3>2
  <2>7. ASSUME NEW s \in SUBSET (1 .. n + 1)
        PROVE  h[s] = IF s = {} THEN base ELSE step[<<h[s \ {Max(s)}], seq[Max(s)]>>]
    <3>1. CASE n + 1 \in s
      <4>1. s \in SUBSET Nat /\ s # {} /\ n + 1 \in Nat /\ \A i \in s : i <= n + 1
        BY <2>1, <3>1
      <4> HIDE DEF h
      <4>2. Max(s) \in s /\ \A i \in s : i <= Max(s)
        BY <4>1, MaxIsGreatest
      <4>3. Max(s) = n + 1
        <5>1. PICK m : m = Max(s)
          OBVIOUS
        <5>2. m \in 1 .. n + 1 /\ n + 1 <= m
          BY <3>1, <4>2, <5>1
        <5> QED BY <2>1, <5>1, <5>2
      <4> USE DEF h
      <4>4. n + 1 \notin s \ {n + 1} /\ s \ {n + 1} \in SUBSET (1 .. n + 1)
        OBVIOUS
      <4>5. h[s \ {n + 1}] = g[s \ {n + 1}]
        BY <4>4
      <4> QED BY <3>1, <4>1, <4>3, <4>5
    <3>2. CASE n + 1 \notin s
      <4>1. s \in SUBSET (1 .. n)
        BY <2>4, <3>2
      <4>2. h[s] = g[s]
        BY <3>2
      <4>3. s \ {Max(s)} \in SUBSET (1 .. n + 1) /\ n + 1 \notin s \ {Max(s)}
        BY <3>2
      <4>4. h[s \ {Max(s)}] = g[s \ {Max(s)}]
        BY <4>3
      <4>5. g[s] = IF s = {} THEN base ELSE step[<<g[s \ {Max(s)}], seq[Max(s)]>>]
        BY <2>5, <4>1
      <4> QED BY <4>2, <4>4, <4>5
    <3> QED BY <3>1, <3>2
  <2>8. h = [s \in SUBSET (1 .. n + 1) |->
               IF s = {} THEN base ELSE step[<<h[s \ {Max(s)}], seq[Max(s)]>>]]
    BY <2>7
  <2>9. Folds(n + 1, h)
    BY <2>6, <2>8 DEF Folds, FoldsBelow
  <2> QED BY <2>9
<1>3. P = Nat
  <2>1. P \in SUBSET Nat
    OBVIOUS
  <2> HIDE DEF P
  <2> QED BY <1>1, <1>2, <2>1, SetInduction
<1>4. Len(seq) \in Nat /\ Len(seq) <= Len(seq)
  OBVIOUS
<1>5. PICK g : Folds(Len(seq), g)
  BY <1>3, <1>4
<1>6. DOMAIN seq = 1 .. Len(seq)
  OBVIOUS
<1> QED BY <1>5, <1>6 DEF Folds, FoldsBelow, IsFold

\* g starts at base and takes a step from each index to the next.
IsIteration(base, step, n, g) ==
  g = [i \in 0 .. n |-> IF i = 0 THEN base ELSE step[<<i - 1, g[i - 1]>>]]

\* The function of a loop over 0 .. n exists.
LEMMA IterationExists ==
  ASSUME NEW A, NEW base \in A, NEW N \in Nat, NEW step \in [(0 .. N) \X A -> A]
  PROVE  \E g \in [0 .. N + 1 -> A] : IsIteration(base, step, N + 1, g)
<1> DEFINE Loops(n, g) == g \in [0 .. n -> A] /\ IsIteration(base, step, n, g)
           P == {n \in Nat : n <= N + 1 => \E g : Loops(n, g)}
<1> HIDE DEF Loops
<1>1. 0 \in P
  <2> DEFINE g == [i \in 0 .. 0 |-> base]
  <2>1. g \in [0 .. 0 -> A]
    OBVIOUS
  <2>2. \A i \in 0 .. 0 : g[i] = IF i = 0 THEN base ELSE step[<<i - 1, g[i - 1]>>]
    OBVIOUS
  <2>3. Loops(0, g)
    BY <2>1, <2>2 DEF Loops, IsIteration
  <2> QED BY <2>3
<1>2. ASSUME NEW n \in P PROVE n + 1 \in P
  <2> SUFFICES ASSUME n + 1 <= N + 1 PROVE \E g : Loops(n + 1, g)
    OBVIOUS
  <2>1. n \in Nat /\ n \in 0 .. N /\ n <= N + 1
    OBVIOUS
  <2> PICK g : Loops(n, g)
    BY <2>1
  <2> HIDE DEF P
  <2> DEFINE h == [i \in 0 .. n + 1 |-> IF i = n + 1 THEN step[<<n, g[n]>>] ELSE g[i]]
  <2>2. /\ g \in [0 .. n -> A]
        /\ \A i \in 0 .. n : g[i] = IF i = 0 THEN base ELSE step[<<i - 1, g[i - 1]>>]
    BY DEF Loops, IsIteration
  <2>3. n \in 0 .. n /\ g[n] \in A
    BY <2>1, <2>2
  <2>4. step[<<n, g[n]>>] \in A
    BY <2>1, <2>3
  <2>5. h \in [0 .. n + 1 -> A]
    <3>1. \A i \in 0 .. n + 1 : i # n + 1 => i \in 0 .. n
      BY <2>1
    <3> QED BY <2>2, <2>4, <3>1
  <2>6. ASSUME NEW i \in 0 .. n + 1
        PROVE  h[i] = IF i = 0 THEN base ELSE step[<<i - 1, h[i - 1]>>]
    <3>1. CASE i = n + 1
      <4>1. i # 0 /\ i - 1 = n /\ n \in 0 .. n + 1 /\ n # n + 1
        BY <2>1, <3>1
      <4>2. h[i - 1] = g[n]
        BY <4>1
      <4>3. h[i] = step[<<n, g[n]>>]
        BY <3>1
      <4> QED BY <4>1, <4>2, <4>3
    <3>2. CASE i # n + 1
      <4>1. i \in 0 .. n /\ h[i] = g[i]
        BY <2>1, <3>2
      <4>2. i # 0 => i - 1 \in 0 .. n + 1 /\ i - 1 # n + 1
        BY <2>1, <3>2
      <4>3. i # 0 => h[i - 1] = g[i - 1]
        BY <4>2
      <4>4. g[i] = IF i = 0 THEN base ELSE step[<<i - 1, g[i - 1]>>]
        BY <2>2, <4>1
      <4> QED BY <4>1, <4>3, <4>4
    <3> QED BY <3>1, <3>2
  <2>7. h = [i \in 0 .. n + 1 |-> IF i = 0 THEN base ELSE step[<<i - 1, h[i - 1]>>]]
    BY <2>6
  <2>8. Loops(n + 1, h)
    BY <2>5, <2>7 DEF Loops, IsIteration
  <2> QED BY <2>8
<1>3. P = Nat
  <2>1. P \in SUBSET Nat
    OBVIOUS
  <2> HIDE DEF P
  <2> QED BY <1>1, <1>2, <2>1, SetInduction
<1>4. N + 1 \in Nat /\ N + 1 <= N + 1
  OBVIOUS
<1>5. PICK g : Loops(N + 1, g)
  BY <1>3, <1>4
<1> QED BY <1>5 DEF Loops

\* Taking the greatest index off 1 .. n + 1 leaves 1 .. n.
LEMMA PrefixOfIndices ==
  ASSUME NEW n \in Nat
  PROVE  Max(1 .. n + 1) = n + 1 /\ (1 .. n + 1) \ {n + 1} = 1 .. n
<1>1. /\ 1 .. n + 1 \in SUBSET Nat
      /\ n + 1 \in 1 .. n + 1
      /\ \A i \in 1 .. n + 1 : i <= n + 1
      /\ n + 1 \in Nat
  OBVIOUS
<1>2. Max(1 .. n + 1) \in 1 .. n + 1 /\ \A i \in 1 .. n + 1 : i <= Max(1 .. n + 1)
  BY <1>1, MaxIsGreatest
<1>3. Max(1 .. n + 1) = n + 1
  BY <1>2
<1> QED BY <1>3

\* The sum of f[0], ..., f[n - 1].
SumBelow(f, n) ==
  LET sum[k \in 0 .. n] == IF k = 0 THEN 0 ELSE sum[k - 1] + f[k - 1]
  IN  sum[n]

\* The partial sums of f, one term at a time.
IsPartialSums(f, n, s) ==
  /\ s \in [0 .. n -> Nat]
  /\ s[0] = 0
  /\ \A k \in 0 .. n - 1 : s[k + 1] = s[k] + f[k]

LEMMA SumExists ==
  ASSUME NEW n \in Nat \ {0}, NEW f \in [0 .. n - 1 -> Nat]
  PROVE  \E s : IsPartialSums(f, n, s) /\ SumBelow(f, n) = s[n]
<1> DEFINE step == [c \in (0 .. n - 1) \X Nat |-> c[2] + f[c[1]]]
           Sums(s) == s = [k \in 0 .. n |-> IF k = 0 THEN 0 ELSE s[k - 1] + f[k - 1]]
<1>1. step \in [(0 .. n - 1) \X Nat -> Nat] /\ n - 1 \in Nat /\ (n - 1) + 1 = n
  OBVIOUS
<1>2. \A i \in 0 .. n - 1, a \in Nat : step[<<i, a>>] = a + f[i]
  OBVIOUS
<1> HIDE DEF step
<1>3. PICK g \in [0 .. n -> Nat] : IsIteration(0, step, n, g)
  <2>1. \E g \in [0 .. (n - 1) + 1 -> Nat] : IsIteration(0, step, (n - 1) + 1, g)
    BY <1>1, IterationExists
  <2> QED BY <1>1, <2>1
<1>4. \A k \in 0 .. n : k # 0 => k - 1 \in 0 .. n - 1 /\ k - 1 \in 0 .. n
  OBVIOUS
<1>5. \A k \in 0 .. n : k # 0 => step[<<k - 1, g[k - 1]>>] = g[k - 1] + f[k - 1]
  BY <1>2, <1>3, <1>4
<1>6. g = [k \in 0 .. n |-> IF k = 0 THEN 0 ELSE step[<<k - 1, g[k - 1]>>]]
  BY <1>3 DEF IsIteration
<1>7. Sums(g)
  BY <1>5, <1>6
<1> DEFINE s == CHOOSE h : Sums(h)
<1>8. Sums(s)
  <2> HIDE DEF Sums
  <2> QED BY <1>7
<1>9. SumBelow(f, n) = s[n]
  BY DEF SumBelow
<1> HIDE DEF s
<1>10. s = g
  <2> DEFINE P == {k \in Nat : k <= n => s[k] = g[k]}
  <2>1. \A k \in 0 .. n : s[k] = IF k = 0 THEN 0 ELSE s[k - 1] + f[k - 1]
    BY <1>8
  <2>2. \A k \in 0 .. n : g[k] = IF k = 0 THEN 0 ELSE g[k - 1] + f[k - 1]
    BY <1>7
  <2>3. 0 \in P
    BY <2>1, <2>2
  <2>4. ASSUME NEW k \in P PROVE k + 1 \in P
    <3> SUFFICES ASSUME k + 1 <= n PROVE s[k + 1] = g[k + 1]
      OBVIOUS
    <3>1. k \in Nat /\ s[k] = g[k] /\ k + 1 \in 0 .. n /\ k + 1 # 0 /\ (k + 1) - 1 = k
      OBVIOUS
    <3> HIDE DEF P
    <3> QED BY <2>1, <2>2, <3>1
  <2>5. P = Nat
    <3>1. P \in SUBSET Nat
      OBVIOUS
    <3> HIDE DEF P
    <3> QED BY <2>3, <2>4, <3>1, SetInduction
  <2>6. \A k \in Nat : k <= n => s[k] = g[k]
    BY <2>5
  <2>7. \A k \in 0 .. n : k \in Nat /\ k <= n
    OBVIOUS
  <2> QED BY <1>7, <1>8, <2>6, <2>7
<1>11. g[0] = 0 /\ \A k \in 0 .. n - 1 : g[k + 1] = g[k] + f[k]
  <2>1. \A k \in 0 .. n - 1 : k + 1 \in 0 .. n /\ k + 1 # 0 /\ (k + 1) - 1 = k
    OBVIOUS
  <2> QED BY <1>7, <2>1
<1> QED BY <1>3, <1>9, <1>10, <1>11 DEF IsPartialSums

LEMMA SumType ==
  ASSUME NEW n \in Nat \ {0}, NEW f \in [0 .. n - 1 -> Nat]
  PROVE  SumBelow(f, n) \in Nat
<1> PICK s : IsPartialSums(f, n, s) /\ SumBelow(f, n) = s[n]
  BY SumExists, Zenon
<1> QED BY DEF IsPartialSums

\* When one term changes, the sum changes by as much.
LEMMA SumChange ==
  ASSUME NEW n \in Nat \ {0}, NEW f \in [0 .. n - 1 -> Nat], NEW g \in [0 .. n - 1 -> Nat],
         NEW w \in 0 .. n - 1, \A v \in 0 .. n - 1 : v # w => f[v] = g[v]
  PROVE  SumBelow(g, n) + f[w] = SumBelow(f, n) + g[w]
<1> PICK s : IsPartialSums(f, n, s) /\ SumBelow(f, n) = s[n]
  BY SumExists, Zenon
<1> PICK t : IsPartialSums(g, n, t) /\ SumBelow(g, n) = t[n]
  BY SumExists, Zenon
<1> DEFINE P == {k \in Nat : k <= n =>
                   IF w < k THEN t[k] + f[w] = s[k] + g[w] ELSE t[k] = s[k]}
<1>1. 0 \in P
  BY DEF IsPartialSums
<1>2. ASSUME NEW k \in P PROVE k + 1 \in P
  <2> SUFFICES ASSUME k + 1 <= n
               PROVE  IF w < k + 1 THEN t[k + 1] + f[w] = s[k + 1] + g[w]
                      ELSE t[k + 1] = s[k + 1]
    OBVIOUS
  <2>1. /\ k \in 0 .. n - 1 /\ k \in 0 .. n
        /\ IF w < k THEN t[k] + f[w] = s[k] + g[w] ELSE t[k] = s[k]
    OBVIOUS
  <2> HIDE DEF P
  <2>2. s[k + 1] = s[k] + f[k] /\ t[k + 1] = t[k] + g[k]
    BY <2>1 DEF IsPartialSums
  <2>3. s[k] \in Nat /\ t[k] \in Nat
    BY <2>1 DEF IsPartialSums
  <2>4. f[k] \in Nat /\ g[k] \in Nat /\ f[w] \in Nat /\ g[w] \in Nat
    BY <2>1
  <2>5. CASE w = k
    BY <2>1, <2>2, <2>3, <2>4, <2>5
  <2>6. CASE w # k
    <3>1. f[k] = g[k]
      BY <2>1, <2>6
    <3>2. w < k + 1 <=> w < k
      BY <2>1, <2>6
    <3>3. CASE w < k
      <4>1. t[k] + f[w] = s[k] + g[w]
        BY <2>1, <3>3
      <4>2. (t[k] + g[k]) + f[w] = (s[k] + g[k]) + g[w]
        <5>1. PICK a \in Nat, b \in Nat, c \in Nat, d \in Nat, e \in Nat :
                a = t[k] /\ b = f[w] /\ c = s[k] /\ d = g[w] /\ e = g[k]
          BY <2>3, <2>4
        <5>2. a + b = c + d
          BY <4>1, <5>1
        <5>3. (a + e) + b = (c + e) + d
          BY <5>2
        <5> QED BY <5>1, <5>3
      <4> QED BY <2>2, <3>1, <3>2, <3>3, <4>2
    <3>4. CASE ~(w < k)
      BY <2>1, <2>2, <3>1, <3>2, <3>4
    <3> QED BY <3>3, <3>4
  <2> QED BY <2>5, <2>6
<1>3. P = Nat
  <2>1. P \in SUBSET Nat
    OBVIOUS
  <2> HIDE DEF P
  <2> QED BY <1>1, <1>2, <2>1, SetInduction
<1>4. n \in P /\ w < n
  BY <1>3
<1> QED BY <1>4

\* When every term grows by at most one, the sum grows by at most n.
LEMMA SumGrowth ==
  ASSUME NEW n \in Nat \ {0}, NEW f \in [0 .. n - 1 -> Nat], NEW g \in [0 .. n - 1 -> Nat],
         \A v \in 0 .. n - 1 : g[v] <= f[v] + 1
  PROVE  SumBelow(g, n) <= SumBelow(f, n) + n
<1> PICK s : IsPartialSums(f, n, s) /\ SumBelow(f, n) = s[n]
  BY SumExists, Zenon
<1> PICK t : IsPartialSums(g, n, t) /\ SumBelow(g, n) = t[n]
  BY SumExists, Zenon
<1> DEFINE P == {k \in Nat : k <= n => t[k] <= s[k] + k}
<1>1. 0 \in P
  BY DEF IsPartialSums
<1>2. ASSUME NEW k \in P PROVE k + 1 \in P
  <2> SUFFICES ASSUME k + 1 <= n PROVE t[k + 1] <= s[k + 1] + (k + 1)
    OBVIOUS
  <2>1. k \in 0 .. n - 1 /\ k \in 0 .. n /\ t[k] <= s[k] + k
    OBVIOUS
  <2> HIDE DEF P
  <2>2. s[k + 1] = s[k] + f[k] /\ t[k + 1] = t[k] + g[k]
    BY <2>1 DEF IsPartialSums
  <2>3. s[k] \in Nat /\ t[k] \in Nat /\ f[k] \in Nat /\ g[k] \in Nat /\ g[k] <= f[k] + 1
    BY <2>1 DEF IsPartialSums
  <2>4. \A a, b, c, d \in Nat : b <= a + k /\ d <= c + 1 => b + d <= (a + c) + (k + 1)
    BY <2>1
  <2> QED BY <2>1, <2>2, <2>3, <2>4
<1>3. P = Nat
  <2>1. P \in SUBSET Nat
    OBVIOUS
  <2> HIDE DEF P
  <2> QED BY <1>1, <1>2, <2>1, SetInduction
<1>4. n \in P
  BY <1>3
<1> QED BY <1>4

\* g starts at base and takes a step for each element of seq, the first first.
IsLoop(base, step, seq, g) ==
  g = [i \in 0 .. Len(seq) |-> IF i = 0 THEN base ELSE step[<<g[i - 1], seq[i]>>]]

\* The function of a loop over a sequence exists.
LEMMA LoopExists ==
  ASSUME NEW A, NEW S, NEW base \in A, NEW step \in [A \X S -> A], NEW seq \in Seq(S)
  PROVE  \E g \in [0 .. Len(seq) -> A] : IsLoop(base, step, seq, g)
<1> DEFINE n == Len(seq)
<1>1. n \in Nat /\ \A i \in 1 .. n : seq[i] \in S
  OBVIOUS
<1>2. CASE n = 0
  <2> DEFINE g == [i \in 0 .. n |-> base]
  <2>1. g \in [0 .. n -> A] /\ \A i \in 0 .. n : i = 0
    BY <1>2
  <2>2. g = [i \in 0 .. n |-> IF i = 0 THEN base ELSE step[<<g[i - 1], seq[i]>>]]
    BY <2>1
  <2> QED BY <2>1, <2>2 DEF IsLoop
<1>3. CASE n # 0
  <2> DEFINE turn == [p \in (0 .. n - 1) \X A |-> step[<<p[2], seq[p[1] + 1]>>]]
  <2>1. turn \in [(0 .. n - 1) \X A -> A]
    <3> SUFFICES ASSUME NEW p \in (0 .. n - 1) \X A
                 PROVE  step[<<p[2], seq[p[1] + 1]>>] \in A
      OBVIOUS
    <3>1. p[2] \in A /\ p[1] + 1 \in 1 .. n
      BY <1>1
    <3>2. seq[p[1] + 1] \in S
      BY <1>1, <3>1
    <3> QED BY <3>1, <3>2
  <2>2. n - 1 \in Nat /\ (n - 1) + 1 = n
    BY <1>1, <1>3
  <2>3. \A i \in 0 .. n - 1, a \in A : turn[<<i, a>>] = step[<<a, seq[i + 1]>>]
    OBVIOUS
  <2>4. PICK g \in [0 .. n -> A] : IsIteration(base, turn, n, g)
    <3> HIDE DEF turn, n
    <3>1. \E g \in [0 .. (n - 1) + 1 -> A] : IsIteration(base, turn, (n - 1) + 1, g)
      BY <2>1, <2>2, IterationExists
    <3> QED BY <2>2, <3>1
  <2>5. ASSUME NEW i \in 0 .. n, i # 0
        PROVE  turn[<<i - 1, g[i - 1]>>] = step[<<g[i - 1], seq[i]>>]
    <3>1. i - 1 \in 0 .. n - 1 /\ i - 1 \in 0 .. n /\ (i - 1) + 1 = i
      BY <1>1, <2>5
    <3>2. g[i - 1] \in A
      BY <3>1
    <3> HIDE DEF turn
    <3> QED BY <2>3, <3>1, <3>2
  <2> HIDE DEF turn
  <2>6. g = [i \in 0 .. n |-> IF i = 0 THEN base ELSE turn[<<i - 1, g[i - 1]>>]]
    BY <2>4 DEF IsIteration
  <2>7. g = [i \in 0 .. n |-> IF i = 0 THEN base ELSE step[<<g[i - 1], seq[i]>>]]
    BY <2>5, <2>6
  <2> QED BY <2>7 DEF IsLoop
<1> QED BY <1>2, <1>3

\* Where a loop over a sequence ends.
LoopOf(base, step, seq) ==
  LET g[i \in 0 .. Len(seq)] == IF i = 0 THEN base ELSE step[<<g[i - 1], seq[i]>>]
  IN  g[Len(seq)]

\* Whatever takes the same steps ends there.
TakesSteps(A, base, step, seq, r) ==
  /\ r[0] = base
  /\ \A i \in 1 .. Len(seq) : r[i - 1] \in A => r[i] = step[<<r[i - 1], seq[i]>>]

LEMMA LoopIs ==
  ASSUME NEW A, NEW S, NEW base \in A, NEW step \in [A \X S -> A], NEW seq \in Seq(S),
         NEW r, TakesSteps(A, base, step, seq, r)
  PROVE  r[Len(seq)] = LoopOf(base, step, seq) /\ r[Len(seq)] \in A
<1> DEFINE n == Len(seq)
           IsG(g) == g = [i \in 0 .. n |-> IF i = 0 THEN base ELSE step[<<g[i - 1], seq[i]>>]]
           g == CHOOSE h : IsG(h)
<1>1. n \in Nat /\ \A i \in 1 .. n : seq[i] \in S
  OBVIOUS
<1>2. \E h : IsG(h)
  <2>1. PICK h : IsLoop(base, step, seq, h)
    BY LoopExists
  <2>2. IsG(h)
    BY <2>1 DEF IsLoop
  <2> QED BY <2>2
<1>3. IsG(g)
  <2> HIDE DEF IsG
  <2> QED BY <1>2
<1>4. LoopOf(base, step, seq) = g[n]
  BY DEF LoopOf
<1> HIDE DEF g
<1>5. g[0] = base /\ \A i \in 1 .. n : g[i] = step[<<g[i - 1], seq[i]>>]
  <2>1. 0 \in 0 .. n /\ \A i \in 1 .. n : i \in 0 .. n /\ i # 0
    BY <1>1
  <2> QED BY <1>3, <2>1
<1> DEFINE P == {i \in Nat : i <= n => r[i] = g[i] /\ r[i] \in A}
<1>6. 0 \in P
  BY <1>5 DEF TakesSteps
<1>7. ASSUME NEW i \in P PROVE i + 1 \in P
  <2> SUFFICES ASSUME i + 1 <= n PROVE r[i + 1] = g[i + 1] /\ r[i + 1] \in A
    OBVIOUS
  <2>1. i + 1 \in 1 .. n /\ (i + 1) - 1 = i /\ r[i] = g[i] /\ r[i] \in A
    BY <1>1
  <2>2. r[i + 1] = step[<<r[i], seq[i + 1]>>] /\ g[i + 1] = step[<<g[i], seq[i + 1]>>]
    BY <1>5, <2>1 DEF TakesSteps
  <2>3. step[<<r[i], seq[i + 1]>>] \in A
    BY <1>1, <2>1
  <2> QED BY <2>1, <2>2, <2>3
<1>8. n \in P
  <2> HIDE DEF P
  <2>1. P \in SUBSET Nat
    BY DEF P
  <2> QED BY <1>1, <1>6, <1>7, <2>1, SetInduction
<1> QED BY <1>4, <1>8

\* A loop's result, one element at a time.
LEMMA LoopEmpty ==
  ASSUME NEW A, NEW S, NEW base \in A, NEW step \in [A \X S -> A]
  PROVE  LoopOf(base, step, <<>>) = base
<1> DEFINE r == [i \in 0 .. 0 |-> base]
<1>1. r[0] = base /\ Len(<<>>) = 0 /\ <<>> \in Seq(S) /\ 1 .. 0 = {}
  OBVIOUS
<1> HIDE DEF r
<1>2. r[Len(<<>>)] = LoopOf(base, step, <<>>) /\ r[Len(<<>>)] \in A
  <2>1. TakesSteps(A, base, step, <<>>, r)
    BY <1>1 DEF TakesSteps
  <2>2. <<>> \in Seq(S)
    OBVIOUS
  <2> QED BY <2>1, <2>2, LoopIs, Zenon
<1> QED BY <1>1, <1>2

\* One more element is one more step.
LoopsOn(base, step, seq, x) ==
  LoopOf(base, step, Append(seq, x)) = step[<<LoopOf(base, step, seq), x>>]

LEMMA LoopAppend ==
  ASSUME NEW A, NEW S, NEW base \in A, NEW step \in [A \X S -> A], NEW seq \in Seq(S),
         NEW x \in S
  PROVE  /\ LoopOf(base, step, seq) \in A
         /\ LoopsOn(base, step, seq, x)
<1> DEFINE n == Len(seq)
           more == Append(seq, x)
<1>1. /\ n \in Nat /\ more \in Seq(S) /\ Len(more) = n + 1 /\ more[n + 1] = x
      /\ \A i \in 1 .. n : more[i] = seq[i] /\ i \in 1 .. n + 1
  OBVIOUS
<1> HIDE DEF more
<1>2. PICK g \in [0 .. n + 1 -> A] : IsLoop(base, step, more, g)
  BY <1>1, LoopExists
<1>3. g[0] = base /\ \A i \in 1 .. n + 1 : g[i] = step[<<g[i - 1], more[i]>>]
  <2>1. 0 \in 0 .. n + 1 /\ \A i \in 1 .. n + 1 : i \in 0 .. n + 1 /\ i # 0
    BY <1>1
  <2> QED BY <1>1, <1>2, <2>1 DEF IsLoop
<1>4. g[n + 1] = LoopOf(base, step, more)
  <2>1. TakesSteps(A, base, step, more, g)
    BY <1>1, <1>3 DEF TakesSteps
  <2>2. more \in Seq(S)
    BY <1>1
  <2>3. g[Len(more)] = LoopOf(base, step, more) /\ g[Len(more)] \in A
    BY <2>1, <2>2, LoopIs, Zenon
  <2> QED BY <1>1, <2>3
<1>5. g[n] = LoopOf(base, step, seq) /\ g[n] \in A
  <2>1. TakesSteps(A, base, step, seq, g)
    BY <1>1, <1>3 DEF TakesSteps
  <2> QED BY <2>1, LoopIs, Zenon
<1>6. g[n + 1] = step[<<g[n], x>>]
  <2>1. n + 1 \in 1 .. n + 1 /\ (n + 1) - 1 = n
    BY <1>1
  <2> QED BY <1>1, <1>3, <2>1
<1> QED BY <1>1, <1>4, <1>5, <1>6 DEF more, LoopsOn

\* Induction over the sequences of a set, as over a set of numbers.
LEMMA SeqInduction ==
  ASSUME NEW S, NEW P \in SUBSET Seq(S), <<>> \in P,
         \A s \in P : \A e \in S : Append(s, e) \in P
  PROVE  P = Seq(S)
<1> DEFINE N == {n \in Nat : \A s \in Seq(S) : Len(s) = n => s \in P}
<1>1. 0 \in N
  BY EmptySeq
<1>2. ASSUME NEW n \in N PROVE n + 1 \in N
  <2> SUFFICES ASSUME NEW s \in Seq(S), Len(s) = n + 1 PROVE s \in P
    OBVIOUS
  <2>1. n \in Nat /\ \A t \in Seq(S) : Len(t) = n => t \in P
    OBVIOUS
  <2>2. s # <<>>
    BY <2>1
  <2>3. PICK t \in Seq(S), e \in S : s = Append(t, e)
    BY <2>2, SequenceEmptyOrAppend, Zenon
  <2>4. Len(t) = n
    BY <2>1, <2>3
  <2> QED BY <2>1, <2>3, <2>4
<1>3. N = Nat
  <2> HIDE DEF N
  <2>1. N \in SUBSET Nat
    BY DEF N
  <2> QED BY <1>1, <1>2, <2>1, SetInduction
<1>4. ASSUME NEW s \in Seq(S) PROVE s \in P
  <2>1. Len(s) \in N
    BY <1>3
  <2> QED BY <2>1
<1> QED BY <1>4
=============================================================================
