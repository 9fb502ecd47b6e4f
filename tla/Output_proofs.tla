--------------------------- MODULE Output_proofs ----------------------------
(***************************************************************************)
(* The notes of a concurrent case, for any number of workers, spawned      *)
(* threads, rounds and notes: the lines of a note stay together, rounds    *)
(* stay apart, the report of a buffered case groups the workers and loses  *)
(* no line, and a framed report is set off by its blank lines, whoever is  *)
(* first to print.                                                         *)
(***************************************************************************)
EXTENDS Output, FoldLemmas

Lines == Nat \X Threads \X Nat \X {1, 2}

USE ThreadsAssumption, BoundsAssumption

-----------------------------------------------------------------------------
(* The grouping of a buffered case *)

Records == [worker : 0 .. N, text : Lines]

LEMMA RecordFields ==
  ASSUME NEW s \in Seq(Records), NEW i \in 1 .. Len(s)
  PROVE  s[i] \in Records /\ s[i].worker \in 0 .. N /\ s[i].text \in Lines
<1>1. s[i] \in Records
  OBVIOUS
<1> QED BY <1>1 DEF Records

\* out holds the first n records of s in the order given: by worker, and those of
\* one worker as they came.
InOrder(order, out, s, n) ==
  /\ order \in [1 .. n -> 1 .. n]
  /\ \A p \in 1 .. n : \E i \in 1 .. n : order[i] = p
  /\ out = [i \in 1 .. n |-> s[order[i]]]
  /\ \A i, j \in 1 .. n : i < j =>
       \/ s[order[i]].worker < s[order[j]].worker
       \/ s[order[i]].worker = s[order[j]].worker /\ order[i] < order[j]

Sorted(out, s, n) == \E order : InOrder(order, out, s, n)

\* Where a record is inserted.
LEMMA InsertionPlace ==
  ASSUME NEW out \in Seq(Records), NEW r \in Records,
         NEW p, p = Max({0} \cup {i \in DOMAIN out : out[i].worker <= r.worker})
  PROVE  /\ p \in 0 .. Len(out)
         /\ p > 0 => out[p].worker <= r.worker
         /\ \A i \in 1 .. Len(out) : i > p => r.worker < out[i].worker
<1> DEFINE L == {0} \cup {i \in DOMAIN out : out[i].worker <= r.worker}
<1>1. L \in SUBSET Nat /\ L # {} /\ Len(out) \in Nat /\ \A i \in L : i <= Len(out)
  OBVIOUS
<1>2. p \in L /\ \A i \in L : i <= p
  <2> HIDE DEF L
  <2>1. Max(L) \in L /\ \A i \in L : i <= Max(L)
    BY <1>1, MaxIsGreatest
  <2> QED BY <2>1 DEF L
<1>3. p \in 0 .. Len(out) /\ (p > 0 => out[p].worker <= r.worker)
  BY <1>1, <1>2
<1>4. ASSUME NEW i \in 1 .. Len(out), i > p PROVE r.worker < out[i].worker
  <2>1. ~(out[i].worker <= r.worker)
    BY <1>1, <1>2, <1>3, <1>4
  <2>2. out[i].worker \in 0 .. N /\ r.worker \in 0 .. N
    BY RecordFields DEF Records
  <2> QED BY <2>1, <2>2
<1> QED BY <1>3, <1>4

\* What it leaves before and behind the record.
LEMMA Insertion ==
  ASSUME NEW out \in Seq(Records), NEW r \in Records, NEW p \in 0 .. Len(out)
  PROVE  /\ InsertAt(out, p + 1, r) \in Seq(Records)
         /\ Len(InsertAt(out, p + 1, r)) = Len(out) + 1
         /\ \A i \in 1 .. Len(out) + 1 :
              InsertAt(out, p + 1, r)[i] =
                IF i <= p THEN out[i] ELSE IF i = p + 1 THEN r ELSE out[i - 1]
<1> DEFINE before == SubSeq(out, 1, (p + 1) - 1)
           behind == SubSeq(out, p + 1, Len(out))
<1>1. before \in Seq(Records) /\ Len(before) = p /\ \A i \in 1 .. p : before[i] = out[i]
  OBVIOUS
<1>2. /\ behind \in Seq(Records)
      /\ Len(behind) = Len(out) - p
      /\ \A i \in 1 .. Len(out) - p : behind[i] = out[p + i]
  OBVIOUS
<1>3. <<r>> \in Seq(Records) /\ Len(<<r>>) = 1 /\ <<r>>[1] = r
  OBVIOUS
<1>4. InsertAt(out, p + 1, r) = before \o <<r>> \o behind
  BY DEF InsertAt
<1> HIDE DEF before, behind
<1>5. PICK head : head = before \o <<r>>
  OBVIOUS
<1>6. /\ head \in Seq(Records) /\ Len(head) = p + 1
      /\ \A i \in 1 .. p : head[i] = out[i]
      /\ head[p + 1] = r
  <2>1. head \in Seq(Records) /\ Len(head) = p + 1
    BY <1>1, <1>3, <1>5
  <2>2. \A i \in 1 .. p : head[i] = before[i]
    BY <1>1, <1>3, <1>5
  <2>3. head[p + 1] = <<r>>[1]
    BY <1>1, <1>3, <1>5
  <2> QED BY <1>1, <1>3, <2>1, <2>2, <2>3
<1>7. PICK all : all = head \o behind
  OBVIOUS
<1>8. /\ all \in Seq(Records) /\ Len(all) = Len(out) + 1
      /\ \A i \in 1 .. p + 1 : all[i] = head[i]
      /\ \A i \in p + 2 .. Len(out) + 1 : all[i] = behind[i - (p + 1)]
  <2>1. all \in Seq(Records)
    BY <1>2, <1>6, <1>7
  <2>2. Len(all) = Len(out) + 1
    BY <1>2, <1>6, <1>7
  <2>3. \A i \in 1 .. p + 1 : all[i] = head[i]
    BY <1>2, <1>6, <1>7
  <2>4. \A i \in p + 2 .. Len(out) + 1 : all[i] = behind[i - (p + 1)]
    BY <1>2, <1>6, <1>7
  <2> QED BY <2>1, <2>2, <2>3, <2>4
<1>9. ASSUME NEW i \in p + 2 .. Len(out) + 1 PROVE all[i] = out[i - 1]
  <2>1. i - (p + 1) \in 1 .. Len(out) - p /\ p + (i - (p + 1)) = i - 1
    OBVIOUS
  <2> QED BY <1>2, <1>8, <2>1
<1>10. InsertAt(out, p + 1, r) = all
  BY <1>4, <1>5, <1>7
<1>11. ASSUME NEW i \in 1 .. Len(out) + 1
       PROVE  all[i] = IF i <= p THEN out[i] ELSE IF i = p + 1 THEN r ELSE out[i - 1]
  <2>1. CASE i <= p
    BY <1>6, <1>8, <2>1
  <2>2. CASE i = p + 1
    BY <1>6, <1>8, <2>2
  <2>3. CASE i > p + 1
    BY <1>9, <2>3
  <2> QED BY <2>1, <2>2, <2>3
<1> QED BY <1>8, <1>10, <1>11

\* Inserting keeps the order.
LEMMA InsertSorts ==
  ASSUME NEW s \in Seq(Records), NEW n \in Nat, n + 1 <= Len(s),
         NEW out, Sorted(out, s, n)
  PROVE  Sorted(InsertRecord(out, s[n + 1]), s, n + 1)
<1>1. PICK order : InOrder(order, out, s, n)
  BY DEF Sorted
<1>2. PICK r : r = s[n + 1]
  OBVIOUS
<1>3. r \in Records
  BY <1>2
<1>4. \A i \in 1 .. n : s[i] \in Records /\ s[i].worker \in 0 .. N
  <2>1. \A i \in 1 .. n : i \in 1 .. Len(s)
    OBVIOUS
  <2> QED BY <2>1, RecordFields
<1>5. out \in Seq(Records) /\ Len(out) = n /\ \A i \in 1 .. n : out[i] = s[order[i]]
  <2>1. out = [i \in 1 .. n |-> s[order[i]]] /\ \A i \in 1 .. n : order[i] \in 1 .. n
    BY <1>1 DEF InOrder
  <2>2. out \in [1 .. n -> Records]
    BY <1>4, <2>1
  <2> QED BY <2>1, <2>2
<1>6. PICK p : p = Max({0} \cup {i \in DOMAIN out : out[i].worker <= r.worker})
  OBVIOUS
<1>7. /\ p \in 0 .. n
      /\ p > 0 => out[p].worker <= r.worker
      /\ \A i \in 1 .. n : i > p => r.worker < out[i].worker
  BY <1>3, <1>5, <1>6, InsertionPlace
<1>8. InsertRecord(out, r) = InsertAt(out, p + 1, r)
  BY <1>6 DEF InsertRecord
<1> PICK new : new = InsertAt(out, p + 1, r)
  OBVIOUS
<1> DEFINE place == [i \in 1 .. n + 1 |->
                       IF i <= p THEN order[i] ELSE IF i = p + 1 THEN n + 1 ELSE order[i - 1]]
<1>9. /\ new \in Seq(Records)
      /\ Len(new) = n + 1
      /\ \A i \in 1 .. n + 1 :
           new[i] = IF i <= p THEN out[i] ELSE IF i = p + 1 THEN r ELSE out[i - 1]
  <2> HIDE DEF place
  <2>1. p \in 0 .. Len(out)
    BY <1>5, <1>7
  <2>2. /\ InsertAt(out, p + 1, r) \in Seq(Records)
        /\ Len(InsertAt(out, p + 1, r)) = Len(out) + 1
        /\ \A i \in 1 .. Len(out) + 1 :
             InsertAt(out, p + 1, r)[i] =
               IF i <= p THEN out[i] ELSE IF i = p + 1 THEN r ELSE out[i - 1]
    <3>1. out \in Seq(Records)
      BY <1>5
    <3> QED BY <1>3, <2>1, <3>1, Insertion, ZenonT(30)
  <2> QED BY <1>5, <2>2
<1>10. \A i \in 1 .. n : order[i] \in 1 .. n
  BY <1>1 DEF InOrder
<1>11. place \in [1 .. n + 1 -> 1 .. n + 1]
  <2> SUFFICES ASSUME NEW i \in 1 .. n + 1 PROVE place[i] \in 1 .. n + 1
    OBVIOUS
  <2>1. CASE i <= p
    BY <1>7, <1>10, <2>1
  <2>2. CASE i = p + 1
    BY <1>7, <2>2
  <2>3. CASE i > p + 1
    <3>1. i - 1 \in 1 .. n
      BY <1>7, <2>3
    <3> QED BY <1>7, <1>10, <2>3, <3>1
  <2> QED BY <1>7, <2>1, <2>2, <2>3
<1>12. ASSUME NEW q \in 1 .. n + 1 PROVE \E i \in 1 .. n + 1 : place[i] = q
  <2>1. CASE q = n + 1
    <3>1. p + 1 \in 1 .. n + 1 /\ place[p + 1] = q
      BY <1>7, <2>1
    <3> QED BY <3>1
  <2>2. CASE q # n + 1
    <3>1. PICK i \in 1 .. n : order[i] = q
      BY <1>1, <2>2 DEF InOrder
    <3>2. CASE i <= p
      <4>1. i \in 1 .. n + 1 /\ place[i] = q
        BY <3>1, <3>2
      <4> QED BY <4>1
    <3>3. CASE i > p
      <4>1. i + 1 \in 1 .. n + 1 /\ place[i + 1] = q
        BY <1>7, <3>1, <3>3
      <4> QED BY <4>1
    <3> QED BY <1>7, <3>2, <3>3
  <2> QED BY <2>1, <2>2
<1>13. \A i \in 1 .. n + 1 : new[i] = s[place[i]]
  BY <1>2, <1>5, <1>7, <1>9
<1>14. new = [i \in 1 .. n + 1 |-> s[place[i]]]
  <2> HIDE DEF place
  <2>1. DOMAIN new = 1 .. n + 1 /\ new \in [1 .. n + 1 -> Records]
    BY <1>9
  <2> QED BY <1>13, <2>1
<1>15. ASSUME NEW i \in 1 .. n, NEW j \in 1 .. n, i < j
       PROVE  \/ s[order[i]].worker < s[order[j]].worker
              \/ s[order[i]].worker = s[order[j]].worker /\ order[i] < order[j]
  BY <1>1, <1>15 DEF InOrder
<1>16. ASSUME NEW i \in 1 .. n, i <= p PROVE s[order[i]].worker <= r.worker
  <2>1. p \in 1 .. n /\ s[order[p]].worker <= r.worker
    BY <1>5, <1>7, <1>16
  <2>2. /\ s[order[i]].worker \in 0 .. N /\ s[order[p]].worker \in 0 .. N
        /\ r.worker \in 0 .. N
    BY <1>3, <1>4, <1>10, <2>1 DEF Records
  <2>3. CASE i = p
    BY <2>1, <2>3
  <2>4. CASE i < p
    <3>1. PICK a \in 0 .. N : a = s[order[i]].worker
      BY <2>2
    <3>2. PICK b \in 0 .. N : b = s[order[p]].worker
      BY <2>2
    <3>3. s[order[i]].worker < s[order[p]].worker \/ s[order[i]].worker = s[order[p]].worker
      BY <1>15, <2>1, <2>4, Zenon
    <3>4. a < b \/ a = b
      BY <3>1, <3>2, <3>3, Zenon
    <3>5. a <= b
      BY <3>4
    <3>6. b <= r.worker
      BY <2>1, <3>2
    <3>7. a <= r.worker
      BY <2>2, <3>5, <3>6
    <3> QED BY <3>1, <3>7
  <2> QED BY <1>16, <2>1, <2>3, <2>4
<1>17. ASSUME NEW i \in 1 .. n, i > p PROVE r.worker < s[order[i]].worker
  BY <1>5, <1>7, <1>17
<1>18. ASSUME NEW i \in 1 .. n + 1, NEW j \in 1 .. n + 1, i < j
       PROVE  \/ s[place[i]].worker < s[place[j]].worker
              \/ s[place[i]].worker = s[place[j]].worker /\ place[i] < place[j]
  <2>1. CASE j <= p
    <3>1. i \in 1 .. n /\ j \in 1 .. n /\ place[i] = order[i] /\ place[j] = order[j]
      BY <1>7, <1>18, <2>1
    <3> HIDE DEF place
    <3> QED BY <1>15, <1>18, <3>1
  <2>2. CASE j = p + 1
    <3>1. i \in 1 .. n /\ i <= p /\ place[i] = order[i] /\ place[j] = n + 1
      BY <1>7, <1>18, <2>2
    <3>2. s[order[i]].worker <= r.worker /\ order[i] \in 1 .. n
      BY <1>10, <1>16, <3>1
    <3>3. s[order[i]].worker \in 0 .. N /\ r.worker \in 0 .. N
      BY <1>3, <1>4, <3>2 DEF Records
    <3> HIDE DEF place
    <3>4. /\ s[place[i]].worker = s[order[i]].worker
         /\ s[place[j]].worker = r.worker /\ place[i] < place[j]
      BY <1>2, <3>1, <3>2
    <3>5. s[order[i]].worker < r.worker \/ s[order[i]].worker = r.worker
      BY <3>2, <3>3
    <3> QED BY <3>4, <3>5, Zenon
  <2>3. CASE j > p + 1 /\ i <= p
    <3>1. /\ i \in 1 .. n /\ j - 1 \in 1 .. n /\ i < j - 1
          /\ place[i] = order[i] /\ place[j] = order[j - 1]
      BY <1>7, <1>18, <2>3
    <3> HIDE DEF place
    <3> QED BY <1>15, <3>1
  <2>4. CASE i = p + 1
    <3>1. j - 1 \in 1 .. n /\ j - 1 > p /\ place[i] = n + 1 /\ place[j] = order[j - 1]
      BY <1>7, <1>18, <2>4
    <3> HIDE DEF place
    <3> QED BY <1>2, <1>17, <3>1
  <2>5. CASE i > p + 1
    <3>1. /\ i - 1 \in 1 .. n /\ j - 1 \in 1 .. n /\ i - 1 < j - 1
          /\ place[i] = order[i - 1] /\ place[j] = order[j - 1]
      BY <1>7, <1>18, <2>5
    <3> HIDE DEF place
    <3> QED BY <1>15, <3>1
  <2> QED BY <1>7, <1>18, <2>1, <2>2, <2>3, <2>4, <2>5
<1>19. InOrder(place, new, s, n + 1)
  BY <1>11, <1>12, <1>14, <1>18 DEF InOrder
<1> QED BY <1>2, <1>8, <1>19 DEF Sorted

\* The fold of the insertions.
LEMMA SortFold ==
  ASSUME NEW s \in Seq(Records)
  PROVE  \E acc : /\ acc[0] = <<>>
                  /\ \A n \in 0 .. Len(s) - 1 : acc[n + 1] = InsertRecord(acc[n], s[n + 1])
                  /\ ByWorker(s) = acc[Len(s)]
<1> DEFINE A == Seq(Records)
           step == [q \in A \X Records |-> InsertRecord(q[1], q[2])]
           iter == CHOOSE f : f = [x \in SUBSET DOMAIN s |->
                     IF x = {} THEN <<>> ELSE InsertRecord(f[x \ {Max(x)}], s[Max(x)])]
<1>1. \A a \in A, r \in Records : InsertRecord(a, r) \in A
  <2> SUFFICES ASSUME NEW a \in Seq(Records), NEW r \in Records
               PROVE  InsertRecord(a, r) \in Seq(Records)
    OBVIOUS
  <2> HIDE DEF step, iter, A
  <2>1. PICK p : p = Max({0} \cup {i \in DOMAIN a : a[i].worker <= r.worker})
    OBVIOUS
  <2>2. p \in 0 .. Len(a)
    BY <2>1, InsertionPlace
  <2> QED BY <2>1, <2>2, Insertion DEF InsertRecord
<1>2. PICK g \in [SUBSET DOMAIN s -> A] :
        \A x \in SUBSET DOMAIN s :
          g[x] = IF x = {} THEN <<>> ELSE step[<<g[x \ {Max(x)}], s[Max(x)]>>]
  <2>1. step \in [A \X Records -> A]
    BY <1>1
  <2>2. <<>> \in A
    OBVIOUS
  <2> HIDE DEF A, step
  <2>3. \E g \in [SUBSET DOMAIN s -> A] : IsFold(<<>>, step, s, g)
    BY <2>1, <2>2, FoldExists
  <2> QED BY <2>3 DEF IsFold
<1>3. g = [x \in SUBSET DOMAIN s |->
             IF x = {} THEN <<>> ELSE InsertRecord(g[x \ {Max(x)}], s[Max(x)])]
  <2> SUFFICES ASSUME NEW x \in SUBSET DOMAIN s, x # {}
               PROVE  g[x] = InsertRecord(g[x \ {Max(x)}], s[Max(x)])
    BY <1>2
  <2>1. Max(x) \in x
    <3>1. x \in SUBSET (1 .. Len(s)) /\ Len(s) \in Nat
      OBVIOUS
    <3> QED BY <3>1, MaxIsMember
  <2>2. s[Max(x)] \in Records /\ g[x \ {Max(x)}] \in A
    BY <2>1
  <2> HIDE DEF A
  <2> QED BY <1>2, <2>2
<1>4. iter = [x \in SUBSET DOMAIN s |->
                IF x = {} THEN <<>> ELSE InsertRecord(iter[x \ {Max(x)}], s[Max(x)])]
  <2> HIDE DEF A, step
  <2> QED BY <1>3
<1>5. ByWorker(s) = iter[DOMAIN s]
  BY DEF ByWorker, FoldLeft, MapThenFoldSet
<1> HIDE DEF iter
<1> DEFINE acc == [n \in Nat |-> iter[1 .. n]]
<1>6. DOMAIN s = 1 .. Len(s) /\ Len(s) \in Nat
  OBVIOUS
<1>7. acc[0] = <<>>
  <2>1. 1 .. 0 = {}
    OBVIOUS
  <2> QED BY <1>4, <2>1
<1>8. ASSUME NEW n \in 0 .. Len(s) - 1
      PROVE  acc[n + 1] = InsertRecord(acc[n], s[n + 1])
  <2>1. /\ 1 .. n + 1 \in SUBSET DOMAIN s /\ n \in Nat /\ n + 1 \in Nat
        /\ n + 1 \in 1 .. n + 1
    BY <1>6
  <2>2. Max(1 .. n + 1) = n + 1 /\ (1 .. n + 1) \ {n + 1} = 1 .. n
    BY <2>1, PrefixOfIndices
  <2>3. iter[1 .. n + 1] = InsertRecord(iter[1 .. n], s[n + 1])
    BY <1>4, <2>1, <2>2
  <2> QED BY <2>1, <2>3
<1>9. ByWorker(s) = acc[Len(s)]
  BY <1>5, <1>6
<1> QED BY <1>7, <1>8, <1>9

\* std::stable_sort sorts, and keeps the records of one worker in their order.
LEMMA ByWorkerSorts ==
  ASSUME NEW s \in Seq(Records)
  PROVE  Sorted(ByWorker(s), s, Len(s))
<1>1. PICK acc : /\ acc[0] = <<>>
                 /\ \A n \in 0 .. Len(s) - 1 : acc[n + 1] = InsertRecord(acc[n], s[n + 1])
                 /\ ByWorker(s) = acc[Len(s)]
  BY SortFold
<1> DEFINE P == {n \in Nat : n <= Len(s) => Sorted(acc[n], s, n)}
<1>2. 0 \in P
  <2> DEFINE none == [i \in 1 .. 0 |-> 0]
  <2>1. 1 .. 0 = {}
    OBVIOUS
  <2>2. none \in [1 .. 0 -> 1 .. 0] /\ acc[0] = [i \in 1 .. 0 |-> s[none[i]]]
    BY <1>1, <2>1
  <2>3. InOrder(none, acc[0], s, 0)
    BY <2>1, <2>2 DEF InOrder
  <2> QED BY <2>3 DEF Sorted
<1>3. ASSUME NEW n \in P PROVE n + 1 \in P
  <2> SUFFICES ASSUME n + 1 <= Len(s) PROVE Sorted(acc[n + 1], s, n + 1)
    OBVIOUS
  <2>1. n \in Nat /\ n \in 0 .. Len(s) - 1 /\ Sorted(acc[n], s, n)
    OBVIOUS
  <2> HIDE DEF P
  <2> QED BY <1>1, <2>1, InsertSorts
<1>4. P = Nat
  <2>1. P \in SUBSET Nat
    OBVIOUS
  <2> HIDE DEF P
  <2> QED BY <1>2, <1>3, <2>1, SetInduction
<1>5. Len(s) \in Nat /\ Len(s) <= Len(s)
  OBVIOUS
<1>6. Sorted(acc[Len(s)], s, Len(s))
  BY <1>4, <1>5
<1> QED BY <1>1, <1>6

\* No thread without a worker index wrote a record at p, at q or between them.
SameRun(s, p, q) ==
  \A k \in 1 .. Len(s) : (p <= k /\ k <= q) \/ (q <= k /\ k <= p) => s[k].worker < N

\* The report shows record p before record q.
Before(s, p, q) ==
  \/ /\ SameRun(s, p, q)
     /\ \/ s[p].worker < s[q].worker
        \/ s[p].worker = s[q].worker /\ p < q
  \/ ~SameRun(s, p, q) /\ p < q

\* lines holds the texts of the first n records of s in the order given.
Grouping(order, lines, s, n) ==
  /\ order \in [1 .. n -> 1 .. n]
  /\ \A p \in 1 .. n : \E i \in 1 .. n : order[i] = p
  /\ lines = [i \in 1 .. n |-> s[order[i]].text]
  /\ \A i, j \in 1 .. n : i < j => Before(s, order[i], order[j])

Grouped(lines, s, n) == \E order : Grouping(order, lines, s, n)

\* After n records, those behind the m-th wait, all of workers.
Waiting(acc, s, n, m) ==
  /\ m \in 0 .. n
  /\ Grouped(acc.lines, s, m)
  /\ acc.round = [i \in 1 .. n - m |-> s[m + i]]
  /\ \A i \in m + 1 .. n : s[i].worker < N
  /\ m > 0 => s[m].worker = N

\* What has been grouped is a sequence of lines.
LEMMA GroupedLines ==
  ASSUME NEW s \in Seq(Records), NEW n \in 0 .. Len(s), NEW lines, Grouped(lines, s, n)
  PROVE  lines \in Seq(Lines) /\ Len(lines) = n
<1>1. PICK order : Grouping(order, lines, s, n)
  BY DEF Grouped
<1>2. /\ \A i \in 1 .. n : order[i] \in 1 .. n
      /\ lines = [i \in 1 .. n |-> s[order[i]].text]
  BY <1>1 DEF Grouping
<1>3. \A i \in 1 .. n : s[order[i]].text \in Lines
  <2> SUFFICES ASSUME NEW i \in 1 .. n PROVE s[order[i]].text \in Lines
    OBVIOUS
  <2>1. order[i] \in 1 .. Len(s)
    BY <1>2
  <2> QED BY <2>1, RecordFields
<1>4. lines \in [1 .. n -> Lines]
  BY <1>2, <1>3
<1> QED BY <1>4

\* The texts of the records of one run, sorted.
LEMMA SortedTexts ==
  ASSUME NEW s \in Seq(Records)
  PROVE  /\ TextsOf(ByWorker(s)) \in Seq(Lines)
         /\ Len(TextsOf(ByWorker(s))) = Len(s)
         /\ \A order : InOrder(order, ByWorker(s), s, Len(s)) =>
              \A i \in 1 .. Len(s) : TextsOf(ByWorker(s))[i] = s[order[i]].text
<1>1. PICK out : out = ByWorker(s)
  OBVIOUS
<1>2. PICK given : InOrder(given, out, s, Len(s))
  BY <1>1, ByWorkerSorts DEF Sorted
<1>3. /\ \A i \in 1 .. Len(s) : given[i] \in 1 .. Len(s)
      /\ out = [i \in 1 .. Len(s) |-> s[given[i]]]
  BY <1>2 DEF InOrder
<1>4. TextsOf(out) = [i \in 1 .. Len(s) |-> out[i].text]
  BY <1>3 DEF TextsOf
<1>5. \A i \in 1 .. Len(s) : out[i].text \in Lines
  BY <1>3, RecordFields
<1>6. TextsOf(out) \in [1 .. Len(s) -> Lines] /\ Len(s) \in Nat
  BY <1>4, <1>5
<1>7. TextsOf(out) \in Seq(Lines) /\ Len(TextsOf(out)) = Len(s)
  BY <1>6
<1>8. ASSUME NEW order, InOrder(order, out, s, Len(s)), NEW i \in 1 .. Len(s)
      PROVE  TextsOf(out)[i] = s[order[i]].text
  BY <1>4, <1>8 DEF InOrder
<1> QED BY <1>1, <1>7, <1>8

\* append_grouped_worker_lines puts the waiting lines where they belong.
LEMMA FlushGroups ==
  ASSUME NEW s \in Seq(Records), NEW n \in 0 .. Len(s), NEW m, NEW acc,
         Waiting(acc, s, n, m)
  PROVE  Grouped(Flush(acc), s, n)
<1>1. PICK order : Grouping(order, acc.lines, s, m)
  BY DEF Waiting, Grouped
<1>2. m \in 0 .. n /\ n \in Nat /\ m \in Nat /\ n - m \in Nat /\ m \in 0 .. Len(s)
  BY DEF Waiting
<1>3. PICK round : round = acc.round
  OBVIOUS
<1>4. \A i \in 1 .. n - m : round[i] = s[m + i] /\ m + i \in m + 1 .. n /\ m + i \in 1 .. Len(s)
  BY <1>2, <1>3 DEF Waiting
<1>5. round \in Seq(Records) /\ Len(round) = n - m
  <2>1. round = [i \in 1 .. n - m |-> s[m + i]]
    BY <1>3 DEF Waiting
  <2>2. \A i \in 1 .. n - m : s[m + i] \in Records
    BY <1>4, RecordFields
  <2>3. round \in [1 .. n - m -> Records]
    BY <2>1, <2>2
  <2> QED BY <1>2, <2>3
<1>6. PICK sub : InOrder(sub, ByWorker(round), round, n - m)
  BY <1>5, ByWorkerSorts DEF Sorted
<1>7. PICK texts : texts = TextsOf(ByWorker(round))
  OBVIOUS
<1>8. /\ texts \in Seq(Lines) /\ Len(texts) = n - m
      /\ \A i \in 1 .. n - m : texts[i] = round[sub[i]].text
  BY <1>5, <1>6, <1>7, SortedTexts
<1>9. acc.lines \in Seq(Lines) /\ Len(acc.lines) = m
  BY <1>2, GroupedLines DEF Waiting
<1>10. PICK out : out = acc.lines \o texts
  OBVIOUS
<1>11. Flush(acc) = out
  BY <1>3, <1>7, <1>10 DEF Flush
<1>12. /\ out \in Seq(Lines) /\ Len(out) = n
       /\ \A i \in 1 .. m : out[i] = acc.lines[i]
       /\ \A i \in m + 1 .. n : out[i] = texts[i - m]
  <2>0. PICK first : first = acc.lines
    OBVIOUS
  <2>1. first \in Seq(Lines) /\ Len(first) = m /\ out = first \o texts
    BY <1>9, <1>10, <2>0
  <2>2. /\ first \o texts \in Seq(Lines)
        /\ Len(first \o texts) = Len(first) + Len(texts)
        /\ \A i \in 1 .. Len(first) + Len(texts) :
             (first \o texts)[i] = IF i <= Len(first) THEN first[i] ELSE texts[i - Len(first)]
    BY <1>8, <2>1, ConcatProperties, Zenon
  <2>3. Len(first) + Len(texts) = n
    BY <1>2, <1>8, <2>1
  <2>4. \A i \in 1 .. m : i \in 1 .. n /\ i <= m
    BY <1>2
  <2>5. \A i \in m + 1 .. n : i \in 1 .. n /\ ~(i <= m)
    BY <1>2
  <2>6. \A i \in 1 .. n : out[i] = IF i <= m THEN first[i] ELSE texts[i - m]
    BY <2>1, <2>2, <2>3
  <2> QED BY <2>0, <2>1, <2>2, <2>3, <2>4, <2>5, <2>6
<1> DEFINE place == [i \in 1 .. n |-> IF i <= m THEN order[i] ELSE m + sub[i - m]]
<1>13. /\ \A i \in 1 .. m : order[i] \in 1 .. m
       /\ \A p \in 1 .. m : \E i \in 1 .. m : order[i] = p
       /\ \A i \in 1 .. m : acc.lines[i] = s[order[i]].text
       /\ \A i, j \in 1 .. m : i < j => Before(s, order[i], order[j])
  BY <1>1 DEF Grouping
<1>14. /\ \A i \in 1 .. n - m : sub[i] \in 1 .. n - m
       /\ \A p \in 1 .. n - m : \E i \in 1 .. n - m : sub[i] = p
       /\ \A i, j \in 1 .. n - m : i < j =>
            \/ round[sub[i]].worker < round[sub[j]].worker
            \/ round[sub[i]].worker = round[sub[j]].worker /\ sub[i] < sub[j]
  BY <1>6 DEF InOrder
<1>15. ASSUME NEW i \in 1 .. n
       PROVE  \/ i \in 1 .. m /\ place[i] = order[i] /\ place[i] \in 1 .. m
              \/ /\ i \in m + 1 .. n /\ i - m \in 1 .. n - m
                 /\ place[i] = m + sub[i - m] /\ place[i] \in m + 1 .. n
  <2>1. CASE i <= m
    BY <1>2, <1>13, <2>1
  <2>2. CASE i > m
    <3>1. i - m \in 1 .. n - m /\ i \in m + 1 .. n
      BY <1>2, <2>2
    <3>2. sub[i - m] \in 1 .. n - m
      BY <1>14, <3>1
    <3> QED BY <1>2, <2>2, <3>1, <3>2
  <2> QED BY <1>2, <2>1, <2>2
<1>16. ASSUME NEW p \in 1 .. n PROVE \E i \in 1 .. n : place[i] = p
  <2>1. CASE p <= m
    <3>1. PICK i \in 1 .. m : order[i] = p
      BY <1>2, <1>13, <2>1
    <3>2. i \in 1 .. n /\ place[i] = p
      BY <1>2, <3>1
    <3> QED BY <3>2
  <2>2. CASE p > m
    <3>1. p - m \in 1 .. n - m
      BY <1>2, <2>2
    <3>2. PICK i \in 1 .. n - m : sub[i] = p - m
      BY <1>14, <3>1
    <3>3. m + i \in 1 .. n /\ place[m + i] = p
      BY <1>2, <3>2
    <3> QED BY <3>3
  <2> QED BY <1>2, <2>1, <2>2
<1> HIDE DEF place
<1>17. place \in [1 .. n -> 1 .. n]
  <2>1. \A i \in 1 .. n : place[i] \in 1 .. n
    BY <1>2, <1>15
  <2> QED BY <2>1 DEF place
<1>18. ASSUME NEW i \in 1 .. n PROVE out[i] = s[place[i]].text
  <2>1. CASE i \in 1 .. m /\ place[i] = order[i]
    BY <1>12, <1>13, <2>1
  <2>2. CASE i \in m + 1 .. n /\ i - m \in 1 .. n - m /\ place[i] = m + sub[i - m]
    <3>1. out[i] = round[sub[i - m]].text /\ sub[i - m] \in 1 .. n - m
      BY <1>8, <1>12, <1>14, <2>2
    <3> QED BY <1>4, <2>2, <3>1
  <2> QED BY <1>15, <2>1, <2>2
<1>19. out = [i \in 1 .. n |-> s[place[i]].text]
  <2>1. out \in [1 .. n -> Lines]
    BY <1>12
  <2> QED BY <1>18, <2>1
<1>20. ASSUME NEW i \in 1 .. n, NEW j \in 1 .. n, i < j
       PROVE  Before(s, place[i], place[j])
  <2>1. CASE i \in 1 .. m /\ j \in 1 .. m
    BY <1>2, <1>13, <1>15, <1>20, <2>1
  <2>2. CASE i \in 1 .. m /\ j \in m + 1 .. n
    <3>1. place[i] \in 1 .. m /\ place[j] \in m + 1 .. n
      BY <1>2, <1>15, <2>2
    <3>2. m \in 1 .. Len(s) /\ s[m].worker = N
      BY <1>2, <2>2 DEF Waiting
    <3>3. place[i] <= m /\ m <= place[j]
      BY <1>2, <3>1
    <3>4. ~SameRun(s, place[i], place[j])
      <4>1. ~(s[m].worker < N)
        BY <3>2
      <4> QED BY <3>2, <3>3, <4>1 DEF SameRun
    <3> QED BY <1>2, <3>1, <3>4 DEF Before
  <2>3. CASE i \in m + 1 .. n /\ j \in m + 1 .. n
    <3>1. /\ i - m \in 1 .. n - m /\ place[i] = m + sub[i - m] /\ place[i] \in m + 1 .. n
          /\ j - m \in 1 .. n - m /\ place[j] = m + sub[j - m] /\ place[j] \in m + 1 .. n
          /\ i - m < j - m
      BY <1>2, <1>15, <1>20, <2>3
    <3>2. SameRun(s, place[i], place[j])
      <4>1. \A k \in m + 1 .. n : s[k].worker < N
        BY DEF Waiting
      <4>2. PICK p, q : p = place[i] /\ q = place[j]
        OBVIOUS
      <4>3. p \in m + 1 .. n /\ q \in m + 1 .. n
        BY <3>1, <4>2
      <4>4. SameRun(s, p, q)
        BY <1>2, <4>1, <4>3, SMTT(30) DEF SameRun
      <4> QED BY <4>2, <4>4
    <3>3. /\ sub[i - m] \in 1 .. n - m /\ sub[j - m] \in 1 .. n - m
          /\ round[sub[i - m]] = s[place[i]] /\ round[sub[j - m]] = s[place[j]]
      <4>1. sub[i - m] \in 1 .. n - m /\ sub[j - m] \in 1 .. n - m
        BY <1>14, <3>1
      <4> QED BY <1>4, <3>1, <4>1
    <3>4. \/ round[sub[i - m]].worker < round[sub[j - m]].worker
          \/ round[sub[i - m]].worker = round[sub[j - m]].worker /\ sub[i - m] < sub[j - m]
      BY <1>14, <3>1
    <3>5. sub[i - m] < sub[j - m] => place[i] < place[j]
      <4>1. PICK a, b : a = sub[i - m] /\ b = sub[j - m]
        OBVIOUS
      <4>2. a \in 1 .. n - m /\ b \in 1 .. n - m
        BY <3>3, <4>1
      <4>3. place[i] = m + a /\ place[j] = m + b
        BY <3>1, <4>1
      <4>4. a < b => m + a < m + b
        BY <1>2, <4>2
      <4> QED BY <4>1, <4>3, <4>4, Zenon
    <3>6. \/ s[place[i]].worker < s[place[j]].worker
          \/ s[place[i]].worker = s[place[j]].worker /\ place[i] < place[j]
      BY <3>3, <3>4, <3>5
    <3> QED BY <3>2, <3>6 DEF Before
  <2> QED BY <1>2, <1>20, <2>1, <2>2, <2>3
<1>21. Grouping(place, out, s, n)
  BY <1>16, <1>17, <1>19, <1>20 DEF Grouping
<1> QED BY <1>11, <1>21 DEF Grouped

\* A line of a worker waits behind those that do.
LEMMA AddLabelled ==
  ASSUME NEW s \in Seq(Records), NEW n \in Nat, n + 1 <= Len(s), s[n + 1].worker < N,
         NEW m, NEW acc \in [lines : Seq(Lines), round : Seq(Records)],
         Waiting(acc, s, n, m)
  PROVE  Waiting(AddRecord(acc, s[n + 1]), s, n + 1, m)
<1>1. PICK new : new = AddRecord(acc, s[n + 1])
  OBVIOUS
<1>2. new.lines = acc.lines /\ new.round = Append(acc.round, s[n + 1])
  BY <1>1 DEF AddRecord
<1>3. m \in 0 .. n /\ m \in Nat /\ n - m \in Nat /\ n + 1 - m = n - m + 1
  BY DEF Waiting
<1>4. PICK round : round = acc.round
  OBVIOUS
<1>5. /\ round \in Seq(Records) /\ round = [i \in 1 .. n - m |-> s[m + i]]
  BY <1>4 DEF Waiting
<1>6. Len(round) = n - m /\ \A i \in 1 .. n - m : round[i] = s[m + i]
  BY <1>3, <1>5
<1>7. s[n + 1] \in Records
  BY RecordFields
<1>8. PICK more : more = Append(round, s[n + 1])
  OBVIOUS
<1>9. /\ more \in Seq(Records) /\ Len(more) = n - m + 1
      /\ \A i \in 1 .. n - m : more[i] = round[i]
      /\ more[n - m + 1] = s[n + 1]
  BY <1>3, <1>5, <1>6, <1>7, <1>8
<1>10. ASSUME NEW i \in 1 .. n + 1 - m PROVE more[i] = s[m + i]
  <2>1. CASE i \in 1 .. n - m
    BY <1>6, <1>9, <2>1
  <2>2. CASE i = n - m + 1
    <3>1. m + i = n + 1
      BY <1>3, <2>2
    <3> QED BY <1>9, <2>2, <3>1
  <2>3. i \in 1 .. n - m \/ i = n - m + 1
    BY <1>3
  <2> QED BY <2>1, <2>2, <2>3, Zenon
<1>11. more = [i \in 1 .. n + 1 - m |-> s[m + i]]
  <2>1. more \in [1 .. n + 1 - m -> Records]
    BY <1>3, <1>9
  <2> QED BY <1>10, <2>1
<1>12. \A i \in m + 1 .. n + 1 : s[i].worker < N
  BY <1>3 DEF Waiting
<1> QED BY <1>1, <1>2, <1>3, <1>4, <1>8, <1>11, <1>12, SMTT(30) DEF Waiting

\* One of another thread goes out behind them.
LEMMA AddUnlabelled ==
  ASSUME NEW s \in Seq(Records), NEW n \in Nat, n + 1 <= Len(s), ~(s[n + 1].worker < N),
         NEW m, NEW acc \in [lines : Seq(Lines), round : Seq(Records)],
         Waiting(acc, s, n, m)
  PROVE  Waiting(AddRecord(acc, s[n + 1]), s, n + 1, n + 1)
<1>1. PICK new : new = AddRecord(acc, s[n + 1])
  OBVIOUS
<1>2. PICK flushed : flushed = Flush(acc)
  OBVIOUS
<1>3. new.lines = Append(flushed, s[n + 1].text) /\ new.round = <<>>
  BY <1>1, <1>2 DEF AddRecord
<1>4. n \in 0 .. Len(s) /\ n + 1 \in 1 .. Len(s)
  OBVIOUS
<1>5. s[n + 1] \in Records /\ s[n + 1].text \in Lines /\ s[n + 1].worker = N
  BY <1>4, RecordFields
<1>6. Grouped(flushed, s, n)
  BY <1>2, <1>4, FlushGroups
<1>7. flushed \in Seq(Lines) /\ Len(flushed) = n
  BY <1>4, <1>6, GroupedLines
<1>8. PICK order : Grouping(order, flushed, s, n)
  BY <1>6 DEF Grouped
<1>9. /\ \A i \in 1 .. n : order[i] \in 1 .. n
      /\ \A p \in 1 .. n : \E i \in 1 .. n : order[i] = p
      /\ \A i \in 1 .. n : flushed[i] = s[order[i]].text
      /\ \A i, j \in 1 .. n : i < j => Before(s, order[i], order[j])
  BY <1>8 DEF Grouping
<1>10. PICK out : out = Append(flushed, s[n + 1].text)
  OBVIOUS
<1>11. /\ out \in Seq(Lines) /\ Len(out) = n + 1
       /\ \A i \in 1 .. n : out[i] = flushed[i]
       /\ out[n + 1] = s[n + 1].text
  BY <1>5, <1>7, <1>10
<1> DEFINE place == [i \in 1 .. n + 1 |-> IF i = n + 1 THEN n + 1 ELSE order[i]]
<1>12. /\ \A i \in 1 .. n : place[i] = order[i] /\ i \in 1 .. n + 1
       /\ place[n + 1] = n + 1 /\ n + 1 \in 1 .. n + 1
       /\ \A i \in 1 .. n + 1 : i = n + 1 \/ i \in 1 .. n
  OBVIOUS
<1>13. place \in [1 .. n + 1 -> 1 .. n + 1]
  <2>1. \A i \in 1 .. n : order[i] \in 1 .. n + 1
    <3>1. \A i \in 1 .. n : i \in 1 .. n + 1
      OBVIOUS
    <3> QED BY <1>9, <3>1, Zenon
  <2> QED BY <1>12, <2>1
<1> HIDE DEF place
<1>14. \A p \in 1 .. n + 1 : \E i \in 1 .. n + 1 : place[i] = p
  BY <1>9, <1>12
<1>15. out = [i \in 1 .. n + 1 |-> s[place[i]].text]
  <2>1. out \in [1 .. n + 1 -> Lines]
    BY <1>11
  <2>2. \A i \in 1 .. n + 1 : out[i] = s[place[i]].text
    BY <1>9, <1>11, <1>12
  <2> QED BY <2>1, <2>2
<1>16. ASSUME NEW i \in 1 .. n + 1, NEW j \in 1 .. n + 1, i < j
       PROVE  Before(s, place[i], place[j])
  <2>1. CASE j = n + 1
    <3>0. i \in 1 .. n
      BY <1>16, <2>1
    <3>1. i \in 1 .. n /\ place[i] \in 1 .. n /\ place[j] = n + 1
      BY <1>9, <1>12, <2>1, <3>0
    <3>2. PICK p : p = place[i]
      OBVIOUS
    <3>3. ~(s[n + 1].worker < N) /\ p <= n + 1 /\ n + 1 \in 1 .. Len(s)
      BY <1>4, <3>1, <3>2
    <3>4. ~SameRun(s, p, n + 1)
      BY <3>3 DEF SameRun
    <3>5. p < n + 1
      BY <3>1, <3>2
    <3> QED BY <3>1, <3>2, <3>4, <3>5 DEF Before
  <2>2. CASE j # n + 1
    <3>1. i \in 1 .. n /\ j \in 1 .. n
      BY <1>16, <2>2
    <3> QED BY <1>9, <1>12, <1>16, <3>1
  <2> QED BY <2>1, <2>2
<1>17. Grouped(out, s, n + 1)
  <2>1. Grouping(place, out, s, n + 1)
    BY <1>13, <1>14, <1>15, <1>16 DEF Grouping
  <2> QED BY <2>1 DEF Grouped
<1>18. new.round = [i \in 1 .. (n + 1) - (n + 1) |-> s[n + 1 + i]]
  <2>1. 1 .. (n + 1) - (n + 1) = {}
    OBVIOUS
  <2> QED BY <1>3, <2>1
<1>19. /\ n + 1 \in 0 .. n + 1
       /\ \A i \in n + 1 + 1 .. n + 1 : s[i].worker < N
  OBVIOUS
<1> QED BY <1>1, <1>3, <1>5, <1>10, <1>17, <1>18, <1>19 DEF Waiting

\* What the accumulator of the grouping holds.
LEMMA AddRecordType ==
  ASSUME NEW acc \in [lines : Seq(Lines), round : Seq(Records)], NEW r \in Records
  PROVE  AddRecord(acc, r) \in [lines : Seq(Lines), round : Seq(Records)]
<1>1. CASE r.worker < N
  <2>1. acc.lines \in Seq(Lines) /\ Append(acc.round, r) \in Seq(Records)
    OBVIOUS
  <2>2. AddRecord(acc, r) = [lines |-> acc.lines, round |-> Append(acc.round, r)]
    BY <1>1 DEF AddRecord
  <2> QED BY <2>1, <2>2
<1>2. CASE ~(r.worker < N)
  <2>1. PICK texts : texts = TextsOf(ByWorker(acc.round))
    OBVIOUS
  <2>2. texts \in Seq(Lines)
    BY <2>1, SortedTexts
  <2>3. PICK flushed : flushed = acc.lines \o texts
    OBVIOUS
  <2>4. flushed \in Seq(Lines) /\ r.text \in Lines
    BY <2>2, <2>3 DEF Records
  <2>5. Append(flushed, r.text) \in Seq(Lines) /\ <<>> \in Seq(Records)
    BY <2>4
  <2>6. AddRecord(acc, r) = [lines |-> Append(flushed, r.text), round |-> <<>>]
    BY <1>2, <2>1, <2>3 DEF AddRecord, Flush
  <2> QED BY <2>5, <2>6
<1> QED BY <1>1, <1>2

\* The fold over the records.
LEMMA GroupFold ==
  ASSUME NEW s \in Seq(Records)
  PROVE  \E acc :
           /\ acc[0] = Ungrouped
           /\ \A n \in 0 .. Len(s) - 1 : acc[n + 1] = AddRecord(acc[n], s[n + 1])
           /\ GroupConcurrentOutput(s) = Flush(acc[Len(s)])
<1> DEFINE A == [lines : Seq(Lines), round : Seq(Records)]
           step == [q \in A \X Records |-> AddRecord(q[1], q[2])]
           iter == CHOOSE f : f = [x \in SUBSET DOMAIN s |->
                     IF x = {} THEN Ungrouped ELSE AddRecord(f[x \ {Max(x)}], s[Max(x)])]
<1>1. Ungrouped \in A
  <2>1. <<>> \in Seq(Lines) /\ <<>> \in Seq(Records)
    OBVIOUS
  <2> QED BY <2>1 DEF Ungrouped
<1>2. PICK g \in [SUBSET DOMAIN s -> A] :
        \A x \in SUBSET DOMAIN s :
          g[x] = IF x = {} THEN Ungrouped ELSE step[<<g[x \ {Max(x)}], s[Max(x)]>>]
  <2>1. step \in [A \X Records -> A]
    BY AddRecordType
  <2> HIDE DEF A, step
  <2>2. \E g \in [SUBSET DOMAIN s -> A] : IsFold(Ungrouped, step, s, g)
    BY <1>1, <2>1, FoldExists
  <2> QED BY <2>2 DEF IsFold
<1>3. g = [x \in SUBSET DOMAIN s |->
             IF x = {} THEN Ungrouped ELSE AddRecord(g[x \ {Max(x)}], s[Max(x)])]
  <2> SUFFICES ASSUME NEW x \in SUBSET DOMAIN s, x # {}
               PROVE  g[x] = AddRecord(g[x \ {Max(x)}], s[Max(x)])
    BY <1>2
  <2>1. Max(x) \in x
    <3>1. x \in SUBSET (1 .. Len(s)) /\ Len(s) \in Nat
      OBVIOUS
    <3> QED BY <3>1, MaxIsMember
  <2> HIDE DEF A
  <2>2. s[Max(x)] \in Records /\ g[x \ {Max(x)}] \in A
    BY <2>1
  <2> QED BY <1>2, <2>2
<1>4. iter = [x \in SUBSET DOMAIN s |->
                IF x = {} THEN Ungrouped ELSE AddRecord(iter[x \ {Max(x)}], s[Max(x)])]
  <2> HIDE DEF A, step
  <2> QED BY <1>3
<1>5. GroupConcurrentOutput(s) = Flush(iter[DOMAIN s])
  BY DEF GroupConcurrentOutput, FoldLeft, MapThenFoldSet
<1> HIDE DEF iter
<1> DEFINE acc == [n \in Nat |-> iter[1 .. n]]
<1>6. DOMAIN s = 1 .. Len(s) /\ Len(s) \in Nat
  OBVIOUS
<1>7. acc[0] = Ungrouped
  <2>1. 1 .. 0 = {}
    OBVIOUS
  <2> QED BY <1>4, <2>1
<1>8. ASSUME NEW n \in 0 .. Len(s) - 1
      PROVE  acc[n + 1] = AddRecord(acc[n], s[n + 1])
  <2>1. /\ 1 .. n + 1 \in SUBSET DOMAIN s /\ n \in Nat /\ n + 1 \in Nat
        /\ n + 1 \in 1 .. n + 1
    BY <1>6
  <2>2. Max(1 .. n + 1) = n + 1 /\ (1 .. n + 1) \ {n + 1} = 1 .. n
    BY <2>1, PrefixOfIndices
  <2>3. iter[1 .. n + 1] = AddRecord(iter[1 .. n], s[n + 1])
    BY <1>4, <2>1, <2>2
  <2> QED BY <2>1, <2>3
<1>9. GroupConcurrentOutput(s) = Flush(acc[Len(s)])
  BY <1>5, <1>6
<1> QED BY <1>7, <1>8, <1>9

\* The report shows each record once: those of other threads where they were, the
\* ones between two of them by worker.
LEMMA GroupingSorts ==
  ASSUME NEW s \in Seq(Records)
  PROVE  Grouped(GroupConcurrentOutput(s), s, Len(s))
<1>1. PICK acc : /\ acc[0] = Ungrouped
                 /\ \A n \in 0 .. Len(s) - 1 : acc[n + 1] = AddRecord(acc[n], s[n + 1])
                 /\ GroupConcurrentOutput(s) = Flush(acc[Len(s)])
  BY GroupFold
<1> DEFINE Q(n) == /\ acc[n] \in [lines : Seq(Lines), round : Seq(Records)]
                   /\ \E m : Waiting(acc[n], s, n, m)
           P == {n \in Nat : n <= Len(s) => Q(n)}
<1>2. Q(0)
  <2>1. <<>> \in Seq(Lines) /\ <<>> \in Seq(Records) /\ 1 .. 0 = {}
    OBVIOUS
  <2> DEFINE none == [i \in 1 .. 0 |-> 0]
  <2>2. none \in [1 .. 0 -> 1 .. 0] /\ <<>> = [i \in 1 .. 0 |-> s[none[i]].text]
    BY <2>1
  <2>3. Grouping(none, <<>>, s, 0)
    BY <2>1, <2>2 DEF Grouping
  <2>4. <<>> = [i \in 1 .. 0 - 0 |-> s[0 + i]] /\ 0 \in 0 .. 0
    BY <2>1
  <2>5. Waiting(acc[0], s, 0, 0)
    BY <1>1, <2>1, <2>3, <2>4 DEF Waiting, Grouped, Ungrouped
  <2> QED BY <1>1, <2>1, <2>5 DEF Ungrouped
<1>3. ASSUME NEW n \in Nat, n + 1 <= Len(s), Q(n) PROVE Q(n + 1)
  <2>1. n \in 0 .. Len(s) - 1 /\ n + 1 \in 1 .. Len(s)
    BY <1>3
  <2>2. acc[n + 1] = AddRecord(acc[n], s[n + 1]) /\ s[n + 1] \in Records
    BY <1>1, <2>1, RecordFields
  <2>3. PICK m : Waiting(acc[n], s, n, m)
    BY <1>3
  <2>4. acc[n + 1] \in [lines : Seq(Lines), round : Seq(Records)]
    BY <1>3, <2>2, AddRecordType
  <2>5. CASE s[n + 1].worker < N
    BY <1>3, <2>2, <2>3, <2>4, <2>5, AddLabelled
  <2>6. CASE ~(s[n + 1].worker < N)
    BY <1>3, <2>2, <2>3, <2>4, <2>6, AddUnlabelled
  <2> QED BY <2>5, <2>6
<1> HIDE DEF Q
<1>4. P = Nat
  <2>1. P \in SUBSET Nat /\ 0 \in P
    BY <1>2
  <2>2. ASSUME NEW n \in P PROVE n + 1 \in P
    <3>1. n \in Nat /\ n + 1 \in Nat /\ (n <= Len(s) => Q(n))
      OBVIOUS
    <3>2. n + 1 <= Len(s) => n <= Len(s)
      BY <3>1
    <3> QED BY <1>3, <3>1, <3>2
  <2> HIDE DEF P
  <2> QED BY <2>1, <2>2, SetInduction
<1>5. Len(s) \in Nat /\ Len(s) <= Len(s) /\ Len(s) \in 0 .. Len(s)
  OBVIOUS
<1>6. Q(Len(s))
  BY <1>4, <1>5
<1>7. PICK m : Waiting(acc[Len(s)], s, Len(s), m)
  BY <1>6 DEF Q
<1> QED BY <1>1, <1>5, <1>7, FlushGroups

-----------------------------------------------------------------------------
(* The body of a framed report *)

TypeInv ==
  /\ in_report => ~buffer_output /\ verbosity # "Quiet"
  /\ round_number \in Nat
  /\ busy \subseteq Participants
  /\ waiting \subseteq Participants
  /\ notes \in [Participants -> Nat]
  /\ message \in [Threads -> Seq(Lines)]
  /\ live \in Seq(Lines \cup {Blank})
  /\ printed_output \in BOOLEAN

\* A thread writes only while the main thread has a round open, and the main
\* thread itself only before it goes on.
WriterInv ==
  /\ main \notin {"header", "await"} => busy = {} /\ waiting = {}
  /\ main \in {"publish", "ended", "reported"} => Silent(Main)
  /\ \A t \in Participants : message[t] # <<>> => t \in busy

\* Whoever holds the mutex has set the body off.
OpenedInv == output_mutex # Nobody => printed_output

\* What a framed report has printed so far: nothing, or a blank line and lines.
BodyInv ==
  in_report =>
    /\ ~printed_output => live = <<>>
    /\ printed_output => /\ Len(live) >= 1
                         /\ live[1] = Blank
                         /\ \A i \in 2 .. Len(live) : live[i] # Blank

\* The report is the body, and a blank line below it.
ClosedInv ==
  main = "reported" /\ in_report =>
    report = IF printed_output THEN Append(live, Blank) ELSE live

IInv == TypeInv /\ WriterInv /\ OpenedInv /\ BodyInv /\ ClosedInv

\* A line is told from the blank one.
LEMMA LinesNotBlank == \A line \in Lines : line # Blank
<1> SUFFICES ASSUME NEW line \in Lines PROVE line # Blank
  OBVIOUS
<1>1. PICK r \in Nat, t \in Threads, n \in Nat, i \in {1, 2} : line = <<r, t, n, i>>
  BY DEF Lines
<1> QED BY <1>1 DEF Blank

\* A message is made of lines.
LEMMA MessageLines ==
  ASSUME TypeInv, NEW t \in Threads, NEW n \in Nat, NEW length \in 0 .. 2
  PROVE  Message(t, n, length) \in Seq(Lines)
<1>1. [i \in 1 .. length |-> <<round_number, t, n, i>>] \in Seq(Lines)
  <2>1. \A i \in 1 .. length : <<round_number, t, n, i>> \in Lines
    BY DEF TypeInv, Lines
  <2> QED BY <2>1
<1>2. <<>> \in Seq(Lines)
  OBVIOUS
<1> QED BY <1>1, <1>2 DEF Message

\* The first state.
LEMMA InitInv == Init => IInv
<1> SUFFICES ASSUME Init PROVE IInv
  OBVIOUS
<1>1. TypeInv
  <2>1. <<>> \in Seq(Lines) /\ <<>> \in Seq(Lines \cup {Blank})
    OBVIOUS
  <2> QED BY <2>1 DEF Init, TypeInv
<1>2. WriterInv /\ OpenedInv /\ BodyInv /\ ClosedInv
  BY DEF Init, WriterInv, OpenedInv, BodyInv, ClosedInv, Silent, Threads
<1> QED BY <1>1, <1>2 DEF IInv

\* The header of a round.
LEMMA OpenRoundInv == IInv /\ OpenRound => IInv'
<1> SUFFICES ASSUME IInv, OpenRound PROVE IInv'
  OBVIOUS
<1>1. UNCHANGED <<in_report, buffer_output, verbosity, live, printed_output, output_mutex>>
  BY DEF OpenRound, mode, output
<1>2. round_number + 1 \in Nat /\ Main \in Threads
  BY DEF IInv, TypeInv, Threads
<1>3. <<<<round_number + 1, Main, 0, 1>>>> \in Seq(Lines)
  <2>1. <<round_number + 1, Main, 0, 1>> \in Lines
    BY <1>2 DEF Lines
  <2> QED BY <2>1
<1>4. message' \in [Threads -> Seq(Lines)]
  BY <1>2, <1>3 DEF OpenRound, IInv, TypeInv
<1>5. TypeInv'
  BY <1>1, <1>2, <1>4 DEF OpenRound, IInv, TypeInv
<1>6. WriterInv'
  <2>1. \A t \in Participants : message'[t] = message[t]
    BY DEF OpenRound, IInv, TypeInv, Threads, Participants, Workers
  <2> QED BY <2>1 DEF OpenRound, IInv, WriterInv
<1>7. OpenedInv' /\ BodyInv' /\ ClosedInv'
  BY <1>1 DEF OpenRound, IInv, OpenedInv, BodyInv, ClosedInv
<1> QED BY <1>5, <1>6, <1>7 DEF IInv

\* The main thread goes on when what it wrote is out.
LEMMA MainInv == IInv /\ (Await \/ CloseRound \/ NextRound) => IInv'
<1> SUFFICES ASSUME IInv, Await \/ CloseRound \/ NextRound PROVE IInv'
  OBVIOUS
<1>1. UNCHANGED <<in_report, buffer_output, verbosity, live, printed_output,
                  output_mutex, round_number, busy, waiting, notes>>
  BY DEF Await, CloseRound, NextRound, mode, output
<1>2. message' \in [Threads -> Seq(Lines)]
  <2>1. CASE Await \/ NextRound
    BY <2>1 DEF Await, NextRound, IInv, TypeInv
  <2>2. CASE CloseRound
    <3>1. PICK length \in 0 .. 1 :
            message' = [message EXCEPT ![Main] = Message(Main, MaxNotes, length)]
      BY <2>2 DEF CloseRound
    <3>2. MaxNotes \in Nat /\ length \in 0 .. 2 /\ Main \in Threads
      BY DEF Threads
    <3>3. Message(Main, MaxNotes, length) \in Seq(Lines)
      BY <3>2, MessageLines DEF IInv
    <3> QED BY <3>1, <3>3 DEF IInv, TypeInv
  <2> QED BY <2>1, <2>2
<1>3. TypeInv'
  BY <1>1, <1>2 DEF IInv, TypeInv
<1>4. WriterInv'
  <2>1. CASE Await
    BY <2>1, <1>1 DEF Await, IInv, WriterInv, Silent
  <2>2. CASE NextRound
    BY <2>2, <1>1 DEF NextRound, IInv, WriterInv, Silent
  <2>3. CASE CloseRound
    <3>1. \A t \in Participants : message'[t] = message[t]
      BY <2>3 DEF CloseRound, IInv, TypeInv, Threads, Participants, Workers
    <3> QED BY <2>3, <1>1, <3>1 DEF CloseRound, IInv, WriterInv
  <2> QED BY <2>1, <2>2, <2>3
<1>5. OpenedInv' /\ BodyInv' /\ ClosedInv'
  BY <1>1 DEF Await, CloseRound, NextRound, IInv, OpenedInv, BodyInv, ClosedInv
<1> QED BY <1>3, <1>4, <1>5 DEF IInv

\* A participant enters the round, begins a note, or leaves.
LEMMA ParticipantInv ==
  ASSUME IInv, NEW t \in Participants, Enter(t) \/ Note(t) \/ Leave(t)
  PROVE  IInv'
<1>1. UNCHANGED <<in_report, buffer_output, verbosity, live, printed_output,
                  output_mutex, main, round_number, report>>
  BY DEF Enter, Note, Leave, mode, output, rounds
<1>2. t \in Threads /\ t # Main
  BY DEF Threads, Participants, Workers
<1>3. message' \in [Threads -> Seq(Lines)] /\ notes' \in [Participants -> Nat]
  <2>1. CASE Enter(t) \/ Leave(t)
    BY <2>1 DEF Enter, Leave, IInv, TypeInv
  <2>2. CASE Note(t)
    <3>1. PICK length \in 1 .. 2 :
            message' = [message EXCEPT ![t] = Message(t, notes[t] + 1, length)]
      BY <2>2 DEF Note
    <3>2. notes[t] + 1 \in Nat /\ length \in 0 .. 2
      BY DEF IInv, TypeInv
    <3>3. Message(t, notes[t] + 1, length) \in Seq(Lines)
      BY <1>2, <3>2, MessageLines DEF IInv
    <3> QED BY <2>2, <3>1, <3>2, <3>3 DEF Note, IInv, TypeInv
  <2> QED BY <2>1, <2>2
<1>4. busy' \subseteq Participants /\ waiting' \subseteq Participants
  BY DEF Enter, Note, Leave, rounds, IInv, TypeInv
<1>5. TypeInv'
  BY <1>1, <1>3, <1>4 DEF IInv, TypeInv
<1>6. WriterInv'
  <2>1. CASE Enter(t)
    BY <2>1, <1>1 DEF Enter, IInv, WriterInv, Silent
  <2>2. CASE Leave(t)
    BY <2>2, <1>1 DEF Leave, IInv, WriterInv, Silent
  <2>3. CASE Note(t)
    <3>1. UNCHANGED <<busy, waiting>> /\ t \in busy
      BY <2>3 DEF Note, rounds
    <3>2. \A u \in Threads : u # t => message'[u] = message[u]
      BY <2>3 DEF Note, IInv, TypeInv
    <3> QED BY <1>1, <1>2, <3>1, <3>2
            DEF IInv, WriterInv, Silent, Threads
  <2> QED BY <2>1, <2>2, <2>3
<1>7. OpenedInv' /\ BodyInv' /\ ClosedInv'
  BY <1>1 DEF IInv, OpenedInv, BodyInv, ClosedInv
<1> QED BY <1>5, <1>6, <1>7 DEF IInv

\* Nothing is written after the report.
LEMMA WriterEarly ==
  ASSUME IInv, NEW t \in Threads, message[t] # <<>>
  PROVE  main # "reported"
  BY DEF IInv, WriterInv, Silent, Threads

\* The first to take the mutex sets the body off.
LEMMA LockInv == ASSUME IInv, NEW t \in Threads, LockOutput(t) PROVE IInv'
<1>1. main # "reported"
  BY WriterEarly DEF LockOutput
<1>2. UNCHANGED <<in_report, buffer_output, verbosity, main, round_number, busy,
                  waiting, notes, message>> /\ printed_output' = TRUE
  BY DEF LockOutput, mode, rounds
<1>3. live' \in Seq(Lines \cup {Blank})
  <2>1. <<Blank>> \in Seq(Lines \cup {Blank})
    OBVIOUS
  <2> QED BY <2>1 DEF LockOutput, IInv, TypeInv
<1>4. TypeInv' /\ WriterInv' /\ OpenedInv' /\ ClosedInv'
  BY <1>1, <1>2, <1>3 DEF IInv, TypeInv, WriterInv, OpenedInv, ClosedInv, Silent
<1>5. BodyInv'
  <2> SUFFICES ASSUME in_report
               PROVE  /\ Len(live') >= 1
                      /\ live'[1] = Blank
                      /\ \A i \in 2 .. Len(live') : live'[i] # Blank
    BY <1>2 DEF BodyInv
  <2>1. EmitLive
    BY DEF IInv, TypeInv, EmitLive
  <2>2. CASE printed_output
    BY <2>2 DEF LockOutput, IInv, BodyInv
  <2>3. CASE ~printed_output
    BY <2>1, <2>3 DEF LockOutput
  <2> QED BY <2>2, <2>3
<1> QED BY <1>4, <1>5 DEF IInv

\* A line falls behind the blank one.
LEMMA WriteInv == ASSUME IInv, NEW t \in Threads, WriteLine(t) PROVE IInv'
<1>1. main # "reported"
  BY WriterEarly DEF WriteLine
<1>2. UNCHANGED <<in_report, buffer_output, verbosity, main, round_number, busy,
                  waiting, notes, printed_output>>
  BY DEF WriteLine, mode, rounds
<1>3. printed_output
  BY DEF WriteLine, IInv, OpenedInv, Threads, Participants, Workers
<1>4. Head(message[t]) \in Lines /\ Tail(message[t]) \in Seq(Lines)
  BY DEF WriteLine, IInv, TypeInv
<1>5. message' \in [Threads -> Seq(Lines)]
  BY <1>4 DEF WriteLine, IInv, TypeInv
<1>6. live' \in Seq(Lines \cup {Blank})
  BY <1>4 DEF WriteLine, IInv, TypeInv
<1>7. TypeInv'
  BY <1>2, <1>5, <1>6 DEF IInv, TypeInv
<1>8. WriterInv'
  <2>1. \A u \in Threads : message'[u] # <<>> => message[u] # <<>>
    BY DEF WriteLine, IInv, TypeInv
  <2> QED BY <1>2, <2>1 DEF IInv, WriterInv, Silent, Threads
<1>9. OpenedInv' /\ ClosedInv'
  BY <1>1, <1>2, <1>3 DEF OpenedInv, ClosedInv
<1>10. BodyInv'
  <2>1. Head(message[t]) # Blank
    BY <1>4, LinesNotBlank
  <2>2. CASE EmitLive
    <3>1. live' = Append(live, Head(message[t])) /\ live \in Seq(Lines \cup {Blank})
      BY <2>2 DEF WriteLine, IInv, TypeInv
    <3> QED BY <1>2, <1>3, <1>4, <2>1, <3>1 DEF IInv, BodyInv
  <2>3. CASE ~EmitLive
    BY <2>3, <1>2 DEF WriteLine, IInv, BodyInv
  <2> QED BY <2>2, <2>3
<1> QED BY <1>7, <1>8, <1>9, <1>10 DEF IInv

\* The report ends the body.
LEMMA ReportInv == IInv /\ Report => IInv'
<1> SUFFICES ASSUME IInv, Report PROVE IInv'
  OBVIOUS
<1>1. UNCHANGED <<in_report, buffer_output, verbosity, round_number, busy, waiting,
                  notes, message, output_mutex, live, printed_output>>
      /\ main' = "reported"
  BY DEF Report, mode, output
<1>2. TypeInv' /\ OpenedInv' /\ BodyInv'
  BY <1>1 DEF IInv, TypeInv, OpenedInv, BodyInv
<1>3. WriterInv'
  BY <1>1 DEF Report, IInv, WriterInv, Silent
<1>4. ClosedInv'
  BY <1>1 DEF Report, IInv, TypeInv, ClosedInv
<1> QED BY <1>2, <1>3, <1>4 DEF IInv

\* What a framed report has printed, whoever writes (TestCase::note).
THEOREM OutputInductive == Spec => []IInv
<1>1. IInv /\ [Next]_vars => IInv'
  <2> SUFFICES ASSUME IInv, [Next]_vars PROVE IInv'
    OBVIOUS
  <2>1. CASE UNCHANGED vars
    BY <2>1 DEF IInv, TypeInv, WriterInv, OpenedInv, BodyInv, ClosedInv, Silent,
                vars, mode, rounds, output
  <2>2. CASE Next
    BY <2>2, OpenRoundInv, MainInv, ParticipantInv, LockInv, WriteInv, ReportInv
       DEF Next
  <2> QED BY <2>1, <2>2
<1> QED BY InitInv, <1>1, PTL DEF Spec

\* The report of a failure is set off by one blank line at each end, and by none
\* when the case printed nothing (the first_line of TestCase::note).
THEOREM BodiesSetOff == Spec => []BodySetOff
<1>1. IInv => BodySetOff
  <2> SUFFICES ASSUME IInv, main = "reported", in_report
               PROVE  {i \in DOMAIN report : report[i] = Blank} =
                        (IF printed_output THEN {1, Len(report)} ELSE {})
    BY DEF BodySetOff
  <2>1. CASE printed_output
    <3>1. report = Append(live, Blank) /\ live \in Seq(Lines \cup {Blank})
      BY <2>1 DEF IInv, ClosedInv, TypeInv
    <3>2. /\ Len(live) \in Nat /\ Len(report) = Len(live) + 1
          /\ DOMAIN report = 1 .. Len(live) + 1
          /\ report[Len(live) + 1] = Blank
          /\ \A i \in 1 .. Len(live) : report[i] = live[i]
      BY <3>1 DEF Blank
    <3>3. /\ Len(live) >= 1
          /\ live[1] = Blank
          /\ \A i \in 2 .. Len(live) : live[i] # Blank
      BY <2>1 DEF IInv, BodyInv
    <3>4. \A i \in DOMAIN report : report[i] = Blank <=> i \in {1, Len(report)}
      BY <3>2, <3>3
    <3>5. {1, Len(report)} \subseteq DOMAIN report
      BY <3>2, <3>3
    <3> QED BY <2>1, <3>4, <3>5
  <2>2. CASE ~printed_output
    BY <2>2 DEF IInv, ClosedInv, BodyInv
  <2> QED BY <2>1, <2>2
<1> QED BY <1>1, OutputInductive, PTL
-----------------------------------------------------------------------------
(* The lines of a case *)

Line(i) == output_lines[i].text

\* What a thread has still to write of a note: one line, two lines, or the second
\* of two behind the first, which nobody has separated from it.
Remaining(t, n) ==
  \/ message[t] = <<<<round_number, t, n, 1>>>>
  \/ message[t] = <<<<round_number, t, n, 1>>, <<round_number, t, n, 2>>>>
  \/ /\ message[t] = <<<<round_number, t, n, 2>>>>
     /\ output_mutex = t
     /\ buffer_output => /\ Len(output_lines) >= 1
                         /\ Line(Len(output_lines)) = <<round_number, t, n, 1>>
     /\ EmitLive => /\ Len(live) >= 1
                    /\ live[Len(live)] = <<round_number, t, n, 1>>

RecordInv ==
  /\ buffer_output \in BOOLEAN
  /\ main \in {"publish", "header", "await", "between", "ended", "reported"}
  /\ output_lines \in Seq(Records)
  /\ \A i \in 1 .. Len(output_lines) : output_lines[i].worker = Label(Line(i)[2])

PendingInv ==
  \A t \in Threads : message[t] # <<>> =>
    /\ ShouldLog
    /\ \E n \in Nat : (t \in Participants => n = notes[t]) /\ Remaining(t, n)

\* The second line of a note follows its first.
AdjacentInv ==
  /\ \A i \in 1 .. Len(output_lines) : Line(i)[4] = 2 =>
       i > 1 /\ Line(i - 1) = <<Line(i)[1], Line(i)[2], Line(i)[3], 1>>
  /\ \A i \in 1 .. Len(live) : live[i] # Blank /\ live[i][4] = 2 =>
       i > 1 /\ live[i - 1] = <<live[i][1], live[i][2], live[i][3], 1>>

Header(r) == <<r, Main, 0, 1>>

\* Rounds follow each other, and a line of a round follows its header.
RoundsInv ==
  /\ \A i \in 1 .. Len(output_lines) : Line(i)[1] <= round_number
  /\ \A i, j \in 1 .. Len(output_lines) : i < j => Line(i)[1] <= Line(j)[1]
  /\ \A j \in 1 .. Len(output_lines) : \E k \in 1 .. j : Line(k) = Header(Line(j)[1])

\* Nobody is in the round before its header is written.
HeaderInv ==
  /\ main = "header" => busy = {}
  /\ main = "header" /\ message[Main] # <<>> =>
       /\ message[Main] = <<Header(round_number)>>
       /\ \A i \in 1 .. Len(output_lines) : Line(i)[1] < round_number
  /\ main \in {"await", "between"} \/ (main = "header" /\ message[Main] = <<>>) =>
       (ShouldLog /\ buffer_output =>
          \E k \in 1 .. Len(output_lines) : Line(k) = Header(round_number))

Earlier(a, b) == a[3] < b[3] \/ (a[3] = b[3] /\ a[4] < b[4])

\* A thread of the round writes its notes, and their lines, in order.
CountInv ==
  /\ \A i \in 1 .. Len(output_lines) :
       Line(i)[1] = round_number /\ Line(i)[2] \in Participants =>
         /\ Line(i)[3] <= notes[Line(i)[2]]
         /\ message[Line(i)[2]] # <<>> => Earlier(Line(i), Head(message[Line(i)[2]]))
  /\ \A i, j \in 1 .. Len(output_lines) :
       i < j /\ Line(i)[1] = Line(j)[1] /\ Line(i)[2] = Line(j)[2]
             /\ Line(i)[2] \in Participants => Earlier(Line(i), Line(j))

\* What Report leaves.
Closed(body, open) == IF open THEN Append(body, Blank) ELSE body

ReportedInv ==
  report =
    IF main # "reported" \/ verbosity = "Quiet" THEN <<>>
    ELSE IF buffer_output
         THEN Closed(GroupConcurrentOutput(output_lines), GroupConcurrentOutput(output_lines) # <<>>)
         ELSE Closed(live, printed_output)

NInv == /\ RecordInv /\ PendingInv /\ AdjacentInv /\ RoundsInv /\ HeaderInv
        /\ CountInv /\ ReportedInv

\* The parts of a line.
LEMMA LineParts ==
  ASSUME RecordInv, NEW i \in 1 .. Len(output_lines)
  PROVE  /\ output_lines[i] \in Records /\ Line(i) \in Lines
         /\ Line(i)[1] \in Nat /\ Line(i)[2] \in Threads /\ Line(i)[3] \in Nat
         /\ Line(i)[4] \in {1, 2}
<1>1. output_lines[i] \in Records /\ Line(i) \in Lines
  BY RecordFields DEF RecordInv, Line
<1>2. PICK l : l = Line(i)
  OBVIOUS
<1>3. l \in Nat \X Threads \X Nat \X {1, 2}
  BY <1>1, <1>2 DEF Lines
<1>4. l[1] \in Nat /\ l[2] \in Threads /\ l[3] \in Nat /\ l[4] \in {1, 2}
  BY <1>3
<1> QED BY <1>1, <1>2, <1>4

LEMMA InitNotes == Init => NInv
<1> SUFFICES ASSUME Init PROVE NInv
  OBVIOUS
<1>1. output_lines = <<>> /\ Len(output_lines) = 0 /\ live = <<>> /\ Len(live) = 0
      /\ 1 .. 0 = {}
  BY DEF Init
<1>2. RecordInv
  BY <1>1 DEF Init, RecordInv
<1>3. PendingInv /\ HeaderInv /\ ReportedInv
  BY <1>1 DEF Init, PendingInv, HeaderInv, ReportedInv
<1>4. AdjacentInv /\ RoundsInv /\ CountInv
  BY <1>1 DEF AdjacentInv, RoundsInv, CountInv
<1> QED BY <1>2, <1>3, <1>4 DEF NInv

\* A note of one line or two.
LEMMA NewMessage ==
  ASSUME NEW t, NEW n, NEW length \in 0 .. 2, Message(t, n, length) # <<>>
  PROVE  /\ ShouldLog
         /\ \/ Message(t, n, length) = <<<<round_number, t, n, 1>>>>
            \/ Message(t, n, length) = <<<<round_number, t, n, 1>>, <<round_number, t, n, 2>>>>
<1>1. ShouldLog /\ Message(t, n, length) = [i \in 1 .. length |-> <<round_number, t, n, i>>]
  BY DEF Message
<1>2. CASE length = 0
  <2>1. 1 .. 0 = {}
    OBVIOUS
  <2> QED BY <1>1, <1>2, <2>1
<1>3. CASE length = 1
  <2>1. [i \in 1 .. 1 |-> <<round_number, t, n, i>>] = <<<<round_number, t, n, 1>>>>
    OBVIOUS
  <2> QED BY <1>1, <1>3, <2>1
<1>4. CASE length = 2
  <2>1. [i \in 1 .. 2 |-> <<round_number, t, n, i>>] =
          <<<<round_number, t, n, 1>>, <<round_number, t, n, 2>>>>
    OBVIOUS
  <2> QED BY <1>1, <1>4, <2>1
<1> QED BY <1>2, <1>3, <1>4

\* Until its round is open no participant has anything to write.
LEMMA QuietParticipants ==
  ASSUME IInv, NInv, main # "await"
  PROVE  \A t \in Participants : message[t] = <<>>
BY DEF IInv, WriterInv, NInv, HeaderInv

\* The main thread and the participants are different threads, and nobody is one.
LEMMA DistinctThreads ==
  /\ Main \in Threads /\ Main \notin Participants /\ Nobody \notin Threads
  /\ Participants \subseteq Threads
  /\ \A t \in Threads : t = Main \/ t \in Participants
<1>1. \A t \in Participants : t # Main /\ t # Nobody
  BY DEF Participants, Workers
<1>2. Main # Nobody
  OBVIOUS
<1> QED BY <1>1, <1>2 DEF Threads

\* What has been written stays as it is while nothing is written.
LEMMA UntouchedLines ==
  ASSUME NInv, UNCHANGED <<output_lines, live, buffer_output>>,
         main' \in {"publish", "header", "await", "between", "ended", "reported"}
  PROVE  /\ RecordInv' /\ AdjacentInv'
         /\ \A i \in 1 .. Len(output_lines) : Line(i)' = Line(i)
<1>1. \A i : Line(i)' = Line(i)
  BY DEF Line
<1>2. RecordInv'
  BY <1>1 DEF NInv, RecordInv
<1>3. AdjacentInv'
  BY <1>1 DEF NInv, AdjacentInv
<1> QED BY <1>1, <1>2, <1>3

\* The round's header is noted first.
LEMMA OpenRoundNotes == IInv /\ NInv /\ OpenRound => NInv'
<1> SUFFICES ASSUME IInv, NInv, OpenRound PROVE NInv'
  OBVIOUS
<1>1. /\ main = "publish" /\ main' = "header" /\ round_number' = round_number + 1
      /\ round_number \in Nat
      /\ UNCHANGED <<verbosity, is_final, buffer_output, output_lines, live, report,
                     printed_output, busy>>
      /\ (ShouldLog' <=> ShouldLog)
  BY DEF OpenRound, mode, output, IInv, TypeInv, ShouldLog
<1>2. /\ \A t \in Participants : message'[t] = <<>>
      /\ message'[Main] = IF ShouldLog THEN <<<<round_number + 1, Main, 0, 1>>>> ELSE <<>>
  <2>1. \A t \in Participants : message[t] = <<>>
    BY <1>1, QuietParticipants
  <2> QED BY <2>1, DistinctThreads DEF OpenRound, IInv, TypeInv
<1>3. RecordInv' /\ AdjacentInv' /\ \A i \in 1 .. Len(output_lines) : Line(i)' = Line(i)
  BY <1>1, UntouchedLines
<1>4. PendingInv'
  <2> SUFFICES ASSUME NEW t \in Threads, message'[t] # <<>>
               PROVE  /\ ShouldLog
                      /\ \E n \in Nat : (t \in Participants => n = notes'[t]) /\ Remaining(t, n)'
    BY <1>1 DEF PendingInv
  <2>1. t = Main /\ t \notin Participants
    BY <1>2, DistinctThreads
  <2>2. ShouldLog /\ Remaining(t, 0)'
    BY <1>1, <1>2, <2>1 DEF Remaining
  <2> QED BY <2>1, <2>2
<1>5. \A i \in 1 .. Len(output_lines) : Line(i)[1] \in Nat /\ Line(i)[1] < round_number'
  BY <1>1, LineParts DEF NInv, RoundsInv
<1>6. RoundsInv'
  <2>1. \A i \in 1 .. Len(output_lines') : Line(i)'[1] <= round_number'
    BY <1>1, <1>3, <1>5
  <2>2. \A i, j \in 1 .. Len(output_lines') : i < j => Line(i)'[1] <= Line(j)'[1]
    BY <1>1, <1>3 DEF NInv, RoundsInv
  <2>3. \A j \in 1 .. Len(output_lines') : \E k \in 1 .. j : Line(k)' = Header(Line(j)'[1])
    <3> SUFFICES ASSUME NEW j \in 1 .. Len(output_lines)
                 PROVE  \E k \in 1 .. j : Line(k)' = Header(Line(j)'[1])
      BY <1>1
    <3>1. PICK k \in 1 .. j : Line(k) = Header(Line(j)[1])
      BY DEF NInv, RoundsInv
    <3> QED BY <1>3, <3>1
  <2> QED BY <2>1, <2>2, <2>3 DEF RoundsInv, Header
<1>7. HeaderInv'
  <2>1. busy = {}
    BY <1>1 DEF IInv, WriterInv
  <2> QED BY <1>1, <1>2, <1>3, <1>5, <2>1 DEF HeaderInv, Header
<1>8. CountInv'
  BY <1>1, <1>3, <1>5, SMTT(30) DEF NInv, CountInv
<1>9. ReportedInv'
  BY <1>1 DEF NInv, ReportedInv
<1> QED BY <1>3, <1>4, <1>6, <1>7, <1>8, <1>9 DEF NInv

\* The main thread goes on to await the round, or closes it, or leaves it.
LEMMA MainNotes == IInv /\ NInv /\ (Await \/ CloseRound \/ NextRound) => NInv'
<1> SUFFICES ASSUME IInv, NInv, Await \/ CloseRound \/ NextRound PROVE NInv'
  OBVIOUS
<1>1. /\ UNCHANGED <<verbosity, is_final, buffer_output, output_lines, live, report,
                     printed_output, busy, round_number, notes, output_mutex>>
      /\ (ShouldLog' <=> ShouldLog) /\ (EmitLive' <=> EmitLive)
      /\ main' \in {"await", "between", "publish", "ended"}
      /\ main # "reported"
  <2>1. UNCHANGED mode /\ UNCHANGED <<output, report, busy, round_number, notes, output_mutex>>
    BY DEF Await, CloseRound, NextRound
  <2>2. main' \in {"await", "between", "publish", "ended"} /\ main # "reported"
    BY DEF Await, CloseRound, NextRound
  <2>3. (ShouldLog' <=> ShouldLog) /\ (EmitLive' <=> EmitLive)
    BY <2>1 DEF mode, ShouldLog, EmitLive
  <2> QED BY <2>1, <2>2, <2>3 DEF mode, output
<1>2. \A t \in Participants : message'[t] = message[t]
  BY DistinctThreads DEF Await, CloseRound, NextRound, IInv, TypeInv
<1>3. RecordInv' /\ AdjacentInv' /\ \A i \in 1 .. Len(output_lines) : Line(i)' = Line(i)
  BY <1>1, UntouchedLines
<1>4. message'[Main] # <<>> =>
        /\ ShouldLog
        /\ \/ message'[Main] = <<<<round_number, Main, MaxNotes, 1>>>>
           \/ message'[Main] = <<<<round_number, Main, MaxNotes, 1>>,
                                 <<round_number, Main, MaxNotes, 2>>>>
  <2>1. CASE Await \/ NextRound
    BY <2>1 DEF Await, NextRound, Silent
  <2>2. CASE CloseRound
    <3>1. PICK length \in 0 .. 1 :
            message' = [message EXCEPT ![Main] = Message(Main, MaxNotes, length)]
      BY <2>2 DEF CloseRound
    <3>2. length \in 0 .. 2 /\ message'[Main] = Message(Main, MaxNotes, length)
      BY <3>1, DistinctThreads DEF IInv, TypeInv
    <3> QED BY <3>2, NewMessage
  <2> QED BY <2>1, <2>2
<1>5. PendingInv'
  <2> SUFFICES ASSUME NEW t \in Threads, message'[t] # <<>>
               PROVE  /\ ShouldLog
                      /\ \E n \in Nat : (t \in Participants => n = notes'[t]) /\ Remaining(t, n)'
    BY <1>1 DEF PendingInv
  <2>1. CASE t = Main
    <3>1. ShouldLog /\ Remaining(t, MaxNotes)'
      BY <1>1, <1>4, <2>1 DEF Remaining
    <3>2. MaxNotes \in Nat /\ t \notin Participants
      BY <2>1, DistinctThreads
    <3> QED BY <3>1, <3>2
  <2>2. CASE t \in Participants
    <3>1. PICK n \in Nat : ShouldLog /\ n = notes[t] /\ Remaining(t, n)
      BY <1>2, <2>2 DEF NInv, PendingInv
    <3>2. Remaining(t, n)'
      BY <1>1, <1>2, <2>2, <3>1 DEF Remaining, Line
    <3> QED BY <1>1, <3>1, <3>2
  <2> QED BY <2>1, <2>2, DistinctThreads
<1>6. RoundsInv'
  BY <1>1, <1>3 DEF NInv, RoundsInv, Header
<1>7. HeaderInv'
  BY <1>1, <1>3 DEF HeaderInv, NInv, Await, CloseRound, NextRound, Silent
<1>8. CountInv'
  BY <1>1, <1>2, <1>3, SMTT(30) DEF NInv, CountInv
<1>9. ReportedInv'
  BY <1>1 DEF NInv, ReportedInv
<1> QED BY <1>3, <1>5, <1>6, <1>7, <1>8, <1>9 DEF NInv

\* A participant enters the round, begins its next note, or leaves.
LEMMA ParticipantNotes ==
  ASSUME IInv, NInv, NEW t \in Participants, Enter(t) \/ Note(t) \/ Leave(t)
  PROVE  NInv'
<1>1. /\ UNCHANGED <<verbosity, is_final, buffer_output, output_lines, live, report,
                     printed_output, round_number, output_mutex, main>>
      /\ (ShouldLog' <=> ShouldLog) /\ (EmitLive' <=> EmitLive)
      /\ \A u \in Threads : u # t => message'[u] = message[u]
      /\ \A u \in Participants : u # t => notes'[u] = notes[u]
      /\ t \in Threads /\ t # Main
  <2>1. UNCHANGED mode /\ UNCHANGED <<output, report, round_number, output_mutex, main>>
    BY DEF Enter, Note, Leave, rounds
  <2>2. (ShouldLog' <=> ShouldLog) /\ (EmitLive' <=> EmitLive)
    BY <2>1 DEF mode, ShouldLog, EmitLive
  <2>3. /\ \A u \in Threads : u # t => message'[u] = message[u]
        /\ \A u \in Participants : u # t => notes'[u] = notes[u]
    BY DEF Enter, Note, Leave, IInv, TypeInv
  <2>4. t \in Threads /\ t # Main
    BY DistinctThreads
  <2> QED BY <2>1, <2>2, <2>3, <2>4 DEF mode, output
<1>2. \/ UNCHANGED <<message, notes>>
      \/ /\ message[t] = <<>>
         /\ notes[t] \in Nat
         /\ notes'[t] = notes[t] + 1
         /\ \E length \in 1 .. 2 : message'[t] = Message(t, notes[t] + 1, length)
  BY <1>1 DEF Enter, Leave, Note, Silent, IInv, TypeInv
<1>3. \/ UNCHANGED <<message, notes>>
      \/ /\ notes[t] \in Nat
         /\ notes'[t] = notes[t] + 1
         /\ message'[t] # <<>> =>
              /\ ShouldLog
              /\ Head(message'[t]) = <<round_number, t, notes[t] + 1, 1>>
              /\ \/ message'[t] = <<<<round_number, t, notes[t] + 1, 1>>>>
                 \/ message'[t] = <<<<round_number, t, notes[t] + 1, 1>>,
                                    <<round_number, t, notes[t] + 1, 2>>>>
  <2> SUFFICES ASSUME NEW length \in 1 .. 2, message'[t] = Message(t, notes[t] + 1, length),
                      message'[t] # <<>>
               PROVE  /\ ShouldLog
                      /\ Head(message'[t]) = <<round_number, t, notes[t] + 1, 1>>
                      /\ \/ message'[t] = <<<<round_number, t, notes[t] + 1, 1>>>>
                         \/ message'[t] = <<<<round_number, t, notes[t] + 1, 1>>,
                                            <<round_number, t, notes[t] + 1, 2>>>>
    BY <1>2
  <2>1. length \in 0 .. 2
    OBVIOUS
  <2>2. /\ ShouldLog
        /\ \/ message'[t] = <<<<round_number, t, notes[t] + 1, 1>>>>
           \/ message'[t] = <<<<round_number, t, notes[t] + 1, 1>>,
                              <<round_number, t, notes[t] + 1, 2>>>>
    BY <2>1, NewMessage
  <2> QED BY <2>2
<1>4. RecordInv' /\ AdjacentInv' /\ \A i \in 1 .. Len(output_lines) : Line(i)' = Line(i)
  BY <1>1, UntouchedLines DEF NInv, RecordInv
<1>5. PendingInv'
  <2> SUFFICES ASSUME NEW u \in Threads, message'[u] # <<>>
               PROVE  /\ ShouldLog
                      /\ \E n \in Nat : (u \in Participants => n = notes'[u]) /\ Remaining(u, n)'
    BY <1>1 DEF PendingInv
  <2>1. CASE message'[u] = message[u] /\ (u \in Participants => notes'[u] = notes[u])
    <3>1. PICK n \in Nat : ShouldLog /\ (u \in Participants => n = notes[u]) /\ Remaining(u, n)
      BY <2>1 DEF NInv, PendingInv
    <3>2. Remaining(u, n)'
      BY <1>1, <2>1, <3>1 DEF Remaining, Line
    <3> QED BY <2>1, <3>1, <3>2
  <2>2. CASE u = t
    <3>1. CASE UNCHANGED <<message, notes>>
      BY <2>1, <3>1
    <3>2. CASE ~UNCHANGED <<message, notes>>
      <4>1. PICK n \in Nat : n = notes[t] + 1
        BY <1>3, <3>2
      <4>2. ShouldLog /\ notes'[u] = n /\ Remaining(u, n)'
        BY <1>1, <1>3, <2>2, <3>2, <4>1 DEF Remaining
      <4> QED BY <4>2
    <3> QED BY <3>1, <3>2
  <2> QED BY <1>1, <2>1, <2>2
<1>6. RoundsInv'
  BY <1>1, <1>4 DEF NInv, RoundsInv, Header
<1>7. HeaderInv'
  <2>1. message'[Main] = message[Main]
    BY <1>1, DistinctThreads
  <2>2. main = "header" => busy' = {}
    BY DEF Enter, Note, Leave, NInv, HeaderInv, rounds
  <2> QED BY <1>1, <1>4, <2>1, <2>2 DEF HeaderInv, NInv
<1>8. CountInv'
  <2>1. ASSUME NEW i \in 1 .. Len(output_lines),
               Line(i)[1] = round_number, Line(i)[2] \in Participants
        PROVE  /\ Line(i)[3] <= notes'[Line(i)[2]]
               /\ message'[Line(i)[2]] # <<>> => Earlier(Line(i), Head(message'[Line(i)[2]]))
    <3>1. /\ Line(i)[3] \in Nat
          /\ Line(i)[3] <= notes[Line(i)[2]]
          /\ message[Line(i)[2]] # <<>> => Earlier(Line(i), Head(message[Line(i)[2]]))
      BY <2>1, LineParts DEF NInv, CountInv
    <3>2. CASE Line(i)[2] # t \/ UNCHANGED <<message, notes>>
      BY <1>1, <2>1, <3>1, <3>2, DistinctThreads
    <3>3. CASE Line(i)[2] = t /\ ~UNCHANGED <<message, notes>>
      BY <1>3, <3>1, <3>3 DEF Earlier
    <3> QED BY <3>2, <3>3
  <2> QED BY <1>1, <1>4, <2>1, SMTT(30) DEF NInv, CountInv
<1>9. ReportedInv'
  BY <1>1 DEF NInv, ReportedInv
<1> QED BY <1>4, <1>5, <1>6, <1>7, <1>8, <1>9 DEF NInv

\* Nothing is written after the report.
LEMMA WriterNotes ==
  ASSUME IInv, NInv, NEW t \in Threads, message[t] # <<>>
  PROVE  /\ main \in {"header", "await", "between"}
         /\ t # Main => t \in Participants /\ main = "await"
<1>1. CASE t = Main
  BY <1>1 DEF IInv, WriterInv, Silent, NInv, RecordInv
<1>2. CASE t # Main
  <2>1. t \in Participants /\ main = "await"
    BY <1>2, QuietParticipants, DistinctThreads
  <2> QED BY <2>1
<1> QED BY <1>1, <1>2

\* Whoever takes the mutex is at the start of a note.
LEMMA LockNotes == ASSUME IInv, NInv, NEW t \in Threads, LockOutput(t) PROVE NInv'
<1>1. /\ UNCHANGED <<verbosity, is_final, buffer_output, output_lines, report,
                     busy, round_number, notes, message, main>>
      /\ (ShouldLog' <=> ShouldLog)
      /\ output_mutex = Nobody /\ main # "reported"
  <2>1. /\ UNCHANGED mode /\ UNCHANGED rounds
        /\ UNCHANGED <<notes, message, output_lines, report>>
        /\ output_mutex = Nobody /\ message[t] # <<>>
    BY DEF LockOutput
  <2>2. ShouldLog' <=> ShouldLog
    BY <2>1 DEF mode, ShouldLog
  <2> QED BY <2>1, <2>2, WriterNotes DEF mode, rounds
<1>2. \A i : Line(i)' = Line(i)
  BY <1>1 DEF Line
<1>3. AdjacentInv'
  <2>1. CASE live' = live
    BY <1>1, <1>2, <2>1 DEF NInv, AdjacentInv
  <2>2. CASE live' # live
    <3>1. live' = <<Blank>>
      BY <2>2 DEF LockOutput
    <3>2. Len(live') = 1 /\ live'[1] = Blank
      BY <3>1
    <3>3. \A i \in 1 .. Len(live') : live'[i] = Blank
      BY <3>2
    <3> QED BY <1>1, <1>2, <3>3 DEF NInv, AdjacentInv
  <2> QED BY <2>1, <2>2
<1>4. PendingInv'
  <2> SUFFICES ASSUME NEW u \in Threads, message[u] # <<>>
               PROVE  /\ ShouldLog
                      /\ \E n \in Nat : (u \in Participants => n = notes[u]) /\ Remaining(u, n)'
    BY <1>1 DEF PendingInv
  <2>1. PICK n \in Nat : ShouldLog /\ (u \in Participants => n = notes[u]) /\ Remaining(u, n)
    BY DEF NInv, PendingInv
  <2>2. u # Nobody
    BY DistinctThreads
  <2>3. Remaining(u, n)'
    BY <1>1, <2>1, <2>2 DEF Remaining
  <2> QED BY <2>1, <2>3
<1>5. RecordInv' /\ RoundsInv' /\ HeaderInv' /\ CountInv'
  BY <1>1, <1>2 DEF NInv, RecordInv, RoundsInv, HeaderInv, CountInv, Header
<1>6. ReportedInv'
  BY <1>1 DEF NInv, ReportedInv
<1> QED BY <1>3, <1>4, <1>5, <1>6 DEF NInv

\* The line a thread writes, and what it has then still to write.
LEMMA WrittenLine ==
  ASSUME IInv, NInv, NEW t \in Threads, WriteLine(t)
  PROVE  \E n \in Nat, k \in {1, 2} :
           /\ Head(message[t]) = <<round_number, t, n, k>>
           /\ t \in Participants => n = notes[t]
           /\ k = 1 => \/ message'[t] = <<>>
                       \/ /\ message'[t] = <<<<round_number, t, n, 2>>>>
                          /\ output_mutex' = t
           /\ k = 2 => /\ message'[t] = <<>>
                       /\ buffer_output => /\ Len(output_lines) >= 1
                                           /\ Line(Len(output_lines)) = <<round_number, t, n, 1>>
                       /\ EmitLive => /\ Len(live) >= 1
                                      /\ live[Len(live)] = <<round_number, t, n, 1>>
<1>1. PICK n \in Nat : (t \in Participants => n = notes[t]) /\ Remaining(t, n)
  BY DEF NInv, PendingInv, WriteLine
<1>2. /\ message'[t] = Tail(message[t])
      /\ output_mutex' = IF Len(message[t]) = 1 THEN Nobody ELSE t
  BY DEF WriteLine, IInv, TypeInv
<1>3. PICK a : a = <<round_number, t, n, 1>>
  OBVIOUS
<1>4. PICK b : b = <<round_number, t, n, 2>>
  OBVIOUS
<1>5. CASE message[t] = <<a>>
  <2>1. Head(<<a>>) = a /\ Tail(<<a>>) = <<>>
    OBVIOUS
  <2> QED BY <1>1, <1>2, <1>3, <1>5, <2>1
<1>6. CASE message[t] = <<a, b>>
  <2>1. Head(<<a, b>>) = a /\ Tail(<<a, b>>) = <<b>> /\ Len(<<a, b>>) = 2
    OBVIOUS
  <2> QED BY <1>1, <1>2, <1>3, <1>4, <1>6, <2>1
<1>7. CASE /\ message[t] = <<b>>
           /\ buffer_output => Len(output_lines) >= 1 /\ Line(Len(output_lines)) = a
           /\ EmitLive => Len(live) >= 1 /\ live[Len(live)] = a
  <2>1. Head(<<b>>) = b /\ Tail(<<b>>) = <<>>
    OBVIOUS
  <2> QED BY <1>1, <1>2, <1>3, <1>4, <1>7, <2>1
<1>8. \/ message[t] = <<a>>
      \/ message[t] = <<a, b>>
      \/ /\ message[t] = <<b>>
         /\ buffer_output => Len(output_lines) >= 1 /\ Line(Len(output_lines)) = a
         /\ EmitLive => Len(live) >= 1 /\ live[Len(live)] = a
  BY <1>1, <1>3, <1>4 DEF Remaining
<1> QED BY <1>5, <1>6, <1>7, <1>8

\* A line is added behind the others, in each of the two outputs that take it.
LEMMA AddedLine ==
  ASSUME IInv, NInv, NEW t \in Threads, WriteLine(t)
  PROVE  /\ \A i \in 1 .. Len(output_lines) : Line(i)' = Line(i)
         /\ buffer_output => /\ Len(output_lines') = Len(output_lines) + 1
                             /\ output_lines'[Len(output_lines) + 1].text = Head(message[t])
         /\ ~buffer_output => output_lines' = output_lines
         /\ \A i \in 1 .. Len(live) : live'[i] = live[i]
         /\ EmitLive => /\ Len(live') = Len(live) + 1
                        /\ live'[Len(live) + 1] = Head(message[t])
         /\ ~EmitLive => live' = live
         /\ RecordInv'
<1>1. Head(message[t]) \in Lines /\ t \in Threads /\ Len(output_lines) \in Nat
  BY DEF WriteLine, IInv, TypeInv, NInv, RecordInv
<1>2. PICK r : r = [worker |-> Label(t), text |-> Head(message[t])]
  OBVIOUS
<1>3. r \in Records
  <2>1. Label(t) \in 0 .. N
    BY DEF Label, Workers
  <2> QED BY <1>1, <1>2, <2>1 DEF Records
<1>4. output_lines' = IF buffer_output THEN Append(output_lines, r) ELSE output_lines
  BY <1>2 DEF WriteLine
<1>5. /\ output_lines' \in Seq(Records)
      /\ \A i \in 1 .. Len(output_lines) : output_lines'[i] = output_lines[i]
      /\ buffer_output => /\ Len(output_lines') = Len(output_lines) + 1
                          /\ output_lines'[Len(output_lines) + 1] = r
  BY <1>3, <1>4 DEF NInv, RecordInv
<1>6. /\ \A i \in 1 .. Len(live) : live'[i] = live[i]
      /\ EmitLive => /\ Len(live') = Len(live) + 1
                     /\ live'[Len(live) + 1] = Head(message[t])
      /\ ~EmitLive => live' = live
  <2>1. Head(message[t]) \in Lines \cup {Blank} /\ live \in Seq(Lines \cup {Blank})
    BY <1>1 DEF IInv, TypeInv
  <2> QED BY <2>1 DEF WriteLine
<1>7. PICK n \in Nat, k \in {1, 2} : Head(message[t]) = <<round_number, t, n, k>>
  BY WrittenLine
<1>8. Head(message[t])[2] = t
  BY <1>7
<1>9. RecordInv'
  <2>1. UNCHANGED <<main, buffer_output>>
    BY DEF WriteLine, rounds, mode
  <2>2. ASSUME NEW i \in 1 .. Len(output_lines')
        PROVE  output_lines'[i].worker = Label(output_lines'[i].text[2])
    <3>1. CASE i \in 1 .. Len(output_lines)
      BY <1>5, <3>1 DEF NInv, RecordInv, Line
    <3>2. CASE i \notin 1 .. Len(output_lines)
      <4>1. output_lines'[i] = r
        BY <1>1, <1>4, <1>5, <3>2
      <4> QED BY <1>2, <1>8, <4>1
    <3> QED BY <3>1, <3>2
  <2>3. \A i : Label(Line(i)[2])' = Label(output_lines'[i].text[2])
    BY DEF Label, Line
  <2> QED BY <1>5, <2>1, <2>2, <2>3 DEF NInv, RecordInv, Line, Label
<1>10. \A i \in 1 .. Len(output_lines) : Line(i)' = Line(i)
  BY <1>5 DEF Line
<1>11. r.text = Head(message[t])
  BY <1>2
<1> QED BY <1>4, <1>5, <1>6, <1>9, <1>10, <1>11

\* A line falls behind the header of its round, the first of a note before the
\* second.
LEMMA WriteNotes == ASSUME IInv, NInv, NEW t \in Threads, WriteLine(t) PROVE NInv'
<1>1. PICK n \in Nat, k \in {1, 2} :
        /\ Head(message[t]) = <<round_number, t, n, k>>
        /\ t \in Participants => n = notes[t]
        /\ k = 1 => \/ message'[t] = <<>>
                    \/ message'[t] = <<<<round_number, t, n, 2>>>> /\ output_mutex' = t
        /\ k = 2 => /\ message'[t] = <<>>
                    /\ buffer_output => /\ Len(output_lines) >= 1
                                        /\ Line(Len(output_lines)) = <<round_number, t, n, 1>>
                    /\ EmitLive => /\ Len(live) >= 1
                                   /\ live[Len(live)] = <<round_number, t, n, 1>>
  BY WrittenLine
<1>2. PICK h : h = <<round_number, t, n, k>>
  OBVIOUS
<1>3. PICK last : last = Len(output_lines) + 1
  OBVIOUS
<1>4. /\ last \in Nat /\ last >= 1 /\ Len(output_lines) = last - 1
      /\ \A i \in 1 .. last - 1 : Line(i)' = Line(i)
      /\ buffer_output => Len(output_lines') = last /\ Line(last)' = h
      /\ ~buffer_output => Len(output_lines') = last - 1
  <2>1. Len(output_lines) \in Nat
    BY DEF NInv, RecordInv
  <2> QED BY <1>1, <1>2, <1>3, <2>1, AddedLine DEF Line
<1>5. /\ UNCHANGED <<verbosity, is_final, buffer_output, busy, round_number, notes, main,
                     report>>
      /\ (ShouldLog' <=> ShouldLog) /\ (EmitLive' <=> EmitLive)
      /\ output_mutex = t /\ message[t] # <<>>
      /\ \A u \in Threads : u # t => message'[u] = message[u]
  <2>1. UNCHANGED mode /\ UNCHANGED rounds /\ UNCHANGED <<notes, report>>
    BY DEF WriteLine
  <2>2. (ShouldLog' <=> ShouldLog) /\ (EmitLive' <=> EmitLive)
    BY <2>1 DEF mode, ShouldLog, EmitLive
  <2>3. /\ output_mutex = t /\ message[t] # <<>>
        /\ \A u \in Threads : u # t => message'[u] = message[u]
    BY DEF WriteLine, IInv, TypeInv
  <2> QED BY <2>1, <2>2, <2>3 DEF mode, rounds
<1>6. ShouldLog /\ round_number \in Nat
  BY <1>5 DEF NInv, PendingInv, IInv, TypeInv
<1>7. h[1] = round_number /\ h[2] = t /\ h[3] = n /\ h[4] = k
  BY <1>2
<1>8. RecordInv'
  BY AddedLine
<1>9. AdjacentInv'
  <2>1. ASSUME NEW i \in 1 .. Len(output_lines'), Line(i)'[4] = 2
        PROVE  i > 1 /\ Line(i - 1)' = <<Line(i)'[1], Line(i)'[2], Line(i)'[3], 1>>
    <3>1. CASE i \in 1 .. last - 1
      <4>1. i > 1 /\ Line(i - 1) = <<Line(i)[1], Line(i)[2], Line(i)[3], 1>>
        BY <1>4, <2>1, <3>1 DEF NInv, AdjacentInv
      <4>2. i - 1 \in 1 .. last - 1
        BY <1>4, <3>1, <4>1
      <4> QED BY <1>4, <3>1, <4>1, <4>2
    <3>2. CASE i \notin 1 .. last - 1
      <4>1. buffer_output /\ i = last /\ Line(i)' = h
        BY <1>4, <3>2
      <4>2. last - 1 >= 1 /\ Line(last - 1) = <<round_number, t, n, 1>>
        BY <1>1, <1>4, <1>7, <2>1, <4>1
      <4>3. last - 1 \in 1 .. last - 1
        BY <1>4, <4>2
      <4> QED BY <1>4, <1>7, <4>1, <4>2, <4>3
    <3> QED BY <3>1, <3>2
  <2>2. ASSUME NEW i \in 1 .. Len(live'), live'[i] # Blank, live'[i][4] = 2
        PROVE  i > 1 /\ live'[i - 1] = <<live'[i][1], live'[i][2], live'[i][3], 1>>
    <3>1. Len(live) \in Nat
      BY DEF IInv, TypeInv
    <3>2. CASE i \in 1 .. Len(live)
      <4>1. live'[i] = live[i]
        BY <3>2, AddedLine
      <4>2. i > 1 /\ live[i - 1] = <<live[i][1], live[i][2], live[i][3], 1>>
        BY <2>2, <3>2, <4>1 DEF NInv, AdjacentInv
      <4>3. i - 1 \in 1 .. Len(live)
        BY <3>1, <3>2, <4>2
      <4> QED BY <4>1, <4>2, <4>3, AddedLine
    <3>3. CASE i \notin 1 .. Len(live)
      <4>1. EmitLive /\ i = Len(live) + 1 /\ live'[i] = h
        BY <1>1, <1>2, <3>1, <3>3, AddedLine
      <4>2. Len(live) >= 1 /\ live[Len(live)] = <<round_number, t, n, 1>>
        BY <1>1, <1>7, <2>2, <4>1
      <4>3. Len(live) \in 1 .. Len(live)
        BY <3>1, <4>2
      <4>4. live'[Len(live)] = live[Len(live)]
        BY <4>3, AddedLine
      <4>5. i > 1 /\ i - 1 = Len(live)
        BY <3>1, <4>1, <4>2
      <4> QED BY <1>7, <4>1, <4>2, <4>4, <4>5
    <3> QED BY <3>2, <3>3
  <2> QED BY <2>1, <2>2 DEF AdjacentInv
<1>10. PendingInv'
  <2> SUFFICES ASSUME NEW u \in Threads, message'[u] # <<>>
               PROVE  /\ ShouldLog
                      /\ \E m \in Nat : (u \in Participants => m = notes[u]) /\ Remaining(u, m)'
    BY <1>5 DEF PendingInv
  <2>1. CASE u # t
    <3>1. PICK m \in Nat : (u \in Participants => m = notes[u]) /\ Remaining(u, m)
      BY <1>5, <2>1 DEF NInv, PendingInv
    <3>2. message'[u] = message[u]
      BY <1>5, <2>1
    <3>3. Remaining(u, m)'
      BY <1>5, <2>1, <3>1, <3>2 DEF Remaining
    <3> QED BY <1>6, <3>1, <3>3
  <2>2. CASE u = t
    <3>1. message'[t] = <<<<round_number, t, n, 2>>>> /\ output_mutex' = t /\ k = 1
      BY <1>1, <2>2
    <3>2. buffer_output => /\ Len(output_lines') >= 1
                           /\ Line(Len(output_lines))' = <<round_number, t, n, 1>>
      BY <1>2, <1>4, <3>1 DEF Line
    <3>3. EmitLive => Len(live') >= 1 /\ live'[Len(live')] = <<round_number, t, n, 1>>
      <4>1. Len(live) \in Nat
        BY DEF IInv, TypeInv
      <4> QED BY <1>1, <3>1, <4>1, AddedLine
    <3>4. Remaining(t, n)'
      BY <1>5, <3>1, <3>2, <3>3 DEF Remaining
    <3> QED BY <1>1, <1>6, <2>2, <3>4
  <2> QED BY <2>1, <2>2
<1>11. main \in {"header", "await", "between"} /\ (t # Main => t \in Participants /\ main = "await")
  BY <1>5, WriterNotes
<1>12. buffer_output => \E j \in 1 .. last : Line(j)' = Header(round_number)
  <2> SUFFICES ASSUME buffer_output PROVE \E j \in 1 .. last : Line(j)' = Header(round_number)
    OBVIOUS
  <2>1. CASE main = "header"
    <3>1. Head(message[t]) = Header(round_number)
      <4>1. message[t] = <<Header(round_number)>>
        BY <1>5, <1>11, <2>1 DEF NInv, HeaderInv
      <4> QED BY <4>1
    <3> QED BY <1>1, <1>2, <1>4, <3>1
  <2>2. CASE main \in {"await", "between"}
    <3>1. PICK j \in 1 .. Len(output_lines) : Line(j) = Header(round_number)
      BY <1>6, <2>2 DEF NInv, HeaderInv
    <3> QED BY <1>4, <3>1
  <2> QED BY <1>11, <2>1, <2>2
<1>13. RoundsInv'
  <2>1. \A i \in 1 .. Len(output_lines') : i \in 1 .. last - 1 \/ (buffer_output /\ i = last)
    BY <1>4
  <2>2. \A i \in 1 .. Len(output_lines') : Line(i)'[1] <= round_number
    <3>1. \A i \in 1 .. last - 1 : Line(i)'[1] <= round_number
      BY <1>4 DEF NInv, RoundsInv
    <3>2. buffer_output => Line(last)'[1] <= round_number
      BY <1>4, <1>6, <1>7
    <3> QED BY <2>1, <3>1, <3>2
  <2>3. ASSUME NEW i \in 1 .. Len(output_lines'), NEW j \in 1 .. Len(output_lines'), i < j
        PROVE  Line(i)'[1] <= Line(j)'[1]
    <3>1. CASE j \in 1 .. last - 1
      BY <1>4, <2>3, <3>1 DEF NInv, RoundsInv
    <3>2. CASE j = last /\ buffer_output
      BY <1>4, <1>7, <2>2, <3>2
    <3> QED BY <2>1, <3>1, <3>2
  <2>4. ASSUME NEW j \in 1 .. Len(output_lines')
        PROVE  \E m \in 1 .. j : Line(m)' = Header(Line(j)'[1])
    <3>1. CASE j \in 1 .. last - 1
      <4>1. PICK m \in 1 .. j : Line(m) = Header(Line(j)[1])
        BY <1>4, <3>1 DEF NInv, RoundsInv
      <4>2. m \in 1 .. last - 1
        BY <1>4, <3>1
      <4> QED BY <1>4, <3>1, <4>1, <4>2
    <3>2. CASE j = last /\ buffer_output
      BY <1>4, <1>7, <1>12, <3>2
    <3> QED BY <2>1, <3>1, <3>2
  <2> QED BY <1>5, <2>2, <2>3, <2>4 DEF RoundsInv, Header
<1>14. HeaderInv'
  <2>1. main = "header" => t = Main /\ message[t] = <<Header(round_number)>> /\ busy = {}
    BY <1>5, <1>11 DEF NInv, HeaderInv
  <2>2. main = "header" => message'[Main] = <<>>
    <3>1. main = "header" => message'[Main] = Tail(<<Header(round_number)>>)
      BY <2>1 DEF WriteLine, IInv, TypeInv
    <3> QED BY <3>1
  <2>3. buffer_output => \E j \in 1 .. Len(output_lines') : Line(j)' = Header(round_number)
    BY <1>4, <1>12
  <2> QED BY <1>5, <2>1, <2>2, <2>3 DEF HeaderInv, Header
<1>15. CountInv'
  <2>1. \A i \in 1 .. Len(output_lines') : i \in 1 .. last - 1 \/ (buffer_output /\ i = last)
    BY <1>4
  <2>2. ASSUME NEW i \in 1 .. last - 1, Line(i)[1] = round_number, Line(i)[2] = t,
               t \in Participants
        PROVE  Earlier(Line(i), h)
    BY <1>1, <1>2, <1>4, <1>5, <2>2 DEF NInv, CountInv
  <2>3. ASSUME message'[t] # <<>>
        PROVE  Head(message'[t]) = <<round_number, t, n, 2>> /\ k = 1
    BY <1>1, <2>3
  <2>4. ASSUME NEW i \in 1 .. Len(output_lines'), Line(i)'[1] = round_number,
               Line(i)'[2] \in Participants
        PROVE  /\ Line(i)'[3] <= notes[Line(i)'[2]]
               /\ message'[Line(i)'[2]] # <<>> => Earlier(Line(i)', Head(message'[Line(i)'[2]]))
    <3>1. CASE i \in 1 .. last - 1
      <4>1. /\ Line(i)[3] <= notes[Line(i)[2]] /\ Line(i)' = Line(i)
            /\ message[Line(i)[2]] # <<>> => Earlier(Line(i), Head(message[Line(i)[2]]))
            /\ Line(i)[3] \in Nat /\ Line(i)[2] \in Threads /\ Line(i)[4] \in {1, 2}
        BY <1>4, <2>4, <3>1, LineParts DEF NInv, CountInv
      <4>2. CASE Line(i)[2] # t
        BY <1>5, <4>1, <4>2
      <4>3. CASE Line(i)[2] = t /\ message'[t] # <<>>
        <5>1. Earlier(Line(i), h) /\ Head(message'[t]) = <<round_number, t, n, 2>> /\ k = 1
          BY <2>2, <2>3, <2>4, <3>1, <4>1, <4>3
        <5>2. PICK l : l = <<round_number, t, n, 2>>
          OBVIOUS
        <5>3. l[3] = n /\ l[4] = 2
          BY <5>2
        <5>4. Earlier(Line(i), l)
          BY <1>7, <4>1, <5>1, <5>3 DEF Earlier
        <5> QED BY <4>1, <4>3, <5>1, <5>2, <5>4
      <4>4. CASE Line(i)[2] = t /\ message'[t] = <<>>
        BY <4>1, <4>4
      <4> QED BY <4>2, <4>3, <4>4
    <3>2. CASE buffer_output /\ i = last
      <4>1. Line(i)' = h /\ n = notes[t] /\ h[2] = t /\ h[3] = n
        BY <1>1, <1>4, <1>7, <2>4, <3>2
      <4>2. message'[t] # <<>> => Earlier(h, Head(message'[t]))
        <5>1. PICK l : l = <<round_number, t, n, 2>>
          OBVIOUS
        <5>2. l[3] = n /\ l[4] = 2
          BY <5>1
        <5> QED BY <1>7, <2>3, <5>1, <5>2 DEF Earlier
      <4> QED BY <4>1, <4>2
    <3> QED BY <2>1, <3>1, <3>2
  <2>5. ASSUME NEW i \in 1 .. Len(output_lines'), NEW j \in 1 .. Len(output_lines'), i < j,
               Line(i)'[1] = Line(j)'[1], Line(i)'[2] = Line(j)'[2], Line(i)'[2] \in Participants
        PROVE  Earlier(Line(i)', Line(j)')
    <3>1. CASE j \in 1 .. last - 1
      <4>1. i \in 1 .. last - 1
        BY <1>4, <2>5, <3>1
      <4> QED BY <1>4, <2>5, <3>1, <4>1 DEF NInv, CountInv
    <3>2. CASE buffer_output /\ j = last
      <4>1. i \in 1 .. last - 1 /\ Line(j)' = h
        BY <1>4, <2>5, <3>2
      <4> QED BY <1>4, <1>7, <2>2, <2>5, <4>1
    <3> QED BY <2>1, <3>1, <3>2
  <2> QED BY <1>5, <2>4, <2>5 DEF CountInv, Earlier
<1>16. ReportedInv'
  BY <1>5, <1>11 DEF NInv, ReportedInv
<1> QED BY <1>8, <1>9, <1>10, <1>13, <1>14, <1>15, <1>16 DEF NInv

\* The report prints what has been written.
LEMMA ReportNotes == IInv /\ NInv /\ Report => NInv'
<1> SUFFICES ASSUME IInv, NInv, Report PROVE NInv'
  OBVIOUS
<1>1. /\ UNCHANGED <<verbosity, is_final, buffer_output, output_lines, live,
                     printed_output, busy, round_number, notes, message, output_mutex>>
      /\ (ShouldLog' <=> ShouldLog) /\ (EmitLive' <=> EmitLive)
      /\ main' = "reported"
  <2>1. /\ UNCHANGED mode /\ UNCHANGED output
        /\ UNCHANGED <<busy, round_number, notes, message, output_mutex>>
        /\ main' = "reported"
    BY DEF Report
  <2>2. (ShouldLog' <=> ShouldLog) /\ (EmitLive' <=> EmitLive)
    BY <2>1 DEF mode, ShouldLog, EmitLive
  <2> QED BY <2>1, <2>2 DEF mode, output
<1>2. RecordInv' /\ AdjacentInv' /\ \A i \in 1 .. Len(output_lines) : Line(i)' = Line(i)
  BY <1>1, UntouchedLines
<1>3. PendingInv' /\ RoundsInv' /\ HeaderInv' /\ CountInv'
  <2>1. \A i : Line(i)' = Line(i)
    BY <1>1 DEF Line
  <2>2. PendingInv'
    BY <1>1, <2>1 DEF NInv, PendingInv, Remaining
  <2>3. RoundsInv' /\ HeaderInv'
    BY <1>1, <2>1 DEF NInv, RoundsInv, HeaderInv, Header
  <2>4. CountInv'
    BY <1>1, <2>1 DEF NInv, CountInv
  <2> QED BY <2>2, <2>3, <2>4
<1>4. ReportedInv'
  <2>1. report' = IF verbosity = "Quiet" THEN <<>>
                  ELSE IF buffer_output
                       THEN Closed(GroupConcurrentOutput(output_lines),
                                   GroupConcurrentOutput(output_lines) # <<>>)
                       ELSE Closed(live, printed_output)
    BY DEF Report, Closed
  <2>2. GroupConcurrentOutput(output_lines)' = GroupConcurrentOutput(output_lines)
    BY <1>1
  <2> QED BY <1>1, <2>1, <2>2 DEF ReportedInv, Closed
<1> QED BY <1>2, <1>3, <1>4 DEF NInv

\* What has been written, what is still to be, and what the report prints, whoever
\* writes and whenever (TestCase::note).
THEOREM NotesInductive == Spec => [](IInv /\ NInv)
<1>1. IInv /\ NInv /\ [Next]_vars => NInv'
  <2> SUFFICES ASSUME IInv, NInv, [Next]_vars PROVE NInv'
    OBVIOUS
  <2>1. CASE UNCHANGED vars
    <3>1. UNCHANGED <<mode, rounds, notes, message, output_mutex, output, report>>
      BY <2>1 DEF vars
    <3>2. UNCHANGED <<verbosity, is_final, buffer_output, main, round_number, busy,
                      output_lines, live, printed_output>>
      BY <3>1 DEF mode, rounds, output
    <3>3. \A i : Line(i)' = Line(i)
      BY <3>2 DEF Line
    <3>4. RecordInv'
      BY <3>1, <3>2, <3>3 DEF NInv, RecordInv
    <3>7. PendingInv'
      BY <3>1, <3>2, <3>3, ZenonT(30) DEF NInv, PendingInv, Remaining, ShouldLog, EmitLive
    <3>8. AdjacentInv'
      BY <3>1, <3>2, <3>3 DEF NInv, AdjacentInv
    <3>5. RoundsInv' /\ HeaderInv' /\ CountInv'
      BY <3>1, <3>2, <3>3 DEF NInv, RoundsInv, HeaderInv, CountInv, Header, ShouldLog
    <3>6. ReportedInv'
      BY <3>1, <3>2 DEF NInv, ReportedInv
    <3> QED BY <3>4, <3>7, <3>8, <3>5, <3>6 DEF NInv
  <2>2. CASE Next
    BY <2>2, OpenRoundNotes, MainNotes, ParticipantNotes, LockNotes, WriteNotes, ReportNotes
       DEF Next
  <2> QED BY <2>1, <2>2
<1> QED BY InitNotes, OutputInductive, <1>1, PTL DEF Spec

\* The same of the lines std::cerr has received.
LiveInv ==
  /\ \A i \in 1 .. Len(live) : live[i] # Blank => live[i][1] <= round_number
  /\ \A i, j \in 1 .. Len(live) :
       i < j /\ live[i] # Blank /\ live[j] # Blank => live[i][1] <= live[j][1]
  /\ \A j \in 1 .. Len(live) : live[j] # Blank =>
       \E k \in 1 .. j : live[k] = Header(live[j][1])
  /\ main = "header" /\ message[Main] # <<>> =>
       \A i \in 1 .. Len(live) : live[i] # Blank => live[i][1] < round_number
  /\ main \in {"await", "between"} \/ (main = "header" /\ message[Main] = <<>>) =>
       (ShouldLog /\ EmitLive => \E k \in 1 .. Len(live) : live[k] = Header(round_number))

\* The parts of a line on std::cerr.
LEMMA LiveParts ==
  ASSUME IInv, NEW i \in 1 .. Len(live), live[i] # Blank
  PROVE  live[i] \in Lines /\ live[i][1] \in Nat /\ live[i][2] \in Threads
<1>1. live[i] \in Lines
  BY DEF IInv, TypeInv
<1>2. PICK l : l = live[i]
  OBVIOUS
<1>3. l \in Nat \X Threads \X Nat \X {1, 2}
  BY <1>1, <1>2 DEF Lines
<1>4. l[1] \in Nat /\ l[2] \in Threads
  BY <1>3
<1> QED BY <1>1, <1>2, <1>4

\* While nothing is written, the rounds on std::cerr stay as they are.
LEMMA QuietLive ==
  ASSUME IInv, NInv, LiveInv, OpenRound \/ Await \/ CloseRound \/ NextRound \/ Report
                              \/ (\E t \in Participants : Enter(t) \/ Note(t) \/ Leave(t))
  PROVE  LiveInv'
<1>1. UNCHANGED live /\ UNCHANGED mode
  BY DEF OpenRound, Await, CloseRound, NextRound, Report, Enter, Note, Leave, output
<1>2. (ShouldLog' <=> ShouldLog) /\ (EmitLive' <=> EmitLive)
  BY <1>1 DEF mode, ShouldLog, EmitLive
<1>3. round_number \in Nat
        /\ \A i \in 1 .. Len(live) : live[i] # Blank => live[i][1] \in Nat
  BY LiveParts DEF IInv, TypeInv
<1>4. CASE OpenRound
  <2>1. /\ main' = "header" /\ round_number' = round_number + 1
        /\ message'[Main] = <<>> => ~ShouldLog
    BY <1>4, DistinctThreads DEF OpenRound, IInv, TypeInv
  <2>2. \A i \in 1 .. Len(live) : live[i] # Blank => live[i][1] < round_number + 1
    BY <1>3 DEF LiveInv
  <2>3. \A i \in 1 .. Len(live) : live[i] # Blank => live[i][1] <= round_number + 1
    BY <1>3, <2>2
  <2> QED BY <1>1, <1>2, <2>1, <2>2, <2>3 DEF LiveInv, Header
<1>5. CASE Await
  BY <1>1, <1>2, <1>5 DEF Await, Silent, LiveInv, Header
<1>6. CASE CloseRound \/ NextRound \/ Report
  <2>1. /\ round_number' = round_number
        /\ main' # "header"
        /\ main' \in {"await", "between"} => main = "await"
    BY <1>6 DEF CloseRound, NextRound, Report
  <2> QED BY <1>1, <1>2, <2>1 DEF LiveInv, Header
<1>7. CASE \E t \in Participants : Enter(t) \/ Note(t) \/ Leave(t)
  <2>1. UNCHANGED <<main, round_number>> /\ message'[Main] = message[Main]
    BY <1>7, DistinctThreads DEF Enter, Note, Leave, rounds, IInv, TypeInv
  <2> QED BY <1>1, <1>2, <2>1 DEF LiveInv, Header
<1> QED BY <1>4, <1>5, <1>6, <1>7

\* A blank line, or a line of the round, goes out behind the others.
LEMMA WriterLive ==
  ASSUME IInv, NInv, LiveInv, NEW t \in Threads, LockOutput(t) \/ WriteLine(t)
  PROVE  LiveInv'
<1>1. /\ UNCHANGED mode /\ UNCHANGED <<main, round_number>>
      /\ (ShouldLog' <=> ShouldLog) /\ (EmitLive' <=> EmitLive)
      /\ message[t] # <<>>
  <2>1. UNCHANGED mode /\ UNCHANGED <<main, round_number>> /\ message[t] # <<>>
    BY DEF LockOutput, WriteLine, rounds
  <2> QED BY <2>1 DEF mode, ShouldLog, EmitLive
<1>2. CASE LockOutput(t)
  <2>1. message' = message
    BY <1>2 DEF LockOutput
  <2>2. CASE live' = live
    BY <1>1, <2>1, <2>2 DEF LiveInv, Header
  <2>3. CASE live' # live
    <3>1. live' = <<Blank>> /\ in_report /\ ~printed_output
      BY <1>2, <2>3 DEF LockOutput
    <3>2. \A i \in 1 .. Len(live') : live'[i] = Blank
      BY <3>1
    <3>3. ~(\E k \in 1 .. Len(live) : live[k] = Header(round_number))
      <4>1. live = <<>> /\ Len(live) = 0
        BY <3>1 DEF IInv, BodyInv
      <4> QED BY <4>1
    <3> QED BY <1>1, <2>1, <3>2, <3>3 DEF LiveInv, Header
  <2> QED BY <2>2, <2>3
<1>3. CASE WriteLine(t)
  <2>1. PICK n \in Nat, k \in {1, 2} : Head(message[t]) = <<round_number, t, n, k>>
    BY <1>3, WrittenLine
  <2>2. PICK h : h = <<round_number, t, n, k>>
    OBVIOUS
  <2>3. PICK last : last = Len(live) + 1
    OBVIOUS
  <2>4. /\ last \in Nat /\ last >= 1 /\ Len(live) = last - 1
        /\ \A i \in 1 .. last - 1 : live'[i] = live[i]
        /\ EmitLive => Len(live') = last /\ live'[last] = h
        /\ ~EmitLive => Len(live') = last - 1
    <3>1. Len(live) \in Nat
      BY DEF IInv, TypeInv
    <3> QED BY <1>3, <2>1, <2>2, <2>3, <3>1, AddedLine
  <2>5. h # Blank /\ h[1] = round_number /\ round_number \in Nat
    <3>1. h \in Lines
      BY <2>2 DEF IInv, TypeInv, Lines
    <3> QED BY <2>2, <3>1, LinesNotBlank DEF IInv, TypeInv
  <2>6. /\ ShouldLog
        /\ main \in {"header", "await", "between"}
        /\ main = "header" => t = Main
    BY <1>1, WriterNotes DEF NInv, PendingInv
  <2>7. EmitLive => \E j \in 1 .. last : live'[j] = Header(round_number)
    <3> SUFFICES ASSUME EmitLive PROVE \E j \in 1 .. last : live'[j] = Header(round_number)
      OBVIOUS
    <3>1. CASE main = "header"
      <4>1. message[t] = <<Header(round_number)>>
        BY <1>1, <2>6, <3>1 DEF NInv, HeaderInv
      <4>2. Head(message[t]) = Header(round_number)
        BY <4>1
      <4> QED BY <2>1, <2>2, <2>4, <4>2
    <3>2. CASE main # "header"
      <4>1. PICK j \in 1 .. Len(live) : live[j] = Header(round_number)
        BY <2>6, <3>2 DEF LiveInv
      <4>2. j \in 1 .. last - 1 /\ j \in 1 .. last
        BY <2>4, <4>1
      <4>3. live'[j] = live[j]
        BY <2>4, <4>2
      <4> QED BY <4>1, <4>2, <4>3
    <3> QED BY <3>1, <3>2
  <2>8. \A i \in 1 .. Len(live') : i \in 1 .. last - 1 \/ (EmitLive /\ i = last)
    BY <2>4
  <2>9. \A i \in 1 .. Len(live') : live'[i] # Blank => live'[i][1] <= round_number
    <3>1. \A i \in 1 .. last - 1 : live'[i] # Blank => live'[i][1] <= round_number
      BY <2>4 DEF LiveInv
    <3>2. EmitLive => live'[last][1] <= round_number
      BY <2>4, <2>5
    <3> QED BY <2>8, <3>1, <3>2
  <2>10. ASSUME NEW i \in 1 .. Len(live'), NEW j \in 1 .. Len(live'), i < j,
                live'[i] # Blank, live'[j] # Blank
         PROVE  live'[i][1] <= live'[j][1]
    <3>1. CASE j \in 1 .. last - 1
      BY <2>4, <2>10, <3>1, SMTT(30) DEF LiveInv
    <3>2. CASE EmitLive /\ j = last
      BY <2>4, <2>5, <2>9, <2>10, <3>2
    <3> QED BY <2>8, <3>1, <3>2
  <2>11. ASSUME NEW j \in 1 .. Len(live'), live'[j] # Blank
         PROVE  \E m \in 1 .. j : live'[m] = Header(live'[j][1])
    <3>1. CASE j \in 1 .. last - 1
      <4>1. PICK m \in 1 .. j : live[m] = Header(live[j][1])
        BY <2>4, <2>11, <3>1 DEF LiveInv
      <4>2. m \in 1 .. last - 1
        BY <2>4, <3>1
      <4> QED BY <2>4, <3>1, <4>1, <4>2
    <3>2. CASE EmitLive /\ j = last
      BY <2>4, <2>5, <2>7, <3>2
    <3> QED BY <2>8, <3>1, <3>2
  <2>12. main = "header" => message'[Main] = <<>>
    <3> SUFFICES ASSUME main = "header" PROVE message'[Main] = <<>>
      OBVIOUS
    <3>1. t = Main /\ message[Main] = <<Header(round_number)>>
      BY <1>1, <2>6 DEF NInv, HeaderInv
    <3>2. message'[Main] = Tail(<<Header(round_number)>>)
      BY <1>3, <3>1 DEF WriteLine, IInv, TypeInv
    <3> QED BY <3>2
  <2>13. EmitLive => \E j \in 1 .. Len(live') : live'[j] = Header(round_number)
    BY <2>4, <2>7
  <2> QED BY <1>1, <2>9, <2>10, <2>11, <2>12, <2>13 DEF LiveInv, Header
<1> QED BY <1>2, <1>3

\* The rounds on std::cerr, whoever writes.
THEOREM LiveInductive == Spec => []LiveInv
<1>1. Init => LiveInv
  <2> SUFFICES ASSUME Init PROVE LiveInv
    OBVIOUS
  <2>1. live = <<>> /\ Len(live) = 0 /\ 1 .. 0 = {} /\ main = "publish"
    BY DEF Init
  <2> QED BY <2>1 DEF LiveInv
<1>2. IInv /\ NInv /\ LiveInv /\ [Next]_vars => LiveInv'
  <2> SUFFICES ASSUME IInv, NInv, LiveInv, [Next]_vars PROVE LiveInv'
    OBVIOUS
  <2>1. CASE UNCHANGED vars
    BY <2>1 DEF vars, mode, rounds, output, LiveInv, Header, ShouldLog, EmitLive
  <2>2. CASE Next
    BY <2>2, QuietLive, WriterLive DEF Next
  <2> QED BY <2>1, <2>2
<1> QED BY NotesInductive, <1>1, <1>2, PTL DEF Spec

-----------------------------------------------------------------------------
(* The report *)

\* Which records are those of workers.
LEMMA Labels ==
  ASSUME NInv, NEW i \in 1 .. Len(output_lines)
  PROVE  /\ output_lines[i].worker \in 0 .. N
         /\ output_lines[i].worker < N <=> Line(i)[2] \in Workers
         /\ Line(i)[2] \in Workers => output_lines[i].worker = Line(i)[2]
         /\ \A r : Line(i) = Header(r) => ~(output_lines[i].worker < N)
<1>1. output_lines[i].worker = Label(Line(i)[2])
  BY DEF NInv, RecordInv
<1>2. \A r : Header(r)[2] = Main
  BY DEF Header
<1>3. Main \notin Workers
  BY DEF Workers
<1> QED BY <1>1, <1>2, <1>3 DEF Label, Workers

\* The lines between two of other threads are of one round.
LEMMA OneRound ==
  ASSUME NInv, NEW p \in 1 .. Len(output_lines), NEW q \in 1 .. Len(output_lines),
         SameRun(output_lines, p, q)
  PROVE  Line(p)[1] = Line(q)[1]
<1>1. ASSUME NEW a \in 1 .. Len(output_lines), NEW b \in 1 .. Len(output_lines), a < b,
             SameRun(output_lines, a, b)
      PROVE  Line(a)[1] = Line(b)[1]
  <2>1. Line(a)[1] \in Nat /\ Line(b)[1] \in Nat /\ Line(a)[1] <= Line(b)[1]
    BY <1>1, LineParts DEF NInv, RoundsInv
  <2>2. PICK k \in 1 .. b : Line(k) = Header(Line(b)[1])
    BY DEF NInv, RoundsInv
  <2>3. k \in 1 .. Len(output_lines) /\ ~(output_lines[k].worker < N)
    BY <2>2, Labels
  <2>4. k < a
    BY <1>1, <2>2, <2>3 DEF SameRun
  <2>5. Line(k)[1] = Line(b)[1]
    BY <2>2 DEF Header
  <2>6. Line(k)[1] <= Line(a)[1]
    BY <2>3, <2>4 DEF NInv, RoundsInv
  <2> QED BY <2>1, <2>5, <2>6
<1>2. SameRun(output_lines, q, p)
  BY DEF SameRun
<1>3. p < q \/ q < p \/ p = q
  OBVIOUS
<1> QED BY <1>1, <1>2, <1>3

\* Two records of one worker that follow each other do so in the report.
LEMMA PairsStay ==
  ASSUME NInv, NEW order, NEW lines,
         Grouping(order, lines, output_lines, Len(output_lines)),
         NEW i \in 1 .. Len(output_lines), NEW p \in 2 .. Len(output_lines), order[i] = p,
         output_lines[p - 1].worker = output_lines[p].worker
  PROVE  i > 1 /\ order[i - 1] = p - 1
<1> PICK s : s = output_lines
  OBVIOUS
<1>0. /\ s \in Seq(Records) /\ Grouping(order, lines, s, Len(s))
      /\ i \in 1 .. Len(s) /\ p \in 2 .. Len(s) /\ s[p - 1].worker = s[p].worker
  BY DEF NInv, RecordInv
<1>1. Len(s) \in Nat /\ p \in 1 .. Len(s) /\ p - 1 \in 1 .. Len(s)
  BY <1>0
<1>2. PICK j \in 1 .. Len(s) : order[j] = p - 1
  BY <1>0, <1>1 DEF Grouping
<1>3. \A k \in 1 .. Len(s) : s[k].worker \in 0 .. N
  BY <1>0, RecordFields
<1>4. \A a, b \in 1 .. Len(s) : a < b => Before(s, order[a], order[b])
  BY <1>0 DEF Grouping
<1>5. j < i
  <2>1. ~Before(s, p, p - 1)
    BY <1>0, <1>1, <1>3 DEF Before
  <2>2. j # i
    BY <1>1, <1>2
  <2> QED BY <1>0, <1>2, <1>4, <2>1, <2>2
<1>6. ASSUME j < i - 1 PROVE FALSE
  <2>1. PICK m \in 1 .. Len(s) : j < m /\ m < i
    <3>1. j + 1 \in 1 .. Len(s) /\ j < j + 1 /\ j + 1 < i
      BY <1>0, <1>1, <1>6
    <3> QED BY <3>1
  <2>2. PICK q \in 1 .. Len(s) : q = order[m]
    BY <1>0 DEF Grouping
  <2>3. Before(s, p - 1, q) /\ Before(s, q, p)
    BY <1>0, <1>2, <1>4, <2>1, <2>2
  <2>4. s[q].worker \in 0 .. N /\ s[p].worker \in 0 .. N /\ s[p - 1].worker = s[p].worker
    BY <1>0, <1>1, <1>3
  <2>5. q # p
    BY <1>1, <2>3, <2>4 DEF Before
  <2>6. q # p - 1
    BY <1>1, <2>3, <2>4 DEF Before
  <2>7. ASSUME SameRun(s, p - 1, q) PROVE SameRun(s, q, p)
    <3>1. s[p].worker < N
      <4>1. CASE q < p
        <5>1. q <= p - 1
          BY <1>1, <2>6, <4>1
        <5>2. s[p - 1].worker < N
          BY <1>1, <2>7, <5>1 DEF SameRun
        <5> QED BY <2>4, <5>2
      <4>2. CASE q > p
        BY <1>1, <2>7, <4>2 DEF SameRun
      <4> QED BY <1>1, <2>5, <4>1, <4>2
    <3>2. \A k \in 1 .. Len(s) : k # p /\ ((q <= k /\ k <= p) \/ (p <= k /\ k <= q)) =>
            (p - 1 <= k /\ k <= q) \/ (q <= k /\ k <= p - 1)
      BY <1>1
    <3> QED BY <2>7, <3>1, <3>2 DEF SameRun
  <2>8. ASSUME SameRun(s, q, p) PROVE SameRun(s, p - 1, q)
    <3>1. s[p - 1].worker < N
      <4>1. s[p].worker < N
        BY <1>1, <2>8 DEF SameRun
      <4> QED BY <2>4, <4>1
    <3>2. \A k \in 1 .. Len(s) : k # p - 1 /\ ((p - 1 <= k /\ k <= q) \/ (q <= k /\ k <= p - 1)) =>
            (q <= k /\ k <= p) \/ (p <= k /\ k <= q)
      BY <1>1
    <3> QED BY <2>8, <3>1, <3>2 DEF SameRun
  <2>9. CASE SameRun(s, p - 1, q)
    <3>1. \/ s[p - 1].worker < s[q].worker
          \/ s[p - 1].worker = s[q].worker /\ p - 1 < q
      BY <2>3, <2>9 DEF Before
    <3>2. \/ s[q].worker < s[p].worker
          \/ s[q].worker = s[p].worker /\ q < p
      BY <2>3, <2>7, <2>9 DEF Before
    <3> QED BY <1>1, <2>4, <3>1, <3>2, SMTT(30)
  <2>10. CASE ~SameRun(s, p - 1, q)
    <3>1. p - 1 < q
      BY <2>3, <2>10 DEF Before
    <3>2. q < p
      BY <2>3, <2>8, <2>10 DEF Before
    <3> QED BY <1>1, <3>1, <3>2
  <2> QED BY <2>9, <2>10
<1>7. j = i - 1
  BY <1>0, <1>5, <1>6
<1> QED BY <1>0, <1>2, <1>5, <1>7

\* The body of a report, and the blank line that may close it.
LEMMA ClosedParts ==
  ASSUME NEW body \in Seq(Lines \cup {Blank}), NEW open
  PROVE  /\ Closed(body, open) \in Seq(Lines \cup {Blank})
         /\ \A i \in DOMAIN Closed(body, open) :
              Closed(body, open)[i] # Blank => i \in 1 .. Len(body)
         /\ \A i \in 1 .. Len(body) :
              i \in DOMAIN Closed(body, open) /\ Closed(body, open)[i] = body[i]
<1>1. CASE open
  <2>1. Closed(body, open) = Append(body, Blank)
    BY <1>1 DEF Closed
  <2>2. PICK all : all = Append(body, Blank)
    OBVIOUS
  <2>3. /\ all \in Seq(Lines \cup {Blank}) /\ DOMAIN all = 1 .. Len(body) + 1
        /\ all[Len(body) + 1] = Blank
        /\ \A i \in 1 .. Len(body) : all[i] = body[i]
        /\ Len(body) \in Nat
    BY <2>2
  <2> QED BY <2>1, <2>2, <2>3
<1>2. CASE ~open
  <2>1. Closed(body, open) = body /\ DOMAIN body = 1 .. Len(body)
    BY <1>2 DEF Closed
  <2> QED BY <2>1
<1> QED BY <1>1, <1>2

\* What the report prints: nothing, the lines as they came, or all of them grouped.
LEMMA ReportBody ==
  ASSUME IInv, NInv
  PROVE  \/ report = <<>>
         \/ \E open : report = Closed(live, open)
         \/ \E open, order, lines :
              /\ Grouping(order, lines, output_lines, Len(output_lines))
              /\ report = Closed(lines, open)
<1>1. PICK order : Grouping(order, GroupConcurrentOutput(output_lines), output_lines,
                            Len(output_lines))
  BY GroupingSorts DEF Grouped, NInv, RecordInv
<1> QED BY <1>1 DEF NInv, ReportedInv

\* The lines of a grouping, and where each record is.
LEMMA GroupedParts ==
  ASSUME IInv, NInv, NEW order, NEW lines,
         Grouping(order, lines, output_lines, Len(output_lines))
  PROVE  /\ Len(output_lines) \in Nat
         /\ lines \in Seq(Lines \cup {Blank}) /\ lines \in Seq(Lines)
         /\ Len(lines) = Len(output_lines)
         /\ \A i \in 1 .. Len(lines) : order[i] \in 1 .. Len(lines) /\ lines[i] = Line(order[i])
         /\ \A p \in 1 .. Len(lines) : \E i \in 1 .. Len(lines) : order[i] = p
         /\ \A i, j \in 1 .. Len(lines) : i < j => Before(output_lines, order[i], order[j])
<1>1. output_lines \in Seq(Records) /\ Len(output_lines) \in 0 .. Len(output_lines)
      /\ Len(output_lines) \in Nat
  BY DEF NInv, RecordInv
<1>2. lines \in Seq(Lines) /\ Len(lines) = Len(output_lines)
  BY <1>1, GroupedLines DEF Grouped
<1>3. lines \in Seq(Lines \cup {Blank})
  BY <1>2
<1>4. \A i \in 1 .. Len(output_lines) :
        order[i] \in 1 .. Len(output_lines) /\ lines[i] = Line(order[i])
  BY DEF Grouping, Line
<1> QED BY <1>1, <1>2, <1>3, <1>4 DEF Grouping

\* A grouped report has the lines of a note together.
LEMMA GroupedUnbroken ==
  ASSUME IInv, NInv, NEW order, NEW lines,
         Grouping(order, lines, output_lines, Len(output_lines)),
         NEW i \in 1 .. Len(lines), lines[i][4] = 2
  PROVE  i > 1 /\ lines[i - 1] = <<lines[i][1], lines[i][2], lines[i][3], 1>>
<1>0. /\ Len(lines) = Len(output_lines)
      /\ \A k \in 1 .. Len(lines) : order[k] \in 1 .. Len(lines) /\ lines[k] = Line(order[k])
  BY GroupedParts
<1>1. PICK p \in 1 .. Len(output_lines) : p = order[i] /\ lines[i] = Line(p)
  BY <1>0, Zenon
<1>2. p > 1 /\ Line(p - 1) = <<Line(p)[1], Line(p)[2], Line(p)[3], 1>>
  BY <1>1 DEF NInv, AdjacentInv
<1>3. p - 1 \in 1 .. Len(output_lines)
  BY <1>1, <1>2
<1>4. Line(p - 1)[2] = Line(p)[2]
  BY <1>2
<1>5. output_lines[p - 1].worker = output_lines[p].worker
  BY <1>1, <1>3, <1>4 DEF NInv, RecordInv
<1>6. i > 1 /\ order[i - 1] = p - 1
  <2>1. i \in 1 .. Len(output_lines)
    BY GroupedParts
  <2>2. p \in 2 .. Len(output_lines) /\ order[i] = p
    BY <1>1, <1>2
  <2> QED BY <1>5, <2>1, <2>2, PairsStay, SMTT(30)
<1>7. i - 1 \in 1 .. Len(lines)
  <2>1. Len(lines) \in Nat
    BY GroupedParts
  <2> QED BY <1>6, <2>1
<1>8. lines[i - 1] = Line(p - 1)
  BY <1>6, <1>7, GroupedParts
<1> QED BY <1>1, <1>2, <1>6, <1>8

\* The lines of a note follow each other, on std::cerr and in the report, whatever
\* other threads note at the same time (the output_mutex of TestCase::note, and
\* group_concurrent_output).
THEOREM NotesNeverBroken == Spec => []NotesUnbroken
<1>1. IInv /\ NInv => NotesUnbroken
  <2> SUFFICES ASSUME IInv, NInv,
                      NEW printed \in {live, report}, NEW i \in DOMAIN printed,
                      IsLine(printed[i]), printed[i][4] = 2
               PROVE  /\ i > 1
                      /\ printed[i - 1] = <<printed[i][1], printed[i][2], printed[i][3], 1>>
    BY DEF NotesUnbroken
  <2>1. live \in Seq(Lines \cup {Blank}) /\ DOMAIN live = 1 .. Len(live)
    BY DEF IInv, TypeInv
  <2>2. ASSUME NEW k \in 1 .. Len(live), live[k] # Blank, live[k][4] = 2
        PROVE  k > 1 /\ live[k - 1] = <<live[k][1], live[k][2], live[k][3], 1>>
    BY <2>2 DEF NInv, AdjacentInv
  <2>3. CASE printed = live
    BY <2>1, <2>2, <2>3 DEF IsLine
  <2>4. ASSUME NEW body \in Seq(Lines \cup {Blank}), NEW open, printed = Closed(body, open),
               \A k \in 1 .. Len(body) : body[k] # Blank /\ body[k][4] = 2 =>
                 k > 1 /\ body[k - 1] = <<body[k][1], body[k][2], body[k][3], 1>>
        PROVE  /\ i > 1
               /\ printed[i - 1] = <<printed[i][1], printed[i][2], printed[i][3], 1>>
    <3>1. i \in 1 .. Len(body) /\ printed[i] = body[i]
      BY <2>4, ClosedParts DEF IsLine
    <3>2. i > 1 /\ body[i - 1] = <<body[i][1], body[i][2], body[i][3], 1>>
      BY <2>4, <3>1 DEF IsLine
    <3>3. i - 1 \in 1 .. Len(body)
      BY <3>1, <3>2
    <3>4. printed[i - 1] = body[i - 1]
      BY <2>4, <3>3, ClosedParts
    <3> QED BY <3>1, <3>2, <3>4
  <2>5. CASE report = <<>> /\ printed = report
    BY <2>5
  <2>6. CASE printed = report /\ \E open : report = Closed(live, open)
    BY <2>1, <2>2, <2>4, <2>6
  <2>7. ASSUME NEW open, NEW order, NEW lines,
               Grouping(order, lines, output_lines, Len(output_lines)),
               printed = Closed(lines, open)
        PROVE  /\ i > 1
               /\ printed[i - 1] = <<printed[i][1], printed[i][2], printed[i][3], 1>>
    <3>1. lines \in Seq(Lines \cup {Blank})
      BY <2>7, GroupedParts
    <3>2. \A k \in 1 .. Len(lines) : lines[k][4] = 2 =>
            k > 1 /\ lines[k - 1] = <<lines[k][1], lines[k][2], lines[k][3], 1>>
      BY <2>7, GroupedUnbroken
    <3> QED BY <2>4, <2>7, <3>1, <3>2
  <2> QED BY <2>3, <2>5, <2>6, <2>7, ReportBody
<1> QED BY <1>1, NotesInductive, PTL

\* A grouped report has the rounds one after the other, each after its header.
LEMMA GroupedRounds ==
  ASSUME IInv, NInv, NEW order, NEW lines,
         Grouping(order, lines, output_lines, Len(output_lines)),
         NEW i \in 1 .. Len(lines), NEW j \in 1 .. Len(lines), i < j
  PROVE  /\ lines[i][1] <= lines[j][1]
         /\ lines[i][1] < lines[j][1] =>
              \E k \in i + 1 .. j : lines[k] = <<lines[j][1], Main, 0, 1>>
<1>0. /\ Len(lines) = Len(output_lines)
      /\ \A m \in 1 .. Len(lines) : order[m] \in 1 .. Len(lines) /\ lines[m] = Line(order[m])
      /\ \A p \in 1 .. Len(lines) : \E m \in 1 .. Len(lines) : order[m] = p
  BY GroupedParts
<1>1. PICK p \in 1 .. Len(output_lines) : p = order[i] /\ lines[i] = Line(p)
  BY <1>0
<1>2. PICK q \in 1 .. Len(output_lines) : q = order[j] /\ lines[j] = Line(q)
  BY <1>0
<1>3. Before(output_lines, p, q)
  BY <1>1, <1>2, GroupedParts
<1>4. Line(p)[1] \in Nat /\ Line(q)[1] \in Nat
  BY LineParts DEF NInv
<1>5. \A a, b \in 1 .. Len(output_lines) : a < b => Line(a)[1] <= Line(b)[1]
  BY DEF NInv, RoundsInv
<1>6. Line(p)[1] <= Line(q)[1]
  <2>1. CASE SameRun(output_lines, p, q)
    BY <1>4, <2>1, OneRound DEF NInv
  <2>2. CASE ~SameRun(output_lines, p, q)
    BY <1>3, <1>5, <2>2 DEF Before
  <2> QED BY <2>1, <2>2
<1>7. ASSUME Line(p)[1] < Line(q)[1]
      PROVE  \E k \in i + 1 .. j : lines[k] = Header(Line(q)[1])
  <2>1. PICK h \in 1 .. q : Line(h) = Header(Line(q)[1])
    BY DEF NInv, RoundsInv
  <2>2. /\ h \in 1 .. Len(output_lines) /\ ~(output_lines[h].worker < N)
        /\ Line(h)[1] = Line(q)[1]
    BY <2>1, Labels DEF Header
  <2>3. PICK k \in 1 .. Len(lines) : order[k] = h
    BY <1>0, <2>2
  <2>4. \A a \in 1 .. Len(output_lines) :
          ~SameRun(output_lines, a, h) /\ ~SameRun(output_lines, h, a)
    BY <2>2 DEF SameRun
  <2>5. k <= j
    <3> SUFFICES ASSUME j < k PROVE FALSE
      OBVIOUS
    <3>1. Before(output_lines, q, h)
      BY <1>2, <2>3, GroupedParts
    <3> QED BY <2>1, <2>4, <3>1 DEF Before
  <2>6. i < k
    <3>1. k # i
      BY <1>1, <1>4, <1>7, <2>2, <2>3
    <3>2. ASSUME k < i PROVE FALSE
      <4>1. Before(output_lines, h, p)
        BY <1>1, <2>3, <3>2, GroupedParts
      <4>2. h < p
        BY <2>4, <4>1 DEF Before
      <4>3. Line(h)[1] <= Line(p)[1]
        BY <1>5, <2>2, <4>2
      <4> QED BY <1>4, <1>7, <2>2, <4>3
    <3> QED BY <3>1, <3>2
  <2>7. k \in i + 1 .. j /\ lines[k] = Line(h)
    <3>1. lines[k] = Line(h)
      BY <1>0, <2>3
    <3> QED BY <2>5, <2>6, <3>1
  <2> QED BY <2>1, <2>7
<1> QED BY <1>1, <1>2, <1>6, <1>7 DEF Header

\* The report shows the rounds one after the other, each after its header (the note
\* of publish_round, and group_concurrent_output).
THEOREM ReportedRoundsApart == Spec => []RoundsStayApart
<1>1. IInv /\ NInv /\ LiveInv => RoundsStayApart
  <2> SUFFICES ASSUME IInv, NInv, LiveInv,
                      NEW i \in DOMAIN report, NEW j \in DOMAIN report, i < j,
                      IsLine(report[i]), IsLine(report[j])
               PROVE  /\ report[i][1] <= report[j][1]
                      /\ report[i][1] < report[j][1] =>
                           \E k \in i + 1 .. j : report[k] = Header(report[j][1])
    BY DEF RoundsStayApart, RoundOf, Header
  <2>1. ASSUME NEW body \in Seq(Lines \cup {Blank}), NEW open, report = Closed(body, open),
               \A a, b \in 1 .. Len(body) : a < b /\ body[a] # Blank /\ body[b] # Blank =>
                 /\ body[a][1] <= body[b][1]
                 /\ body[a][1] < body[b][1] =>
                      \E k \in a + 1 .. b : body[k] = Header(body[b][1])
        PROVE  /\ report[i][1] <= report[j][1]
               /\ report[i][1] < report[j][1] =>
                    \E k \in i + 1 .. j : report[k] = Header(report[j][1])
    <3>1. i \in 1 .. Len(body) /\ report[i] = body[i]
      BY <2>1, ClosedParts DEF IsLine
    <3>2. j \in 1 .. Len(body) /\ report[j] = body[j]
      BY <2>1, ClosedParts DEF IsLine
    <3>3. \A k \in i + 1 .. j : report[k] = body[k]
      <4>1. \A k \in i + 1 .. j : k \in 1 .. Len(body)
        BY <3>1, <3>2
      <4> QED BY <2>1, <4>1, ClosedParts
    <3> QED BY <2>1, <3>1, <3>2, <3>3, SMTT(30) DEF IsLine
  <2>2. CASE report = <<>>
    BY <2>2
  <2>3. CASE \E open : report = Closed(live, open)
    <3>1. ASSUME NEW a \in 1 .. Len(live), NEW b \in 1 .. Len(live), a < b,
                 live[a] # Blank, live[b] # Blank
          PROVE  /\ live[a][1] <= live[b][1]
                 /\ live[a][1] < live[b][1] =>
                      \E k \in a + 1 .. b : live[k] = Header(live[b][1])
      <4>1. /\ live[a][1] <= live[b][1]
            /\ live[a][1] \in Nat /\ live[b][1] \in Nat
        BY <3>1, LiveParts DEF LiveInv
      <4>2. PICK k \in 1 .. b : live[k] = Header(live[b][1])
        BY <3>1 DEF LiveInv
      <4>3. live[k] # Blank /\ live[k][1] = live[b][1]
        BY <4>2 DEF Header, Blank
      <4>4. ASSUME k < a PROVE live[b][1] <= live[a][1]
        <5>1. k \in 1 .. Len(live)
          OBVIOUS
        <5>2. live[k][1] <= live[a][1]
          BY <3>1, <4>3, <4>4, <5>1 DEF LiveInv
        <5> QED BY <4>3, <5>2
      <4>5. live[a][1] < live[b][1] => ~(k < a) /\ k # a
        BY <4>1, <4>3, <4>4
      <4> QED BY <4>1, <4>2, <4>5
    <3>2. live \in Seq(Lines \cup {Blank})
      BY DEF IInv, TypeInv
    <3> QED BY <2>1, <2>3, <3>1, <3>2
  <2>4. ASSUME NEW open, NEW order, NEW lines,
               Grouping(order, lines, output_lines, Len(output_lines)),
               report = Closed(lines, open)
        PROVE  /\ report[i][1] <= report[j][1]
               /\ report[i][1] < report[j][1] =>
                    \E k \in i + 1 .. j : report[k] = Header(report[j][1])
    <3>1. lines \in Seq(Lines \cup {Blank})
      BY <2>4, GroupedParts
    <3>2. \A a, b \in 1 .. Len(lines) : a < b =>
            /\ lines[a][1] <= lines[b][1]
            /\ lines[a][1] < lines[b][1] =>
                 \E k \in a + 1 .. b : lines[k] = Header(lines[b][1])
      BY <2>4, GroupedRounds DEF Header
    <3> QED BY <2>1, <2>4, <3>1, <3>2
  <2> QED BY <2>2, <2>3, <2>4, ReportBody
<1> QED BY <1>1, NotesInductive, LiveInductive, PTL

\* Between two lines of other threads the workers come one after the other.
LEMMA GroupedWorkers ==
  ASSUME IInv, NInv, NEW order, NEW lines,
         Grouping(order, lines, output_lines, Len(output_lines)),
         NEW i \in 1 .. Len(lines), NEW j \in 1 .. Len(lines), i < j,
         \A k \in i .. j : lines[k][2] \in Workers
  PROVE  \/ lines[i][2] < lines[j][2]
         \/ /\ lines[i][2] = lines[j][2]
            /\ Earlier(lines[i], lines[j])
<1>0. /\ Len(lines) = Len(output_lines)
      /\ \A m \in 1 .. Len(lines) : order[m] \in 1 .. Len(lines) /\ lines[m] = Line(order[m])
      /\ \A p \in 1 .. Len(lines) : \E m \in 1 .. Len(lines) : order[m] = p
  BY GroupedParts
<1>1. PICK p \in 1 .. Len(output_lines) : p = order[i] /\ lines[i] = Line(p)
  BY <1>0
<1>2. PICK q \in 1 .. Len(output_lines) : q = order[j] /\ lines[j] = Line(q)
  BY <1>0
<1>3. Before(output_lines, p, q)
  BY <1>1, <1>2, GroupedParts
<1>4. /\ output_lines[p].worker < N /\ output_lines[p].worker = Line(p)[2]
      /\ output_lines[q].worker < N /\ output_lines[q].worker = Line(q)[2]
      /\ Line(p)[2] \in Workers
  <2>1. i \in i .. j /\ j \in i .. j
    BY GroupedParts
  <2>2. Line(p)[2] \in Workers /\ Line(q)[2] \in Workers
    BY <1>1, <1>2, <2>1
  <2> QED BY <2>2, Labels
<1>5. SameRun(output_lines, p, q)
  <2> SUFFICES ASSUME ~SameRun(output_lines, p, q) PROVE FALSE
    OBVIOUS
  <2>1. p < q
    BY <1>3 DEF Before
  <2>2. PICK h \in 1 .. Len(output_lines) : p <= h /\ h <= q /\ ~(output_lines[h].worker < N)
    BY <2>1 DEF SameRun
  <2>3. PICK k \in 1 .. Len(lines) : order[k] = h
    BY <1>0, <2>2
  <2>4. \A a \in 1 .. Len(output_lines) :
          ~SameRun(output_lines, a, h) /\ ~SameRun(output_lines, h, a)
    BY <2>2 DEF SameRun
  <2>5. ~(k < i)
    <3> SUFFICES ASSUME k < i PROVE FALSE
      OBVIOUS
    <3>1. Before(output_lines, h, p)
      BY <1>1, <2>3, GroupedParts
    <3> QED BY <2>2, <2>4, <3>1 DEF Before
  <2>6. ~(j < k)
    <3> SUFFICES ASSUME j < k PROVE FALSE
      OBVIOUS
    <3>1. Before(output_lines, q, h)
      BY <1>2, <2>3, GroupedParts
    <3> QED BY <2>2, <2>4, <3>1 DEF Before
  <2>7. k \in i .. j
    BY <2>5, <2>6
  <2>8. Line(h)[2] \in Workers
    BY <1>0, <2>3, <2>7
  <2> QED BY <2>2, <2>8, Labels
<1>6. \/ Line(p)[2] < Line(q)[2]
      \/ Line(p)[2] = Line(q)[2] /\ p < q
  BY <1>3, <1>4, <1>5 DEF Before
<1>7. Line(p)[1] = Line(q)[1]
  BY <1>5, OneRound
<1>8. Line(p)[2] = Line(q)[2] /\ p < q => Earlier(Line(p), Line(q))
  BY <1>4, <1>7 DEF NInv, CountInv, Participants
<1> QED BY <1>1, <1>2, <1>6, <1>8

\* The report of a buffered case loses no line and groups the workers, each with its
\* lines in the order it noted them (group_concurrent_output and its stable sort).
THEOREM ReportGroupsWorkers == Spec => []WorkersGrouped
<1>1. IInv /\ NInv => WorkersGrouped
  <2> SUFFICES ASSUME IInv, NInv, main = "reported", buffer_output, verbosity # "Quiet"
               PROVE  /\ Len(Front(report)) = Len(output_lines)
                      /\ \A i, j \in DOMAIN Front(report) :
                           i < j /\ (\A k \in i .. j : ~Unlabelled(Front(report)[k])) =>
                             \/ Front(report)[i][2] < Front(report)[j][2]
                             \/ /\ Front(report)[i][2] = Front(report)[j][2]
                                /\ Earlier(Front(report)[i], Front(report)[j])
    BY DEF WorkersGrouped, ThreadOf, Earlier
  <2>1. PICK lines : lines = GroupConcurrentOutput(output_lines)
    OBVIOUS
  <2>2. PICK order : Grouping(order, lines, output_lines, Len(output_lines))
    BY <2>1, GroupingSorts DEF Grouped, NInv, RecordInv
  <2>3. lines \in Seq(Lines) /\ Len(lines) = Len(output_lines)
    BY <2>2, GroupedParts
  <2>4. report = IF lines # <<>> THEN Append(lines, Blank) ELSE lines
    BY <2>1 DEF NInv, ReportedInv, Closed
  <2>5. Front(report) = lines
    <3>1. CASE lines = <<>>
      <4>1. report = <<>> /\ Len(<<>>) = 0 /\ SubSeq(<<>>, 1, 0 - 1) = <<>>
        BY <2>4, <3>1
      <4> QED BY <3>1, <4>1 DEF Front
    <3>2. CASE lines # <<>>
      <4>1. report = Append(lines, Blank) /\ lines \in Seq(Lines \cup {Blank})
        BY <2>3, <2>4, <3>2
      <4>2. Len(report) = Len(lines) + 1 /\ report \in Seq(Lines \cup {Blank})
        BY <4>1
      <4>3. Len(report) - 1 = Len(lines)
        BY <2>3, <4>2
      <4>4. SubSeq(report, 1, Len(lines)) = lines
        BY <4>1
      <4> QED BY <4>3, <4>4 DEF Front
    <3> QED BY <3>1, <3>2
  <2>6. ASSUME NEW i \in DOMAIN lines, NEW j \in DOMAIN lines, i < j,
               \A k \in i .. j : ~Unlabelled(lines[k])
        PROVE  \/ lines[i][2] < lines[j][2]
               \/ lines[i][2] = lines[j][2] /\ Earlier(lines[i], lines[j])
    <3>1. i \in 1 .. Len(lines) /\ j \in 1 .. Len(lines)
      BY <2>3
    <3>2. \A k \in i .. j : lines[k][2] \in Workers
      BY <2>6 DEF Unlabelled, ThreadOf
    <3> QED BY <2>2, <2>6, <3>1, <3>2, GroupedWorkers
  <2> QED BY <2>3, <2>5, <2>6
<1> QED BY <1>1, NotesInductive, PTL
=============================================================================
